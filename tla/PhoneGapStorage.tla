--------------------------- MODULE PhoneGapStorage ---------------------------
(* The storage of lib/phonegap.js: DroidDB's transactions, whose queries the *)
(* native side runs one after the other, and CupcakeLocalStorage on top of   *)
(* them, whose copy of the table storage the page reads and writes.          *)
EXTENDS Integers, Sequences, FiniteSets

CONSTANTS
    Keys, Values,   \* of localStorage
    MaxTxs,         \* the transactions, the one that loads among them
    MaxQueries      \* the queries begun when a callback may still begin one

VARIABLES
    droid,      \* the transactions, queryQueue and the native side's jobs
    storage,    \* the copy: a function of some of the keys
    length,     \* localStorage.length
    loaded,     \* initializationComplete was called
    table,      \* the rows of the table on the device
    lost,       \* a query of localStorage failed
    missing     \* keys removed that were not there, since length was last set

vars == <<droid, storage, length, loaded, table, lost, missing>>

NoKey == "no key"

Put(f, key, value) == [k \in DOMAIN f \cup {key} |-> IF k = key THEN value ELSE f[k]]
Without(f, key) == [k \in DOMAIN f \ {key} |-> f[k]]

-----------------------------------------------------------------------------
(* DroidDB.  A transaction is [queries, callbacks, threw, heard, failed]     *)

Sql(verb, key, value) == [verb |-> verb, key |-> key, value |-> value]

\* executeSql of transaction t
ExecuteSql(d, t, sql) ==
    [d EXCEPT !.next = @ + 1,
              !.queue = @ \cup {d.next},
              !.txs[t].queries = @ \cup {d.next},
              !.jobs = Append(@, [id |-> d.next, tx |-> t, sql |-> sql])]

\* transaction(process, errorCallback, successCallback): process asks for the
\* queries, two at most (BOUND), and may throw in the end
Transaction(d, callbacks, sqls, throws) ==
    LET tx    == [queries |-> {}, callbacks |-> callbacks, threw |-> throws, failed |-> FALSE,
                  heard |-> IF throws THEN <<"error">> ELSE <<>>]
        t     == Len(d.txs) + 1
        begun == [d EXCEPT !.txs = Append(@, tx)]
        first == IF sqls = <<>> THEN begun ELSE ExecuteSql(begun, t, sqls[1])
    IN  IF Len(sqls) < 2 THEN first ELSE ExecuteSql(first, t, sqls[2])

\* Mutant of QueryComplete: the transaction succeeds with each of its queries.
QueryComplete_Each(d, t, id) ==
    LET left == [d EXCEPT !.txs[t].queries = @ \ {id}]
    IN  IF d.txs[t].callbacks THEN [left EXCEPT !.txs[t].heard = Append(@, "success")] ELSE left

\* queryComplete: the last query of a transaction makes it succeed
QueryComplete(d, t, id) ==
    LET left == [d EXCEPT !.txs[t].queries = @ \ {id}]
    IN  IF d.txs[t].callbacks /\ left.txs[t].queries = {}
        THEN [left EXCEPT !.txs[t].heard = Append(@, "success")] ELSE left

\* queryFailed: what is left of the transaction is forgotten
QueryFailed(d, t) ==
    LET tx == d.txs[t]
    IN  [d EXCEPT !.txs[t] =
            [tx EXCEPT !.queries = {}, !.failed = TRUE,
                       !.heard = IF tx.callbacks THEN Append(tx.heard, "error") ELSE tx.heard]]

\* The job's query leaves queryQueue; another is asked for by its callback when
\* more is TRUE, before the transaction looks whether it is done
Answered(d, job) == [d EXCEPT !.jobs = Tail(@), !.queue = @ \ {job.id}]

More(d, job, more) == IF more THEN ExecuteSql(d, job.tx, Sql("page", NoKey, NoKey)) ELSE d

CompleteQuery(d, job, more) ==
    LET got == Answered(d, job)
    IN  IF job.id \in d.txs[job.tx].queries
        THEN QueryComplete(More(got, job, more), job.tx, job.id) ELSE got

Fail(d, job, more) ==
    LET got == [Answered(d, job) EXCEPT !.txs[job.tx].queries = {}]
    IN  IF job.id \in d.txs[job.tx].queries
        THEN QueryFailed(More(got, job, more), job.tx) ELSE Answered(d, job)

-----------------------------------------------------------------------------
(* CupcakeLocalStorage                                                       *)

Create == Sql("create", NoKey, NoKey)

\* The table begins as it was left
Init ==
    /\ table \in UNION {[ks -> Values] : ks \in SUBSET Keys}
    /\ storage = [k \in {} |-> NoKey] /\ length = 0 /\ loaded = FALSE /\ lost = FALSE /\ missing = 0
    /\ droid = Transaction([txs |-> <<>>, queue |-> {}, jobs |-> <<>>, next |-> 1], FALSE,
                           <<Create, Sql("select", NoKey, NoKey)>>, FALSE)

\* Every change is a transaction of its own, without callbacks
Change(sql) ==
    /\ Len(droid.txs) < MaxTxs
    /\ droid' = Transaction(droid, FALSE, <<Create, sql>>, FALSE)

\* The page uses localStorage after deviceready, which waits for the rows
SetItem(key, value) ==
    /\ loaded /\ Change(Sql("replace", key, value))
    /\ length' = IF key \in DOMAIN storage THEN length ELSE length + 1
    /\ storage' = Put(storage, key, value)
    /\ UNCHANGED <<loaded, table, lost, missing>>

\* removeItem; the length goes down for a key that is not there, too
RemoveItem(key) ==
    /\ loaded /\ Change(Sql("delete", key, NoKey))
    /\ storage' = Without(storage, key)
    /\ length' = length - 1
    /\ missing' = IF key \in DOMAIN storage THEN missing ELSE missing + 1
    /\ UNCHANGED <<loaded, table, lost>>

Clear ==
    /\ loaded /\ Change(Sql("clear", NoKey, NoKey))
    /\ storage' = [k \in {} |-> NoKey] /\ length' = 0 /\ missing' = 0
    /\ UNCHANGED <<loaded, table, lost>>

\* The page's own transactions, of no query, one or two
PageTransaction(n, throws) ==
    /\ Len(droid.txs) < MaxTxs
    /\ droid' = Transaction(droid, TRUE, [i \in 1..n |-> Sql("page", NoKey, NoKey)], throws)
    /\ UNCHANGED <<storage, length, loaded, table, lost, missing>>

\* What a statement does to the table on the device
Run(rows, sql) ==
    CASE sql.verb = "replace" -> Put(rows, sql.key, sql.value)
      [] sql.verb = "delete" -> Without(rows, sql.key)
      [] sql.verb = "clear" -> [k \in {} |-> NoKey]
      [] OTHER -> rows

\* A callback of the page's queries may ask for more, MaxQueries in all
MayAsk(job, more) == more => job.sql.verb = "page" /\ droid.next <= MaxQueries

\* The native side runs the first job; the rows of the select are the copy
RunJob(more) ==
    /\ droid.jobs # <<>>
    /\ LET job == Head(droid.jobs)
       IN  /\ MayAsk(job, more)
           /\ droid' = CompleteQuery(droid, job, more)
           /\ table' = Run(table, job.sql)
           /\ IF job.sql.verb = "select" /\ job.id \in droid.txs[job.tx].queries
              THEN /\ storage' = [k \in DOMAIN storage \cup DOMAIN table |->
                                     IF k \in DOMAIN table THEN table[k] ELSE storage[k]]
                   /\ length' = Cardinality(DOMAIN table)
                   /\ loaded' = TRUE /\ missing' = 0
              ELSE UNCHANGED <<storage, length, loaded, missing>>
    /\ UNCHANGED lost

FailJob(more) ==
    /\ droid.jobs # <<>>
    /\ LET job == Head(droid.jobs)
       IN  /\ MayAsk(job, more)
           /\ droid' = Fail(droid, job, more)
           /\ lost' = (lost \/ ~droid.txs[job.tx].callbacks)
    /\ UNCHANGED <<storage, length, loaded, table, missing>>

Next ==
    \/ \E key \in Keys : RemoveItem(key) \/ \E value \in Values : SetItem(key, value)
    \/ Clear
    \/ \E n \in 0..2, throws \in BOOLEAN : PageTransaction(n, throws)
    \/ \E more \in BOOLEAN : RunJob(more) \/ FailJob(more)

Spec == Init /\ [][Next]_vars

-----------------------------------------------------------------------------
(* Properties                                                                *)

JobsOf(t) == {i \in DOMAIN droid.jobs : droid.jobs[i].tx = t}

\* A transaction of the page with a query in it, and whose function does not
\* throw, is told once how it ended: that it failed as soon as a query did,
\* that it succeeded when the last query has
TransactionsSettle ==
    \A t \in DOMAIN droid.txs :
        LET tx == droid.txs[t]
        IN  /\ tx.queries \subseteq droid.queue
            /\ tx.callbacks /\ ~tx.threw =>
                 /\ Len(tx.heard) <= 1
                 /\ (tx.failed <=> tx.heard = <<"error">>)
                 /\ (tx.heard = <<"success">> => JobsOf(t) = {})

\* What a statement is about
Touches(sql, key) == sql.verb = "clear" \/ (sql.verb \in {"replace", "delete"} /\ sql.key = key)

\* The last of the jobs about a key
IsLast(i, key) ==
    /\ Touches(droid.jobs[i].sql, key)
    /\ \A j \in DOMAIN droid.jobs : j > i => ~Touches(droid.jobs[j].sql, key)

SameRow(f, g, key) ==
    /\ key \in DOMAIN f <=> key \in DOMAIN g
    /\ key \in DOMAIN f => f[key] = g[key]

\* Unless a query failed, the copy is what the table becomes when the jobs
\* asked for are done: what the last job about a key leaves, and the table's
\* row when there is none.  And length counts the copy, less by one for each
\* key removed that was not there
StorageAgrees ==
    loaded /\ ~lost =>
        /\ \A key \in Keys :
              \/ /\ \A i \in DOMAIN droid.jobs : ~Touches(droid.jobs[i].sql, key)
                 /\ SameRow(storage, table, key)
              \/ \E i \in DOMAIN droid.jobs :
                    IsLast(i, key) /\ SameRow(storage, Run(table, droid.jobs[i].sql), key)
        /\ length = Cardinality(DOMAIN storage) - missing

=============================================================================
