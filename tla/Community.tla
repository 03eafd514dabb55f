------------------------------- MODULE Community -------------------------------
(***************************************************************************)
(* CommunityManagementImpl, the bundle that keeps the participants of a    *)
(* community: receiveQuery, which the component's worker threads call for  *)
(* each query (one thread per query in work), and getParticipants, which   *)
(* the threads of other bundles call.                                      *)
(*                                                                         *)
(* The participants are a HashSet that nothing guards.  contains and the   *)
(* scan of add or remove that follows it are one read; the write is a step *)
(* of its own, and so is each round of the loop over the set.  Users fall  *)
(* into different buckets of the set; two writes for one user do not.      *)
(***************************************************************************)
EXTENDS Naturals

CONSTANTS
    Users,          \* bare JIDs
    Requests,       \* queries and calls of getParticipants
    ChildOf,        \* the element in each query; "get" for a call
    UserOf          \* the bare JID each query comes from

ASSUME CommunityAssumption ==
    /\ ChildOf \in [Requests -> {"join", "leave", "who", "other", "get"}]
    /\ UserOf \in [Requests -> Users]

VARIABLES
    entries,        \* entries of the set for each user
    at,             \* where each request is
    crossed,        \* writers another write for their user has overtaken
    modified,       \* readers that began before the last change of modCount
    visited,        \* users each reader has gone by
    listed,         \* users it has listed
    answer,         \* what came of each request
    before,         \* history: for each writer, the writers of its user that
                    \* were done when it came
    steady,         \* history: for each reader, users that have been in the
                    \* set ever since
    ever            \* history: and those that have been at some time since

reading == <<visited, listed>>
history == <<before, steady, ever>>
vars == <<entries, at, crossed, modified, reading, answer, history>>

Writers == {r \in Requests : ChildOf[r] \in {"join", "leave"}}
Readers == {r \in Requests : ChildOf[r] \in {"who", "get"}}
WritersOf(u) == {r \in Writers : UserOf[r] = u}

participants == {u \in Users : entries[u] > 0}

At == {"new", "asked", "insert", "unlink", "visit", "done"}
Answer == {"none", "result", "null", "exception"}

TypeOK ==
    /\ entries \in [Users -> Nat]
    /\ at \in [Requests -> At]
    /\ crossed \subseteq Requests
    /\ modified \subseteq Requests
    /\ visited \in [Requests -> SUBSET Users]
    /\ listed \in [Requests -> SUBSET Users]
    /\ answer \in [Requests -> Answer]
    /\ before \in [Requests -> SUBSET Requests]
    /\ steady \in [Requests -> SUBSET Users]
    /\ ever \in [Requests -> SUBSET Users]

Init ==
    /\ entries = [u \in Users |-> 0]
    /\ at = [r \in Requests |-> "new"]
    /\ crossed = {}
    /\ modified = {}
    /\ visited = [r \in Requests |-> {}]
    /\ listed = [r \in Requests |-> {}]
    /\ answer = [r \in Requests |-> "none"]
    /\ before = [r \in Requests |-> {}]
    /\ steady = [r \in Requests |-> {}]
    /\ ever = [r \in Requests |-> {}]

-----------------------------------------------------------------------------

Goto(r, from, to) == at[r] = from /\ at' = [at EXCEPT ![r] = to]
Done(r, from, result) ==
    Goto(r, from, "done") /\ answer' = [answer EXCEPT ![r] = result]

\* modCount grows: the readers under way will notice.
Modify == modified' = modified \cup {r \in Requests : at[r] = "visit"}

\* The set is changed; writers for the same user under way are overtaken.
Write(r, n) ==
    LET u == UserOf[r]
        now == {v \in Users : IF v = u THEN n > 0 ELSE entries[v] > 0}
        waiting == {s \in Readers : at[s] \in {"asked", "visit"}}
    IN
    /\ entries' = [entries EXCEPT ![u] = n]
    /\ crossed' = crossed \cup {s \in WritersOf(u) \ {r} :
                                   at[s] \in {"insert", "unlink"}}
    /\ steady' = [s \in Requests |->
                     IF s \in waiting THEN steady[s] \cap now ELSE steady[s]]
    /\ ever' = [s \in Requests |->
                   IF s \in waiting THEN ever[s] \cup now ELSE ever[s]]

\* A request comes: a worker calls receiveQuery, or a bundle getParticipants.
Ask(r) ==
    /\ Goto(r, "new", "asked")
    /\ before' = [before EXCEPT ![r] = {s \in WritersOf(UserOf[r]) :
                                           r \in Writers /\ at[s] = "done"}]
    /\ steady' = [steady EXCEPT ![r] = {u \in participants : r \in Readers}]
    /\ ever' = [ever EXCEPT ![r] = {u \in participants : r \in Readers}]
    /\ UNCHANGED <<entries, crossed, modified, reading, answer>>

\* An element none of the ifs is for: receiveQuery returns null.
Other(r) ==
    /\ ChildOf[r] = "other"
    /\ Done(r, "asked", "null")
    /\ UNCHANGED <<entries, crossed, modified, reading, history>>

\* "if (!participants.contains(jid)) participants.add(jid)": as far as the
\* scan of add, which counts the change before it makes it.
Join(r) ==
    /\ ChildOf[r] = "join"
    /\ \/ /\ UserOf[r] \in participants
          /\ Done(r, "asked", "result")
          /\ UNCHANGED modified
       \/ /\ UserOf[r] \notin participants
          /\ Goto(r, "asked", "insert")
          /\ Modify
          /\ UNCHANGED answer
    /\ UNCHANGED <<entries, crossed, reading, history>>

\* Mutant of Insert: the jid is not added.
Insert_Not(r) ==
    /\ Done(r, "insert", "result")
    /\ Write(r, entries[UserOf[r]])
    /\ UNCHANGED <<modified, reading, before>>

\* The new entry is linked in before the others of its bucket.  A writer that
\* was overtaken may find itself beside an entry for the same user, may cut
\* others off, or may link in again what was taken out.
Insert(r) ==
    LET n == entries[UserOf[r]] IN
    /\ Done(r, "insert", "result")
    /\ \E m \in (IF r \in crossed THEN 1 .. n + 2 ELSE {n + 1}) : Write(r, m)
    /\ UNCHANGED <<modified, reading, before>>

\* Mutant of Leave: the if asks whether the jid is not there.
Leave_NotContains(r) ==
    /\ ChildOf[r] = "leave"
    /\ \/ /\ UserOf[r] \in participants
          /\ Done(r, "asked", "result")
          /\ UNCHANGED modified
       \/ /\ UserOf[r] \notin participants
          /\ Goto(r, "asked", "unlink")
          /\ Modify
          /\ UNCHANGED answer
    /\ UNCHANGED <<entries, crossed, reading, history>>

\* "if (participants.contains(jid)) participants.remove(jid)": as far as the
\* scan of remove.
Leave(r) ==
    /\ ChildOf[r] = "leave"
    /\ \/ /\ UserOf[r] \notin participants
          /\ Done(r, "asked", "result")
          /\ UNCHANGED modified
       \/ /\ UserOf[r] \in participants
          /\ Goto(r, "asked", "unlink")
          /\ Modify
          /\ UNCHANGED answer
    /\ UNCHANGED <<entries, crossed, reading, history>>

\* The entry that was found is linked out, one if there are two; overtaken,
\* it may be none, or cut off others.
Unlink(r) ==
    LET n == entries[UserOf[r]] IN
    /\ Done(r, "unlink", "result")
    /\ \E m \in (IF r \in crossed THEN 0 .. n ELSE {n - 1}) : Write(r, m)
    /\ UNCHANGED <<modified, reading, before>>

\* The loop over participants of who, and of the copy in getParticipants.
Read(r) ==
    /\ r \in Readers
    /\ Goto(r, "asked", "visit")
    /\ modified' = modified \ {r}
    /\ UNCHANGED <<entries, crossed, reading, answer, history>>

\* The iterator goes by a user: it lists a participant, if modCount has not
\* changed.
Visit(r, u) ==
    /\ at[r] = "visit"
    /\ u \notin visited[r]
    /\ u \in participants => r \notin modified
    /\ visited' = [visited EXCEPT ![r] = @ \cup {u}]
    /\ listed' = [listed EXCEPT ![r] = @ \cup ({u} \cap participants)]
    /\ UNCHANGED <<entries, at, crossed, modified, answer, history>>

\* It throws a ConcurrentModificationException: there is another participant
\* to list, or there was when it listed the last.
Throw(r) ==
    /\ r \in modified
    /\ participants \ visited[r] # {} \/ listed[r] # {}
    /\ Done(r, "visit", "exception")
    /\ UNCHANGED <<entries, crossed, modified, reading, history>>

\* Mutant of EndRead: hasNext is asked once too seldom.
EndRead_Early(r) ==
    /\ Done(r, "visit", "result")
    /\ UNCHANGED <<entries, crossed, modified, reading, history>>

EndRead(r) ==
    /\ visited[r] = Users
    /\ Done(r, "visit", "result")
    /\ UNCHANGED <<entries, crossed, modified, reading, history>>

Serve(r) ==
    \/ Other(r) \/ Join(r) \/ Insert(r) \/ Leave(r) \/ Unlink(r)
    \/ Read(r) \/ (\E u \in Users : Visit(r, u)) \/ Throw(r) \/ EndRead(r)

Next == \E r \in Requests : Ask(r) \/ Serve(r)

Spec == Init /\ [][Next]_vars

-----------------------------------------------------------------------------
\* A user's joins and leaves have been in work one at a time.
InTurn(u) ==
    \A r, s \in {q \in WritersOf(u) : at[q] # "new"} :
        r # s => r \in before[s] \/ s \in before[r]

Answered(r, child) == ChildOf[r] = child /\ answer[r] = "result"

\* No request of this kind and of r's user has come since r came, or was in
\* work then.
NoneSince(r, child) ==
    \A s \in Requests \ {r} :
        (ChildOf[s] = child /\ UserOf[s] = UserOf[r]) =>
            (at[s] = "new" \/ s \in before[r])

\* A user whose join was answered is a participant, until a leave of that user
\* comes (l.99-108), however many joins overlap.
JoinedIsIn ==
    \A r \in Requests :
        (Answered(r, "join") /\ NoneSince(r, "leave")) =>
            UserOf[r] \in participants

\* The list sent for who, and the set returned by getParticipants, hold
\* everyone who was a participant all the while, and nobody who was not at any
\* time of it, though others join and leave between two rounds of the loop
\* (l.119-134, l.152-154).
ListedRightly ==
    \A r \in Requests :
        (Answered(r, "who") \/ Answered(r, "get")) =>
            steady[r] \subseteq listed[r] /\ listed[r] \subseteq ever[r]

\* A user whose leave was answered is no participant, until a join of that
\* user comes (l.109-118): if the user's joins and leaves have been in work one
\* at a time.
LeftIsOutInTurn ==
    \A r \in Requests :
        (Answered(r, "leave") /\ NoneSince(r, "join") /\ InTurn(UserOf[r])) =>
            UserOf[r] \notin participants

-----------------------------------------------------------------------------
(* The inductive invariant of the proofs.                                   *)

\* A writer that was not overtaken finds the entry it has read.
WriterInv ==
    \A r \in Requests :
        /\ at[r] = "insert" => ChildOf[r] = "join"
        /\ at[r] = "unlink" => ChildOf[r] = "leave"
        /\ at[r] = "visit" => r \in Readers
        /\ (at[r] = "unlink" /\ r \notin crossed) => UserOf[r] \in participants
        /\ answer[r] = "result" => at[r] = "done"
        /\ \A s \in before[r] : at[s] = "done"

ReaderInv ==
    \A r \in Readers :
        /\ at[r] \in {"asked", "visit"} =>
              steady[r] \subseteq participants /\ participants \subseteq ever[r]
        /\ at[r] # "new" => /\ steady[r] \cap visited[r] \subseteq listed[r]
                            /\ listed[r] \subseteq ever[r]
        /\ at[r] \in {"new", "asked"} => visited[r] = {} /\ listed[r] = {}
        /\ answer[r] = "result" => steady[r] \subseteq listed[r]

\* A user whose queries come in turn has at most one entry.
TurnInv ==
    \A u \in Users : InTurn(u) =>
        /\ entries[u] \in {0, 1}
        /\ WritersOf(u) \cap crossed = {}
        /\ \A r \in WritersOf(u) : at[r] = "insert" => entries[u] = 0

\* The parts relate what a request has read to what has happened since
\* (l.101-115, l.123-130); with TypeOK and the properties above each step
\* preserves them.
ServeInv == WriterInv /\ ReaderInv /\ TurnInv

=============================================================================
