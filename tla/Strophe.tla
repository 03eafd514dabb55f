------------------------------- MODULE Strophe -------------------------------
(* The XMPP session of lib/strophe.js: a Strophe.Connection that carries a   *)
(* stream over BOSH, i.e. over a queue of HTTP requests of which at most two *)
(* are with the server.  The object the code calls "this" is the record      *)
(* conn, and every method is an operator from the object to the object it    *)
(* leaves; the actions are what the browser starts: a call of the page, an   *)
(* answer of the server, a timer.                                            *)
(*                                                                           *)
(* Data is abstracted to what the code branches on.  A stanza is named by    *)
(* the handler that waits for it, so no two handlers match one stanza and    *)
(* the handler lists are sets.  Of a rid only differences are read (the      *)
(* window), so rids are counted from the oldest request.  Ages are compared  *)
(* with two limits: age 1 is over SECONDARY_TIMEOUT, age 2 over TIMEOUT.     *)
(* An aborted XMLHttpRequest fires no further event: it leaves the queue.    *)
EXTENDS Integers, Sequences, SequencesExt, FiniteSets

CONSTANTS
    Iqs,        \* the iq stanzas the page sends with sendIQ, each once
    TimedIqs,   \* those it gives a timeout
    Window,     \* this.window, 5 in the code
    SendLimit,  \* a request sent more often than this ends the session, 5
    ErrorLimit, \* more errors in a row than this end it, 4
    Offers,     \* the mechanism lists the server may announce
    Nodes,      \* whether the jid may have a node: a subset of BOOLEAN
    FailStatus, \* the HTTP statuses other than 200 the server may answer
    Bodies,     \* the defective 200 answers it may give
    MaxCalls    \* the bound on calls of disconnect, pause and flush

ASSUME IqAssumption == TimedIqs \subseteq Iqs
ASSUME LimitAssumption ==
    Window \in Nat \ {0} /\ SendLimit \in Nat /\ ErrorLimit \in Nat /\ MaxCalls \in Nat
ASSUME ServerAssumption ==
    /\ {} \in Offers /\ TRUE \in Nodes /\ Nodes \subseteq BOOLEAN
    /\ FailStatus \subseteq {"0", "3xx", "4xx", "5xx"}
    /\ Bodies \subseteq {"empty", "parsererror", "terminate"}

VARIABLES
    conn,   \* the Strophe.Connection
    owed,   \* what the server has read and not yet answered
    session,\* whether the server has a session: after the first answer, until
            \* it read or sent a terminate
    calls,  \* calls of disconnect, pause and flush so far
    beat    \* whether the idle timer fired in the last step, and the timed
            \* handlers whose period had ended then

vars == <<conn, owed, session, calls, beat>>

Status == {"none", "CONNECTING", "CONNFAIL", "AUTHENTICATING", "AUTHFAIL",
           "CONNECTED", "DISCONNECTED", "DISCONNECTING", "ATTACHED"}

SysHandlers == {"success", "failure", "challenge1", "challenge2", "features",
                "bind", "session", "auth1", "auth2"}

\* The ids sendIQ makes are none of the ids the library uses itself, and no
\* names of its stanzas
ASSUME NamesAssumption ==
    /\ Iqs \cap (SysHandlers \cup {"disconnect"}) = {}
    /\ Iqs \cap {"auth", "authDigest", "challenge", "response1", "response2", "restart"} = {}

\* Strophe.Request: state is the readyState together with how it failed
Request(body, sid, func, rid, sends) ==
    [body |-> body, sid |-> sid, func |-> func, rid |-> rid, sends |-> sends,
     state |-> "new", age |-> 0, dead |-> 0, taken |-> FALSE]

\* The object new Strophe.Connection(service) makes; its first _onIdle is set
Connection(service) ==
    [service |-> service, rid |-> 0, sid |-> FALSE,
     do_session |-> FALSE,
     handlers |-> {}, addHandlers |-> {}, removeHandlers |-> {},
     timedHandlers |-> {}, addTimeds |-> {}, removeTimeds |-> {},
     authenticated |-> FALSE, connected |-> FALSE, disconnecting |-> FALSE,
     errors |-> 0, paused |-> FALSE, data |-> <<>>, requests |-> <<>>,
     idle |-> TRUE, status |-> "none",
     iq |-> [q \in Iqs |-> {}]]

\* _changeConnectStatus: status is what connect_callback was last told
ChangeConnectStatus(c, status) == [c EXCEPT !.status = status]

\* Handler and TimedHandler registration; the lists change at the next
\* _dataRecv and the next _onIdle
AddHandler(c, hs)         == [c EXCEPT !.addHandlers = @ \cup hs]
DeleteHandler(c, hs)      == [c EXCEPT !.removeHandlers = @ \cup hs]
AddTimedHandler(c, t)     == [c EXCEPT !.addTimeds = @ \cup {t}]
DeleteTimedHandler(c, ts) == [c EXCEPT !.removeTimeds = @ \cup ts]

\* Mutant of DoDisconnect: connected is reset before the page is told.
DoDisconnect_ResetFirst(c) ==
    [c EXCEPT !.authenticated = FALSE, !.disconnecting = FALSE,
              !.connected = FALSE, !.sid = FALSE, !.rid = @ + Window,
              !.handlers = {}, !.addHandlers = {}, !.removeHandlers = {},
              !.timedHandlers = {}, !.addTimeds = {}, !.removeTimeds = {}]

\* _doDisconnect: the requests and the queued data stay, the rid is random
\* again, which the model takes as a rid outside the window of the old ones
DoDisconnect(c) ==
    LET told == IF c.connected THEN ChangeConnectStatus(c, "DISCONNECTED") ELSE c
    IN  [told EXCEPT !.authenticated = FALSE, !.disconnecting = FALSE,
                     !.connected = FALSE, !.sid = FALSE, !.rid = @ + Window,
                     !.handlers = {}, !.addHandlers = {}, !.removeHandlers = {},
                     !.timedHandlers = {}, !.addTimeds = {},
                     !.removeTimeds = {}]

\* _onDisconnectTimeout: every request is aborted
OnDisconnectTimeout(c) == DoDisconnect([c EXCEPT !.requests = <<>>])

\* _buildBody, new Strophe.Request and _requests.push
PushRequest(c, body, func) ==
    [c EXCEPT !.requests = Append(@, Request(body, c.sid, func, c.rid, 0)),
              !.rid = @ + 1]

-----------------------------------------------------------------------------
(* The request queue                                                         *)

\* The request is given up and made again with the count of its sends
NeedsRestart(req) ==
    \/ req.state \in {"posted", "refused"} /\ req.age = 2
    \/ req.dead = 2
    \/ req.state = "failed"

\* A new request is opened, and sent at once unless it was sent twice before
Post(req) == [req EXCEPT !.sends = @ + 1,
                         !.state = IF req.sends > 1 THEN "opened" ELSE "posted"]

\* _processRequest: one that failed, timed out or was never sent goes out.
\* A bad service URL makes open() throw, and as nothing was ever received
\* then, disconnect() only tells the page.
ProcessRequest(c, i) ==
    LET old == c.requests[i]
        req == IF NeedsRestart(old)
                 THEN [Request(old.body, old.sid, old.func, old.rid, old.sends)
                         EXCEPT !.taken = old.taken]
                 ELSE old
    IN  IF old.sends > SendLimit THEN OnDisconnectTimeout(c)
        ELSE IF req.state # "new" THEN c
        ELSE IF ~c.service
               THEN ChangeConnectStatus(ChangeConnectStatus(c, "CONNFAIL"), "DISCONNECTING")
               ELSE [c EXCEPT !.requests[i] = Post(req)]

\* _throttledRequestHandler: the first request, and the second if it is in
\* the window of the first
ThrottledRequestHandler(c) ==
    IF c.requests = <<>> THEN c
    ELSE LET d == ProcessRequest(c, 1)
         IN  IF /\ Len(d.requests) > 1
                /\ d.requests[2].rid - d.requests[1].rid < Window
               THEN ProcessRequest(d, 2)
               ELSE d

RemoveRequest(c, i) ==
    ThrottledRequestHandler([c EXCEPT !.requests = RemoveAt(@, i)])

RestartRequest(c, i) ==
    ProcessRequest([c EXCEPT !.requests[i].dead = IF @ = 0 THEN 1 ELSE @], i)

\* _hitError; counts over the limit are all alike
HitError(c) ==
    LET d == [c EXCEPT !.errors = IF @ > ErrorLimit THEN @ ELSE @ + 1]
    IN  IF d.errors > ErrorLimit THEN OnDisconnectTimeout(d) ELSE d

\* send and _sendRestart: queue the data, process the queue, set the timer
Send(c, items) ==
    [ThrottledRequestHandler([c EXCEPT !.data = @ \o items]) EXCEPT !.idle = TRUE]

\* _sendTerminate
SendTerminate(c) ==
    ThrottledRequestHandler(
        [PushRequest(c, <<"terminate">>, "data") EXCEPT !.disconnecting = TRUE])

\* Mutant of Disconnect: the disconnect timeout is not set.
Disconnect_NoTimeout(c) ==
    LET told == ChangeConnectStatus(c, "DISCONNECTING")
    IN  IF c.connected THEN SendTerminate(told) ELSE told

\* disconnect: without a connection it only tells the page
Disconnect(c) ==
    LET told == ChangeConnectStatus(c, "DISCONNECTING")
    IN  IF c.connected THEN SendTerminate(AddTimedHandler(told, "disconnect"))
                       ELSE told

-----------------------------------------------------------------------------
(* The handlers of the stream's negotiation                                  *)

\* authenticated, and the page's on_connect, which sends its presence
Connected(c) ==
    Send(ChangeConnectStatus([c EXCEPT !.authenticated = TRUE], "CONNECTED"),
         <<"presence">>)

SaslChallenge1(c) ==
    Send(AddHandler(DeleteHandler(c, {"failure"}), {"challenge2", "success", "failure"}),
         <<"response1">>)

SaslChallenge2(c) ==
    Send(AddHandler(DeleteHandler(c, {"success", "failure"}), {"success", "failure"}),
         <<"response2">>)

SaslSuccess(c) ==
    Send(AddHandler(DeleteHandler(c, {"failure", "challenge1", "challenge2"}), {"features"}),
         <<"restart">>)

SaslFailure(c) ==
    ChangeConnectStatus(DeleteHandler(c, {"success", "challenge1", "challenge2"}), "AUTHFAIL")

\* _sasl_auth1_cb: the features after the restart say what must be asked for
SaslAuth1(c, type) ==
    LET d == [c EXCEPT !.do_session = @ \/ type = "bind+session"]
    IN  IF type = "none" THEN ChangeConnectStatus(d, "AUTHFAIL")
                         ELSE Send(AddHandler(d, {"bind"}), <<"bind">>)

SaslBind(c, type) ==
    IF type = "error" THEN ChangeConnectStatus(c, "AUTHFAIL")
    ELSE IF c.do_session THEN Send(AddHandler(c, {"session"}), <<"session">>)
    ELSE Connected(c)

SaslSession(c, type) ==
    IF type = "result" THEN Connected(c) ELSE ChangeConnectStatus(c, "AUTHFAIL")

\* Legacy authentication
Auth1(c) == Send(AddHandler(c, {"auth2"}), <<"auth2">>)

Auth2(c, type) ==
    IF type = "result" THEN Connected(c)
                       ELSE Disconnect(ChangeConnectStatus(c, "AUTHFAIL"))

\* Mutant of IqHandler: the timeout stays set.
IqHandler_TimeoutStays(c, q, type) == [c EXCEPT !.iq[q] = @ \cup {type}]

\* The closure sendIQ registers: it calls callback or errback
IqHandler(c, q, type) ==
    [DeleteTimedHandler(c, {q}) EXCEPT !.iq[q] = @ \cup {type}]

\* Handler.run
RunHandler(c, h, type) ==
    CASE h = "challenge1" -> SaslChallenge1(c)
      [] h = "challenge2" -> SaslChallenge2(c)
      [] h = "success"    -> SaslSuccess(c)
      [] h = "failure"    -> SaslFailure(c)
      [] h = "features"   -> SaslAuth1(c, type)
      [] h = "bind"       -> SaslBind(c, type)
      [] h = "session"    -> SaslSession(c, type)
      [] h = "auth1"      -> Auth1(c)
      [] h = "auth2"      -> Auth2(c, type)
      [] OTHER            -> IqHandler(c, h, type)

\* Handler.isMatch: by element name for SASL, by id for the rest
IsMatch(h, stanza) ==
    IF h \in {"challenge1", "challenge2"} THEN stanza.for = "challenge"
                                          ELSE stanza.for = h

\* One stanza through the handler chain: the handlers that match and may run
\* are called and dropped (none of them returns true), the others stay
HandleStanza(c, stanza) ==
    LET run(h) == IsMatch(h, stanza) /\ (c.authenticated \/ h \in SysHandlers)
        called == {h \in c.handlers : run(h)}
        rest   == c.handlers \ called
    IN  IF called = {} THEN c
        ELSE LET d == RunHandler([c EXCEPT !.handlers = {}],
                                 CHOOSE h \in called : TRUE, stanza.type)
             IN  [d EXCEPT !.handlers = @ \cup rest]

\* The stanzas of an answer, in order; the server puts at most two into one
HandleStanzas(c, stanzas) ==
    LET d == IF Len(stanzas) > 0 THEN HandleStanza(c, stanzas[1]) ELSE c
    IN  IF Len(stanzas) > 1 THEN HandleStanza(d, stanzas[2]) ELSE d

-----------------------------------------------------------------------------
(* What an answer does.  An answer is [type, stanzas, offer, node]; node,    *)
(* whether the jid has one, is read here only and once in a connection       *)

\* _dataRecv removes the handlers scheduled for deletion, then adds the new
UpdateHandlers(c) ==
    [c EXCEPT !.handlers = (@ \ c.removeHandlers) \cup c.addHandlers,
              !.removeHandlers = {}, !.addHandlers = {}]

\* _dataRecv.  After a body that does not parse, elem is undefined and the
\* method ends in a TypeError once the handler lists are updated.
DataRecv(c, answer) ==
    LET d == UpdateHandlers(IF answer.type = "parsererror" THEN Disconnect(c) ELSE c)
    IN  IF answer.type = "empty" THEN c
        ELSE IF d.disconnecting /\ d.requests = <<>> THEN DoDisconnect(d)
        ELSE IF answer.type = "parsererror" THEN d
        ELSE IF answer.type = "terminate"
          THEN IF d.disconnecting THEN d
               ELSE Disconnect(ChangeConnectStatus(d, "CONNFAIL"))
        ELSE HandleStanzas(d, answer.stanzas)

\* The end of _connect_cb: choose a mechanism and start to authenticate
Authenticate(c, offer, node) ==
    LET auth(hs, item) ==
            Send(AddHandler(ChangeConnectStatus(c, "AUTHENTICATING"), hs), <<item>>)
    IN  IF ~node /\ "ANONYMOUS" \in offer THEN auth({"success", "failure"}, "auth")
        ELSE IF ~node THEN Disconnect(ChangeConnectStatus(c, "CONNFAIL"))
        ELSE IF "DIGEST-MD5" \in offer THEN auth({"challenge1", "failure"}, "authDigest")
        ELSE IF "PLAIN" \in offer THEN auth({"success", "failure"}, "auth")
        ELSE auth({"auth1"}, "auth1")

\* _connect_cb: without the stream's features, a blank request waits for them.
\* On a body that does not parse getResponse throws, and nobody catches it.
ConnectCb(c, answer) ==
    LET d == [c EXCEPT !.connected = TRUE]
    IN  IF answer.type \in {"empty", "parsererror"} THEN d
        ELSE IF answer.type = "terminate" THEN ChangeConnectStatus(d, "CONNFAIL")
        ELSE IF answer.offer = {}
          THEN ThrottledRequestHandler(PushRequest([d EXCEPT !.sid = TRUE], <<>>, "connect"))
        ELSE Authenticate([d EXCEPT !.sid = TRUE], answer.offer, answer.node)

\* func(req): the callback the request was made with; errors is reset after
\* it unless it threw
Callback(c, req, answer) ==
    LET d == IF req.func = "connect" THEN ConnectCb(c, answer) ELSE DataRecv(c, answer)
    IN  IF answer.type = "parsererror" THEN d ELSE [d EXCEPT !.errors = 0]

\* _onRequestStateChange for request i at readyState 4
OnRequestStateChange(c, i, status, answer) ==
    LET req     == c.requests[i]
        failed  == [c EXCEPT !.requests[i].state =
                        IF status = "4xx" THEN "refused" ELSE "failed"]
        removed == status \in {"200", "3xx", "4xx"} \/ req.sends > SendLimit
        left    == IF removed THEN RemoveRequest(c, i) ELSE failed
        restart == i = 2 \/ (i = 1 /\ left.requests # <<>> /\ left.requests[1].age > 0)
    IN  IF c.disconnecting /\ status \in {"4xx", "5xx"} THEN HitError(failed)
        ELSE IF status = "200"
          THEN IF restart /\ left.requests = <<>> THEN left  \* a TypeError
               ELSE Callback(IF restart THEN RestartRequest(left, 1) ELSE left, req, answer)
        ELSE IF status = "4xx"
          THEN DoDisconnect(ChangeConnectStatus(HitError(left), "DISCONNECTING"))
        ELSE IF status = "3xx" THEN left
        ELSE IF removed THEN HitError(left)
        ELSE ThrottledRequestHandler(HitError(left))

-----------------------------------------------------------------------------
(* The idle timer                                                            *)

Scheduled(c) == c.timedHandlers \cup c.addTimeds

\* What the loop may have visited before the disconnect timeout
Earlier(c, due) == IF "disconnect" \in due THEN SUBSET Scheduled(c) ELSE {{}}

\* The closure sendIQ gives addTimedHandler: errback without a stanza
IqTimeouts(c, qs) ==
    [DeleteHandler(c, qs) EXCEPT
        !.iq = [q \in Iqs |-> IF q \in qs THEN @[q] \cup {"timeout"} ELSE @[q]]]

\* Mutant of RunTimedHandlers: those to be added are forgotten.
RunTimedHandlers_AddedLost(c, due, early) ==
    LET timed  == c.timedHandlers \ c.removeTimeds
        active == IF c.authenticated THEN timed ELSE timed \cap {"disconnect"}
        over   == "disconnect" \in active \cap due
        seen   == IF over THEN active \cap early ELSE active
        ran    == IqTimeouts([c EXCEPT !.addTimeds = {}, !.removeTimeds = {}], seen \cap due)
        left   == IF over THEN OnDisconnectTimeout(ran) ELSE ran
    IN  [left EXCEPT !.timedHandlers = seen \ due]

\* The timed handlers that are due and may run do; the others of the page are
\* dropped before authentication.  If the disconnect timeout fires, only those
\* the loop visited before it (early) ran or are kept.
RunTimedHandlers(c, due, early) ==
    LET timed  == Scheduled(c) \ c.removeTimeds
        active == IF c.authenticated THEN timed ELSE timed \cap {"disconnect"}
        over   == "disconnect" \in active \cap due
        seen   == IF over THEN active \cap early ELSE active
        ran    == IqTimeouts([c EXCEPT !.addTimeds = {}, !.removeTimeds = {}], seen \cap due)
        left   == IF over THEN OnDisconnectTimeout(ran) ELSE ran
    IN  [left EXCEPT !.timedHandlers = seen \ due]

\* The items that are not among those dropped, in order
Without(items, dropped) ==
    LET kept[k \in 0..Len(items)] ==
            IF k = 0 THEN <<>>
            ELSE IF items[k] \in dropped THEN kept[k - 1] ELSE Append(kept[k - 1], items[k])
    IN  kept[Len(items)]

\* Mutant of SendQueued: up to three requests in progress.
SendQueued_Three(c) ==
    LET poll == /\ c.authenticated /\ ~c.disconnecting
                /\ c.requests = <<>> /\ c.data = <<>>
        d    == IF poll THEN [c EXCEPT !.data = <<"blank">>] ELSE c
        body == Without(d.data, {"blank"})
        e    == PushRequest([d EXCEPT !.data = <<>>], body, "data")
    IN  IF Len(d.requests) < 3 /\ d.data # <<>> /\ ~d.paused
          THEN ProcessRequest(e, Len(e.requests)) ELSE d

\* Mutant of SendQueued: nothing polls.
SendQueued_NoPoll(c) ==
    LET body == Without(c.data, {"blank"})
        e    == PushRequest([c EXCEPT !.data = <<>>], body, "data")
    IN  IF Len(c.requests) < 2 /\ c.data # <<>> /\ ~c.paused
          THEN ProcessRequest(e, Len(e.requests)) ELSE c

\* Queued data goes out as one request if less than two are in progress; with
\* nothing queued and nothing in progress a blank one polls
SendQueued(c) ==
    LET poll == /\ c.authenticated /\ ~c.disconnecting
                /\ c.requests = <<>> /\ c.data = <<>>
        d    == IF poll THEN [c EXCEPT !.data = <<"blank">>] ELSE c
        body == Without(d.data, {"blank"})
        e    == PushRequest([d EXCEPT !.data = <<>>], body, "data")
    IN  IF Len(d.requests) < 2 /\ d.data # <<>> /\ ~d.paused
          THEN ProcessRequest(e, Len(e.requests)) ELSE d

\* A first request that is dead or too old is processed again
CheckFirst(c) ==
    LET dead == c.requests # <<>> /\ c.requests[1].dead = 2
        old  == c.requests # <<>> /\ c.requests[1].age = 2
        d    == IF dead THEN ThrottledRequestHandler(c) ELSE c
    IN  IF old THEN ThrottledRequestHandler(d) ELSE d

\* _onIdle; the timer is set again only if connected
OnIdle(c, due, early) ==
    LET d == CheckFirst(SendQueued(RunTimedHandlers(c, due, early)))
    IN  [d EXCEPT !.idle = d.connected]

-----------------------------------------------------------------------------
(* The steps                                                                 *)

\* Rids are counted from the oldest request
Rebase(c) ==
    IF c.requests = <<>> THEN [c EXCEPT !.rid = 0]
    ELSE LET first == c.requests[1].rid
             counted(req) == [req EXCEPT !.rid = @ - first]
         IN  [c EXCEPT !.rid = @ - first,
                       !.requests = [i \in DOMAIN @ |-> counted(@[i])]]

Become(c) == conn' = Rebase(c)

Quiet == beat' = [fired |-> FALSE, due |-> {}]

Init ==
    /\ \E service \in BOOLEAN : conn = Connection(service)
    /\ owed = <<>>
    /\ session = FALSE
    /\ calls = 0
    /\ beat = [fired |-> FALSE, due |-> {}]

\* connect
Connect ==
    /\ conn.status = "none"
    /\ Become(ThrottledRequestHandler(
           PushRequest(ChangeConnectStatus(conn, "CONNECTING"), <<"open">>, "connect")))
    /\ UNCHANGED <<owed, session, calls>> /\ Quiet

\* attach to a session made elsewhere
Attach ==
    /\ conn.status = "none" /\ conn.service
    /\ Become(ChangeConnectStatus([conn EXCEPT !.authenticated = TRUE,
                                   !.connected = TRUE, !.sid = TRUE], "ATTACHED"))
    /\ session' = TRUE
    /\ UNCHANGED <<owed, calls>> /\ Quiet

\* A call of the page that the bound counts
Call == calls < MaxCalls /\ calls' = calls + 1 /\ UNCHANGED <<owed, session>> /\ Quiet

\* sendIQ, by a page that shows its buttons once it is told CONNECTED
SendIQ(q) ==
    /\ conn.authenticated /\ conn.iq[q] = {}
    /\ LET asked == AddHandler([conn EXCEPT !.iq[q] = {"sent"}], {q})
           timed == IF q \in TimedIqs THEN AddTimedHandler(asked, q) ELSE asked
       IN  Become(Send(timed, <<q>>))
    /\ UNCHANGED <<owed, session, calls>> /\ Quiet

Quit ==
    /\ Call
    /\ conn.status # "none"
    /\ Become(Disconnect(conn))

Pause == Call /\ ~conn.paused /\ conn' = [conn EXCEPT !.paused = TRUE]

Resume ==
    /\ conn.paused /\ conn' = [conn EXCEPT !.paused = FALSE]
    /\ UNCHANGED <<owed, session, calls>> /\ Quiet

Flush ==
    /\ Call
    /\ conn.status # "none"
    /\ \E due \in SUBSET Scheduled(conn) : \E early \in Earlier(conn, due) :
           Become(OnIdle(conn, due, early))

\* The idle timer fires, with the timed handlers whose period has ended by then
Beat(due) == conn.idle /\ beat' = [fired |-> TRUE, due |-> due]

Idle(due) ==
    /\ Beat(due)
    /\ \E early \in Earlier(conn, due) : Become(OnIdle(conn, due, early))
    /\ UNCHANGED <<owed, session, calls>>

\* A backoff ends: sendFunc posts the request that was opened
Backoff(i) ==
    /\ conn.requests[i].state = "opened"
    /\ conn' = [conn EXCEPT !.requests[i].state = "posted"]
    /\ UNCHANGED <<owed, session, calls>> /\ Quiet

\* Time passes: a request gets older, a dead one is dead for longer
Age(i) ==
    /\ conn.requests[i].state \in {"posted", "refused"} /\ conn.requests[i].age < 2
    /\ conn' = [conn EXCEPT !.requests[i].age = @ + 1]
    /\ UNCHANGED <<owed, session, calls>> /\ Quiet

StayDead(i) ==
    /\ conn.requests[i].dead = 1
    /\ conn' = [conn EXCEPT !.requests[i].dead = 2]
    /\ UNCHANGED <<owed, session, calls>> /\ Quiet

-----------------------------------------------------------------------------
(* The BOSH server, as far as the session sees it.  It reads the requests in *)
(* the order of their rids, answers any it has, and each of its answers      *)
(* carries up to two of the stanzas it owes, in order.                       *)

Stanza(for, type) == [for |-> for, type |-> type]

\* The stanzas that may answer an item of a request's body
Replies(item) ==
    CASE item = "auth"       -> {Stanza("success", ""), Stanza("failure", "")}
      [] item = "authDigest" -> {Stanza("challenge", ""), Stanza("failure", "")}
      [] item = "response1"  -> {Stanza("challenge", ""), Stanza("failure", "")}
      [] item = "response2"  -> {Stanza("success", "")}
      [] item = "restart"    -> {Stanza("features", t) : t \in {"none", "bind", "bind+session"}}
      [] item \in {"bind", "session", "auth2"} ->
             {Stanza(item, t) : t \in {"result", "error"}}
      [] item = "auth1"      -> {Stanza("auth1", "result")}
      [] OTHER               -> {Stanza(item, t) : t \in {"result", "error"}}

Unanswered == {"open", "presence", "terminate"}

\* What the server owes once it has read the first i requests
Read(i) ==
    LET body(j) == IF conn.requests[j].taken THEN <<>> ELSE conn.requests[j].body
    IN  owed \o Without(FlattenSeq([j \in 1..i |-> body(j)]), Unanswered)

Taken(i) ==
    [conn EXCEPT !.requests =
        [j \in DOMAIN @ |-> IF j <= i THEN [@[j] EXCEPT !.taken = TRUE] ELSE @[j]]]

\* Whether a terminate is among the first i requests
Terminates(i) == \E j \in 1..i : "terminate" \in Range(conn.requests[j].body)

\* A proper answer: the features to a first request, stanzas to any other
Answer(i) ==
    /\ conn.requests[i].state = "posted"
    /\ conn.requests[i].func = "connect" \/ (session /\ conn.requests[i].sid)
    /\ \E k \in 0..(IF Len(Read(i)) < 2 THEN Len(Read(i)) ELSE 2) :
       \E stanzas \in {s \in [1..k -> UNION {Replies(item) : item \in Range(Read(i))}] :
                           \A j \in 1..k : s[j] \in Replies(Read(i)[j])} :
       \E offer \in Offers, node \in Nodes :
          /\ conn.requests[i].func = "data" => offer = {} /\ node = TRUE
          /\ conn.requests[i].func = "connect" => k = 0
          /\ Become(OnRequestStateChange(Taken(i), i, "200",
                        [type |-> "none", stanzas |-> stanzas, offer |-> offer, node |-> node]))
          /\ owed' = IF Terminates(i) THEN <<>> ELSE SubSeq(Read(i), k + 1, Len(Read(i)))
    /\ session' = ~Terminates(i)
    /\ UNCHANGED calls /\ Quiet

\* A 200 without a usable body, or one of type terminate
AnswerDefective(i) ==
    /\ conn.requests[i].state = "posted"
    /\ \E type \in Bodies :
          /\ Become(OnRequestStateChange(Taken(i), i, "200",
                        [type |-> type, stanzas |-> <<>>, offer |-> {}, node |-> TRUE]))
          /\ session' = (session /\ type # "terminate" /\ ~Terminates(i))
          /\ owed' = IF session' THEN Read(i) ELSE <<>>
    /\ UNCHANGED calls /\ Quiet

\* The exchange fails
Fail(i) ==
    /\ conn.requests[i].state = "posted"
    /\ \E status \in FailStatus :
          Become(OnRequestStateChange(conn, i, status, [type |-> "empty"]))
    /\ UNCHANGED <<owed, session, calls>> /\ Quiet

PageCalls == Connect \/ Attach \/ Quit \/ Pause \/ Resume \/ Flush
                \/ \E q \in Iqs : SendIQ(q)

Exchange == \E i \in DOMAIN conn.requests : Answer(i) \/ AnswerDefective(i) \/ Fail(i)

Time == \/ \E i \in DOMAIN conn.requests : Backoff(i) \/ Age(i) \/ StayDead(i)
        \/ \E due \in SUBSET Scheduled(conn) : Idle(due)

Next == PageCalls \/ Exchange \/ Time

\* The browser's timers fire, and the period of a timed handler ends; neither
\* the server nor the page owes anything.  A step that sets fired is an Idle step, so that
\* the fairness of Idle can be stated by Beat.
Fairness ==
    /\ WF_beat(\E due \in SUBSET Scheduled(conn) : Beat(due))
    /\ \A t \in Iqs \cup {"disconnect"} :
           WF_beat(\E due \in SUBSET Scheduled(conn) : t \in due /\ Beat(due))
    /\ WF_vars(\E i \in DOMAIN conn.requests : Backoff(i))

Spec == Init /\ [][Next]_vars /\ Fairness

-----------------------------------------------------------------------------
(* Properties                                                                *)

InFlight == {i \in DOMAIN conn.requests : conn.requests[i].state \in {"opened", "posted"}}

\* BOSH allows two requests with the server at a time: whatever is sent,
\* retried, restarted or terminated, no third one is ever open
TwoInFlight == Cardinality(InFlight) <= 2

\* The page is shown CONNECTED only while there is an authenticated session:
\* every way to lose it tells the page something else
ConnectedIsTrue ==
    conn.status = "CONNECTED" => conn.connected /\ conn.authenticated /\ conn.sid

\* Answered means answered: once callback or errback ran for an answer, the
\* timeout of that sendIQ never calls errback, however the answer, the timer
\* and the two lists of timed handlers interleave
AnswerCancelsTimeout ==
    [][\A q \in Iqs : conn.iq[q] \cap {"result", "error"} # {} => conn'.iq[q] = conn.iq[q]]_vars

\* An iq whose timeout called errback is forgotten: "get rid of normal handler"
TimedOutIsForgotten ==
    \A q \in Iqs : "timeout" \in conn.iq[q] => conn.iq[q] \cap {"result", "error"} = {}

\* A disconnect ends whether or not the server answers, by its timeout,
\* wherever the idle timer runs.  Before the first send after a connect it
\* does not run, and nothing ends the disconnect.
DisconnectEndsWhenIdle == (conn.disconnecting /\ conn.idle) ~> ~conn.disconnecting

\* A sendIQ with a timeout ends, in an answer, in the errback or with the session
TimedIqEnds ==
    \A q \in TimedIqs :
        (conn.iq[q] = {"sent"} /\ conn.authenticated)
            ~> (conn.iq[q] # {"sent"} \/ ~conn.authenticated)

\* An authenticated session that is not paused always gets back to having a
\* request with the server, so that the server can send
PollsOn ==
    []<>(\/ ~conn.authenticated \/ conn.disconnecting \/ ~conn.idle \/ conn.paused
         \/ \E i \in DOMAIN conn.requests : conn.requests[i].state = "posted")

=============================================================================
