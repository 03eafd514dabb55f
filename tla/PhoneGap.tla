------------------------------- MODULE PhoneGap -------------------------------
(* The bridge of lib/phonegap.js: channels and the start-up they order, exec *)
(* and its callbacks, the loop that fetches the native side's statements,    *)
(* and the two objects whose constructors hold up deviceready, Device and    *)
(* Connection.                                                               *)
(*                                                                           *)
(* The script runs in one thread: an action is one event, run to its end.    *)
(* A function is named by a string or, for the page's, by a member of        *)
(* Listeners or a call's number.                                             *)
EXTENDS Integers, Sequences, FiniteSetsExt, SequencesExt

CONSTANTS
    Listeners,    \* the functions the page registers
    Early,        \* those it registers for deviceready as it loads
    Registers,    \* the function each of them adds for deviceready when called
    Features,     \* what the page makes deviceready wait for
    MaxCalls,     \* the calls of exec, the two constructors' among them
    MaxAnswers,   \* the answers of the native side that come later
    MaxEvents     \* what the page and the user do

VARIABLE gap

NoOne == "no one"
Channels == {"DOMContentLoaded", "NativeReady", "PhoneGapInit", "PhoneGapReady", "InfoReady",
             "ConnectionReady", "Resume", "Pause", "Destroy", "DeviceReady"} \cup Features

Count(set, new) == IF new \in set THEN 0 ELSE 1

-----------------------------------------------------------------------------
(* What the page's functions leave behind                                    *)

Hear(g, l, what) == [g EXCEPT !.heard[l][what] = @ + 1]

HearResult(g, id, how) == [g EXCEPT !.results[id] = Append(@, how)]

Drop(g, id) == [g EXCEPT !.callbacks = [i \in DOMAIN @ \ {id} |-> @[i]]]

-----------------------------------------------------------------------------
(* Channels                                                                  *)

\* subscribe: a function keeps the guid of its first channel; guid 0 is none
Subscribe(g, ch, f) ==
    LET c    == g.chan[ch]
        old  == IF f \in Listeners THEN g.guidOf[f] ELSE 0
        guid == IF old # 0 THEN old ELSE c.guid
        put  == [g EXCEPT !.chan[ch].handlers = [k \in DOMAIN @ \cup {guid} |->
                              IF k = guid THEN [f |-> f, once |-> FALSE] ELSE @[k]],
                          !.chan[ch].guid = IF old # 0 THEN @ ELSE @ + 1]
    IN  IF f \in Listeners THEN [put EXCEPT !.guidOf[f] = guid] ELSE put

\* the function m of subscribeOnce is new in each call
SubscribeNew(g, ch, f) ==
    LET guid == g.chan[ch].guid
    IN  [g EXCEPT !.chan[ch].handlers = [k \in DOMAIN @ \cup {guid} |->
                      IF k = guid THEN [f |-> f, once |-> TRUE] ELSE @[k]],
                  !.chan[ch].guid = @ + 1]

Unsubscribe(g, ch, guid) ==
    [g EXCEPT !.chan[ch].handlers = [k \in DOMAIN @ \ {guid} |-> @[k]]]

RECURSIVE Fire(_, _), Call(_, _, _, _), SubscribeOnce(_, _, _),
          Join(_, _, _), Joined(_, _), Exec(_, _, _, _)

\* fired is set when every handler has run.  The keys are those of the start:
\* what a handler adds is not called in this pass, what it removes neither.
Fire(g, ch) ==
    LET each(s, k) ==
            LET h   == s.chan[ch].handlers[k]
                ran == Call(s, ch, h.f, NoOne)
            IN  IF k \notin DOMAIN s.chan[ch].handlers THEN s
                ELSE IF h.once THEN Unsubscribe(ran, ch, k) ELSE ran
        keys == SetToSortSeq(DOMAIN g.chan[ch].handlers, <)
    IN  [FoldLeft(each, g, keys) EXCEPT !.chan[ch].fired = TRUE]

\* Mutant of SubscribeOnce: a channel that has fired is waited for.
SubscribeOnce_Waits(g, ch, f) == SubscribeNew(g, ch, f)

SubscribeOnce(g, ch, f) ==
    IF g.chan[ch].fired THEN Call(g, ch, f, NoOne) ELSE SubscribeNew(g, ch, f)

\* Channel.join(h, c), h being Joined(_, j)
Join(g, j, c) ==
    LET start == [g EXCEPT !.joins[j] = Len(c), !.joined[j] = ToSet(c)]
        each(s, ch) == IF s.chan[ch].fired THEN [s EXCEPT !.joins[j] = @ - 1]
                       ELSE SubscribeOnce(s, ch, j)
        all   == FoldLeft(each, start, c)
    IN  IF all.joins[j] = 0 THEN Joined(all, j) ELSE all

Joined(g, j) ==
    IF j = "objects"
    THEN LET started == [g EXCEPT !.tasks = Append(@, [run |-> "start"])]
             ready   == Fire(Fire(started, "PhoneGapInit"), "PhoneGapReady")
         IN  Join(ready, "device", ready.waited)
    ELSE Fire(Fire(g, "DeviceReady"), "Resume")

-----------------------------------------------------------------------------
(* exec                                                                      *)

\* What a result does to the callbacks of its call, in exec and in the two
\* functions the native side calls
Settle(g, id, r) == IF r.keep THEN g ELSE Drop(g, id)

\* exec(success, fail, ...), answered by r, or later when r is Async
Async == [status |-> "", keep |-> TRUE]

Exec(g, success, fail, r) ==
    LET id    == g.callbackId
        given == success # NoOne \/ fail # NoOne
        call  == [g EXCEPT !.callbackId = @ + 1,
                           !.callbacks = IF ~given THEN @ ELSE [i \in DOMAIN @ \cup {id} |->
                               IF i = id THEN [success |-> success, fail |-> fail] ELSE @[i]],
                           !.asked[id] = [answers |-> <<r>>, open |-> r.keep, both |->
                                             success # NoOne /\ fail # NoOne]]
    IN  CASE r = Async -> [call EXCEPT !.asked[id].answers = <<>>]
          [] r.status = "OK" ->
                IF success = NoOne THEN call ELSE Settle(Call(call, id, success, r), id, r)
          [] r.status = "NO_RESULT" -> Settle(call, id, r)
          [] OTHER ->
                IF fail = NoOne THEN call ELSE Settle(Call(call, id, fail, r), id, r)

\* callbackSuccess(callbackId, args)
CallbackSuccess(g, id, r) ==
    LET call == IF r.status = "OK" /\ g.callbacks[id].success # NoOne
                THEN Call(g, id, g.callbacks[id].success, r) ELSE g
    IN  IF id \in DOMAIN g.callbacks THEN Settle(call, id, r) ELSE g

\* Mutant of CallbackError: the callbacks stay.
CallbackError_Stays(g, id, r) ==
    IF id \in DOMAIN g.callbacks /\ g.callbacks[id].fail # NoOne
    THEN Call(g, id, g.callbacks[id].fail, r) ELSE g

CallbackError(g, id, r) ==
    LET call == IF g.callbacks[id].fail # NoOne
                THEN Call(g, id, g.callbacks[id].fail, r) ELSE g
    IN  IF id \in DOMAIN g.callbacks THEN Settle(call, id, r) ELSE g

-----------------------------------------------------------------------------
(* The functions                                                             *)

\* Mutant of GotConnection: the timer goes on when the device is online again.
GotConnection_TimerGoesOn(g, type) ==
    LET told == IF type = "none"
                THEN [g EXCEPT !.connection.pending = @ + 1, !.connection.timer = TRUE,
                               !.connection.crossed = @ \/ g.connection.pending > 0]
                ELSE [g EXCEPT !.connection.timer = FALSE, !.connection.type = type]
        done == [told EXCEPT !.connection.told = type, !.connection.firstRun = FALSE]
    IN  IF g.connection.firstRun THEN Fire(done, "ConnectionReady") ELSE done

\* The callback of Connection.  Every offline report starts a timer of half a
\* second; _timer holds the newest, or nothing once any of them has ended.
GotConnection(g, type) ==
    LET told == IF type = "none"
                THEN [g EXCEPT !.connection.pending = @ + 1, !.connection.timer = TRUE,
                               !.connection.crossed = @ \/ g.connection.pending > 0]
                ELSE [g EXCEPT !.connection.pending = IF g.connection.timer THEN @ - 1 ELSE @,
                               !.connection.timer = FALSE, !.connection.type = type]
        done == [told EXCEPT !.connection.told = type, !.connection.firstRun = FALSE]
    IN  IF g.connection.firstRun THEN Fire(done, "ConnectionReady") ELSE done

\* The body of f, called by the channel or for the exec named by at
Call(g, at, f, r) ==
    CASE f = "Device" -> Exec([g EXCEPT !.sync.device = Async], "info", "info failed", g.sync.device)
      [] f = "Connection" -> Exec([g EXCEPT !.sync.connection = Async],
                                  "connection", "connection failed", g.sync.connection)
      [] f = "info" -> Fire(HearResult(g, at, "success"), "InfoReady")
      [] f = "connection" -> GotConnection(HearResult(g, at, "success"), r.message)
      [] f = "page's success" -> HearResult(g, at, "success")
      [] f \in {"info failed", "connection failed", "page's fail"} -> HearResult(g, at, "fail")
      [] f \in DOMAIN g.joins ->
            LET left == [g EXCEPT !.joins[f] = @ - 1]
            IN  IF left.joins[f] = 0 THEN Joined(left, f) ELSE left
      [] f = "destroy" -> [g EXCEPT !.shuttingDown = TRUE]
      [] at = "DeviceReady" ->
            LET heard == Hear(g, f, "ready")
            IN  IF Registers[f] = NoOne THEN heard
                ELSE SubscribeOnce(heard, "DeviceReady", Registers[f])
      [] OTHER -> Hear(g, f, "resume")

-----------------------------------------------------------------------------
(* The loop that runs the native side's statements                           *)

RECURSIVE JSCallback(_), JSCallbackPolling(_)

Later(g, task) == [g EXCEPT !.tasks = Append(@, task)]

\* The native side hands over its first statement, when it has one
TakeStatement(g) ==
    [g EXCEPT !.outbox = Tail(@), !.tasks = Append(@, [run |-> "eval", statement |-> Head(g.outbox)])]

JSCallback(g) ==
    IF g.shuttingDown THEN g
    ELSE IF g.polling THEN JSCallbackPolling(g)
    ELSE [g EXCEPT !.xhr = @ + 1]

JSCallbackPolling(g) ==
    IF g.shuttingDown THEN g
    ELSE IF ~g.polling THEN JSCallback(g)
    ELSE Later(IF g.outbox = <<>> THEN g ELSE TakeStatement(g), [run |-> "JSCallbackPolling"])

\* The timer of the start-up: the native side says whether to poll
StartCallbacks(g, polling) ==
    IF g.polling THEN JSCallbackPolling(g)
    ELSE IF polling THEN JSCallbackPolling([g EXCEPT !.polling = TRUE])
    ELSE JSCallback(g)

Eval(g, s) ==
    IF s.r.status = "ERROR" THEN CallbackError(g, s.id, s.r) ELSE CallbackSuccess(g, s.id, s.r)

\* The first timer ends.  Those of a statement come before the loop's next.
RunTask ==
    /\ gap.tasks # <<>>
    /\ LET task == Head(gap.tasks)
           rest == [gap EXCEPT !.tasks = Tail(@)]
       IN  \/ task.run = "start" /\ \E polling \in BOOLEAN : gap' = StartCallbacks(rest, polling)
           \/ task.run = "JSCallback" /\ gap' = JSCallback(rest)
           \/ task.run = "JSCallbackPolling" /\ gap' = JSCallbackPolling(rest)
           \/ task.run = "eval" /\ gap' = Eval(rest, task.statement)

\* Mutant of XhrAnswered: after a ping nothing is asked for again.
XhrAnswered_NotAgain(g, status) ==
    IF g.shuttingDown \/ status = "404" THEN g
    ELSE CASE status = "200" -> Later(TakeStatement(g), [run |-> "JSCallback"])
           [] status \in {"403", "503", "400"} -> [g EXCEPT !.stopped = TRUE]
           [] OTHER -> JSCallbackPolling([g EXCEPT !.polling = TRUE])

\* onreadystatechange with readyState 4
XhrAnswered(g, status) ==
    IF g.shuttingDown THEN g
    ELSE CASE status = "200" -> Later(TakeStatement(g), [run |-> "JSCallback"])
           [] status = "404" -> Later(g, [run |-> "JSCallback"])
           [] status \in {"403", "503", "400"} -> [g EXCEPT !.stopped = TRUE]
           [] OTHER -> JSCallbackPolling([g EXCEPT !.polling = TRUE])

\* The callback server: a statement if there is one, else a ping in time, or
\* a failure
XhrAnswer ==
    /\ gap.xhr > 0
    /\ \E status \in {"200", "404", "403", "503", "400", "other"} :
          /\ (status = "200") => (gap.outbox # <<>>)
          /\ (status = "404") => (gap.outbox = <<>>)
          /\ gap' = XhrAnswered([gap EXCEPT !.xhr = @ - 1], status)

-----------------------------------------------------------------------------
(* The events                                                                *)

Results == [status : {"OK", "NO_RESULT", "ERROR"}, keep : BOOLEAN, message : {"wifi"}]

\* Of the network, as Connection asks
Reports == {[status |-> "OK", keep |-> TRUE, message |-> m] : m \in {"none", "wifi"}}

\* What the calls of the two constructors are answered
AnswersTo(id) == CASE id = 0 -> {r \in Results : ~r.keep /\ r.status # "NO_RESULT"}
                   [] id = 1 -> Reports \cup {r \in Results : ~r.keep /\ r.status # "OK"}
                   [] OTHER  -> Results

\* What the page's call is answered at once
AtOnce == {Async} \cup {r \in Results : r.keep <=> r.status = "NO_RESULT"}

\* The script as it was loaded, the native side ready before it or not
Loaded(sync, native) ==
    LET new == [chan |-> [c \in Channels |-> [handlers |-> [k \in {} |-> 0], guid |-> 0, fired |-> FALSE]],
                guidOf |-> [l \in Listeners |-> 0],
                joins |-> [j \in {"objects", "device"} |-> 0],
                joined |-> [j \in {"objects", "device"} |-> {}],
                waited |-> <<"PhoneGapReady", "InfoReady", "ConnectionReady">>,
                callbackId |-> 0, callbacks |-> [i \in {} |-> 0],
                polling |-> FALSE, shuttingDown |-> FALSE, stopped |-> FALSE,
                tasks |-> <<>>, xhr |-> 0, outbox |-> <<>>, sync |-> sync,
                connection |-> [type |-> "null", firstRun |-> TRUE, timer |-> FALSE, pending |-> 0,
                                told |-> "null", crossed |-> FALSE],
                heard |-> [l \in Listeners |-> [ready |-> 0, resume |-> 0]],
                waiting |-> {},
                asked |-> [i \in 0..MaxCalls - 1 |-> [answers |-> <<>>, open |-> FALSE, both |-> FALSE]],
                results |-> [i \in 0..MaxCalls - 1 |-> <<>>], answered |-> 0, events |-> 0]
        destroy == SubscribeOnce(new, "Destroy", "destroy")
        fired   == IF native THEN Fire(destroy, "NativeReady") ELSE destroy
        joined  == Join(fired, "objects", <<"DOMContentLoaded", "NativeReady">>)
        built   == SubscribeOnce(SubscribeOnce(joined, "PhoneGapInit", "Device"),
                                 "PhoneGapInit", "Connection")
    IN  FoldSet(LAMBDA l, g : SubscribeOnce(g, "DeviceReady", l), [built EXCEPT !.waiting = Early], Early)

Init ==
    \E device \in {Async} \cup AnswersTo(0), connection \in {Async} \cup Reports, native \in BOOLEAN :
        gap = Loaded([device |-> device, connection |-> connection], native)

\* DOMContentLoaded and the native side's ready come once each
Ready(ch) ==
    /\ ch \in {"DOMContentLoaded", "NativeReady"}
    /\ ~gap.chan[ch].fired
    /\ gap' = Fire(gap, ch)

\* What the page and the user do, MaxEvents times in all
Event(g) == gap' = [g EXCEPT !.events = @ + 1]

\* document.addEventListener of the page
AddEventListener(l, event) ==
    \/ /\ event = "deviceready" /\ l \notin gap.waiting \cup Range(Registers)
       /\ Event(SubscribeOnce([gap EXCEPT !.waiting = @ \cup {l}], "DeviceReady", l))
    \/ /\ event = "resume"
       /\ LET subscribed == Subscribe(gap, "Resume", l)
          IN  Event(IF gap.chan["DeviceReady"].fired THEN Fire(subscribed, "Resume") ELSE subscribed)
    \/ event = "pause" /\ Event(Subscribe(gap, "Pause", l))

WaitForInitialization(feature) ==
    /\ ~Contains(gap.waited, feature)
    /\ Event([gap EXCEPT !.waited = Append(@, feature)])

InitializationComplete(feature) ==
    /\ Contains(gap.waited, feature)
    /\ ~gap.chan[feature].fired
    /\ gap' = Fire(gap, feature)

\* The page calls exec once it heard deviceready, with any callbacks, answered
\* at once or not
PageExec(success, fail, r) ==
    /\ gap.chan["DeviceReady"].fired /\ gap.callbackId < MaxCalls
    /\ Event(Exec(gap, success, fail, r))

\* The native side answers a call that is open, its last answer without keep
NativeAnswer(id, r) ==
    /\ gap.asked[id].open /\ r \in AnswersTo(id)
    /\ gap.answered < MaxAnswers
    /\ gap' = [gap EXCEPT !.outbox = Append(@, [id |-> id, r |-> r]),
                          !.asked[id].answers = Append(@, r), !.asked[id].open = r.keep,
                          !.answered = @ + 1]

\* The activity resumes or pauses, or ends
Lifecycle(ch) ==
    /\ ch \in {"Resume", "Pause", "Destroy"}
    /\ (ch = "Destroy") => ~gap.shuttingDown
    /\ Event(Fire(gap, ch))

\* The page sets UsePolling
SetPolling == Event([gap EXCEPT !.polling = ~@])

\* Half a second offline
OfflineTimer ==
    /\ gap.connection.pending > 0
    /\ gap' = [gap EXCEPT !.connection.type = "none", !.connection.timer = FALSE,
                          !.connection.pending = @ - 1]

Page ==
    /\ gap.events < MaxEvents
    /\ \/ SetPolling
       \/ \E ch \in Channels : Lifecycle(ch)
       \/ \E l \in Listeners, event \in {"deviceready", "resume", "pause"} : AddEventListener(l, event)
       \/ \E f \in Features : WaitForInitialization(f)
       \/ \E success \in {NoOne, "page's success"}, fail \in {NoOne, "page's fail"}, r \in AtOnce :
             PageExec(success, fail, r)

Next ==
    \/ RunTask \/ XhrAnswer \/ OfflineTimer \/ Page
    \/ \E ch \in Channels : Ready(ch)
    \/ \E f \in Features : InitializationComplete(f)
    \/ \E id \in DOMAIN gap.asked, r \in Results \cup Reports : NativeAnswer(id, r)

Spec == Init /\ [][Next]_gap

-----------------------------------------------------------------------------
(* Properties                                                                *)

Fired(ch) == gap.chan[ch].fired

\* deviceready is heard once by everyone who asked for it, and only when both
\* the page and the native side were ready and all that it waits for is; a
\* function registered while it fires may be missed
DeviceReadyOnce ==
    LET all == {"DOMContentLoaded", "NativeReady"} \cup ToSet(gap.waited)
    IN  /\ \A l \in Listeners : gap.heard[l].ready <= 1
        /\ (\E l \in Listeners : gap.heard[l].ready > 0) =>
              \A ch \in gap.joined["objects"] \cup gap.joined["device"] : Fired(ch)
        /\ (\A ch \in all : Fired(ch)) =>
              \A l \in gap.waiting : gap.heard[l].ready = 1

\* The answers that reached the page
Arrived(id) ==
    LET waits(s) == Len(SelectSeq(s, LAMBDA x : x.id = id))
        evals    == SelectSeq(gap.tasks, LAMBDA t : t.run = "eval")
        out      == waits(gap.outbox) + waits([i \in DOMAIN evals |-> evals[i].statement])
    IN  SubSeq(gap.asked[id].answers, 1, Len(gap.asked[id].answers) - out)

\* Each call with both callbacks hears its answers, in order and once each,
\* and its callbacks are kept just as long as answers may come
CallsSettle ==
    \A id \in 0..gap.callbackId - 1 :
        LET came  == Arrived(id)
            told  == SelectSeq(came, LAMBDA r : r.status # "NO_RESULT")
        IN  gap.asked[id].both =>
              /\ gap.results[id] = [i \in DOMAIN told |->
                                       IF told[i].status = "OK" THEN "success" ELSE "fail"]
              /\ (id \in DOMAIN gap.callbacks) <=> (came = <<>> \/ Last(came).keep)

\* While the native side reports offline once at a time, the connection's type
\* is the last reported as soon as no timer is left
ConnectionTold ==
    ~gap.connection.crossed /\ gap.connection.pending = 0 => gap.connection.type = gap.connection.told

\* The loop that fetches the native side's statements goes on, and there is
\* one of it, whatever the requests end with and whoever sets UsePolling
\* meanwhile; only a refusal of the server or the end of the application stop it
OneLoop ==
    LET loops == SelectSeq(gap.tasks, LAMBDA t : t.run # "eval")
        count == Len(loops) + gap.xhr
    IN  gap.joins["objects"] = 0 =>
          /\ count <= 1
          /\ (count = 0) => (gap.stopped \/ gap.shuttingDown)

=============================================================================
