---------------------------- MODULE JQueryDeferred ---------------------------
(* Deferreds of lib/jquery.js, jQuery.when on them, pipe, and the list of    *)
(* functions that wait for the document, which holdReady may keep waiting.   *)
(*                                                                           *)
(* Callbacks run within the call that resolves; what one of them does is     *)
(* chosen when it is added.  Deferreds and the document's readiness share    *)
(* nothing but the code of the list: a behaviour is of one of them.          *)
EXTENDS Integers, Sequences, SequencesExt

CONSTANTS
    Given,          \* the deferreds of the page, which it gives to when
    MaxCallbacks,   \* the callbacks the page adds
    MaxHolds        \* the calls of holdReady

VARIABLES
    defer,      \* the lists, what was added to them and what was heard
    ready       \* isReady, readyWait, and what the document and the page did

vars == <<defer, ready>>

NotYet == "not yet"

\* A Deferred has two lists, the ready list is a _Deferred, which has one
Sides == {"done", "fail"}
ListKeys == (Given \cup {"when", "piped"}) \X Sides \cup {<<"ready", "done">>}
ReadyKey == <<"ready", "done">>
Other(key) == <<key[1], IF key[2] = "done" THEN "fail" ELSE "done">>

\* Resolved(k) is isResolved, of a list
Resolved(s, key) == s.lists[key].firing \/ s.lists[key].fired # NotYet

-----------------------------------------------------------------------------
(* _Deferred                                                                 *)

\* cancel
Cancel(s, key) == [s EXCEPT !.lists[key].cancelled = TRUE, !.lists[key].callbacks = <<>>]

Heard(s, key, cb) == [s EXCEPT !.heard[key] = Append(@, cb.who)]

RECURSIVE ResolveWith(_, _, _), Run(_, _, _), Call(_, _, _, _), Done(_, _, _)

\* resolveWith: every callback in turn, those added meanwhile too
ResolveWith(s, key, value) ==
    IF s.lists[key].cancelled \/ Resolved(s, key) THEN s
    ELSE Run([s EXCEPT !.lists[key].firing = TRUE], key, value)

\* A callback that throws ends the loop, and the loops it was called from
Run(s, key, value) ==
    LET list == s.lists[key]
        shifted == [s EXCEPT !.lists[key].callbacks = Tail(@)]
    IN  IF list.callbacks = <<>> \/ s.thrown
        THEN [s EXCEPT !.lists[key].firing = FALSE, !.lists[key].fired = value]
        ELSE Run(Call(shifted, key, Head(list.callbacks), value), key, value)

Call(s, key, cb, value) ==
    CASE cb.does = "cancel" -> Cancel(s, Other(key))
      [] cb.does = "tell" -> Heard(s, key, cb)
      [] cb.does = "throw" -> [Heard(s, key, cb) EXCEPT !.thrown = TRUE, !.threw = TRUE]
      [] cb.does = "add" ->
            Done([Heard(s, key, cb) EXCEPT !.next = @ + 1, !.added[key] = Append(@, s.next)],
                 key, [does |-> "tell", who |-> s.next])
      [] cb.does = "pipe" -> ResolveWith(s, <<"piped", key[2]>>, value)
      [] cb.does = "count" ->
            LET less == [s EXCEPT !.count = @ - 1]
            IN  IF less.count = 0 THEN ResolveWith(less, <<"when", "done">>, "all") ELSE less
      [] cb.does = "reject" -> ResolveWith(s, <<"when", "fail">>, value)

\* Mutant of Done: a callback added after the list fired waits.
Done_Waits(s, key, cb) ==
    IF s.lists[key].cancelled THEN s
    ELSE [s EXCEPT !.lists[key].callbacks = Append(@, cb)]

\* done, and fail of a Deferred
Done(s, key, cb) ==
    LET list == s.lists[key]
        pushed == [s EXCEPT !.lists[key].callbacks = Append(@, cb), !.lists[key].fired = NotYet]
    IN  IF list.cancelled THEN s
        ELSE IF list.fired # NotYet THEN ResolveWith(pushed, key, list.fired) ELSE pushed

-----------------------------------------------------------------------------
(* Deferred, when and pipe                                                   *)

Builtin(does) == [does |-> does, who |-> 0]

\* A Deferred's two lists cancel each other
NewList(key) ==
    [callbacks |-> IF key[1] = "ready" THEN <<>> ELSE <<Builtin("cancel")>>,
     fired |-> NotYet, firing |-> FALSE, cancelled |-> FALSE]

Begun ==
    [lists |-> [key \in ListKeys |-> NewList(key)], added |-> [key \in ListKeys |-> <<>>],
     heard |-> [key \in ListKeys |-> <<>>], next |-> 1, count |-> Len(SetToSeq(Given)),
     asked |-> {}, thrown |-> FALSE, threw |-> FALSE]

\* Where a page's call ends, what was thrown has left it
Returned(s) == [s EXCEPT !.thrown = FALSE]

\* resolve and reject, which the page may call again
Settle(key) ==
    /\ key[1] \in Given /\ ready.of = "deferreds"
    /\ defer' = Returned(ResolveWith(defer, key, key[1]))
    /\ UNCHANGED ready

AddCallback(key, does) ==
    /\ defer.next <= MaxCallbacks
    /\ (key = ReadyKey) <=> (ready.of = "document")
    /\ defer' = Returned(Done([defer EXCEPT !.next = @ + 1, !.added[key] = Append(@, defer.next)],
                              key, [does |-> does, who |-> defer.next]))
    /\ UNCHANGED ready

\* then, on both lists
Then(s, d, does, other) == Done(Done(s, <<d, "done">>, Builtin(does)), <<d, "fail">>, Builtin(other))

\* when(...) with all the deferreds given; its promise, too, is asked for once
When ==
    /\ "when" \notin defer.asked /\ ready.of = "deferreds"
    /\ LET asked == [defer EXCEPT !.asked = @ \cup {"when"}]
       IN  defer' = Returned(FoldLeft(LAMBDA s, d : IF s.thrown THEN s ELSE Then(s, d, "count", "reject"),
                                      asked, SetToSeq(Given)))
    /\ UNCHANGED ready

\* pipe() of one of them, without filters
Pipe(d) ==
    /\ d \in Given /\ "piped" \notin defer.asked /\ ready.of = "deferreds"
    /\ defer' = Returned(Then([defer EXCEPT !.asked = @ \cup {"piped", d}], d, "pipe", "pipe"))
    /\ UNCHANGED ready

-----------------------------------------------------------------------------
(* ready and holdReady                                                       *)

\* The last of ready: the functions, once
FireReady(r) ==
    /\ ready' = [r EXCEPT !.isReady = TRUE]
    /\ defer' = Returned(ResolveWith(defer, ReadyKey, "jQuery"))

\* ready(wait), from the point where it goes on
GoOn(r, released) ==
    IF ~r.body THEN ready' = [r EXCEPT !.timers = @ + 1] /\ UNCHANGED defer
    ELSE IF released THEN FireReady(r)
    ELSE LET less == [r EXCEPT !.readyWait = @ - 1, !.isReady = TRUE]
         IN  IF less.readyWait > 0 THEN ready' = less /\ UNCHANGED defer ELSE FireReady(less)

\* ready() from DOMContentLoaded, from load or from its own timer
DOMReady(r) == IF r.isReady THEN ready' = r /\ UNCHANGED defer ELSE GoOn(r, FALSE)

DocumentReady == ~ready.dom /\ DOMReady([ready EXCEPT !.dom = TRUE])

\* load comes after DOMContentLoaded, with a body
Load == ready.dom /\ ~ready.load /\ DOMReady([ready EXCEPT !.load = TRUE, !.body = TRUE])

ReadyTimer == ready.timers > 0 /\ DOMReady([ready EXCEPT !.timers = @ - 1])

Body == ~ready.body /\ ready' = [ready EXCEPT !.body = TRUE] /\ UNCHANGED defer

\* holdReady(true); a page may do it after the functions ran, to no effect
Hold ==
    /\ ready.calls < MaxHolds
    /\ ready' = [ready EXCEPT !.readyWait = @ + 1, !.held = @ + 1, !.calls = @ + 1]
    /\ UNCHANGED defer

\* holdReady(false): ready(true)
Release ==
    /\ ready.calls < MaxHolds
    /\ LET r == [ready EXCEPT !.readyWait = @ - 1, !.held = @ - 1, !.calls = @ + 1,
                              !.extra = @ \/ ready.held = 0]
       IN  IF r.readyWait = 0 THEN GoOn(r, TRUE) ELSE ready' = r /\ UNCHANGED defer

Init ==
    /\ defer = Begun
    /\ \E of \in {"deferreds", "document"} :
          ready = [of |-> of, isReady |-> FALSE, readyWait |-> 1, body |-> FALSE, dom |-> FALSE, load |-> FALSE,
                   timers |-> 0, calls |-> 0, held |-> 0, extra |-> FALSE]

Next ==
    \/ When
    \/ \E d \in Given : Pipe(d)
    \/ \E key \in ListKeys : Settle(key) \/ \E does \in {"tell", "add", "throw"} : AddCallback(key, does)
    \/ ready.of = "document" /\ (DocumentReady \/ Load \/ ReadyTimer \/ Body \/ Hold \/ Release)

Spec == Init /\ [][Next]_vars

-----------------------------------------------------------------------------
(* Properties                                                                *)

Fired(key) == defer.lists[key].fired # NotYet

\* Callbacks hear once and in the order they were added, all of them once the
\* list fired (those behind one that threw wait for the next to be added), and
\* never of both outcomes; and when has the outcome of its parts
DeferredsSettle ==
    /\ \A key \in ListKeys :
          /\ IsPrefix(defer.heard[key], defer.added[key])
          /\ Fired(key) /\ ~defer.threw => defer.heard[key] = defer.added[key]
    /\ \A key \in ListKeys \ {ReadyKey} : ~(Fired(key) /\ Fired(Other(key)))
    /\ "when" \in defer.asked /\ ~defer.threw =>
          /\ Fired(<<"when", "done">>) <=> \A d \in Given : Fired(<<d, "done">>)
          /\ Fired(<<"when", "fail">>) <=> \E d \in Given : Fired(<<d, "fail">>)

\* The functions that wait for the document run when it is ready and nothing
\* holds them, and then indeed, unless a hold was released that was not there
ReadyRuns ==
    ~ready.extra =>
        /\ Fired(ReadyKey) => ready.dom /\ ready.body
        /\ ready.dom /\ ready.body /\ ready.held = 0 /\ ready.timers = 0 => Fired(ReadyKey)

=============================================================================
