---------------------------- MODULE JQueryEffects ----------------------------
(* Effects of lib/jquery.js: the queue "fx" of an element with delays and    *)
(* animations, marks of animations outside the queue, the timers that tick   *)
(* them on, stop, and the promise of some elements.                          *)
(*                                                                           *)
(* An element's queue is an array that data refers to; functions that hold   *)
(* on to one keep it when data refers to another.                            *)
EXTENDS Integers, Sequences, FiniteSets, SequencesExt

CONSTANTS
    MaxElems,       \* elements are 1..MaxElems
    MaxAnims,       \* the animations and delays begun, those of callbacks too
    MaxPromises,    \* the promises asked for
    MaxLooks,       \* the looks at promises that wait for their moment
    Hows            \* how the page animates

VARIABLE fx

Elems == 1..MaxElems
InProgress == 0     \* the sentinel "inprogress" at the head of a queue
NoData == 0

-----------------------------------------------------------------------------
(* Data of elements                                                          *)

QueueOf(f, e) == IF f.data[e] = NoData THEN <<>> ELSE f.arrays[f.data[e]]

NewArray(f, e, content) == [f EXCEPT !.arrays = Append(@, content), !.data[e] = Len(f.arrays) + 1]

\* handleQueueMarkDefer: in a moment the promises of the element are looked at
Look(f, e, src) ==
    IF /\ f.defer[e] # NoData
       /\ src = "queue" \/ f.data[e] = NoData
       /\ src = "mark" \/ f.marks[e] = 0
    THEN [f EXCEPT !.timeouts = Append(@, [elem |-> e, defer |-> f.defer[e]])] ELSE f

Unmark(f, e, force) ==
    LET count == IF force \/ f.marks[e] = 0 THEN 0 ELSE f.marks[e] - 1
        less  == [f EXCEPT !.marks[e] = count]
    IN  IF count = 0 THEN Look(less, e, "mark") ELSE less

\* removeData of the queue whose array is a; lost when it is another by now
RemoveQueue(f, e, a) ==
    Look([f EXCEPT !.data[e] = NoData, !.odd = @ \/ f.data[e] \notin {NoData, a}], e, "queue")

Ids(f) == DOMAIN f.anims

Running(f, e) == {id \in Ids(f) : f.anims[id].elem = e /\ f.anims[id].queued /\ f.anims[id].state = "running"}

-----------------------------------------------------------------------------
(* Functions that call one another                                           *)

RECURSIVE Dequeue(_, _), Start(_, _), Complete(_, _), Callback(_, _), Enqueue(_, _, _),
          StopTimers(_, _, _, _), Stop(_, _, _, _)

\* dequeue: the next function is called, behind the sentinel
Dequeue(f, e) ==
    LET a      == f.data[e]
        queue  == SelectSeq(QueueOf(f, e), LAMBDA x : x # InProgress)
        some   == queue # <<>>
        kept   == IF a = NoData THEN f
                  ELSE [f EXCEPT !.arrays[a] = IF some THEN <<InProgress>> \o Tail(queue) ELSE <<>>]
        called == IF some THEN Start(kept, Head(queue)) ELSE kept
    IN  IF a = NoData \/ called.arrays[a] = <<>> THEN RemoveQueue(called, e, a) ELSE called

\* The function of animate or delay; an animation has a timer per property,
\* or is over at once: nothing to show or hide, or no duration
Start(f, id) ==
    LET anim == f.anims[id]
        on == [f EXCEPT !.anims[id].state = "running",
                        !.started[anim.elem] = IF anim.queued THEN Append(@, id) ELSE @]
    IN  CASE anim.way = "delay" -> [on EXCEPT !.delays = @ \cup {id}]
          [] anim.way = "instant" -> Complete(on, id)
          [] anim.way = "timed" ->
                [on EXCEPT !.timers = @ \o [i \in 1..anim.props |-> id],
                           !.timerId = TRUE,
                           !.loops = IF f.timerId THEN @ ELSE @ + 1]

\* opt.complete: on with the queue, or no more mark; then the page's callback
Complete(f, id) ==
    LET anim == f.anims[id]
        over == [f EXCEPT !.anims[id].state = "done", !.anims[id].completes = @ + 1]
    IN  Callback(IF anim.queued THEN Dequeue(over, anim.elem) ELSE Unmark(over, anim.elem, FALSE), id)

\* The page's callback animates its element again, or stops the others
Callback(f, id) ==
    LET anim == f.anims[id]
    IN  CASE anim.mood = "animates" /\ Len(f.anims) < MaxAnims ->
                Enqueue(f, anim.elem, [way |-> "timed", props |-> 1, queued |-> TRUE, mood |-> "quiet"])
          [] anim.mood = "stops" -> FoldLeft(LAMBDA g, e : IF e = anim.elem THEN g ELSE Stop(g, e, FALSE, FALSE),
                                             f, [e \in Elems |-> e])
          [] OTHER -> f

\* animate and delay: queue(), and on with it when nothing is in progress
Enqueue(f, e, how) ==
    LET id   == Len(f.anims) + 1
        anim == [elem |-> e, state |-> "queued", completes |-> 0, left |-> how.props,
                 way |-> how.way, props |-> how.props, queued |-> how.queued, mood |-> how.mood]
        made == [f EXCEPT !.anims = Append(@, anim)]
        put  == IF f.data[e] = NoData THEN NewArray(made, e, <<id>>)
                ELSE [made EXCEPT !.arrays[f.data[e]] = Append(@, id)]
    IN  IF ~how.queued THEN Start([made EXCEPT !.marks[e] = @ + 1], id)
        ELSE IF Head(QueueOf(put, e)) # InProgress THEN Dequeue(put, e) ELSE put

\* The last step of a timer; the animation is over with its last property
EndTimer(f, id) ==
    LET less == [f EXCEPT !.anims[id].left = @ - 1]
    IN  IF less.anims[id].left <= 0 THEN Complete(less, id) ELSE less

\* timers.splice(i, 1) after the timer at i was called: another one may be
\* there by then, or none
Splice(f, i, id) ==
    [f EXCEPT !.timers = IF i > Len(@) THEN @ ELSE RemoveAt(@, i),
              !.odd = @ \/ i > Len(f.timers) \/ f.timers[i] # id]

Drop(f, id) == [f EXCEPT !.anims[id].state = "dropped"]

\* stop's loop over the timers, from the last one
StopTimers(f, e, gotoEnd, i) ==
    IF i = 0 THEN f
    ELSE IF i > Len(f.timers) THEN [f EXCEPT !.odd = TRUE]  \* TypeError
    ELSE LET id == f.timers[i]
         IN  IF f.anims[id].elem # e THEN StopTimers(f, e, gotoEnd, i - 1)
             ELSE StopTimers(Splice(IF gotoEnd THEN EndTimer(f, id) ELSE Drop(f, id), i, id), e, gotoEnd, i - 1)

\* queue([]): a new queue, and on with it
ClearQueue(f, e) ==
    LET waiting == {id \in Ids(f) : f.anims[id].elem = e /\ f.anims[id].state = "queued"}
        dropped == FoldLeft(Drop, f, SetToSeq(waiting))
    IN  Dequeue(NewArray(dropped, e, <<>>), e)

\* Mutant of Stop: a stopped animation's queue does not go on.
Stop_Stays(f, e, clear, gotoEnd) ==
    LET cleared == IF clear THEN ClearQueue(f, e) ELSE f
        looked  == IF gotoEnd THEN cleared ELSE Unmark(cleared, e, TRUE)
    IN  StopTimers(looked, e, gotoEnd, Len(looked.timers))

\* stop(clearQueue, gotoEnd); a delay in progress is not stopped
Stop(f, e, clear, gotoEnd) ==
    LET delayed == \E id \in f.delays : f.anims[id].elem = e
        odd     == [f EXCEPT !.odd = @ \/ delayed]
        cleared == IF clear THEN ClearQueue(odd, e) ELSE odd
        looked  == IF gotoEnd THEN cleared ELSE Unmark(cleared, e, TRUE)
        stopped == StopTimers(looked, e, gotoEnd, Len(looked.timers))
    IN  IF gotoEnd THEN stopped ELSE Dequeue(stopped, e)

-----------------------------------------------------------------------------
(* Steps                                                                     *)

\* When the stack is empty only data refers to an array
Settled(f) ==
    [f EXCEPT !.arrays = [e \in Elems |-> QueueOf(f, e)],
              !.data = [e \in Elems |-> IF f.data[e] = NoData THEN NoData ELSE e]]

Page(f) == Len(f.timeouts) <= MaxLooks /\ fx' = Settled(f)

Animate(e, how) == Len(fx.anims) < MaxAnims /\ Page(Enqueue(fx, e, how))

Delay(e) ==
    /\ Len(fx.anims) < MaxAnims
    /\ Page(Enqueue(fx, e, [way |-> "delay", props |-> 0, queued |-> TRUE, mood |-> "quiet"]))

\* The timer of delay(): on with the queue
DelayOver(id) ==
    /\ id \in fx.delays
    /\ Page(Dequeue([fx EXCEPT !.delays = @ \ {id}, !.anims[id].state = "done"], fx.anims[id].elem))

\* animate({}) completes at once, though it was not in the queue
AnimateNothing(e) ==
    Page(Dequeue([fx EXCEPT !.odd = @ \/ Running(fx, e) # {}], e))

PageStop(e, clear, gotoEnd) == Page(Stop(fx, e, clear, gotoEnd))

\* clearQueue() lets what is in progress go on, and forgets that it is
PageClearQueue(e) ==
    Page(ClearQueue([fx EXCEPT !.odd = @ \/ Running(fx, e) # {}], e))

\* fx.tick: the timers in turn, those of ending at their end; none left is
\* the end of the ticking
RECURSIVE TickFrom(_, _, _)
TickFrom(f, i, ending) ==
    IF i > Len(f.timers) THEN (IF f.timers = <<>> THEN [f EXCEPT !.timerId = FALSE] ELSE f)
    ELSE IF f.timers[i] \notin ending THEN TickFrom(f, i + 1, ending)
    ELSE TickFrom(Splice(EndTimer(f, f.timers[i]), i, f.timers[i]), i, ending)

\* A frame, or the interval: a loop whose animations were stopped ends
Frame(ending) ==
    /\ fx.loops > 0
    /\ IF fx.timerId
       THEN LET ticked == TickFrom(fx, 1, ending)
            IN  Page([ticked EXCEPT !.loops = IF fx.raf \/ ticked.timerId THEN @ ELSE 0])
       ELSE ending = {} /\ Page([fx EXCEPT !.loops = @ - 1])

\* promise() of some elements
Promise(elems) ==
    LET p == Len(fx.promises) + 1
        ask(f, e) ==
            LET d == IF f.defer[e] # NoData THEN f.defer[e] ELSE Len(f.defers) + 1
            IN  IF e \notin elems \/ (f.defer[e] = NoData /\ f.data[e] = NoData /\ f.marks[e] = 0) THEN f
                ELSE [f EXCEPT !.defer[e] = d,
                               !.defers = IF d > Len(@) THEN Append(@, {p}) ELSE [@ EXCEPT ![d] = @ \cup {p}],
                               !.promises[p].count = @ + 1]
        open == {id \in Ids(fx) : fx.anims[id].elem \in elems /\ fx.anims[id].state \in {"queued", "running"}}
    IN  /\ p <= MaxPromises /\ elems # {}
        /\ Page(FoldLeft(ask, [fx EXCEPT !.promises = Append(@, [count |-> 0, waits |-> open])],
                         [e \in Elems |-> e]))

\* setTimeout(..., 0) of handleQueueMarkDefer: the deferred it knew resolves
LookAgain ==
    /\ fx.timeouts # <<>>
    /\ LET t == Head(fx.timeouts)
           f == [fx EXCEPT !.timeouts = Tail(@)]
       IN  Page(IF f.data[t.elem] # NoData \/ f.marks[t.elem] > 0 THEN f
                ELSE [f EXCEPT !.defer[t.elem] = NoData,
                               !.defers[t.defer] = {},
                               !.promises = [p \in DOMAIN f.promises |->
                                   IF p \in f.defers[t.defer] THEN [f.promises[p] EXCEPT !.count = @ - 1]
                                   ELSE f.promises[p]]])

Init ==
    \E raf \in BOOLEAN :
       fx = [raf |-> raf, anims |-> <<>>, arrays |-> [e \in Elems |-> <<>>], data |-> [e \in Elems |-> NoData],
             marks |-> [e \in Elems |-> 0], defer |-> [e \in Elems |-> NoData], defers |-> <<>>,
             promises |-> <<>>, timeouts |-> <<>>, timers |-> <<>>, timerId |-> FALSE, loops |-> 0,
             delays |-> {}, started |-> [e \in Elems |-> <<>>], odd |-> FALSE]

Next ==
    \/ \E e \in Elems :
          \/ Delay(e) \/ AnimateNothing(e) \/ PageClearQueue(e)
          \/ \E how \in Hows : Animate(e, how)
          \/ \E clear, gotoEnd \in BOOLEAN : PageStop(e, clear, gotoEnd)
    \/ \E id \in fx.delays : DelayOver(id)
    \/ \E ending \in SUBSET Ids(fx) : Frame(ending)
    \/ \E elems \in SUBSET Elems : Promise(elems)
    \/ LookAgain

Spec == Init /\ [][Next]_fx

-----------------------------------------------------------------------------
(* Properties                                                                *)

Over(id) == fx.anims[id].state \in {"done", "dropped"}

\* The queue of an element runs one at a time and in order, each animation
\* completes once, a promise is kept until all it waits for is over, and when
\* no timer is left nothing waits.  Not so once something was dequeued while
\* it was in progress, a timer was removed in a callback, or a callback's
\* queue was removed as the one before it: odd says that this happened.
QueuesRun ==
    ~fx.odd =>
        /\ \A e \in Elems :
              /\ Cardinality(Running(fx, e)) <= 1
              /\ \A i, j \in DOMAIN fx.started[e] : i < j => fx.started[e][i] < fx.started[e][j]
        /\ \A id \in Ids(fx) : fx.anims[id].completes <= 1
        /\ \A p \in DOMAIN fx.promises :
              fx.promises[p].count = 0 => \A id \in fx.promises[p].waits : Over(id)
        /\ fx.timers # <<>> => fx.timerId /\ fx.loops > 0
        /\ fx.timers = <<>> /\ fx.delays = {} =>
              /\ \A id \in Ids(fx) : Over(id)
              /\ fx.timeouts = <<>> => \A p \in DOMAIN fx.promises : fx.promises[p].count = 0

=============================================================================
