-------------------------- MODULE JQueryMobileTouch --------------------------
(* Touches in lib/jquery.mobile.js: the virtual mouse events that it makes   *)
(* of touches, and of the mouse events that browsers make of touches too, so *)
(* that a page hears each once; and the taps it makes of virtual events.     *)
EXTENDS Integers, FiniteSets

CONSTANTS
    Paths,          \* for each element, those an event on it reaches
    Layouts,        \* what the page binds: where taps, and how to vclick
    Places,         \* where fingers and the pointer are, near or not
    MaxGestures     \* bound: how often a finger or a button goes down

VARIABLE touch

Nodes == DOMAIN Paths
Gestures == 1..MaxGestures
NoFinger == [target |-> "none", place |-> "none", gesture |-> 0, fingers |-> 0, moved |-> FALSE, two |-> FALSE]

\* The flags are for the properties: a finger was put down before the mouse
\* events of the last had come, the reset timer ended before they had, and
\* handlers of a tap were left bound
Init ==
    \E layout \in Layouts :
       touch = [layout |-> layout, lastTouchID |-> 0, nextTouchID |-> 1, touchIDs |-> [e \in Nodes |-> 0],
                didScroll |-> FALSE, clickBlockList |-> {}, blockMouse |-> FALSE, blockTouch |-> FALSE,
                reset |-> FALSE, tapping |-> {},
                finger |-> NoFinger, mouse |-> {}, gestures |-> 0,
                heard |-> [g \in Gestures |-> [vclicks |-> 0, taps |-> [e \in Nodes |-> 0], cancelled |-> FALSE,
                                               prevented |-> FALSE, followed |-> FALSE]],
                overlapped |-> FALSE, late |-> FALSE, elsewhere |-> FALSE, left |-> FALSE]

-----------------------------------------------------------------------------
(* Handlers                                                                  *)

\* The virtual events an element has handlers of: those of the page, and those
\* that a tap under way has bound
Bindings(s, e) ==
    (IF e \in s.layout.taps THEN {"vmousedown"} ELSE {})
      \cup (IF s.layout.clicks[e] # "none" THEN {"vclick"} ELSE {})
      \cup (IF \E t \in s.tapping : t.elem = e THEN {"vmousecancel", "vmouseup", "vclick"} ELSE {})

\* getVirtualBindingFlags
Flags(s, target) == UNION {Bindings(s, e) : e \in Paths[target]}

\* Touch handlers are on the document while anything virtual is bound
Bound(s) == \E e \in Nodes : Bindings(s, e) # {}

\* Whether some handler of a vclick on target prevents its default
Prevents(s, target) == \E e \in Paths[target] : s.layout.clicks[e] = "prevents"

\* The taps under way on the elements that an event on target reaches
Reached(s, target) == {t \in s.tapping : t.elem \in Paths[target]}

\* The taps under way once a virtual event of gesture g was heard on target:
\* each element's handlers bind, stop the timers of and unbind their own
Tapping(s, type, target, g) ==
    CASE type = "vmousedown" ->
            s.tapping \cup {[elem |-> e, orig |-> target, timer |-> TRUE, gesture |-> g, touch |-> s.finger.gesture = g] :
                               e \in Paths[target] \cap s.layout.taps}
      [] type = "vmouseup" ->
            (s.tapping \ Reached(s, target)) \cup {[t EXCEPT !.timer = FALSE] : t \in Reached(s, target)}
      [] type \in {"vmousecancel", "vclick"} -> s.tapping \ Reached(s, target)

\* The taps that element e hears of: those that began on target
Tapped(s, e, target) == Cardinality({t \in Reached(s, target) : t.elem = e /\ t.orig = target})

\* triggerVirtualEvent
TriggerVirtual(s, type, target, g) ==
    LET h == s.heard[g]
        heard == CASE type = "vmousecancel" -> [h EXCEPT !.cancelled = TRUE]
                   [] type = "vclick" ->
                         [h EXCEPT !.vclicks = @ + 1,
                                   !.prevented = @ \/ Prevents(s, target),
                                   !.taps = [e \in Nodes |-> @[e] + Tapped(s, e, target)]]
                   [] OTHER -> h
    IN  IF type \in Flags(s, target)
        THEN [s EXCEPT !.heard[g] = heard, !.tapping = Tapping(s, type, target, g)]
        ELSE s

-----------------------------------------------------------------------------
(* Touch handlers                                                            *)

\* touchstart
HandleTouchStart(s) ==
    LET f    == s.finger
        next == [s EXCEPT !.lastTouchID = s.nextTouchID, !.nextTouchID = @ + 1,
                          !.touchIDs[f.target] = s.nextTouchID,
                          !.reset = FALSE, !.blockTouch = FALSE, !.didScroll = FALSE]
    IN  IF Flags(s, f.target) = {} THEN s ELSE TriggerVirtual(next, "vmousedown", f.target, f.gesture)

\* scroll: the event is on the document, where the elements' flags are not
HandleScroll(s) == IF s.blockTouch THEN s ELSE [s EXCEPT !.didScroll = TRUE, !.reset = TRUE]

\* touchmove
HandleTouchMove(s, far) ==
    LET f     == s.finger
        moved == [s EXCEPT !.didScroll = @ \/ far, !.reset = TRUE]
    IN  IF s.blockTouch THEN s
        ELSE IF moved.didScroll /\ ~s.didScroll THEN TriggerVirtual(moved, "vmousecancel", f.target, f.gesture)
        ELSE moved

\* Mutant of HandleTouchEnd: a click that is prevented is not put on the list.
HandleTouchEnd_NotBlocked(s) ==
    LET f       == s.finger
        up      == TriggerVirtual([s EXCEPT !.blockTouch = TRUE], "vmouseup", f.target, f.gesture)
        clicked == IF s.didScroll THEN up ELSE TriggerVirtual(up, "vclick", f.target, f.gesture)
    IN  IF s.blockTouch THEN s ELSE [clicked EXCEPT !.didScroll = FALSE, !.reset = TRUE]

\* touchend
HandleTouchEnd(s) ==
    LET f       == s.finger
        up      == TriggerVirtual([s EXCEPT !.blockTouch = TRUE], "vmouseup", f.target, f.gesture)
        clicked == IF s.didScroll THEN up ELSE TriggerVirtual(up, "vclick", f.target, f.gesture)
        blocked == IF s.didScroll \/ ~Prevents(s, f.target) THEN clicked
                   ELSE [clicked EXCEPT !.blockMouse = TRUE,
                                        !.clickBlockList = @ \cup {[touchID |-> s.lastTouchID, place |-> f.place]}]
    IN  IF s.blockTouch THEN s ELSE [blocked EXCEPT !.didScroll = FALSE, !.reset = TRUE]

\* The end of the reset timer: enableMouseBindings
EnableMouse(s) ==
    [s EXCEPT !.reset = FALSE, !.lastTouchID = 0, !.clickBlockList = {}, !.blockMouse = FALSE, !.blockTouch = TRUE]

-----------------------------------------------------------------------------
(* Mouse handlers                                                            *)

\* The capturing listener looks how near a click is, and at the touches of
\* the elements it reaches
Blocks(s, m) ==
    \E o \in s.clickBlockList :
       o.place = m.place \/ \E e \in Paths[m.target] : s.touchIDs[e] = o.touchID

\* Mutant of Callable: an element that was touched hears its mouse events too.
Callable_Touched(s, m) == ~s.blockMouse

\* Whether mouse events are not those of a touch that was heard
Callable(s, m) == ~s.blockMouse /\ (s.lastTouchID = 0 \/ s.lastTouchID # s.touchIDs[m.target])

\* The virtual event of a mouse event
Virtual == [mousedown |-> "vmousedown", mouseup |-> "vmouseup", click |-> "vclick"]

\* mouseEventCallback
MouseCallback(s, m) ==
    IF Callable(s, m)
    THEN TriggerVirtual(s, Virtual[m.next], m.target, m.gesture)
    ELSE s

\* The browser follows a click that nobody prevented
MouseEvent(s, m) ==
    LET called == MouseCallback(s, m)
    IN  IF m.next # "click" THEN called
        ELSE IF Blocks(s, m) THEN s
        ELSE [called EXCEPT !.heard[m.gesture].followed = ~(Callable(s, m) /\ Prevents(s, m.target))]

-----------------------------------------------------------------------------
(* Steps                                                                     *)

\* Mouse events that the browser makes of a touch, and is not through with
Made == {m \in touch.mouse : m.made}

Listening(handle, s) == IF Bound(s) THEN handle ELSE s

\* A finger is put down
TouchStart(target, place) ==
    LET g == touch.gestures + 1
        s == [touch EXCEPT !.gestures = g,
                           !.finger = [NoFinger EXCEPT !.target = target, !.place = place, !.gesture = g, !.fingers = 1],
                           !.overlapped = @ \/ touch.mouse # {}]
    IN  /\ touch.finger = NoFinger /\ touch.gestures < MaxGestures
        /\ touch' = Listening(HandleTouchStart(s), s)

\* Another finger: touches.length is 2 then
SecondFinger ==
    /\ touch.finger.fingers = 1 /\ ~touch.finger.two
    /\ touch' = [touch EXCEPT !.finger.fingers = 2, !.finger.two = TRUE]

\* It moves, far enough to be a scroll or not
TouchMove(far) ==
    LET s == [touch EXCEPT !.finger.moved = @ \/ far]
    IN  /\ touch.finger # NoFinger
        /\ touch' = Listening(HandleTouchMove(s, far), s)

\* The window scrolls
Scroll ==
    LET s == [touch EXCEPT !.finger.moved = touch.finger # NoFinger,
                           !.left = @ \/ (touch.tapping # {} /\ ~touch.blockTouch /\ ~touch.didScroll)]
    IN  touch' = Listening(HandleScroll(s), s)

\* A finger is lifted; of one that neither moved nor had company the browser
\* may make mouse events, on that element or on another
TouchEnd ==
    LET f     == touch.finger
        ended == Listening(HandleTouchEnd(touch), touch)
        after == [ended EXCEPT !.finger = IF f.fingers = 2 THEN [@ EXCEPT !.fingers = 1] ELSE NoFinger]
    IN  /\ f # NoFinger
        /\ \/ touch' = after
           \/ /\ ~f.moved /\ ~f.two
              /\ \E target \in Nodes :
                    touch' = [after EXCEPT !.mouse = @ \cup {[gesture |-> f.gesture, target |-> target, place |-> f.place,
                                                              next |-> "mousedown", made |-> TRUE]},
                                           !.elsewhere = @ \/ target # f.target]

\* touchcancel, which has no handler
TouchCancel ==
    /\ touch.finger # NoFinger
    /\ touch' = [touch EXCEPT !.finger = NoFinger, !.left = @ \/ touch.tapping # {}]

\* A button of a mouse goes down, and up again, here or elsewhere
PressButton(target, place) ==
    LET g == touch.gestures + 1
    IN  /\ touch.gestures < MaxGestures
        /\ touch' = [touch EXCEPT !.gestures = g,
                                  !.mouse = @ \cup {[gesture |-> g, target |-> target, place |-> place,
                                                     next |-> "mousedown", made |-> FALSE]},
                                  !.overlapped = @ \/ touch.mouse # {} \/ touch.finger # NoFinger]

\* The next mouse event of a gesture
MouseGoesOn(m) ==
    LET s    == MouseEvent([touch EXCEPT !.mouse = @ \ {m}], m)
        next == CASE m.next = "mousedown" -> {[m EXCEPT !.next = "mouseup"]}
                  [] m.next = "mouseup" -> {[m EXCEPT !.next = "click"]}
                  [] m.next = "click" -> {}
    IN  touch' = [s EXCEPT !.mouse = @ \cup next]

\* The button goes up elsewhere, or no click comes of it
NoClick(m) ==
    /\ ~m.made /\ m.next # "mousedown"
    /\ touch' = [touch EXCEPT !.mouse = @ \ {m}, !.left = @ \/ touch.tapping # {}]

\* The reset timer ends
ResetTimer ==
    /\ touch.reset
    /\ touch' = EnableMouse([touch EXCEPT !.late = @ \/ Made # {} \/ touch.finger # NoFinger])

\* The timer of a tap ends: taphold
TapHold(t) ==
    /\ t.timer
    /\ touch' = [touch EXCEPT !.tapping = (@ \ {t}) \cup {[t EXCEPT !.timer = FALSE]}]

Next ==
    \/ \E target \in Nodes : \E place \in Places : TouchStart(target, place) \/ PressButton(target, place)
    \/ SecondFinger \/ Scroll \/ TouchEnd \/ TouchCancel \/ ResetTimer
    \/ \E far \in BOOLEAN : TouchMove(far)
    \/ \E m \in touch.mouse : MouseGoesOn(m) \/ NoClick(m)
    \/ \E t \in touch.tapping : TapHold(t)

Spec == Init /\ [][Next]_touch

-----------------------------------------------------------------------------
(* Properties                                                                *)

\* The mouse events of a touch came before the next one and the reset timer
InTime == ~touch.late /\ ~touch.overlapped

\* A gesture is one vclick at most, although the browser tells of a touch
\* twice; and none after a vmousecancel.  What the browser makes of a touch
\* too late, in between of the next or on another element is heard twice.
VClickOnce ==
    \A g \in Gestures :
       /\ InTime /\ ~touch.elsewhere => touch.heard[g].vclicks <= 1
       /\ InTime => ~(touch.heard[g].vclicks > 0 /\ touch.heard[g].cancelled)

\* What the page prevented is not followed when the browser's click comes
PreventedIsBlocked ==
    ~touch.late => \A g \in Gestures : ~(touch.heard[g].prevented /\ touch.heard[g].followed)

\* No finger and no button is down
Resting == touch.finger = NoFinger /\ touch.mouse = {}

\* A tap is heard once, its handlers go with it and a tap is held only while
\* the finger or the button is down, unless the gesture ended in a way that is
\* not told: by a scroll before the finger moved, a touchcancel or no click.
TapsEnd ==
    InTime /\ ~touch.left /\ ~touch.elsewhere =>
        /\ Resting => touch.tapping = {}
        /\ \A g \in Gestures : \A e \in Nodes : touch.heard[g].taps[e] <= 1
        /\ \A t \in touch.tapping : t.timer =>
              \/ touch.finger.gesture = t.gesture
              \/ \E m \in touch.mouse : m.gesture = t.gesture /\ m.next = "mouseup"

=============================================================================
