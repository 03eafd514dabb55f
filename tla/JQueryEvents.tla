----------------------------- MODULE JQueryEvents ----------------------------
(* Events of lib/jquery.js: the lists of handlers of elements, the listeners *)
(* that call them, trigger and the events of the browser, live handlers,     *)
(* focusin and mouseenter, which listen to other events.                     *)
(*                                                                           *)
(* The elements are one path of the document, from an element up to the      *)
(* document itself.  A handler calls jQuery in a way chosen when it is bound.*)
EXTENDS Integers, Sequences, FiniteSets, SequencesExt

CONSTANTS
    Depth,      \* elements are 1..Depth, the parent of e is e + 1
    MaxBinds,   \* the handlers bound, those of jQuery and of handlers too
    Shapes      \* how the page binds them

VARIABLE events

Elems == 1..Depth
Document == Depth
Types == {"click", "focusin", "mouseover", "mouseenter", "live"}
AnyGuid == "any"
WithinGuid == "withinElement"

Plain(guid, does) ==
    [id |-> 0, type |-> "click", ns |-> {}, guid |-> guid, how |-> "bind", does |-> does, sel |-> 0, orig |-> "click"]

-----------------------------------------------------------------------------
(* add and remove                                                            *)

Push(s, e, type, b) == [s EXCEPT !.lists[e][type] = Append(@, b)]

\* special[type].setup, or a listener of the element; mouseenter adds a
\* mouseover, which has no setup of its own
Listen(s, e, type) == [s EXCEPT !.native = @ \cup {<<e, type>>}]

Setup(s, e, type) ==
    CASE type = "focusin" ->
            [s EXCEPT !.attaches = @ + 1, !.capturing = @ \/ s.attaches = 0]
      [] type = "mouseenter" ->
            Push(IF s.lists[e]["mouseover"] = <<>> THEN Listen(s, e, "mouseover") ELSE s, e, "mouseover",
                 [Plain(WithinGuid, "quiet") EXCEPT !.how = "within"])
      [] OTHER -> Listen(s, e, type)

AddOne(s, e, type, b) == Push(IF s.lists[e][type] = <<>> THEN Setup(s, e, type) ELSE s, e, type, b)

\* A live handler is in the list "live", and liveHandler in that of its type
Add(s, e, type, b) ==
    AddOne(IF type = "live"
           THEN AddOne(s, e, b.orig, [b EXCEPT !.how = "liveHandler", !.ns = {<<"sel", b.sel>>}])
           ELSE s, e, type, b)

Goes(guid, ns, b) == (guid = AnyGuid \/ guid = b.guid) /\ ns \subseteq b.ns

\* The list without those that go, and whether it has been emptied
Drop(s, e, type, guid, ns) ==
    [s EXCEPT !.lists[e][type] = SelectSeq(@, LAMBDA b : ~Goes(guid, ns, b))]
Emptied(s, t, e, type) == s.lists[e][type] # <<>> /\ t.lists[e][type] = <<>>

Unlisten(s, t, e, type) == IF Emptied(s, t, e, type) THEN [t EXCEPT !.native = @ \ {<<e, type>>}] ELSE t

\* special[type].teardown
Teardown(s, e, type) ==
    CASE type = "focusin" ->
            [s EXCEPT !.attaches = @ - 1, !.capturing = @ /\ s.attaches # 1]
      [] type = "mouseenter" -> Unlisten(s, Drop(s, e, "mouseover", WithinGuid, {}), e, "mouseover")
      [] OTHER -> [s EXCEPT !.native = @ \ {<<e, type>>}]

RemoveOne(s, e, type, guid, ns) ==
    LET dropped == Drop(s, e, type, guid, ns)
    IN  IF Emptied(s, dropped, e, type) THEN Teardown(dropped, e, type) ELSE dropped

\* remove of a type: of one handler or any, in the namespaces given.  With a
\* live handler goes its liveHandler
RemoveEvent(s, e, type, guid, ns) ==
    LET gone == SelectSeq(s.lists[e]["live"], LAMBDA b : type = "live" /\ Goes(guid, ns, b))
    IN  FoldLeft(LAMBDA t, b : RemoveOne(t, e, b.orig, b.guid, {<<"sel", b.sel>>}),
                 RemoveOne(s, e, type, guid, ns), gone)

\* remove of all types, and cleanData of an element that leaves the document
RemoveTypes(s, e, ns) == FoldLeft(LAMBDA t, type : RemoveEvent(t, e, type, AnyGuid, ns), s, SetToSeq(Types))

-----------------------------------------------------------------------------
(* handle and trigger                                                        *)

\* The jQuery.Event at hand, and where it is
Event(kind, type, ns, target) ==
    [kind |-> kind, asked |-> type, type |-> type, ns |-> ns, target |-> target, at |-> target,
     stopped |-> kind \in {"handlers", "global"}, now |-> FALSE, liveFired |-> 0]

StopPropagation(s) == [s EXCEPT !.event.stopped = TRUE]

\* What a handler does when it is called on element e
Does(s, e, b) ==
    LET heard == [s EXCEPT !.heard = Append(@, [b |-> b, elem |-> e, at |-> s.event.at]),
                           !.calls[b.id] = IF b.how = "one" THEN @ + 1 ELSE @]
    IN  CASE b.does = "stops" -> StopPropagation(heard)
          [] b.does = "stops now" -> [StopPropagation(heard) EXCEPT !.event.now = TRUE]
          [] b.does = "unbinds" -> RemoveEvent(heard, e, s.event.type, AnyGuid, {})
          [] b.does = "binds" /\ heard.next <= MaxBinds ->
                Add([heard EXCEPT !.next = @ + 1], e, s.event.type,
                    [Plain("new", "quiet") EXCEPT !.id = heard.next, !.type = s.event.type])
          [] OTHER -> heard

\* liveHandler: the elements below e that match, the nearest first; what
\* stops keeps those further up from hearing, those as near still do
LiveHandler(s, e) ==
    LET begun  == [s EXCEPT !.event.liveFired = e]
        fits(b) == b.orig = s.event.type /\ s.event.ns \subseteq b.ns /\ s.event.target <= b.sel /\ b.sel < e
        live   == SelectSeq(s.lists[e]["live"], fits)
        nearest == SortSeq(live, LAMBDA a, b : a.sel < b.sel \/ (a.sel = b.sel /\ a.id < b.id))
        call(t, b) ==
            IF t.over \/ (t.level > 0 /\ b.sel > t.level) THEN t
            ELSE LET called == Does(t.s, b.sel, b)
                 IN  [s |-> called, level |-> IF called.event.stopped THEN b.sel ELSE t.level,
                      over |-> called.event.now]
    IN  IF s.event.liveFired = e THEN s
        ELSE FoldLeft(call, [s |-> begun, level |-> 0, over |-> FALSE], nearest).s

\* handler.apply; one() unbinds by the guid of its function, and then calls it
Apply(s, e, b) ==
    CASE b.how = "liveHandler" -> LiveHandler(s, e)
      [] b.how = "one" -> Does(RemoveEvent(s, e, s.event.type, b.guid, {}), e, b)
      [] OTHER -> Does(s, e, b)

\* handle: those bound by now, until one stops the event where it is
Snapshot(s, e) == SelectSeq(s.lists[e][s.event.type], LAMBDA b : s.event.ns \subseteq b.ns)
Started(s, e) == [s |-> [s EXCEPT !.event.at = e], over |-> FALSE]
Called(s) == [s |-> s, over |-> s.event.now]

HandleEnter(s, e) ==
    FoldLeft(LAMBDA t, b : IF t.over THEN t ELSE Called(Apply(t.s, e, b)), Started(s, e), Snapshot(s, e)).s

\* withinElement: the event becomes a mouseenter, for who comes after as
\* well, and is handled again; no handler of mouseenter is withinElement
Call(s, e, b, inside) ==
    LET enters == [s EXCEPT !.event.type = "mouseenter"]
    IN  IF b.how # "within" THEN Apply(s, e, b)
        ELSE IF e \in inside THEN enters
        ELSE HandleEnter(enters, e)

\* Mutant of Handle: the handlers that are left by then.
Handle_NoSnapshot(s, e, inside) ==
    FoldLeft(LAMBDA t, b : IF Contains(t.lists[e][s.event.type], b) THEN Call(t, e, b, inside) ELSE t,
             [s EXCEPT !.event.at = e], s.lists[e][s.event.type])

Handle(s, e, inside) ==
    FoldLeft(LAMBDA t, b : IF t.over THEN t ELSE Called(Call(t.s, e, b, inside)),
             Started(s, e), Snapshot(s, e)).s

\* The event on its way up; the browser calls what listens by then, with an
\* event of its own for every element
Bubble(s, from, inside) ==
    LET native == s.event.kind = "native"
        Fresh(t) == IF native THEN [t EXCEPT !.event.type = t.event.asked, !.event.liveFired = 0] ELSE t
        at(t, e) == IF e > from /\ t.event.stopped THEN t
                    ELSE IF native /\ <<e, t.event.asked>> \notin t.native THEN Fresh(t)
                    ELSE Handle(Fresh(t), e, inside)
    IN  FoldLeft(at, s, [i \in 1..(Document - from + 1) |-> from + i - 1])

-----------------------------------------------------------------------------
(* Steps                                                                     *)

Nothing == [e \in Elems |-> [type \in Types |-> <<>>]]

NoEvent == Event("none", "click", {}, 1)

\* Between events nothing is remembered of the last one
Quiet(s) == [s EXCEPT !.heard = <<>>, !.before = Nothing, !.event = NoEvent]

Fire(event) == [events EXCEPT !.event = event, !.heard = <<>>, !.before = events.lists]

\* bind, one, live and delegate
Bind(e, shape) ==
    LET id == events.next
        b  == [shape EXCEPT !.id = id]
    IN  /\ id <= MaxBinds
        /\ b.type = "live" => b.sel < e
        /\ events' = Quiet(Add([events EXCEPT !.next = @ + 1], e, b.type, b))

\* unbind, and die with the selector as a namespace
Unbind(e, type, guid, ns) ==
    /\ events.lists[e][type] # <<>>
    /\ events' = Quiet(RemoveEvent(events, e, type, guid, ns))

UnbindAll(e, ns) == events' = Quiet(RemoveTypes(events, e, ns))

\* trigger and triggerHandler.  A native method that does the default action
\* is called with triggered set: no handler hears the event it causes
Trigger(kind, e, type, ns) ==
    /\ kind \in {"trigger", "handlers"}
    /\ events' = Bubble(Fire(Event(kind, type, ns, e)), e, {})

\* trigger without an element: one event for every element with handlers
GlobalTrigger(type, order) ==
    events' = FoldLeft(LAMBDA s, e : IF s.lists[e][type] = <<>> THEN s
                                     ELSE Bubble([s EXCEPT !.event.target = e], e, {}),
                       Fire(Event("global", type, {}, 1)), order)

\* The browser's event; the pointer comes from inside the elements from related on
Native(e, type, related) ==
    events' = Bubble(Fire(Event("native", type, {}, e)), e, {a \in Elems : a >= related})

\* The browser's focus, which the capturing handler triggers as focusin
Focus(e) ==
    /\ events.capturing
    /\ events' = Bubble(Fire(Event("trigger", "focusin", {}, e)), e, {})

Init ==
    events = [lists |-> Nothing, native |-> {}, attaches |-> 0, capturing |-> FALSE, next |-> 1,
              calls |-> [id \in 0..MaxBinds |-> 0], heard |-> <<>>, before |-> Nothing, event |-> NoEvent]

PageTypes == {shape.type : shape \in Shapes}
Guids == {shape.guid : shape \in Shapes} \cup {AnyGuid}
Spaces == {shape.ns : shape \in Shapes} \cup {{}}
Orders == {[e \in Elems |-> e], [e \in Elems |-> Depth + 1 - e]}

\* The record of an event is looked at and dropped
Over == events.event # NoEvent /\ events' = Quiet(events)

Page ==
    \/ \E e \in Elems :
          \/ \E shape \in Shapes : Bind(e, shape)
          \/ \E ns \in Spaces : UnbindAll(e, ns)
          \/ \E type \in PageTypes : \E ns \in Spaces :
                \/ \E guid \in Guids : Unbind(e, type, guid, ns)
                \/ type # "live" /\ \E kind \in {"trigger", "handlers"} : Trigger(kind, e, type, ns)
          \/ \E type \in {"click", "mouseover"} : \E related \in e..Depth + 1 : Native(e, type, related)
          \/ Focus(e)
    \/ \E type \in PageTypes \ {"live"} : \E order \in Orders : GlobalTrigger(type, order)

Next == Over \/ (events.event = NoEvent /\ Page)

Spec == Init /\ [][Next]_events

-----------------------------------------------------------------------------
(* Properties                                                                *)

\* The browser calls jQuery where there are handlers and nowhere else, the
\* document captures focus while one wants focusin, and what jQuery bound for
\* a mouseenter or a live handler goes with it
ListenersRight ==
    /\ \A e \in Elems : \A type \in {"click", "mouseover", "live"} :
          <<e, type>> \in events.native <=> events.lists[e][type] # <<>>
    /\ events.attaches = Cardinality({e \in Elems : events.lists[e]["focusin"] # <<>>})
    /\ events.capturing <=> events.attaches > 0
    /\ \A e \in Elems :
          LET bound(type, how) == SelectSeq(events.lists[e][type], LAMBDA b : b.how = how)
          IN  /\ Len(bound("mouseover", "within")) <= 1
              /\ bound("mouseover", "within") # <<>> => events.lists[e]["mouseenter"] # <<>>
              /\ \A i \in DOMAIN bound("click", "liveHandler") :
                    \E j \in DOMAIN events.lists[e]["live"] :
                       events.lists[e]["live"][j].id = bound("click", "liveHandler")[i].id

\* An event is heard by those who were bound when it began, each once, the
\* nearest first and then as they were bound; where it is stopped it goes no
\* further; and a function bound by one() is called once for good.  All who
\* fit hear it when none stops it or unbinds others, but one() does not keep
\* them from hearing.
HeardRight ==
    LET heard == events.heard
        ev    == events.event
        Bound(b, e, type) == Contains(events.before[e][type], b)
        calm  == \A e \in Elems : \A type \in Types : \A i \in DOMAIN events.before[e][type] :
                    events.before[e][type][i].does \in {"quiet", "binds"}
        path  == IF ev.kind = "handlers" THEN {ev.target} ELSE ev.target..Depth
    IN  /\ \A i, j \in DOMAIN heard : i # j => heard[i].b # heard[j].b
        /\ \A i \in DOMAIN heard : heard[i].b.how = "one" => events.calls[heard[i].b.id] = 1
        /\ ev.kind # "global" =>
              /\ \A i \in DOMAIN heard : \E type \in Types : Bound(heard[i].b, heard[i].at, type)
              /\ \A i, j \in DOMAIN heard : i < j =>
                    /\ heard[i].at <= heard[j].at
                    /\ heard[i].at = heard[j].at /\ heard[i].b.type = heard[j].b.type =>
                          heard[i].elem < heard[j].elem \/ (heard[i].elem = heard[j].elem /\ heard[i].b.id < heard[j].b.id)
                    /\ heard[i].b.does = "stops" => heard[j].at = heard[i].at
                    /\ heard[i].b.does # "stops now"
        /\ calm /\ ev.kind \in {"trigger", "handlers", "native"} /\ ev.type = ev.asked =>
              \A e \in path : \A i \in DOMAIN events.before[e][ev.asked] :
                 LET b == events.before[e][ev.asked][i]
                     hears(id) == \E j \in DOMAIN heard : heard[j].b.id = id /\ heard[j].at = e
                 IN  /\ ev.ns \subseteq b.ns /\ b.how # "within"
                     /\ b.how = "liveHandler" => ev.target <= b.sel
                     => hears(b.id)

=============================================================================
