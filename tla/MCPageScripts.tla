---------------------------- MODULE MCPageScripts ----------------------------
(* An instance of PageScripts for TLC.                                       *)
EXTENDS PageScripts

SomeChars == {"\\", "2", "0", " ", "5", "c", "@", "/"}

SomeTexts == {<<>>, <<"<", "&", "amp;", "'">>}

SomeAttrs == {<<>>, << <<"id", <<"<">>>>, <<"Ref", <<"'", "&", "a">>>> >>}

\* The first listener registers another while deviceready fires
SomeRegisters == [l \in Listeners |-> IF l = "a" THEN "b" ELSE "no one"]

SomeHows ==
    [way : {"timed"}, props : {2}, queued : {TRUE}, mood : {"quiet"}]
    \cup [way : {"timed"}, props : {1}, queued : {TRUE}, mood : {"animates", "stops"}]
    \cup [way : {"instant"}, props : {1}, queued : {TRUE}, mood : {"animates"}]
    \cup [way : {"timed"}, props : {1}, queued : {FALSE}, mood : {"quiet"}]

Bound(guid, does) ==
    [id |-> 0, type |-> "click", ns |-> {}, guid |-> guid, how |-> "bind", does |-> does, sel |-> 0, orig |-> "click"]

SomeShapes ==
    {Bound("f", does) : does \in {"quiet", "stops", "stops now", "unbinds", "binds"}}
    \cup {[Bound("f", "quiet") EXCEPT !.how = "one", !.ns = {<<"ns", 1>>}]}
    \cup {[Bound("g", "quiet") EXCEPT !.type = type] : type \in {"focusin", "mouseenter"}}
    \cup {[Bound("g", "stops") EXCEPT !.type = "mouseover"]}
    \cup {[Bound("f", does) EXCEPT !.type = "live", !.how = "live", !.sel = sel, !.ns = {<<"sel", sel>>}] :
             does \in {"quiet", "stops"}, sel \in {1, 2}}

\* A link in a box
SomePaths == [a |-> {"a", "box"}, box |-> {"box"}]

SomeLayouts ==
    {[taps |-> {"a"}, clicks |-> [a |-> "none", box |-> "prevents"]],
     [taps |-> {"box"}, clicks |-> [a |-> "hears", box |-> "none"]]}

=============================================================================
