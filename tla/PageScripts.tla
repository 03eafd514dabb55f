----------------------------- MODULE PageScripts -----------------------------
(* All parts of the page's script libraries that have a module each and      *)
(* share nothing, and the app's plugin behind one of them, checked in one    *)
(* run: those of PageParts, and here the parts whose methods call each other *)
(* in turn.                                                                  *)
EXTENDS PageParts

CONSTANTS
    Codes, CodeLength,                                      \* Digest
    Chars, TextLength,                                      \* StropheText
    Tags, Texts, AttrSets, ChainLength,                     \* StropheXml
    Listeners, Early, Registers, Features, MaxCalls,        \* PhoneGap
    MaxAnswers, MaxEvents,
    Given, MaxCallbacks, MaxHolds,                          \* JQueryDeferred
    MaxElems, MaxAnims, MaxPromises, MaxLooks, Hows,        \* JQueryEffects
    Depth, MaxBinds, Shapes,                                \* JQueryEvents
    Pages, Dialogs, Loadable, MaxMoves                      \* JQueryMobile

VARIABLES
    code, text, tree, node, calls,                      \* Strophe's
    gap,                                                \* PhoneGap's
    defer, ready, fx, events,                           \* jQuery's
    mobile                                              \* jQuery Mobile's

Digest  == INSTANCE Digest WITH input <- code, MaxLength <- CodeLength
Text    == INSTANCE StropheText WITH input <- text, MaxLength <- TextLength
Xml     == INSTANCE StropheXml WITH MaxCalls <- ChainLength
Gap     == INSTANCE PhoneGap
Deferred == INSTANCE JQueryDeferred
Effects == INSTANCE JQueryEffects
Events  == INSTANCE JQueryEvents
Mobile  == INSTANCE JQueryMobile

textVars   == <<code, text, tree, node, calls>>
jqueryVars == <<defer, ready, fx, events, mobile>>

Init ==
    /\ PartsInit
    /\ Digest!Init /\ Text!Init /\ Xml!Init
    /\ Gap!Init /\ (part # "bridge" => gap = Gap!Loaded([device |-> Gap!Async, connection |-> Gap!Async], TRUE))
    /\ Deferred!Init /\ (part # "deferred" => ready.of = "deferreds")
    /\ Effects!Init /\ (part # "effects" => fx.raf)
    /\ Events!Init
    /\ Mobile!Init /\ (part # "mobile" => mobile.css /\ mobile.hist = <<Mobile!Empty>>)

\* Strophe's texts and PhoneGap's bridge
StepOfOthers ==
    \/ /\ \/ part = "digest" /\ Digest!Next /\ UNCHANGED <<text, tree, node, calls>>
          \/ part = "text" /\ Text!Next /\ UNCHANGED <<code, tree, node, calls>>
          \/ part = "xml" /\ Xml!Next /\ UNCHANGED <<code, text>>
       /\ UNCHANGED gap
    \/ part = "bridge" /\ Gap!Next /\ UNCHANGED textVars

StepOfJQuery ==
    \/ part = "deferred" /\ Deferred!Next /\ UNCHANGED <<fx, events, mobile>>
    \/ part = "effects" /\ Effects!Next /\ UNCHANGED <<defer, ready, events, mobile>>
    \/ part = "events" /\ Events!Next /\ UNCHANGED <<defer, ready, fx, mobile>>
    \/ part = "mobile" /\ Mobile!Next /\ UNCHANGED <<defer, ready, fx, events>>

Next ==
    \/ PartsNext /\ UNCHANGED <<textVars, gap, jqueryVars>>
    \/ StepOfOthers /\ UNCHANGED <<partsVars, jqueryVars>>
    \/ StepOfJQuery /\ UNCHANGED <<partsVars, textVars, gap>>

Spec == Init /\ [][Next]_<<partsVars, textVars, gap, jqueryVars>>

-----------------------------------------------------------------------------
(* Properties: each is stated in the module of its part                      *)

\* Base64 and MD5 code and digest strings of bytes as their RFCs say and
\* decode what they encoded, the parts of a JID are the texts it was made of,
\* and a stanza that was built and serialized reads as it was built
TextsRight ==
    /\ part = "digest" => Digest!Base64Right /\ Digest!DigestRight
    /\ part = "text" => Text!JidReads
    /\ part = "xml" => Xml!StanzaReads

\* deviceready is heard once, by everyone, when all it waits for is ready;
\* calls across the bridge hear their answers once and in order, one loop
\* fetches them, and the connection's type is the last one told
BridgeRight ==
    part = "bridge" => Gap!DeviceReadyOnce /\ Gap!CallsSettle /\ Gap!OneLoop /\ Gap!ConnectionTold

\* Callbacks of deferreds, functions that wait for the document, queues of
\* effects and handlers of events are called once, in order, and all of them
CallbacksRight ==
    /\ part = "deferred" => Deferred!DeferredsSettle /\ Deferred!ReadyRuns
    /\ part = "effects" => Effects!QueuesRun
    /\ part = "events" => Events!ListenersRight /\ Events!HeardRight

\* One change of page at a time, what waits is served, pages that are hidden
\* go, and the hash names the page shown
MobileRight == part = "mobile" => Mobile!Locked /\ Mobile!PagesThere /\ Mobile!HashAgrees

=============================================================================
