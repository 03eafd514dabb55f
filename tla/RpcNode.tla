------------------------------- MODULE RpcNode -------------------------------
(***************************************************************************)
(* The serving side of one XmppXmlRpcClientServer, from its constructor on:*)
(* connect logs in and then adds the packet listener, a program's thread   *)
(* adds handlers, before connect (an overridden initializeRpc) or after it *)
(* (as the main methods do), and the node's one listener thread looks up   *)
(* and runs the handlers other nodes call (InstanceBasedHandler).          *)
(*                                                                         *)
(* The two threads share the HashMaps of InstanceBasedHandler without a    *)
(* lock: every put and get is an action.  The few handlers of a node never *)
(* make a HashMap resize, and a put is taken to be seen by later gets.     *)
(*                                                                         *)
(* A handler name is the sequence of its parts between the dots.           *)
(***************************************************************************)
EXTENDS Naturals, Sequences, FiniteSets

CONSTANTS
    Requests,       \* calls other nodes make, each once
    NameOf,         \* methodName of each request, as its parts
    TextOf,         \* what kind of text the parameters of each request hold
    Keys,           \* names handlers are added under, as their parts
    Objects,        \* instances a handler is added with
    Classes,        \* classes, of those instances or added themselves
    ClassOf,        \* getClass() of each object
    ResultOf,       \* what each public method of each class ends with
    Nothing,        \* null, and no handler being added
    MaxAdds,        \* BOUND: calls of addHandler
    MaxSends        \* BOUND: how many of the requests are sent

\* The text of a parameter may have a "<" or "&" of its own.
Texts == {"plain", "markup"}

Phase == {"offline", "connected", "loggedIn", "listening", "failed"}

ASSUME RpcNodeAssumption ==
    /\ \A r \in Requests : NameOf[r] \in Seq(STRING) \ {<< >>}
    /\ TextOf \in [Requests -> Texts]
    /\ Keys \subseteq Seq(STRING)
    /\ ClassOf \in [Objects -> Classes]
    /\ \A c \in Classes : \A m \in DOMAIN ResultOf[c] :
          ResultOf[c][m] \in {"value", "thrown", "unwritten"}
    /\ Nothing \notin Objects \cup Classes \cup Requests \cup Phase
    /\ Objects \cap Classes = {}
    /\ MaxAdds \in Nat
    /\ MaxSends \in Nat

VARIABLES
    phase,          \* how far the constructor and connect have come
    adding,         \* the key and object addHandler has yet to put
    adds,           \* calls of addHandler so far
    handlerMap,     \* the inherited map: full method name -> class
    theInstanceHandlers,
    net,            \* requests on their way to the node
    inbox,          \* packets waiting for the node's listener thread
    listener,       \* what that thread is at
    outcome,        \* what became of each request
    sentAt,         \* history: the phase in which each request was sent
    seen            \* history: the instances a sent request's key has had

mainVars == <<phase, adding, adds>>
history == <<sentAt, seen>>
maps == <<handlerMap, theInstanceHandlers>>
vars == <<phase, adding, adds, handlerMap, theInstanceHandlers, net, inbox,
          listener, outcome, sentAt, seen>>

Kinds == {"value", "thrown", "unwritten", "noMethod"}

\* "by" is what ran the request, or should have: Nothing is a null object.
Outcome ==
    [kind : {"none", "bounced", "dropped", "garbled", "noSuchHandler"}]
    \cup [kind : Kinds \cup {"null"}, by : Objects \cup Classes \cup {Nothing}]

Listener ==
    [at : {"idle"}]
    \cup [at : {"contains", "instance", "class"}, req : Requests]
    \cup [at : {"run"}, req : Requests, by : Objects \cup Classes \cup {Nothing}]

TypeOK ==
    /\ phase \in Phase
    /\ adding \in (Keys \X Objects) \cup {Nothing}
    /\ adds \in Nat
    /\ handlerMap \in [DOMAIN handlerMap -> Classes]
    /\ DOMAIN theInstanceHandlers \subseteq Keys
    /\ theInstanceHandlers \in [DOMAIN theInstanceHandlers -> Objects]
    /\ net \subseteq Requests
    /\ inbox \in Seq(Requests)
    /\ listener \in Listener
    /\ outcome \in [Requests -> Outcome]
    /\ sentAt \in [Requests -> Phase \cup {Nothing}]
    /\ seen \in [Requests -> SUBSET (Objects \cup {Nothing})]

\* XmppXmlRpcClientServer(...): initializeRpc makes an empty mapping.
Init ==
    /\ phase = "offline"
    /\ adding = Nothing
    /\ adds = 0
    /\ handlerMap = [name \in {} |-> Nothing]
    /\ theInstanceHandlers = [key \in {} |-> Nothing]
    /\ net = {}
    /\ inbox = << >>
    /\ listener = [at |-> "idle"]
    /\ outcome = [r \in Requests |-> [kind |-> "none"]]
    /\ sentAt = [r \in Requests |-> Nothing]
    /\ seen = [r \in Requests |-> {}]

\* map.get(k), null when there is no entry.
Get(map, k) == IF k \in DOMAIN map THEN map[k] ELSE Nothing

\* map after a put of v for each key in ks.
PutAll(map, ks, v) ==
    [k \in DOMAIN map \cup ks |-> IF k \in ks THEN v ELSE map[k]]

-----------------------------------------------------------------------------
(* The thread that starts the node.                                         *)

Proceed(from, to) ==
    /\ phase = from
    /\ adding = Nothing
    /\ phase' = to
    /\ UNCHANGED <<adding, adds, maps, net, inbox, listener, outcome, history>>

\* connect: addIQProvider, connection.connect(), connection.login(...), and
\* only then addPacketListener.  Both may throw, which ends the program.
Connect == Proceed("offline", "connected")
Login == Proceed("connected", "loggedIn")
Fail == Proceed("offline", "failed") \/ Proceed("connected", "failed")
AddPacketListener == Proceed("loggedIn", "listening")

\* registerPublicMethods(pKey, class): an entry for each method.
MethodNames(key, c) == {Append(key, m) : m \in DOMAIN ResultOf[c]}

RegisterPublicMethods(key, c) ==
    /\ phase \in {"offline", "listening"}
    /\ adding = Nothing
    /\ adds < MaxAdds
    /\ adds' = adds + 1
    /\ handlerMap' = PutAll(handlerMap, MethodNames(key, c), c)
    /\ UNCHANGED <<phase, theInstanceHandlers, net, inbox, listener, outcome,
                   history>>

\* addHandler(String, Object) ...
AddInstance(key, o) ==
    RegisterPublicMethods(key, ClassOf[o]) /\ adding' = <<key, o>>

\* ... theInstanceHandlers.put(pKey, anObject)
PutInstance ==
    /\ adding # Nothing
    /\ LET key == adding[1]
           o == adding[2]
       IN  /\ theInstanceHandlers' = PutAll(theInstanceHandlers, {key}, o)
           /\ seen' = [r \in Requests |->
                IF sentAt[r] # Nothing /\ <<Head(NameOf[r])>> = key
                THEN seen[r] \cup {o} ELSE seen[r]]
    /\ adding' = Nothing
    /\ UNCHANGED <<phase, adds, handlerMap, net, inbox, listener, outcome,
                   sentAt>>

\* addHandler("examples", XmlRpcExampleHandler.class) is the inherited
\* addHandler(String, Class), which fills handlerMap and nothing else.
AddClass(key, c) == RegisterPublicMethods(key, c) /\ UNCHANGED adding

-----------------------------------------------------------------------------
(* Other nodes, and the XMPP server.                                        *)

\* Another node sends a request.
Send(r) ==
    /\ sentAt[r] = Nothing
    /\ Cardinality({q \in Requests : sentAt[q] # Nothing}) < MaxSends
    /\ sentAt' = [sentAt EXCEPT ![r] = phase]
    /\ seen' = [seen EXCEPT ![r] =
                    {Get(theInstanceHandlers, <<Head(NameOf[r])>>)}]
    /\ net' = net \cup {r}
    /\ UNCHANGED <<mainVars, maps, inbox, listener, outcome>>

\* The server delivers it to a node that has logged in ...
Arrive(r) ==
    /\ r \in net
    /\ phase \in {"loggedIn", "listening"}
    /\ net' = net \ {r}
    /\ inbox' = Append(inbox, r)
    /\ UNCHANGED <<mainVars, maps, listener, outcome, history>>

\* ... and bounces it if there is none.
Bounce(r) ==
    /\ r \in net
    /\ phase \notin {"loggedIn", "listening"}
    /\ net' = net \ {r}
    /\ outcome' = [outcome EXCEPT ![r] = [kind |-> "bounced"]]
    /\ UNCHANGED <<mainVars, maps, inbox, listener, history>>

-----------------------------------------------------------------------------
(* The listener thread.                                                     *)

End(r, result) ==
    /\ outcome' = [outcome EXCEPT ![r] = result]
    /\ listener' = [at |-> "idle"]
    /\ UNCHANGED <<mainVars, maps, net, history>>

\* Mutant of Drop: the listener's filter lets no request pass.
Drop_Always ==
    /\ listener.at = "idle"
    /\ inbox # << >>
    /\ inbox' = Tail(inbox)
    /\ End(Head(inbox), [kind |-> "dropped"])

\* A packet that comes before addPacketListener finds no listener.
Drop ==
    /\ listener.at = "idle"
    /\ inbox # << >>
    /\ phase # "listening"
    /\ inbox' = Tail(inbox)
    /\ End(Head(inbox), [kind |-> "dropped"])

\* RpcIqProvider.parseIQ undoes the escapes of the payload's text and does not
\* write them again: a "<" or "&" breaks the XML that theRpcServer parses.
Garbles(text) == text = "markup"

\* Mutant of Garble: the parser waits for the end of the broken XML.
Garble_Waits == FALSE

Garble ==
    /\ listener.at = "idle"
    /\ inbox # << >>
    /\ phase = "listening"
    /\ Garbles(TextOf[Head(inbox)])
    /\ inbox' = Tail(inbox)
    /\ End(Head(inbox), [kind |-> "garbled"])

HandleRpcPacket ==
    /\ listener.at = "idle"
    /\ inbox # << >>
    /\ phase = "listening"
    /\ ~Garbles(TextOf[Head(inbox)])
    /\ inbox' = Tail(inbox)
    /\ listener' = [at |-> "contains", req |-> Head(inbox)]
    /\ UNCHANGED <<mainVars, maps, net, outcome, history>>

GoOn(next) ==
    /\ listener' = next
    /\ UNCHANGED <<mainVars, maps, net, inbox, outcome, history>>

\* getHandler: if(!theInstanceHandlers.containsKey(pHandlerName)) ...
ContainsKey ==
    /\ listener.at = "contains"
    /\ GoOn([at |-> IF NameOf[listener.req] \in DOMAIN theInstanceHandlers
                    THEN "class" ELSE "instance",
             req |-> listener.req])

\* Mutant of GetInstance: the name is not cut at its first dot.
GetInstance_WholeName ==
    /\ listener.at = "instance"
    /\ GoOn([at |-> "run", req |-> listener.req,
             by |-> Get(theInstanceHandlers, NameOf[listener.req])])

\* ... new InstanceXmlRpcHandler(theInstanceHandlers.get(the part before "."))
GetInstance ==
    /\ listener.at = "instance"
    /\ GoOn([at |-> "run", req |-> listener.req,
             by |-> Get(theInstanceHandlers, <<Head(NameOf[listener.req])>>)])

\* ... or handlerMap.get(pHandlerName): a new instance of its class ...
GetClass ==
    /\ listener.at = "class"
    /\ NameOf[listener.req] \in DOMAIN handlerMap
    /\ GoOn([at |-> "run", req |-> listener.req,
             by |-> handlerMap[NameOf[listener.req]]])

\* ... or XmlRpcNoSuchHandlerException.
NoSuchHandler ==
    /\ listener.at = "class"
    /\ NameOf[listener.req] \notin DOMAIN handlerMap
    /\ UNCHANGED inbox
    /\ End(listener.req, [kind |-> "noSuchHandler"])

\* The class whose method is run, and the method's name: what follows the
\* first dot (all of a name without one), or the last part in handlerMap.
RunsIn(by) == IF by \in Objects THEN ClassOf[by] ELSE by

Method(name, by) ==
    IF by \in Classes THEN <<name[Len(name)]>>
    ELSE IF Len(name) = 1 THEN name ELSE Tail(name)

\* execute: theObject.getClass() of a null object is a NullPointerException.
Run(name, by) ==
    IF by = Nothing THEN "null"
    ELSE IF \E m \in DOMAIN ResultOf[RunsIn(by)] : Method(name, by) = <<m>>
         THEN ResultOf[RunsIn(by)][Head(Method(name, by))]
         ELSE "noMethod"

\* What is thrown up to here is answered with a fault, an "unwritten" result
\* (null, or of a type XML-RPC does not have) with nothing.
Execute ==
    /\ listener.at = "run"
    /\ UNCHANGED inbox
    /\ End(listener.req, [kind |-> Run(NameOf[listener.req], listener.by),
                          by |-> listener.by])

Listen ==
    \/ Drop \/ Garble \/ HandleRpcPacket \/ ContainsKey \/ GetInstance
    \/ GetClass \/ NoSuchHandler \/ Execute

Start == Connect \/ Login \/ Fail \/ AddPacketListener

AddHandler ==
    \/ \E key \in Keys, o \in Objects : AddInstance(key, o)
    \/ \E key \in Keys, c \in Classes : AddClass(key, c)
    \/ PutInstance

Next ==
    \/ Start
    \/ AddHandler
    \/ \E r \in Requests : Send(r) \/ Arrive(r) \/ Bounce(r)
    \/ Listen

Spec == Init /\ [][Next]_vars

\* The listener thread and the server go on; the program need not.
FairSpec ==
    /\ Spec
    /\ WF_vars(Listen)
    /\ \A r \in Requests : WF_vars(Arrive(r) \/ Bounce(r))

-----------------------------------------------------------------------------
(* What a node promises those who call it.                                  *)

Ran(r) == "by" \in DOMAIN outcome[r]

\* A call is run on an instance that was registered under its key at some
\* moment between its sending and its answer, and finds none only if there was
\* none at some such moment, although addHandler and getHandler share the maps
\* of InstanceBasedHandler (l.25-49) without a lock.  Only a call whose whole
\* name is itself a key is looked up among the classes.
RunByRegistered ==
    \A r \in Requests : Ran(r) =>
        \/ outcome[r].by \in seen[r]
        \/ outcome[r].by \in Classes /\ NameOf[r] \in DOMAIN theInstanceHandlers

\* A request that is sent when connect (l.114-144) has returned is neither
\* bounced nor dropped.
ListeningServes ==
    \A r \in Requests :
        outcome[r].kind \in {"bounced", "dropped"} => sentAt[r] # "listening"

\* Every request sent to a node comes to an end, whatever other requests do to
\* the one thread they are all handled by (handleRpcPacket, l.151-200): none is
\* left waiting behind another.
EveryRequestEnds ==
    \A r \in Requests : sentAt[r] # Nothing ~> outcome[r].kind # "none"

-----------------------------------------------------------------------------
(* The inductive invariants of the proofs in RpcNode_proofs.                *)

\* The requests that are somewhere in the node or on their way to it.
Pending ==
    net \cup {inbox[i] : i \in 1..Len(inbox)}
    \cup (IF listener.at = "idle" THEN {} ELSE {listener.req})

Ended == {r \in Requests : outcome[r].kind # "none"}

PendingSent == \A r \in Pending \cup Ended : sentAt[r] # Nothing

\* What getHandler would find now is among what has been seen.
SeenNow ==
    \A r \in Requests : sentAt[r] # Nothing =>
        Get(theInstanceHandlers, <<Head(NameOf[r])>>) \in seen[r]

\* What the listener thread has got and what it has run is registered.
AboutToRun ==
    listener.at = "run" =>
        \/ listener.by \in seen[listener.req]
        \/ /\ listener.by \in Classes
           /\ NameOf[listener.req] \in DOMAIN theInstanceHandlers

ByClassName ==
    listener.at = "class" => NameOf[listener.req] \in DOMAIN theInstanceHandlers

LookupInv ==
    PendingSent /\ SeenNow /\ AboutToRun /\ ByClassName /\ RunByRegistered

\* Once connect has returned, the node stays online and listening.
PhaseInv ==
    /\ \A r \in Requests : sentAt[r] = "listening" => phase = "listening"
    /\ ListeningServes
=============================================================================
