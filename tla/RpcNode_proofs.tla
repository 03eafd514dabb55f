--------------------------- MODULE RpcNode_proofs ---------------------------
(* Proofs about the serving side of a node, for any requests, keys, handlers *)
(* and methods.                                                              *)
EXTENDS RpcNode, TLAPS

By == Objects \cup Classes \cup {Nothing}

\* The maps keep their types when entries are put.
LEMMA PutType ==
    ASSUME NEW map, NEW T, map \in [DOMAIN map -> T], NEW ks, NEW v \in T
    PROVE  /\ PutAll(map, ks, v) \in [DOMAIN PutAll(map, ks, v) -> T]
           /\ DOMAIN PutAll(map, ks, v) = DOMAIN map \cup ks
BY DEF PutAll

LEMMA GetType ==
    ASSUME NEW map, NEW T, map \in [DOMAIN map -> T], NEW k
    PROVE  Get(map, k) \in T \cup {Nothing}
BY DEF Get

\* A run ends in one of the ways Outcome lists.
LEMMA RunType ==
    ASSUME NEW name, NEW by \in By
    PROVE  Run(name, by) \in Kinds \cup {"null"}
<1>1. CASE by = Nothing
  BY <1>1 DEF Run
<1>2. CASE by # Nothing
  <2>1. RunsIn(by) \in Classes
    BY <1>2, RpcNodeAssumption DEF By, RunsIn
  <2>2. ASSUME NEW m \in DOMAIN ResultOf[RunsIn(by)], Method(name, by) = <<m>>
        PROVE  Run(name, by) \in Kinds
    <3>1. Head(Method(name, by)) = m
      BY <2>2
    <3>2. ResultOf[RunsIn(by)][m] \in Kinds
      BY <2>1, <2>2, RpcNodeAssumption DEF Kinds
    <3>3. QED
      BY <1>2, <2>2, <3>1, <3>2 DEF Run
  <2>3. QED
    BY <1>2, <2>2 DEF Run, Kinds
<1>3. QED
  BY <1>1, <1>2

-----------------------------------------------------------------------------

\* The phases, maps, packets and outcomes of a node keep their types:
\* theInstanceHandlers holds instances, never a class.
THEOREM TypeCorrect == Spec => []TypeOK
<1> USE RpcNodeAssumption
<1>1. Init => TypeOK
  BY DEF Init, TypeOK, Phase, Outcome, Listener
<1>2. TypeOK /\ [Next]_vars => TypeOK'
  <2> SUFFICES ASSUME TypeOK, [Next]_vars PROVE TypeOK'
    OBVIOUS
  <2> USE DEF TypeOK, mainVars, maps, history
  <2>1. CASE Start
    BY <2>1 DEF Start, Connect, Login, Fail, AddPacketListener, Proceed, Phase
  <2>2. CASE AddHandler
    <3>1. ASSUME NEW key \in Keys, NEW c \in Classes,
                 RegisterPublicMethods(key, c)
          PROVE  /\ handlerMap' \in [DOMAIN handlerMap' -> Classes]
                 /\ adds' \in Nat
      <4> DEFINE map == PutAll(handlerMap, MethodNames(key, c), c)
      <4>1. map \in [DOMAIN map -> Classes]
        BY PutType
      <4>2. handlerMap' = map /\ adds' = adds + 1
        BY <3>1 DEF RegisterPublicMethods
      <4> HIDE DEF map
      <4>3. QED
        BY <4>1, <4>2
    <3>2. ASSUME NEW key \in Keys, NEW o \in Objects, AddInstance(key, o)
          PROVE  TypeOK'
      <4>1. ClassOf[o] \in Classes
        OBVIOUS
      <4>2. QED
        BY <3>1, <3>2, <4>1 DEF AddInstance, RegisterPublicMethods
    <3>3. ASSUME NEW key \in Keys, NEW c \in Classes, AddClass(key, c)
          PROVE  TypeOK'
      BY <3>1, <3>3 DEF AddClass, RegisterPublicMethods
    <3>4. CASE PutInstance
      <4>1. adding[1] \in Keys /\ adding[2] \in Objects
        BY <3>4 DEF PutInstance
      <4>2. /\ DOMAIN theInstanceHandlers' = DOMAIN theInstanceHandlers \cup {adding[1]}
            /\ theInstanceHandlers' \in [DOMAIN theInstanceHandlers' -> Objects]
        <5> DEFINE map == PutAll(theInstanceHandlers, {adding[1]}, adding[2])
        <5>1. map \in [DOMAIN map -> Objects]
          BY <4>1, PutType
        <5>1a. DOMAIN map = DOMAIN theInstanceHandlers \cup {adding[1]}
          BY DEF PutAll
        <5>2. theInstanceHandlers' = map
          BY <3>4 DEF PutInstance
        <5> HIDE DEF map
        <5>3. QED
          BY <5>1, <5>1a, <5>2
      <4>3. seen' \in [Requests -> SUBSET (Objects \cup {Nothing})]
        BY <3>4, <4>1 DEF PutInstance
      <4>4. QED
        BY <3>4, <4>1, <4>2, <4>3 DEF PutInstance
    <3>5. QED
      BY <2>2, <3>2, <3>3, <3>4 DEF AddHandler
  <2>3. ASSUME NEW r \in Requests, Send(r) PROVE TypeOK'
    <3>1. Get(theInstanceHandlers, <<Head(NameOf[r])>>) \in Objects \cup {Nothing}
      BY GetType
    <3>2. QED
      BY <2>3, <3>1 DEF Send
  <2>4. ASSUME NEW r \in Requests, Arrive(r) \/ Bounce(r) PROVE TypeOK'
    <3>1. CASE Arrive(r)
      <4>1. inbox' \in Seq(Requests) /\ net' \subseteq Requests
        BY <3>1 DEF Arrive
      <4>2. QED
        BY <3>1, <4>1 DEF Arrive
    <3>2. CASE Bounce(r)
      <4>1. outcome' \in [Requests -> Outcome]
        BY <3>2 DEF Bounce, Outcome
      <4>2. QED
        BY <3>2, <4>1 DEF Bounce
    <3>3. QED
      BY <2>4, <3>1, <3>2
  <2>5. CASE Listen
    <3>1. CASE Drop \/ Garble
      <4>1. Head(inbox) \in Requests /\ Tail(inbox) \in Seq(Requests)
        BY <3>1 DEF Drop, Garble
      <4>2. QED
        <5>1. outcome' \in [Requests -> Outcome]
          <6>1. [kind |-> "dropped"] \in Outcome /\ [kind |-> "garbled"] \in Outcome
            BY DEF Outcome
          <6>2. CASE Drop
            BY <6>1, <6>2, <4>1 DEF Drop, End
          <6>3. CASE Garble
            BY <6>1, <6>3, <4>1 DEF Garble, End
          <6>4. QED
            BY <3>1, <6>2, <6>3
        <5>2. listener' \in Listener
          BY <3>1 DEF Drop, Garble, End, Listener
        <5>3. QED
          BY <3>1, <4>1, <5>1, <5>2 DEF Drop, Garble, End
    <3>2. CASE HandleRpcPacket
      <4>1. Head(inbox) \in Requests /\ Tail(inbox) \in Seq(Requests)
        BY <3>2 DEF HandleRpcPacket
      <4>2. QED
        BY <3>2, <4>1 DEF HandleRpcPacket, Listener
    <3>3. CASE ContainsKey
      <4>1. listener.req \in Requests
        BY <3>3 DEF ContainsKey, Listener
      <4>2. QED
        BY <3>3, <4>1 DEF ContainsKey, GoOn, Listener
    <3>4. CASE GetInstance
      <4>1. listener.req \in Requests
        BY <3>4 DEF GetInstance, Listener
      <4>2. Get(theInstanceHandlers, <<Head(NameOf[listener.req])>>)
                \in Objects \cup {Nothing}
        BY GetType
      <4>3. QED
        BY <3>4, <4>1, <4>2 DEF GetInstance, GoOn, Listener
    <3>5. CASE GetClass
      <4>1. listener.req \in Requests
        BY <3>5 DEF GetClass, Listener
      <4>2. handlerMap[NameOf[listener.req]] \in Classes
        BY <3>5 DEF GetClass
      <4>3. QED
        BY <3>5, <4>1, <4>2 DEF GetClass, GoOn, Listener
    <3>6. CASE NoSuchHandler
      BY <3>6 DEF NoSuchHandler, End, Outcome, Listener
    <3>7. CASE Execute
      <4>1. listener.req \in Requests /\ listener.by \in By
        BY <3>7 DEF Execute, Listener, By
      <4>2. [kind |-> Run(NameOf[listener.req], listener.by),
             by |-> listener.by] \in Outcome
        BY <4>1, RunType DEF Outcome, By
      <4>3. QED
        BY <3>7, <4>2 DEF Execute, End, Listener
    <3>8. QED
      BY <2>5, <3>1, <3>2, <3>3, <3>4, <3>5, <3>6, <3>7 DEF Listen
  <2>6. CASE UNCHANGED vars
    BY <2>6 DEF vars
  <2>7. QED
    BY <2>1, <2>2, <2>3, <2>4, <2>5, <2>6 DEF Next
<1>3. QED
  BY <1>1, <1>2, PTL DEF Spec

-----------------------------------------------------------------------------

LEMMA HeldType ==
    ASSUME TypeOK, listener.at # "idle"
    PROVE  listener.req \in Requests
BY DEF TypeOK, Listener

\* What is known of a request that has been sent stays known.
LEMMA HistoryStep ==
    ASSUME TypeOK, [Next]_vars, NEW r \in Requests, sentAt[r] # Nothing
    PROVE  sentAt'[r] = sentAt[r] /\ seen[r] \subseteq seen'[r]
<1> USE DEF TypeOK, mainVars, maps, history
<1>1. CASE \E q \in Requests : Send(q)
  <2>1. PICK q \in Requests : Send(q)
    BY <1>1
  <2>2. q # r
    BY <2>1 DEF Send
  <2>3. QED
    BY <2>1, <2>2 DEF Send
<1>2. CASE PutInstance
  BY <1>2 DEF PutInstance
<1>3. CASE ~PutInstance /\ ~ \E q \in Requests : Send(q)
  <2>1. UNCHANGED history
    BY <1>3 DEF Next, vars, Start, Connect, Login, Fail, AddPacketListener,
                Proceed, AddHandler, AddInstance, AddClass,
                RegisterPublicMethods, Arrive, Bounce, Listen, Drop, Garble,
                HandleRpcPacket, ContainsKey, GetInstance, GetClass,
                NoSuchHandler, Execute, End, GoOn
  <2>2. QED
    BY <2>1
<1>4. QED
  BY <1>1, <1>2, <1>3

\* Keys are never taken out of theInstanceHandlers, and only PutInstance
\* changes it.
LEMMA KeysStep ==
    ASSUME TypeOK, [Next]_vars
    PROVE  /\ DOMAIN theInstanceHandlers \subseteq DOMAIN theInstanceHandlers'
           /\ theInstanceHandlers' = theInstanceHandlers \/ PutInstance
<1> USE DEF TypeOK, mainVars, maps, history
<1>1. CASE PutInstance
  BY <1>1 DEF PutInstance, PutAll
<1>2. CASE ~PutInstance
  BY <1>2 DEF Next, vars, Start, Connect, Login, Fail, AddPacketListener,
              Proceed, AddHandler, AddInstance, AddClass,
              RegisterPublicMethods, Send, Arrive, Bounce, Listen, Drop,
              Garble, HandleRpcPacket, ContainsKey, GetInstance, GetClass,
              NoSuchHandler, Execute, End, GoOn
<1>3. QED
  BY <1>1, <1>2

LEMMA PendingStep ==
    ASSUME TypeOK, PendingSent, [Next]_vars
    PROVE  PendingSent'
<1> SUFFICES ASSUME NEW r \in Pending' \cup Ended' PROVE sentAt'[r] # Nothing
  BY DEF PendingSent
<1> USE DEF TypeOK, mainVars, maps, history
<1>1. r \in Pending \cup Ended \/ (r \in Requests /\ Send(r))
  <2>1. ASSUME NEW q \in Requests, Send(q)
        PROVE  r \in Pending \cup Ended \/ (r \in Requests /\ Send(r))
    BY <2>1 DEF Send, Pending, Ended
  <2>2. ASSUME NEW q \in Requests, Arrive(q) PROVE r \in Pending \cup Ended
    <3>1. \A i \in 1..Len(inbox') :
             \/ inbox'[i] = q
             \/ i \in 1..Len(inbox) /\ inbox'[i] = inbox[i]
      <4>1. inbox \in Seq(Requests) /\ inbox' = Append(inbox, q)
        BY <2>2 DEF Arrive
      <4>2. Len(inbox) \in Nat /\ Len(inbox') = Len(inbox) + 1
        BY <4>1
      <4>3. ASSUME NEW i \in 1..Len(inbox')
            PROVE  \/ inbox'[i] = q
                   \/ i \in 1..Len(inbox) /\ inbox'[i] = inbox[i]
        <5>1. CASE i = Len(inbox) + 1
          BY <4>1, <5>1
        <5>2. CASE i # Len(inbox) + 1
          BY <4>1, <4>2, <5>2
        <5>3. QED
          BY <5>1, <5>2
      <4>4. QED
        BY <4>3
    <3>2. QED
      BY <2>2, <3>1 DEF Arrive, Pending, Ended
  <2>3. ASSUME NEW q \in Requests, Bounce(q) PROVE r \in Pending \cup Ended
    BY <2>3 DEF Bounce, Pending, Ended
  <2>4. CASE Drop \/ Garble \/ HandleRpcPacket
    <3>1. /\ Head(inbox) = inbox[1] /\ 1 \in 1..Len(inbox)
          /\ inbox' = Tail(inbox) /\ net' = net
      BY <2>4 DEF Drop, Garble, HandleRpcPacket, End
    <3>2. \A i \in 1..Len(inbox') :
             i + 1 \in 1..Len(inbox) /\ inbox'[i] = inbox[i + 1]
      BY <3>1
    <3>3. listener'.at = "idle" \/ listener'.req = Head(inbox)
      BY <2>4 DEF Drop, Garble, HandleRpcPacket, End
    <3>3a. \A q \in Requests : outcome'[q] = outcome[q] \/ q = Head(inbox)
      BY <2>4 DEF Drop, Garble, HandleRpcPacket, End
    <3>4. QED
      BY <3>1, <3>2, <3>3, <3>3a DEF Pending, Ended
  <2>5. CASE ContainsKey \/ GetInstance \/ GetClass
    BY <2>5 DEF ContainsKey, GetInstance, GetClass, GoOn, Pending, Ended
  <2>6. CASE NoSuchHandler \/ Execute
    BY <2>6 DEF NoSuchHandler, Execute, End, Pending, Ended
  <2>7. CASE Start \/ AddHandler \/ UNCHANGED vars
    <3>1. UNCHANGED <<net, inbox, listener, outcome>>
      BY <2>7 DEF Start, AddHandler, vars, Connect, Login, Fail,
                  AddPacketListener, Proceed, AddInstance, AddClass,
                  RegisterPublicMethods, PutInstance
    <3>2. QED
      BY <3>1 DEF Pending, Ended
  <2>8. QED
    BY <2>1, <2>2, <2>3, <2>4, <2>5, <2>6, <2>7 DEF Next, Listen
<1>2. CASE r \in Pending \cup Ended
  <2>1. r \in Requests
    BY <1>2, HeldType DEF Pending, Ended
  <2>2. QED
    BY <1>2, <2>1, HistoryStep DEF PendingSent
<1>3. CASE r \in Requests /\ Send(r)
  BY <1>3, RpcNodeAssumption DEF Send
<1>4. QED
  BY <1>1, <1>2, <1>3

\* The history of a request's key follows theInstanceHandlers.
LEMMA SeenStep ==
    ASSUME TypeOK, SeenNow, [Next]_vars
    PROVE  SeenNow'
<1> SUFFICES ASSUME NEW r \in Requests, sentAt'[r] # Nothing
             PROVE  Get(theInstanceHandlers', <<Head(NameOf[r])>>) \in seen'[r]
  BY DEF SeenNow, Get
<1> USE DEF TypeOK
<1>1. CASE PutInstance
  <2>1. sentAt[r] # Nothing
    BY <1>1 DEF PutInstance
  <2>2. CASE <<Head(NameOf[r])>> = adding[1]
    <3>1. Get(theInstanceHandlers', <<Head(NameOf[r])>>) = adding[2]
      BY <1>1, <2>2 DEF PutInstance, PutAll, Get
    <3>2. QED
      BY <1>1, <2>1, <2>2, <3>1 DEF PutInstance
  <2>3. CASE <<Head(NameOf[r])>> # adding[1]
    <3>1. Get(theInstanceHandlers', <<Head(NameOf[r])>>)
            = Get(theInstanceHandlers, <<Head(NameOf[r])>>)
      BY <1>1, <2>3 DEF PutInstance, PutAll, Get
    <3>2. QED
      BY <2>1, <3>1, HistoryStep DEF SeenNow
  <2>4. QED
    BY <2>2, <2>3
<1>2. CASE ~PutInstance
  <2>1. theInstanceHandlers' = theInstanceHandlers
    BY <1>2, KeysStep
  <2>2. CASE sentAt[r] # Nothing
    BY <2>1, <2>2, HistoryStep DEF SeenNow
  <2>3. CASE sentAt[r] = Nothing
    <3>1. Send(r)
      BY <2>3, <1>2 DEF Next, vars, Start, Connect, Login, Fail,
                AddPacketListener, Proceed, AddHandler, AddInstance, AddClass,
                RegisterPublicMethods, Send, Arrive, Bounce, Listen, Drop,
                Garble, HandleRpcPacket, ContainsKey, GetInstance, GetClass,
                NoSuchHandler, Execute, End, GoOn, history
    <3>2. QED
      BY <2>1, <3>1 DEF Send, Get
  <2>4. QED
    BY <2>2, <2>3
<1>3. QED
  BY <1>1, <1>2

-----------------------------------------------------------------------------

\* What the listener thread has got is registered, and stays so until it is
\* run.
LEMMA AboutToRunStep ==
    ASSUME TypeOK, LookupInv, [Next]_vars
    PROVE  AboutToRun' /\ ByClassName'
<1> USE DEF LookupInv, AboutToRun, ByClassName
<1>1. CASE listener' = listener /\ listener.at # "idle"
  <2>1. listener.req \in Requests /\ sentAt[listener.req] # Nothing
    BY <1>1, HeldType DEF Pending, PendingSent
  <2>2. QED
    BY <1>1, <2>1, HistoryStep, KeysStep
<1>2. CASE listener' # listener
  <2> USE DEF TypeOK, mainVars, maps, history
  <2>1. CASE Drop \/ Garble \/ HandleRpcPacket \/ NoSuchHandler \/ Execute
    BY <2>1 DEF Drop, Garble, HandleRpcPacket, NoSuchHandler, Execute, End
  <2>2. CASE ContainsKey
    BY <2>2 DEF ContainsKey, GoOn, Listener
  <2>3. CASE GetInstance
    <3>1. listener.req \in Requests /\ sentAt[listener.req] # Nothing
      BY <2>3, HeldType DEF GetInstance, Pending, PendingSent
    <3>2. QED
      BY <2>3, <3>1 DEF GetInstance, GoOn, SeenNow
  <2>4. CASE GetClass
    <3>1. handlerMap[NameOf[listener.req]] \in Classes
      BY <2>4 DEF GetClass
    <3>2. QED
      BY <2>4, <3>1 DEF GetClass, GoOn
  <2>5. QED
    BY <1>2, <2>1, <2>2, <2>3, <2>4
       DEF Next, vars, Start, Connect, Login, Fail, AddPacketListener,
           Proceed, AddHandler, AddInstance, AddClass, RegisterPublicMethods,
           PutInstance, Send, Arrive, Bounce, Listen
<1>3. CASE listener' = listener /\ listener.at = "idle"
  BY <1>3
<1>4. QED
  BY <1>1, <1>2, <1>3

LEMMA RunStep ==
    ASSUME TypeOK, LookupInv, [Next]_vars
    PROVE  RunByRegistered'
<1> SUFFICES ASSUME NEW r \in Requests, Ran(r)'
             PROVE  \/ outcome'[r].by \in seen'[r]
                    \/ /\ outcome'[r].by \in Classes
                       /\ NameOf[r] \in DOMAIN theInstanceHandlers'
  BY DEF RunByRegistered
<1> USE DEF LookupInv, Ran
<1>1. CASE outcome'[r] = outcome[r]
  <2>1. CASE sentAt[r] # Nothing
    BY <1>1, <2>1, HistoryStep, KeysStep DEF RunByRegistered
  <2>2. CASE sentAt[r] = Nothing
    <3>1. outcome[r].kind = "none"
      BY <2>2 DEF PendingSent, Ended
    <3>2. QED
      BY <1>1, <3>1 DEF TypeOK, Outcome, Kinds
  <2>3. QED
    BY <2>1, <2>2
<1>2. CASE outcome'[r] # outcome[r]
  <2> USE DEF TypeOK, mainVars, maps, history
  <2>1. Execute /\ r = listener.req
    <3>1. CASE Execute
      BY <1>2, <3>1 DEF Execute, End
    <3>2. CASE Drop \/ Garble \/ NoSuchHandler
      BY <1>2, <3>2 DEF Drop, Garble, NoSuchHandler, End
    <3>3. ASSUME NEW q \in Requests, Bounce(q) PROVE FALSE
      BY <1>2, <3>3 DEF Bounce
    <3>4. QED
      BY <1>2, <3>1, <3>2, <3>3
         DEF Next, vars, Start, Connect, Login, Fail, AddPacketListener,
             Proceed, AddHandler, AddInstance, AddClass,
             RegisterPublicMethods, PutInstance, Send, Arrive, Listen,
             HandleRpcPacket, ContainsKey, GetInstance, GetClass, GoOn
  <2>2. outcome'[r].by = listener.by /\ UNCHANGED <<seen, theInstanceHandlers>>
    BY <2>1 DEF Execute, End
  <2>3. QED
    BY <2>1, <2>2 DEF Execute, AboutToRun
<1>3. QED
  BY <1>1, <1>2

LEMMA InitLookup == Init => LookupInv
BY DEF Init, LookupInv, PendingSent, Pending, Ended, SeenNow, AboutToRun,
       ByClassName, RunByRegistered, Ran

\* For any requests, keys and handlers: a call runs on an instance that was
\* registered under its key between its sending and its answer, and finds none
\* only if there was none at some moment, however addHandler and getHandler
\* (InstanceBasedHandler l.25-49) interleave.
THEOREM CallsRunRegistered == Spec => []RunByRegistered
<1>1. TypeOK /\ LookupInv /\ [Next]_vars => LookupInv'
  BY PendingStep, SeenStep, AboutToRunStep, RunStep DEF LookupInv
<1>2. LookupInv => RunByRegistered
  BY DEF LookupInv
<1>3. QED
  BY <1>1, <1>2, InitLookup, TypeCorrect, PTL DEF Spec

-----------------------------------------------------------------------------

LEMMA PhaseStep ==
    ASSUME TypeOK, PendingSent, PhaseInv, [Next]_vars
    PROVE  PhaseInv'
<1> USE RpcNodeAssumption DEF TypeOK, PhaseInv, ListeningServes, mainVars,
                              maps, history
<1>1. phase = "listening" => phase' = "listening"
  BY DEF Next, vars, Start, Connect, Login, Fail, AddPacketListener,
         Proceed, AddHandler, AddInstance, AddClass, RegisterPublicMethods,
         PutInstance, Send, Arrive, Bounce, Listen, Drop, Garble,
         HandleRpcPacket, ContainsKey, GetInstance, GetClass, NoSuchHandler,
         Execute, End, GoOn
<1>2. CASE UNCHANGED <<sentAt, outcome>>
  BY <1>1, <1>2
<1>3. ASSUME NEW r \in Requests, Send(r) PROVE PhaseInv'
  <2>1. outcome[r].kind = "none"
    BY <1>3 DEF Send, PendingSent, Ended
  <2>2. QED
    BY <1>1, <1>3, <2>1 DEF Send
<1>4. ASSUME NEW r \in Requests, Bounce(r) PROVE PhaseInv'
  BY <1>1, <1>4 DEF Bounce
<1>5. CASE Drop
  BY <1>1, <1>5 DEF Drop, End
<1>6. CASE Garble \/ NoSuchHandler \/ Execute
  <2>1. UNCHANGED sentAt
    BY <1>6 DEF Garble, NoSuchHandler, Execute, End
  <2>2. ASSUME NEW r \in Requests, outcome'[r].kind \in {"bounced", "dropped"}
        PROVE  outcome'[r] = outcome[r]
    <3>1. \A name, by : by \in By => Run(name, by) \notin {"bounced", "dropped"}
      BY RunType DEF Kinds
    <3>2. CASE Execute
      <4>1. listener.by \in By
        BY <3>2 DEF Execute, Listener, By
      <4>2. QED
        BY <2>2, <3>1, <3>2, <4>1 DEF Execute, End
    <3>3. CASE Garble \/ NoSuchHandler
      BY <2>2, <3>3 DEF Garble, NoSuchHandler, End
    <3>4. QED
      BY <1>6, <3>2, <3>3
  <2>3. QED
    BY <1>1, <2>1, <2>2
<1>7. QED
  BY <1>2, <1>3, <1>4, <1>5, <1>6
     DEF Next, vars, Start, Connect, Login, Fail, AddPacketListener,
         Proceed, AddHandler, AddInstance, AddClass, RegisterPublicMethods,
         PutInstance, Arrive, Listen, HandleRpcPacket, ContainsKey,
         GetInstance, GetClass, GoOn

\* A request sent when connect (XmppXmlRpcClientServer l.114-144) has returned
\* is neither bounced nor dropped, for any number of requests and handlers.
THEOREM ListeningNodesServe == Spec => []ListeningServes
<1>1. Init => PhaseInv
  BY RpcNodeAssumption DEF Init, PhaseInv, ListeningServes, Phase
<1>2. Init => PendingSent
  BY InitLookup DEF LookupInv
<1>3. /\ TypeOK /\ PendingSent /\ [Next]_vars => PendingSent'
      /\ TypeOK /\ PendingSent /\ PhaseInv /\ [Next]_vars => PhaseInv'
  BY PendingStep, PhaseStep
<1>4. PhaseInv => ListeningServes
  BY DEF PhaseInv
<1>5. QED
  BY <1>1, <1>2, <1>3, <1>4, TypeCorrect, PTL DEF Spec
=============================================================================
