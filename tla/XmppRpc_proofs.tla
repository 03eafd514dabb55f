--------------------------- MODULE XmppRpc_proofs ---------------------------
(* Proofs about XmppRpc for any nodes, wrappers, callers and calls.         *)
EXTENDS XmppRpc, TLAPS

USE XmppRpcAssumption

-----------------------------------------------------------------------------
(* What packets and queues are made of.                                     *)

LEMMA PacketFields ==
    ASSUME NEW p \in Packet
    PROVE  /\ p.type \in {"SET", "RESULT", "ERROR"}
           /\ p.from \in Nodes /\ p.to \in Nodes
           /\ p.id \in Nat
           /\ p.req \in Request
           /\ p.body = "value" => p.type = "RESULT"
BY DEF Packet

LEMMA ReplyFields ==
    ASSUME NEW p \in Packet, p.type = "SET", NEW body \in {"value", "fault"}
    PROVE  /\ Reply(p, body) \in Packet
           /\ Reply(p, body).type = "RESULT" /\ Reply(p, body).body = body
           /\ Reply(p, body).from = p.to /\ Reply(p, body).to = p.from
           /\ Reply(p, body).id = p.id /\ Reply(p, body).req = p.req
BY DEF Packet, Reply

LEMMA CallerTypes ==
    ASSUME NEW c \in Callers
    PROVE  WrapperOf[c] \in Wrappers /\ HomeOf(c) \in Nodes /\ Jvm(c) \in Jvms
BY DEF HomeOf, Jvm

LEMMA SentFields ==
    ASSUME TypeOK, NEW c \in Callers
    PROVE  /\ Sent(c) \in Packet
           /\ Sent(c).type = "SET" /\ Sent(c).body = "call"
           /\ Sent(c).from = HomeOf(c)
           /\ Sent(c).id = theIndex[Jvm(c)]
           /\ Sent(c).req = Current(c)
<1>1. EndpointOf[WrapperOf[c]] \in Nodes /\ theIndex[Jvm(c)] \in Nat
      /\ calls[c] \in Nat /\ HomeOf(c) \in Nodes
  BY CallerTypes DEF TypeOK
<1>2. QED
  BY <1>1 DEF Sent, Packet, Request, Current

LEMMA BouncedFields ==
    ASSUME NEW p \in Packet, p.type = "SET"
    PROVE  /\ Bounced(p) \in Packet
           /\ Bounced(p).type = "ERROR" /\ Bounced(p).body = "call"
           /\ Bounced(p).from = p.to /\ Bounced(p).to = p.from
           /\ Bounced(p).id = p.id /\ Bounced(p).req = p.req
<1>1. p \in [type : {"SET", "ERROR"}, from : Nodes, to : Nodes, id : Nat,
             req : Request, body : {"call"}]
  BY DEF Packet
<1>2. Bounced(p) \in [type : {"SET", "ERROR"}, from : Nodes, to : Nodes,
                      id : Nat, req : Request, body : {"call"}]
  BY <1>1 DEF Bounced
<1>3. QED
  BY <1>1, <1>2 DEF Packet, Bounced

LEMMA PutNewType ==
    ASSUME TypeOK, NEW n \in Nodes, NEW i \in Nat,
           NEW m \in Callers \cup Nodes, PutNew(n, i, m)
    PROVE  /\ table' = [x \in Nodes |-> table'[x]]
           /\ \A x \in Nodes : IsTable(table'[x])
           /\ \A x \in Nodes : x # n => table'[x] = table[x]
           /\ DOMAIN table'[n] = DOMAIN table[n] \cup {i}
           /\ table'[n][i] = [id |-> i, by |-> m]
           /\ \A x \in DOMAIN table[n] : x # i => table'[n][x] = table[n][x]
<1> DEFINE new == [x \in DOMAIN table[n] \cup {i} |->
                      IF x = i THEN [id |-> i, by |-> m] ELSE table[n][x]]
<1>1. table' = [table EXCEPT ![n] = new]
  BY DEF PutNew
<1>2. table = [x \in Nodes |-> table[x]] /\ \A x \in Nodes : IsTable(table[x])
  BY DEF TypeOK
<1>3. table'[n] = new /\ \A x \in Nodes : x # n => table'[x] = table[x]
  BY <1>1, <1>2
<1>4. table' = [x \in Nodes |-> table'[x]]
  BY <1>1, <1>2
<1>5. [id |-> i, by |-> m] \in Queue
  BY DEF Queue
<1>6. IsTable(new)
  BY <1>2, <1>5 DEF IsTable
<1>7. QED
  BY <1>2, <1>3, <1>4, <1>6

-----------------------------------------------------------------------------
(* Type correctness.                                                        *)

LEMMA InitType == Init => TypeOK
BY DEF Init, TypeOK, PC, Outcome, Listener, IsTable

\* What each step of a caller does to the variables' types.
LEMMA CallType ==
    ASSUME TypeOK, PresentInv, NEW c \in Callers, Enter(c) \/ Call(c)
    PROVE  TypeOK'
<1> USE CallerTypes DEF TypeOK, PC, Goto
<1>1. CASE Enter(c)
  <2>1. calls[c] + 1 \in Nat
    OBVIOUS
  <2>2. QED
    BY <1>1, <2>1 DEF Enter
<1>2. CASE LoadIndex(c)
  BY <1>2 DEF LoadIndex
<1>3. CASE StoreIndex(c)
  <2>1. loaded[c] + 1 \in Nat
    OBVIOUS
  <2>2. QED
    BY <1>3, <2>1 DEF StoreIndex
<1>4. CASE SendRequest(c)
  <2>1. Sent(c) \in Packet
    BY SentFields
  <2>2. net' = net \cup {Sent(c)}
    BY <1>4 DEF SendRequest
  <2>3. net' \subseteq Packet
    BY <2>1, <2>2
  <2>4. theId' \in [Callers -> Nat] /\ pc' \in [Callers -> PC]
    BY <1>4 DEF SendRequest
  <2>5. QED
    BY <1>4, <2>3, <2>4 DEF SendRequest
<1>5. CASE CallerGet(c)
  BY <1>5 DEF CallerGet
<1>6. CASE CallerPut(c)
  <2>1. /\ table' = [x \in Nodes |-> table'[x]]
        /\ \A x \in Nodes : IsTable(table'[x])
    BY <1>6, PutNewType DEF CallerPut
  <2>2. QED
    BY <1>6, <2>1 DEF CallerPut
<1>7. CASE CallerGetAgain(c)
  <2>1. pc[c] = "getAgain"
    BY <1>7 DEF CallerGetAgain
  <2>2. table[HomeOf(c)][theId[c]] \in Queue
    <3>1. HomeOf(c) \in Nodes
      BY CallerTypes
    <3>2. theId[c] \in DOMAIN table[HomeOf(c)]
      BY <2>1 DEF PresentInv, Present
    <3>3. IsTable(table[HomeOf(c)])
      BY <3>1
    <3>4. QED
      BY <3>2, <3>3 DEF IsTable
  <2>3. QED
    BY <1>7, <2>2 DEF CallerGetAgain
<1>8. QED
  BY <1>1, <1>2, <1>3, <1>4, <1>5, <1>6, <1>7 DEF Call, GetQueue

\* The end of a call.
LEMMA ReturnType ==
    ASSUME TypeOK, NEW c \in Callers, NEW r \in Outcome, Return(c, r)
    PROVE  /\ lock' \in [Wrappers -> Callers \cup {Nobody}]
           /\ pc' \in [Callers -> PC]
           /\ queue' \in [Callers -> Queue \cup {Nobody}]
           /\ outcome' \in [Callers -> Outcome]
BY CallerTypes DEF TypeOK, PC, Goto, Return

LEMMA GiveUpType ==
    ASSUME TypeOK, NEW c \in Callers, GiveUp(c) PROVE TypeOK'
<1>1. PICK why \in {"npe", "interrupted"} : Return(c, [kind |-> why])
  BY DEF GiveUp
<1>2. [kind |-> why] \in Outcome
  BY DEF Outcome
<1>3. QED
  BY <1>1, <1>2, ReturnType DEF TypeOK, GiveUp, Return

LEMMA ParseType ==
    ASSUME NEW p \in Packet PROVE Parse(p) \in Outcome
BY PacketFields DEF Parse, Outcome

\* The packet in the hands of a listener.
LEMMA HeldType ==
    ASSUME TypeOK, NEW n \in Nodes, listener[n].at # "idle"
    PROVE  listener[n].pkt \in Packet
BY DEF TypeOK, Listener

LEMMA ListenType ==
    ASSUME TypeOK, PresentInv, ListenerInv, NEW n \in Nodes, Listen(n)
    PROVE  TypeOK'
<1> USE DEF TypeOK
<1>1. ASSUME NEW p \in net, Take(n, p) PROVE TypeOK'
  <2> DEFINE l == [at |-> IF p.type = "SET" THEN "serve" ELSE "get", pkt |-> p]
  <2>1. l \in Listener
    BY DEF Listener
  <2>2. listener' = [listener EXCEPT ![n] = l]
    BY <1>1 DEF Take
  <2>3. listener' \in [Nodes -> Listener]
    BY <2>1, <2>2
  <2>4. net' \subseteq Packet
    BY <1>1 DEF Take
  <2>5. QED
    BY <1>1, <2>3, <2>4 DEF Take, callerVars
<1>2. CASE Serve(n)
  <2>1. listener[n].pkt \in Packet /\ listener[n].pkt.type = "SET"
    BY <1>2, HeldType DEF Serve, ListenerInv, Busy
  <2>2. net' \subseteq Packet /\ executed' \subseteq Request
    BY <1>2, <2>1, ReplyFields, PacketFields DEF Serve
  <2>3. [at |-> "idle"] \in Listener
    BY DEF Listener
  <2>4. listener' \in [Nodes -> Listener]
    BY <1>2, <2>3 DEF Serve
  <2>5. QED
    BY <1>2, <2>2, <2>4 DEF Serve, callerVars
<1>3. CASE ListenerGet(n)
  <2>1. listener' = [listener EXCEPT ![n] =
            [listener[n] EXCEPT !.at =
                IF Present(n, listener[n].pkt.id) THEN "getAgain" ELSE "put"]]
    BY <1>3 DEF ListenerGet
  <2>2. listener[n] \in [at : {"serve", "get", "put", "getAgain"}, pkt : Packet]
    BY <1>3 DEF ListenerGet, Listener
  <2>3. [listener[n] EXCEPT !.at =
            IF Present(n, listener[n].pkt.id) THEN "getAgain" ELSE "put"]
          \in Listener
    BY <2>2 DEF Listener
  <2>4. listener' \in [Nodes -> Listener]
    BY <2>1, <2>3
  <2>5. QED
    BY <1>3, <2>4 DEF ListenerGet, callerVars
<1>4. CASE ListenerPut(n)
  <2>1. listener' = [listener EXCEPT ![n] = [listener[n] EXCEPT !.at = "getAgain"]]
    BY <1>4 DEF ListenerPut
  <2>2. listener[n] \in [at : {"serve", "get", "put", "getAgain"}, pkt : Packet]
    BY <1>4 DEF ListenerPut, Listener
  <2>3. [listener[n] EXCEPT !.at = "getAgain"] \in Listener
    BY <2>2 DEF Listener
  <2>4. listener' \in [Nodes -> Listener]
    BY <2>1, <2>3
  <2>5. listener[n].pkt.id \in Nat
    BY <2>2, PacketFields
  <2>6. /\ table' = [x \in Nodes |-> table'[x]]
        /\ \A x \in Nodes : IsTable(table'[x])
    BY <1>4, <2>5, PutNewType DEF ListenerPut
  <2>7. QED
    BY <1>4, <2>4, <2>6 DEF ListenerPut, callerVars
<1>5. CASE ListenerGetAgain(n)
  <2> DEFINE p == listener[n].pkt
             l == [at |-> "handoff", pkt |-> p, queue |-> table[n][p.id]]
  <2>1. p \in Packet /\ table[n][p.id] \in Queue
    BY <1>5, HeldType DEF ListenerGetAgain, PresentInv, Present, IsTable
  <2>2. l \in Listener
    BY <2>1 DEF Listener
  <2>3. listener' = [listener EXCEPT ![n] = l]
    BY <1>5 DEF ListenerGetAgain
  <2>4. listener' \in [Nodes -> Listener]
    BY <2>2, <2>3
  <2>5. QED
    BY <1>5, <2>4 DEF ListenerGetAgain, callerVars
<1>6. ASSUME NEW c \in Callers, Handoff(n, c) PROVE TypeOK'
  <2>1. listener[n].pkt \in Packet
    BY <1>6, HeldType DEF Handoff
  <2>2. Return(c, Parse(listener[n].pkt)) /\ Parse(listener[n].pkt) \in Outcome
    BY <1>6, <2>1, ParseType DEF Handoff
  <2>3. [at |-> "idle"] \in Listener
    BY DEF Listener
  <2>4. listener' \in [Nodes -> Listener]
    BY <1>6, <2>3 DEF Handoff
  <2>5. QED
    BY <2>2, <2>4, ReturnType DEF Return
<1>7. QED
  BY <1>1, <1>2, <1>3, <1>4, <1>5, <1>6 DEF Listen, Lookup

LEMMA NetworkType ==
    ASSUME TypeOK, NEW p \in net, Bounce(p) \/ Lose(p)
    PROVE  TypeOK'
<1> USE DEF TypeOK
<1>1. CASE Bounce(p)
  <2>1. Bounced(p) \in Packet
    BY <1>1, BouncedFields DEF Bounce
  <2>2. net' \subseteq Packet
    BY <1>1, <2>1 DEF Bounce
  <2>3. QED
    BY <1>1, <2>2 DEF Bounce, callerVars
<1>2. CASE Lose(p)
  BY <1>2 DEF Lose, callerVars
<1>3. QED
  BY <1>1, <1>2

-----------------------------------------------------------------------------
(* What a step does to the parts of the state the invariants relate.        *)

LEMMA PresentStep ==
    ASSUME TypeOK, PresentInv, [Next]_vars PROVE PresentInv'
<1> USE DEF PresentInv, Present, Goto
<1>1. ASSUME NEW n \in Nodes, NEW i \in Nat, NEW m \in Callers \cup Nodes,
             PutNew(n, i, m)
      PROVE  /\ \A x \in Nodes : DOMAIN table[x] \subseteq DOMAIN table'[x]
             /\ i \in DOMAIN table'[n]
  <2>1. /\ \A x \in Nodes : x # n => table'[x] = table[x]
        /\ DOMAIN table'[n] = DOMAIN table[n] \cup {i}
    BY <1>1, PutNewType
  <2>2. QED
    BY <2>1
<1>2. ASSUME NEW c \in Callers, Enter(c) \/ Call(c) \/ GiveUp(c)
      PROVE  PresentInv'
  <2>1. CASE Enter(c)
    BY <2>1 DEF Enter, TypeOK
  <2>2. CASE LoadIndex(c)
    BY <2>2 DEF LoadIndex, TypeOK
  <2>3. CASE StoreIndex(c)
    BY <2>3 DEF StoreIndex, TypeOK
  <2>4. CASE SendRequest(c)
    BY <2>4 DEF SendRequest, TypeOK
  <2>5. CASE CallerGet(c)
    BY <2>5 DEF CallerGet, TypeOK
  <2>6. CASE CallerPut(c)
    <3>1. PutNew(HomeOf(c), theId[c], c) /\ theId[c] \in Nat /\ HomeOf(c) \in Nodes
      BY <2>6, CallerTypes DEF CallerPut, TypeOK
    <3>2. /\ \A x \in Nodes : DOMAIN table[x] \subseteq DOMAIN table'[x]
          /\ theId[c] \in DOMAIN table'[HomeOf(c)]
      BY <3>1, <1>1
    <3>3. pc' = [pc EXCEPT ![c] = "getAgain"] /\ theId' = theId /\ listener' = listener
      BY <2>6 DEF CallerPut
    <3>4. ASSUME NEW d \in Callers, pc'[d] = "getAgain"
          PROVE  theId'[d] \in DOMAIN table'[HomeOf(d)]
      BY <3>2, <3>3, <3>4, CallerTypes DEF TypeOK
    <3>5. QED
      BY <3>2, <3>3, <3>4
  <2>7. CASE CallerGetAgain(c)
    BY <2>7 DEF CallerGetAgain, TypeOK
  <2>8. CASE GiveUp(c)
    BY <2>8 DEF GiveUp, Return, TypeOK
  <2>9. QED
    BY <1>2, <2>1, <2>2, <2>3, <2>4, <2>5, <2>6, <2>7, <2>8 DEF Call, GetQueue
<1>3. ASSUME NEW n \in Nodes, Listen(n) PROVE PresentInv'
  <2>1. ASSUME NEW p \in net, Take(n, p) PROVE PresentInv'
    BY <2>1 DEF Take, TypeOK, callerVars
  <2>2. CASE Serve(n)
    BY <2>2 DEF Serve, TypeOK, callerVars
  <2>3. CASE ListenerGet(n)
    BY <2>3 DEF ListenerGet, TypeOK, callerVars
  <2>4. CASE ListenerPut(n)
    <3>1. listener[n].pkt.id \in Nat
      BY <2>4, HeldType, PacketFields DEF ListenerPut
    <3>2. /\ \A x \in Nodes : DOMAIN table[x] \subseteq DOMAIN table'[x]
          /\ listener[n].pkt.id \in DOMAIN table'[n]
      BY <2>4, <3>1, <1>1 DEF ListenerPut
    <3>3. /\ listener' = [listener EXCEPT ![n].at = "getAgain"]
          /\ pc' = pc /\ theId' = theId
      BY <2>4 DEF ListenerPut, callerVars
    <3>4. \A m \in Nodes : listener'[m].pkt = listener[m].pkt
      BY <3>3 DEF TypeOK
    <3>5. ASSUME NEW m \in Nodes, listener'[m].at = "getAgain"
          PROVE  listener'[m].pkt.id \in DOMAIN table'[m]
      BY <3>2, <3>3, <3>4, <3>5 DEF TypeOK
    <3>6. QED
      BY <3>2, <3>3, <3>5, CallerTypes
  <2>5. CASE ListenerGetAgain(n)
    BY <2>5 DEF ListenerGetAgain, TypeOK, callerVars
  <2>6. ASSUME NEW c \in Callers, Handoff(n, c) PROVE PresentInv'
    BY <2>6 DEF Handoff, Return, TypeOK
  <2>7. QED
    BY <1>3, <2>1, <2>2, <2>3, <2>4, <2>5, <2>6 DEF Listen, Lookup
<1>4. ASSUME NEW p \in net, Bounce(p) \/ Lose(p) PROVE PresentInv'
  BY <1>4 DEF Bounce, Lose, callerVars
<1>5. CASE UNCHANGED vars
  BY <1>5 DEF vars, callerVars
<1>6. QED
  BY <1>2, <1>3, <1>4, <1>5 DEF Next

LEMMA ListenerStep ==
    ASSUME TypeOK, ListenerInv, [Next]_vars PROVE ListenerInv'
<1> USE DEF ListenerInv, Busy
<1>1. CASE UNCHANGED listener
  BY <1>1
<1>2. ASSUME NEW n \in Nodes, Listen(n) PROVE ListenerInv'
  <2>1. ASSUME NEW p \in net, Take(n, p) PROVE ListenerInv'
    BY <2>1 DEF Take, TypeOK
  <2>2. CASE Serve(n)
    BY <2>2 DEF Serve, TypeOK
  <2>3. CASE ListenerGet(n)
    BY <2>3 DEF ListenerGet, TypeOK
  <2>4. CASE ListenerPut(n)
    BY <2>4 DEF ListenerPut, TypeOK
  <2>5. CASE ListenerGetAgain(n)
    BY <2>5 DEF ListenerGetAgain, TypeOK
  <2>6. ASSUME NEW c \in Callers, Handoff(n, c) PROVE ListenerInv'
    BY <2>6 DEF Handoff, TypeOK
  <2>7. QED
    BY <1>2, <2>1, <2>2, <2>3, <2>4, <2>5, <2>6 DEF Listen, Lookup
<1>3. CASE ~ \E n \in Nodes : Listen(n)
  <2>1. UNCHANGED listener
    BY <1>3 DEF Next, vars, Enter, Call, LoadIndex, StoreIndex, SendRequest,
                GetQueue, CallerGet, CallerPut, CallerGetAgain, GiveUp,
                Bounce, Lose
  <2>2. QED
    BY <1>1, <2>1
<1>4. QED
  BY <1>2, <1>3

\* The types, with what the second get and the listener's branches rest on.
TypeInv == TypeOK /\ PresentInv /\ ListenerInv

LEMMA InitTypeInv == Init => TypeInv
BY InitType DEF Init, TypeInv, PresentInv, ListenerInv, Busy

LEMMA TypeStep == TypeInv /\ [Next]_vars => TypeInv'
<1> SUFFICES ASSUME TypeInv, [Next]_vars PROVE TypeInv'
  OBVIOUS
<1> USE DEF TypeInv
<1>1. ASSUME NEW c \in Callers, Enter(c) \/ Call(c) \/ GiveUp(c) PROVE TypeOK'
  BY <1>1, CallType, GiveUpType
<1>2. ASSUME NEW n \in Nodes, Listen(n) PROVE TypeOK'
  BY <1>2, ListenType
<1>3. ASSUME NEW p \in net, Bounce(p) \/ Lose(p) PROVE TypeOK'
  BY <1>3, NetworkType
<1>4. ASSUME UNCHANGED vars PROVE TypeOK'
  BY <1>4 DEF vars, callerVars, TypeOK
<1>5. TypeOK'
  BY <1>1, <1>2, <1>3, <1>4 DEF Next
<1>6. QED
  BY <1>5, PresentStep, ListenerStep

LEMMA TypeInvariant == Spec => []TypeInv
BY InitTypeInv, TypeStep, PTL DEF Spec

\* The tables, queues, packets and thread states of the nodes always have
\* their types: in particular the second get of getTheRpcResponseQueue
\* (l.56-62) never returns null.
THEOREM TypeCorrect == Spec => []TypeOK
<1>1. TypeInv => TypeOK
  BY DEF TypeInv
<1>2. QED
  BY <1>1, TypeInvariant, PTL

-----------------------------------------------------------------------------
(* Packets under way.                                                       *)

\* The same request under the same id, for the same node.
Alike(q, p) == ClientOf(q) = ClientOf(p) /\ q.id = p.id /\ q.req = p.req

LEMMA FlyingType == TypeOK => Flying \subseteq Packet
BY HeldType DEF TypeOK, Flying, Busy

\* Every packet under way was under way before, or is the reply to one that
\* was, or has just been sent.
LEMMA FlyingStep ==
    ASSUME TypeInv, [Next]_vars, NEW q \in Flying'
    PROVE  \/ \E p \in Flying :
                 /\ Alike(q, p)
                 /\ q.body = "value" => p.body = "value" \/ q.req \in executed'
           \/ \E c \in Callers : SendRequest(c) /\ q = Sent(c)
<1> USE DEF TypeInv
<1>1. CASE q \in Flying
  BY <1>1 DEF Alike
<1>2. ASSUME NEW c \in Callers, SendRequest(c), q \notin Flying
      PROVE  q = Sent(c)
  BY <1>2 DEF SendRequest, Flying, Busy
<1>3. ASSUME NEW n \in Nodes, Listen(n), q \notin Flying
      PROVE  \E p \in Flying :
                /\ Alike(q, p)
                /\ q.body = "value" => q.req \in executed'
  <2>1. ASSUME NEW p \in net, Take(n, p) PROVE FALSE
    BY <1>3, <2>1 DEF Take, Flying, Busy, TypeOK
  <2>2. CASE Serve(n)
    <3> DEFINE p == listener[n].pkt
    <3>1. p \in Packet /\ p.type = "SET" /\ p \in Flying
      BY <2>2, HeldType DEF Serve, ListenerInv, Busy, Flying
    <3>2. q \in net'
      BY <1>3, <2>2 DEF Serve, Flying, Busy, TypeOK
    <3>3. PICK body \in {"value", "fault"} :
             /\ q = Reply(p, body)
             /\ body = "value" => p.req \in executed'
      BY <1>3, <2>2, <3>2 DEF Serve, Flying
    <3>4. Alike(q, p)
      BY <3>1, <3>3, ReplyFields DEF Alike, ClientOf
    <3>5. QED
      BY <3>1, <3>3, <3>4, ReplyFields
  <2>3. CASE ListenerGet(n)
    BY <1>3, <2>3 DEF ListenerGet, Flying, Busy, TypeOK
  <2>4. CASE ListenerPut(n)
    BY <1>3, <2>4 DEF ListenerPut, Flying, Busy, TypeOK
  <2>5. CASE ListenerGetAgain(n)
    BY <1>3, <2>5 DEF ListenerGetAgain, Flying, Busy, TypeOK
  <2>6. ASSUME NEW c \in Callers, Handoff(n, c) PROVE FALSE
    BY <1>3, <2>6 DEF Handoff, Return, Flying, Busy, TypeOK
  <2>7. QED
    BY <1>3, <2>1, <2>2, <2>3, <2>4, <2>5, <2>6 DEF Listen, Lookup
<1>4. ASSUME NEW p \in net, Bounce(p) \/ Lose(p), q \notin Flying
      PROVE  p \in Flying /\ Alike(q, p) /\ q.body # "value"
  <2>1. Bounce(p) /\ q = Bounced(p)
    BY <1>4 DEF Bounce, Lose, Flying, Busy
  <2>2. p \in Packet /\ p \in Flying
    BY DEF TypeOK, Flying
  <2>3. QED
    BY <2>1, <2>2, BouncedFields DEF Bounce, Alike, ClientOf
<1>5. CASE \E c \in Callers : SendRequest(c)
  BY <1>1, <1>2, <1>5
<1>6. CASE \E n \in Nodes : Listen(n)
  BY <1>1, <1>3, <1>6
<1>7. CASE \E p \in net : Bounce(p) \/ Lose(p)
  BY <1>1, <1>4, <1>7
<1>8. ASSUME NEW c \in Callers,
             \/ Enter(c) \/ LoadIndex(c) \/ StoreIndex(c) \/ GetQueue(c)
             \/ GiveUp(c)
      PROVE  q \in Flying
  BY <1>8 DEF Enter, LoadIndex, StoreIndex, GetQueue, CallerGet, CallerPut,
              CallerGetAgain, GiveUp, Return, Flying, Busy
<1>9. CASE UNCHANGED vars
  BY <1>9, <1>1 DEF vars, Flying, Busy
<1>10. QED
  BY <1>1, <1>5, <1>6, <1>7, <1>8, <1>9 DEF Next, Call

-----------------------------------------------------------------------------
(* Replies reach their own callers.                                         *)

LEMMA LockStep ==
    ASSUME TypeOK, InCallInv, [Next]_vars PROVE InCallInv'
<1> USE DEF InCallInv, TypeOK, Goto
<1>1. CASE UNCHANGED <<lock, pc, calls>>
  BY <1>1
<1>2. ASSUME NEW c \in Callers, Enter(c) PROVE InCallInv'
  BY <1>2, CallerTypes DEF Enter
<1>3. ASSUME NEW c \in Callers, UNCHANGED <<lock, calls>>, pc[c] # "idle",
             pc' = [pc EXCEPT ![c] = pc'[c]]
      PROVE  InCallInv'
  BY <1>3
<1>4. ASSUME NEW c \in Callers, NEW r, Return(c, r) PROVE InCallInv'
  BY <1>4, CallerTypes DEF Return
<1>5. ASSUME NEW c \in Callers, Call(c) PROVE InCallInv'
  <2>1. UNCHANGED <<lock, calls>> /\ pc[c] # "idle" /\ pc' = [pc EXCEPT ![c] = pc'[c]]
    BY <1>5 DEF Call, LoadIndex, StoreIndex, SendRequest, GetQueue, CallerGet,
                CallerPut, CallerGetAgain
  <2>2. QED
    BY <2>1, <1>3
<1>6. ASSUME NEW n \in Nodes, Listen(n) PROVE InCallInv'
  BY <1>6, <1>1, <1>4 DEF Listen, Take, Serve, Lookup, ListenerGet,
              ListenerPut, ListenerGetAgain, Handoff, callerVars
<1>7. ASSUME NEW p \in net, Bounce(p) \/ Lose(p) PROVE InCallInv'
  BY <1>7, <1>1 DEF Bounce, Lose, callerVars
<1>8. CASE UNCHANGED vars
  BY <1>8, <1>1 DEF vars, callerVars
<1>9. QED
  BY <1>2, <1>4, <1>5, <1>6, <1>7, <1>8 DEF Next, GiveUp

\* Two threads of one JVM are never inside execute at once.
LEMMA OneInCall ==
    ASSUME OneWrapperPerJvm, InCallInv,
           NEW c \in Callers, NEW d \in Callers,
           pc[c] # "idle", pc[d] # "idle", Jvm(c) = Jvm(d)
    PROVE  c = d
BY DEF OneWrapperPerJvm, InCallInv

\* Calls are counted in Enter only.
LEMMA CallsStep ==
    ASSUME TypeOK, [Next]_vars
    PROVE  /\ \A c \in Callers : \/ calls'[c] = calls[c]
                                 \/ Enter(c) /\ calls'[c] = calls[c] + 1
           /\ \A c \in Callers : calls[c] <= calls'[c]
<1> USE DEF TypeOK, Goto
<1>1. ASSUME NEW c \in Callers, Enter(c)
      PROVE  \A d \in Callers : calls'[d] = IF d = c THEN calls[c] + 1 ELSE calls[d]
  BY <1>1 DEF Enter
<1>2. CASE UNCHANGED calls
  BY <1>2
<1>3. CASE \E c \in Callers : Enter(c)
  BY <1>1, <1>3
<1>4. CASE ~ \E c \in Callers : Enter(c)
  <2>1. UNCHANGED calls
    BY <1>4 DEF Next, vars, callerVars, Call, LoadIndex, StoreIndex,
                SendRequest, GetQueue, CallerGet, CallerPut, CallerGetAgain,
                GiveUp, Return, Listen, Take, Serve, Lookup, ListenerGet,
                ListenerPut, ListenerGetAgain, Handoff, Bounce, Lose
  <2>2. QED
    BY <2>1, <1>2
<1>5. QED
  BY <1>3, <1>4

\* The id counters move in StoreIndex only, and forward.
LEMMA CountersStep ==
    ASSUME TypeOK, IndexInv, [Next]_vars
    PROVE  /\ \A i \in Jvms : theIndex[i] <= theIndex'[i]
           /\ UNCHANGED theIndex \/ \E c \in Callers : StoreIndex(c)
<1> USE DEF TypeOK, Goto
<1>1. ASSUME NEW c \in Callers, StoreIndex(c)
      PROVE  \A i \in Jvms : theIndex[i] <= theIndex'[i]
  BY <1>1, CallerTypes DEF StoreIndex, IndexInv
<1>2. CASE UNCHANGED theIndex
  BY <1>2
<1>3. CASE \E c \in Callers : StoreIndex(c)
  BY <1>1, <1>3
<1>4. CASE ~ \E c \in Callers : StoreIndex(c)
  <2>1. UNCHANGED theIndex
    BY <1>4 DEF Next, vars, callerVars, Enter, Call, LoadIndex, SendRequest,
                GetQueue, CallerGet, CallerPut, CallerGetAgain, GiveUp, Return,
                Listen, Take, Serve, Lookup, ListenerGet, ListenerPut,
                ListenerGetAgain, Handoff, Bounce, Lose
  <2>2. QED
    BY <2>1, <1>2
<1>5. QED
  BY <1>3, <1>4

LEMMA PacketStep ==
    ASSUME TypeInv, PacketInv, IndexInv, [Next]_vars PROVE PacketInv'
<1> SUFFICES ASSUME NEW q \in Flying'
             PROVE  /\ HomeOf(q.req.caller) = ClientOf(q)
                    /\ q.id <= theIndex'[JvmOf[ClientOf(q)]]
  BY DEF PacketInv
<1> USE DEF TypeInv
<1>1. ASSUME NEW p \in Flying, Alike(q, p)
      PROVE  /\ HomeOf(q.req.caller) = ClientOf(q)
             /\ q.id <= theIndex'[JvmOf[ClientOf(q)]]
  <2>1. p.id \in Nat /\ JvmOf[ClientOf(p)] \in Jvms
    BY FlyingType, PacketFields DEF ClientOf
  <2>2. /\ HomeOf(p.req.caller) = ClientOf(p)
        /\ p.id <= theIndex[JvmOf[ClientOf(p)]]
    BY DEF PacketInv
  <2>3. /\ theIndex[JvmOf[ClientOf(p)]] <= theIndex'[JvmOf[ClientOf(p)]]
        /\ theIndex[JvmOf[ClientOf(p)]] \in Nat
        /\ theIndex'[JvmOf[ClientOf(p)]] \in Nat
    BY <2>1, CountersStep, TypeStep DEF TypeOK
  <2>4. QED
    BY <1>1, <2>1, <2>2, <2>3 DEF Alike
<1>2. ASSUME NEW c \in Callers, SendRequest(c), q = Sent(c)
      PROVE  /\ HomeOf(q.req.caller) = ClientOf(q)
             /\ q.id <= theIndex'[JvmOf[ClientOf(q)]]
  <2>1. /\ q.type = "SET" /\ q.from = HomeOf(c) /\ q.id = theIndex[Jvm(c)]
        /\ q.req = Current(c)
    BY <1>2, SentFields
  <2>2. theIndex' = theIndex /\ theIndex[Jvm(c)] \in Nat
    BY <1>2, CallerTypes DEF SendRequest, TypeOK
  <2>3. QED
    BY <1>2, <2>1, <2>2 DEF ClientOf, Current, Jvm
<1>3. QED
  BY <1>1, <1>2, FlyingStep

\* How a caller gets to each of the points the invariants speak of.
LEMMA WaitingStep ==
    ASSUME TypeOK, [Next]_vars, NEW c \in Callers
    PROVE  /\ Waiting(c)' => \/ SendRequest(c)
                             \/ /\ Waiting(c)
                                /\ theId'[c] = theId[c] /\ calls'[c] = calls[c]
           /\ pc'[c] = "store" => \/ LoadIndex(c)
                                  \/ pc[c] = "store" /\ loaded'[c] = loaded[c]
           /\ pc'[c] = "send" => StoreIndex(c) \/ pc[c] = "send"
<1> DEFINE P == /\ Waiting(c)' => \/ SendRequest(c)
                                  \/ /\ Waiting(c)
                                     /\ theId'[c] = theId[c]
                                     /\ calls'[c] = calls[c]
                /\ pc'[c] = "store" => \/ LoadIndex(c)
                                       \/ pc[c] = "store" /\ loaded'[c] = loaded[c]
                /\ pc'[c] = "send" => StoreIndex(c) \/ pc[c] = "send"
<1> USE DEF TypeOK, Goto, Waiting
<1>1. CASE UNCHANGED <<pc, theId, calls, loaded>>
  BY <1>1
<1>2. ASSUME NEW d \in Callers, Enter(d) PROVE P
  BY <1>2 DEF Enter
<1>3. ASSUME NEW d \in Callers, LoadIndex(d) PROVE P
  BY <1>3 DEF LoadIndex
<1>4. ASSUME NEW d \in Callers, StoreIndex(d) PROVE P
  BY <1>4 DEF StoreIndex
<1>5. ASSUME NEW d \in Callers, SendRequest(d) PROVE P
  BY <1>5 DEF SendRequest
<1>6. ASSUME NEW d \in Callers, CallerGet(d) PROVE P
  BY <1>6 DEF CallerGet
<1>7. ASSUME NEW d \in Callers, CallerPut(d) PROVE P
  BY <1>7 DEF CallerPut
<1>8. ASSUME NEW d \in Callers, CallerGetAgain(d) PROVE P
  BY <1>8 DEF CallerGetAgain
<1>9. ASSUME NEW d \in Callers, NEW r, Return(d, r) PROVE P
  BY <1>9 DEF Return
<1>10. ASSUME NEW n \in Nodes, Listen(n) PROVE P
  BY <1>1, <1>9, <1>10 DEF Listen, Take, Serve, Lookup, ListenerGet,
              ListenerPut, ListenerGetAgain, Handoff, callerVars
<1>11. ASSUME NEW p \in net, Bounce(p) \/ Lose(p) PROVE P
  BY <1>1, <1>11 DEF Bounce, Lose, callerVars
<1>12. CASE UNCHANGED vars
  BY <1>1, <1>12 DEF vars, callerVars
<1>13. QED
  BY <1>2, <1>3, <1>4, <1>5, <1>6, <1>7, <1>8, <1>9, <1>10, <1>11, <1>12
     DEF Next, Call, GetQueue, GiveUp

\* Only Enter gets a caller to the points before its request is sent.
LEMMA FreshPcStep ==
    ASSUME TypeOK, [Next]_vars, NEW c \in Callers,
           pc'[c] \in {"load", "store", "send"}, ~Enter(c)
    PROVE  pc[c] \in {"load", "store", "send"} /\ ~SendRequest(c)
<1> USE DEF TypeOK, Goto
<1>1. ~SendRequest(c)
  BY DEF SendRequest
<1>2. CASE UNCHANGED pc
  BY <1>1, <1>2
<1>3. ASSUME NEW d \in Callers, Enter(d) \/ LoadIndex(d) \/ StoreIndex(d)
      PROVE  pc[c] \in {"load", "store", "send"}
  BY <1>3 DEF Enter, LoadIndex, StoreIndex
<1>4. ASSUME NEW d \in Callers, SendRequest(d) \/ GetQueue(d)
      PROVE  pc[c] \in {"load", "store", "send"}
  BY <1>4 DEF SendRequest, GetQueue, CallerGet, CallerPut, CallerGetAgain
<1>5. ASSUME NEW d \in Callers, NEW r, Return(d, r)
      PROVE  pc[c] \in {"load", "store", "send"}
  BY <1>5 DEF Return
<1>6. ASSUME NEW n \in Nodes, Listen(n)
      PROVE  pc[c] \in {"load", "store", "send"}
  BY <1>2, <1>5, <1>6 DEF Listen, Take, Serve, Lookup, ListenerGet,
              ListenerPut, ListenerGetAgain, Handoff, callerVars
<1>7. ASSUME NEW p \in net, Bounce(p) \/ Lose(p)
      PROVE  pc[c] \in {"load", "store", "send"}
  BY <1>2, <1>7 DEF Bounce, Lose, callerVars
<1>8. CASE UNCHANGED vars
  BY <1>2, <1>8 DEF vars, callerVars
<1>9. QED
  BY <1>1, <1>3, <1>4, <1>5, <1>6, <1>7, <1>8 DEF Next, Call, GiveUp

LEMMA IndexStep ==
    ASSUME OneWrapperPerJvm, TypeInv, InCallInv, PacketInv, IndexInv,
           [Next]_vars
    PROVE  IndexInv'
<1> SUFFICES ASSUME NEW c \in Callers
             PROVE  /\ pc'[c] = "store" => loaded'[c] = theIndex'[Jvm(c)]
                    /\ Waiting(c)' => theId'[c] <= theIndex'[Jvm(c)]
                    /\ pc'[c] = "send" =>
                          \A q \in Flying' :
                              JvmOf[ClientOf(q)] = Jvm(c) => q.id < theIndex'[Jvm(c)]
  BY DEF IndexInv
<1> USE DEF TypeInv
<1>1. /\ Jvm(c) \in Jvms /\ theIndex[Jvm(c)] \in Nat /\ theIndex'[Jvm(c)] \in Nat
      /\ theIndex[Jvm(c)] <= theIndex'[Jvm(c)]
      /\ theId[c] \in Nat /\ loaded[c] \in Nat
  BY CallerTypes, CountersStep, TypeStep DEF TypeOK
<1>2. ASSUME NEW d \in Callers, StoreIndex(d), pc[c] # "idle", c # d
      PROVE  theIndex'[Jvm(c)] = theIndex[Jvm(c)]
  <2>1. Jvm(c) # Jvm(d)
    BY <1>2, OneInCall DEF StoreIndex, Goto
  <2>2. QED
    BY <1>2, <2>1, CallerTypes DEF StoreIndex, TypeOK
<1>3. ASSUME pc'[c] = "store" PROVE loaded'[c] = theIndex'[Jvm(c)]
  <2>1. CASE LoadIndex(c)
    BY <2>1, CallerTypes DEF LoadIndex, TypeOK
  <2>2. CASE pc[c] = "store" /\ loaded'[c] = loaded[c]
    <3>1. loaded[c] = theIndex[Jvm(c)]
      BY <2>2 DEF IndexInv
    <3>2. ~StoreIndex(c)
      BY <1>3 DEF StoreIndex, Goto, TypeOK
    <3>3. QED
      BY <2>2, <3>1, <3>2, <1>2, CountersStep
  <2>3. QED
    BY <1>3, <2>1, <2>2, WaitingStep
<1>4. ASSUME Waiting(c)' PROVE theId'[c] <= theIndex'[Jvm(c)]
  <2>1. CASE SendRequest(c)
    BY <1>1, <2>1 DEF SendRequest, TypeOK
  <2>2. CASE Waiting(c) /\ theId'[c] = theId[c]
    BY <1>1, <2>2 DEF IndexInv
  <2>3. QED
    BY <1>4, <2>1, <2>2, WaitingStep
<1>5. ASSUME pc'[c] = "send", NEW q \in Flying', JvmOf[ClientOf(q)] = Jvm(c)
      PROVE  q.id < theIndex'[Jvm(c)]
  <2>1. CASE StoreIndex(c)
    <3>1. q \in Flying
      BY <2>1 DEF StoreIndex, Flying, Busy
    <3>2. q.id <= theIndex[Jvm(c)] /\ q.id \in Nat
      BY <1>5, <3>1, FlyingType, PacketFields DEF PacketInv
    <3>3. theIndex'[Jvm(c)] = theIndex[Jvm(c)] + 1
      BY <1>1, <2>1 DEF StoreIndex, IndexInv, Goto, TypeOK
    <3>4. QED
      BY <1>1, <3>2, <3>3
  <2>2. ASSUME pc[c] = "send", NEW p \in Flying, Alike(q, p)
        PROVE  q.id < theIndex'[Jvm(c)]
    <3>1. p.id \in Nat /\ p.id < theIndex[Jvm(c)] /\ q.id = p.id
      BY <1>5, <2>2, FlyingType, PacketFields DEF IndexInv, Alike
    <3>2. QED
      BY <1>1, <3>1
  <2>3. ASSUME pc[c] = "send", NEW d \in Callers, SendRequest(d), q = Sent(d)
        PROVE  FALSE
    <3>1. JvmOf[ClientOf(q)] = Jvm(d)
      BY <2>3, SentFields DEF ClientOf, Jvm
    <3>2. c = d
      BY <1>5, <2>3, <3>1, OneInCall DEF SendRequest, Goto
    <3>3. QED
      BY <1>5, <2>3, <3>2 DEF SendRequest, Goto, TypeOK
  <2>4. QED
    BY <1>5, <2>1, <2>2, <2>3, FlyingStep, WaitingStep
<1>6. QED
  BY <1>3, <1>4, <1>5

LEMMA MatchStep ==
    ASSUME OneWrapperPerJvm, TypeInv, InCallInv, IndexInv, MatchInv,
           [Next]_vars
    PROVE  MatchInv'
<1> SUFFICES ASSUME NEW q \in Flying', NEW c \in Callers, Waiting(c)',
                    ClientOf(q) = HomeOf(c), q.id = theId'[c]
             PROVE  q.req = Current(c)'
  BY DEF MatchInv
<1> USE DEF TypeInv
<1>1. ASSUME NEW p \in Flying, Alike(q, p) PROVE q.req = Current(c)'
  <2>1. CASE SendRequest(c)
    <3>1. p.id < theIndex[Jvm(c)] /\ theIndex[Jvm(c)] \in Nat /\ p.id \in Nat
      BY <1>1, <2>1, CallerTypes, FlyingType, PacketFields
         DEF IndexInv, SendRequest, Goto, Alike, Jvm, TypeOK
    <3>2. p.id = theIndex[Jvm(c)]
      BY <1>1, <2>1 DEF SendRequest, Alike, TypeOK
    <3>3. QED
      BY <3>1, <3>2
  <2>2. CASE Waiting(c) /\ theId'[c] = theId[c] /\ calls'[c] = calls[c]
    BY <1>1, <2>2 DEF MatchInv, Alike, Current
  <2>3. QED
    BY <2>1, <2>2, WaitingStep
<1>2. ASSUME NEW d \in Callers, SendRequest(d), q = Sent(d)
      PROVE  q.req = Current(c)'
  <2>1. Jvm(d) = Jvm(c) /\ q.req = Current(d)
    BY <1>2, SentFields DEF ClientOf, Jvm
  <2>2. pc[c] # "idle" /\ pc[d] # "idle"
    BY <1>2, WaitingStep DEF Waiting, SendRequest, Goto
  <2>3. c = d
    BY <2>1, <2>2, OneInCall
  <2>4. QED
    BY <1>2, <2>1, <2>3 DEF Current, SendRequest
<1>3. QED
  BY <1>1, <1>2, FlyingStep

\* A new entry is a queue made for its id, for the node whose table it is in.
LEMMA TableStep ==
    ASSUME TypeOK, QueueInv, [Next]_vars
    PROVE  \A n \in Nodes : \A i \in DOMAIN table'[n] :
              table'[n][i].id = i /\ OwnerOf(table'[n][i]) = n
<1> DEFINE P == \A n \in Nodes : \A i \in DOMAIN table'[n] :
                   table'[n][i].id = i /\ OwnerOf(table'[n][i]) = n
<1>1. ASSUME NEW n \in Nodes, NEW i \in Nat, NEW m \in Callers \cup Nodes,
             PutNew(n, i, m), OwnerOf([id |-> i, by |-> m]) = n
      PROVE  P
  <2>1. /\ \A x \in Nodes : x # n => table'[x] = table[x]
        /\ DOMAIN table'[n] = DOMAIN table[n] \cup {i}
        /\ table'[n][i] = [id |-> i, by |-> m]
        /\ \A x \in DOMAIN table[n] : x # i => table'[n][x] = table[n][x]
    BY <1>1, PutNewType
  <2>2. QED
    BY <1>1, <2>1 DEF QueueInv
<1>2. ASSUME NEW c \in Callers, CallerPut(c) PROVE P
  <2>1. PutNew(HomeOf(c), theId[c], c) /\ theId[c] \in Nat /\ HomeOf(c) \in Nodes
    BY <1>2, CallerTypes DEF CallerPut, TypeOK
  <2>2. OwnerOf([id |-> theId[c], by |-> c]) = HomeOf(c)
    BY DEF OwnerOf
  <2>3. QED
    BY <1>1, <2>1, <2>2
<1>3. ASSUME NEW n \in Nodes, ListenerPut(n) PROVE P
  <2>1. PutNew(n, listener[n].pkt.id, n) /\ listener[n].pkt.id \in Nat
    BY <1>3, HeldType, PacketFields DEF ListenerPut
  <2>2. OwnerOf([id |-> listener[n].pkt.id, by |-> n]) = n
    BY DEF OwnerOf
  <2>3. QED
    BY <1>1, <2>1, <2>2
<1>4. CASE UNCHANGED table
  BY <1>4 DEF QueueInv
<1>5. CASE /\ ~ \E c \in Callers : CallerPut(c)
           /\ ~ \E n \in Nodes : ListenerPut(n)
  <2>1. UNCHANGED table
    BY <1>5 DEF Next, vars, Enter, Call, LoadIndex, StoreIndex, SendRequest,
                GetQueue, CallerGet, CallerGetAgain, GiveUp, Return, Listen,
                Take, Serve, Lookup, ListenerGet, ListenerGetAgain, Handoff,
                Bounce, Lose
  <2>2. QED
    BY <2>1, <1>4
<1>6. QED
  BY <1>2, <1>3, <1>5

LEMMA QueueStep ==
    ASSUME TypeInv, QueueInv, [Next]_vars PROVE QueueInv'
<1> USE DEF TypeInv, Goto
<1>1. ASSUME NEW c \in Callers, pc'[c] = "poll"
      PROVE  /\ queue'[c] \in Queue /\ queue'[c].id = theId'[c]
             /\ OwnerOf(queue'[c]) = HomeOf(c)
  <2>1. CASE CallerGetAgain(c)
    <3>1. theId[c] \in DOMAIN table[HomeOf(c)] /\ HomeOf(c) \in Nodes
      BY <2>1, CallerTypes DEF CallerGetAgain, PresentInv, Present
    <3>2. table[HomeOf(c)][theId[c]] \in Queue
      BY <3>1 DEF TypeOK, IsTable
    <3>3. queue'[c] = table[HomeOf(c)][theId[c]] /\ theId'[c] = theId[c]
      BY <2>1 DEF CallerGetAgain, TypeOK
    <3>4. QED
      BY <3>1, <3>2, <3>3 DEF QueueInv
  <2>2. CASE ~CallerGetAgain(c)
    <3>1. pc[c] = "poll" /\ queue'[c] = queue[c] /\ theId'[c] = theId[c]
      <4> USE <1>1, <2>2 DEF TypeOK
      <4>1. CASE UNCHANGED <<pc, queue, theId>>
        BY <4>1
      <4>2. ASSUME NEW d \in Callers, Enter(d)
            PROVE  pc[c] = "poll" /\ queue'[c] = queue[c] /\ theId'[c] = theId[c]
        BY <4>2 DEF Enter
      <4>3. ASSUME NEW d \in Callers, LoadIndex(d) \/ StoreIndex(d)
            PROVE  pc[c] = "poll" /\ queue'[c] = queue[c] /\ theId'[c] = theId[c]
        BY <4>3 DEF LoadIndex, StoreIndex
      <4>4. ASSUME NEW d \in Callers, SendRequest(d)
            PROVE  pc[c] = "poll" /\ queue'[c] = queue[c] /\ theId'[c] = theId[c]
        BY <4>4 DEF SendRequest
      <4>5. ASSUME NEW d \in Callers, CallerGet(d) \/ CallerPut(d)
            PROVE  pc[c] = "poll" /\ queue'[c] = queue[c] /\ theId'[c] = theId[c]
        BY <4>5 DEF CallerGet, CallerPut
      <4>6. ASSUME NEW d \in Callers, CallerGetAgain(d)
            PROVE  pc[c] = "poll" /\ queue'[c] = queue[c] /\ theId'[c] = theId[c]
        BY <4>6 DEF CallerGetAgain
      <4>7. ASSUME NEW d \in Callers, NEW r, Return(d, r)
            PROVE  pc[c] = "poll" /\ queue'[c] = queue[c] /\ theId'[c] = theId[c]
        BY <4>7 DEF Return
      <4>8. ASSUME NEW n \in Nodes, Listen(n)
            PROVE  pc[c] = "poll" /\ queue'[c] = queue[c] /\ theId'[c] = theId[c]
        BY <4>1, <4>7, <4>8 DEF Listen, Take, Serve, Lookup, ListenerGet,
                    ListenerPut, ListenerGetAgain, Handoff, callerVars
      <4>9. ASSUME NEW p \in net, Bounce(p) \/ Lose(p)
            PROVE  pc[c] = "poll" /\ queue'[c] = queue[c] /\ theId'[c] = theId[c]
        BY <4>1, <4>9 DEF Bounce, Lose, callerVars
      <4>10. CASE UNCHANGED vars
        BY <4>1, <4>10 DEF vars, callerVars
      <4>11. QED
        BY <4>2, <4>3, <4>4, <4>5, <4>6, <4>7, <4>8, <4>9, <4>10
           DEF Next, Call, GetQueue, GiveUp
    <3>2. QED
      BY <3>1 DEF QueueInv
  <2>3. QED
    BY <2>1, <2>2
<1>2. ASSUME NEW n \in Nodes, listener'[n].at = "handoff"
      PROVE  /\ listener'[n].queue.id = listener'[n].pkt.id
             /\ OwnerOf(listener'[n].queue) = n
  <2>1. CASE ListenerGetAgain(n)
    <3> DEFINE p == listener[n].pkt
    <3>1. p.id \in DOMAIN table[n]
      BY <2>1 DEF ListenerGetAgain, PresentInv, Present
    <3>2. listener'[n] = [at |-> "handoff", pkt |-> p, queue |-> table[n][p.id]]
      BY <2>1 DEF ListenerGetAgain, TypeOK
    <3>3. QED
      BY <3>1, <3>2 DEF QueueInv
  <2>2. CASE listener'[n] = listener[n]
    BY <1>2, <2>2 DEF QueueInv
  <2>3. ASSUME NEW m \in Nodes, Listen(m), ~ListenerGetAgain(n)
        PROVE  listener'[n] = listener[n]
    <3> USE <1>2 DEF TypeOK
    <3>1. ASSUME NEW p \in net, Take(m, p) PROVE listener'[n] = listener[n]
      BY <3>1 DEF Take
    <3>2. CASE Serve(m)
      BY <3>2 DEF Serve
    <3>3. CASE ListenerGet(m)
      BY <3>3 DEF ListenerGet
    <3>4. CASE ListenerPut(m)
      BY <3>4 DEF ListenerPut
    <3>5. CASE ListenerGetAgain(m)
      BY <2>3, <3>5 DEF ListenerGetAgain
    <3>6. ASSUME NEW c \in Callers, Handoff(m, c)
          PROVE  listener'[n] = listener[n]
      BY <3>6 DEF Handoff
    <3>7. QED
      BY <2>3, <3>1, <3>2, <3>3, <3>4, <3>5, <3>6 DEF Listen, Lookup
  <2>4. ASSUME ~ \E m \in Nodes : Listen(m) PROVE listener' = listener
    BY <2>4 DEF Next, vars, Enter, Call, LoadIndex, StoreIndex, SendRequest,
                GetQueue, CallerGet, CallerPut, CallerGetAgain, GiveUp,
                Bounce, Lose
  <2>5. QED
    BY <2>1, <2>2, <2>3, <2>4
<1>3. QED
  BY <1>1, <1>2, TableStep DEF QueueInv

\* The reply a listener hands over is the reply to the call that takes it.
LEMMA HandoffOwn ==
    ASSUME TypeInv, ListenerInv, QueueInv, MatchInv,
           NEW n \in Nodes, NEW c \in Callers, Handoff(n, c)
    PROVE  listener[n].pkt \in Flying /\ listener[n].pkt.req = Current(c)
<1> DEFINE p == listener[n].pkt
<1>1. /\ p \in Flying /\ p.type # "SET" /\ p.to = n
      /\ listener[n].at = "handoff" /\ pc[c] = "poll"
  BY DEF Handoff, Return, Goto, Flying, Busy, ListenerInv
<1>2. theId[c] = p.id /\ HomeOf(c) = n
  BY <1>1 DEF Handoff, QueueInv
<1>3. QED
  BY <1>1, <1>2 DEF MatchInv, ClientOf, Waiting

LEMMA OwnReplyStep ==
    ASSUME TypeInv, QueueInv, MatchInv, OwnReply, [Next]_vars
    PROVE  OwnReply'
<1> USE DEF TypeInv, TypeOK, Goto, OwnReply
<1>1. CASE UNCHANGED <<pc, calls, outcome>>
  BY <1>1
<1>2. ASSUME NEW c \in Callers, Enter(c) PROVE OwnReply'
  <2>1. /\ pc[c] = "idle" /\ pc' = [pc EXCEPT ![c] = "load"]
        /\ calls' = [calls EXCEPT ![c] = @ + 1] /\ outcome' = outcome
    BY <1>2 DEF Enter
  <2>2. calls[c] \in Nat /\ calls'[c] - 1 = calls[c]
    BY <2>1
  <2>3. QED
    BY <2>1, <2>2
<1>3. ASSUME NEW c \in Callers, Call(c) PROVE OwnReply'
  <2>1. /\ pc[c] # "idle" /\ pc'[c] # "idle" /\ UNCHANGED <<calls, outcome>>
        /\ pc' = [pc EXCEPT ![c] = pc'[c]]
    BY <1>3 DEF Call, LoadIndex, StoreIndex, SendRequest, GetQueue, CallerGet,
                CallerPut, CallerGetAgain
  <2>2. QED
    BY <2>1
<1>4. ASSUME NEW c \in Callers, NEW r, Return(c, r),
             r.kind \in {"value", "exception"} => r.req = Current(c)
      PROVE  OwnReply'
  BY <1>4 DEF Return, Current
<1>5. ASSUME NEW c \in Callers, GiveUp(c) PROVE OwnReply'
  BY <1>4, <1>5 DEF GiveUp
<1>6. ASSUME NEW n \in Nodes, NEW c \in Callers, Handoff(n, c)
      PROVE  OwnReply'
  <2>1. Return(c, Parse(listener[n].pkt))
    BY <1>6 DEF Handoff
  <2>2. Parse(listener[n].pkt).req = Current(c)
    BY <1>6, HandoffOwn DEF Parse
  <2>3. QED
    BY <2>1, <2>2, <1>4
<1>7. ASSUME NEW n \in Nodes, Listen(n) PROVE OwnReply'
  BY <1>1, <1>6, <1>7 DEF Listen, Take, Serve, Lookup, ListenerGet,
              ListenerPut, ListenerGetAgain, callerVars
<1>8. ASSUME NEW p \in net, Bounce(p) \/ Lose(p) PROVE OwnReply'
  BY <1>1, <1>8 DEF Bounce, Lose, callerVars
<1>9. CASE UNCHANGED vars
  BY <1>1, <1>9 DEF vars, callerVars
<1>10. QED
  BY <1>2, <1>3, <1>5, <1>7, <1>8, <1>9 DEF Next

LEMMA ReplyStep ==
    ASSUME OneWrapperPerJvm, TypeInv, ReplyInv, [Next]_vars PROVE ReplyInv'
<1> USE DEF ReplyInv
<1>1. TypeOK /\ TypeInv'
  BY TypeStep DEF TypeInv
<1>2. InCallInv' /\ PacketInv' /\ IndexInv' /\ MatchInv'
  BY <1>1, LockStep, PacketStep, IndexStep, MatchStep
<1>3. QueueInv' /\ OwnReply' /\ ListenerInv'
  BY <1>1, QueueStep, OwnReplyStep DEF TypeInv
<1>4. QED
  BY <1>2, <1>3

LEMMA InitReply == Init => ReplyInv
<1> SUFFICES ASSUME Init PROVE ReplyInv
  OBVIOUS
<1>1. Flying = {}
  BY DEF Init, Flying, Busy
<1>2. InCallInv /\ IndexInv /\ OwnReply
  BY DEF Init, InCallInv, IndexInv, Waiting, OwnReply
<1>3. ListenerInv /\ QueueInv
  BY DEF Init, ListenerInv, Busy, QueueInv
<1>4. PacketInv /\ MatchInv
  BY <1>1 DEF PacketInv, MatchInv
<1>5. QED
  BY <1>2, <1>3, <1>4 DEF ReplyInv

LEMMA ReplyInvariant ==
    ASSUME OneWrapperPerJvm PROVE Spec => []ReplyInv
<1>1. TypeInv /\ ReplyInv /\ [Next]_vars => ReplyInv'
  BY ReplyStep
<1>2. QED
  BY <1>1, InitReply, TypeInvariant, PTL DEF Spec

\* When the callers of each JVM share one wrapper, every reply a call of
\* execute returns is the reply to that call, for any number of nodes,
\* callers and calls, whatever is lost, bounced, given up or answered late,
\* and although different JVMs use the same ids.
THEOREM CallsGetOwnReply ==
    ASSUME OneWrapperPerJvm PROVE Spec => []OwnReply
<1>1. ReplyInv => OwnReply
  BY DEF ReplyInv
<1>2. QED
  BY <1>1, ReplyInvariant, PTL

-----------------------------------------------------------------------------
(* Handlers run once per call.                                              *)

\* Requests enter the network in SendRequest and a listener's hands in Take,
\* and are executed in Serve.
LEMMA RequestsStep ==
    ASSUME TypeInv, [Next]_vars
    PROVE  /\ \A q \in net' : q.type = "SET" =>
                 q \in net \/ \E c \in Callers : SendRequest(c) /\ q = Sent(c)
           /\ \A n \in Nodes : listener'[n].at = "serve" =>
                 \/ listener'[n] = listener[n]
                 \/ \E p \in net : Take(n, p) /\ listener'[n].pkt = p
           /\ \/ UNCHANGED executed
              \/ \E n \in Nodes : /\ Serve(n)
                                  /\ executed' = executed \cup {listener[n].pkt.req}
<1> DEFINE A == \A q \in net' : q.type = "SET" =>
                   q \in net \/ \E c \in Callers : SendRequest(c) /\ q = Sent(c)
           B == \A n \in Nodes : listener'[n].at = "serve" =>
                   \/ listener'[n] = listener[n]
                   \/ \E p \in net : Take(n, p) /\ listener'[n].pkt = p
           C == \/ UNCHANGED executed
                \/ \E n \in Nodes :
                      Serve(n) /\ executed' = executed \cup {listener[n].pkt.req}
<1> USE DEF TypeInv
<1>1. ASSUME NEW c \in Callers, Enter(c) \/ Call(c) \/ GiveUp(c)
      PROVE  A /\ B /\ C
  BY <1>1 DEF Enter, Call, LoadIndex, StoreIndex, SendRequest, GetQueue,
              CallerGet, CallerPut, CallerGetAgain, GiveUp, Return
<1>2. ASSUME NEW n \in Nodes, NEW p \in net, Take(n, p) PROVE A /\ B /\ C
  BY <1>2 DEF Take, TypeOK
<1>3. ASSUME NEW n \in Nodes, Serve(n) PROVE A /\ B /\ C
  <2>1. listener[n].pkt \in Packet /\ listener[n].pkt.type = "SET"
    BY <1>3, HeldType DEF Serve, ListenerInv, Busy
  <2>2. A
    BY <1>3, <2>1, ReplyFields DEF Serve
  <2>3. B /\ C
    BY <1>3 DEF Serve, TypeOK
  <2>4. QED
    BY <2>2, <2>3
<1>4. ASSUME NEW n \in Nodes, Lookup(n) PROVE A /\ B /\ C
  <2>1. A /\ C
    BY <1>4 DEF Lookup, ListenerGet, ListenerPut, ListenerGetAgain
  <2>2. CASE ListenerGet(n)
    BY <2>1, <2>2 DEF ListenerGet, TypeOK
  <2>3. CASE ListenerPut(n)
    BY <2>1, <2>3 DEF ListenerPut, TypeOK
  <2>4. CASE ListenerGetAgain(n)
    BY <2>1, <2>4 DEF ListenerGetAgain, TypeOK
  <2>5. QED
    BY <1>4, <2>2, <2>3, <2>4 DEF Lookup
<1>5. ASSUME NEW n \in Nodes, NEW c \in Callers, Handoff(n, c) PROVE A /\ B /\ C
  BY <1>5 DEF Handoff, Return, TypeOK
<1>6. ASSUME NEW p \in net, Bounce(p) \/ Lose(p) PROVE A /\ B /\ C
  BY <1>6, BouncedFields DEF Bounce, Lose, TypeOK
<1>7. CASE UNCHANGED vars
  BY <1>7 DEF vars
<1>8. QED
  BY <1>1, <1>2, <1>3, <1>4, <1>5, <1>6, <1>7 DEF Next, Listen

LEMMA OnePlaceStep ==
    ASSUME TypeInv, OnePlaceInv, FreshInv, [Next]_vars PROVE OnePlaceInv'
<1> USE DEF TypeInv
\* A request being sent is new.
<1>1. ASSUME NEW c \in Callers, SendRequest(c)
      PROVE  /\ \A p \in net : p.req # Sent(c).req
             /\ \A n \in Nodes : listener[n].at = "serve" =>
                                     listener[n].pkt.req # Sent(c).req
             /\ listener' = listener
  BY <1>1, SentFields DEF SendRequest, Goto, FreshInv, Flying, Busy
<1>2. ASSUME NEW c \in Callers, SendRequest(c) PROVE OnePlaceInv'
  BY <1>1, <1>2 DEF OnePlaceInv, SendRequest
<1>3. ASSUME ~ \E c \in Callers : SendRequest(c) PROVE OnePlaceInv'
  <2>1. \A q \in net' : q.type = "SET" => q \in net
    BY <1>3, RequestsStep
  <2>2. ASSUME NEW n \in Nodes, NEW p \in net, Take(n, p) PROVE OnePlaceInv'
    <3>1. /\ net' = net \ {p} /\ listener'[n].pkt = p
          /\ listener'[n].at = "serve" => p.type = "SET"
          /\ \A m \in Nodes : m # n => listener'[m] = listener[m]
      BY <2>2 DEF Take, TypeOK
    <3>2. \A q \in net' : q \in net /\ q # p
      BY <3>1
    <3>3. \A x, y \in net' :
             x.type = "SET" /\ y.type = "SET" /\ x.req = y.req => x = y
      BY <3>2 DEF OnePlaceInv
    <3>4. \A q \in net', m \in Nodes :
             q.type = "SET" /\ listener'[m].at = "serve"
                 => q.req # listener'[m].pkt.req
      BY <3>1, <3>2 DEF OnePlaceInv
    <3>5. \A m, k \in Nodes :
             (/\ listener'[m].at = "serve" /\ listener'[k].at = "serve"
              /\ listener'[m].pkt.req = listener'[k].pkt.req) => m = k
      BY <3>1 DEF OnePlaceInv
    <3>6. QED
      BY <3>3, <3>4, <3>5 DEF OnePlaceInv
  <2>3. ASSUME ~ \E n \in Nodes, p \in net : Take(n, p) PROVE OnePlaceInv'
    <3>1. \A n \in Nodes : listener'[n].at = "serve" => listener'[n] = listener[n]
      BY <2>3, RequestsStep
    <3>2. QED
      BY <2>1, <3>1 DEF OnePlaceInv
  <2>4. QED
    BY <2>2, <2>3
<1>4. QED
  BY <1>2, <1>3

LEMMA FreshStep ==
    ASSUME TypeInv, InCallInv, FreshInv, [Next]_vars PROVE FreshInv'
<1> USE DEF TypeInv
<1>1. ASSUME NEW p \in Flying
      PROVE  /\ p.req.caller \in Callers /\ p.req.call \in Nat
             /\ p.req.call \in 1..calls[p.req.caller]
  BY FlyingType, PacketFields DEF Request, FreshInv
<1>2. \A c \in Callers : calls[c] \in Nat /\ calls'[c] \in Nat
  BY TypeStep DEF TypeOK
\* What is executed was under way.
<1>3. \A r \in executed' : r \in executed \/ \E p \in Flying : r = p.req
  <2>1. ASSUME NEW n \in Nodes, Serve(n) PROVE listener[n].pkt \in Flying
    BY <2>1 DEF Serve, Flying, Busy
  <2>2. QED
    BY <2>1, RequestsStep
<1>4. \A r \in executed : r.caller \in Callers /\ r.call \in Nat
  BY DEF TypeOK, Request
<1>5. ASSUME NEW c \in Callers, pc'[c] \in {"load", "store", "send"}
      PROVE  /\ Current(c)' \notin executed
             /\ \A p \in Flying : p.req # Current(c)'
             /\ ~SendRequest(c)
  <2>1. CASE Enter(c)
    <3>1. calls'[c] = calls[c] + 1 /\ ~SendRequest(c)
      BY <2>1 DEF Enter, SendRequest, Goto, TypeOK
    <3>2. \A r \in executed : r # Current(c)'
      BY <1>2, <1>4, <3>1 DEF FreshInv, Current
    <3>3. \A p \in Flying : p.req # Current(c)'
      BY <1>1, <1>2, <3>1 DEF Current
    <3>4. QED
      BY <3>1, <3>2, <3>3
  <2>2. CASE ~Enter(c)
    <3>1. pc[c] \in {"load", "store", "send"} /\ ~SendRequest(c)
      BY <1>5, <2>2, FreshPcStep
    <3>2. Current(c)' = Current(c)
      BY <2>2, CallsStep DEF Current
    <3>3. QED
      BY <3>1, <3>2 DEF FreshInv
  <2>3. QED
    BY <2>1, <2>2
<1>6. ASSUME NEW c \in Callers, pc'[c] \in {"load", "store", "send"}
      PROVE  Current(c)' \notin executed'
  BY <1>3, <1>5, <1>6
<1>7. ASSUME NEW c \in Callers, pc'[c] \in {"load", "store", "send"},
             NEW q \in Flying'
      PROVE  q.req # Current(c)'
  <2>1. ASSUME NEW p \in Flying, Alike(q, p) PROVE q.req # Current(c)'
    BY <1>5, <1>7, <2>1 DEF Alike
  <2>2. ASSUME NEW d \in Callers, SendRequest(d), q = Sent(d)
        PROVE  q.req # Current(c)'
    <3>1. d # c /\ q.req = Current(d)
      BY <1>5, <1>7, <2>2, SentFields
    <3>2. QED
      BY <3>1 DEF Current
  <2>3. QED
    BY <2>1, <2>2, FlyingStep
<1>8. ASSUME NEW q \in Flying' PROVE q.req.call \in 1..calls'[q.req.caller]
  <2>1. ASSUME NEW p \in Flying, Alike(q, p)
        PROVE  q.req.call \in 1..calls'[q.req.caller]
    <3>1. calls[p.req.caller] <= calls'[p.req.caller]
      BY <1>1, CallsStep
    <3>2. QED
      BY <1>1, <1>2, <2>1, <3>1 DEF Alike
  <2>2. ASSUME NEW d \in Callers, SendRequest(d), q = Sent(d)
        PROVE  q.req.call \in 1..calls'[q.req.caller]
    <3>1. q.req = Current(d) /\ calls' = calls /\ calls[d] >= 1
      BY <2>2, SentFields DEF SendRequest, Goto, InCallInv
    <3>2. QED
      BY <1>2, <3>1 DEF Current
  <2>3. QED
    BY <2>1, <2>2, FlyingStep
<1>9. ASSUME NEW r \in executed' PROVE r.call \in 1..calls'[r.caller]
  <2>1. r.caller \in Callers /\ r.call \in 1..calls[r.caller] /\ r.call \in Nat
    BY <1>1, <1>3, <1>4 DEF FreshInv
  <2>2. calls[r.caller] <= calls'[r.caller]
    BY <2>1, CallsStep
  <2>3. QED
    BY <1>2, <2>1, <2>2
<1>10. QED
  BY <1>6, <1>7, <1>8, <1>9 DEF FreshInv

LEMMA ExecutedOnceStep ==
    ASSUME TypeInv, OnePlaceInv, FreshInv, ExecutedOnce, [Next]_vars
    PROVE  ExecutedOnce'
<1> SUFFICES ASSUME NEW q \in Unserved' PROVE q.req \notin executed'
  BY DEF ExecutedOnce
<1> USE DEF TypeInv
<1>1. q \in Unserved \/ \E c \in Callers : SendRequest(c) /\ q = Sent(c)
  <2>1. CASE q \in net' /\ q.type = "SET"
    BY <2>1, RequestsStep DEF Unserved
  <2>2. ASSUME NEW n \in Nodes, listener'[n].at = "serve", q = listener'[n].pkt
        PROVE  q \in Unserved
    <3>1. CASE listener'[n] = listener[n]
      BY <2>2, <3>1 DEF Unserved
    <3>2. ASSUME NEW p \in net, Take(n, p), listener'[n].pkt = p
          PROVE  q \in Unserved
      <4>1. p.type = "SET"
        BY <2>2, <3>2 DEF Take, TypeOK
      <4>2. QED
        BY <2>2, <3>2, <4>1 DEF Unserved
    <3>3. QED
      BY <2>2, <3>1, <3>2, RequestsStep
  <2>3. QED
    BY <2>1, <2>2 DEF Unserved
<1>2. CASE \E c \in Callers : SendRequest(c) /\ q = Sent(c)
  BY <1>2, SentFields DEF SendRequest, Goto, FreshInv
<1>3. ASSUME q \in Unserved, NEW n \in Nodes, Serve(n) PROVE q.req \notin executed'
  <2>1. /\ executed' \subseteq executed \cup {listener[n].pkt.req}
        /\ listener' = [listener EXCEPT ![n] = [at |-> "idle"]]
        /\ listener[n].at = "serve"
    BY <1>3 DEF Serve
  <2>2. q.req # listener[n].pkt.req
    <3>1. CASE q \in net' /\ q.type = "SET"
      <4>1. q \in net
        BY <3>1, <1>3, RequestsStep DEF SendRequest, Serve, Goto, Busy, vars,
           callerVars, TypeOK
      <4>2. QED
        BY <2>1, <3>1, <4>1 DEF OnePlaceInv
    <3>2. ASSUME NEW m \in Nodes, listener'[m].at = "serve", q = listener'[m].pkt
          PROVE  q.req # listener[n].pkt.req
      <4>1. m # n /\ listener'[m] = listener[m]
        BY <2>1, <3>2 DEF TypeOK
      <4>2. QED
        BY <2>1, <3>2, <4>1 DEF OnePlaceInv
    <3>3. QED
      BY <3>1, <3>2 DEF Unserved
  <2>3. QED
    BY <1>3, <2>1, <2>2 DEF ExecutedOnce
<1>4. CASE q \in Unserved /\ UNCHANGED executed
  BY <1>4 DEF ExecutedOnce
<1>5. QED
  BY <1>1, <1>2, <1>3, <1>4, RequestsStep

LEMMA ValueStep ==
    ASSUME TypeInv, ValueInv, [Next]_vars PROVE ValueInv'
<1> SUFFICES ASSUME NEW q \in Flying', q.body = "value" PROVE q.req \in executed'
  BY DEF ValueInv
<1> USE DEF TypeInv
<1>1. executed \subseteq executed'
  BY RequestsStep
<1>2. ASSUME NEW p \in Flying, Alike(q, p),
             p.body = "value" \/ q.req \in executed'
      PROVE  q.req \in executed'
  BY <1>1, <1>2 DEF ValueInv, Alike
<1>3. ASSUME NEW c \in Callers, q = Sent(c) PROVE FALSE
  BY <1>3, SentFields
<1>4. QED
  BY <1>2, <1>3, FlyingStep

LEMMA ServiceStep ==
    ASSUME TypeInv, InCallInv, ServiceInv, [Next]_vars
    PROVE  InCallInv' /\ ServiceInv'
BY LockStep, OnePlaceStep, FreshStep, ExecutedOnceStep, ValueStep
   DEF ServiceInv, TypeInv

LEMMA InitService == Init => InCallInv /\ ServiceInv
<1> SUFFICES ASSUME Init PROVE InCallInv /\ ServiceInv
  OBVIOUS
<1>1. Flying = {} /\ Unserved = {}
  BY DEF Init, Flying, Busy, Unserved
<1>2. OnePlaceInv /\ InCallInv
  BY DEF Init, OnePlaceInv, InCallInv
<1>3. FreshInv /\ ExecutedOnce /\ ValueInv
  BY <1>1 DEF Init, FreshInv, ExecutedOnce, ValueInv
<1>4. QED
  BY <1>2, <1>3 DEF ServiceInv

LEMMA ServiceInvariant == Spec => [](InCallInv /\ ServiceInv)
<1>1. TypeInv /\ (InCallInv /\ ServiceInv) /\ [Next]_vars
          => (InCallInv /\ ServiceInv)'
  BY ServiceStep
<1>2. QED
  BY <1>1, InitService, TypeInvariant, PTL DEF Spec

\* A handler never runs twice for one call of execute, for any number of
\* nodes, wrappers, callers and calls, also where wrappers race for ids.
THEOREM HandlersRunOnce == Spec => []ExecutedOnce
<1>1. InCallInv /\ ServiceInv => ExecutedOnce
  BY DEF ServiceInv
<1>2. QED
  BY <1>1, ServiceInvariant, PTL

-----------------------------------------------------------------------------
(* A caller's queue stays in the table while it polls.                      *)

\* A caller that polls goes on polling the same queue, or is done.
LEMMA PollStep ==
    ASSUME TypeOK, [Next]_vars, NEW c \in Callers, pc[c] = "poll"
    PROVE  \/ pc'[c] = "idle"
           \/ pc'[c] = "poll" /\ queue'[c] = queue[c] /\ theId'[c] = theId[c]
<1> DEFINE P == \/ pc'[c] = "idle"
                \/ /\ pc'[c] = "poll" /\ queue'[c] = queue[c]
                   /\ theId'[c] = theId[c]
<1> USE DEF TypeOK, Goto
<1>1. CASE UNCHANGED <<pc, queue, theId>>
  BY <1>1
<1>2. ASSUME NEW d \in Callers, Enter(d) \/ LoadIndex(d) \/ StoreIndex(d) PROVE P
  BY <1>2 DEF Enter, LoadIndex, StoreIndex
<1>3. ASSUME NEW d \in Callers, SendRequest(d) PROVE P
  BY <1>3 DEF SendRequest
<1>4. ASSUME NEW d \in Callers, CallerGet(d) \/ CallerPut(d) PROVE P
  BY <1>4 DEF CallerGet, CallerPut
<1>5. ASSUME NEW d \in Callers, CallerGetAgain(d) PROVE P
  BY <1>5 DEF CallerGetAgain
<1>6. ASSUME NEW d \in Callers, NEW r, Return(d, r) PROVE P
  BY <1>6 DEF Return
<1>7. ASSUME NEW n \in Nodes, Listen(n) PROVE P
  BY <1>1, <1>6, <1>7 DEF Listen, Take, Serve, Lookup, ListenerGet,
              ListenerPut, ListenerGetAgain, Handoff, callerVars
<1>8. ASSUME NEW p \in net, Bounce(p) \/ Lose(p) PROVE P
  BY <1>1, <1>8 DEF Bounce, Lose, callerVars
<1>9. CASE UNCHANGED vars
  BY <1>1, <1>9 DEF vars, callerVars
<1>10. QED
  BY <1>2, <1>3, <1>4, <1>5, <1>6, <1>7, <1>8, <1>9
     DEF Next, Call, GetQueue, GiveUp

\* A listener comes to its put by finding no entry.
LEMMA AboutToPutStep ==
    ASSUME TypeOK, [Next]_vars, NEW n \in Nodes, listener'[n].at = "put"
    PROVE  \/ listener'[n] = listener[n]
           \/ ~Present(n, listener'[n].pkt.id)
<1> DEFINE P == \/ listener'[n] = listener[n]
                \/ ~Present(n, listener'[n].pkt.id)
<1> USE DEF TypeOK
<1>1. CASE UNCHANGED listener
  BY <1>1
<1>2. ASSUME NEW m \in Nodes, NEW p \in net, Take(m, p) PROVE P
  BY <1>2 DEF Take
<1>3. ASSUME NEW m \in Nodes, Serve(m) PROVE P
  BY <1>3 DEF Serve
<1>4. ASSUME NEW m \in Nodes, ListenerGet(m) PROVE P
  <2>1. CASE m = n
    <3>1. listener'[n].pkt = listener[n].pkt
      BY <1>4, <2>1 DEF ListenerGet
    <3>2. ~Present(n, listener[n].pkt.id)
      BY <1>4, <2>1 DEF ListenerGet
    <3>3. QED
      BY <3>1, <3>2
  <2>2. CASE m # n
    BY <1>4, <2>2 DEF ListenerGet
  <2>3. QED
    BY <2>1, <2>2
<1>5. ASSUME NEW m \in Nodes, ListenerPut(m) PROVE P
  BY <1>5 DEF ListenerPut
<1>6. ASSUME NEW m \in Nodes, ListenerGetAgain(m) PROVE P
  BY <1>6 DEF ListenerGetAgain
<1>7. ASSUME NEW m \in Nodes, NEW c \in Callers, Handoff(m, c) PROVE P
  BY <1>7 DEF Handoff
<1>8. ASSUME ~ \E m \in Nodes : Listen(m) PROVE UNCHANGED listener
  BY <1>8 DEF Next, vars, Enter, Call, LoadIndex, StoreIndex, SendRequest,
              GetQueue, CallerGet, CallerPut, CallerGetAgain, GiveUp,
              Bounce, Lose
<1>9. QED
  BY <1>1, <1>2, <1>3, <1>4, <1>5, <1>6, <1>7, <1>8 DEF Listen, Lookup

\* The table entry of a caller that polls is replaced only by the listener.
LEMMA EntryStep ==
    ASSUME OneWrapperPerJvm, TypeOK, InCallInv, [Next]_vars,
           NEW c \in Callers, pc[c] = "poll", Present(HomeOf(c), theId[c])
    PROVE  \/ /\ Present(HomeOf(c), theId[c])'
              /\ table'[HomeOf(c)][theId[c]] = table[HomeOf(c)][theId[c]]
           \/ /\ listener[HomeOf(c)].at = "put"
              /\ listener[HomeOf(c)].pkt.id = theId[c]
<1> DEFINE n == HomeOf(c)
           i == theId[c]
           Kept == i \in DOMAIN table'[n] /\ table'[n][i] = table[n][i]
           Put == listener[n].at = "put" /\ listener[n].pkt.id = i
<1> SUFFICES Kept \/ Put
  <2>1. theId'[c] = theId[c]
    BY DEF Next, vars, callerVars, Enter, Call, LoadIndex, StoreIndex,
           SendRequest, GetQueue, CallerGet, CallerPut, CallerGetAgain, GiveUp,
           Return, Listen, Take, Serve, Lookup, ListenerGet, ListenerPut,
           ListenerGetAgain, Handoff, Bounce, Lose, Goto, TypeOK
  <2>2. QED
    BY <2>1 DEF Present
<1>1. n \in Nodes /\ i \in Nat /\ i \in DOMAIN table[n]
  BY CallerTypes DEF TypeOK, Present
<1>2. ASSUME NEW m \in Nodes, NEW k \in Nat, NEW q \in Callers \cup Nodes,
             PutNew(m, k, q), m # n \/ k # i
      PROVE  Kept
  <2>1. /\ \A x \in Nodes : x # m => table'[x] = table[x]
        /\ DOMAIN table'[m] = DOMAIN table[m] \cup {k}
        /\ \A x \in DOMAIN table[m] : x # k => table'[m][x] = table[m][x]
    BY <1>2, PutNewType
  <2>2. CASE m = n
    BY <1>1, <1>2, <2>1, <2>2
  <2>3. CASE m # n
    BY <1>1, <2>1, <2>3
  <2>4. QED
    BY <2>2, <2>3
<1>3. ASSUME NEW d \in Callers, CallerPut(d) PROVE Kept
  <2>1. PutNew(HomeOf(d), theId[d], d) /\ theId[d] \in Nat /\ HomeOf(d) \in Nodes
        /\ pc[d] = "put"
    BY <1>3, CallerTypes DEF CallerPut, Goto, TypeOK
  <2>2. HomeOf(d) # n
    BY <2>1, OneInCall DEF Jvm
  <2>3. QED
    BY <1>2, <2>1, <2>2
<1>4. ASSUME NEW m \in Nodes, ListenerPut(m) PROVE Kept \/ Put
  <2>1. PutNew(m, listener[m].pkt.id, m) /\ listener[m].pkt.id \in Nat
        /\ listener[m].at = "put"
    BY <1>4, HeldType, PacketFields DEF ListenerPut
  <2>2. CASE m = n /\ listener[m].pkt.id = i
    BY <2>1, <2>2
  <2>3. CASE m # n \/ listener[m].pkt.id # i
    BY <1>2, <2>1, <2>3
  <2>4. QED
    BY <2>2, <2>3
<1>5. ASSUME ~ \E d \in Callers : CallerPut(d),
             ~ \E m \in Nodes : ListenerPut(m)
      PROVE  UNCHANGED table
  BY <1>5 DEF Next, vars, Enter, Call, LoadIndex, StoreIndex, SendRequest,
              GetQueue, CallerGet, CallerGetAgain, GiveUp, Return, Listen,
              Take, Serve, Lookup, ListenerGet, ListenerGetAgain, Handoff,
              Bounce, Lose
<1>6. QED
  BY <1>1, <1>3, <1>4, <1>5

\* When the callers of each JVM share one wrapper, a settled caller is
\* reachable through the table until it is done: no other thread of the node
\* replaces the entry of an id in use.
THEOREM SettledCallersStay ==
    ASSUME OneWrapperPerJvm PROVE Spec => SettledStays
<1> DEFINE Stays == \A c \in Callers :
                       Settled(c) => Settled(c)' \/ pc'[c] = "idle"
<1>1. ASSUME TypeInv, InCallInv, [Next]_vars PROVE Stays
  <2> SUFFICES ASSUME NEW c \in Callers, Settled(c), pc'[c] # "idle"
               PROVE  Settled(c)'
    OBVIOUS
  <2> USE <1>1 DEF TypeInv
  <2>1. /\ pc'[c] = "poll" /\ queue'[c] = queue[c] /\ theId'[c] = theId[c]
        /\ HomeOf(c) \in Nodes
    BY PollStep, CallerTypes DEF Settled
  <2>2. /\ Present(HomeOf(c), theId[c])'
        /\ table'[HomeOf(c)][theId[c]] = table[HomeOf(c)][theId[c]]
    BY EntryStep DEF Settled
  <2>3. listener'[HomeOf(c)].at = "put" =>
            listener'[HomeOf(c)].pkt.id # theId[c]
    BY <2>1, AboutToPutStep DEF Settled
  <2>4. QED
    BY <2>1, <2>2, <2>3 DEF Settled, Present
<1>2. ASSUME TypeInv, InCallInv, [Next]_vars PROVE [Stays]_vars
  BY <1>1, <1>2
<1>3. QED
  BY <1>2, TypeInvariant, ServiceInvariant, PTL DEF Spec, SettledStays

-----------------------------------------------------------------------------
(* The refinement of RpcService.                                            *)

LEMMA InitSimulation == Init => Service!Init
BY DEF Init, Service!Init, Service!Failed, InCall, Answer

\* Calls end in Return.
LEMMA ReturnSimulation ==
    ASSUME TypeInv, NEW c \in Callers, NEW r \in Outcome, Return(c, r),
           UNCHANGED executed,
           r.kind = "value" => r.req = Current(c) /\ Current(c) \in executed
    PROVE  Service!ReturnValue(c) \/ Service!Throw(c)
<1> USE DEF TypeInv, TypeOK, Goto, Service!End
<1>1. /\ c \in InCall /\ InCall' = InCall \ {c} /\ calls' = calls
      /\ outcome' = [outcome EXCEPT ![c] = r]
  BY DEF Return, InCall
<1>2. CASE r.kind = "value"
  <2>1. Answer' = [Answer EXCEPT ![c] = Current(c)]
    BY <1>1, <1>2 DEF Answer
  <2>2. Service!End(c, Service!Current(c))
    BY <1>1, <2>1 DEF Current, Service!Current
  <2>3. QED
    BY <1>2, <2>2 DEF Service!ReturnValue, Current, Service!Current
<1>3. CASE r.kind # "value"
  <2>1. Answer' = [Answer EXCEPT ![c] = [failed |-> TRUE]]
    BY <1>1, <1>3 DEF Answer
  <2>2. QED
    BY <1>1, <2>1 DEF Service!Throw, Service!Failed
<1>4. QED
  BY <1>2, <1>3

\* Every step of the nodes and the network is a step of the service, or none.
LEMMA Simulation ==
    ASSUME TypeInv, ReplyInv, ServiceInv, [Next]_vars
    PROVE  [Service!Next]_(Service!vars)
<1> DEFINE Simulated == [Service!Next]_(Service!vars)
<1> USE DEF TypeInv
<1>1. ASSUME InCall' = InCall, UNCHANGED <<calls, outcome, executed>>
      PROVE  Simulated
  BY <1>1 DEF Answer, Service!vars
<1>2. ASSUME NEW c \in Callers, Enter(c) PROVE Simulated
  <2>1. /\ c \notin InCall /\ InCall' = InCall \cup {c} /\ Answer' = Answer
        /\ calls[c] < MaxCalls /\ calls' = [calls EXCEPT ![c] = @ + 1]
        /\ executed' = executed
    BY <1>2 DEF Enter, Goto, InCall, Answer, TypeOK
  <2>2. Service!Begin(c)
    BY <2>1 DEF Service!Begin
  <2>3. QED
    BY <2>2 DEF Service!Next
<1>3. ASSUME NEW c \in Callers, Call(c) PROVE Simulated
  <2>1. /\ pc[c] # "idle" /\ pc'[c] # "idle"
        /\ UNCHANGED <<calls, outcome, executed>>
        /\ pc' = [pc EXCEPT ![c] = pc'[c]]
    BY <1>3 DEF Call, LoadIndex, StoreIndex, SendRequest, GetQueue, CallerGet,
                CallerPut, CallerGetAgain, Goto, TypeOK
  <2>2. InCall' = InCall
    BY <2>1 DEF InCall, TypeOK
  <2>3. QED
    BY <2>1, <2>2, <1>1
<1>4. ASSUME NEW c \in Callers, GiveUp(c) PROVE Simulated
  <2>1. PICK why \in {"npe", "interrupted"} : Return(c, [kind |-> why])
    BY <1>4 DEF GiveUp
  <2>2. [kind |-> why] \in Outcome /\ executed' = executed
    BY <2>1 DEF Outcome, Return
  <2>3. Service!ReturnValue(c) \/ Service!Throw(c)
    BY <2>1, <2>2, ReturnSimulation
  <2>4. QED
    BY <2>3 DEF Service!Next
<1>5. ASSUME NEW n \in Nodes, NEW c \in Callers, Handoff(n, c) PROVE Simulated
  <2> DEFINE p == listener[n].pkt
  <2>1. p \in Packet /\ p \in Flying /\ p.req = Current(c)
    BY <1>5, HandoffOwn, FlyingType DEF ReplyInv
  <2>2. Return(c, Parse(p)) /\ Parse(p) \in Outcome /\ executed' = executed
    BY <1>5, <2>1, ParseType DEF Handoff, Return
  <2>3. Parse(p).kind = "value" =>
            Parse(p).req = Current(c) /\ Current(c) \in executed
    BY <2>1 DEF Parse, ServiceInv, ValueInv
  <2>4. Service!ReturnValue(c) \/ Service!Throw(c)
    BY <2>2, <2>3, ReturnSimulation
  <2>5. QED
    BY <2>4 DEF Service!Next
<1>6. ASSUME NEW n \in Nodes, Serve(n) PROVE Simulated
  <2> DEFINE p == listener[n].pkt
  <2>1. p \in Packet /\ p \in Flying /\ p \in Unserved
    BY <1>6, HeldType DEF Serve, Flying, Busy, Unserved
  <2>2. /\ UNCHANGED <<pc, calls, outcome>>
        /\ executed' = executed \/ executed' = executed \cup {p.req}
    BY <1>6 DEF Serve, callerVars
  <2>3. CASE executed' = executed
    BY <2>2, <2>3, <1>1 DEF InCall
  <2>4. CASE executed' = executed \cup {p.req}
    <3>1. p.req \in Request /\ p.req \notin executed
          /\ p.req.call \in 1..calls[p.req.caller]
      BY <2>1, PacketFields DEF ServiceInv, ExecutedOnce, FreshInv
    <3>2. p.req.caller \in Callers
          /\ p.req = [caller |-> p.req.caller, call |-> p.req.call]
      BY <3>1 DEF Request
    <3>3. Service!Execute(p.req)
      BY <2>2, <2>4, <3>1 DEF Service!Execute, InCall, Answer
    <3>4. QED
      BY <3>1, <3>2, <3>3 DEF Service!Next
  <2>5. QED
    BY <2>2, <2>3, <2>4
<1>7. ASSUME NEW n \in Nodes, (\E p \in net : Take(n, p)) \/ Lookup(n)
      PROVE  Simulated
  BY <1>1, <1>7 DEF Take, Lookup, ListenerGet, ListenerPut, ListenerGetAgain,
              callerVars, InCall
<1>8. ASSUME NEW p \in net, Bounce(p) \/ Lose(p) PROVE Simulated
  BY <1>1, <1>8 DEF Bounce, Lose, callerVars, InCall
<1>9. CASE UNCHANGED vars
  BY <1>1, <1>9 DEF vars, callerVars, InCall
<1>10. QED
  BY <1>2, <1>3, <1>4, <1>5, <1>6, <1>7, <1>8, <1>9 DEF Next, Listen

\* When the callers of each JVM share one wrapper, the nodes implement the
\* service: a value returned by execute is the answer to that call, its
\* handler has run, and no handler runs twice for a call.
THEOREM NodesImplementService ==
    ASSUME OneWrapperPerJvm PROVE Spec => ImplementsService
<1>1. TypeInv /\ ReplyInv /\ (InCallInv /\ ServiceInv) /\ [Next]_vars
          => [Service!Next]_(Service!vars)
  BY Simulation
<1>2. QED
  BY <1>1, InitSimulation, TypeInvariant, ReplyInvariant, ServiceInvariant, PTL
     DEF Spec, ImplementsService, Service!Spec

=============================================================================
