------------------------------- MODULE XmppRpc -------------------------------
(***************************************************************************)
(* XML-RPC over XMPP (XmppXmlRpcExample): nodes that call each other's     *)
(* handlers with IQ packets.                                               *)
(*                                                                         *)
(* A node (XmppXmlRpcClientServer) has a table of response queues, one per *)
(* request id, that two kinds of threads use without a common lock: the    *)
(* threads that call XmlRpcClientWrapper.execute and wait on a queue, and  *)
(* the node's one listener thread, which also runs the requests of others. *)
(* A queue is a SynchronousQueue, which holds nothing: a put and a poll    *)
(* meet or wait.  getTheRpcResponseQueue is a get, a put and a get of the  *)
(* table, each atomic (Hashtable), and not atomic together.                *)
(*                                                                         *)
(* The XMPP server between the nodes is external: packets in flight are a  *)
(* set, so they arrive in any order; it may lose a packet with a broken    *)
(* connection and bounces a request whose addressee is not online.         *)
(***************************************************************************)
EXTENDS Integers

CONSTANTS
    Nodes,          \* XmppXmlRpcClientServer instances, named by their JID
    Jvms,           \* Java processes
    JvmOf,          \* the process of each node
    Wrappers,       \* XmlRpcClientWrapper instances
    NodeOf,         \* theParent of each wrapper
    EndpointOf,     \* theEndpoint of each wrapper
    Callers,        \* threads that call execute
    WrapperOf,      \* the wrapper each caller uses
    Nobody,         \* an unlocked wrapper; no queue, no packet
    MaxCalls,       \* BOUND: calls of execute per caller
    MayLose         \* whether the network may lose packets

ASSUME XmppRpcAssumption ==
    /\ JvmOf \in [Nodes -> Jvms]
    /\ NodeOf \in [Wrappers -> Nodes]
    /\ EndpointOf \in [Wrappers -> Nodes]
    /\ WrapperOf \in [Callers -> Wrappers]
    /\ Callers \cap Nodes = {}
    /\ Nobody \notin Callers \cup Nodes
    /\ MaxCalls \in Nat
    /\ MayLose \in BOOLEAN

HomeOf(c) == NodeOf[WrapperOf[c]]
Jvm(c) == JvmOf[HomeOf(c)]

\* A request is told apart by who makes it and for which call of execute: the
\* method call in the payload, and the answer to it.
Request == [caller : Callers, call : Nat]

\* "body" is what the payload is: a method call, a response with a value, or a
\* response with a fault.  An ERROR carries back the method call it bounces.
Packet == [type : {"SET", "ERROR"}, from : Nodes, to : Nodes, id : Nat,
           req : Request, body : {"call"}]
          \cup
          [type : {"RESULT"}, from : Nodes, to : Nodes, id : Nat,
           req : Request, body : {"value", "fault"}]

\* A SynchronousQueue is an object: the one made by this thread for this id.
Queue == [id : Nat, by : Callers \cup Nodes]

VARIABLES
    theIndex,   \* theIndex[j]: the JVM's static id counter
    lock,       \* lock[w]: the caller inside execute of wrapper w
    pc,         \* where each caller is
    loaded,     \* operand of the unfinished increment of theIndex
    theId,      \* theId of the caller's transport
    queue,      \* the queue the caller was given
    calls,      \* calls each caller has begun
    outcome,    \* how the last call of each caller ended
    table,      \* theRpcRequests of each node
    listener,   \* the listener thread of each node
    net,        \* packets in flight
    executed    \* history: requests whose handler has run

callerVars == <<lock, pc, loaded, theId, queue, calls, outcome>>
vars == <<theIndex, callerVars, table, listener, net, executed>>

PC == {"idle", "load", "store", "send", "get", "put", "getAgain", "poll"}
IsTable(t) == DOMAIN t \subseteq Nat /\ t \in [DOMAIN t -> Queue]
Outcome == [kind : {"none", "npe", "interrupted"}]
           \cup [kind : {"value", "exception"}, req : Request]
Listener ==
    [at : {"idle"}]
    \cup [at : {"serve", "get", "put", "getAgain"}, pkt : Packet]
    \cup [at : {"handoff"}, pkt : Packet, queue : Queue]

TypeOK ==
    /\ theIndex \in [Jvms -> Nat]
    /\ lock \in [Wrappers -> Callers \cup {Nobody}]
    /\ pc \in [Callers -> PC]
    /\ loaded \in [Callers -> Nat]
    /\ theId \in [Callers -> Nat]
    /\ queue \in [Callers -> Queue \cup {Nobody}]
    /\ calls \in [Callers -> Nat]
    /\ outcome \in [Callers -> Outcome]
    /\ table = [n \in Nodes |-> table[n]]
    /\ \A n \in Nodes : IsTable(table[n])
    /\ listener \in [Nodes -> Listener]
    /\ net \subseteq Packet
    /\ executed \subseteq Request

Init ==
    /\ theIndex = [j \in Jvms |-> 0]
    /\ lock = [w \in Wrappers |-> Nobody]
    /\ pc = [c \in Callers |-> "idle"]
    /\ loaded = [c \in Callers |-> 0]
    /\ theId = [c \in Callers |-> 0]
    /\ queue = [c \in Callers |-> Nobody]
    /\ calls = [c \in Callers |-> 0]
    /\ outcome = [c \in Callers |-> [kind |-> "none"]]
    /\ table = [n \in Nodes |-> << >>]
    /\ listener = [n \in Nodes |-> [at |-> "idle"]]
    /\ net = {}
    /\ executed = {}

Goto(c, from, to) == pc[c] = from /\ pc' = [pc EXCEPT ![c] = to]

\* What getTheRpcResponseQueue(id) reads and writes in node n's table.
Present(n, id) == id \in DOMAIN table[n]
PutNew(n, id, maker) ==
    table' = [table EXCEPT ![n] =
                 [i \in DOMAIN @ \cup {id} |->
                     IF i = id THEN [id |-> id, by |-> maker] ELSE @[i]]]

-----------------------------------------------------------------------------
(* A thread in XmlRpcClientWrapper.execute.                                 *)

\* synchronized: one call of a wrapper at a time.
Enter(c) ==
    /\ Goto(c, "idle", "load")
    /\ lock[WrapperOf[c]] = Nobody
    /\ calls[c] < MaxCalls
    /\ lock' = [lock EXCEPT ![WrapperOf[c]] = c]
    /\ calls' = [calls EXCEPT ![c] = @ + 1]
    /\ UNCHANGED <<theIndex, loaded, theId, queue, outcome, table, listener,
                   net, executed>>

\* UniqueIdGenerator within one millisecond: theIndex++ is a load and a store,
\* and the id is formed from what theIndex holds afterwards (see UniqueIds).
LoadIndex(c) ==
    /\ Goto(c, "load", "store")
    /\ loaded' = [loaded EXCEPT ![c] = theIndex[Jvm(c)]]
    /\ UNCHANGED <<theIndex, lock, theId, queue, calls, outcome, table,
                   listener, net, executed>>

\* Mutant of StoreIndex: the generator returns the same id again.
StoreIndex_NoIncrement(c) ==
    /\ Goto(c, "store", "send")
    /\ theIndex' = [theIndex EXCEPT ![Jvm(c)] = loaded[c]]
    /\ UNCHANGED <<lock, loaded, theId, queue, calls, outcome, table, listener,
                   net, executed>>

StoreIndex(c) ==
    /\ Goto(c, "store", "send")
    /\ theIndex' = [theIndex EXCEPT ![Jvm(c)] = loaded[c] + 1]
    /\ UNCHANGED <<lock, loaded, theId, queue, calls, outcome, table, listener,
                   net, executed>>

\* The IQ of type SET that carries the request under the new id.
Sent(c) ==
    [type |-> "SET", from |-> HomeOf(c), to |-> EndpointOf[WrapperOf[c]],
     id |-> theIndex[Jvm(c)],
     req |-> [caller |-> c, call |-> calls[c]], body |-> "call"]

\* writeRequest: theId becomes the new id and the packet is sent.
SendRequest(c) ==
    /\ Goto(c, "send", "get")
    /\ theId' = [theId EXCEPT ![c] = theIndex[Jvm(c)]]
    /\ net' = net \cup {Sent(c)}
    /\ UNCHANGED <<theIndex, lock, loaded, queue, calls, outcome, table,
                   listener, executed>>

\* getInputStream: getTheRpcResponseQueue(theId) ...
CallerGet(c) ==
    /\ \/ Present(HomeOf(c), theId[c]) /\ Goto(c, "get", "getAgain")
       \/ ~Present(HomeOf(c), theId[c]) /\ Goto(c, "get", "put")
    /\ UNCHANGED <<theIndex, lock, loaded, theId, queue, calls, outcome, table,
                   listener, net, executed>>

CallerPut(c) ==
    /\ Goto(c, "put", "getAgain")
    /\ PutNew(HomeOf(c), theId[c], c)
    /\ UNCHANGED <<theIndex, lock, loaded, theId, queue, calls, outcome,
                   listener, net, executed>>

CallerGetAgain(c) ==
    /\ Goto(c, "getAgain", "poll")
    /\ queue' = [queue EXCEPT ![c] = table[HomeOf(c)][theId[c]]]
    /\ UNCHANGED <<theIndex, lock, loaded, theId, calls, outcome, table,
                   listener, net, executed>>

\* The call ends, with this outcome, and the wrapper is unlocked.
Return(c, result) ==
    /\ Goto(c, "poll", "idle")
    /\ outcome' = [outcome EXCEPT ![c] = result]
    /\ lock' = [lock EXCEPT ![WrapperOf[c]] = Nobody]
    /\ queue' = [queue EXCEPT ![c] = Nobody]
    /\ UNCHANGED <<theIndex, loaded, theId, calls, table, net, executed>>

\* Mutant of GiveUp: poll() without a timeout.
GiveUp_Never(c) == FALSE

\* ... .poll(300, SECONDS) returns null and myResponse.getBytes() throws a
\* NullPointerException, or the thread is interrupted.
GiveUp(c) ==
    /\ \E why \in {"npe", "interrupted"} : Return(c, [kind |-> why])
    /\ UNCHANGED listener

-----------------------------------------------------------------------------
(* The listener thread, in handleRpcPacket.                                 *)

\* Mutant of Take: the packet is handled twice.
Take_Twice(n, p) ==
    /\ listener[n].at = "idle"
    /\ p.to = n
    /\ listener' = [listener EXCEPT ![n] =
            [at |-> IF p.type = "SET" THEN "serve" ELSE "get", pkt |-> p]]
    /\ UNCHANGED <<theIndex, callerVars, table, net, executed>>

Take(n, p) ==
    /\ listener[n].at = "idle"
    /\ p.to = n
    /\ net' = net \ {p}
    /\ listener' = [listener EXCEPT ![n] =
            [at |-> IF p.type = "SET" THEN "serve" ELSE "get", pkt |-> p]]
    /\ UNCHANGED <<theIndex, callerVars, table, executed>>

\* The same IQ is sent back as a RESULT with from and to swapped.
Reply(p, body) ==
    [p EXCEPT !.type = "RESULT", !.body = body, !.from = p.to, !.to = p.from]

\* theRpcServer.execute runs the handler, which returns or throws, or finds
\* none; XmlRpcStreamServer makes a fault of everything thrown up to there.  A
\* result it cannot write (null, or of a type XML-RPC does not have) is an
\* XmlRpcException of execute itself: it is printed, and nothing is sent.
Serve(n) ==
    /\ listener[n].at = "serve"
    /\ LET p == listener[n].pkt IN
       \/ /\ net' = net \cup {Reply(p, "value")}
          /\ executed' = executed \cup {p.req}
       \/ /\ net' = net \cup {Reply(p, "fault")}
          /\ executed' \in {executed, executed \cup {p.req}}
       \/ /\ executed' = executed \cup {p.req}
          /\ UNCHANGED net
    /\ listener' = [listener EXCEPT ![n] = [at |-> "idle"]]
    /\ UNCHANGED <<theIndex, callerVars, table>>

\* Mutant of ListenerGet: the null check of getTheRpcResponseQueue is gone.
ListenerGet_NoCheck(n) ==
    /\ listener[n].at = "get"
    /\ listener' = [listener EXCEPT ![n].at = "put"]
    /\ UNCHANGED <<theIndex, callerVars, table, net, executed>>

\* RESULT and ERROR alike: getTheRpcResponseQueue(myId) ...
ListenerGet(n) ==
    /\ listener[n].at = "get"
    /\ listener' = [listener EXCEPT ![n].at =
            IF Present(n, listener[n].pkt.id) THEN "getAgain" ELSE "put"]
    /\ UNCHANGED <<theIndex, callerVars, table, net, executed>>

ListenerPut(n) ==
    /\ listener[n].at = "put"
    /\ PutNew(n, listener[n].pkt.id, n)
    /\ listener' = [listener EXCEPT ![n].at = "getAgain"]
    /\ UNCHANGED <<theIndex, callerVars, net, executed>>

ListenerGetAgain(n) ==
    /\ listener[n].at = "getAgain"
    /\ LET p == listener[n].pkt IN
       listener' = [listener EXCEPT ![n] =
            [at |-> "handoff", pkt |-> p, queue |-> table[n][p.id]]]
    /\ UNCHANGED <<theIndex, callerVars, table, net, executed>>

\* Mutant of Parse: whatever comes back is taken for the answer.
Parse_AnyPayload(p) == [kind |-> "value", req |-> p.req]

\* The XML-RPC client parses the payload: a fault is thrown, and so is a
\* payload that is no methodResponse, which is how an ERROR ends.
Parse(p) ==
    [kind |-> IF p.body = "value" THEN "value" ELSE "exception", req |-> p.req]

\* ... .put(payload) blocks until a caller polls the same queue object.
Handoff(n, c) ==
    /\ listener[n].at = "handoff"
    /\ queue[c] = listener[n].queue
    /\ Return(c, Parse(listener[n].pkt))
    /\ listener' = [listener EXCEPT ![n] = [at |-> "idle"]]

-----------------------------------------------------------------------------
(* The XMPP server between the nodes.                                       *)

\* A request to a JID that is not online comes back as an ERROR.
Bounced(p) == [p EXCEPT !.type = "ERROR", !.from = p.to, !.to = p.from]

Bounce(p) ==
    /\ p.type = "SET"
    /\ net' = (net \ {p}) \cup {Bounced(p)}
    /\ UNCHANGED <<theIndex, callerVars, table, listener, executed>>

\* A packet is lost with its connection, or is an ERROR without the request,
\* which Smack does not hand over as an RpcIQ.
Lose(p) ==
    /\ MayLose
    /\ net' = net \ {p}
    /\ UNCHANGED <<theIndex, callerVars, table, listener, executed>>

-----------------------------------------------------------------------------

GetQueue(c) == CallerGet(c) \/ CallerPut(c) \/ CallerGetAgain(c)
Call(c) == LoadIndex(c) \/ StoreIndex(c) \/ SendRequest(c) \/ GetQueue(c)
Lookup(n) == ListenerGet(n) \/ ListenerPut(n) \/ ListenerGetAgain(n)
Listen(n) ==
    \/ \E p \in net : Take(n, p)
    \/ Serve(n)
    \/ Lookup(n)
    \/ \E c \in Callers : Handoff(n, c)

Next ==
    \/ \E c \in Callers : Enter(c) \/ Call(c) \/ GiveUp(c)
    \/ \E n \in Nodes : Listen(n)
    \/ \E p \in net : Bounce(p) \/ Lose(p)

Spec == Init /\ [][Next]_vars

\* The JVM runs every runnable thread, and a poll ends after 300 s.  Nothing
\* is promised about who gets a monitor, nor about the network.
Fairness ==
    /\ \A c \in Callers : WF_vars(Call(c)) /\ WF_vars(GiveUp(c))
    /\ \A n \in Nodes : WF_vars(Listen(n))

FairSpec == Spec /\ Fairness

-----------------------------------------------------------------------------
(* What the nodes promise.                                                  *)

\* A call that got a reply got the reply to its own request: packets, queues
\* and threads of many calls, some of them given up and answered late, meet
\* through nothing but a packet id (XmlRpcByteArrayClient l.60, l.84;
\* XmppXmlRpcClientServer l.178-182), and ids repeat between JVMs.
OwnReply ==
    \A c \in Callers :
        outcome[c].kind \in {"value", "exception"} =>
            outcome[c].req =
                [caller |-> c,
                 call |-> IF pc[c] = "idle" THEN calls[c] ELSE calls[c] - 1]

\* The requests an endpoint has still to execute.
Unserved ==
    {p \in net : p.type = "SET"}
    \cup {listener[n].pkt : n \in {m \in Nodes : listener[m].at = "serve"}}

\* A handler never runs twice for one call of execute: a request on its way
\* or in service (l.160-175) has not been executed, whatever was bounced,
\* lost, given up or answered before.
ExecutedOnce == \A p \in Unserved : p.req \notin executed

\* Once a caller polls the queue that theRpcRequests holds for its id and the
\* listener is not between its own get and put of that id, the entry stays
\* that queue until the caller is done: only the check-then-act of
\* getTheRpcResponseQueue (l.56-62) can separate the two.
Settled(c) ==
    /\ pc[c] = "poll"
    /\ Present(HomeOf(c), theId[c])
    /\ table[HomeOf(c)][theId[c]] = queue[c]
    /\ listener[HomeOf(c)].at = "put" =>
          listener[HomeOf(c)].pkt.id # theId[c]

SettledStays ==
    [][\A c \in Callers : Settled(c) => Settled(c)' \/ pc'[c] = "idle"]_vars

\* Every call of execute ends, though the listener of its node may be stuck
\* for good: the 300 s of the poll (XmlRpcByteArrayClient l.60) see to it.
CallEnds == \A c \in Callers : pc[c] # "idle" ~> pc[c] = "idle"

\* The nodes implement the service their callers rely on (RpcService): a call
\* that returns a value returns the answer to that very call, its handler has
\* run, and no handler runs twice for a call (XmlRpcClientWrapper l.34-38
\* through to XmlRpcByteArrayServer l.90-97 and back).
InCall == {c \in Callers : pc[c] # "idle"}
Answer == [c \in Callers |-> IF outcome[c].kind = "value" THEN outcome[c].req
                             ELSE [failed |-> TRUE]]

Service == INSTANCE RpcService WITH inCall <- InCall, answer <- Answer

ImplementsService == Service!Spec

-----------------------------------------------------------------------------
(* Why they keep it: the inductive invariant of the proofs in               *)
(* XmppRpc_proofs, and its assumption.                                      *)

\* The callers of one JVM all use one wrapper (two wrappers in one JVM race
\* for ids: see the run XmppRpc_own).
OneWrapperPerJvm ==
    \A c, d \in Callers : Jvm(c) = Jvm(d) => WrapperOf[c] = WrapperOf[d]

Busy == {n \in Nodes : listener[n].at # "idle"}

\* The packets under way: in the network or in the hands of a listener.
Flying == net \cup {listener[n].pkt : n \in Busy}

\* The node whose caller made the request that p carries or answers.
ClientOf(p) == IF p.type = "SET" THEN p.from ELSE p.to

Waiting(c) == pc[c] \in {"get", "put", "getAgain", "poll"}
Current(c) == [caller |-> c, call |-> calls[c]]

\* The node in whose table a queue is or was.
OwnerOf(q) == IF q.by \in Callers THEN HomeOf(q.by) ELSE q.by

\* A caller inside execute holds the monitor and has begun a call.
InCallInv ==
    \A c \in Callers :
        pc[c] # "idle" => lock[WrapperOf[c]] = c /\ calls[c] >= 1

\* The second get of getTheRpcResponseQueue finds an entry, because entries
\* are never removed.
PresentInv ==
    /\ \A c \in Callers :
          pc[c] = "getAgain" => Present(HomeOf(c), theId[c])
    /\ \A n \in Nodes :
          listener[n].at = "getAgain" => Present(n, listener[n].pkt.id)

ListenerInv ==
    \A n \in Busy :
        /\ listener[n].pkt.to = n
        /\ listener[n].at = "serve" <=> listener[n].pkt.type = "SET"

\* Packets belong to the node they name, under ids that were issued.
PacketInv ==
    \A p \in Flying :
        /\ HomeOf(p.req.caller) = ClientOf(p)
        /\ p.id <= theIndex[JvmOf[ClientOf(p)]]

\* A caller's id is at most the counter, and above every id under way while
\* it is about to be sent.
IndexInv ==
    \A c \in Callers :
        /\ pc[c] = "store" => loaded[c] = theIndex[Jvm(c)]
        /\ Waiting(c) => theId[c] <= theIndex[Jvm(c)]
        /\ pc[c] = "send" =>
              \A p \in Flying :
                  JvmOf[ClientOf(p)] = Jvm(c) => p.id < theIndex[Jvm(c)]

\* What comes back to a node under the id a caller waits for is for it.
MatchInv ==
    \A p \in Flying, c \in Callers :
        (Waiting(c) /\ ClientOf(p) = HomeOf(c) /\ p.id = theId[c])
            => p.req = Current(c)

\* Queues are found under the id they were made for, in their own node.
QueueInv ==
    /\ \A n \in Nodes : \A i \in DOMAIN table[n] :
          table[n][i].id = i /\ OwnerOf(table[n][i]) = n
    /\ \A c \in Callers :
          pc[c] = "poll" => /\ queue[c] \in Queue
                            /\ queue[c].id = theId[c]
                            /\ OwnerOf(queue[c]) = HomeOf(c)
    /\ \A n \in Nodes :
          listener[n].at = "handoff" =>
              /\ listener[n].queue.id = listener[n].pkt.id
              /\ OwnerOf(listener[n].queue) = n

\* The inductive invariant behind OwnReply.
ReplyInv == /\ InCallInv
            /\ ListenerInv
            /\ PacketInv
            /\ IndexInv
            /\ MatchInv
            /\ QueueInv
            /\ OwnReply

\* No request is in two places.
OnePlaceInv ==
    /\ \A p, q \in net : p.type = "SET" /\ q.type = "SET" /\ p.req = q.req => p = q
    /\ \A p \in net, n \in Nodes :
          p.type = "SET" /\ listener[n].at = "serve" => p.req # listener[n].pkt.req
    /\ \A m, n \in Nodes :
          (/\ listener[m].at = "serve" /\ listener[n].at = "serve"
           /\ listener[m].pkt.req = listener[n].pkt.req) => m = n

\* Nothing is under way or executed for a call that has not sent its request.
FreshInv ==
    /\ \A c \in Callers :
          pc[c] \in {"load", "store", "send"} =>
              /\ Current(c) \notin executed
              /\ \A p \in Flying : p.req # Current(c)
    /\ \A p \in Flying : p.req.call \in 1..calls[p.req.caller]
    /\ \A r \in executed : r.call \in 1..calls[r.caller]

\* An answer with a value is the answer of a handler that ran.
ValueInv == \A p \in Flying : p.body = "value" => p.req \in executed

\* The inductive invariant behind ExecutedOnce and the refinement.
ServiceInv == OnePlaceInv /\ FreshInv /\ ExecutedOnce /\ ValueInv

-----------------------------------------------------------------------------
(* What the comments in handleRpcPacket say of it.                          *)

\* A caller that is in the call with this id.
IsClientOf(c, n, id) ==
    /\ HomeOf(c) = n
    /\ pc[c] \in {"get", "put", "getAgain", "poll"}
    /\ theId[c] = id

HandlesReply(n) == listener[n].at \in {"get", "put", "getAgain", "handoff"}

\* "get the corresponding client ... in case there is none, ignore this packet"
\* (l.179-180, l.186-187): the listener gets done with a reply that no client
\* waits for.
ReplyWithoutClientIgnored ==
    \A n \in Nodes :
        (HandlesReply(n) /\ ~ \E c \in Callers : IsClientOf(c, n, listener[n].pkt.id))
            ~> ~HandlesReply(n)

=============================================================================
