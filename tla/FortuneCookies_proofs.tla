------------------------ MODULE FortuneCookies_proofs ------------------------
(* Proofs about FortuneCookies for any clients, addresses and cookies.       *)
EXTENDS FortuneCookies, TLAPS

USE ClientsAssumption, NobodyAssumption, CountAssumption

-----------------------------------------------------------------------------
(* Bags.                                                                     *)

LEMMA AddedToBag ==
    ASSUME NEW B, NEW m
    PROVE  BagToSet(BagAdd(B, m)) = BagToSet(B) \cup {m}
BY DEF BagAdd, BagToSet

LEMMA RemovedFromBag ==
    ASSUME NEW B, NEW m
    PROVE  BagToSet(BagRemove(B, m)) \subseteq BagToSet(B)
BY DEF BagRemove, BagToSet

LEMMA EmptyBagIsEmpty == BagToSet(EmptyBag) = {}
BY DEF EmptyBag, BagToSet, SetToBag

-----------------------------------------------------------------------------
(* Types.                                                                    *)

LEMMA InitType == Init => TypeOK
BY EmptyBagIsEmpty DEF Init, TypeOK

\* The messages the component and the server make of others
LEMMA ResponseType ==
    ASSUME NEW m \in Message, NEW cookie \in GetCookie
    PROVE  /\ Response(m, cookie) \in Message
           /\ Response(m, cookie).greeting = m.greeting
           /\ Response(m, cookie).bounces = m.bounces
           /\ Response(m, cookie).to = m.from
           /\ Response(m, cookie).from = Component
           /\ Response(m, cookie).body = cookie
           /\ Response(m, cookie).error = FALSE
           /\ cookie # Greeting
<1>1. cookie \in Int /\ cookie \in Body /\ cookie # Greeting
  BY DEF GetCookie, NextInt, Body, Cookies, Greeting
<1>2. m.greeting \in Clients /\ m.from \in Jids \cup {Component} /\ m.bounces \in 0 .. MaxBounces
  BY DEF Message
<1>3. Response(m, cookie) \in Message
  BY <1>1, <1>2 DEF Response, Message
<1>4. /\ Response(m, cookie).greeting = m.greeting
      /\ Response(m, cookie).bounces = m.bounces
      /\ Response(m, cookie).to = m.from
      /\ Response(m, cookie).from = Component
  BY DEF Response, Message
<1>5. Response(m, cookie).body = cookie /\ Response(m, cookie).error = FALSE
  BY DEF Response, Message
<1>6. QED
  BY <1>1, <1>3, <1>4, <1>5

Returned(m) == [m EXCEPT !.from = m.to, !.to = m.from, !.error = TRUE, !.bounces = @ + 1]

LEMMA ReturnedType ==
    ASSUME NEW m \in Message, m.bounces < MaxBounces
    PROVE  /\ Returned(m) \in Message
           /\ Returned(m).greeting = m.greeting
           /\ Returned(m).bounces > 0
           /\ Returned(m).to = m.from
           /\ Returned(m).from = m.to
           /\ Returned(m).body = m.body
           /\ Returned(m).error = TRUE
<1>1. /\ m.greeting \in Clients /\ m.from \in Jids \cup {Component}
      /\ m.to \in Jids \cup {Component} /\ m.body \in Body
      /\ m.bounces + 1 \in 0 .. MaxBounces /\ m.bounces + 1 > 0
  BY DEF Message
<1>2. Returned(m) \in Message
  BY <1>1 DEF Returned, Message
<1>3. /\ Returned(m).greeting = m.greeting
      /\ Returned(m).to = m.from
      /\ Returned(m).from = m.to
      /\ Returned(m).body = m.body
  BY DEF Returned, Message
<1>4. Returned(m).error = TRUE /\ Returned(m).bounces = m.bounces + 1
  BY DEF Returned, Message
<1>5. QED
  BY <1>1, <1>2, <1>3, <1>4

GreetingOf(c) == [greeting |-> c, from |-> JidOf[c], to |-> Component,
                  body |-> Greeting, error |-> FALSE, bounces |-> 0]

LEMMA GreetingType ==
    ASSUME NEW c \in Clients
    PROVE  GreetingOf(c) \in Message
<1>1. JidOf[c] \in Jids
  OBVIOUS
<1>2. QED
  BY <1>1 DEF GreetingOf, Message, Body

LEMMA NextType ==
    ASSUME TypeOK, [Next]_vars
    PROVE  TypeOK'
<1> USE DEF TypeOK
<1>1. CASE AddComponent \/ RefuseComponent \/ EndComponent
  BY <1>1, EmptyBagIsEmpty DEF AddComponent, RefuseComponent, EndComponent
<1>2. ASSUME NEW c \in Clients, Login(c) \/ FailToStart(c) \/ AddPacketListener(c) \/ Stop(c)
      PROVE  TypeOK'
  <2>1. JidOf[c] \in Jids
    OBVIOUS
  <2>2. QED
    BY <1>2, <2>1 DEF Login, Bind, FailToStart, AddPacketListener, Stop
<1>3. ASSUME NEW c \in Clients, SendGreeting(c)
      PROVE  TypeOK'
  <2>1. BagToSet(wire') = BagToSet(wire) \cup {GreetingOf(c)}
    BY <1>3, AddedToBag DEF SendGreeting, GreetingOf
  <2>2. QED
    BY <1>3, <2>1, GreetingType DEF SendGreeting
<1>4. ASSUME NEW m \in BagToSet(inbox), HandleMessage(m)
      PROVE  TypeOK'
  <2>1. PICK cookie \in GetCookie : wire' = BagAdd(wire, Response(m, cookie))
    BY <1>4 DEF HandleMessage
  <2>2. BagToSet(wire') = BagToSet(wire) \cup {Response(m, cookie)}
    BY <2>1, AddedToBag
  <2>3. BagToSet(inbox') \subseteq BagToSet(inbox)
    BY <1>4, RemovedFromBag DEF HandleMessage
  <2>4. m \in Message
    OBVIOUS
  <2>5. Response(m, cookie) \in Message
    BY <2>4, ResponseType
  <2>6. QED
    BY <1>4, <2>2, <2>3, <2>5 DEF HandleMessage
<1>5. ASSUME NEW m \in BagToSet(wire), ToComponent(m)
      PROVE  TypeOK'
  <2>1. BagToSet(wire') \subseteq BagToSet(wire) /\ BagToSet(inbox') = BagToSet(inbox) \cup {m}
    BY <1>5, AddedToBag, RemovedFromBag DEF ToComponent
  <2>2. QED
    BY <1>5, <2>1 DEF ToComponent
<1>6. ASSUME NEW m \in BagToSet(wire), ProcessPacket(m)
      PROVE  TypeOK'
  <2>1. BagToSet(wire') \subseteq BagToSet(wire)
    BY <1>6, RemovedFromBag DEF ProcessPacket
  <2>2. DOMAIN heard' = Clients /\ \A c \in Clients : BagToSet(heard'[c]) \subseteq Message
    <3>1. CASE heard' = heard
      BY <3>1
    <3>2. CASE heard' # heard
      <4>1. heard' = [heard EXCEPT ![session[m.to]] = BagAdd(@, m)]
        BY <1>6, <3>2 DEF ProcessPacket
      <4>2. ASSUME NEW c \in Clients
            PROVE  heard'[c] = heard[c] \/ heard'[c] = BagAdd(heard[c], m)
        BY <4>1
      <4>3. QED
        BY <4>1, <4>2, AddedToBag
    <3>3. QED
      BY <3>1, <3>2
  <2>3. QED
    BY <1>6, <2>1, <2>2 DEF ProcessPacket
<1>7. ASSUME NEW m \in BagToSet(wire), Bounce(m)
      PROVE  TypeOK'
  <2>1. BagToSet(wire') \subseteq BagToSet(wire) \cup {Returned(m)}
    BY <1>7, AddedToBag, RemovedFromBag DEF Bounce, Returned
  <2>2. Returned(m) \in Message
    BY <1>7, ReturnedType DEF Bounce
  <2>3. QED
    BY <1>7, <2>1, <2>2 DEF Bounce
<1>8. ASSUME NEW m \in BagToSet(wire), Discard(m)
      PROVE  TypeOK'
  <2>1. BagToSet(wire') \subseteq BagToSet(wire)
    BY <1>8, RemovedFromBag DEF Discard
  <2>2. QED
    BY <1>8, <2>1 DEF Discard
<1>9. CASE UNCHANGED vars
  BY <1>9 DEF vars
<1>10. QED
  BY <1>1, <1>2, <1>3, <1>4, <1>5, <1>6, <1>7, <1>8, <1>9 DEF Next, Route

\* The server's bindings name clients, messages keep their shape through
\* answers and returns, and bags of them stay within these.
THEOREM TypeCorrect == Spec => []TypeOK
<1>1. QED
  BY InitType, NextType, PTL DEF Spec

-----------------------------------------------------------------------------
(* Addresses and exchanges.                                                  *)

Active == {"loggedIn", "listening", "waiting"}
Left == {"replaced", "stopped"}

\* An address is bound to the one client that is active on it
SessionInv ==
    /\ \A c \in Clients : pc[c] \in Active => session[JidOf[c]] = c
    /\ \A j \in Jids : session[j] # Nobody => JidOf[session[j]] = j /\ pc[session[j]] \in Active

\* A message goes between the component and the address of the client that
\* greeted.  A greeting that is returned, and a cookie on its way to the
\* component, are errors; and a cookie was returned only if its client left.
Shape(m) ==
    /\ pc[m.greeting] \in Left \cup {"waiting"}
    /\ m.to = Component => m.from = JidOf[m.greeting]
    /\ m.to # Component => m.to = JidOf[m.greeting] /\ m.from = Component
    /\ m.body = Greeting /\ m.to = Component => m.bounces = 0
    /\ m.body = Greeting /\ m.to # Component => m.error
    /\ m.body # Greeting /\ m.to = Component => m.error
    /\ m.body # Greeting /\ m.bounces > 0 => pc[m.greeting] \in Left

\* Who hears something of a greeting is at the address it came from
HeardInv ==
    \A c \in Clients : \A m \in BagToSet(heard[c]) :
        /\ JidOf[m.greeting] = JidOf[c]
        /\ m.greeting # c => pc[m.greeting] \in Left

ExchangeInv ==
    /\ TypeOK
    /\ SessionInv
    /\ \A m \in BagToSet(wire) \cup BagToSet(inbox) : Shape(m)
    /\ \A m \in BagToSet(inbox) : m.to = Component
    /\ HeardInv

LEMMA InitExchange == Init => ExchangeInv
<1>1. SUFFICES ASSUME Init PROVE ExchangeInv
  OBVIOUS
<1>2. TypeOK
  BY <1>1, InitType
<1>3. SessionInv
  BY <1>1 DEF Init, SessionInv, Active
<1>4. BagToSet(wire) = {} /\ BagToSet(inbox) = {} /\ \A c \in Clients : BagToSet(heard[c]) = {}
  BY <1>1, EmptyBagIsEmpty DEF Init
<1>5. QED
  BY <1>2, <1>3, <1>4 DEF ExchangeInv, HeardInv

\* A client that has greeted stays one that has, and one that left stays away
Stays ==
    \A c \in Clients :
        /\ pc[c] \in Left \cup {"waiting"} => pc'[c] \in Left \cup {"waiting"}
        /\ pc[c] \in Left => pc'[c] \in Left

LEMMA ShapeStays ==
    ASSUME NEW m \in Message, Shape(m), Stays
    PROVE  Shape(m)'
<1>1. m.greeting \in Clients
  BY DEF Message
<1>2. QED
  BY <1>1 DEF Shape, Stays

LEMMA HeardStays ==
    ASSUME TypeOK, HeardInv, Stays, UNCHANGED heard
    PROVE  HeardInv'
<1>1. SUFFICES ASSUME NEW c \in Clients, NEW m \in BagToSet(heard[c])
               PROVE  /\ JidOf[m.greeting] = JidOf[c]
                      /\ m.greeting # c => pc'[m.greeting] \in Left
  BY DEF HeardInv
<1>2. m.greeting \in Clients
  BY DEF TypeOK, Message
<1>3. QED
  BY <1>2 DEF HeardInv, Stays

\* A step of a client that sends nothing
LEMMA ClientExchange ==
    ASSUME ExchangeInv, TypeOK', SessionInv', Stays, UNCHANGED heard,
           wire' = wire, BagToSet(inbox') \subseteq BagToSet(inbox)
    PROVE  ExchangeInv'
<1>1. \A m \in BagToSet(wire) \cup BagToSet(inbox) : m \in Message /\ Shape(m)
  BY DEF ExchangeInv, TypeOK
<1>2. \A m \in BagToSet(wire') \cup BagToSet(inbox') : Shape(m)'
  BY <1>1, ShapeStays
<1>3. HeardInv'
  BY HeardStays DEF ExchangeInv
<1>4. QED
  BY <1>2, <1>3 DEF ExchangeInv

\* The messages on their way and in the queue, and what is made of them
LEMMA MessagesExchange ==
    ASSUME ExchangeInv, TypeOK', SessionInv', Stays, UNCHANGED heard,
           NEW m, Shape(m)',
           BagToSet(wire') \subseteq BagToSet(wire) \cup {m},
           BagToSet(inbox') \subseteq BagToSet(inbox)
    PROVE  ExchangeInv'
<1>1. \A n \in BagToSet(wire) \cup BagToSet(inbox) : n \in Message /\ Shape(n)
  BY DEF ExchangeInv, TypeOK
<1>2. \A n \in BagToSet(wire) \cup BagToSet(inbox) : Shape(n)'
  BY <1>1, ShapeStays
<1>3. \A n \in BagToSet(wire') \cup BagToSet(inbox') : Shape(n)'
  BY <1>2
<1>4. HeardInv'
  BY HeardStays DEF ExchangeInv
<1>5. QED
  BY <1>3, <1>4 DEF ExchangeInv

\* Whoever greeted and did not leave holds its address
LEMMA WaitingHolds ==
    ASSUME ExchangeInv, NEW m \in BagToSet(wire) \cup BagToSet(inbox)
    PROVE  /\ m \in Message
           /\ Shape(m)
           /\ m.greeting \in Clients
           /\ JidOf[m.greeting] \in Jids
           /\ pc[m.greeting] \in Left \/ session[JidOf[m.greeting]] = m.greeting
<1>1. m \in Message /\ Shape(m)
  BY DEF ExchangeInv, TypeOK
<1>2. m.greeting \in Clients
  BY <1>1 DEF Message
<1>3. pc[m.greeting] \in Left \/ session[JidOf[m.greeting]] = m.greeting
  BY <1>1, <1>2 DEF Shape, ExchangeInv, SessionInv, Active
<1>4. QED
  BY <1>1, <1>2, <1>3

\* Logging in takes an address from the client that holds it
LEMMA LoginExchange ==
    ASSUME ExchangeInv, TypeOK', NEW c \in Clients, Login(c)
    PROVE  ExchangeInv'
<1>1. JidOf[c] \in Jids
  OBVIOUS
<1>2. /\ session' = [session EXCEPT ![JidOf[c]] = c]
      /\ pc' = [d \in Clients |-> IF d = c THEN "loggedIn"
                                  ELSE IF d = session[JidOf[c]] THEN "replaced" ELSE pc[d]]
      /\ pc[c] = "off"
      /\ UNCHANGED <<component, wire, inbox, heard>>
  BY DEF Login, Bind
<1>3. session \in [Jids -> Clients \cup {Nobody}] /\ SessionInv
  BY DEF ExchangeInv, TypeOK
<1>4. ASSUME NEW d \in Clients, pc'[d] \in Active
      PROVE  session'[JidOf[d]] = d
  <2>1. CASE d = c
    BY <2>1, <1>1, <1>2, <1>3
  <2>2. CASE d # c
    <3>1. pc[d] \in Active /\ d # session[JidOf[c]]
      BY <1>2, <1>4, <2>2 DEF Active
    <3>2. session[JidOf[d]] = d
      BY <3>1, <1>3 DEF SessionInv
    <3>3. JidOf[d] # JidOf[c]
      BY <3>1, <3>2
    <3>4. QED
      BY <3>2, <3>3, <1>2, <1>3
  <2>3. QED
    BY <2>1, <2>2
<1>5. ASSUME NEW j \in Jids, session'[j] # Nobody
      PROVE  JidOf[session'[j]] = j /\ pc'[session'[j]] \in Active
  <2>1. CASE j = JidOf[c]
    BY <2>1, <1>1, <1>2, <1>3 DEF Active
  <2>2. CASE j # JidOf[c]
    <3>1. session'[j] = session[j] /\ session[j] # Nobody /\ session[j] \in Clients
      BY <2>2, <1>2, <1>3, <1>5
    <3>2. JidOf[session[j]] = j /\ pc[session[j]] \in Active
      BY <3>1, <1>3 DEF SessionInv
    <3>3. session[j] # session[JidOf[c]]
      BY <3>1, <3>2, <2>2, <1>1, <1>3 DEF SessionInv
    <3>4. session[j] # c
      BY <3>2, <1>2 DEF Active
    <3>5. pc'[session[j]] = pc[session[j]]
      BY <1>2, <3>1, <3>3, <3>4
    <3>6. QED
      BY <3>1, <3>2, <3>5
  <2>3. QED
    BY <2>1, <2>2
<1>6. SessionInv'
  BY <1>4, <1>5 DEF SessionInv
<1>7. Stays
  BY <1>2 DEF Stays, Left
<1>8. QED
  BY <1>2, <1>6, <1>7, ClientExchange

LEMMA NextExchange ==
    ASSUME ExchangeInv, [Next]_vars
    PROVE  ExchangeInv'
<1>1. TypeOK /\ TypeOK'
  BY NextType DEF ExchangeInv
<1> DEFINE Calm == UNCHANGED <<pc, session>>
<1>2. ASSUME Calm PROVE SessionInv' /\ Stays
  BY <1>2 DEF ExchangeInv, SessionInv, Stays
<1>3. CASE AddComponent \/ RefuseComponent \/ EndComponent
  <2>1. Calm /\ UNCHANGED heard /\ wire' = wire /\ BagToSet(inbox') \subseteq BagToSet(inbox)
    BY <1>3, EmptyBagIsEmpty DEF AddComponent, RefuseComponent, EndComponent
  <2>2. QED
    BY <2>1, <1>1, <1>2, ClientExchange
<1>4. ASSUME NEW c \in Clients, Login(c)
      PROVE  ExchangeInv'
  BY <1>1, <1>4, LoginExchange
<1>5. ASSUME NEW c \in Clients, FailToStart(c) \/ AddPacketListener(c) \/ Stop(c)
      PROVE  ExchangeInv'
  <2>1. SessionInv'
    BY <1>1, <1>5 DEF ExchangeInv, TypeOK, SessionInv, Active, FailToStart, AddPacketListener, Stop
  <2>2. Stays
    BY <1>1, <1>5 DEF TypeOK, Stays, Left, FailToStart, AddPacketListener, Stop
  <2>3. UNCHANGED <<wire, inbox, heard>>
    BY <1>5 DEF FailToStart, AddPacketListener, Stop
  <2>4. QED
    BY <1>1, <2>1, <2>2, <2>3, ClientExchange
<1>6. ASSUME NEW c \in Clients, SendGreeting(c)
      PROVE  ExchangeInv'
  <2>1. /\ pc[c] = "listening" /\ pc' = [pc EXCEPT ![c] = "waiting"] /\ wire' = BagAdd(wire, GreetingOf(c))
        /\ UNCHANGED <<session, inbox, heard>>
    BY <1>6 DEF SendGreeting, GreetingOf
  <2>2. SessionInv' /\ Stays
    <3>1. SessionInv'
      BY <1>1, <2>1 DEF ExchangeInv, TypeOK, SessionInv, Active
    <3>2. Stays
      BY <1>1, <2>1 DEF TypeOK, Stays, Left
    <3>3. QED
      BY <3>1, <3>2
  <2>3. Shape(GreetingOf(c))'
    <3>1. /\ GreetingOf(c).greeting = c /\ GreetingOf(c).from = JidOf[c] /\ GreetingOf(c).to = Component
          /\ GreetingOf(c).body = Greeting /\ GreetingOf(c).bounces = 0
      BY DEF GreetingOf
    <3>2. pc'[c] = "waiting"
      BY <1>1, <2>1 DEF TypeOK
    <3>3. QED
      BY <3>1, <3>2 DEF Shape, Left
  <2>4. BagToSet(wire') \subseteq BagToSet(wire) \cup {GreetingOf(c)}
    BY <2>1, AddedToBag
  <2>5. QED
    BY <1>1, <2>1, <2>2, <2>3, <2>4, MessagesExchange
<1>7. ASSUME NEW m \in BagToSet(inbox), HandleMessage(m)
      PROVE  ExchangeInv'
  <2>1. PICK cookie \in GetCookie : wire' = BagAdd(wire, Response(m, cookie))
    BY <1>7 DEF HandleMessage
  <2>2. Calm /\ UNCHANGED heard /\ inbox' = BagRemove(inbox, m)
    BY <1>7 DEF HandleMessage
  <2>3. m \in Message /\ Shape(m) /\ m.to = Component
    BY <1>1 DEF ExchangeInv, TypeOK
  <2> DEFINE r == Response(m, cookie)
  <2>4. /\ r.greeting = m.greeting /\ r.bounces = m.bounces /\ r.to = m.from
        /\ r.from = Component /\ r.body # Greeting
    BY <2>3, ResponseType
  <2>5. m.from = JidOf[m.greeting] /\ m.from # Component
    <3>1. m.greeting \in Clients
      BY <2>3 DEF Message
    <3>2. QED
      BY <2>3, <3>1 DEF Shape
  <2>6. m.bounces > 0 => pc[m.greeting] \in Left
    BY <2>3 DEF Shape, Message
  <2>7. pc[m.greeting] \in Left \cup {"waiting"}
    BY <2>3 DEF Shape
  <2>8. Shape(r)'
    <3> HIDE DEF r
    <3>1. pc'[r.greeting] = pc[m.greeting]
      BY <2>2, <2>4
    <3>2. QED
      BY <2>4, <2>5, <2>6, <2>7, <3>1 DEF Shape
  <2>9. BagToSet(wire') \subseteq BagToSet(wire) \cup {r} /\ BagToSet(inbox') \subseteq BagToSet(inbox)
    BY <2>1, <2>2, AddedToBag, RemovedFromBag
  <2>10. QED
    <3> HIDE DEF r
    <3>1. QED
      BY <1>1, <1>2, <2>2, <2>8, <2>9, MessagesExchange
<1>8. ASSUME NEW m \in BagToSet(wire), ToComponent(m)
      PROVE  ExchangeInv'
  <2>1. /\ Calm /\ UNCHANGED heard /\ m.to = Component
        /\ BagToSet(wire') \subseteq BagToSet(wire) /\ BagToSet(inbox') = BagToSet(inbox) \cup {m}
    BY <1>8, AddedToBag, RemovedFromBag DEF ToComponent
  <2>2. \A n \in BagToSet(wire') \cup BagToSet(inbox') : n \in BagToSet(wire) \cup BagToSet(inbox)
    BY <2>1
  <2>3. \A n \in BagToSet(wire') \cup BagToSet(inbox') : Shape(n)'
    BY <2>1, <2>2, <1>2, WaitingHolds, ShapeStays
  <2>4. HeardInv'
    BY <1>1, <1>2, <2>1, HeardStays DEF ExchangeInv
  <2>5. QED
    BY <1>1, <1>2, <2>1, <2>3, <2>4 DEF ExchangeInv
<1>9. ASSUME NEW m \in BagToSet(wire), ProcessPacket(m)
      PROVE  ExchangeInv'
  <2>1. /\ Calm /\ inbox' = inbox /\ BagToSet(wire') \subseteq BagToSet(wire)
        /\ m.to \in Jids /\ session[m.to] # Nobody
    BY <1>9, RemovedFromBag DEF ProcessPacket
  <2>2. \A n \in BagToSet(wire') \cup BagToSet(inbox') : Shape(n)'
    BY <2>1, <1>2, WaitingHolds, ShapeStays
  <2> DEFINE c == session[m.to]
  <2>3. c \in Clients /\ JidOf[c] = m.to
    BY <1>1, <2>1 DEF ExchangeInv, TypeOK, SessionInv
  <2>4. m.to = JidOf[m.greeting]
    BY <2>1, WaitingHolds DEF Shape
  <2>5. m.greeting # c => pc[m.greeting] \in Left
    BY <2>4, WaitingHolds
  <2>6. HeardInv'
    <3>1. CASE heard' = heard
      BY <1>1, <1>2, <2>1, <3>1, HeardStays DEF ExchangeInv
    <3>2. CASE heard' # heard
      <4>1. heard' = [heard EXCEPT ![c] = BagAdd(@, m)]
        BY <1>9, <3>2 DEF ProcessPacket
      <4>2. ASSUME NEW d \in Clients, NEW n \in BagToSet(heard'[d])
            PROVE  JidOf[n.greeting] = JidOf[d] /\ (n.greeting # d => pc'[n.greeting] \in Left)
        <5>1. d \in DOMAIN heard
          BY <1>1 DEF TypeOK
        <5>2. n \in BagToSet(heard[d]) \/ (d = c /\ n = m)
          BY <4>1, <4>2, <5>1, AddedToBag
        <5>3. CASE n \in BagToSet(heard[d])
          BY <5>3, <2>1 DEF ExchangeInv, HeardInv
        <5>4. CASE d = c /\ n = m
          BY <5>4, <2>1, <2>3, <2>4, <2>5
        <5>5. QED
          BY <5>2, <5>3, <5>4
      <4>3. QED
        BY <4>2 DEF HeardInv
    <3>3. QED
      BY <3>1, <3>2
  <2>7. QED
    BY <1>1, <1>2, <2>1, <2>2, <2>6 DEF ExchangeInv
<1>10. ASSUME NEW m \in BagToSet(wire), Bounce(m)
       PROVE  ExchangeInv'
  <2>1. /\ Calm /\ UNCHANGED heard /\ inbox' = inbox
        /\ BagToSet(wire') \subseteq BagToSet(wire) \cup {Returned(m)}
        /\ Unreachable(m.to) /\ ~m.error /\ m.bounces < MaxBounces
    BY <1>10, AddedToBag, RemovedFromBag DEF Bounce, Returned
  <2>2. /\ m \in Message /\ Shape(m) /\ m.greeting \in Clients /\ JidOf[m.greeting] \in Jids
        /\ pc[m.greeting] \in Left \/ session[JidOf[m.greeting]] = m.greeting
    BY WaitingHolds
  <2> DEFINE r == Returned(m)
  <2>3. /\ r.greeting = m.greeting /\ r.to = m.from /\ r.from = m.to
        /\ r.body = m.body /\ r.error = TRUE
    BY <2>1, <2>2, ReturnedType
  <2>4. pc[m.greeting] \in Left \cup {"waiting"}
    BY <2>2 DEF Shape
  <2>5. CASE m.to = Component
    <3>1. m.body = Greeting /\ m.from = JidOf[m.greeting] /\ m.from # Component
      BY <2>1, <2>2, <2>5 DEF Shape
    <3>2. Shape(r)'
      <4> HIDE DEF r
      <4>1. pc'[r.greeting] = pc[m.greeting]
        BY <2>1, <2>3
      <4>2. QED
        BY <2>3, <2>4, <2>5, <3>1, <4>1 DEF Shape
    <3>3. QED
      <4> HIDE DEF r
      <4>1. BagToSet(wire') \subseteq BagToSet(wire) \cup {r} /\ BagToSet(inbox') \subseteq BagToSet(inbox)
        BY <2>1 DEF r
      <4>2. QED
        BY <1>1, <1>2, <2>1, <3>2, <4>1, MessagesExchange
  <2>6. CASE m.to # Component
    <3>1. m.to = JidOf[m.greeting] /\ m.from = Component /\ m.body # Greeting
      BY <2>1, <2>2, <2>6 DEF Shape
    <3>2. session[JidOf[m.greeting]] = Nobody
      BY <2>1, <2>6, <3>1 DEF Unreachable
    <3>3. pc[m.greeting] \in Left
      BY <2>2, <3>2
    <3>4. Shape(r)'
      <4> HIDE DEF r
      <4>1. pc'[r.greeting] = pc[m.greeting]
        BY <2>1, <2>3
      <4>2. QED
        BY <2>3, <2>6, <3>1, <3>3, <4>1 DEF Shape
    <3>5. QED
      <4> HIDE DEF r
      <4>1. BagToSet(wire') \subseteq BagToSet(wire) \cup {r} /\ BagToSet(inbox') \subseteq BagToSet(inbox)
        BY <2>1 DEF r
      <4>2. QED
        BY <1>1, <1>2, <2>1, <3>4, <4>1, MessagesExchange
  <2>7. QED
    BY <2>5, <2>6
<1>11. ASSUME NEW m \in BagToSet(wire), Discard(m)
       PROVE  ExchangeInv'
  <2>1. Calm /\ UNCHANGED <<inbox, heard>> /\ BagToSet(wire') \subseteq BagToSet(wire)
    BY <1>11, RemovedFromBag DEF Discard
  <2>2. Shape(m)'
    BY <1>2, <2>1, WaitingHolds, ShapeStays
  <2>3. QED
    BY <1>1, <1>2, <2>1, <2>2, MessagesExchange
<1>12. CASE UNCHANGED vars
  <2>1. Calm /\ UNCHANGED <<wire, inbox, heard>>
    BY <1>12 DEF vars
  <2>2. QED
    BY <1>1, <1>2, <2>1, ClientExchange
<1>13. QED
  BY <1>3, <1>4, <1>5, <1>6, <1>7, <1>8, <1>9, <1>10, <1>11, <1>12 DEF Next, Route

LEMMA Exchange == Spec => []ExchangeInv
BY InitExchange, NextExchange, PTL DEF Spec

\* A cookie is returned to the component only when the client whose greeting
\* it answers has left its address, by its own stop or by a later login: the
\* component and a client that stays never answer each other's errors.
THEOREM LeavingTheorem == Spec => []BouncesAfterLeaving
<1>1. ExchangeInv => BouncesAfterLeaving
  BY DEF ExchangeInv, Shape, Left, BouncesAfterLeaving
<1>2. QED
  BY <1>1, Exchange, PTL

\* What a client prints is of a greeting from its own address, and of another
\* run's only when that run has left it.
THEOREM AddressTheorem == Spec => []AnswerIsForAddress
<1>1. ExchangeInv => AnswerIsForAddress
  BY DEF ExchangeInv, HeardInv, Left, AnswerIsForAddress
<1>2. QED
  BY <1>1, Exchange, PTL

-----------------------------------------------------------------------------
(* One message of an exchange.                                               *)

\* What adding and removing a message does to the exchanges of a bag
LEMMA AddOther ==
    ASSUME NEW B, NEW m, NEW c, m.greeting # c
    PROVE  /\ Of(BagAdd(B, m), c) = Of(B, c)
           /\ Single(B, c) => Single(BagAdd(B, m), c)
BY DEF Of, Single, BagAdd, BagToSet

LEMMA AddFirst ==
    ASSUME NEW B, NEW m, Of(B, m.greeting) = {}
    PROVE  /\ Of(BagAdd(B, m), m.greeting) = {m}
           /\ Single(BagAdd(B, m), m.greeting)
BY DEF Of, Single, BagAdd, BagToSet

LEMMA RemoveOther ==
    ASSUME NEW B, NEW m, NEW c, m.greeting # c
    PROVE  /\ Of(BagRemove(B, m), c) = Of(B, c)
           /\ Single(B, c) => Single(BagRemove(B, m), c)
BY DEF Of, Single, BagRemove, BagToSet

LEMMA RemoveOnly ==
    ASSUME NEW B, NEW m \in BagToSet(B), Single(B, m.greeting)
    PROVE  Of(BagRemove(B, m), m.greeting) = {}
BY DEF Of, Single, BagRemove, BagToSet

LEMMA NoneOf ==
    ASSUME NEW c
    PROVE  Of(EmptyBag, c) = {} /\ Single(EmptyBag, c)
BY EmptyBagIsEmpty DEF Of, Single

\* Nothing of c's exchange is anywhere
NothingOf(c) ==
    /\ Of(wire, c) = {} /\ Of(inbox, c) = {}
    /\ \A d \in Clients : Of(heard[d], c) = {}

\* OneAnswer, of one client's exchange
OneOf(c) ==
    /\ Single(wire, c) /\ Single(inbox, c)
    /\ Of(wire, c) = {} \/ Of(inbox, c) = {}
    /\ \A d \in Clients : Of(heard[d], c) # {} =>
        /\ Single(heard[d], c)
        /\ Of(wire, c) = {} /\ Of(inbox, c) = {}
        /\ \A e \in Clients \ {d} : Of(heard[e], c) = {}

\* A client that has yet to greet has no exchange
Unsent == {"off", "failed", "loggedIn", "listening"}

OneInv ==
    /\ TypeOK
    /\ \A c \in Clients : OneOf(c) /\ (pc[c] \in Unsent => NothingOf(c))

LEMMA InitOne == Init => OneInv
<1>1. SUFFICES ASSUME Init PROVE OneInv
  OBVIOUS
<1>2. TypeOK
  BY <1>1, InitType
<1>3. wire = EmptyBag /\ inbox = EmptyBag /\ \A d \in Clients : heard[d] = EmptyBag
  BY <1>1 DEF Init
<1>4. QED
  BY <1>2, <1>3, NoneOf DEF OneInv, OneOf, NothingOf

\* The places of c's exchange stay as they are
Kept(c) ==
    /\ Of(wire', c) = Of(wire, c) /\ (Single(wire, c) => Single(wire', c))
    /\ Of(inbox', c) = Of(inbox, c) /\ (Single(inbox, c) => Single(inbox', c))
    /\ \A d \in Clients : /\ Of(heard'[d], c) = Of(heard[d], c)
                          /\ Single(heard[d], c) => Single(heard'[d], c)

LEMMA KeptOne ==
    ASSUME NEW c \in Clients, Kept(c)
    PROVE  /\ OneOf(c) => OneOf(c)'
           /\ NothingOf(c) => NothingOf(c)'
BY DEF Kept, OneOf, NothingOf

\* An exchange with a message on its way or queued is printed nowhere
LEMMA AliveUnheard ==
    ASSUME NEW c \in Clients, OneOf(c), Of(wire, c) # {} \/ Of(inbox, c) # {}
    PROVE  \A d \in Clients : Of(heard[d], c) = {}
BY DEF OneOf

LEMMA NextOne ==
    ASSUME OneInv, [Next]_vars
    PROVE  OneInv'
<1>1. TypeOK /\ TypeOK' /\ \A c \in Clients : OneOf(c) /\ (pc[c] \in Unsent => NothingOf(c))
  BY NextType DEF OneInv
<1> DEFINE Back == \A c \in Clients : pc'[c] \in Unsent => pc[c] \in Unsent
<1>2. ASSUME UNCHANGED <<wire, inbox, heard>>
      PROVE  \A c \in Clients : Kept(c)
  BY <1>2 DEF Kept
<1>3. ASSUME \A c \in Clients : Kept(c), Back
      PROVE  OneInv'
  BY <1>1, <1>3, KeptOne DEF OneInv
\* One exchange goes on, the others stay
<1>4. ASSUME NEW x \in Clients, \A c \in Clients \ {x} : Kept(c), Back,
             OneOf(x)', pc'[x] \notin Unsent
      PROVE  OneInv'
  BY <1>1, <1>4, KeptOne DEF OneInv
<1>5. ASSUME NEW m \in BagToSet(wire) \cup BagToSet(inbox)
      PROVE  /\ m \in Message /\ m.greeting \in Clients /\ pc[m.greeting] \notin Unsent
             /\ \A d \in Clients : Of(heard[d], m.greeting) = {}
  <2>1. m \in Message /\ m.greeting \in Clients
    BY <1>1 DEF TypeOK, Message
  <2>2. Of(wire, m.greeting) # {} \/ Of(inbox, m.greeting) # {}
    BY DEF Of
  <2>3. QED
    BY <1>1, <2>1, <2>2, AliveUnheard DEF NothingOf
<1>6. CASE AddComponent \/ RefuseComponent
  BY <1>2, <1>3, <1>6 DEF AddComponent, RefuseComponent
<1>7. CASE EndComponent
  <2>1. inbox' = EmptyBag /\ UNCHANGED <<pc, wire, heard>>
    BY <1>7 DEF EndComponent
  <2>2. ASSUME NEW c \in Clients
        PROVE  OneOf(c)' /\ (NothingOf(c) => NothingOf(c)')
    BY <1>1, <2>1, NoneOf DEF OneOf, NothingOf
  <2>3. QED
    BY <1>1, <2>1, <2>2 DEF OneInv
<1>8. ASSUME NEW c \in Clients, Login(c) \/ FailToStart(c) \/ AddPacketListener(c) \/ Stop(c)
      PROVE  OneInv'
  <2>1. UNCHANGED <<wire, inbox, heard>>
    BY <1>8 DEF Login, FailToStart, AddPacketListener, Stop
  <2>2. Back
    BY <1>1, <1>8 DEF TypeOK, Unsent, Login, Bind, FailToStart, AddPacketListener, Stop
  <2>3. QED
    BY <1>2, <1>3, <2>1, <2>2
<1>9. ASSUME NEW c \in Clients, SendGreeting(c)
      PROVE  OneInv'
  <2>1. /\ pc[c] = "listening" /\ pc' = [pc EXCEPT ![c] = "waiting"]
        /\ wire' = BagAdd(wire, GreetingOf(c)) /\ UNCHANGED <<inbox, heard>>
    BY <1>9 DEF SendGreeting, GreetingOf
  <2>2. GreetingOf(c).greeting = c
    BY DEF GreetingOf
  <2>3. NothingOf(c)
    BY <1>1, <2>1 DEF Unsent
  <2>4. Of(wire', c) # {} /\ Single(wire', c)
    BY <2>1, <2>2, <2>3, AddFirst DEF NothingOf
  <2>5. OneOf(c)'
    BY <1>1, <2>1, <2>3, <2>4 DEF OneOf, NothingOf
  <2>6. \A d \in Clients \ {c} : Kept(d)
    BY <2>1, <2>2, AddOther DEF Kept
  <2>7. Back /\ pc'[c] \notin Unsent
    BY <1>1, <2>1 DEF TypeOK, Unsent
  <2>8. QED
    BY <1>4, <2>5, <2>6, <2>7
<1>10. ASSUME NEW m \in BagToSet(inbox), HandleMessage(m)
       PROVE  OneInv'
  <2>1. PICK cookie \in GetCookie : wire' = BagAdd(wire, Response(m, cookie))
    BY <1>10 DEF HandleMessage
  <2>2. inbox' = BagRemove(inbox, m) /\ UNCHANGED <<pc, heard>>
    BY <1>10 DEF HandleMessage
  <2> DEFINE x == m.greeting
  <2>3. x \in Clients /\ pc[x] \notin Unsent /\ \A d \in Clients : Of(heard[d], x) = {}
    BY <1>5
  <2>4. Response(m, cookie).greeting = x
    BY <1>5, ResponseType
  <2>5. Of(inbox, x) # {} /\ Of(wire, x) = {} /\ Single(inbox, x)
    BY <1>1, <2>3 DEF OneOf, Of
  <2>6. Of(inbox', x) = {} /\ Single(inbox', x)
    BY <2>2, <2>5, RemoveOnly DEF Single
  <2>7. Single(wire', x)
    BY <2>1, <2>4, <2>5, AddFirst
  <2>8. OneOf(x)'
    BY <2>2, <2>3, <2>6, <2>7 DEF OneOf
  <2>9. \A c \in Clients \ {x} : Kept(c)
    BY <2>1, <2>2, <2>4, AddOther, RemoveOther DEF Kept
  <2>10. QED
    BY <1>4, <2>2, <2>3, <2>8, <2>9
\* A message leaves the wire
<1>11. ASSUME NEW m \in BagToSet(wire)
       PROVE  /\ Of(wire, m.greeting) # {} /\ Of(inbox, m.greeting) = {}
              /\ Of(BagRemove(wire, m), m.greeting) = {}
              /\ Single(BagRemove(wire, m), m.greeting)
  <2>1. Of(wire, m.greeting) # {} /\ m.greeting \in Clients
    BY <1>5 DEF Of
  <2>2. Single(wire, m.greeting) /\ Of(inbox, m.greeting) = {}
    BY <1>1, <2>1 DEF OneOf
  <2>3. QED
    BY <2>1, <2>2, RemoveOnly DEF Single
<1>12. ASSUME NEW m \in BagToSet(wire), ToComponent(m)
       PROVE  OneInv'
  <2>1. wire' = BagRemove(wire, m) /\ inbox' = BagAdd(inbox, m) /\ UNCHANGED <<pc, heard>>
    BY <1>12 DEF ToComponent
  <2>2. Single(inbox', m.greeting)
    BY <1>11, <2>1, AddFirst
  <2>3. OneOf(m.greeting)'
    BY <1>5, <1>11, <2>1, <2>2 DEF OneOf
  <2>4. \A c \in Clients \ {m.greeting} : Kept(c)
    BY <2>1, AddOther, RemoveOther DEF Kept
  <2>5. QED
    BY <1>4, <1>5, <2>1, <2>3, <2>4
<1>13. ASSUME NEW m \in BagToSet(wire), ProcessPacket(m)
       PROVE  OneInv'
  <2> DEFINE x == m.greeting
             c == session[m.to]
  <2>1. wire' = BagRemove(wire, m) /\ UNCHANGED <<pc, inbox>> /\ m.to \in Jids /\ c # Nobody
    BY <1>13 DEF ProcessPacket
  <2>2. c \in Clients
    BY <1>1, <2>1 DEF TypeOK
  <2>3. ASSUME NEW d \in Clients
        PROVE  \/ heard'[d] = heard[d]
               \/ d = c /\ heard'[d] = BagAdd(heard[d], m)
    <3>1. heard' = heard \/ heard' = [heard EXCEPT ![c] = BagAdd(@, m)]
      BY <1>13 DEF ProcessPacket
    <3>2. QED
      BY <1>1, <3>1 DEF TypeOK
  <2>4. ASSUME NEW d \in Clients
        PROVE  Single(heard'[d], x) /\ (d # c => Of(heard'[d], x) = {})
    <3>1. Of(heard[d], x) = {} /\ Single(heard[d], x)
      BY <1>5 DEF Single
    <3>2. CASE heard'[d] = heard[d]
      BY <3>1, <3>2
    <3>3. CASE d = c /\ heard'[d] = BagAdd(heard[d], m)
      BY <3>1, <3>3, AddFirst
    <3>4. QED
      BY <2>3, <3>2, <3>3
  <2>5. OneOf(x)'
    BY <1>5, <1>11, <2>1, <2>4 DEF OneOf, Single
  <2>6. \A d \in Clients \ {x} : Kept(d)
    BY <2>1, <2>3, AddOther, RemoveOther DEF Kept
  <2>7. QED
    BY <1>4, <1>5, <2>1, <2>5, <2>6
<1>14. ASSUME NEW m \in BagToSet(wire), Bounce(m)
       PROVE  OneInv'
  <2>1. wire' = BagAdd(BagRemove(wire, m), Returned(m)) /\ UNCHANGED <<pc, inbox, heard>>
    BY <1>14 DEF Bounce, Returned
  <2>2. Returned(m).greeting = m.greeting
    BY <1>5, <1>14, ReturnedType DEF Bounce
  <2>3. Single(wire', m.greeting)
    BY <1>11, <2>1, <2>2, AddFirst
  <2>4. OneOf(m.greeting)'
    BY <1>5, <1>11, <2>1, <2>3, NoneOf DEF OneOf, Single
  <2>5. \A c \in Clients \ {m.greeting} : Kept(c)
    BY <2>1, <2>2, AddOther, RemoveOther DEF Kept
  <2>6. QED
    BY <1>4, <1>5, <2>1, <2>4, <2>5
<1>15. ASSUME NEW m \in BagToSet(wire), Discard(m)
       PROVE  OneInv'
  <2>1. wire' = BagRemove(wire, m) /\ UNCHANGED <<pc, inbox, heard>>
    BY <1>15 DEF Discard
  <2>2. OneOf(m.greeting)'
    BY <1>5, <1>11, <2>1 DEF OneOf, Single
  <2>3. \A c \in Clients \ {m.greeting} : Kept(c)
    BY <2>1, RemoveOther DEF Kept
  <2>4. QED
    BY <1>4, <1>5, <2>1, <2>2, <2>3
<1>16. CASE UNCHANGED vars
  BY <1>2, <1>3, <1>16 DEF vars
<1>17. QED
  BY <1>6, <1>7, <1>8, <1>9, <1>10, <1>12, <1>13, <1>14, <1>15, <1>16 DEF Next, Route

\* A greeting is answered once at most: of its exchange there is never more
\* than one message, whether it is on its way, with the component's workers,
\* returned by the server or printed by whoever holds the address by then.
THEOREM OneAnswerTheorem == Spec => []OneAnswer
<1>1. OneInv => OneAnswer
  BY DEF OneInv, OneOf, OneAnswer
<1>2. OneInv /\ [Next]_vars => OneInv'
  BY NextOne
<1>3. QED
  BY <1>1, <1>2, InitOne, PTL DEF Spec

=============================================================================
