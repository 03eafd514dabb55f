----------------------------- MODULE Page_proofs -----------------------------
(* Proofs about the page as its users meet it: its own script (SeedClient),  *)
(* for any users and any number of logins; and of PageParts the touches that *)
(* jQuery Mobile makes clicks of (JQueryMobileTouch), for any page, any      *)
(* handlers bound on it and any number of gestures, and the requests of      *)
(* jQuery (JQueryAjax), for any number of them and any types of data.        *)
(*                                                                           *)
(* The inductive invariants are PageInv, TouchInv and AjaxInv.               *)
EXTENDS SeedClient, PageParts, SequenceTheorems, FiniteSetTheorems, TLAPS

-----------------------------------------------------------------------------
(* The page's own script                                                     *)

\* What replaces connections by connections is a sequence of them again.
LEMMA UpdateSeq ==
    ASSUME NEW cs \in Seq(Connection), NEW f \in [DOMAIN cs -> Connection]
    PROVE  /\ f \in Seq(Connection)
           /\ Len(f) = Len(cs)
           /\ DOMAIN f = DOMAIN cs
<1>1. Len(cs) \in Nat /\ DOMAIN cs = 1..Len(cs)
  OBVIOUS
<1>2. f \in [1..Len(cs) -> Connection]
  BY <1>1
<1>3. f \in Seq(Connection)
  BY <1>1, <1>2
<1>4. QED
  BY <1>1, <1>2, <1>3

\* A connection that becomes something else keeps its page and its user, and
\* waits for nothing new.
LEMMA BecomeType ==
    ASSUME TypeOK, NEW c \in DOMAIN conns, NEW s, Become(c, s),
           s \in {"refused", "closing", "ended"}
    PROVE  /\ conns' \in Seq(Connection)
           /\ Len(conns') = Len(conns)
           /\ DOMAIN conns' = DOMAIN conns
           /\ \A d \in DOMAIN conns :
                /\ conns'[d].page = conns[d].page
                /\ conns'[d].user = conns[d].user
                /\ conns'[d].state = IF d = c THEN s ELSE conns[d].state
                /\ conns'[d].asked \subseteq conns[d].asked
<1>0. conns \in Seq(Connection)
  BY DEF TypeOK
<1>1. \A d \in DOMAIN conns : conns[d] \in Connection
  BY <1>0
<1>2. conns' \in [DOMAIN conns -> Connection]
  BY <1>1 DEF Become, Connection
<1>4. /\ conns' \in Seq(Connection)
      /\ Len(conns') = Len(conns)
      /\ DOMAIN conns' = DOMAIN conns
  BY <1>0, <1>2, UpdateSeq
<1>5. QED
  BY <1>1, <1>4 DEF Become, Connection

\* disconnect() does so to one connection, or to none.
LEMMA DisconnectType ==
    ASSUME NEW cs \in Seq(Connection), NEW c \in DOMAIN cs,
           NEW ds \in Disconnect(cs, c)
    PROVE  /\ ds \in Seq(Connection)
           /\ Len(ds) = Len(cs)
           /\ DOMAIN ds = DOMAIN cs
           /\ \A d \in DOMAIN cs :
                /\ ds[d].page = cs[d].page
                /\ ds[d].user = cs[d].user
                /\ ds[d].asked = cs[d].asked
                /\ d # c => ds[d].state = cs[d].state
           /\ ds[c].state =
                IF cs[c].state = "ended" THEN "ended"
                ELSE IF cs[c].state # "connecting" THEN "closing"
                ELSE ds[c].state
           /\ cs[c].state = "connecting" => ds[c].state \in {"connecting", "closing"}
<1>1. \A d \in DOMAIN cs : cs[d] \in Connection
  OBVIOUS
<1>2. PICK s \in {"connecting", "closing", "ended"} :
        /\ ds = [cs EXCEPT ![c].state = s]
        /\ cs[c].state = "connecting" => s \in {"connecting", "closing"}
        /\ cs[c].state = "ended" => s = "ended"
        /\ cs[c].state \notin {"connecting", "ended"} => s = "closing"
  BY DEF Disconnect
<1>3. ds \in [DOMAIN cs -> Connection]
  BY <1>1, <1>2 DEF Connection
<1>4. /\ ds \in Seq(Connection)
      /\ Len(ds) = Len(cs)
      /\ DOMAIN ds = DOMAIN cs
  BY <1>3, UpdateSeq
<1>5. QED
  BY <1>1, <1>2, <1>4 DEF Connection

\* A new connection leaves the others alone.
LEMMA NewType ==
    ASSUME TypeOK, NEW page \in {"seed", "hello"}, NEW u \in Users, New(page, u)
    PROVE  /\ conns' \in Seq(Connection)
           /\ Len(conns') = Len(conns) + 1
           /\ DOMAIN conns' = 1..(Len(conns) + 1)
           /\ DOMAIN conns = 1..Len(conns)
           /\ \A d \in DOMAIN conns : conns'[d] = conns[d]
           /\ conns'[Len(conns')] =
                [page |-> page, user |-> u, state |-> "connecting", asked |-> {}]
<1>1. [page |-> page, user |-> u, state |-> "connecting", asked |-> {}]
        \in Connection
  BY DEF Connection
<1>2. conns \in Seq(Connection)
  BY DEF TypeOK
<1>3. QED
  BY <1>1, <1>2 DEF New

\* Connecting puts a connection online, and at most adds a ping.
LEMMA ConnectedType ==
    ASSUME TypeOK, NEW c \in DOMAIN conns, Connected(c)
    PROVE  /\ conns' \in Seq(Connection)
           /\ Len(conns') = Len(conns)
           /\ DOMAIN conns' = DOMAIN conns
           /\ \A d \in DOMAIN conns :
                /\ conns'[d].page = conns[d].page
                /\ conns'[d].user = conns[d].user
                /\ conns'[d].state = IF d = c THEN "online" ELSE conns[d].state
                /\ conns'[d].asked \subseteq conns[d].asked \cup {"ping"}
<1>0. conns \in Seq(Connection)
  BY DEF TypeOK
<1>1. \A d \in DOMAIN conns : conns[d] \in Connection
  BY <1>0
<1> DEFINE Changed(d) ==
             [page |-> conns[d].page, user |-> conns[d].user,
              state |-> IF d = c THEN "online" ELSE conns[d].state,
              asked |-> conns'[d].asked]
<1>2. CASE OnConnected(c)
  <2>1. \A d \in DOMAIN conns :
           conns'[d] = Changed(d) /\ conns'[d].asked = conns[d].asked
    BY <1>1, <1>2 DEF OnConnected, Connection
  <2>2. conns' \in [DOMAIN conns -> Connection]
    BY <1>1, <1>2 DEF OnConnected, Connection
  <2>3. QED
    BY <1>0, <1>1, <2>1, <2>2, UpdateSeq
<1>3. CASE HelloConnected(c)
  <2>1. \A d \in DOMAIN conns :
           /\ conns'[d] = Changed(d)
           /\ conns'[d].asked \in {conns[d].asked, conns[d].asked \cup {"ping"}}
    BY <1>1, <1>3 DEF HelloConnected, Connection
  <2>2. \A d \in DOMAIN conns : conns'[d].asked \subseteq {"communities", "ping"}
    <3>1. \A d \in DOMAIN conns : conns[d].asked \subseteq {"communities", "ping"}
      BY <1>1 DEF Connection
    <3>2. QED
      BY <2>1, <3>1
  <2>3. \A d \in DOMAIN conns : Changed(d) \in Connection
    BY <1>1, <2>2 DEF Connection
  <2>4. conns' \in [DOMAIN conns -> Connection]
    <3>1. conns' = [d \in DOMAIN conns |-> conns'[d]]
      BY <1>3 DEF HelloConnected
    <3>2. \A d \in DOMAIN conns : conns'[d] \in Connection
      BY <2>1, <2>3
    <3>3. QED
      BY <3>1, <3>2
  <2>5. QED
    BY <1>0, <1>1, <2>1, <2>4, UpdateSeq
<1>4. QED
  BY <1>2, <1>3 DEF Connected

WithAsked(cs, d, A) == [cs EXCEPT ![d].asked = A]

\* The handlers of connection d may be added to or called.
LEMMA AskedType ==
    ASSUME NEW cs \in Seq(Connection), NEW d \in DOMAIN cs,
           NEW A \in SUBSET {"communities", "ping"}, NEW ds,
           ds = WithAsked(cs, d, A)
    PROVE  /\ ds \in Seq(Connection)
           /\ Len(ds) = Len(cs)
           /\ DOMAIN ds = DOMAIN cs
           /\ \A e \in DOMAIN cs :
                /\ ds[e].page = cs[e].page
                /\ ds[e].user = cs[e].user
                /\ ds[e].state = cs[e].state
                /\ ds[e].asked = IF e = d THEN A ELSE cs[e].asked
<1>1. \A e \in DOMAIN cs : cs[e] \in Connection
  OBVIOUS
<1>2. ds \in [DOMAIN cs -> Connection]
  BY <1>1 DEF Connection, WithAsked
<1>3. /\ ds \in Seq(Connection)
      /\ Len(ds) = Len(cs)
      /\ DOMAIN ds = DOMAIN cs
  BY <1>2, UpdateSeq
<1>4. QED
  BY <1>1, <1>3 DEF Connection, WithAsked

\* A click on "Discover communities" asks on the manager's connection, if any.
LEMMA DiscoverType ==
    ASSUME TypeOK, DiscoverCommunities
    PROVE  /\ conns' \in Seq(Connection)
           /\ Len(conns') = Len(conns)
           /\ DOMAIN conns' = DOMAIN conns
           /\ \A e \in DOMAIN conns :
                /\ conns'[e].page = conns[e].page
                /\ conns'[e].user = conns[e].user
                /\ conns'[e].state = conns[e].state
                /\ e # manager => conns'[e].asked = conns[e].asked
<1>1. conns \in Seq(Connection) /\ manager \in 0..Len(conns)
  BY DEF TypeOK
<1>2. conns' = [conns EXCEPT ![manager].asked = @ \cup {"communities"}]
  BY DEF DiscoverCommunities
<1>3. CASE manager = 0
  <2>1. manager \notin DOMAIN conns
    BY <1>1, <1>3
  <2>2. conns' = conns
    BY <1>1, <1>2, <2>1
  <2>3. QED
    BY <1>1, <2>2
<1>4. CASE manager # 0
  <2>1. manager \in DOMAIN conns
    BY <1>1, <1>4
  <2>2. conns[manager].asked \cup {"communities"}
          \in SUBSET {"communities", "ping"}
    <3>1. conns[manager] \in Connection
      BY <1>1, <2>1
    <3>2. conns[manager].asked \subseteq {"communities", "ping"}
      BY <3>1 DEF Connection
    <3>3. QED
      BY <3>2
  <2>3. conns' = WithAsked(conns, manager,
                           conns[manager].asked \cup {"communities"})
    BY <1>2 DEF WithAsked
  <2>4. QED
    BY <1>1, <2>1, <2>2, <2>3, AskedType
<1>5. QED
  BY <1>3, <1>4

\* The list's answer takes the question off its connection.
LEMMA ListType ==
    ASSUME TypeOK, NEW c \in DOMAIN conns, OnDiscoverCommunities(c)
    PROVE  /\ conns' \in Seq(Connection)
           /\ Len(conns') = Len(conns)
           /\ DOMAIN conns' = DOMAIN conns
           /\ \A e \in DOMAIN conns :
                /\ conns'[e].page = conns[e].page
                /\ conns'[e].user = conns[e].user
                /\ conns'[e].state = conns[e].state
                /\ conns'[e].asked \subseteq conns[e].asked
<1>1. conns \in Seq(Connection)
  BY DEF TypeOK
<1>2. conns[c].asked \ {"communities"} \in SUBSET {"communities", "ping"}
  <2>1. conns[c] \in Connection
    BY <1>1
  <2>2. conns[c].asked \subseteq {"communities", "ping"}
    BY <2>1 DEF Connection
  <2>3. QED
    BY <2>2
<1>3. conns' = WithAsked(conns, c, conns[c].asked \ {"communities"})
  BY DEF OnDiscoverCommunities, WithAsked
<1>4. /\ conns' \in Seq(Connection)
      /\ Len(conns') = Len(conns)
      /\ DOMAIN conns' = DOMAIN conns
      /\ \A e \in DOMAIN conns :
           /\ conns'[e].page = conns[e].page
           /\ conns'[e].user = conns[e].user
           /\ conns'[e].state = conns[e].state
           /\ conns'[e].asked = IF e = c THEN conns[c].asked \ {"communities"}
                                ELSE conns[e].asked
  BY <1>1, <1>2, <1>3, AskedType
<1>5. QED
  BY <1>4

\* A pong ends the connection that Hello holds, if any.
LEMMA PongType ==
    ASSUME TypeOK, NEW c \in DOMAIN conns, HandlePong(c)
    PROVE  /\ conns' \in Seq(Connection)
           /\ Len(conns') = Len(conns)
           /\ DOMAIN conns' = DOMAIN conns
           /\ \A e \in DOMAIN conns :
                /\ conns'[e].page = conns[e].page
                /\ conns'[e].user = conns[e].user
                /\ e # hello => conns'[e].state = conns[e].state
                /\ conns'[e].asked \subseteq conns[e].asked
<1> DEFINE answered == WithAsked(conns, c, conns[c].asked \ {"ping"})
<1>1. conns \in Seq(Connection) /\ hello \in 0..Len(conns)
  BY DEF TypeOK
<1>2. conns[c].asked \ {"ping"} \in SUBSET {"communities", "ping"}
  <2>1. conns[c] \in Connection
    BY <1>1
  <2>2. conns[c].asked \subseteq {"communities", "ping"}
    BY <2>1 DEF Connection
  <2>3. QED
    BY <2>2
<1>3. /\ answered \in Seq(Connection)
      /\ Len(answered) = Len(conns)
      /\ DOMAIN answered = DOMAIN conns
      /\ \A e \in DOMAIN conns :
           /\ answered[e].page = conns[e].page
           /\ answered[e].user = conns[e].user
           /\ answered[e].state = conns[e].state
           /\ answered[e].asked = IF e = c THEN conns[c].asked \ {"ping"}
                                  ELSE conns[e].asked
  BY <1>1, <1>2, AskedType
<1>4. conns' \in IF hello = 0 THEN {answered} ELSE Disconnect(answered, hello)
  BY DEF HandlePong, WithAsked
<1> HIDE DEF answered
<1>5. CASE hello = 0
  BY <1>3, <1>4, <1>5
<1>6. CASE hello # 0
  <2>1. hello \in DOMAIN answered
    BY <1>1, <1>3, <1>6
  <2>2. conns' \in Disconnect(answered, hello)
    BY <1>4, <1>6
  <2>3. /\ conns' \in Seq(Connection)
        /\ Len(conns') = Len(answered)
        /\ DOMAIN conns' = DOMAIN answered
        /\ \A d \in DOMAIN answered :
             /\ conns'[d].page = answered[d].page
             /\ conns'[d].user = answered[d].user
             /\ conns'[d].asked = answered[d].asked
             /\ d # hello => conns'[d].state = answered[d].state
    BY <1>3, <2>1, <2>2, DisconnectType
  <2>4. QED
    BY <1>3, <2>3
<1>7. QED
  BY <1>5, <1>6

-----------------------------------------------------------------------------

LEMMA TypeStep ==
    ASSUME TypeOK, Owners, [Next]_vars PROVE TypeOK'
<1>a. /\ conns \in Seq(Connection)
      /\ jid \in Users \cup {"none"} /\ feedback \in Feedback
      /\ header \in Users \cup {"Societies"}
      /\ pages \in BOOLEAN /\ dialog \in BOOLEAN /\ crossing \in BOOLEAN
      /\ overlapped \subseteq {"seed", "hello"}
  BY DEF TypeOK
<1>b. /\ client \in 0..Len(conns) /\ manager \in 0..Len(conns)
      /\ content \in 0..Len(conns) /\ hello \in 0..Len(conns)
      /\ askedOn \in 0..Len(conns)
  BY DEF TypeOK
<1>c. Len(conns) \in Nat /\ DOMAIN conns = 1..Len(conns)
  BY <1>a
<1> USE DEF TypeOK, seedVars, helloVars
<1>1. ASSUME NEW u \in Users, Login(u) PROVE TypeOK'
  <2>1. New("seed", u)
    BY <1>1 DEF Login
  <2>2. conns' \in Seq(Connection) /\ Len(conns') = Len(conns) + 1
    BY <2>1, NewType
  <2>3. overlapped' \subseteq {"seed", "hello"}
    BY <1>a, <1>b, <1>c, <2>1 DEF New
  <2>4. crossing' \in BOOLEAN
    BY <1>1 DEF Login
  <2>a. \A i \in 0..Len(conns) : i \in 0..Len(conns')
    BY <1>c, <2>2
  <2>b. Len(conns') \in 0..Len(conns')
    BY <1>c, <2>2
  <2>5. QED
    BY <1>a, <1>b, <1>1, <2>2, <2>3, <2>4, <2>a, <2>b DEF Login, Feedback
<1>2. ASSUME NEW u \in Users, XmppConnect(u) PROVE TypeOK'
  <2>1. New("hello", u)
    BY <1>2 DEF XmppConnect
  <2>2. conns' \in Seq(Connection) /\ Len(conns') = Len(conns) + 1
    BY <2>1, NewType
  <2>3. overlapped' \subseteq {"seed", "hello"}
    BY <1>a, <1>b, <1>c, <2>1 DEF New
  <2>a. \A i \in 0..Len(conns) : i \in 0..Len(conns')
    BY <1>c, <2>2
  <2>b. Len(conns') \in 0..Len(conns')
    BY <1>c, <2>2
  <2>4. QED
    BY <1>a, <1>b, <1>2, <2>2, <2>3, <2>a, <2>b DEF XmppConnect
<1>3. CASE Logout
  <2>1. conns' \in Seq(Connection) /\ Len(conns') = Len(conns)
    <3>1. CASE client = 0
      BY <1>a, <1>b, <1>c, <1>3, <3>1 DEF Logout
    <3>2. CASE client # 0
      BY <1>a, <1>b, <1>c, <1>3, <3>2, DisconnectType DEF Logout
    <3>3. QED
      BY <3>1, <3>2
  <2>2. QED
    BY <1>a, <1>b, <1>c, <1>3, <2>1 DEF Logout, OnDisconnect, Feedback
<1>4. CASE DiscoverCommunities
  <2>1. conns' \in Seq(Connection) /\ Len(conns') = Len(conns)
    BY <1>4, DiscoverType
  <2>2. QED
    BY <1>a, <1>b, <1>c, <1>4, <2>1 DEF DiscoverCommunities
<1>5. CASE XmppConnectionRef
  BY <1>a, <1>b, <1>c, <1>5 DEF XmppConnectionRef
<1>6. ASSUME NEW c \in DOMAIN conns, Connected(c) PROVE TypeOK'
  <2>1. conns' \in Seq(Connection) /\ Len(conns') = Len(conns)
    BY <1>6, ConnectedType
  <2>2. CASE OnConnected(c)
    <3>1. client # 0
      BY <1>a, <1>b, <1>c, <1>6, <2>2 DEF Owners, In, Open, OnConnected, Connected
    <3>2. client \in DOMAIN conns /\ jid = conns[client].user
      BY <1>a, <1>b, <1>c, <3>1 DEF Owners
    <3>3. conns[client] \in Connection
      BY <1>a, <1>b, <1>c, <3>2
    <3>4. jid \in Users
      BY <3>2, <3>3 DEF Connection
    <3>5. QED
      BY <1>a, <1>b, <1>c, <2>1, <2>2, <3>4 DEF OnConnected, Feedback
  <2>3. CASE HelloConnected(c)
    BY <1>a, <1>b, <1>c, <2>1, <2>3 DEF HelloConnected
  <2>4. QED
    BY <1>6, <2>2, <2>3 DEF Connected
<1>7. ASSUME NEW c \in DOMAIN conns,
             Refuse(c) \/ FailToConnect(c) \/ Lose(c) \/ Close(c)
      PROVE  TypeOK'
  <2>1. conns' \in Seq(Connection) /\ Len(conns') = Len(conns)
    BY <1>7, BecomeType DEF Refuse, FailToConnect, Lose, Close
  <2>2. feedback' \in Feedback /\ hello' \in {hello, 0}
    BY <1>a, <1>b, <1>c, <1>7
    DEF Refuse, FailToConnect, Lose, Close, Told, Untold, Feedback
  <2>3. Still
    BY <1>7 DEF Refuse, FailToConnect, Lose, Close
  <2>4. QED
    BY <1>a, <1>b, <1>c, <2>1, <2>2, <2>3 DEF Still
<1>8. ASSUME NEW c \in DOMAIN conns, OnDiscoverCommunities(c) PROVE TypeOK'
  <2>1. conns' \in Seq(Connection) /\ Len(conns') = Len(conns)
    BY <1>8, ListType
  <2>2. QED
    BY <1>a, <1>b, <1>c, <1>8, <2>1 DEF OnDiscoverCommunities
<1>9. ASSUME NEW c \in DOMAIN conns, HandlePong(c) PROVE TypeOK'
  <2>1. conns' \in Seq(Connection) /\ Len(conns') = Len(conns)
    BY <1>9, PongType
  <2>2. QED
    BY <1>a, <1>b, <1>c, <1>9, <2>1 DEF HandlePong
<1>10. CASE UNCHANGED vars
  BY <1>a, <1>b, <1>c, <1>10 DEF vars
<1>11. QED
  BY <1>1, <1>2, <1>3, <1>4, <1>5, <1>6, <1>7, <1>8, <1>9, <1>10
  DEF Next, Click, Call

-----------------------------------------------------------------------------

\* The first state has no connections and no pages.
LEMMA PageInit == Init => PageInv
BY DEF Init, PageInv, Owners, OnlyClient, OldEnded, AskedInv, SessionShown,
       NoneLeftOnline, FeedbackTells, ListIsOwn, In

\* A step of the page keeps what its connections, names and texts agree on.
LEMMA PageStep ==
    ASSUME TypeOK, PageInv, [Next]_vars PROVE PageInv'
<1>a. conns \in Seq(Connection)
  BY DEF TypeOK
<1>b. /\ client \in 0..Len(conns) /\ manager \in 0..Len(conns)
      /\ content \in 0..Len(conns) /\ hello \in 0..Len(conns)
      /\ askedOn \in 0..Len(conns)
  BY DEF TypeOK
<1>c. Len(conns) \in Nat /\ DOMAIN conns = 1..Len(conns)
  BY <1>a
<1>d. \A c \in DOMAIN conns : conns[c] \in Connection
  BY <1>a
<1>e. \A c \in DOMAIN conns :
         conns[c].state \in {"connecting", "refused", "online", "closing", "ended"}
  BY <1>d DEF Connection
<1> USE DEF PageInv, seedVars, helloVars
<1>1. ASSUME NEW u \in Users, Login(u) PROVE PageInv'
  <2>1. New("seed", u)
    BY <1>1 DEF Login
  <2>2. /\ Len(conns') = Len(conns) + 1
        /\ DOMAIN conns' = 1..(Len(conns) + 1)
        /\ \A d \in DOMAIN conns : conns'[d] = conns[d]
        /\ conns'[Len(conns')] =
             [page |-> "seed", user |-> u, state |-> "connecting", asked |-> {}]
    BY <2>1, NewType
  <2>3. /\ client' = Len(conns') /\ jid' = u /\ feedback' = "Connecting"
        /\ crossing' = (crossing \/ In("seed", {"connecting"}))
        /\ UNCHANGED <<manager, header, pages, content, hello, askedOn>>
        /\ ~pages
    BY <1>1 DEF Login
  <2>4. /\ overlapped \subseteq overlapped'
        /\ In("seed", Open) => "seed" \in overlapped'
    BY <2>1 DEF New
  <2>5. \A d \in DOMAIN conns' : d \in DOMAIN conns \/ d = Len(conns')
    BY <1>c, <2>2
  <2>6. crossing' => "seed" \in overlapped'
    BY <2>3, <2>4 DEF In, Open
  <2>7. Owners'
    BY <1>b, <1>c, <2>2, <2>3 DEF Owners
  <2>8. OnlyClient'
    BY <2>2, <2>3, <2>5 DEF OnlyClient, NoneLeftOnline, In
  <2>9. OldEnded'
    BY <1>e, <2>2, <2>3, <2>4, <2>5 DEF OldEnded, In, Open
  <2>10. AskedInv'
    BY <2>2, <2>3, <2>4, <2>5 DEF AskedInv
  <2>11. SessionShown' /\ NoneLeftOnline' /\ FeedbackTells' /\ ListIsOwn'
    <3>1. SessionShown'
      BY <2>3 DEF SessionShown
    <3>2. NoneLeftOnline'
      <4>1. SUFFICES ASSUME ~crossing, NEW d \in DOMAIN conns'
                     PROVE  ~(conns'[d].page = "seed" /\ conns'[d].state = "online")
        BY <2>3 DEF NoneLeftOnline, In
      <4>2. CASE d \in DOMAIN conns
        BY <2>2, <2>3, <4>1, <4>2 DEF NoneLeftOnline, In
      <4>3. CASE d = Len(conns')
        BY <2>2, <4>3
      <4>4. QED
        BY <2>5, <4>2, <4>3
    <3>3. FeedbackTells'
      BY <2>2, <2>3 DEF FeedbackTells
    <3>4. ListIsOwn'
      BY <2>3, <2>4 DEF ListIsOwn
    <3>5. QED
      BY <3>1, <3>2, <3>3, <3>4
  <2>12. QED
    BY <2>6, <2>7, <2>8, <2>9, <2>10, <2>11
<1>2. ASSUME NEW u \in Users, XmppConnect(u) PROVE PageInv'
  <2>1. New("hello", u)
    BY <1>2 DEF XmppConnect
  <2>2. /\ Len(conns') = Len(conns) + 1
        /\ DOMAIN conns' = 1..(Len(conns) + 1)
        /\ \A d \in DOMAIN conns : conns'[d] = conns[d]
        /\ conns'[Len(conns')] =
             [page |-> "hello", user |-> u, state |-> "connecting", asked |-> {}]
    BY <2>1, NewType
  <2>3. /\ hello' = Len(conns')
        /\ UNCHANGED <<client, jid, manager, feedback, header, pages, content,
                       askedOn, crossing>>
    BY <1>2 DEF XmppConnect
  <2>4. "seed" \in overlapped' <=> "seed" \in overlapped
    BY <2>1 DEF New
  <2>5. \A d \in DOMAIN conns' : d \in DOMAIN conns \/ d = Len(conns')
    BY <1>c, <2>2
  <2>6. Owners'
    BY <1>b, <1>c, <2>2, <2>3, <2>5 DEF Owners, In
  <2>7. OnlyClient' /\ OldEnded' /\ AskedInv'
    BY <2>2, <2>3, <2>4, <2>5 DEF OnlyClient, OldEnded, AskedInv
  <2>8. SessionShown' /\ NoneLeftOnline' /\ FeedbackTells' /\ ListIsOwn'
    BY <1>b, <1>c, <2>2, <2>3, <2>4, <2>5
    DEF SessionShown, NoneLeftOnline, FeedbackTells, ListIsOwn, In
  <2>9. QED
    BY <2>3, <2>4, <2>6, <2>7, <2>8
<1>3. CASE Logout
  <2>1. client # 0 /\ client \in DOMAIN conns /\ conns[client].page = "seed"
    BY <1>b, <1>c, <1>3 DEF Logout, Owners
  <2>2. /\ DOMAIN conns' = DOMAIN conns
        /\ \A d \in DOMAIN conns :
             /\ conns'[d].page = conns[d].page
             /\ conns'[d].user = conns[d].user
             /\ conns'[d].asked = conns[d].asked
             /\ d # client => conns'[d].state = conns[d].state
        /\ conns[client].state = "ended" => conns'[client].state = "ended"
        /\ conns[client].state \notin {"connecting", "ended"}
             => conns'[client].state = "closing"
        /\ conns[client].state = "connecting"
             => conns'[client].state \in {"connecting", "closing"}
    <3>1. conns' \in Disconnect(conns, client)
      BY <1>3, <2>1 DEF Logout
    <3>2. QED
      BY <1>a, <2>1, <3>1, DisconnectType
  <2>3. /\ feedback' = "Disconnecting" /\ ~pages' /\ pages
        /\ UNCHANGED <<client, jid, manager, content, hello, askedOn, overlapped,
                       crossing>>
    BY <1>3, <2>1 DEF Logout, OnDisconnect
  <2>4. ~crossing => conns'[client].state \in {"closing", "ended"}
    BY <2>2, <2>3 DEF SessionShown
  <2>5. Owners'
    BY <1>b, <1>c, <2>1, <2>2, <2>3 DEF Owners
  <2>6. OnlyClient' /\ OldEnded' /\ AskedInv'
    BY <2>1, <2>2, <2>3 DEF OnlyClient, OldEnded, AskedInv
  <2>7. SessionShown' /\ ListIsOwn'
    BY <2>3 DEF SessionShown, ListIsOwn
  <2>8. NoneLeftOnline'
    BY <2>2, <2>3, <2>4 DEF NoneLeftOnline, OnlyClient, In
  <2>9. FeedbackTells'
    BY <2>3, <2>4 DEF FeedbackTells
  <2>10. QED
    BY <2>3, <2>5, <2>6, <2>7, <2>8, <2>9
<1>4. CASE DiscoverCommunities
  <2>1. /\ DOMAIN conns' = DOMAIN conns
        /\ \A e \in DOMAIN conns :
             /\ conns'[e].page = conns[e].page
             /\ conns'[e].user = conns[e].user
             /\ conns'[e].state = conns[e].state
             /\ e # manager => conns'[e].asked = conns[e].asked
    BY <1>4, DiscoverType
  <2>2. /\ pages /\ content' = 0 /\ askedOn' = manager
        /\ UNCHANGED <<client, jid, manager, feedback, header, pages, hello,
                       overlapped, crossing>>
    BY <1>4 DEF DiscoverCommunities
  <2>3. manager \in DOMAIN conns /\ conns[manager].page = "seed"
    BY <1>b, <1>c, <2>2 DEF Owners
  <2>4. "seed" \notin overlapped => manager = client
    BY <2>2 DEF SessionShown
  <2>5. Owners' /\ OnlyClient' /\ OldEnded'
    BY <1>b, <1>c, <2>1, <2>2 DEF Owners, OnlyClient, OldEnded, In
  <2>6. AskedInv'
    <3>1. SUFFICES ASSUME NEW e \in DOMAIN conns,
                          "communities" \in conns'[e].asked
                   PROVE  /\ conns[e].page = "seed"
                          /\ \/ e = manager \/ conns[e].state = "ended"
                             \/ "seed" \in overlapped
      BY <2>1, <2>2 DEF AskedInv
    <3>2. CASE e = manager
      BY <2>3, <3>2
    <3>3. CASE e # manager
      <4>1. conns[e].page = "seed"
        BY <2>1, <3>1, <3>3 DEF AskedInv
      <4>2. QED
        BY <2>4, <3>3, <4>1 DEF OldEnded
    <3>4. QED
      BY <3>2, <3>3
  <2>7. SessionShown' /\ NoneLeftOnline' /\ FeedbackTells' /\ ListIsOwn'
    BY <1>b, <1>c, <2>1, <2>2
    DEF SessionShown, NoneLeftOnline, FeedbackTells, ListIsOwn, In
  <2>8. QED
    BY <2>2, <2>5, <2>6, <2>7
<1>5. CASE XmppConnectionRef
  BY <1>5 DEF XmppConnectionRef, Owners, OnlyClient, OldEnded, AskedInv,
     SessionShown, NoneLeftOnline, FeedbackTells, ListIsOwn, In
<1>6. ASSUME NEW c \in DOMAIN conns, Connected(c) PROVE PageInv'
  <2>1. /\ DOMAIN conns' = DOMAIN conns
        /\ \A d \in DOMAIN conns :
             /\ conns'[d].page = conns[d].page
             /\ conns'[d].user = conns[d].user
             /\ conns'[d].state = IF d = c THEN "online" ELSE conns[d].state
             /\ conns'[d].asked \subseteq conns[d].asked \cup {"ping"}
    BY <1>6, ConnectedType
  <2>2. /\ conns[c].state = "connecting"
        /\ UNCHANGED <<client, jid, content, hello, askedOn, overlapped, crossing>>
    BY <1>6 DEF Connected, OnConnected, HelloConnected
  <2>3. AskedInv'
    BY <2>1, <2>2 DEF AskedInv
  <2>4. ListIsOwn'
    BY <2>2 DEF ListIsOwn
  <2>5. CASE OnConnected(c)
    <3>1. /\ conns[c].page = "seed" /\ manager' = client /\ pages'
          /\ feedback' = "Connected" /\ header' = jid
      BY <2>5 DEF OnConnected
    <3>2. client # 0
      BY <2>2, <3>1 DEF Owners, In, Open
    <3>3. client \in DOMAIN conns
      BY <1>b, <1>c, <3>2
    <3>4. ~crossing => c = client
      BY <2>2, <3>1 DEF OnlyClient
    <3>5. Owners'
      BY <1>b, <1>c, <2>1, <2>2, <3>1, <3>2, <3>3 DEF Owners
    <3>6. OnlyClient' /\ OldEnded'
      BY <2>1, <2>2, <3>1, <3>4 DEF OnlyClient, OldEnded
    <3>7. SessionShown' /\ NoneLeftOnline' /\ FeedbackTells'
      BY <2>1, <2>2, <3>1, <3>2, <3>3, <3>4
      DEF SessionShown, NoneLeftOnline, FeedbackTells, Owners
    <3>8. QED
      BY <2>2, <2>3, <2>4, <3>5, <3>6, <3>7
  <2>6. CASE HelloConnected(c)
    <3>1. /\ conns[c].page = "hello"
          /\ UNCHANGED <<manager, pages, feedback, header>>
      BY <2>6 DEF HelloConnected
    <3>2. \A d \in DOMAIN conns :
             conns[d].page = "seed" => conns'[d].state = conns[d].state
      BY <2>1, <3>1
    <3>3. Owners' /\ OnlyClient' /\ OldEnded'
      BY <1>b, <1>c, <2>1, <2>2, <3>1, <3>2
      DEF Owners, OnlyClient, OldEnded, In, Open
    <3>4. SessionShown' /\ NoneLeftOnline' /\ FeedbackTells'
      BY <1>b, <1>c, <2>1, <2>2, <3>1, <3>2
      DEF Owners, SessionShown, NoneLeftOnline, FeedbackTells, In
    <3>5. QED
      BY <2>2, <2>3, <2>4, <3>1, <3>3, <3>4
  <2>7. QED
    BY <1>6, <2>5, <2>6 DEF Connected
<1>7. ASSUME NEW c \in DOMAIN conns,
             Refuse(c) \/ FailToConnect(c) \/ Lose(c) \/ Close(c)
      PROVE  PageInv'
  <2>1. PICK s \in {"refused", "closing", "ended"} :
          /\ Become(c, s)
          /\ conns[c].state # "ended"
          /\ s = "refused" => conns[c].state = "connecting"
          /\ hello' \in {hello, 0}
          /\ conns[c].page = "hello" => feedback' = feedback
          /\ \/ feedback' = feedback /\ conns[c].state = "connecting"
                                     /\ s \in {"refused", "ended"}
             \/ feedback' = "Disconnecting" /\ s \in {"closing", "ended"}
             \/ feedback' \in {"Connection failed", "Disconnected"} /\ s = "ended"
             \/ conns[c].page = "hello"
    BY <1>7, <1>d DEF Refuse, FailToConnect, Lose, Close, Told, Untold, Connection
  <2>2. /\ DOMAIN conns' = DOMAIN conns
        /\ \A d \in DOMAIN conns :
             /\ conns'[d].page = conns[d].page
             /\ conns'[d].user = conns[d].user
             /\ conns'[d].state = IF d = c THEN s ELSE conns[d].state
             /\ conns'[d].asked \subseteq conns[d].asked
    BY <2>1, BecomeType
  <2>3. UNCHANGED <<client, jid, manager, header, pages, content, askedOn,
                    overlapped, crossing>>
    BY <1>7 DEF Refuse, FailToConnect, Lose, Close, Still
  <2>4. Owners'
    <3>1. /\ client # 0 => client \in DOMAIN conns
          /\ manager # 0 => manager \in DOMAIN conns
          /\ hello # 0 => hello \in DOMAIN conns
      BY <1>b, <1>c
    <3>2. client = 0 => \A d \in DOMAIN conns : conns[d].page # "seed"
      BY <1>e DEF Owners, In, Open
    <3>3. client' = 0 => ~In("seed", Open \cup {"ended"})'
      BY <2>2, <2>3, <3>2 DEF In
    <3>4. QED
      BY <2>1, <2>2, <2>3, <3>1, <3>3 DEF Owners
  <2>5. OnlyClient' /\ OldEnded' /\ AskedInv'
    BY <2>1, <2>2, <2>3 DEF OnlyClient, OldEnded, AskedInv
  <2>6. SessionShown' /\ NoneLeftOnline'
    <3>1. client # 0 => client \in DOMAIN conns
      BY <1>b, <1>c
    <3>2. SessionShown'
      BY <2>1, <2>2, <2>3, <3>1 DEF SessionShown
    <3>3. NoneLeftOnline'
      BY <2>1, <2>2, <2>3 DEF NoneLeftOnline, In
    <3>4. QED
      BY <3>2, <3>3
  <2>7. FeedbackTells'
    <3>1. SUFFICES ASSUME "seed" \notin overlapped, client # 0
                   PROVE  FeedbackTells'
      BY <2>3 DEF FeedbackTells
    <3>2. client \in DOMAIN conns /\ conns[client].page = "seed"
      BY <1>b, <1>c, <3>1 DEF Owners
    <3>3. CASE conns[c].page = "seed"
      <4>1. c = client
        BY <2>1, <3>1, <3>3 DEF OldEnded
      <4>2. conns[c].state = "connecting" => feedback = "Connecting"
        BY <3>1, <4>1 DEF FeedbackTells
      <4>3. QED
        BY <2>1, <2>2, <2>3, <3>2, <3>3, <4>1, <4>2 DEF FeedbackTells
    <3>4. CASE conns[c].page # "seed"
      <4>1. feedback' = feedback
        BY <1>d, <2>1, <3>4 DEF Connection
      <4>2. conns'[client].state = conns[client].state
        BY <2>2, <3>2, <3>4
      <4>3. QED
        BY <2>3, <4>1, <4>2 DEF FeedbackTells
    <3>5. QED
      BY <3>3, <3>4
  <2>8. ListIsOwn'
    BY <2>3 DEF ListIsOwn
  <2>9. QED
    BY <2>3, <2>4, <2>5, <2>6, <2>7, <2>8
<1>8. ASSUME NEW c \in DOMAIN conns, OnDiscoverCommunities(c) PROVE PageInv'
  <2>1. /\ DOMAIN conns' = DOMAIN conns
        /\ \A e \in DOMAIN conns :
             /\ conns'[e].page = conns[e].page
             /\ conns'[e].user = conns[e].user
             /\ conns'[e].state = conns[e].state
             /\ conns'[e].asked \subseteq conns[e].asked
    BY <1>8, ListType
  <2>2. /\ UNCHANGED <<client, jid, manager, feedback, header, pages, hello,
                       askedOn, overlapped, crossing>>
        /\ content' \in {c, 0}
        /\ "communities" \in conns[c].asked /\ conns[c].state # "ended"
    BY <1>8 DEF OnDiscoverCommunities
  <2>3. Owners' /\ OnlyClient' /\ OldEnded'
    BY <1>b, <1>c, <2>1, <2>2 DEF Owners, OnlyClient, OldEnded, In
  <2>4. AskedInv'
    BY <2>1, <2>2 DEF AskedInv
  <2>5. SessionShown' /\ NoneLeftOnline' /\ FeedbackTells'
    BY <1>b, <1>c, <2>1, <2>2 DEF SessionShown, NoneLeftOnline, FeedbackTells, In
  <2>6. ListIsOwn'
    BY <2>2 DEF ListIsOwn, AskedInv
  <2>7. QED
    BY <2>2, <2>3, <2>4, <2>5, <2>6
<1>9. ASSUME NEW c \in DOMAIN conns, HandlePong(c) PROVE PageInv'
  <2>1. /\ DOMAIN conns' = DOMAIN conns
        /\ \A e \in DOMAIN conns :
             /\ conns'[e].page = conns[e].page
             /\ conns'[e].user = conns[e].user
             /\ e # hello => conns'[e].state = conns[e].state
             /\ conns'[e].asked \subseteq conns[e].asked
    BY <1>9, PongType
  <2>2. UNCHANGED <<client, jid, manager, feedback, header, pages, hello,
                    content, askedOn, overlapped, crossing>>
    BY <1>9 DEF HandlePong
  <2>3. \A e \in DOMAIN conns :
           conns[e].page = "seed" => conns'[e].state = conns[e].state
    BY <1>b, <1>c, <2>1 DEF Owners
  <2>4. Owners' /\ OnlyClient' /\ OldEnded'
    BY <1>b, <1>c, <2>1, <2>2, <2>3 DEF Owners, OnlyClient, OldEnded, In, Open
  <2>5. AskedInv'
    BY <2>1, <2>2, <2>3 DEF AskedInv
  <2>6. SessionShown' /\ NoneLeftOnline' /\ FeedbackTells'
    BY <1>b, <1>c, <2>1, <2>2, <2>3
    DEF Owners, SessionShown, NoneLeftOnline, FeedbackTells, In
  <2>7. ListIsOwn'
    BY <2>2 DEF ListIsOwn
  <2>8. QED
    BY <2>2, <2>4, <2>5, <2>6, <2>7
<1>10. CASE UNCHANGED vars
  BY <1>10 DEF vars, Owners, OnlyClient, OldEnded, AskedInv,
     SessionShown, NoneLeftOnline, FeedbackTells, ListIsOwn, In
<1>11. QED
  BY <1>1, <1>2, <1>3, <1>4, <1>5, <1>6, <1>7, <1>8, <1>9, <1>10
  DEF Next, Click, Call

-----------------------------------------------------------------------------

LEMMA InitInv == Init => TypeOK /\ PageInv
<1> SUFFICES ASSUME Init PROVE TypeOK /\ PageInv
  OBVIOUS
<1>1. conns = << >> /\ conns \in Seq(Connection) /\ Len(conns) = 0
  BY DEF Init
<1>2. 0 \in 0..Len(conns)
  BY <1>1
<1>3. TypeOK
  BY <1>1, <1>2 DEF Init, TypeOK, Feedback
<1>4. QED
  BY <1>3, PageInit

LEMMA Invariance == Spec => [](TypeOK /\ PageInv)
<1>1. TypeOK /\ PageInv /\ [Next]_vars => (TypeOK /\ PageInv)'
  BY TypeStep, PageStep DEF PageInv
<1>2. QED
  BY InitInv, <1>1, PTL DEF Spec

\* What the page holds is a connection it has made, a user or a text it knows.
THEOREM TypeCorrect == Spec => []TypeOK
<1>1. TypeOK /\ PageInv => TypeOK
  BY DEF PageInv
<1>2. QED
  BY Invariance, <1>1, PTL

\* The community pages act for the user they name, unless logins crossed.
THEOREM SessionsShown == Spec => []SessionShown
<1>1. TypeOK /\ PageInv => SessionShown
  BY DEF PageInv
<1>2. QED
  BY Invariance, <1>1, PTL

\* Who has logged out is offline, unless logins crossed.
THEOREM NobodyLeftOnline == Spec => []NoneLeftOnline
<1>1. TypeOK /\ PageInv => NoneLeftOnline
  BY DEF PageInv
<1>2. QED
  BY Invariance, <1>1, PTL

\* The status shown is that of the connection in use, unless logins overlapped.
THEOREM FeedbackRight == Spec => []FeedbackTells
<1>1. TypeOK /\ PageInv => FeedbackTells
  BY DEF PageInv
<1>2. QED
  BY Invariance, <1>1, PTL

\* The list shown answers the last question, unless logins overlapped.
THEOREM ListRight == Spec => []ListIsOwn
<1>1. TypeOK /\ PageInv => ListIsOwn
  BY DEF PageInv
<1>2. QED
  BY Invariance, <1>1, PTL

-----------------------------------------------------------------------------
(* Touches of lib/jquery.mobile.js                                           *)

TouchIds == Touch!Nodes \cup {"none"}

Fingers ==
    [target : TouchIds, place : Places \cup {"none"}, gesture : 0..MaxGestures, fingers : 0..2,
     moved : BOOLEAN, two : BOOLEAN]

MouseEvents ==
    [gesture : Touch!Gestures, target : Touch!Nodes, place : Places,
     next : {"mousedown", "mouseup", "click"}, made : BOOLEAN]

Taps ==
    [elem : Touch!Nodes, orig : Touch!Nodes, timer : BOOLEAN, gesture : Touch!Gestures, touch : BOOLEAN]

Hearings ==
    [vclicks : Nat, taps : [Touch!Nodes -> Nat], cancelled : BOOLEAN, prevented : BOOLEAN, followed : BOOLEAN]

Touches ==
    [layout : Layouts, lastTouchID : Nat, nextTouchID : Nat, touchIDs : [Touch!Nodes -> Nat],
     didScroll : BOOLEAN, clickBlockList : SUBSET [touchID : Nat, place : Places],
     blockMouse : BOOLEAN, blockTouch : BOOLEAN, reset : BOOLEAN, tapping : SUBSET Taps,
     finger : Fingers, mouse : SUBSET MouseEvents, gestures : 0..MaxGestures,
     heard : [Touch!Gestures -> Hearings],
     overlapped : BOOLEAN, late : BOOLEAN, elsewhere : BOOLEAN, left : BOOLEAN]

\* Nothing of a gesture was heard yet
Unheard(h) == /\ h.vclicks = 0 /\ \A e \in Touch!Nodes : h.taps[e] = 0
              /\ ~h.cancelled /\ ~h.prevented /\ ~h.followed

\* Nothing virtual is bound where an event on target gets
Deaf(s, target) == \A e \in Paths[target] : e \notin s.layout.taps /\ s.layout.clicks[e] = "none"

FingerIsDown(s) == s.finger # Touch!NoFinger

\* A finger and each button have a gesture of their own; those to come, and
\* buttons that are down, were not heard; what blocks clicks blocks the mouse
GesturesApart(s) ==
    /\ FingerIsDown(s) =>
          /\ s.finger.target \in Touch!Nodes /\ s.finger.place \in Places
          /\ s.finger.gesture \in 1..s.gestures /\ s.finger.fingers \in {1, 2}
          /\ s.finger.fingers = 2 => s.finger.two
    /\ \A m \in s.mouse : m.gesture \in 1..s.gestures /\ m.gesture # s.finger.gesture
    /\ \A m, n \in s.mouse : m.gesture = n.gesture => m = n
    /\ \A t \in s.tapping : t.elem \in s.layout.taps
    /\ s.clickBlockList # {} => s.blockMouse
    /\ s.nextTouchID # 0
    /\ \A g \in Touch!Gestures : g > s.gestures => Unheard(s.heard[g])
    /\ \A m \in s.mouse : ~m.made => Unheard(s.heard[m.gesture])

\* What was prevented waits for its click on the list
PreventedWaits(s) ==
    /\ FingerIsDown(s) => /\ ~s.heard[s.finger.gesture].followed
                          /\ ~s.finger.two => ~s.heard[s.finger.gesture].prevented
    /\ \A m \in s.mouse : ~s.heard[m.gesture].followed
    /\ ~s.late =>
          /\ \A m \in s.mouse : s.heard[m.gesture].prevented => \E o \in s.clickBlockList : o.place = m.place
          /\ \A g \in Touch!Gestures : ~(s.heard[g].prevented /\ s.heard[g].followed)

TouchInTime(s) == ~s.late /\ ~s.overlapped

\* The mouse events of a touch on target are not heard
Muted(s, target) == Deaf(s, target) \/ (s.lastTouchID # 0 /\ s.touchIDs[target] = s.lastTouchID)

\* One gesture at a time, and the touch in it is heard before its mouse events
OneGesture(s) ==
    /\ FingerIsDown(s) => s.mouse = {} /\ s.finger.gesture = s.gestures
    /\ \A m \in s.mouse : m.gesture = s.gestures
    /\ \A m \in s.mouse : m.made /\ ~s.elsewhere => Muted(s, m.target)
    /\ \A m \in s.mouse : ~s.heard[m.gesture].cancelled
    /\ FingerIsDown(s) =>
          LET h == s.heard[s.finger.gesture]
          IN  /\ Muted(s, s.finger.target)
              /\ Deaf(s, s.finger.target) => h.vclicks = 0 /\ ~h.cancelled
              /\ ~Deaf(s, s.finger.target) =>
                    /\ s.blockTouch => s.finger.two
                    /\ ~s.blockTouch => h.vclicks = 0
                    /\ h.cancelled => s.finger.moved /\ (s.didScroll \/ s.blockTouch)

ClickedOnce(s) ==
    TouchInTime(s) =>
        /\ OneGesture(s)
        /\ \A g \in Touch!Gestures : /\ ~s.elsewhere => s.heard[g].vclicks <= 1
                                     /\ ~(s.heard[g].vclicks > 0 /\ s.heard[g].cancelled)

\* The taps under way are of the gesture at hand, one an element, and on
\* elements that its events get to
TapsOf(s, target) ==
    /\ \A t \in s.tapping : t.elem \in Paths[target] /\ t.gesture = s.gestures
    /\ \A t, u \in s.tapping : t.elem = u.elem => t = u

TapsHeld(s) ==
    /\ s.finger = Touch!NoFinger /\ s.mouse = {} => s.tapping = {}
    /\ s.tapping # {} => \A e \in Touch!Nodes : s.heard[s.gestures].taps[e] = 0
    /\ FingerIsDown(s) /\ s.tapping # {} => /\ ~s.blockTouch /\ ~s.didScroll
                                            /\ TapsOf(s, s.finger.target)
    /\ \A m \in s.mouse : s.tapping # {} =>
          /\ ~m.made /\ m.next # "mousedown"
          /\ Touch!Callable(s, m) /\ TapsOf(s, m.target)
          /\ m.next = "click" => \A t \in s.tapping : ~t.timer
    /\ \A g \in Touch!Gestures : \A e \in Touch!Nodes : s.heard[g].taps[e] <= 1

TapsRight(s) == TouchInTime(s) /\ ~s.left /\ ~s.elsewhere => TapsHeld(s)

TouchSafe(s) ==
    /\ s \in Touches
    /\ IsFiniteSet(s.tapping)
    /\ GesturesApart(s) /\ PreventedWaits(s) /\ ClickedOnce(s) /\ TapsRight(s)

TouchInv == TouchSafe(touch)

-----------------------------------------------------------------------------
(* What the handlers do to the record                                        *)

LEMMA TouchCounts == \A S : Touch!Cardinality(S) = Cardinality(S)
BY DEF Touch!Cardinality, Cardinality

LEMMA ImageFinite ==
    ASSUME NEW S, IsFiniteSet(S), NEW f, DOMAIN f = S
    PROVE  IsFiniteSet({f[x] : x \in S})
<1> DEFINE T == {f[x] : x \in S}
        h == [x \in S |-> f[x]]
<1>1. h \in [S -> T] /\ \A y \in T : \E x \in S : h[x] = y
  OBVIOUS
<1>2. h \in Surjection(S, T)
  BY <1>1 DEF Surjection
<1>3. QED
  BY <1>2, FS_Surjection

\* The taps under way are on elements with a handler for them
TapsBound(s) == \A t \in s.tapping : t.elem \in s.layout.taps

LEMMA DeafIs ==
    ASSUME NEW s, TapsBound(s), NEW target
    PROVE  Deaf(s, target) <=> Touch!Flags(s, target) = {}
<1>1. ASSUME NEW e PROVE Touch!Bindings(s, e) = {} <=> e \notin s.layout.taps /\ s.layout.clicks[e] = "none"
  <2>1. CASE e \in s.layout.taps
    <3>1. "vmousedown" \in Touch!Bindings(s, e)
      BY <2>1 DEF Touch!Bindings
    <3>2. QED
      BY <2>1, <3>1
  <2>2. CASE e \notin s.layout.taps /\ s.layout.clicks[e] # "none"
    <3>1. "vclick" \in Touch!Bindings(s, e)
      BY <2>2 DEF Touch!Bindings
    <3>2. QED
      BY <2>2, <3>1
  <2>3. CASE e \notin s.layout.taps /\ s.layout.clicks[e] = "none"
    <3>1. ~\E t \in s.tapping : t.elem = e
      BY <2>3 DEF TapsBound
    <3>2. Touch!Bindings(s, e) = {}
      BY <2>3, <3>1 DEF Touch!Bindings
    <3>3. QED
      BY <2>3, <3>2
  <2>4. QED
    BY <2>1, <2>2, <2>3
<1>2. Touch!Flags(s, target) = {} <=> \A e \in Paths[target] : Touch!Bindings(s, e) = {}
  BY DEF Touch!Flags
<1>3. QED
  BY <1>1, <1>2 DEF Deaf

LEMMA UnboundIsDeaf ==
    ASSUME NEW s, TapsBound(s), ~Touch!Bound(s), NEW target \in Touch!Nodes
    PROVE  Deaf(s, target)
<1>1. \A e \in Paths[target] : Touch!Bindings(s, e) = {}
  BY PathsAssumption DEF Touch!Bound
<1>2. Touch!Flags(s, target) = {}
  BY <1>1 DEF Touch!Flags
<1>3. QED
  BY <1>2, DeafIs

\* All but what was heard and the taps under way
SameButHeard(r, s) ==
    /\ r.layout = s.layout /\ r.lastTouchID = s.lastTouchID /\ r.nextTouchID = s.nextTouchID
    /\ r.touchIDs = s.touchIDs /\ r.didScroll = s.didScroll /\ r.clickBlockList = s.clickBlockList
    /\ r.blockMouse = s.blockMouse /\ r.blockTouch = s.blockTouch /\ r.reset = s.reset
    /\ r.finger = s.finger /\ r.mouse = s.mouse /\ r.gestures = s.gestures
    /\ r.overlapped = s.overlapped /\ r.late = s.late /\ r.elsewhere = s.elsewhere /\ r.left = s.left

Virtuals == {"vmousedown", "vmouseup", "vmousecancel", "vclick"}

LEMMA TappingIs ==
    ASSUME NEW s \in Touches, IsFiniteSet(s.tapping), TapsBound(s), NEW type \in Virtuals,
           NEW target \in Touch!Nodes, NEW g \in Touch!Gestures
    PROVE  LET after == Touch!Tapping(s, type, target, g)
           IN  /\ after \subseteq Taps /\ IsFiniteSet(after)
               /\ \A t \in after : t.elem \in s.layout.taps
<1> DEFINE after == Touch!Tapping(s, type, target, g)
        reached == Touch!Reached(s, target)
<1>0. s.tapping \subseteq Taps /\ reached \subseteq s.tapping
  BY DEF Touches, Touch!Reached
<1>1. CASE type = "vmousedown"
  <2> DEFINE bound == Paths[target] \cap s.layout.taps
          f == [e \in bound |-> [elem |-> e, orig |-> target, timer |-> TRUE, gesture |-> g,
                                 touch |-> s.finger.gesture = g]]
          new == {f[e] : e \in bound}
  <2>1. after = s.tapping \cup new
    BY <1>1 DEF Touch!Tapping
  <2>2. bound \subseteq Touch!Nodes /\ IsFiniteSet(bound)
    BY PathsAssumption, FS_Subset
  <2>3. IsFiniteSet(new)
    <3> HIDE DEF bound
    <3>1. DOMAIN f = bound
      OBVIOUS
    <3> HIDE DEF f
    <3>2. QED
      BY <2>2, <3>1, ImageFinite
  <2>4. new \subseteq Taps /\ \A t \in new : t.elem \in s.layout.taps
    <3>1. ASSUME NEW e \in bound PROVE f[e] \in Taps /\ f[e].elem = e
      <4>1. (s.finger.gesture = g) \in BOOLEAN /\ e \in Touch!Nodes
        BY <2>2
      <4>2. QED
        BY <4>1 DEF Taps
    <3> HIDE DEF f
    <3>2. QED
      BY <3>1
  <2>5. IsFiniteSet(after)
    <3> HIDE DEF new, after
    <3>1. QED
      BY <2>1, <2>3, FS_Union
  <2>6. QED
    BY <1>0, <2>1, <2>4, <2>5 DEF TapsBound
<1>2. CASE type = "vmouseup"
  <2> DEFINE f == [t \in reached |-> [t EXCEPT !.timer = FALSE]]
          new == {f[t] : t \in reached}
  <2>1. after = (s.tapping \ reached) \cup new
    BY <1>2 DEF Touch!Tapping
  <2>2. IsFiniteSet(reached) /\ IsFiniteSet(s.tapping \ reached)
    BY <1>0, FS_Subset
  <2>3. IsFiniteSet(new)
    <3> HIDE DEF reached
    <3>1. DOMAIN f = reached
      OBVIOUS
    <3> HIDE DEF f
    <3>2. QED
      BY <2>2, <3>1, ImageFinite
  <2>4. new \subseteq Taps /\ \A t \in new : t.elem \in s.layout.taps
    <3>1. ASSUME NEW t \in reached PROVE f[t] \in Taps /\ f[t].elem = t.elem
      <4>1. t \in Taps
        BY <1>0
      <4>2. QED
        BY <4>1 DEF Taps
    <3> HIDE DEF f
    <3>2. QED
      BY <1>0, <3>1 DEF TapsBound
  <2>5. IsFiniteSet(after)
    <3> HIDE DEF new, after, reached
    <3>1. QED
      BY <2>1, <2>2, <2>3, FS_Union
  <2>6. QED
    BY <1>0, <2>1, <2>4, <2>5 DEF TapsBound
<1>3. CASE type \in {"vmousecancel", "vclick"}
  <2>1. after = s.tapping \ reached
    BY <1>3 DEF Touch!Tapping
  <2>2. IsFiniteSet(after)
    BY <2>1, FS_Subset
  <2>3. QED
    BY <1>0, <2>1, <2>2 DEF TapsBound
<1>4. QED
  BY <1>1, <1>2, <1>3 DEF Virtuals

\* What a hearing of gesture g becomes
LEMMA HearingIs ==
    ASSUME NEW s \in Touches, IsFiniteSet(s.tapping), NEW type \in Virtuals,
           NEW target \in Touch!Nodes, NEW g \in Touch!Gestures
    PROVE  LET r == Touch!TriggerVirtual(s, type, target, g)
               h == s.heard[g]
               k == r.heard[g]
           IN  type \in Touch!Flags(s, target) =>
                  /\ k \in Hearings
                  /\ k.followed = h.followed
                  /\ k.cancelled = (h.cancelled \/ type = "vmousecancel")
                  /\ type # "vclick" => k.vclicks = h.vclicks /\ k.prevented = h.prevented /\ k.taps = h.taps
                  /\ type = "vclick" =>
                        /\ k.vclicks = h.vclicks + 1
                        /\ k.prevented = (h.prevented \/ Touch!Prevents(s, target))
                        /\ \A e \in Touch!Nodes : k.taps[e] = h.taps[e] + Touch!Tapped(s, e, target)
<1> DEFINE h == s.heard[g]
<1>1. SUFFICES ASSUME type \in Touch!Flags(s, target) PROVE
         LET k == Touch!TriggerVirtual(s, type, target, g).heard[g]
         IN  /\ k \in Hearings
             /\ k.followed = h.followed
             /\ k.cancelled = (h.cancelled \/ type = "vmousecancel")
             /\ type # "vclick" => k.vclicks = h.vclicks /\ k.prevented = h.prevented /\ k.taps = h.taps
             /\ type = "vclick" =>
                   /\ k.vclicks = h.vclicks + 1
                   /\ k.prevented = (h.prevented \/ Touch!Prevents(s, target))
                   /\ \A e \in Touch!Nodes : k.taps[e] = h.taps[e] + Touch!Tapped(s, e, target)
  OBVIOUS
<1>2. h \in Hearings /\ s.heard \in [Touch!Gestures -> Hearings]
  BY DEF Touches
<1> DEFINE heard == CASE type = "vmousecancel" -> [h EXCEPT !.cancelled = TRUE]
                      [] type = "vclick" ->
                            [h EXCEPT !.vclicks = @ + 1,
                                      !.prevented = @ \/ Touch!Prevents(s, target),
                                      !.taps = [e \in Touch!Nodes |-> @[e] + Touch!Tapped(s, e, target)]]
                      [] OTHER -> h
<1>3. Touch!TriggerVirtual(s, type, target, g) =
        [s EXCEPT !.heard[g] = heard, !.tapping = Touch!Tapping(s, type, target, g)]
  BY <1>1 DEF Touch!TriggerVirtual
<1>4. Touch!TriggerVirtual(s, type, target, g).heard[g] = heard
  <2> HIDE DEF heard
  <2>1. QED
    BY <1>2, <1>3 DEF Touches
<1>5. CASE type = "vmousecancel"
  <2>1. heard = [h EXCEPT !.cancelled = TRUE]
    BY <1>5
  <2> HIDE DEF heard, h
  <2>2. QED
    BY <1>2, <1>4, <1>5, <2>1 DEF Hearings
<1>6. CASE type = "vclick"
  <2>1. heard = [h EXCEPT !.vclicks = @ + 1,
                          !.prevented = @ \/ Touch!Prevents(s, target),
                          !.taps = [e \in Touch!Nodes |-> @[e] + Touch!Tapped(s, e, target)]]
    BY <1>6
  <2>2. ASSUME NEW e PROVE Touch!Tapped(s, e, target) \in Nat
    <3> DEFINE T == {t \in Touch!Reached(s, target) : t.elem = e /\ t.orig = target}
    <3>1. T \subseteq s.tapping
      BY DEF Touch!Reached
    <3>2. Cardinality(T) \in Nat
      <4> HIDE DEF T
      <4>1. QED
        BY <3>1, FS_Subset, FS_CardinalityType
    <3>3. QED
      BY <3>2, TouchCounts DEF Touch!Tapped
  <2>3. (h.prevented \/ Touch!Prevents(s, target)) \in BOOLEAN
    OBVIOUS
  <2> HIDE DEF heard, h
  <2>4. [e \in Touch!Nodes |-> h.taps[e] + Touch!Tapped(s, e, target)] \in [Touch!Nodes -> Nat]
    <3>1. h.taps \in [Touch!Nodes -> Nat]
      BY <1>2 DEF Hearings
    <3>2. QED
      BY <2>2, <3>1
  <2>5. PICK taps : taps = [e \in Touch!Nodes |-> h.taps[e] + Touch!Tapped(s, e, target)]
    OBVIOUS
  <2>6. PICK prevented \in BOOLEAN : prevented = (h.prevented \/ Touch!Prevents(s, target))
    BY <2>3
  <2>7. heard = [h EXCEPT !.vclicks = @ + 1, !.prevented = prevented, !.taps = taps]
    BY <2>1, <2>5, <2>6
  <2>8. taps \in [Touch!Nodes -> Nat]
    BY <2>4, <2>5
  <2>9. /\ heard \in Hearings /\ heard.followed = h.followed /\ heard.cancelled = h.cancelled
        /\ heard.vclicks = h.vclicks + 1 /\ heard.prevented = prevented /\ heard.taps = taps
    <3>1. PICK n \in Nat : n = h.vclicks + 1
      BY <1>2 DEF Hearings
    <3>2. heard = [h EXCEPT !.vclicks = n, !.prevented = prevented, !.taps = taps]
      BY <2>7, <3>1
    <3>3. heard \in Hearings
      BY <1>2, <2>6, <2>8, <3>2 DEF Hearings
    <3>4. /\ heard.followed = h.followed /\ heard.cancelled = h.cancelled
          /\ heard.vclicks = n /\ heard.prevented = prevented /\ heard.taps = taps
      BY <1>2, <3>2 DEF Hearings
    <3>5. QED
      BY <3>1, <3>3, <3>4
  <2>10. \A e \in Touch!Nodes : taps[e] = h.taps[e] + Touch!Tapped(s, e, target)
    BY <2>5
  <2>11. h.cancelled = (h.cancelled \/ type = "vmousecancel")
    BY <1>2, <1>6 DEF Hearings
  <2>12. QED
    BY <1>4, <1>6, <2>6, <2>9, <2>10, <2>11
<1>7. CASE type \in {"vmousedown", "vmouseup"}
  <2>1. heard = h
    BY <1>7
  <2> HIDE DEF heard, h
  <2>2. h.cancelled = (h.cancelled \/ type = "vmousecancel")
    BY <1>2, <1>7 DEF Hearings
  <2>3. QED
    BY <1>2, <1>4, <1>7, <2>1, <2>2
<1>8. QED
  BY <1>5, <1>6, <1>7 DEF Virtuals

LEMMA TriggerIs ==
    ASSUME NEW s \in Touches, IsFiniteSet(s.tapping), TapsBound(s), NEW type \in Virtuals,
           NEW target \in Touch!Nodes, NEW g \in Touch!Gestures
    PROVE  LET r == Touch!TriggerVirtual(s, type, target, g)
           IN  /\ r \in Touches /\ IsFiniteSet(r.tapping) /\ TapsBound(r)
               /\ SameButHeard(r, s)
               /\ \A k \in Touch!Gestures \ {g} : r.heard[k] = s.heard[k]
               /\ type \in Touch!Flags(s, target) => r.tapping = Touch!Tapping(s, type, target, g)
               /\ type \notin Touch!Flags(s, target) => r = s
               /\ Deaf(s, target) => r = s
<1> DEFINE r == Touch!TriggerVirtual(s, type, target, g)
<1>1. CASE type \in Touch!Flags(s, target)
  <2>1. PICK heard : r = [s EXCEPT !.heard[g] = heard, !.tapping = Touch!Tapping(s, type, target, g)]
    BY <1>1 DEF Touch!TriggerVirtual
  <2>2. r.heard[g] \in Hearings
    BY <1>1, HearingIs
  <2>3. PICK after : after = Touch!Tapping(s, type, target, g)
    OBVIOUS
  <2>4. after \subseteq Taps /\ IsFiniteSet(after) /\ \A t \in after : t.elem \in s.layout.taps
    BY <2>3, TappingIs
  <2>5. r = [s EXCEPT !.heard[g] = heard, !.tapping = after]
    BY <2>1, <2>3
  <2> HIDE DEF r
  <2>6. SameButHeard(r, s) /\ r.tapping = after /\ r.heard = [s.heard EXCEPT ![g] = heard]
    BY <2>5 DEF Touches, SameButHeard
  <2>7. heard \in Hearings /\ r.heard \in [Touch!Gestures -> Hearings]
        /\ \A k \in Touch!Gestures \ {g} : r.heard[k] = s.heard[k]
    BY <2>2, <2>6 DEF Touches
  <2>8. r \in Touches
    BY <2>4, <2>5, <2>7 DEF Touches
  <2>9. ~Deaf(s, target)
    BY <1>1, DeafIs
  <2>10. TapsBound(r)
    BY <2>4, <2>6 DEF TapsBound, SameButHeard
  <2>11. QED
    BY <1>1, <2>3, <2>4, <2>6, <2>7, <2>8, <2>9, <2>10 DEF r
<1>2. CASE type \notin Touch!Flags(s, target)
  <2>1. r = s
    BY <1>2 DEF Touch!TriggerVirtual
  <2>2. QED
    BY <1>2, <2>1 DEF SameButHeard
<1>3. QED
  BY <1>1, <1>2

\* The record has its type, and its taps are finitely many and bound
TouchShape(s) == s \in Touches /\ IsFiniteSet(s.tapping) /\ TapsBound(s)

LEMMA TapsHaveFlags ==
    ASSUME NEW s, NEW target, NEW t \in s.tapping, t.elem \in Paths[target]
    PROVE  {"vmousecancel", "vmouseup", "vclick"} \subseteq Touch!Flags(s, target)
<1>1. {"vmousecancel", "vmouseup", "vclick"} \subseteq Touch!Bindings(s, t.elem)
  BY DEF Touch!Bindings
<1>2. QED
  BY <1>1 DEF Touch!Flags

\* Where an event on target gets
TapsWithin(s, target) == \A t \in s.tapping : t.elem \in Paths[target]

OneEach(s) == \A t, u \in s.tapping : t.elem = u.elem => t = u

LEMMA TapsBegin ==
    ASSUME NEW s \in Touches, s.tapping = {}, NEW target, NEW g
    PROVE  LET after == Touch!Tapping(s, "vmousedown", target, g)
           IN  /\ \A t \in after : t.elem \in Paths[target] /\ t.gesture = g
               /\ \A t, u \in after : t.elem = u.elem => t = u
<1> DEFINE f(e) == [elem |-> e, orig |-> target, timer |-> TRUE, gesture |-> g, touch |-> s.finger.gesture = g]
<1>1. Touch!Tapping(s, "vmousedown", target, g) = {f(e) : e \in Paths[target] \cap s.layout.taps}
  BY DEF Touch!Tapping
<1>2. \A e : f(e).elem = e /\ f(e).gesture = g
  OBVIOUS
<1> HIDE DEF f
<1>3. QED
  BY <1>1, <1>2

LEMMA TapsStop ==
    ASSUME NEW s \in Touches, NEW target, TapsWithin(s, target), OneEach(s), NEW g
    PROVE  LET after == Touch!Tapping(s, "vmouseup", target, g)
           IN  /\ \A t \in after : \E u \in s.tapping : t.elem = u.elem /\ t.gesture = u.gesture
               /\ \A t, u \in after : t.elem = u.elem => t = u
               /\ \A t \in after : ~t.timer
<1>1. s.tapping \subseteq Taps
  BY DEF Touches
<1>2. Touch!Reached(s, target) = s.tapping
  BY DEF Touch!Reached, TapsWithin
<1>3. Touch!Tapping(s, "vmouseup", target, g) = {[t EXCEPT !.timer = FALSE] : t \in s.tapping}
  BY <1>2 DEF Touch!Tapping
<1> DEFINE f(t) == [t EXCEPT !.timer = FALSE]
<1>4. \A t \in s.tapping : f(t).elem = t.elem /\ f(t).gesture = t.gesture /\ ~f(t).timer
  BY <1>1 DEF Taps
<1>5. Touch!Tapping(s, "vmouseup", target, g) = {f(t) : t \in s.tapping}
  BY <1>3
<1> HIDE DEF f
<1>6. QED
  BY <1>4, <1>5 DEF OneEach

LEMMA TapsGone ==
    ASSUME NEW s, NEW target, TapsWithin(s, target), NEW g, NEW type \in {"vmousecancel", "vclick"}
    PROVE  Touch!Tapping(s, type, target, g) = {}
BY DEF Touch!Tapping, Touch!Reached, TapsWithin

LEMMA TappedOnce ==
    ASSUME NEW s, OneEach(s), NEW target, NEW e
    PROVE  /\ Touch!Tapped(s, e, target) \in {0, 1}
           /\ s.tapping = {} => Touch!Tapped(s, e, target) = 0
<1> DEFINE T == {t \in Touch!Reached(s, target) : t.elem = e /\ t.orig = target}
<1>1. Touch!Tapped(s, e, target) = Cardinality(T)
  BY TouchCounts DEF Touch!Tapped
<1>2. T \subseteq s.tapping /\ \A t, u \in T : t = u
  BY DEF Touch!Reached, OneEach
<1> HIDE DEF T
<1>3. CASE T = {}
  BY <1>1, <1>3, FS_EmptySet
<1>4. CASE T # {}
  <2>1. PICK t : T = {t}
    BY <1>2, <1>4
  <2>2. QED
    BY <1>1, <1>2, <2>1, FS_Singleton
<1>5. QED
  BY <1>3, <1>4

-----------------------------------------------------------------------------
(* What each handler does                                                    *)

\* What handlers of touches leave alone
SameGesture(r, s) ==
    /\ r.layout = s.layout /\ r.finger = s.finger /\ r.mouse = s.mouse /\ r.gestures = s.gestures
    /\ r.overlapped = s.overlapped /\ r.late = s.late /\ r.elsewhere = s.elsewhere /\ r.left = s.left

LEMMA StartIs ==
    ASSUME NEW s, TouchShape(s), s.finger.target \in Touch!Nodes, s.finger.gesture \in Touch!Gestures,
           NEW r, r = Touch!Listening(Touch!HandleTouchStart(s), s)
    PROVE  /\ TouchShape(r) /\ SameGesture(r, s)
           /\ r.heard = s.heard /\ r.clickBlockList = s.clickBlockList /\ r.blockMouse = s.blockMouse
           /\ Deaf(s, s.finger.target) => r = s
           /\ ~Deaf(s, s.finger.target) =>
                 /\ r.lastTouchID = s.nextTouchID /\ r.nextTouchID = s.nextTouchID + 1
                 /\ r.touchIDs[s.finger.target] = r.lastTouchID
                 /\ ~r.blockTouch /\ ~r.didScroll
                 /\ s.tapping = {} => /\ \A t \in r.tapping : /\ t.elem \in Paths[s.finger.target]
                                                              /\ t.gesture = s.finger.gesture
                                      /\ OneEach(r)
<1>1. s \in Touches /\ IsFiniteSet(s.tapping) /\ TapsBound(s)
  BY DEF TouchShape
<1>2. PICK f : f = s.finger
  OBVIOUS
<1>3. CASE Deaf(s, f.target)
  <2>1. Touch!Flags(s, f.target) = {}
    BY <1>1, <1>3, DeafIs
  <2>2. r = s
    BY <1>2, <2>1 DEF Touch!HandleTouchStart, Touch!Listening
  <2>3. QED
    BY <1>2, <1>3, <2>2 DEF SameGesture
<1>4. CASE ~Deaf(s, f.target)
  <2>1. Touch!Flags(s, f.target) # {} /\ Touch!Bound(s)
    BY <1>1, <1>2, <1>4, DeafIs, UnboundIsDeaf
  <2>2. PICK next : next = [s EXCEPT !.lastTouchID = s.nextTouchID, !.nextTouchID = @ + 1,
                                     !.touchIDs[f.target] = s.nextTouchID,
                                     !.reset = FALSE, !.blockTouch = FALSE, !.didScroll = FALSE]
    OBVIOUS
  <2>3. r = Touch!TriggerVirtual(next, "vmousedown", f.target, f.gesture)
    BY <1>2, <2>1, <2>2 DEF Touch!HandleTouchStart, Touch!Listening
  <2>4. /\ next.layout = s.layout /\ next.finger = s.finger /\ next.mouse = s.mouse
        /\ next.gestures = s.gestures /\ next.overlapped = s.overlapped /\ next.late = s.late
        /\ next.elsewhere = s.elsewhere /\ next.left = s.left /\ next.tapping = s.tapping
        /\ next.heard = s.heard /\ next.clickBlockList = s.clickBlockList /\ next.blockMouse = s.blockMouse
        /\ next.lastTouchID = s.nextTouchID /\ next.nextTouchID = s.nextTouchID + 1
        /\ next.touchIDs = [s.touchIDs EXCEPT ![f.target] = s.nextTouchID]
        /\ ~next.blockTouch /\ ~next.didScroll
    BY <1>1, <2>2 DEF Touches
  <2>5. next \in Touches
    <3>1. PICK n \in Nat, ids \in [Touch!Nodes -> Nat] :
             n = s.nextTouchID + 1 /\ ids = [s.touchIDs EXCEPT ![f.target] = s.nextTouchID]
      <4>1. s.nextTouchID \in Nat /\ s.touchIDs \in [Touch!Nodes -> Nat]
        BY <1>1 DEF Touches
      <4>2. s.nextTouchID + 1 \in Nat /\ [s.touchIDs EXCEPT ![f.target] = s.nextTouchID] \in [Touch!Nodes -> Nat]
        <5>1. PICK n, ids : n = s.nextTouchID /\ ids = s.touchIDs
          OBVIOUS
        <5>2. n + 1 \in Nat
          BY <4>1, <5>1
        <5>3. [ids EXCEPT ![f.target] = n] \in [Touch!Nodes -> Nat]
          BY <4>1, <5>1
        <5>4. QED
          BY <5>1, <5>2, <5>3
      <4>3. QED
        BY <4>2
    <3>2. next = [s EXCEPT !.lastTouchID = s.nextTouchID, !.nextTouchID = n, !.touchIDs = ids,
                           !.reset = FALSE, !.blockTouch = FALSE, !.didScroll = FALSE]
      BY <2>2, <3>1
    <3>3. QED
      BY <1>1, <3>1, <3>2 DEF Touches
  <2>6. IsFiniteSet(next.tapping) /\ TapsBound(next)
    BY <1>1, <2>4 DEF TapsBound
  <2>7. "vmousedown" \in Virtuals
    BY DEF Virtuals
  <2>8. /\ r \in Touches /\ IsFiniteSet(r.tapping) /\ TapsBound(r) /\ SameButHeard(r, next)
        /\ \A k \in Touch!Gestures \ {f.gesture} : r.heard[k] = next.heard[k]
        /\ "vmousedown" \in Touch!Flags(next, f.target) =>
              r.tapping = Touch!Tapping(next, "vmousedown", f.target, f.gesture)
        /\ "vmousedown" \notin Touch!Flags(next, f.target) => r = next
    BY <1>2, <2>3, <2>5, <2>6, <2>7, TriggerIs
  <2>9. r.heard[f.gesture] = next.heard[f.gesture]
    <3>1. CASE "vmousedown" \in Touch!Flags(next, f.target)
      <4>1. PICK h, k : h = next.heard[f.gesture] /\ k = r.heard[f.gesture]
        OBVIOUS
      <4>2. /\ k \in Hearings /\ k.followed = h.followed /\ k.cancelled = (h.cancelled \/ FALSE)
            /\ k.vclicks = h.vclicks /\ k.prevented = h.prevented /\ k.taps = h.taps
        BY <1>2, <2>3, <2>5, <2>6, <2>7, <3>1, <4>1, HearingIs
      <4>3. h \in Hearings
        BY <1>2, <2>5, <4>1 DEF Touches
      <4>4. k = h
        BY <4>2, <4>3 DEF Hearings
      <4>5. QED
        BY <4>1, <4>4
    <3>2. CASE "vmousedown" \notin Touch!Flags(next, f.target)
      BY <2>8, <3>2
    <3>3. QED
      BY <3>1, <3>2
  <2>10. r.heard = s.heard
    <3>1. r.heard \in [Touch!Gestures -> Hearings] /\ s.heard \in [Touch!Gestures -> Hearings]
      BY <1>1, <2>8 DEF Touches
    <3>2. \A k \in Touch!Gestures : r.heard[k] = s.heard[k]
      BY <2>4, <2>8, <2>9
    <3>3. QED
      BY <3>1, <3>2
  <2>11. s.tapping = {} => /\ \A t \in r.tapping : t.elem \in Paths[f.target] /\ t.gesture = f.gesture
                           /\ OneEach(r)
    <3>1. SUFFICES ASSUME s.tapping = {}
                   PROVE  /\ \A t \in r.tapping : t.elem \in Paths[f.target] /\ t.gesture = f.gesture
                          /\ OneEach(r)
      OBVIOUS
    <3>2. CASE r = next
      BY <2>4, <3>1, <3>2 DEF OneEach
    <3>3. CASE r.tapping = Touch!Tapping(next, "vmousedown", f.target, f.gesture)
      BY <2>4, <2>5, <3>1, <3>3, TapsBegin DEF OneEach
    <3>4. QED
      BY <2>8, <3>2, <3>3
  <2>12. r.touchIDs[f.target] = s.nextTouchID
    BY <1>1, <1>2, <2>4, <2>8 DEF Touches, SameButHeard
  <2>13. QED
    BY <1>2, <1>4, <2>4, <2>8, <2>10, <2>11, <2>12 DEF TouchShape, SameGesture, SameButHeard
<1>5. QED
  BY <1>2, <1>3, <1>4

LEMMA MoveIs ==
    ASSUME NEW s, TouchShape(s), s.finger.target \in Touch!Nodes, s.finger.gesture \in Touch!Gestures,
           NEW far \in BOOLEAN, NEW r, r = Touch!Listening(Touch!HandleTouchMove(s, far), s)
    PROVE  /\ TouchShape(r) /\ SameGesture(r, s)
           /\ r.clickBlockList = s.clickBlockList /\ r.blockMouse = s.blockMouse /\ r.blockTouch = s.blockTouch
           /\ r.lastTouchID = s.lastTouchID /\ r.nextTouchID = s.nextTouchID /\ r.touchIDs = s.touchIDs
           /\ s.didScroll => r.didScroll
           /\ \A k \in Touch!Gestures :
                 /\ r.heard[k].vclicks = s.heard[k].vclicks /\ r.heard[k].taps = s.heard[k].taps
                 /\ r.heard[k].prevented = s.heard[k].prevented /\ r.heard[k].followed = s.heard[k].followed
                 /\ r.heard[k].cancelled => \/ s.heard[k].cancelled
                                            \/ /\ k = s.finger.gesture /\ far /\ r.didScroll /\ ~s.blockTouch
                                               /\ ~Deaf(s, s.finger.target)
           /\ TapsWithin(s, s.finger.target) =>
                 r.tapping = {} \/ (r.tapping = s.tapping /\ (s.blockTouch \/ r.didScroll = s.didScroll))
<1>1. s \in Touches /\ IsFiniteSet(s.tapping) /\ TapsBound(s)
  BY DEF TouchShape
<1>2. PICK f : f = s.finger
  OBVIOUS
<1>3. PICK moved : moved = [s EXCEPT !.didScroll = @ \/ far, !.reset = TRUE]
  OBVIOUS
<1>4. /\ moved.layout = s.layout /\ moved.finger = s.finger /\ moved.mouse = s.mouse
      /\ moved.gestures = s.gestures /\ moved.overlapped = s.overlapped /\ moved.late = s.late
      /\ moved.elsewhere = s.elsewhere /\ moved.left = s.left /\ moved.tapping = s.tapping
      /\ moved.heard = s.heard /\ moved.clickBlockList = s.clickBlockList /\ moved.blockMouse = s.blockMouse
      /\ moved.lastTouchID = s.lastTouchID /\ moved.nextTouchID = s.nextTouchID
      /\ moved.touchIDs = s.touchIDs /\ moved.blockTouch = s.blockTouch
      /\ moved.didScroll = (s.didScroll \/ far)
  BY <1>1, <1>3 DEF Touches
<1>5. TouchShape(moved)
  <2>1. PICK scrolled \in BOOLEAN : scrolled = (s.didScroll \/ far)
    OBVIOUS
  <2>2. moved = [s EXCEPT !.didScroll = scrolled, !.reset = TRUE]
    BY <1>3, <2>1
  <2>3. moved \in Touches
    BY <1>1, <2>2 DEF Touches
  <2>4. QED
    BY <1>1, <1>4, <2>3 DEF TouchShape, TapsBound
<1>6. CASE r = s
  BY <1>1, <1>6 DEF SameGesture, TouchShape
<1>7. CASE r = moved /\ ~(far /\ ~s.didScroll)
  <2>1. moved.didScroll = s.didScroll
    BY <1>1, <1>4, <1>7 DEF Touches
  <2>2. QED
    BY <1>4, <1>5, <1>7, <2>1 DEF SameGesture
<1>8. CASE far /\ ~s.didScroll /\ ~s.blockTouch /\ r = Touch!TriggerVirtual(moved, "vmousecancel", f.target, f.gesture)
  <2>1. "vmousecancel" \in Virtuals
    BY DEF Virtuals
  <2>2. /\ r \in Touches /\ IsFiniteSet(r.tapping) /\ TapsBound(r) /\ SameButHeard(r, moved)
        /\ \A k \in Touch!Gestures \ {f.gesture} : r.heard[k] = moved.heard[k]
        /\ "vmousecancel" \in Touch!Flags(moved, f.target) =>
              r.tapping = Touch!Tapping(moved, "vmousecancel", f.target, f.gesture)
        /\ "vmousecancel" \notin Touch!Flags(moved, f.target) => r = moved
        /\ Deaf(moved, f.target) => r = moved
    <3>1. moved \in Touches /\ IsFiniteSet(moved.tapping) /\ TapsBound(moved)
      BY <1>5 DEF TouchShape
    <3>2. f.target \in Touch!Nodes /\ f.gesture \in Touch!Gestures
      BY <1>2
    <3>3. r = Touch!TriggerVirtual(moved, "vmousecancel", f.target, f.gesture)
      BY <1>8
    <3>4. QED
      BY <2>1, <3>1, <3>2, <3>3, TriggerIs
  <2>3. Deaf(moved, f.target) <=> Deaf(s, f.target)
    BY <1>4 DEF Deaf
  <2>4. PICK h, k : h = moved.heard[f.gesture] /\ k = r.heard[f.gesture]
    OBVIOUS
  <2>5. /\ k.followed = h.followed /\ k.vclicks = h.vclicks /\ k.prevented = h.prevented /\ k.taps = h.taps
        /\ k.cancelled => h.cancelled \/ ~Deaf(s, f.target)
    <3>1. CASE "vmousecancel" \in Touch!Flags(moved, f.target)
      <4>1. ~Deaf(s, f.target)
        BY <1>5, <2>3, <3>1, DeafIs DEF TouchShape
      <4>2. QED
        BY <1>2, <1>5, <1>8, <2>1, <2>4, <3>1, <4>1, HearingIs DEF TouchShape
    <3>2. CASE "vmousecancel" \notin Touch!Flags(moved, f.target)
      BY <2>2, <2>4, <3>2
    <3>3. QED
      BY <3>1, <3>2
  <2>6. TapsWithin(s, f.target) => r.tapping = {}
    <3>1. SUFFICES ASSUME TapsWithin(s, f.target) PROVE r.tapping = {}
      OBVIOUS
    <3>2. TapsWithin(moved, f.target)
      BY <1>4, <3>1 DEF TapsWithin
    <3>3. CASE moved.tapping = {}
      BY <2>2, <3>2, <3>3, TapsGone
    <3>4. CASE moved.tapping # {}
      <4>1. PICK t \in moved.tapping : t.elem \in Paths[f.target]
        BY <3>2, <3>4 DEF TapsWithin
      <4>2. "vmousecancel" \in Touch!Flags(moved, f.target)
        BY <4>1, TapsHaveFlags
      <4>3. QED
        BY <2>2, <3>2, <4>2, TapsGone
    <3>5. QED
      BY <3>3, <3>4
  <2>7. r.didScroll
    BY <1>4, <1>8, <2>2 DEF SameButHeard
  <2>8. \A i \in Touch!Gestures :
            /\ r.heard[i].vclicks = s.heard[i].vclicks /\ r.heard[i].taps = s.heard[i].taps
            /\ r.heard[i].prevented = s.heard[i].prevented /\ r.heard[i].followed = s.heard[i].followed
            /\ r.heard[i].cancelled => s.heard[i].cancelled \/ (i = f.gesture /\ ~Deaf(s, f.target))
    BY <1>4, <2>2, <2>4, <2>5
  <2>9. /\ TouchShape(r) /\ SameGesture(r, s)
        /\ r.clickBlockList = s.clickBlockList /\ r.blockMouse = s.blockMouse /\ r.blockTouch = s.blockTouch
        /\ r.lastTouchID = s.lastTouchID /\ r.nextTouchID = s.nextTouchID /\ r.touchIDs = s.touchIDs
    BY <1>4, <2>2 DEF SameGesture, SameButHeard, TouchShape
  <2>10. \A i \in Touch!Gestures :
            r.heard[i].cancelled => \/ s.heard[i].cancelled
                                    \/ /\ i = s.finger.gesture /\ far /\ r.didScroll /\ ~s.blockTouch
                                       /\ ~Deaf(s, s.finger.target)
    BY <1>2, <1>8, <2>7, <2>8
  <2>11. TapsWithin(s, s.finger.target) => r.tapping = {}
    BY <1>2, <2>6
  <2>12. QED
    BY <2>7, <2>8, <2>9, <2>10, <2>11
<1>9. QED
  <2>1. \/ r = s
        \/ r = moved /\ ~(moved.didScroll /\ ~s.didScroll)
        \/ /\ ~s.blockTouch /\ moved.didScroll /\ ~s.didScroll
           /\ r = Touch!TriggerVirtual(moved, "vmousecancel", f.target, f.gesture)
    BY <1>2, <1>3 DEF Touch!HandleTouchMove, Touch!Listening
  <2>2. QED
    BY <1>4, <1>6, <1>7, <1>8, <2>1

\* What the end of a touch makes of the record
Ended(s, r) ==
    /\ TouchShape(r) /\ SameGesture(r, s)
    /\ r.lastTouchID = s.lastTouchID /\ r.nextTouchID = s.nextTouchID /\ r.touchIDs = s.touchIDs
    /\ Deaf(s, s.finger.target) \/ s.blockTouch =>
          r.heard = s.heard /\ r.tapping = s.tapping
    /\ ~Deaf(s, s.finger.target) => r.blockTouch
    /\ s.clickBlockList \subseteq r.clickBlockList
    /\ (s.clickBlockList # {} => s.blockMouse) => (r.clickBlockList # {} => r.blockMouse)
    /\ \A k \in Touch!Gestures \ {s.finger.gesture} : r.heard[k] = s.heard[k]
    /\ LET h == s.heard[s.finger.gesture]
           k == r.heard[s.finger.gesture]
       IN  /\ k.followed = h.followed /\ k.cancelled = h.cancelled
           /\ s.didScroll => k.vclicks = h.vclicks
           /\ k.vclicks \in {h.vclicks, h.vclicks + 1}
           /\ k.prevented => h.prevented \/ \E o \in r.clickBlockList : o.place = s.finger.place
           /\ TapsWithin(s, s.finger.target) /\ OneEach(s) =>
                 \A e \in Touch!Nodes : /\ k.taps[e] \in {h.taps[e], h.taps[e] + 1}
                                        /\ s.tapping = {} => k.taps[e] = h.taps[e]
    /\ s.tapping = {} => r.tapping = {}
    /\ TapsWithin(s, s.finger.target) /\ OneEach(s) /\ ~s.didScroll /\ ~s.blockTouch => r.tapping = {}

LEMMA EndIs ==
    ASSUME NEW s, TouchShape(s), s.finger.target \in Touch!Nodes, s.finger.gesture \in Touch!Gestures,
           s.finger.place \in Places, NEW r, r = Touch!Listening(Touch!HandleTouchEnd(s), s)
    PROVE  Ended(s, r)
<1>1. s \in Touches /\ IsFiniteSet(s.tapping) /\ TapsBound(s)
  BY DEF TouchShape
<1>2. PICK f : f = s.finger
  OBVIOUS
<1>a. f.target \in Touch!Nodes /\ f.gesture \in Touch!Gestures /\ f.place \in Places
  BY <1>2
<1>b. s.heard[f.gesture] \in Hearings
  BY <1>1, <1>a DEF Touches
<1>3. CASE r = s /\ (Deaf(s, f.target) \/ s.blockTouch)
  <2>1. PICK h : h = s.heard[f.gesture]
    OBVIOUS
  <2>2. h.vclicks \in {h.vclicks, h.vclicks + 1} /\ \A e \in Touch!Nodes : h.taps[e] \in {h.taps[e], h.taps[e] + 1}
    OBVIOUS
  <2>3. /\ TouchShape(r) /\ SameGesture(r, s)
        /\ ~Deaf(s, f.target) => r.blockTouch
        /\ TapsWithin(s, f.target) /\ OneEach(s) /\ ~s.didScroll /\ ~s.blockTouch => r.tapping = {}
    <3>1. Deaf(s, f.target) /\ TapsWithin(s, f.target) => s.tapping = {}
      BY <1>1 DEF Deaf, TapsWithin, TapsBound
    <3>2. QED
      BY <1>3, <3>1 DEF SameGesture
  <2>4. PICK k : k = r.heard[f.gesture]
    OBVIOUS
  <2>5. /\ k.followed = h.followed /\ k.cancelled = h.cancelled
        /\ k.vclicks = h.vclicks /\ k.prevented = h.prevented
        /\ \A e \in Touch!Nodes : k.taps[e] = h.taps[e]
    BY <1>3, <2>1, <2>4
  <2>6. k.prevented => h.prevented \/ \E o \in r.clickBlockList : o.place = f.place
    BY <2>5
  <2>7. QED
    BY <1>2, <1>3, <2>1, <2>2, <2>3, <2>4, <2>5, <2>6 DEF Ended
<1>4. PICK begun : begun = [s EXCEPT !.blockTouch = TRUE]
  OBVIOUS
<1>5. PICK up : up = Touch!TriggerVirtual(begun, "vmouseup", f.target, f.gesture)
  OBVIOUS
<1>6. PICK clicked : clicked = IF s.didScroll THEN up ELSE Touch!TriggerVirtual(up, "vclick", f.target, f.gesture)
  OBVIOUS
<1>7. PICK blocked : blocked = IF s.didScroll \/ ~Touch!Prevents(s, f.target) THEN clicked
                               ELSE [clicked EXCEPT !.blockMouse = TRUE,
                                        !.clickBlockList = @ \cup {[touchID |-> s.lastTouchID, place |-> f.place]}]
  OBVIOUS
<1>8. CASE ~s.blockTouch /\ r = [blocked EXCEPT !.didScroll = FALSE, !.reset = TRUE]
  <2>1. /\ begun \in Touches /\ IsFiniteSet(begun.tapping) /\ TapsBound(begun)
        /\ SameGesture(begun, s) /\ begun.heard = s.heard /\ begun.tapping = s.tapping
        /\ begun.lastTouchID = s.lastTouchID /\ begun.nextTouchID = s.nextTouchID
        /\ begun.touchIDs = s.touchIDs /\ begun.clickBlockList = s.clickBlockList
        /\ begun.blockMouse = s.blockMouse /\ begun.blockTouch
    BY <1>1, <1>4 DEF Touches, SameGesture, TapsBound
  <2>2. "vmouseup" \in Virtuals /\ "vclick" \in Virtuals
    BY DEF Virtuals
  <2>3. /\ up \in Touches /\ IsFiniteSet(up.tapping) /\ TapsBound(up) /\ SameButHeard(up, begun)
        /\ \A k \in Touch!Gestures \ {f.gesture} : up.heard[k] = begun.heard[k]
        /\ "vmouseup" \in Touch!Flags(begun, f.target) =>
              up.tapping = Touch!Tapping(begun, "vmouseup", f.target, f.gesture)
        /\ "vmouseup" \notin Touch!Flags(begun, f.target) => up = begun
        /\ Deaf(begun, f.target) => up = begun
    BY <1>a, <1>5, <2>1, <2>2, TriggerIs, SMTT(30)
  <2>4. PICK h, k : h = s.heard[f.gesture] /\ k = up.heard[f.gesture]
    OBVIOUS
  <2>5. h \in Hearings /\ k \in Hearings
    BY <1>1, <1>a, <2>3, <2>4 DEF Touches
  <2>6. /\ k.followed = h.followed /\ k.cancelled = h.cancelled /\ k.vclicks = h.vclicks
        /\ k.prevented = h.prevented /\ k.taps = h.taps
    <3>1. CASE "vmouseup" \in Touch!Flags(begun, f.target)
      <4>1. /\ k.followed = h.followed /\ k.cancelled = (h.cancelled \/ FALSE) /\ k.vclicks = h.vclicks
            /\ k.prevented = h.prevented /\ k.taps = h.taps
        BY <1>a, <1>5, <2>1, <2>2, <2>4, <3>1, HearingIs
      <4>2. h.cancelled \in BOOLEAN
        BY <2>5 DEF Hearings
      <4>3. QED
        BY <4>1, <4>2
    <3>2. CASE "vmouseup" \notin Touch!Flags(begun, f.target)
      BY <2>1, <2>3, <2>4, <3>2
    <3>3. QED
      BY <3>1, <3>2
  <2>7. TapsWithin(s, f.target) /\ OneEach(s) => TapsWithin(up, f.target) /\ OneEach(up)
    <3>1. SUFFICES ASSUME TapsWithin(s, f.target), OneEach(s) PROVE TapsWithin(up, f.target) /\ OneEach(up)
      OBVIOUS
    <3>2. TapsWithin(begun, f.target) /\ OneEach(begun)
      BY <2>1, <3>1 DEF TapsWithin, OneEach
    <3>3. CASE up = begun
      BY <3>2, <3>3
    <3>4. CASE up.tapping = Touch!Tapping(begun, "vmouseup", f.target, f.gesture)
      <4>1. /\ \A t \in up.tapping : \E u \in begun.tapping : t.elem = u.elem /\ t.gesture = u.gesture
            /\ \A t, u \in up.tapping : t.elem = u.elem => t = u
        BY <2>1, <3>2, <3>4, TapsStop
      <4>2. QED
        BY <3>2, <4>1 DEF TapsWithin, OneEach
    <3>5. QED
      BY <2>3, <3>3, <3>4
  <2>8. s.tapping = {} => up.tapping = {}
    <3>1. Touch!Reached(begun, f.target) \subseteq begun.tapping
      BY DEF Touch!Reached
    <3>2. begun.tapping = {} => Touch!Tapping(begun, "vmouseup", f.target, f.gesture) = {}
      BY <3>1 DEF Touch!Tapping
    <3>3. QED
      BY <2>1, <2>3, <3>2
  <2>9. (Deaf(begun, f.target) <=> Deaf(s, f.target)) /\ (Deaf(up, f.target) <=> Deaf(s, f.target))
    BY <2>1, <2>3 DEF Deaf, SameGesture, SameButHeard
  <2>10. PICK l : l = clicked.heard[f.gesture]
    OBVIOUS
  <2>11. /\ clicked \in Touches /\ IsFiniteSet(clicked.tapping) /\ TapsBound(clicked) /\ SameButHeard(clicked, up)
         /\ \A i \in Touch!Gestures \ {f.gesture} : clicked.heard[i] = up.heard[i]
         /\ Deaf(s, f.target) => clicked = up
    <3>1. CASE s.didScroll
      BY <1>6, <2>3, <3>1 DEF SameButHeard
    <3>2. CASE ~s.didScroll
      BY <1>a, <1>6, <2>2, <2>3, <2>9, <3>2, TriggerIs, SMTT(30)
    <3>3. QED
      BY <3>1, <3>2
  <2>12. /\ l.followed = k.followed /\ l.cancelled = k.cancelled
         /\ s.didScroll => l.vclicks = k.vclicks
         /\ l.vclicks \in {k.vclicks, k.vclicks + 1}
         /\ l.prevented => k.prevented \/ (~s.didScroll /\ Touch!Prevents(up, f.target))
         /\ TapsWithin(s, f.target) /\ OneEach(s) =>
               \A e \in Touch!Nodes : /\ l.taps[e] \in {k.taps[e], k.taps[e] + 1}
                                      /\ s.tapping = {} => l.taps[e] = k.taps[e]
    <3>1. CASE clicked = up
      BY <2>4, <2>10, <3>1
    <3>2. CASE ~s.didScroll /\ "vclick" \in Touch!Flags(up, f.target)
      <4>1. clicked = Touch!TriggerVirtual(up, "vclick", f.target, f.gesture)
        BY <1>6, <3>2
      <4>2. /\ l.followed = k.followed /\ l.cancelled = (k.cancelled \/ FALSE) /\ l.vclicks = k.vclicks + 1
            /\ l.prevented = (k.prevented \/ Touch!Prevents(up, f.target))
            /\ \A e \in Touch!Nodes : l.taps[e] = k.taps[e] + Touch!Tapped(up, e, f.target)
        BY <1>a, <2>2, <2>3, <2>4, <2>10, <3>2, <4>1, HearingIs
      <4>3. l.cancelled = k.cancelled
        BY <2>5, <4>2 DEF Hearings
      <4>4. TapsWithin(s, f.target) /\ OneEach(s) =>
               \A e \in Touch!Nodes : /\ l.taps[e] \in {k.taps[e], k.taps[e] + 1}
                                      /\ s.tapping = {} => l.taps[e] = k.taps[e]
        <5>1. k.taps \in [Touch!Nodes -> Nat]
          BY <2>5 DEF Hearings
        <5>2. SUFFICES ASSUME TapsWithin(s, f.target), OneEach(s), NEW e \in Touch!Nodes
                       PROVE  /\ l.taps[e] \in {k.taps[e], k.taps[e] + 1}
                              /\ s.tapping = {} => l.taps[e] = k.taps[e]
          OBVIOUS
        <5>3. Touch!Tapped(up, e, f.target) \in {0, 1} /\ (up.tapping = {} => Touch!Tapped(up, e, f.target) = 0)
          BY <2>7, <5>2, TappedOnce
        <5>4. k.taps[e] \in Nat /\ l.taps[e] = k.taps[e] + Touch!Tapped(up, e, f.target)
          BY <4>2, <5>1
        <5>5. QED
          BY <2>8, <5>3, <5>4
      <4>5. QED
        BY <3>2, <4>2, <4>3, <4>4
    <3>3. QED
      <4>1. CASE s.didScroll
        BY <1>6, <3>1, <4>1
      <4>2. CASE ~s.didScroll /\ "vclick" \notin Touch!Flags(up, f.target)
        <5>1. clicked = up
          BY <1>6, <4>2 DEF Touch!TriggerVirtual
        <5>2. QED
          BY <3>1, <5>1
      <4>3. QED
        BY <3>2, <4>1, <4>2
  <2>13. Touch!Prevents(up, f.target) <=> Touch!Prevents(s, f.target)
    BY <2>1, <2>3 DEF Touch!Prevents, SameGesture, SameButHeard
  <2>14. /\ TapsWithin(s, f.target) /\ OneEach(s) /\ ~s.didScroll => clicked.tapping = {}
         /\ s.tapping = {} => clicked.tapping = {}
    <3>1. ASSUME TapsWithin(s, f.target), OneEach(s), ~s.didScroll PROVE clicked.tapping = {}
      <4>1. TapsWithin(up, f.target)
        BY <2>7, <3>1
      <4>2. clicked = Touch!TriggerVirtual(up, "vclick", f.target, f.gesture)
        BY <1>6, <3>1
      <4>3. /\ "vclick" \in Touch!Flags(up, f.target) =>
                 clicked.tapping = Touch!Tapping(up, "vclick", f.target, f.gesture)
            /\ "vclick" \notin Touch!Flags(up, f.target) => clicked = up
        BY <1>a, <2>2, <2>3, <4>2, TriggerIs
      <4>4. CASE up.tapping = {}
        BY <4>1, <4>3, <4>4, TapsGone
      <4>5. CASE up.tapping # {}
        <5>1. PICK t \in up.tapping : t.elem \in Paths[f.target]
          BY <4>1, <4>5 DEF TapsWithin
        <5>2. "vclick" \in Touch!Flags(up, f.target)
          BY <5>1, TapsHaveFlags
        <5>3. QED
          BY <4>1, <4>3, <5>2, TapsGone
      <4>6. QED
        BY <4>4, <4>5
    <3>2. ASSUME s.tapping = {} PROVE clicked.tapping = {}
      <4>1. CASE s.didScroll
        BY <1>6, <2>8, <3>2, <4>1
      <4>2. CASE ~s.didScroll
        BY <3>1, <3>2, <4>2 DEF TapsWithin, OneEach
      <4>3. QED
        BY <4>1, <4>2
    <3>3. QED
      BY <3>1, <3>2
  <2>15. /\ SameGesture(r, clicked) /\ r.heard = clicked.heard /\ r.tapping = clicked.tapping
         /\ r.lastTouchID = clicked.lastTouchID /\ r.nextTouchID = clicked.nextTouchID
         /\ r.touchIDs = clicked.touchIDs /\ r.blockTouch = clicked.blockTouch
         /\ r \in Touches
         /\ \/ r.clickBlockList = clicked.clickBlockList /\ r.blockMouse = clicked.blockMouse
            \/ /\ r.clickBlockList = clicked.clickBlockList \cup {[touchID |-> s.lastTouchID, place |-> f.place]}
               /\ r.blockMouse
         /\ ~s.didScroll /\ Touch!Prevents(s, f.target) =>
               r.clickBlockList = clicked.clickBlockList \cup {[touchID |-> s.lastTouchID, place |-> f.place]}
    <3>1. CASE s.didScroll \/ ~Touch!Prevents(s, f.target)
      <4>1. r = [clicked EXCEPT !.didScroll = FALSE, !.reset = TRUE]
        BY <1>7, <1>8, <3>1
      <4>2. r \in Touches
        BY <2>11, <4>1 DEF Touches
      <4>3. QED
        BY <2>11, <3>1, <4>1, <4>2 DEF Touches, SameGesture
    <3>2. CASE ~s.didScroll /\ Touch!Prevents(s, f.target)
      <4>1. PICK list : list = clicked.clickBlockList \cup {[touchID |-> s.lastTouchID, place |-> f.place]}
        OBVIOUS
      <4>2. s.lastTouchID \in Nat /\ clicked.clickBlockList \subseteq [touchID : Nat, place : Places]
        BY <1>1, <2>11 DEF Touches
      <4>3. list \subseteq [touchID : Nat, place : Places]
        BY <1>a, <4>1, <4>2
      <4>4. blocked = [clicked EXCEPT !.blockMouse = TRUE, !.clickBlockList = list]
        BY <1>7, <3>2, <4>1
      <4>5. r = [clicked EXCEPT !.blockMouse = TRUE, !.clickBlockList = list, !.didScroll = FALSE, !.reset = TRUE]
        BY <1>8, <2>11, <4>4 DEF Touches
      <4>6. r \in Touches
        BY <2>11, <4>3, <4>5 DEF Touches
      <4>7. QED
        BY <2>11, <4>1, <4>5, <4>6 DEF Touches, SameGesture
    <3>3. QED
      BY <3>1, <3>2
  <2>16. /\ SameGesture(r, s) /\ r.blockTouch
         /\ r.lastTouchID = s.lastTouchID /\ r.nextTouchID = s.nextTouchID /\ r.touchIDs = s.touchIDs
         /\ clicked.clickBlockList = s.clickBlockList /\ clicked.blockMouse = s.blockMouse
    BY <2>1, <2>3, <2>11, <2>15 DEF SameGesture, SameButHeard
  <2>17. TouchShape(r)
    BY <2>11, <2>15 DEF TouchShape, TapsBound, SameGesture
  <2>18. Deaf(s, f.target) => r.heard = s.heard /\ r.tapping = s.tapping
    BY <2>1, <2>3, <2>9, <2>11, <2>15
  <2>19. \A i \in Touch!Gestures \ {f.gesture} : r.heard[i] = s.heard[i]
    BY <2>1, <2>3, <2>11, <2>15
  <2>20. PICK new : new = [touchID |-> s.lastTouchID, place |-> f.place]
    OBVIOUS
  <2>21. /\ s.clickBlockList \subseteq r.clickBlockList
         /\ (s.clickBlockList # {} => s.blockMouse) => (r.clickBlockList # {} => r.blockMouse)
         /\ ~s.didScroll /\ Touch!Prevents(s, f.target) => \E o \in r.clickBlockList : o.place = f.place
    BY <2>15, <2>16, <2>20
  <2>22. /\ l.followed = h.followed /\ l.cancelled = h.cancelled
         /\ s.didScroll => l.vclicks = h.vclicks
         /\ l.vclicks \in {h.vclicks, h.vclicks + 1}
         /\ l.prevented => h.prevented \/ \E o \in r.clickBlockList : o.place = f.place
         /\ TapsWithin(s, f.target) /\ OneEach(s) =>
               \A e \in Touch!Nodes : /\ l.taps[e] \in {h.taps[e], h.taps[e] + 1}
                                      /\ s.tapping = {} => l.taps[e] = h.taps[e]
    BY <2>6, <2>12, <2>13, <2>21
  <2>23. l = r.heard[f.gesture]
    BY <2>10, <2>15
  <2>24. QED
    BY <1>2, <1>8, <2>4, <2>14, <2>15, <2>16, <2>17, <2>18, <2>19, <2>21, <2>22, <2>23 DEF Ended
<1>9. QED
  <2>1. CASE ~Touch!Bound(s) \/ s.blockTouch
    <3>1. r = s
      BY <2>1 DEF Touch!Listening, Touch!HandleTouchEnd
    <3>2. ~Touch!Bound(s) => Deaf(s, f.target)
      BY <1>1, <1>a, UnboundIsDeaf
    <3>3. QED
      BY <1>3, <2>1, <3>1, <3>2
  <2>2. CASE Touch!Bound(s) /\ ~s.blockTouch
    <3>1. r = [blocked EXCEPT !.didScroll = FALSE, !.reset = TRUE]
      BY <1>2, <1>4, <1>5, <1>6, <1>7, <2>2 DEF Touch!Listening, Touch!HandleTouchEnd
    <3>2. QED
      BY <1>8, <2>2, <3>1
  <2>3. QED
    BY <2>1, <2>2

\* What a mouse event that is called makes of the record
CalledBack(s, m, r) ==
    /\ TouchShape(r) /\ SameButHeard(r, s)
    /\ Muted(s, m.target) => r = s
    /\ \A k \in Touch!Gestures \ {m.gesture} : r.heard[k] = s.heard[k]
    /\ LET h == s.heard[m.gesture]
           k == r.heard[m.gesture]
       IN  /\ k.cancelled = h.cancelled /\ k.followed = h.followed
           /\ m.next # "click" => k.vclicks = h.vclicks /\ k.prevented = h.prevented /\ k.taps = h.taps
           /\ k.vclicks \in {h.vclicks, h.vclicks + 1}
           /\ k.prevented => h.prevented \/ (Touch!Callable(s, m) /\ Touch!Prevents(s, m.target))
           /\ OneEach(s) =>
                 \A e \in Touch!Nodes : /\ k.taps[e] \in {h.taps[e], h.taps[e] + 1}
                                        /\ s.tapping = {} => k.taps[e] = h.taps[e]
    /\ s.tapping = {} => /\ m.next # "mousedown" => r.tapping = {}
                         /\ r.tapping # {} => Touch!Callable(s, m)
                         /\ \A t \in r.tapping : t.elem \in Paths[m.target] /\ t.gesture = m.gesture
                         /\ OneEach(r)
    /\ TapsWithin(s, m.target) /\ OneEach(s) /\ Touch!Callable(s, m) =>
          /\ m.next = "click" => r.tapping = {}
          /\ m.next = "mouseup" =>
                /\ \A t \in r.tapping : ~t.timer /\ \E u \in s.tapping : t.elem = u.elem /\ t.gesture = u.gesture
                /\ OneEach(r)

LEMMA CallbackIs ==
    ASSUME NEW s, TouchShape(s), NEW m \in MouseEvents, NEW r, r = Touch!MouseCallback(s, m)
    PROVE  CalledBack(s, m, r)
<1>1. s \in Touches /\ IsFiniteSet(s.tapping) /\ TapsBound(s)
  BY DEF TouchShape
<1>2. PICK g \in Touch!Gestures, target \in Touch!Nodes : g = m.gesture /\ target = m.target
  BY DEF MouseEvents
<1>3. PICK h, k : h = s.heard[g] /\ k = r.heard[g]
  OBVIOUS
<1>4. CASE ~Touch!Callable(s, m)
  <2>1. r = s
    BY <1>4 DEF Touch!MouseCallback
  <2>2. SameButHeard(s, s) /\ (s.tapping = {} => OneEach(s))
    BY DEF SameButHeard, OneEach
  <2>3. QED
    BY <1>2, <1>3, <1>4, <2>1, <2>2 DEF CalledBack
<1>5. CASE Touch!Callable(s, m)
  <2>1. PICK type : type = Touch!Virtual[m.next]
    OBVIOUS
  <2>2. /\ m.next = "mousedown" => type = "vmousedown"
        /\ m.next = "mouseup" => type = "vmouseup"
        /\ m.next = "click" => type = "vclick"
        /\ m.next \in {"mousedown", "mouseup", "click"}
    BY <2>1 DEF Touch!Virtual, MouseEvents
  <2>3. type \in Virtuals /\ type # "vmousecancel" /\ (type = "vclick" <=> m.next = "click")
    BY <2>2 DEF Virtuals
  <2>4. r = Touch!TriggerVirtual(s, type, target, g)
    BY <1>2, <1>5, <2>1 DEF Touch!MouseCallback
  <2>5. /\ r \in Touches /\ IsFiniteSet(r.tapping) /\ TapsBound(r) /\ SameButHeard(r, s)
        /\ \A i \in Touch!Gestures \ {g} : r.heard[i] = s.heard[i]
        /\ type \in Touch!Flags(s, target) => r.tapping = Touch!Tapping(s, type, target, g)
        /\ type \notin Touch!Flags(s, target) => r = s
        /\ Deaf(s, target) => r = s
    BY <1>1, <2>3, <2>4, TriggerIs
  <2>6. Muted(s, m.target) => r = s
    BY <1>2, <1>5, <2>5 DEF Muted, Touch!Callable
  <2>7. h \in Hearings
    BY <1>1, <1>3 DEF Touches
  <2>8. /\ k.cancelled = h.cancelled /\ k.followed = h.followed
        /\ m.next # "click" => k.vclicks = h.vclicks /\ k.prevented = h.prevented /\ k.taps = h.taps
        /\ k.vclicks \in {h.vclicks, h.vclicks + 1}
        /\ k.prevented => h.prevented \/ Touch!Prevents(s, target)
        /\ OneEach(s) =>
              \A e \in Touch!Nodes : /\ k.taps[e] \in {h.taps[e], h.taps[e] + 1}
                                     /\ s.tapping = {} => k.taps[e] = h.taps[e]
    <3>1. CASE r = s
      BY <1>3, <3>1
    <3>2. CASE type \in Touch!Flags(s, target)
      <4>1. /\ k.followed = h.followed
            /\ k.cancelled = (h.cancelled \/ FALSE)
            /\ type # "vclick" => k.vclicks = h.vclicks /\ k.prevented = h.prevented /\ k.taps = h.taps
            /\ type = "vclick" =>
                  /\ k.vclicks = h.vclicks + 1
                  /\ k.prevented = (h.prevented \/ Touch!Prevents(s, target))
                  /\ \A e \in Touch!Nodes : k.taps[e] = h.taps[e] + Touch!Tapped(s, e, target)
        BY <1>1, <1>3, <2>3, <2>4, <3>2, HearingIs
      <4>2. k.cancelled = h.cancelled
        BY <2>7, <4>1 DEF Hearings
      <4>3. ASSUME OneEach(s), NEW e \in Touch!Nodes
            PROVE  k.taps[e] \in {h.taps[e], h.taps[e] + 1} /\ (s.tapping = {} => k.taps[e] = h.taps[e])
        <5>1. Touch!Tapped(s, e, target) \in {0, 1} /\ (s.tapping = {} => Touch!Tapped(s, e, target) = 0)
          BY <4>3, TappedOnce
        <5>2. h.taps[e] \in Nat
          BY <2>7 DEF Hearings
        <5>3. CASE type = "vclick"
          BY <4>1, <5>1, <5>2, <5>3
        <5>4. CASE type # "vclick"
          BY <4>1, <5>4
        <5>5. QED
          BY <5>3, <5>4
      <4>4. QED
        BY <2>3, <4>1, <4>2, <4>3
    <3>3. QED
      BY <2>5, <3>1, <3>2
  <2>9. s.tapping = {} => /\ m.next # "mousedown" => r.tapping = {}
                          /\ \A t \in r.tapping : t.elem \in Paths[target] /\ t.gesture = g
                          /\ OneEach(r)
    <3>1. SUFFICES ASSUME s.tapping = {}
                   PROVE  /\ m.next # "mousedown" => r.tapping = {}
                          /\ \A t \in r.tapping : t.elem \in Paths[target] /\ t.gesture = g
                          /\ OneEach(r)
      OBVIOUS
    <3>2. CASE r = s
      BY <3>1, <3>2 DEF OneEach
    <3>3. CASE type = "vmousedown" /\ r.tapping = Touch!Tapping(s, "vmousedown", target, g)
      BY <1>1, <2>2, <3>1, <3>3, TapsBegin DEF OneEach
    <3>4. CASE type = "vmouseup" /\ r.tapping = Touch!Tapping(s, "vmouseup", target, g)
      <4>1. \A t \in r.tapping : \E u \in s.tapping : t.elem = u.elem /\ t.gesture = u.gesture
        BY <1>1, <3>1, <3>4, TapsStop DEF TapsWithin, OneEach
      <4>2. r.tapping = {}
        BY <3>1, <4>1
      <4>3. QED
        BY <4>2 DEF OneEach
    <3>5. CASE type = "vclick" /\ r.tapping = Touch!Tapping(s, "vclick", target, g)
      <4>1. r.tapping = {}
        BY <3>1, <3>5, TapsGone DEF TapsWithin
      <4>2. QED
        BY <4>1 DEF OneEach
    <3>6. QED
      BY <2>2, <2>5, <3>2, <3>3, <3>4, <3>5
  <2>10. TapsWithin(s, target) /\ OneEach(s) =>
            /\ m.next = "click" => r.tapping = {}
            /\ m.next = "mouseup" =>
                  /\ \A t \in r.tapping : ~t.timer /\ \E u \in s.tapping : t.elem = u.elem /\ t.gesture = u.gesture
                  /\ OneEach(r)
    <3>1. SUFFICES ASSUME TapsWithin(s, target), OneEach(s)
                   PROVE  /\ m.next = "click" => r.tapping = {}
                          /\ m.next = "mouseup" =>
                                /\ \A t \in r.tapping : /\ ~t.timer
                                                        /\ \E u \in s.tapping : t.elem = u.elem /\ t.gesture = u.gesture
                                /\ OneEach(r)
      OBVIOUS
    <3>2. CASE s.tapping = {}
      BY <2>9, <3>2
    <3>3. CASE s.tapping # {}
      <4>1. PICK t \in s.tapping : t.elem \in Paths[target]
        BY <3>1, <3>3 DEF TapsWithin
      <4>2. {"vmouseup", "vclick"} \subseteq Touch!Flags(s, target)
        BY <4>1, TapsHaveFlags
      <4>3. m.next = "click" => r.tapping = {}
        BY <2>2, <2>5, <3>1, <4>2, TapsGone
      <4>4. ASSUME m.next = "mouseup"
            PROVE  /\ \A u \in r.tapping : ~u.timer /\ \E v \in s.tapping : u.elem = v.elem /\ u.gesture = v.gesture
                   /\ OneEach(r)
        <5>1. r.tapping = Touch!Tapping(s, "vmouseup", target, g)
          BY <2>2, <2>5, <4>2, <4>4
        <5>2. QED
          BY <1>1, <3>1, <5>1, TapsStop DEF OneEach
      <4>5. QED
        BY <4>3, <4>4
    <3>4. QED
      BY <3>2, <3>3
  <2>11. TouchShape(r)
    BY <2>5 DEF TouchShape
  <2>12. QED
    BY <1>2, <1>3, <1>5, <2>5, <2>6, <2>8, <2>9, <2>10, <2>11 DEF CalledBack
<1>6. QED
  BY <1>4, <1>5

\* What a mouse event makes of the record
Moused(s, m, r) ==
    /\ TouchShape(r) /\ SameButHeard(r, s)
    /\ \A k \in Touch!Gestures \ {m.gesture} : r.heard[k] = s.heard[k]
    /\ LET h == s.heard[m.gesture]
           k == r.heard[m.gesture]
       IN  /\ k.cancelled = h.cancelled
           /\ m.next # "click" => /\ k.vclicks = h.vclicks /\ k.prevented = h.prevented
                                  /\ k.taps = h.taps /\ k.followed = h.followed
           /\ k.vclicks \in {h.vclicks, h.vclicks + 1}
           /\ Muted(s, m.target) => k.vclicks = h.vclicks
           /\ ~h.followed /\ k.followed => ~Touch!Blocks(s, m) /\ (k.prevented => h.prevented)
           /\ OneEach(s) =>
                 \A e \in Touch!Nodes : /\ k.taps[e] \in {h.taps[e], h.taps[e] + 1}
                                        /\ s.tapping = {} => k.taps[e] = h.taps[e]
    /\ Muted(s, m.target) => r.tapping = s.tapping
    /\ s.tapping = {} => /\ m.next # "mousedown" => r.tapping = {}
                         /\ r.tapping # {} => Touch!Callable(s, m)
                         /\ \A t \in r.tapping : t.elem \in Paths[m.target] /\ t.gesture = m.gesture
                         /\ OneEach(r)
    /\ TapsWithin(s, m.target) /\ OneEach(s) /\ Touch!Callable(s, m) =>
          /\ m.next = "click" /\ ~Touch!Blocks(s, m) => r.tapping = {}
          /\ m.next = "mouseup" =>
                /\ \A t \in r.tapping : ~t.timer /\ \E u \in s.tapping : t.elem = u.elem /\ t.gesture = u.gesture
                /\ OneEach(r)

LEMMA MouseIs ==
    ASSUME NEW s, TouchShape(s), NEW m \in MouseEvents, NEW r, r = Touch!MouseEvent(s, m)
    PROVE  Moused(s, m, r)
<1>1. PICK called : called = Touch!MouseCallback(s, m)
  OBVIOUS
<1>c. CalledBack(s, m, called)
  BY <1>1, CallbackIs
<1>2. PICK g \in Touch!Gestures : g = m.gesture
  BY DEF MouseEvents
<1>3. CASE r = called /\ m.next # "click"
  <2>1. PICK h, k : h = s.heard[m.gesture] /\ k = r.heard[m.gesture]
    OBVIOUS
  <2>2. k.vclicks = h.vclicks /\ k.followed = h.followed
    BY <1>c, <1>3, <2>1 DEF CalledBack
  <2>3. QED
    BY <1>c, <1>3, <2>1, <2>2 DEF CalledBack, Moused
<1>4. CASE r = s /\ m.next = "click" /\ Touch!Blocks(s, m)
  <2>1. SameButHeard(r, s)
    BY <1>4 DEF SameButHeard
  <2>2. PICK h : h = s.heard[m.gesture] /\ h = r.heard[m.gesture]
    BY <1>4
  <2>3. s.tapping = {} => OneEach(r)
    BY <1>4 DEF OneEach
  <2>4. QED
    BY <1>4, <2>1, <2>2, <2>3 DEF Moused
<1>5. CASE /\ m.next = "click" /\ ~Touch!Blocks(s, m)
           /\ r = [called EXCEPT !.heard[m.gesture].followed =
                                   ~(Touch!Callable(s, m) /\ Touch!Prevents(s, m.target))]
  <2>1. TouchShape(called) /\ SameButHeard(called, s)
    BY <1>c DEF CalledBack
  <2>2. PICK followed \in BOOLEAN : followed = ~(Touch!Callable(s, m) /\ Touch!Prevents(s, m.target))
    OBVIOUS
  <2>3. called \in Touches /\ called.heard \in [Touch!Gestures -> Hearings]
    BY <2>1 DEF TouchShape, Touches
  <2>4. PICK h, c, k : h = s.heard[g] /\ c = called.heard[g] /\ k = r.heard[g]
    OBVIOUS
  <2>5. c \in Hearings
    BY <2>3, <2>4
  <2>6. PICK heard : heard = [called.heard EXCEPT ![g].followed = followed]
    OBVIOUS
  <2>7. r = [called EXCEPT !.heard = heard]
    BY <1>2, <1>5, <2>2, <2>3, <2>6 DEF Touches
  <2>8. heard[g] = [c EXCEPT !.followed = followed] /\ \A i \in Touch!Gestures \ {g} : heard[i] = called.heard[i]
    BY <2>3, <2>4, <2>6
  <2>9. [c EXCEPT !.followed = followed] \in Hearings
    BY <2>2, <2>5 DEF Hearings
  <2>10. heard \in [Touch!Gestures -> Hearings]
    BY <2>3, <2>4, <2>6, <2>9
  <2>11. r \in Touches /\ r.heard = heard /\ SameButHeard(r, called) /\ r.tapping = called.tapping
    BY <2>3, <2>7, <2>10 DEF Touches, SameButHeard
  <2>12. /\ k.vclicks = c.vclicks /\ k.taps = c.taps /\ k.cancelled = c.cancelled /\ k.prevented = c.prevented
         /\ k.followed = followed
    BY <2>4, <2>5, <2>8, <2>11 DEF Hearings
  <2>13. TouchShape(r) /\ SameButHeard(r, s)
    BY <2>1, <2>11 DEF TouchShape, SameButHeard, TapsBound
  <2>14. \A i \in Touch!Gestures \ {g} : r.heard[i] = s.heard[i]
    BY <1>c, <1>2, <2>8, <2>11 DEF CalledBack
  <2>15. /\ c.cancelled = h.cancelled
         /\ c.vclicks \in {h.vclicks, h.vclicks + 1}
         /\ c.prevented => h.prevented \/ (Touch!Callable(s, m) /\ Touch!Prevents(s, m.target))
         /\ OneEach(s) =>
               \A e \in Touch!Nodes : /\ c.taps[e] \in {h.taps[e], h.taps[e] + 1}
                                      /\ s.tapping = {} => c.taps[e] = h.taps[e]
         /\ Muted(s, m.target) => called = s
    BY <1>c, <1>2, <2>4 DEF CalledBack
  <2>16. Muted(s, m.target) => c.vclicks = h.vclicks
    BY <2>4, <2>15
  <2>17. /\ k.cancelled = h.cancelled
         /\ k.vclicks \in {h.vclicks, h.vclicks + 1}
         /\ Muted(s, m.target) => k.vclicks = h.vclicks
         /\ k.followed => (k.prevented => h.prevented)
         /\ OneEach(s) =>
               \A e \in Touch!Nodes : /\ k.taps[e] \in {h.taps[e], h.taps[e] + 1}
                                      /\ s.tapping = {} => k.taps[e] = h.taps[e]
    BY <2>2, <2>12, <2>15, <2>16
  <2>18. /\ Muted(s, m.target) => called.tapping = s.tapping
         /\ s.tapping = {} => called.tapping = {}
         /\ TapsWithin(s, m.target) /\ OneEach(s) /\ Touch!Callable(s, m) => called.tapping = {}
    BY <1>c, <1>5 DEF CalledBack
  <2>19. r.tapping = {} => OneEach(r)
    BY DEF OneEach
  <2>20. QED
    BY <1>2, <1>5, <2>4, <2>11, <2>13, <2>14, <2>17, <2>18, <2>19 DEF Moused
<1>6. QED
  BY <1>1, <1>3, <1>4, <1>5 DEF Touch!MouseEvent

-----------------------------------------------------------------------------
(* Steps                                                                     *)

\* What a record that is no finger's has
LEMMA NoFingerIs ==
    /\ Touch!NoFinger \in Fingers
    /\ Touch!NoFinger.gesture = 0 /\ Touch!NoFinger.moved = FALSE /\ Touch!NoFinger.fingers = 0
BY PathsAssumption DEF Touch!NoFinger, Fingers, TouchIds

LEMMA SafeShape ==
    ASSUME NEW s, TouchSafe(s)
    PROVE  TouchShape(s)
BY DEF TouchSafe, TouchShape, GesturesApart, TapsBound

\* The finger that is down, and the mouse events to come
LEMMA SafeFinger ==
    ASSUME NEW s, TouchSafe(s), s.finger # Touch!NoFinger
    PROVE  /\ s.finger.target \in Touch!Nodes /\ s.finger.place \in Places
           /\ s.finger.gesture \in Touch!Gestures /\ s.finger.gesture \in 1..s.gestures
           /\ s.finger.fingers \in {1, 2} /\ (s.finger.fingers = 2 => s.finger.two)
<1>1. /\ s.finger.target \in Touch!Nodes /\ s.finger.place \in Places
      /\ s.finger.gesture \in 1..s.gestures
      /\ s.finger.fingers \in {1, 2} /\ (s.finger.fingers = 2 => s.finger.two)
  BY DEF TouchSafe, GesturesApart, FingerIsDown
<1>2. s.gestures \in 0..MaxGestures
  BY DEF TouchSafe, Touches
<1>3. s.finger.gesture \in Touch!Gestures
  BY <1>1, <1>2, PathsAssumption DEF Touch!Gestures
<1>4. QED
  BY <1>1, <1>3

LEMMA TouchInitSafe ==
    ASSUME Touch!Init
    PROVE  TouchInv
<1>0. PICK s, unheard :
         /\ s = touch
         /\ unheard = [vclicks |-> 0, taps |-> [e \in Touch!Nodes |-> 0], cancelled |-> FALSE,
                       prevented |-> FALSE, followed |-> FALSE]
  OBVIOUS
<1>1. PICK layout \in Layouts :
         s = [layout |-> layout, lastTouchID |-> 0, nextTouchID |-> 1, touchIDs |-> [e \in Touch!Nodes |-> 0],
              didScroll |-> FALSE, clickBlockList |-> {}, blockMouse |-> FALSE, blockTouch |-> FALSE,
              reset |-> FALSE, tapping |-> {},
              finger |-> Touch!NoFinger, mouse |-> {}, gestures |-> 0,
              heard |-> [g \in Touch!Gestures |-> unheard],
              overlapped |-> FALSE, late |-> FALSE, elsewhere |-> FALSE, left |-> FALSE]
  BY <1>0 DEF Touch!Init
<1>2. /\ unheard \in Hearings /\ Unheard(unheard) /\ \A e \in Touch!Nodes : unheard.taps[e] = 0
      /\ unheard.vclicks = 0 /\ unheard.prevented = FALSE
  BY <1>0 DEF Hearings, Unheard
<1>3. /\ s.layout = layout /\ s.lastTouchID = 0 /\ s.nextTouchID = 1 /\ s.touchIDs = [e \in Touch!Nodes |-> 0]
      /\ s.didScroll = FALSE /\ s.clickBlockList = {} /\ s.blockMouse = FALSE /\ s.blockTouch = FALSE
      /\ s.reset = FALSE /\ s.tapping = {}
      /\ s.finger = Touch!NoFinger /\ s.mouse = {} /\ s.gestures = 0
      /\ s.heard = [g \in Touch!Gestures |-> unheard]
      /\ s.overlapped = FALSE /\ s.late = FALSE /\ s.elsewhere = FALSE /\ s.left = FALSE
  BY <1>1
<1>4. 0 \in 0..MaxGestures /\ {} \in SUBSET Taps /\ {} \in SUBSET MouseEvents
  BY PathsAssumption
<1>5. s \in Touches
  <2>1. s.heard \in [Touch!Gestures -> Hearings]
    BY <1>2, <1>3
  <2>2. PICK heard, ids : heard = [g \in Touch!Gestures |-> unheard] /\ ids = [e \in Touch!Nodes |-> 0]
    OBVIOUS
  <2>3. heard \in [Touch!Gestures -> Hearings] /\ ids \in [Touch!Nodes -> Nat]
    BY <1>2, <2>2
  <2>4. PICK finger \in Fingers : finger = Touch!NoFinger
    BY NoFingerIs
  <2>5. s = [layout |-> layout, lastTouchID |-> 0, nextTouchID |-> 1, touchIDs |-> ids,
             didScroll |-> FALSE, clickBlockList |-> {}, blockMouse |-> FALSE, blockTouch |-> FALSE,
             reset |-> FALSE, tapping |-> {}, finger |-> finger, mouse |-> {}, gestures |-> 0, heard |-> heard,
             overlapped |-> FALSE, late |-> FALSE, elsewhere |-> FALSE, left |-> FALSE]
    BY <1>1, <2>2, <2>4
  <2>6. QED
    BY <1>4, <2>3, <2>5 DEF Touches
<1>6. IsFiniteSet(s.tapping)
  BY <1>3, FS_EmptySet
<1>7. \A g \in Touch!Gestures : s.heard[g] = unheard
  BY <1>3
<1>8. GesturesApart(s)
  BY <1>2, <1>3, <1>7 DEF GesturesApart, FingerIsDown
<1>9. PreventedWaits(s)
  BY <1>2, <1>3, <1>7 DEF PreventedWaits, FingerIsDown
<1>10. ClickedOnce(s)
  BY <1>2, <1>3, <1>7 DEF ClickedOnce, OneGesture, FingerIsDown
<1>11. TapsRight(s)
  BY <1>2, <1>3, <1>7 DEF TapsRight, TapsHeld, FingerIsDown
<1>12. QED
  BY <1>0, <1>5, <1>6, <1>8, <1>9, <1>10, <1>11 DEF TouchInv, TouchSafe

LEMMA SecondFingerSafe ==
    ASSUME TouchInv, Touch!SecondFinger
    PROVE  TouchInv'
<1>1. PICK s, n : s = touch /\ n = touch'
  OBVIOUS
<1>2. TouchSafe(s)
  BY <1>1 DEF TouchInv
<1>3. s \in Touches /\ GesturesApart(s) /\ PreventedWaits(s) /\ ClickedOnce(s) /\ TapsRight(s)
  BY <1>2 DEF TouchSafe
<1>4. s.finger.fingers = 1 /\ ~s.finger.two /\ n = [s EXCEPT !.finger.fingers = 2, !.finger.two = TRUE]
  BY <1>1 DEF Touch!SecondFinger
<1>5. s.finger # Touch!NoFinger /\ FingerIsDown(s)
  BY <1>4, NoFingerIs DEF FingerIsDown
<1>6. PICK f : f = [s.finger EXCEPT !.fingers = 2, !.two = TRUE]
  OBVIOUS
<1>7. /\ f \in Fingers /\ f.target = s.finger.target /\ f.place = s.finger.place
      /\ f.gesture = s.finger.gesture /\ f.fingers = 2 /\ f.two = TRUE /\ f.moved = s.finger.moved
  <2>1. s.finger \in Fingers
    BY <1>3 DEF Touches
  <2>2. 2 \in 0..2
    OBVIOUS
  <2>3. QED
    BY <1>6, <2>1, <2>2 DEF Fingers
<1>8. f # Touch!NoFinger
  BY <1>7, NoFingerIs
<1>9. n = [s EXCEPT !.finger = f]
  BY <1>3, <1>4, <1>6 DEF Touches
<1>10. /\ n \in Touches /\ n.layout = s.layout /\ n.lastTouchID = s.lastTouchID /\ n.nextTouchID = s.nextTouchID
       /\ n.touchIDs = s.touchIDs /\ n.didScroll = s.didScroll /\ n.clickBlockList = s.clickBlockList
       /\ n.blockMouse = s.blockMouse /\ n.blockTouch = s.blockTouch /\ n.tapping = s.tapping
       /\ n.mouse = s.mouse /\ n.gestures = s.gestures /\ n.heard = s.heard /\ n.overlapped = s.overlapped
       /\ n.late = s.late /\ n.elsewhere = s.elsewhere /\ n.left = s.left /\ n.finger = f
  BY <1>3, <1>7, <1>9 DEF Touches
<1>11. GesturesApart(n)
  BY <1>3, <1>5, <1>7, <1>10 DEF GesturesApart, FingerIsDown
<1>12. PreventedWaits(n)
  BY <1>3, <1>5, <1>7, <1>10 DEF PreventedWaits, FingerIsDown
<1>13. Muted(s, f.target) = Muted(n, f.target) /\ Deaf(s, f.target) = Deaf(n, f.target)
  BY <1>10 DEF Muted, Deaf
<1>14. TouchInTime(n) = TouchInTime(s)
  BY <1>10 DEF TouchInTime
<1>15. ClickedOnce(n)
  <2>1. SUFFICES ASSUME TouchInTime(n) PROVE ClickedOnce(n)
    BY DEF ClickedOnce
  <2>2. OneGesture(s)
    BY <1>3, <1>14, <2>1 DEF ClickedOnce
  <2>3. OneGesture(n)
    BY <1>5, <1>7, <1>8, <1>10, <1>13, <2>2 DEF OneGesture, FingerIsDown
  <2>4. QED
    BY <1>3, <1>10, <1>14, <2>3 DEF ClickedOnce
<1>16. TapsRight(n)
  BY <1>3, <1>5, <1>7, <1>8, <1>10, <1>14 DEF TapsRight, TapsHeld, FingerIsDown, TapsOf, Touch!Callable
<1>17. IsFiniteSet(n.tapping)
  BY <1>2, <1>10 DEF TouchSafe
<1>18. QED
  BY <1>1, <1>10, <1>11, <1>12, <1>15, <1>16, <1>17 DEF TouchInv, TouchSafe

LEMMA ScrollSafe ==
    ASSUME TouchInv, Touch!Scroll
    PROVE  TouchInv'
<1>1. PICK s, n : s = touch /\ n = touch'
  OBVIOUS
<1>2. TouchSafe(s)
  BY <1>1 DEF TouchInv
<1>3. s \in Touches /\ GesturesApart(s) /\ PreventedWaits(s) /\ ClickedOnce(s) /\ TapsRight(s)
  BY <1>2 DEF TouchSafe
<1>4. PICK moved, left \in BOOLEAN :
         /\ moved = (s.finger # Touch!NoFinger)
         /\ left = (s.left \/ (s.tapping # {} /\ ~s.blockTouch /\ ~s.didScroll))
  OBVIOUS
<1>5. PICK f : f = [s.finger EXCEPT !.moved = moved]
  OBVIOUS
<1>6. PICK b : b = [s EXCEPT !.finger = f, !.left = left]
  OBVIOUS
<1>7. n = Touch!Listening(Touch!HandleScroll(b), b)
  <2>1. b = [s EXCEPT !.finger.moved = s.finger # Touch!NoFinger,
                      !.left = @ \/ (s.tapping # {} /\ ~s.blockTouch /\ ~s.didScroll)]
    BY <1>3, <1>4, <1>5, <1>6 DEF Touches
  <2>2. QED
    BY <1>1, <2>1 DEF Touch!Scroll
<1>8. PICK didScroll, reset \in BOOLEAN :
         n = [b EXCEPT !.didScroll = didScroll, !.reset = reset] /\ (b.didScroll => didScroll)
  <2>1. b \in Touches
    <3>1. s.finger \in Fingers
      BY <1>3 DEF Touches
    <3>2. f \in Fingers
      BY <1>4, <1>5, <3>1 DEF Fingers
    <3>3. QED
      BY <1>3, <1>4, <1>6, <3>2 DEF Touches
  <2>2. b = [b EXCEPT !.didScroll = b.didScroll, !.reset = b.reset] /\ b.didScroll \in BOOLEAN /\ b.reset \in BOOLEAN
    BY <2>1 DEF Touches
  <2>3. n = b \/ n = [b EXCEPT !.didScroll = TRUE, !.reset = TRUE]
    BY <1>7 DEF Touch!Listening, Touch!HandleScroll
  <2>4. QED
    BY <2>2, <2>3
<1>9. /\ f \in Fingers /\ f.target = s.finger.target /\ f.place = s.finger.place
      /\ f.gesture = s.finger.gesture /\ f.fingers = s.finger.fingers /\ f.two = s.finger.two
      /\ s.finger = Touch!NoFinger => f = Touch!NoFinger
      /\ s.finger # Touch!NoFinger => f # Touch!NoFinger /\ f.moved
  <2>1. s.finger \in Fingers
    BY <1>3 DEF Touches
  <2>2. /\ f \in Fingers /\ f.target = s.finger.target /\ f.place = s.finger.place
        /\ f.gesture = s.finger.gesture /\ f.fingers = s.finger.fingers /\ f.two = s.finger.two /\ f.moved = moved
    BY <1>4, <1>5, <2>1 DEF Fingers
  <2>3. s.finger = Touch!NoFinger => f = Touch!NoFinger
    <3>1. ASSUME s.finger = Touch!NoFinger PROVE f = Touch!NoFinger
      <4>1. moved = FALSE /\ f = [Touch!NoFinger EXCEPT !.moved = moved]
        BY <1>4, <1>5, <3>1
      <4>2. f = [Touch!NoFinger EXCEPT !.moved = FALSE]
        BY <4>1
      <4>3. QED
        BY <4>2 DEF Touch!NoFinger
    <3>2. QED
      BY <3>1
  <2>4. QED
    BY <1>4, <2>2, <2>3, NoFingerIs
<1>10. /\ n \in Touches /\ n.layout = s.layout /\ n.lastTouchID = s.lastTouchID /\ n.nextTouchID = s.nextTouchID
       /\ n.touchIDs = s.touchIDs /\ n.clickBlockList = s.clickBlockList
       /\ n.blockMouse = s.blockMouse /\ n.blockTouch = s.blockTouch /\ n.tapping = s.tapping
       /\ n.mouse = s.mouse /\ n.gestures = s.gestures /\ n.heard = s.heard /\ n.overlapped = s.overlapped
       /\ n.late = s.late /\ n.elsewhere = s.elsewhere /\ n.left = left /\ n.finger = f
       /\ s.didScroll => n.didScroll
  <2>1. n = [s EXCEPT !.finger = f, !.left = left, !.didScroll = didScroll, !.reset = reset]
        /\ b.didScroll = s.didScroll
    BY <1>3, <1>6, <1>8 DEF Touches
  <2>2. n \in Touches
    BY <1>3, <1>4, <1>8, <1>9, <2>1 DEF Touches
  <2>3. QED
    BY <1>3, <1>8, <2>1, <2>2 DEF Touches
<1>11. GesturesApart(n)
  BY <1>3, <1>9, <1>10 DEF GesturesApart, FingerIsDown
<1>12. PreventedWaits(n)
  BY <1>3, <1>9, <1>10 DEF PreventedWaits, FingerIsDown
<1>13. \A e : (Muted(s, e) <=> Muted(n, e)) /\ (Deaf(s, e) <=> Deaf(n, e))
  BY <1>10 DEF Muted, Deaf
<1>14. TouchInTime(n) <=> TouchInTime(s)
  BY <1>10 DEF TouchInTime
<1>15. ClickedOnce(n)
  <2>1. SUFFICES ASSUME TouchInTime(n) PROVE ClickedOnce(n)
    BY DEF ClickedOnce
  <2>2. OneGesture(s)
    BY <1>3, <1>14, <2>1 DEF ClickedOnce
  <2>3. OneGesture(n)
    BY <1>9, <1>10, <1>13, <2>2 DEF OneGesture, FingerIsDown
  <2>4. QED
    BY <1>3, <1>10, <1>14, <2>3 DEF ClickedOnce
<1>16. TapsRight(n)
  <2>1. SUFFICES ASSUME TouchInTime(n), ~n.left, ~n.elsewhere PROVE TapsHeld(n)
    BY DEF TapsRight
  <2>2. ~s.left /\ (s.tapping # {} => s.blockTouch \/ s.didScroll)
    BY <1>4, <1>10, <2>1
  <2>3. TapsHeld(s)
    BY <1>3, <1>10, <1>14, <2>1, <2>2 DEF TapsRight
  <2>4. FingerIsDown(s) => s.tapping = {}
    BY <2>2, <2>3 DEF TapsHeld
  <2>5. QED
    BY <1>9, <1>10, <2>3, <2>4 DEF TapsHeld, FingerIsDown, TapsOf, Touch!Callable
<1>17. IsFiniteSet(n.tapping)
  BY <1>2, <1>10 DEF TouchSafe
<1>18. QED
  BY <1>1, <1>10, <1>11, <1>12, <1>15, <1>16, <1>17 DEF TouchInv, TouchSafe

LEMMA TouchCancelSafe ==
    ASSUME TouchInv, Touch!TouchCancel
    PROVE  TouchInv'
<1>1. PICK s, n : s = touch /\ n = touch'
  OBVIOUS
<1>2. TouchSafe(s)
  BY <1>1 DEF TouchInv
<1>3. s \in Touches /\ GesturesApart(s) /\ PreventedWaits(s) /\ ClickedOnce(s) /\ TapsRight(s)
  BY <1>2 DEF TouchSafe
<1>4. PICK left \in BOOLEAN : left = (s.left \/ s.tapping # {})
  OBVIOUS
<1>5. s.finger # Touch!NoFinger /\ n = [s EXCEPT !.finger = Touch!NoFinger, !.left = left]
  BY <1>1, <1>3, <1>4 DEF Touch!TouchCancel, Touches
<1>6. PICK none \in Fingers : none = Touch!NoFinger
  BY NoFingerIs
<1>7. /\ n \in Touches /\ n.layout = s.layout /\ n.lastTouchID = s.lastTouchID /\ n.nextTouchID = s.nextTouchID
      /\ n.touchIDs = s.touchIDs /\ n.didScroll = s.didScroll /\ n.clickBlockList = s.clickBlockList
      /\ n.blockMouse = s.blockMouse /\ n.blockTouch = s.blockTouch /\ n.tapping = s.tapping
      /\ n.mouse = s.mouse /\ n.gestures = s.gestures /\ n.heard = s.heard /\ n.overlapped = s.overlapped
      /\ n.late = s.late /\ n.elsewhere = s.elsewhere /\ n.left = left /\ n.finger = Touch!NoFinger
  BY <1>3, <1>4, <1>5, <1>6 DEF Touches
<1>8. \A m \in n.mouse : m.gesture # n.finger.gesture
  BY <1>3, <1>7, NoFingerIs DEF GesturesApart, Touches
<1>9. GesturesApart(n)
  BY <1>3, <1>7, <1>8 DEF GesturesApart, FingerIsDown
<1>10. PreventedWaits(n)
  BY <1>3, <1>7 DEF PreventedWaits, FingerIsDown
<1>11. \A e : Muted(s, e) <=> Muted(n, e)
  BY <1>7 DEF Muted, Deaf
<1>12. TouchInTime(n) <=> TouchInTime(s)
  BY <1>7 DEF TouchInTime
<1>13. ClickedOnce(n)
  BY <1>3, <1>7, <1>11, <1>12 DEF ClickedOnce, OneGesture, FingerIsDown
<1>14. TapsRight(n)
  BY <1>3, <1>4, <1>7, <1>12 DEF TapsRight, TapsHeld, FingerIsDown
<1>15. IsFiniteSet(n.tapping)
  BY <1>2, <1>7 DEF TouchSafe
<1>16. QED
  BY <1>1, <1>7, <1>9, <1>10, <1>13, <1>14, <1>15 DEF TouchInv, TouchSafe

LEMMA PressButtonSafe ==
    ASSUME TouchInv, NEW target \in Touch!Nodes, NEW place \in Places, Touch!PressButton(target, place)
    PROVE  TouchInv'
<1>1. PICK s, n : s = touch /\ n = touch'
  OBVIOUS
<1>2. TouchSafe(s)
  BY <1>1 DEF TouchInv
<1>3. s \in Touches /\ GesturesApart(s) /\ PreventedWaits(s) /\ ClickedOnce(s) /\ TapsRight(s)
  BY <1>2 DEF TouchSafe
<1>0. PICK g, m :
         /\ g = s.gestures + 1
         /\ m = [gesture |-> g, target |-> target, place |-> place, next |-> "mousedown", made |-> FALSE]
  OBVIOUS
<1>4. PICK lapped \in BOOLEAN :
         lapped = (s.overlapped \/ s.mouse # {} \/ s.finger # Touch!NoFinger)
  OBVIOUS
<1>5. s.gestures < MaxGestures /\ n = [s EXCEPT !.gestures = g, !.mouse = @ \cup {m}, !.overlapped = lapped]
  BY <1>0, <1>1, <1>3, <1>4 DEF Touch!PressButton, Touches
<1>6. s.gestures \in Nat /\ g \in 0..MaxGestures /\ g \in Touch!Gestures /\ g > s.gestures
      /\ 1..s.gestures \subseteq 1..g /\ g \in 1..g /\ g \notin 1..s.gestures
  BY <1>0, <1>3, <1>5, PathsAssumption DEF Touches, Touch!Gestures
<1>7. m \in MouseEvents /\ m.gesture = g /\ m.made = FALSE /\ m.next = "mousedown" /\ m.target = target
  BY <1>0, <1>6 DEF MouseEvents
<1>8. /\ n.layout = s.layout /\ n.lastTouchID = s.lastTouchID /\ n.nextTouchID = s.nextTouchID
      /\ n.touchIDs = s.touchIDs /\ n.didScroll = s.didScroll /\ n.clickBlockList = s.clickBlockList
      /\ n.blockMouse = s.blockMouse /\ n.blockTouch = s.blockTouch /\ n.tapping = s.tapping
      /\ n.mouse = s.mouse \cup {m} /\ n.gestures = g /\ n.heard = s.heard /\ n.overlapped = lapped
      /\ n.late = s.late /\ n.elsewhere = s.elsewhere /\ n.left = s.left /\ n.finger = s.finger
  BY <1>3, <1>5 DEF Touches
<1>9. n \in Touches
  <2>1. s.mouse \cup {m} \in SUBSET MouseEvents
    BY <1>3, <1>7 DEF Touches
  <2>2. PICK mouse \in SUBSET MouseEvents : mouse = s.mouse \cup {m}
    BY <2>1
  <2>3. n = [s EXCEPT !.gestures = g, !.mouse = mouse, !.overlapped = lapped]
    BY <1>3, <1>5, <2>2 DEF Touches
  <2>4. QED
    BY <1>3, <1>4, <1>6, <2>2, <2>3 DEF Touches
<1>10. Unheard(s.heard[g])
  BY <1>3, <1>6 DEF GesturesApart
<1>11. m.gesture # s.finger.gesture
  <2>1. CASE s.finger = Touch!NoFinger
    BY <1>0, <1>6, <1>7, <2>1, NoFingerIs
  <2>2. CASE s.finger # Touch!NoFinger
    BY <1>3, <1>6, <1>7, <2>2 DEF GesturesApart, FingerIsDown
  <2>3. QED
    BY <2>1, <2>2
<1>12. GesturesApart(n)
  <2>1. \A i \in Touch!Gestures : i > g => Unheard(s.heard[i])
    <3>1. ASSUME NEW i \in Touch!Gestures, i > g PROVE i > s.gestures
      BY <1>0, <1>6, <3>1 DEF Touch!Gestures
    <3>2. QED
      BY <1>3, <3>1 DEF GesturesApart
  <2>2. \A i \in n.mouse : i.gesture \in 1..g /\ i.gesture # n.finger.gesture
    BY <1>3, <1>6, <1>7, <1>8, <1>11 DEF GesturesApart
  <2>3. \A i, j \in n.mouse : i.gesture = j.gesture => i = j
    BY <1>3, <1>6, <1>7, <1>8 DEF GesturesApart
  <2>4. QED
    BY <1>3, <1>6, <1>7, <1>8, <1>10, <2>1, <2>2, <2>3 DEF GesturesApart, FingerIsDown
<1>13. PreventedWaits(n)
  BY <1>3, <1>7, <1>8, <1>10 DEF PreventedWaits, FingerIsDown, Unheard
<1>14. \A e : Muted(s, e) <=> Muted(n, e)
  BY <1>8 DEF Muted, Deaf
<1>15. TouchInTime(n) => TouchInTime(s) /\ s.mouse = {} /\ s.finger = Touch!NoFinger
  BY <1>4, <1>8 DEF TouchInTime
<1>16. ClickedOnce(n)
  BY <1>3, <1>7, <1>8, <1>10, <1>15 DEF ClickedOnce, OneGesture, FingerIsDown, Unheard
<1>17. TapsRight(n)
  BY <1>3, <1>7, <1>8, <1>15 DEF TapsRight, TapsHeld, FingerIsDown
<1>18. IsFiniteSet(n.tapping)
  BY <1>2, <1>8 DEF TouchSafe
<1>19. QED
  BY <1>1, <1>9, <1>12, <1>13, <1>16, <1>17, <1>18 DEF TouchInv, TouchSafe

LEMMA NoClickSafe ==
    ASSUME TouchInv, NEW m \in touch.mouse, Touch!NoClick(m)
    PROVE  TouchInv'
<1>1. PICK s, n : s = touch /\ n = touch'
  OBVIOUS
<1>2. TouchSafe(s)
  BY <1>1 DEF TouchInv
<1>3. s \in Touches /\ GesturesApart(s) /\ PreventedWaits(s) /\ ClickedOnce(s) /\ TapsRight(s)
  BY <1>2 DEF TouchSafe
<1>4. PICK left \in BOOLEAN : left = (s.left \/ s.tapping # {})
  OBVIOUS
<1>5. n = [s EXCEPT !.mouse = @ \ {m}, !.left = left]
  BY <1>1, <1>3, <1>4 DEF Touch!NoClick, Touches
<1>6. /\ n \in Touches /\ n.layout = s.layout /\ n.lastTouchID = s.lastTouchID /\ n.nextTouchID = s.nextTouchID
      /\ n.touchIDs = s.touchIDs /\ n.didScroll = s.didScroll /\ n.clickBlockList = s.clickBlockList
      /\ n.blockMouse = s.blockMouse /\ n.blockTouch = s.blockTouch /\ n.tapping = s.tapping
      /\ n.mouse = s.mouse \ {m} /\ n.gestures = s.gestures /\ n.heard = s.heard /\ n.overlapped = s.overlapped
      /\ n.late = s.late /\ n.elsewhere = s.elsewhere /\ n.left = left /\ n.finger = s.finger
  BY <1>3, <1>4, <1>5 DEF Touches
<1>7. GesturesApart(n)
  BY <1>3, <1>6 DEF GesturesApart, FingerIsDown
<1>8. PreventedWaits(n)
  BY <1>3, <1>6 DEF PreventedWaits, FingerIsDown
<1>9. \A e : (Muted(s, e) <=> Muted(n, e)) /\ (Deaf(s, e) <=> Deaf(n, e))
  BY <1>6 DEF Muted, Deaf
<1>10. TouchInTime(n) <=> TouchInTime(s)
  BY <1>6 DEF TouchInTime
<1>11. ClickedOnce(n)
  <2>1. SUFFICES ASSUME TouchInTime(n) PROVE ClickedOnce(n)
    BY DEF ClickedOnce
  <2>2. OneGesture(s)
    BY <1>3, <1>10, <2>1 DEF ClickedOnce
  <2>3. OneGesture(n)
    BY <1>6, <1>9, <2>2 DEF OneGesture, FingerIsDown
  <2>4. QED
    BY <1>3, <1>6, <1>10, <2>3 DEF ClickedOnce
<1>12. TapsRight(n)
  BY <1>3, <1>4, <1>6, <1>10 DEF TapsRight, TapsHeld, FingerIsDown
<1>13. IsFiniteSet(n.tapping)
  BY <1>2, <1>6 DEF TouchSafe
<1>14. QED
  BY <1>1, <1>6, <1>7, <1>8, <1>11, <1>12, <1>13 DEF TouchInv, TouchSafe

LEMMA ResetTimerSafe ==
    ASSUME TouchInv, Touch!ResetTimer
    PROVE  TouchInv'
<1>1. PICK s, n : s = touch /\ n = touch'
  OBVIOUS
<1>2. TouchSafe(s)
  BY <1>1 DEF TouchInv
<1>3. s \in Touches /\ GesturesApart(s) /\ PreventedWaits(s) /\ ClickedOnce(s) /\ TapsRight(s)
  BY <1>2 DEF TouchSafe
<1>4. PICK late \in BOOLEAN :
         late = (s.late \/ {m \in s.mouse : m.made} # {} \/ s.finger # Touch!NoFinger)
  OBVIOUS
<1>5. n = [s EXCEPT !.late = late, !.reset = FALSE, !.lastTouchID = 0, !.clickBlockList = {},
                    !.blockMouse = FALSE, !.blockTouch = TRUE]
  <2>1. PICK b : b = [s EXCEPT !.late = late]
    OBVIOUS
  <2>2. n = [b EXCEPT !.reset = FALSE, !.lastTouchID = 0, !.clickBlockList = {},
                      !.blockMouse = FALSE, !.blockTouch = TRUE]
    <3>1. n = Touch!EnableMouse([s EXCEPT !.late = @ \/ {m \in s.mouse : m.made} # {} \/ s.finger # Touch!NoFinger])
      BY <1>1 DEF Touch!ResetTimer, Touch!Made
    <3>2. n = Touch!EnableMouse(b)
      BY <1>3, <1>4, <2>1, <3>1 DEF Touches
    <3>3. QED
      BY <3>2 DEF Touch!EnableMouse
  <2>3. QED
    BY <1>3, <2>1, <2>2 DEF Touches
<1>6. /\ n \in Touches /\ n.layout = s.layout /\ n.lastTouchID = 0 /\ n.nextTouchID = s.nextTouchID
      /\ n.clickBlockList = {} /\ n.blockMouse = FALSE /\ n.tapping = s.tapping
      /\ n.mouse = s.mouse /\ n.gestures = s.gestures /\ n.heard = s.heard /\ n.overlapped = s.overlapped
      /\ n.late = late /\ n.elsewhere = s.elsewhere /\ n.left = s.left /\ n.finger = s.finger
  BY <1>3, <1>4, <1>5 DEF Touches
<1>7. ~n.late => ~s.late /\ s.finger = Touch!NoFinger /\ \A m \in s.mouse : ~m.made /\ Unheard(s.heard[m.gesture])
  BY <1>3, <1>4, <1>6 DEF GesturesApart
<1>8. GesturesApart(n)
  BY <1>3, <1>6 DEF GesturesApart, FingerIsDown
<1>9. PreventedWaits(n)
  BY <1>3, <1>6, <1>7 DEF PreventedWaits, FingerIsDown, Unheard
<1>10. TouchInTime(n) => ~n.late /\ TouchInTime(s)
  BY <1>6, <1>7 DEF TouchInTime
<1>11. ClickedOnce(n)
  BY <1>3, <1>6, <1>7, <1>10 DEF ClickedOnce, OneGesture, FingerIsDown
<1>12. TapsRight(n)
  BY <1>3, <1>6, <1>7, <1>10 DEF TapsRight, TapsHeld, FingerIsDown, TapsOf, Touch!Callable
<1>13. IsFiniteSet(n.tapping)
  BY <1>2, <1>6 DEF TouchSafe
<1>14. QED
  BY <1>1, <1>6, <1>8, <1>9, <1>11, <1>12, <1>13 DEF TouchInv, TouchSafe

LEMMA TapHoldSafe ==
    ASSUME TouchInv, NEW t \in touch.tapping, Touch!TapHold(t)
    PROVE  TouchInv'
<1>1. PICK s, n : s = touch /\ n = touch'
  OBVIOUS
<1>2. TouchSafe(s)
  BY <1>1 DEF TouchInv
<1>3. s \in Touches /\ GesturesApart(s) /\ PreventedWaits(s) /\ ClickedOnce(s) /\ TapsRight(s)
  BY <1>2 DEF TouchSafe
<1>4. PICK u, after : u = [t EXCEPT !.timer = FALSE] /\ after = (s.tapping \ {t}) \cup {u}
  OBVIOUS
<1>5. t \in s.tapping /\ t.timer /\ n = [s EXCEPT !.tapping = after]
  BY <1>1, <1>3, <1>4 DEF Touch!TapHold, Touches
<1>6. u \in Taps /\ u.elem = t.elem /\ u.gesture = t.gesture /\ u.timer = FALSE
  <2>1. t \in Taps
    BY <1>3, <1>5 DEF Touches
  <2>2. QED
    BY <1>4, <2>1 DEF Taps
<1>7. after \in SUBSET Taps /\ IsFiniteSet(after)
  <2>1. s.tapping \in SUBSET Taps
    BY <1>3 DEF Touches
  <2>2. IsFiniteSet(s.tapping \ {t}) /\ IsFiniteSet({u})
    BY <1>2, FS_Subset, FS_Singleton DEF TouchSafe
  <2>3. IsFiniteSet(after)
    BY <1>4, <2>2, FS_Union
  <2>4. QED
    BY <1>4, <1>6, <2>1, <2>3
<1>8. /\ n \in Touches /\ n.layout = s.layout /\ n.lastTouchID = s.lastTouchID /\ n.nextTouchID = s.nextTouchID
      /\ n.touchIDs = s.touchIDs /\ n.didScroll = s.didScroll /\ n.clickBlockList = s.clickBlockList
      /\ n.blockMouse = s.blockMouse /\ n.blockTouch = s.blockTouch /\ n.tapping = after
      /\ n.mouse = s.mouse /\ n.gestures = s.gestures /\ n.heard = s.heard /\ n.overlapped = s.overlapped
      /\ n.late = s.late /\ n.elsewhere = s.elsewhere /\ n.left = s.left /\ n.finger = s.finger
  BY <1>3, <1>5, <1>7 DEF Touches
<1>9. s.tapping # {} /\ u \in after /\ \A v \in after : v = u \/ (v \in s.tapping /\ v # t)
  BY <1>4, <1>5
<1>10. GesturesApart(n)
  BY <1>3, <1>5, <1>6, <1>8, <1>9 DEF GesturesApart, FingerIsDown
<1>11. PreventedWaits(n)
  BY <1>3, <1>8 DEF PreventedWaits, FingerIsDown
<1>12. \A e : (Muted(s, e) <=> Muted(n, e)) /\ (Deaf(s, e) <=> Deaf(n, e))
  BY <1>8 DEF Muted, Deaf
<1>13. TouchInTime(n) <=> TouchInTime(s)
  BY <1>8 DEF TouchInTime
<1>14. ClickedOnce(n)
  <2>1. SUFFICES ASSUME TouchInTime(n) PROVE ClickedOnce(n)
    BY DEF ClickedOnce
  <2>2. OneGesture(s)
    BY <1>3, <1>13, <2>1 DEF ClickedOnce
  <2>3. OneGesture(n)
    BY <1>8, <1>12, <2>2 DEF OneGesture, FingerIsDown
  <2>4. QED
    BY <1>3, <1>8, <1>13, <2>3 DEF ClickedOnce
<1>15. TapsRight(n)
  <2>1. SUFFICES ASSUME TouchInTime(n), ~n.left, ~n.elsewhere PROVE TapsHeld(n)
    BY DEF TapsRight
  <2>2. TapsHeld(s)
    BY <1>3, <1>8, <1>13, <2>1 DEF TapsRight
  <2>3. ASSUME NEW e, TapsOf(s, e) PROVE TapsOf(n, e)
    BY <1>5, <1>6, <1>8, <1>9, <2>3 DEF TapsOf
  <2>4. \A m \in s.mouse : Touch!Callable(n, m) <=> Touch!Callable(s, m)
    BY <1>8 DEF Touch!Callable
  <2>5. (\A v \in s.tapping : ~v.timer) => \A v \in after : ~v.timer
    BY <1>5
  <2>6. QED
    BY <1>8, <1>9, <2>2, <2>3, <2>4, <2>5 DEF TapsHeld, FingerIsDown
<1>16. QED
  BY <1>1, <1>7, <1>8, <1>10, <1>11, <1>14, <1>15 DEF TouchInv, TouchSafe

LEMMA TouchStartSafe ==
    ASSUME TouchInv, NEW target \in Touch!Nodes, NEW place \in Places, Touch!TouchStart(target, place)
    PROVE  TouchInv'
<1>1. PICK s, n : s = touch /\ n = touch'
  OBVIOUS
<1>2. TouchSafe(s)
  BY <1>1 DEF TouchInv
<1>3. s \in Touches /\ GesturesApart(s) /\ PreventedWaits(s) /\ ClickedOnce(s) /\ TapsRight(s)
  BY <1>2 DEF TouchSafe
<1>4. PICK g, f :
         /\ g = s.gestures + 1
         /\ f = [Touch!NoFinger EXCEPT !.target = target, !.place = place, !.gesture = g, !.fingers = 1]
  OBVIOUS
<1>5. PICK lapped \in BOOLEAN : lapped = (s.overlapped \/ s.mouse # {})
  OBVIOUS
<1>6. PICK b : b = [s EXCEPT !.gestures = g, !.finger = f, !.overlapped = lapped]
  OBVIOUS
<1>7. s.finger = Touch!NoFinger /\ s.gestures < MaxGestures /\ n = Touch!Listening(Touch!HandleTouchStart(b), b)
  <2>1. b = [s EXCEPT !.gestures = g, !.finger = f, !.overlapped = @ \/ s.mouse # {}]
    BY <1>3, <1>5, <1>6 DEF Touches
  <2>2. QED
    BY <1>1, <1>4, <2>1 DEF Touch!TouchStart
<1>8. s.gestures \in Nat /\ g \in 0..MaxGestures /\ g \in Touch!Gestures /\ g > s.gestures
      /\ 1..s.gestures \subseteq 1..g /\ g \in 1..g /\ g \notin 1..s.gestures /\ g # 0
  BY <1>3, <1>4, <1>7, PathsAssumption DEF Touches, Touch!Gestures
<1>9. /\ f \in Fingers /\ f.target = target /\ f.place = place /\ f.gesture = g /\ f.fingers = 1
      /\ f.two = FALSE /\ f.moved = FALSE
  <2>1. f = [target |-> target, place |-> place, gesture |-> g, fingers |-> 1, moved |-> FALSE, two |-> FALSE]
    BY <1>4 DEF Touch!NoFinger
  <2>2. target \in TouchIds /\ place \in Places \cup {"none"} /\ 1 \in 0..2
    BY DEF TouchIds
  <2>3. QED
    BY <1>8, <2>1, <2>2 DEF Fingers
<1>10. f # Touch!NoFinger
  BY <1>8, <1>9, NoFingerIs
<1>11. /\ b \in Touches /\ b.layout = s.layout /\ b.lastTouchID = s.lastTouchID /\ b.nextTouchID = s.nextTouchID
       /\ b.touchIDs = s.touchIDs /\ b.clickBlockList = s.clickBlockList
       /\ b.blockMouse = s.blockMouse /\ b.tapping = s.tapping
       /\ b.mouse = s.mouse /\ b.gestures = g /\ b.heard = s.heard /\ b.overlapped = lapped
       /\ b.late = s.late /\ b.elsewhere = s.elsewhere /\ b.left = s.left /\ b.finger = f
  BY <1>3, <1>5, <1>6, <1>8, <1>9 DEF Touches
<1>12. TouchShape(b)
  BY <1>2, <1>11, SafeShape DEF TouchShape, TapsBound
<1>13. /\ TouchShape(n) /\ SameGesture(n, b)
       /\ n.heard = b.heard /\ n.clickBlockList = b.clickBlockList /\ n.blockMouse = b.blockMouse
       /\ Deaf(b, target) => n = b
       /\ ~Deaf(b, target) =>
             /\ n.lastTouchID = b.nextTouchID /\ n.nextTouchID = b.nextTouchID + 1
             /\ n.touchIDs[target] = n.lastTouchID
             /\ ~n.blockTouch /\ ~n.didScroll
             /\ b.tapping = {} => /\ \A t \in n.tapping : t.elem \in Paths[target] /\ t.gesture = g
                                  /\ OneEach(n)
  <2>1. b.finger.target = target /\ b.finger.gesture = g
    BY <1>9, <1>11
  <2>2. QED
    BY <1>7, <1>8, <1>12, <2>1, StartIs
<1>14. /\ n.layout = s.layout /\ n.finger = f /\ n.mouse = s.mouse /\ n.gestures = g /\ n.heard = s.heard
       /\ n.clickBlockList = s.clickBlockList /\ n.blockMouse = s.blockMouse
       /\ n.overlapped = lapped /\ n.late = s.late /\ n.elsewhere = s.elsewhere /\ n.left = s.left
  BY <1>11, <1>13 DEF SameGesture
<1>15. n.nextTouchID \in Nat /\ n.nextTouchID # 0 /\ b.nextTouchID # 0
  BY <1>3, <1>11, <1>13 DEF Touches, GesturesApart
<1>16. Unheard(s.heard[g])
  BY <1>3, <1>8 DEF GesturesApart
<1>17. Deaf(n, target) <=> Deaf(b, target)
  BY <1>11, <1>14 DEF Deaf
<1>18. Muted(n, target)
  BY <1>13, <1>15, <1>17 DEF Muted
<1>19. GesturesApart(n)
  <2>1. \A i \in Touch!Gestures : i > g => Unheard(s.heard[i])
    <3>1. ASSUME NEW i \in Touch!Gestures, i > g PROVE i > s.gestures
      BY <1>4, <1>8, <3>1 DEF Touch!Gestures
    <3>2. QED
      BY <1>3, <3>1 DEF GesturesApart
  <2>2. \A i \in n.mouse : i.gesture \in 1..g /\ i.gesture # n.finger.gesture
    BY <1>3, <1>8, <1>9, <1>14 DEF GesturesApart
  <2>3. \A t \in n.tapping : t.elem \in n.layout.taps
    BY <1>13 DEF TouchShape, TapsBound
  <2>4. QED
    BY <1>3, <1>8, <1>9, <1>14, <1>15, <2>1, <2>2, <2>3 DEF GesturesApart, FingerIsDown
<1>20. PreventedWaits(n)
  BY <1>3, <1>9, <1>14, <1>16 DEF PreventedWaits, FingerIsDown, Unheard
<1>21. TouchInTime(n) => TouchInTime(s) /\ s.mouse = {}
  BY <1>5, <1>14 DEF TouchInTime
<1>22. ClickedOnce(n)
  <2>1. SUFFICES ASSUME TouchInTime(n) PROVE ClickedOnce(n)
    BY DEF ClickedOnce
  <2>2. OneGesture(n)
    BY <1>9, <1>13, <1>14, <1>16, <1>17, <1>18, <1>21, <2>1 DEF OneGesture, Unheard
  <2>3. QED
    BY <1>3, <1>14, <1>21, <2>1, <2>2 DEF ClickedOnce
<1>23. TapsRight(n)
  <2>1. SUFFICES ASSUME TouchInTime(n), ~n.left, ~n.elsewhere PROVE TapsHeld(n)
    BY DEF TapsRight
  <2>2. TapsHeld(s)
    BY <1>3, <1>14, <1>21, <2>1 DEF TapsRight
  <2>3. s.tapping = {}
    BY <1>7, <1>21, <2>1, <2>2 DEF TapsHeld
  <2>4. n.tapping # {} => ~n.blockTouch /\ ~n.didScroll /\ TapsOf(n, target)
    BY <1>11, <1>13, <1>14, <2>3 DEF TapsOf, OneEach
  <2>5. QED
    BY <1>9, <1>10, <1>14, <1>16, <1>21, <2>1, <2>2, <2>4 DEF TapsHeld, FingerIsDown, Unheard
<1>24. QED
  BY <1>1, <1>13, <1>19, <1>20, <1>22, <1>23 DEF TouchInv, TouchSafe, TouchShape

LEMMA TouchMoveSafe ==
    ASSUME TouchInv, NEW far \in BOOLEAN, Touch!TouchMove(far)
    PROVE  TouchInv'
<1>1. PICK s, n : s = touch /\ n = touch'
  OBVIOUS
<1>2. TouchSafe(s)
  BY <1>1 DEF TouchInv
<1>3. s \in Touches /\ GesturesApart(s) /\ PreventedWaits(s) /\ ClickedOnce(s) /\ TapsRight(s)
  BY <1>2 DEF TouchSafe
<1>4. PICK moved \in BOOLEAN : moved = (s.finger.moved \/ far)
  OBVIOUS
<1>5. PICK f : f = [s.finger EXCEPT !.moved = moved]
  OBVIOUS
<1>6. PICK b : b = [s EXCEPT !.finger = f]
  OBVIOUS
<1>7. s.finger # Touch!NoFinger /\ n = Touch!Listening(Touch!HandleTouchMove(b, far), b)
  <2>1. b = [s EXCEPT !.finger.moved = @ \/ far]
    <3>1. s.finger \in Fingers
      BY <1>3 DEF Touches
    <3>2. f = [s.finger EXCEPT !.moved = @ \/ far]
      BY <1>4, <1>5, <3>1 DEF Fingers
    <3>3. QED
      BY <1>3, <1>6, <3>2 DEF Touches
  <2>2. QED
    BY <1>1, <2>1 DEF Touch!TouchMove
<1>8. PICK g \in Touch!Gestures : g = s.finger.gesture
  BY <1>2, <1>7, SafeFinger
<1>9. /\ f \in Fingers /\ f.target = s.finger.target /\ f.place = s.finger.place
      /\ f.gesture = g /\ f.fingers = s.finger.fingers /\ f.two = s.finger.two /\ f.moved = moved
      /\ s.finger.moved => moved
  <2>1. s.finger \in Fingers
    BY <1>3 DEF Touches
  <2>2. QED
    BY <1>4, <1>5, <1>8, <2>1 DEF Fingers
<1>10. PICK target \in Touch!Nodes : target = s.finger.target
  BY <1>2, <1>7, SafeFinger
<1>11. f # Touch!NoFinger /\ FingerIsDown(s) /\ g \in 1..s.gestures
  <2>1. g \in 1..s.gestures
    BY <1>2, <1>7, <1>8, SafeFinger
  <2>2. f.gesture # 0
    BY <1>9, <2>1
  <2>3. QED
    BY <1>7, <2>1, <2>2, NoFingerIs DEF FingerIsDown
<1>12. /\ b \in Touches /\ b.layout = s.layout /\ b.lastTouchID = s.lastTouchID /\ b.nextTouchID = s.nextTouchID
       /\ b.touchIDs = s.touchIDs /\ b.clickBlockList = s.clickBlockList /\ b.didScroll = s.didScroll
       /\ b.blockMouse = s.blockMouse /\ b.blockTouch = s.blockTouch /\ b.tapping = s.tapping
       /\ b.mouse = s.mouse /\ b.gestures = s.gestures /\ b.heard = s.heard /\ b.overlapped = s.overlapped
       /\ b.late = s.late /\ b.elsewhere = s.elsewhere /\ b.left = s.left /\ b.finger = f
  BY <1>3, <1>6, <1>9 DEF Touches
<1>13. TouchShape(b)
  BY <1>2, <1>12, SafeShape DEF TouchShape, TapsBound
<1>14. b.finger.target = target /\ b.finger.gesture = g
  BY <1>9, <1>10, <1>12
<1>15. Deaf(b, target) <=> Deaf(s, target)
  BY <1>12 DEF Deaf
<1>16. /\ TouchShape(n) /\ SameGesture(n, b)
       /\ n.clickBlockList = s.clickBlockList /\ n.blockMouse = s.blockMouse /\ n.blockTouch = s.blockTouch
       /\ n.lastTouchID = s.lastTouchID /\ n.nextTouchID = s.nextTouchID /\ n.touchIDs = s.touchIDs
       /\ s.didScroll => n.didScroll
       /\ \A k \in Touch!Gestures :
             /\ n.heard[k].vclicks = s.heard[k].vclicks /\ n.heard[k].taps = s.heard[k].taps
             /\ n.heard[k].prevented = s.heard[k].prevented /\ n.heard[k].followed = s.heard[k].followed
             /\ n.heard[k].cancelled => \/ s.heard[k].cancelled
                                        \/ k = g /\ far /\ n.didScroll /\ ~s.blockTouch /\ ~Deaf(s, target)
       /\ TapsWithin(s, target) =>
             n.tapping = {} \/ (n.tapping = s.tapping /\ (s.blockTouch \/ n.didScroll = s.didScroll))
  <2>1. TapsWithin(s, target) => TapsWithin(b, target)
    BY <1>12 DEF TapsWithin
  <2>2. /\ TouchShape(n) /\ SameGesture(n, b)
        /\ n.clickBlockList = b.clickBlockList /\ n.blockMouse = b.blockMouse /\ n.blockTouch = b.blockTouch
        /\ n.lastTouchID = b.lastTouchID /\ n.nextTouchID = b.nextTouchID /\ n.touchIDs = b.touchIDs
        /\ b.didScroll => n.didScroll
        /\ \A k \in Touch!Gestures :
              /\ n.heard[k].vclicks = b.heard[k].vclicks /\ n.heard[k].taps = b.heard[k].taps
              /\ n.heard[k].prevented = b.heard[k].prevented /\ n.heard[k].followed = b.heard[k].followed
              /\ n.heard[k].cancelled => \/ b.heard[k].cancelled
                                         \/ k = g /\ far /\ n.didScroll /\ ~b.blockTouch /\ ~Deaf(b, target)
        /\ TapsWithin(b, target) =>
              n.tapping = {} \/ (n.tapping = b.tapping /\ (b.blockTouch \/ n.didScroll = b.didScroll))
    BY <1>7, <1>13, <1>14, MoveIs
  <2>3. QED
    BY <1>12, <1>15, <2>1, <2>2
<1>17. /\ n.layout = s.layout /\ n.finger = f /\ n.mouse = s.mouse /\ n.gestures = s.gestures
       /\ n.overlapped = s.overlapped /\ n.late = s.late /\ n.elsewhere = s.elsewhere /\ n.left = s.left
  BY <1>12, <1>16 DEF SameGesture
<1>18. ASSUME NEW k \in Touch!Gestures \ {g}, Unheard(s.heard[k]) PROVE Unheard(n.heard[k])
  BY <1>16, <1>18 DEF Unheard
<1>19. \A m \in s.mouse : m.gesture \in Touch!Gestures \ {g}
  BY <1>3, <1>8 DEF GesturesApart, Touches, MouseEvents
<1>20. GesturesApart(n)
  <2>1. \A k \in Touch!Gestures : k > s.gestures => k # g
    BY <1>3, <1>11 DEF Touches
  <2>2. \A t \in n.tapping : t.elem \in n.layout.taps
    BY <1>16 DEF TouchShape, TapsBound
  <2>3. \A k \in Touch!Gestures : k > n.gestures => Unheard(n.heard[k])
    BY <1>3, <1>17, <1>18, <2>1 DEF GesturesApart
  <2>4. \A m \in n.mouse : ~m.made => Unheard(n.heard[m.gesture])
    BY <1>3, <1>17, <1>18, <1>19 DEF GesturesApart
  <2>5. QED
    BY <1>3, <1>9, <1>8, <1>11, <1>16, <1>17, <2>2, <2>3, <2>4 DEF GesturesApart, FingerIsDown
<1>21. PreventedWaits(n)
  BY <1>3, <1>8, <1>9, <1>11, <1>16, <1>17, <1>19 DEF PreventedWaits, FingerIsDown
<1>22. (Muted(s, target) <=> Muted(n, target)) /\ (Deaf(s, target) <=> Deaf(n, target))
  BY <1>16, <1>17 DEF Muted, Deaf
<1>23. TouchInTime(n) <=> TouchInTime(s)
  BY <1>17 DEF TouchInTime
<1>24. ClickedOnce(n)
  <2>1. SUFFICES ASSUME TouchInTime(n) PROVE ClickedOnce(n)
    BY DEF ClickedOnce
  <2>2. OneGesture(s)
    BY <1>3, <1>23, <2>1 DEF ClickedOnce
  <2>3. PICK h, k : h = s.heard[g] /\ k = n.heard[g]
    OBVIOUS
  <2>4. /\ s.mouse = {} /\ g = s.gestures /\ Muted(s, target)
        /\ Deaf(s, target) => h.vclicks = 0 /\ ~h.cancelled
        /\ ~Deaf(s, target) =>
              /\ s.blockTouch => s.finger.two
              /\ ~s.blockTouch => h.vclicks = 0
              /\ h.cancelled => s.finger.moved /\ (s.didScroll \/ s.blockTouch)
    BY <1>8, <1>10, <1>11, <2>2, <2>3 DEF OneGesture
  <2>5. k.vclicks = h.vclicks /\ (k.cancelled => h.cancelled \/ (far /\ n.didScroll /\ ~s.blockTouch /\ ~Deaf(s, target)))
    BY <1>16, <2>3
  <2>6. OneGesture(n)
    BY <1>4, <1>9, <1>10, <1>16, <1>17, <1>22, <2>3, <2>4, <2>5 DEF OneGesture
  <2>7. ASSUME NEW i \in Touch!Gestures
        PROVE  /\ ~n.elsewhere => n.heard[i].vclicks <= 1
               /\ ~(n.heard[i].vclicks > 0 /\ n.heard[i].cancelled)
    <3>1. /\ ~s.elsewhere => s.heard[i].vclicks <= 1
          /\ ~(s.heard[i].vclicks > 0 /\ s.heard[i].cancelled)
      BY <1>3, <1>23, <2>1 DEF ClickedOnce
    <3>2. CASE i # g
      BY <1>16, <1>17, <3>1, <3>2
    <3>3. CASE i = g
      BY <1>17, <2>3, <2>4, <2>5, <3>1, <3>3
    <3>4. QED
      BY <3>2, <3>3
  <2>8. QED
    BY <2>6, <2>7 DEF ClickedOnce
<1>25. TapsRight(n)
  <2>1. SUFFICES ASSUME TouchInTime(n), ~n.left, ~n.elsewhere PROVE TapsHeld(n)
    BY DEF TapsRight
  <2>2. TapsHeld(s) /\ OneGesture(s)
    BY <1>3, <1>17, <1>23, <2>1 DEF TapsRight, ClickedOnce
  <2>3. s.mouse = {} /\ s.gestures \in Touch!Gestures
    BY <1>8, <1>11, <2>2 DEF OneGesture
  <2>4. s.tapping # {} => ~s.blockTouch /\ ~s.didScroll /\ TapsOf(s, target)
    BY <1>10, <1>11, <2>2 DEF TapsHeld
  <2>5. TapsWithin(s, target)
    BY <2>4 DEF TapsWithin, TapsOf
  <2>6. n.tapping # {} => n.tapping = s.tapping /\ ~n.blockTouch /\ ~n.didScroll
    BY <1>16, <2>4, <2>5
  <2>7. \A k \in Touch!Gestures : n.heard[k].taps = s.heard[k].taps
    BY <1>16
  <2>8. n.tapping # {} => TapsOf(n, target)
    BY <1>17, <2>4, <2>6 DEF TapsOf
  <2>9. QED
    BY <1>9, <1>10, <1>11, <1>17, <2>2, <2>3, <2>6, <2>7, <2>8 DEF TapsHeld, FingerIsDown
<1>26. QED
  BY <1>1, <1>16, <1>20, <1>21, <1>24, <1>25 DEF TouchInv, TouchSafe, TouchShape

LEMMA TouchEndSafe ==
    ASSUME TouchInv, Touch!TouchEnd
    PROVE  TouchInv'
<1>1. PICK s, n : s = touch /\ n = touch'
  OBVIOUS
<1>2. TouchSafe(s)
  BY <1>1 DEF TouchInv
<1>3. s \in Touches /\ GesturesApart(s) /\ PreventedWaits(s) /\ ClickedOnce(s) /\ TapsRight(s)
  BY <1>2 DEF TouchSafe
<1>4. PICK a, f, left :
         /\ a = Touch!Listening(Touch!HandleTouchEnd(s), s) /\ f = s.finger
         /\ left = (IF f.fingers = 2 THEN [f EXCEPT !.fingers = 1] ELSE Touch!NoFinger)
  OBVIOUS
<1>5. f # Touch!NoFinger /\ FingerIsDown(s)
  BY <1>1, <1>4 DEF Touch!TouchEnd, FingerIsDown
<1>6. PICK g \in Touch!Gestures, target \in Touch!Nodes, place \in Places :
         g = f.gesture /\ target = f.target /\ place = f.place
  BY <1>2, <1>4, <1>5, SafeFinger
<1>7. g \in 1..s.gestures /\ f.fingers \in {1, 2} /\ (f.fingers = 2 => f.two)
  BY <1>2, <1>4, <1>5, <1>6, SafeFinger
<1>8. TouchShape(s)
  BY <1>2, SafeShape
<1>9. PICK h, k : h = s.heard[g] /\ k = a.heard[g]
  OBVIOUS
<1>10. /\ TouchShape(a) /\ SameGesture(a, s)
       /\ a.lastTouchID = s.lastTouchID /\ a.nextTouchID = s.nextTouchID /\ a.touchIDs = s.touchIDs
       /\ Deaf(s, target) \/ s.blockTouch => a.heard = s.heard /\ a.tapping = s.tapping
       /\ ~Deaf(s, target) => a.blockTouch
       /\ s.clickBlockList \subseteq a.clickBlockList
       /\ (s.clickBlockList # {} => s.blockMouse) => (a.clickBlockList # {} => a.blockMouse)
       /\ \A i \in Touch!Gestures \ {g} : a.heard[i] = s.heard[i]
       /\ k.followed = h.followed /\ k.cancelled = h.cancelled
       /\ s.didScroll => k.vclicks = h.vclicks
       /\ k.vclicks \in {h.vclicks, h.vclicks + 1}
       /\ k.prevented => h.prevented \/ \E o \in a.clickBlockList : o.place = place
       /\ TapsWithin(s, target) /\ OneEach(s) =>
             \A e \in Touch!Nodes : /\ k.taps[e] \in {h.taps[e], h.taps[e] + 1}
                                    /\ s.tapping = {} => k.taps[e] = h.taps[e]
       /\ s.tapping = {} => a.tapping = {}
       /\ TapsWithin(s, target) /\ OneEach(s) /\ ~s.didScroll /\ ~s.blockTouch => a.tapping = {}
  <2>1. s.finger.target = target /\ s.finger.gesture = g /\ s.finger.place = place
    BY <1>4, <1>6
  <2>2. Ended(s, a)
    BY <1>4, <1>8, <2>1, EndIs
  <2>3. QED
    BY <1>9, <2>1, <2>2 DEF Ended
<1>11. PICK mouse, elsewhere :
          /\ n = [a EXCEPT !.finger = left, !.mouse = mouse, !.elsewhere = elsewhere]
          /\ \/ mouse = s.mouse /\ elsewhere = s.elsewhere
             \/ /\ ~f.moved /\ ~f.two
                /\ \E to \in Touch!Nodes :
                      /\ mouse = s.mouse \cup {[gesture |-> g, target |-> to, place |-> place,
                                                next |-> "mousedown", made |-> TRUE]}
                      /\ elsewhere = (s.elsewhere \/ to # target)
  <2>1. a.finger = f /\ a.mouse = s.mouse /\ a.elsewhere = s.elsewhere
    BY <1>4, <1>10 DEF SameGesture
  <2>2. PICK after : after = [a EXCEPT !.finger = left]
    OBVIOUS
  <2>3. \/ n = after
        \/ /\ ~f.moved /\ ~f.two
           /\ \E to \in Touch!Nodes :
                 n = [after EXCEPT !.mouse = @ \cup {[gesture |-> g, target |-> to, place |-> place,
                                                      next |-> "mousedown", made |-> TRUE]},
                                   !.elsewhere = @ \/ to # target]
    <3>1. after = [a EXCEPT !.finger = IF f.fingers = 2 THEN [@ EXCEPT !.fingers = 1] ELSE Touch!NoFinger]
      BY <1>4, <1>10, <2>1, <2>2 DEF TouchShape, Touches
    <3>2. QED
      BY <1>1, <1>4, <1>6, <3>1 DEF Touch!TouchEnd
  <2>4. a \in Touches
    BY <1>10 DEF TouchShape
  <2>5. after.mouse = s.mouse /\ after.elsewhere = s.elsewhere
        /\ after = [a EXCEPT !.finger = left, !.mouse = s.mouse, !.elsewhere = s.elsewhere]
    BY <2>1, <2>2, <2>4 DEF Touches
  <2>6. CASE n = after
    BY <2>5, <2>6
  <2>7. ASSUME NEW to \in Touch!Nodes, ~f.moved, ~f.two,
               n = [after EXCEPT !.mouse = @ \cup {[gesture |-> g, target |-> to, place |-> place,
                                                    next |-> "mousedown", made |-> TRUE]},
                                 !.elsewhere = @ \/ to # target]
        PROVE  \E mouse, elsewhere :
          /\ n = [a EXCEPT !.finger = left, !.mouse = mouse, !.elsewhere = elsewhere]
          /\ ~f.moved /\ ~f.two
          /\ \E at \in Touch!Nodes :
                /\ mouse = s.mouse \cup {[gesture |-> g, target |-> at, place |-> place,
                                          next |-> "mousedown", made |-> TRUE]}
                /\ elsewhere = (s.elsewhere \/ at # target)
    <3>1. PICK mouse, elsewhere :
             /\ mouse = s.mouse \cup {[gesture |-> g, target |-> to, place |-> place,
                                       next |-> "mousedown", made |-> TRUE]}
             /\ elsewhere = (s.elsewhere \/ to # target)
      OBVIOUS
    <3>2. n = [after EXCEPT !.mouse = mouse, !.elsewhere = elsewhere]
      BY <2>5, <2>7, <3>1
    <3>3. n = [a EXCEPT !.finger = left, !.mouse = mouse, !.elsewhere = elsewhere]
      BY <2>2, <2>4, <3>2 DEF Touches
    <3>4. \E at \in Touch!Nodes :
             /\ mouse = s.mouse \cup {[gesture |-> g, target |-> at, place |-> place,
                                       next |-> "mousedown", made |-> TRUE]}
             /\ elsewhere = (s.elsewhere \/ at # target)
      BY <3>1
    <3> WITNESS mouse, elsewhere
    <3>5. QED
      BY <2>7, <3>3, <3>4
  <2>8. QED
    BY <2>3, <2>6, <2>7
<1>12. /\ left \in Fingers
       /\ left # Touch!NoFinger =>
             /\ f.fingers = 2 /\ f.two /\ left.target = target /\ left.place = place /\ left.gesture = g
             /\ left.fingers = 1 /\ left.two = f.two /\ left.moved = f.moved
       /\ ~f.two => left = Touch!NoFinger
  <2>1. f \in Fingers
    BY <1>3, <1>4 DEF Touches
  <2>2. CASE f.fingers = 2
    <3>1. left = [f EXCEPT !.fingers = 1] /\ 1 \in 0..2
      BY <1>4, <2>2
    <3>2. QED
      BY <1>6, <1>7, <2>1, <2>2, <3>1 DEF Fingers
  <2>3. CASE f.fingers # 2
    BY <1>4, <2>3, NoFingerIs
  <2>4. QED
    BY <2>2, <2>3
\* The mouse event that the browser makes of the touch
<1>13. \A m \in mouse : m \in s.mouse \/ /\ m \in MouseEvents /\ m.gesture = g /\ m.place = place /\ m.made
                                         /\ m.next = "mousedown" /\ ~f.moved /\ ~f.two
                                         /\ ~elsewhere => m.target = target
  <2>1. ASSUME NEW to \in Touch!Nodes, NEW m,
               m = [gesture |-> g, target |-> to, place |-> place, next |-> "mousedown", made |-> TRUE]
        PROVE  /\ m \in MouseEvents /\ m.gesture = g /\ m.place = place /\ m.made /\ m.next = "mousedown"
               /\ m.target = to
    BY <1>6, <2>1 DEF MouseEvents
  <2>2. ASSUME NEW m \in mouse, m \notin s.mouse
        PROVE  /\ m \in MouseEvents /\ m.gesture = g /\ m.place = place /\ m.made
               /\ m.next = "mousedown" /\ ~f.moved /\ ~f.two
               /\ ~elsewhere => m.target = target
    <3>1. PICK to \in Touch!Nodes :
             /\ m = [gesture |-> g, target |-> to, place |-> place, next |-> "mousedown", made |-> TRUE]
             /\ elsewhere = (s.elsewhere \/ to # target)
             /\ ~f.moved /\ ~f.two
      BY <1>11, <2>2
    <3>2. QED
      BY <2>1, <3>1
  <2>3. QED
    BY <2>2
<1>14. /\ elsewhere \in BOOLEAN /\ mouse \in SUBSET MouseEvents /\ s.mouse \subseteq mouse
       /\ s.elsewhere => elsewhere
  <2>1. s.mouse \in SUBSET MouseEvents /\ s.elsewhere \in BOOLEAN
    BY <1>3 DEF Touches
  <2>2. elsewhere \in BOOLEAN /\ s.mouse \subseteq mouse /\ (s.elsewhere => elsewhere)
    BY <1>11, <2>1
  <2>3. QED
    BY <1>13, <2>1, <2>2
<1>15. \A m \in mouse \ s.mouse : \A o \in mouse \ s.mouse : m = o
  BY <1>11
<1>16. /\ n \in Touches /\ n.layout = s.layout /\ n.lastTouchID = s.lastTouchID /\ n.nextTouchID = s.nextTouchID
       /\ n.touchIDs = s.touchIDs /\ n.clickBlockList = a.clickBlockList
       /\ n.blockMouse = a.blockMouse /\ n.blockTouch = a.blockTouch /\ n.tapping = a.tapping
       /\ n.mouse = mouse /\ n.gestures = s.gestures /\ n.heard = a.heard /\ n.overlapped = s.overlapped
       /\ n.late = s.late /\ n.elsewhere = elsewhere /\ n.left = s.left /\ n.finger = left
  <2>1. a \in Touches
    BY <1>10 DEF TouchShape
  <2>2. /\ n \in Touches /\ n.layout = a.layout /\ n.lastTouchID = a.lastTouchID /\ n.nextTouchID = a.nextTouchID
        /\ n.touchIDs = a.touchIDs /\ n.clickBlockList = a.clickBlockList
        /\ n.blockMouse = a.blockMouse /\ n.blockTouch = a.blockTouch /\ n.tapping = a.tapping
        /\ n.mouse = mouse /\ n.gestures = a.gestures /\ n.heard = a.heard /\ n.overlapped = a.overlapped
        /\ n.late = a.late /\ n.elsewhere = elsewhere /\ n.left = a.left /\ n.finger = left
    BY <1>11, <1>12, <1>14, <2>1 DEF Touches
  <2>3. QED
    BY <1>10, <2>2 DEF SameGesture
<1>17. \A m \in s.mouse : m.gesture \in Touch!Gestures \ {g}
  BY <1>3, <1>4, <1>6 DEF GesturesApart, Touches, MouseEvents
<1>18. GesturesApart(n)
  <2>1. \A i \in Touch!Gestures : i > s.gestures => i # g
    BY <1>3, <1>7 DEF Touches
  <2>2. \A t \in n.tapping : t.elem \in n.layout.taps
    <3>1. \A t \in a.tapping : t.elem \in a.layout.taps
      BY <1>10 DEF TouchShape, TapsBound
    <3>2. QED
      BY <1>10, <1>16, <3>1 DEF SameGesture
  <2>3. \A i \in Touch!Gestures : i > n.gestures => Unheard(n.heard[i])
    BY <1>3, <1>10, <1>16, <2>1 DEF GesturesApart
  <2>4. \A m \in n.mouse : ~m.made => Unheard(n.heard[m.gesture])
    BY <1>3, <1>10, <1>13, <1>16, <1>17 DEF GesturesApart
  <2>5. \A m \in n.mouse : m.gesture \in 1..n.gestures /\ m.gesture # n.finger.gesture
    <3>1. n.finger.gesture = 0 \/ (n.finger.gesture = g /\ n.mouse = s.mouse)
      BY <1>11, <1>12, <1>16, NoFingerIs
    <3>2. \A m \in n.mouse : m.gesture \in 1..n.gestures
      BY <1>3, <1>7, <1>13, <1>16 DEF GesturesApart
    <3>3. \A m \in n.mouse : m.gesture # 0
      BY <3>2
    <3>4. QED
      BY <1>17, <3>1, <3>2, <3>3
  <2>6. \A m, o \in n.mouse : m.gesture = o.gesture => m = o
    <3>1. \A m, o \in s.mouse : m.gesture = o.gesture => m = o
      BY <1>3 DEF GesturesApart
    <3>2. QED
      BY <1>13, <1>15, <1>16, <1>17, <3>1
  <2>7. FingerIsDown(n) =>
           /\ n.finger.target \in Touch!Nodes /\ n.finger.place \in Places
           /\ n.finger.gesture \in 1..n.gestures /\ n.finger.fingers \in {1, 2}
           /\ n.finger.fingers = 2 => n.finger.two
    BY <1>7, <1>12, <1>16 DEF FingerIsDown
  <2>8. (n.clickBlockList # {} => n.blockMouse) /\ n.nextTouchID # 0
    BY <1>3, <1>10, <1>16 DEF GesturesApart
  <2>9. QED
    BY <2>2, <2>3, <2>4, <2>5, <2>6, <2>7, <2>8 DEF GesturesApart
<1>19. ~h.followed /\ (~f.two => ~h.prevented)
  BY <1>3, <1>4, <1>5, <1>6, <1>9 DEF PreventedWaits
<1>20. PreventedWaits(n)
  <2>1. FingerIsDown(n) => ~n.heard[n.finger.gesture].followed /\ n.finger.two
    BY <1>9, <1>10, <1>12, <1>16, <1>19 DEF FingerIsDown
  <2>2. \A m \in n.mouse : ~n.heard[m.gesture].followed
    <3>1. \A m \in s.mouse : ~s.heard[m.gesture].followed
      BY <1>3 DEF PreventedWaits
    <3>2. QED
      BY <1>9, <1>10, <1>13, <1>16, <1>17, <1>19, <3>1
  <2>3. ASSUME ~n.late, NEW m \in n.mouse, n.heard[m.gesture].prevented
        PROVE  \E o \in n.clickBlockList : o.place = m.place
    <3>1. CASE m \in s.mouse
      <4>1. n.heard[m.gesture] = s.heard[m.gesture]
        BY <1>10, <1>16, <1>17, <3>1
      <4>2. \E o \in s.clickBlockList : o.place = m.place
        BY <1>3, <1>16, <2>3, <3>1, <4>1 DEF PreventedWaits
      <4>3. QED
        BY <1>10, <1>16, <4>2
    <3>2. CASE m \notin s.mouse
      BY <1>9, <1>10, <1>13, <1>16, <1>19, <2>3, <3>2
    <3>3. QED
      BY <3>1, <3>2
  <2>4. ~n.late => \A i \in Touch!Gestures : ~(n.heard[i].prevented /\ n.heard[i].followed)
    <3>1. ~s.late => \A i \in Touch!Gestures : ~(s.heard[i].prevented /\ s.heard[i].followed)
      BY <1>3 DEF PreventedWaits
    <3>2. QED
      BY <1>9, <1>10, <1>16, <1>19, <3>1
  <2>5. QED
    BY <2>1, <2>2, <2>3, <2>4 DEF PreventedWaits
<1>21. (Muted(s, target) <=> Muted(n, target)) /\ (Deaf(s, target) <=> Deaf(n, target))
  BY <1>16 DEF Muted, Deaf
<1>22. TouchInTime(n) <=> TouchInTime(s)
  BY <1>16 DEF TouchInTime
<1>23. TouchInTime(s) =>
          /\ s.mouse = {} /\ g = s.gestures /\ Muted(s, target)
          /\ Deaf(s, target) => h.vclicks = 0 /\ ~h.cancelled
          /\ ~Deaf(s, target) =>
                /\ s.blockTouch => f.two
                /\ ~s.blockTouch => h.vclicks = 0
                /\ h.cancelled => f.moved /\ (s.didScroll \/ s.blockTouch)
  <2>1. ASSUME TouchInTime(s) PROVE OneGesture(s)
    BY <1>3, <2>1 DEF ClickedOnce
  <2>2. QED
    BY <1>4, <1>5, <1>6, <1>9, <2>1 DEF OneGesture
<1>24. ClickedOnce(n)
  <2>1. SUFFICES ASSUME TouchInTime(n) PROVE ClickedOnce(n)
    BY DEF ClickedOnce
  <2>2. k.cancelled = h.cancelled /\ (h.cancelled => f.moved)
    BY <1>10, <1>22, <1>23, <2>1
  <2>3. OneGesture(n)
    <3>1. FingerIsDown(n) => /\ n.mouse = {} /\ n.finger.gesture = g /\ n.finger.target = target
                             /\ n.finger.two /\ n.finger.moved = f.moved
      BY <1>11, <1>12, <1>16, <1>22, <1>23, <2>1 DEF FingerIsDown
    <3>2. \A m \in n.mouse : /\ m.gesture = g /\ (m.made /\ ~n.elsewhere => Muted(n, m.target))
                             /\ ~n.heard[m.gesture].cancelled
      BY <1>9, <1>13, <1>16, <1>21, <1>22, <1>23, <2>1, <2>2
    <3>3. Deaf(s, target) => k = h
      BY <1>9, <1>10
    <3>4. ~Deaf(s, target) => n.blockTouch
      BY <1>10, <1>16
    <3>5. k = n.heard[g] /\ g = n.gestures
      BY <1>9, <1>16, <1>22, <1>23, <2>1
    <3>6. QED
      BY <1>21, <1>22, <1>23, <2>1, <2>2, <3>1, <3>2, <3>3, <3>4, <3>5 DEF OneGesture
  <2>4. ASSUME NEW i \in Touch!Gestures
        PROVE  /\ ~n.elsewhere => n.heard[i].vclicks <= 1
               /\ ~(n.heard[i].vclicks > 0 /\ n.heard[i].cancelled)
    <3>1. /\ ~s.elsewhere => s.heard[i].vclicks <= 1
          /\ ~(s.heard[i].vclicks > 0 /\ s.heard[i].cancelled)
      BY <1>3, <1>22, <2>1 DEF ClickedOnce
    <3>2. CASE i # g \/ Deaf(s, target) \/ s.blockTouch
      <4>1. n.heard[i] = s.heard[i]
        BY <1>10, <1>16, <3>2
      <4>2. QED
        BY <1>14, <1>16, <3>1, <4>1
    <3>3. CASE i = g /\ ~Deaf(s, target) /\ ~s.blockTouch
      <4>1. h.vclicks = 0 /\ (h.cancelled => s.didScroll)
        BY <1>22, <1>23, <2>1, <3>3
      <4>2. k.vclicks \in {0, 1} /\ (s.didScroll => k.vclicks = 0) /\ k.cancelled = h.cancelled
        BY <1>10, <4>1
      <4>3. n.heard[i] = k
        BY <1>9, <1>16, <3>3
      <4>4. QED
        BY <4>1, <4>2, <4>3
    <3>4. QED
      BY <3>2, <3>3
  <2>5. QED
    BY <2>3, <2>4 DEF ClickedOnce
<1>25. TapsRight(n)
  <2>1. SUFFICES ASSUME TouchInTime(n), ~n.left, ~n.elsewhere PROVE TapsHeld(n)
    BY DEF TapsRight
  <2>2. TapsHeld(s) /\ g = s.gestures
    BY <1>3, <1>14, <1>16, <1>22, <1>23, <2>1 DEF TapsRight
  <2>3. s.tapping # {} => /\ \A e \in Touch!Nodes : h.taps[e] = 0
                          /\ ~s.blockTouch /\ ~s.didScroll /\ TapsOf(s, target)
    BY <1>4, <1>5, <1>6, <1>9, <2>2 DEF TapsHeld
  <2>4. TapsWithin(s, target) /\ OneEach(s)
    BY <2>3 DEF TapsWithin, OneEach, TapsOf
  <2>5. n.tapping = {}
    BY <1>10, <1>16, <2>3, <2>4
  <2>6. ASSUME NEW i \in Touch!Gestures, NEW e \in Touch!Nodes PROVE n.heard[i].taps[e] <= 1
    <3>1. s.heard[i].taps[e] <= 1
      BY <2>2 DEF TapsHeld
    <3>2. CASE i # g
      BY <1>10, <1>16, <3>1, <3>2
    <3>3. CASE i = g
      <4>1. k.taps[e] \in {h.taps[e], h.taps[e] + 1} /\ (s.tapping = {} => k.taps[e] = h.taps[e])
        BY <1>10, <2>4
      <4>2. k.taps[e] <= 1
        BY <1>9, <2>3, <3>1, <3>3, <4>1
      <4>3. QED
        BY <1>9, <1>16, <3>3, <4>2
    <3>4. QED
      BY <3>2, <3>3
  <2>7. QED
    BY <2>5, <2>6 DEF TapsHeld
<1>26. IsFiniteSet(n.tapping)
  BY <1>10, <1>16 DEF TouchShape
<1>27. QED
  BY <1>1, <1>16, <1>18, <1>20, <1>24, <1>25, <1>26 DEF TouchInv, TouchSafe

LEMMA MouseGoesOnSafe ==
    ASSUME TouchInv, NEW m \in touch.mouse, Touch!MouseGoesOn(m)
    PROVE  TouchInv'
<1>1. PICK s, n : s = touch /\ n = touch'
  OBVIOUS
<1>2. TouchSafe(s) /\ m \in s.mouse
  BY <1>1 DEF TouchInv
<1>3. s \in Touches /\ GesturesApart(s) /\ PreventedWaits(s) /\ ClickedOnce(s) /\ TapsRight(s)
  BY <1>2 DEF TouchSafe
<1>4. m \in MouseEvents
  BY <1>2, <1>3 DEF Touches
<1>5. PICK g \in Touch!Gestures, target \in Touch!Nodes : g = m.gesture /\ target = m.target
  BY <1>4 DEF MouseEvents
<1>6. PICK b, c, left : /\ b = [s EXCEPT !.mouse = @ \ {m}] /\ c = Touch!MouseEvent(b, m)
                        /\ left = s.mouse \ {m}
  OBVIOUS
<1>7. PICK next : /\ n = [c EXCEPT !.mouse = @ \cup next]
                  /\ m.next = "mousedown" => next = {[m EXCEPT !.next = "mouseup"]}
                  /\ m.next = "mouseup" => next = {[m EXCEPT !.next = "click"]}
                  /\ m.next = "click" => next = {}
  BY <1>1, <1>6 DEF Touch!MouseGoesOn
\* The mouse event of the gesture that is next, if one is
<1>8. \A o \in next : /\ o \in MouseEvents /\ o.gesture = g /\ o.target = target /\ o.place = m.place
                      /\ o.made = m.made /\ m.next # "click"
                      /\ m.next = "mousedown" => o.next = "mouseup"
                      /\ m.next = "mouseup" => o.next = "click"
  <2>1. m.next \in {"mousedown", "mouseup", "click"}
    BY <1>4 DEF MouseEvents
  <2>2. PICK up, click : up = [m EXCEPT !.next = "mouseup"] /\ click = [m EXCEPT !.next = "click"]
    OBVIOUS
  <2>3. /\ up \in MouseEvents /\ up.gesture = g /\ up.target = target /\ up.place = m.place /\ up.made = m.made
        /\ up.next = "mouseup"
    BY <1>4, <1>5, <2>2 DEF MouseEvents
  <2>4. /\ click \in MouseEvents /\ click.gesture = g /\ click.target = target /\ click.place = m.place
        /\ click.made = m.made /\ click.next = "click"
    BY <1>4, <1>5, <2>2 DEF MouseEvents
  <2>5. QED
    BY <1>7, <2>1, <2>2, <2>3, <2>4
<1>9. \A o, p \in next : o = p
  <2>1. m.next \in {"mousedown", "mouseup", "click"}
    BY <1>4 DEF MouseEvents
  <2>2. QED
    BY <1>7, <2>1
<1>10. /\ b \in Touches /\ b.layout = s.layout /\ b.lastTouchID = s.lastTouchID /\ b.nextTouchID = s.nextTouchID
       /\ b.touchIDs = s.touchIDs /\ b.clickBlockList = s.clickBlockList /\ b.didScroll = s.didScroll
       /\ b.blockMouse = s.blockMouse /\ b.blockTouch = s.blockTouch /\ b.tapping = s.tapping
       /\ b.mouse = left /\ b.gestures = s.gestures /\ b.heard = s.heard /\ b.overlapped = s.overlapped
       /\ b.late = s.late /\ b.elsewhere = s.elsewhere /\ b.left = s.left /\ b.finger = s.finger
  BY <1>3, <1>6 DEF Touches
<1>11. TouchShape(b)
  BY <1>2, <1>10, SafeShape DEF TouchShape, TapsBound
<1>12. Moused(b, m, c)
  BY <1>4, <1>6, <1>11, MouseIs
<1>13. /\ c.layout = s.layout /\ c.lastTouchID = s.lastTouchID /\ c.nextTouchID = s.nextTouchID
       /\ c.touchIDs = s.touchIDs /\ c.clickBlockList = s.clickBlockList /\ c.didScroll = s.didScroll
       /\ c.blockMouse = s.blockMouse /\ c.blockTouch = s.blockTouch
       /\ c.mouse = left /\ c.gestures = s.gestures /\ c.overlapped = s.overlapped
       /\ c.late = s.late /\ c.elsewhere = s.elsewhere /\ c.left = s.left /\ c.finger = s.finger
       /\ c \in Touches
  <2>1. TouchShape(c) /\ SameButHeard(c, b)
    BY <1>12 DEF Moused
  <2>2. QED
    BY <1>10, <2>1 DEF SameButHeard, TouchShape
<1>14. /\ n.layout = s.layout /\ n.lastTouchID = s.lastTouchID /\ n.nextTouchID = s.nextTouchID
       /\ n.touchIDs = s.touchIDs /\ n.clickBlockList = s.clickBlockList /\ n.didScroll = s.didScroll
       /\ n.blockMouse = s.blockMouse /\ n.blockTouch = s.blockTouch
       /\ n.mouse = left \cup next /\ n.gestures = s.gestures /\ n.overlapped = s.overlapped
       /\ n.late = s.late /\ n.elsewhere = s.elsewhere /\ n.left = s.left /\ n.finger = s.finger
       /\ n.heard = c.heard /\ n.tapping = c.tapping /\ n \in Touches
  <2>1. left \cup next \in SUBSET MouseEvents
    BY <1>3, <1>6, <1>8 DEF Touches
  <2>2. PICK mouse \in SUBSET MouseEvents : mouse = left \cup next
    BY <2>1
  <2>3. n = [c EXCEPT !.mouse = mouse]
    BY <1>7, <1>13, <2>2 DEF Touches
  <2>4. /\ n.layout = c.layout /\ n.lastTouchID = c.lastTouchID /\ n.nextTouchID = c.nextTouchID
        /\ n.touchIDs = c.touchIDs /\ n.clickBlockList = c.clickBlockList /\ n.didScroll = c.didScroll
        /\ n.blockMouse = c.blockMouse /\ n.blockTouch = c.blockTouch
        /\ n.mouse = mouse /\ n.gestures = c.gestures /\ n.overlapped = c.overlapped
        /\ n.late = c.late /\ n.elsewhere = c.elsewhere /\ n.left = c.left /\ n.finger = c.finger
        /\ n.heard = c.heard /\ n.tapping = c.tapping /\ n \in Touches
    BY <1>13, <2>2, <2>3 DEF Touches
  <2>5. QED
    BY <1>13, <2>2, <2>4
<1>15. PICK h, k : h = s.heard[g] /\ k = n.heard[g]
  OBVIOUS
<1>16. (\A e : Muted(b, e) <=> Muted(s, e)) /\ (\A o : Touch!Callable(b, o) <=> Touch!Callable(s, o))
       /\ (Touch!Blocks(b, m) <=> Touch!Blocks(s, m)) /\ (TapsWithin(b, target) <=> TapsWithin(s, target))
       /\ (OneEach(b) <=> OneEach(s))
  BY <1>10 DEF Muted, Deaf, Touch!Callable, Touch!Blocks, TapsWithin, OneEach
<1>17. /\ \A i \in Touch!Gestures \ {g} : n.heard[i] = s.heard[i]
       /\ k.cancelled = h.cancelled
       /\ m.next # "click" => k.vclicks = h.vclicks /\ k.prevented = h.prevented
                              /\ k.taps = h.taps /\ k.followed = h.followed
       /\ k.vclicks \in {h.vclicks, h.vclicks + 1}
       /\ Muted(s, target) => k.vclicks = h.vclicks
       /\ ~h.followed /\ k.followed => ~Touch!Blocks(s, m) /\ (k.prevented => h.prevented)
       /\ OneEach(s) =>
             \A e \in Touch!Nodes : /\ k.taps[e] \in {h.taps[e], h.taps[e] + 1}
                                    /\ s.tapping = {} => k.taps[e] = h.taps[e]
  <2>1. h = b.heard[m.gesture] /\ k = c.heard[m.gesture]
    BY <1>5, <1>10, <1>14, <1>15
  <2>2. /\ \A i \in Touch!Gestures \ {g} : c.heard[i] = b.heard[i]
        /\ k.cancelled = h.cancelled
        /\ m.next # "click" => k.vclicks = h.vclicks /\ k.prevented = h.prevented
                               /\ k.taps = h.taps /\ k.followed = h.followed
        /\ k.vclicks \in {h.vclicks, h.vclicks + 1}
        /\ Muted(b, target) => k.vclicks = h.vclicks
        /\ ~h.followed /\ k.followed => ~Touch!Blocks(b, m) /\ (k.prevented => h.prevented)
        /\ OneEach(b) =>
              \A e \in Touch!Nodes : /\ k.taps[e] \in {h.taps[e], h.taps[e] + 1}
                                     /\ b.tapping = {} => k.taps[e] = h.taps[e]
    BY <1>5, <1>12, <2>1 DEF Moused
  <2>3. QED
    BY <1>10, <1>14, <1>16, <2>2
<1>18. /\ Muted(s, target) => n.tapping = s.tapping
       /\ s.tapping = {} => /\ m.next # "mousedown" => n.tapping = {}
                            /\ n.tapping # {} => Touch!Callable(s, m)
                            /\ \A t \in n.tapping : t.elem \in Paths[target] /\ t.gesture = g
                            /\ OneEach(n)
       /\ TapsWithin(s, target) /\ OneEach(s) /\ Touch!Callable(s, m) =>
             /\ m.next = "click" /\ ~Touch!Blocks(s, m) => n.tapping = {}
             /\ m.next = "mouseup" =>
                   /\ \A t \in n.tapping : ~t.timer /\ \E u \in s.tapping : t.elem = u.elem /\ t.gesture = u.gesture
                   /\ OneEach(n)
  <2>1. OneEach(c) <=> OneEach(n)
    BY <1>14 DEF OneEach
  <2>2. /\ Muted(b, target) => c.tapping = b.tapping
        /\ b.tapping = {} => /\ m.next # "mousedown" => c.tapping = {}
                             /\ c.tapping # {} => Touch!Callable(b, m)
                             /\ \A t \in c.tapping : t.elem \in Paths[target] /\ t.gesture = g
                             /\ OneEach(c)
        /\ TapsWithin(b, target) /\ OneEach(b) /\ Touch!Callable(b, m) =>
              /\ m.next = "click" /\ ~Touch!Blocks(b, m) => c.tapping = {}
              /\ m.next = "mouseup" =>
                    /\ \A t \in c.tapping : ~t.timer /\ \E u \in b.tapping : t.elem = u.elem /\ t.gesture = u.gesture
                    /\ OneEach(c)
    BY <1>5, <1>12 DEF Moused
  <2>3. QED
    BY <1>10, <1>14, <1>16, <2>1, <2>2
<1>19. \A o \in left : o \in s.mouse /\ o.gesture \in Touch!Gestures \ {g}
  BY <1>2, <1>3, <1>5, <1>6 DEF GesturesApart, Touches, MouseEvents
<1>20. g \in 1..s.gestures /\ g # s.finger.gesture /\ (~m.made => Unheard(h))
  BY <1>2, <1>3, <1>5, <1>15 DEF GesturesApart
<1>21. m.next # "click" /\ Unheard(h) => Unheard(k)
  BY <1>17 DEF Unheard
<1>22. GesturesApart(n)
  <2>1. \A i \in Touch!Gestures : i > s.gestures => i # g
    BY <1>3, <1>20 DEF Touches
  <2>2. \A t \in n.tapping : t.elem \in n.layout.taps
    <3>1. \A t \in c.tapping : t.elem \in c.layout.taps
      BY <1>12 DEF Moused, TouchShape, TapsBound
    <3>2. QED
      BY <1>13, <1>14, <3>1
  <2>3. \A i \in Touch!Gestures : i > n.gestures => Unheard(n.heard[i])
    BY <1>3, <1>14, <1>17, <2>1 DEF GesturesApart
  <2>4. ASSUME NEW o \in n.mouse, ~o.made PROVE Unheard(n.heard[o.gesture])
    <3>1. CASE o \in left
      BY <1>3, <1>17, <1>19, <2>4, <3>1 DEF GesturesApart
    <3>2. CASE o \in next
      BY <1>8, <1>15, <1>20, <1>21, <2>4, <3>2
    <3>3. QED
      BY <1>14, <3>1, <3>2
  <2>5. \A o \in n.mouse : o.gesture \in 1..n.gestures /\ o.gesture # n.finger.gesture
    BY <1>3, <1>8, <1>14, <1>19, <1>20 DEF GesturesApart
  <2>6. \A o, p \in n.mouse : o.gesture = p.gesture => o = p
    <3>1. \A o, p \in s.mouse : o.gesture = p.gesture => o = p
      BY <1>3 DEF GesturesApart
    <3>2. QED
      BY <1>8, <1>9, <1>14, <1>19, <3>1
  <2>7. FingerIsDown(n) =>
           /\ n.finger.target \in Touch!Nodes /\ n.finger.place \in Places
           /\ n.finger.gesture \in 1..n.gestures /\ n.finger.fingers \in {1, 2}
           /\ n.finger.fingers = 2 => n.finger.two
    BY <1>3, <1>14 DEF FingerIsDown, GesturesApart
  <2>8. (n.clickBlockList # {} => n.blockMouse) /\ n.nextTouchID # 0
    BY <1>3, <1>14 DEF GesturesApart
  <2>9. QED
    BY <2>2, <2>3, <2>4, <2>5, <2>6, <2>7, <2>8 DEF GesturesApart
<1>23. ~h.followed /\ (~s.late /\ h.prevented => \E o \in s.clickBlockList : o.place = m.place)
  BY <1>2, <1>3, <1>5, <1>15 DEF PreventedWaits
<1>24. PreventedWaits(n)
  <2>1. FingerIsDown(n) => /\ ~n.heard[n.finger.gesture].followed
                           /\ ~n.finger.two => ~n.heard[n.finger.gesture].prevented
    <3>1. FingerIsDown(n) => FingerIsDown(s) /\ s.finger.gesture \in Touch!Gestures \ {g}
      BY <1>2, <1>14, <1>20, SafeFinger DEF FingerIsDown
    <3>2. QED
      BY <1>3, <1>14, <1>17, <3>1 DEF PreventedWaits
  <2>2. \A o \in n.mouse : ~n.heard[o.gesture].followed
    <3>1. \A o \in left : ~n.heard[o.gesture].followed
      BY <1>3, <1>17, <1>19 DEF PreventedWaits
    <3>2. \A o \in next : ~n.heard[o.gesture].followed
      BY <1>8, <1>15, <1>17, <1>23
    <3>3. QED
      BY <1>14, <3>1, <3>2
  <2>3. ASSUME ~n.late, NEW o \in n.mouse, n.heard[o.gesture].prevented
        PROVE  \E p \in n.clickBlockList : p.place = o.place
    <3>1. CASE o \in left
      BY <1>3, <1>14, <1>17, <1>19, <2>3, <3>1 DEF PreventedWaits
    <3>2. CASE o \in next
      BY <1>8, <1>14, <1>15, <1>17, <1>23, <2>3, <3>2
    <3>3. QED
      BY <1>14, <3>1, <3>2
  <2>4. ~n.late => \A i \in Touch!Gestures : ~(n.heard[i].prevented /\ n.heard[i].followed)
    <3>1. SUFFICES ASSUME ~n.late, NEW i \in Touch!Gestures PROVE ~(n.heard[i].prevented /\ n.heard[i].followed)
      OBVIOUS
    <3>2. ~(s.heard[i].prevented /\ s.heard[i].followed)
      BY <1>3, <1>14, <3>1 DEF PreventedWaits
    <3>3. CASE i # g
      BY <1>17, <3>2, <3>3
    <3>4. CASE i = g
      <4>1. SUFFICES ASSUME k.prevented, k.followed PROVE FALSE
        BY <1>15, <3>4
      <4>2. ~Touch!Blocks(s, m) /\ h.prevented
        BY <1>17, <1>23, <4>1
      <4>3. Touch!Blocks(s, m)
        BY <1>14, <1>23, <3>1, <4>2 DEF Touch!Blocks
      <4>4. QED
        BY <4>2, <4>3
    <3>5. QED
      BY <3>3, <3>4
  <2>5. QED
    BY <2>1, <2>2, <2>3, <2>4 DEF PreventedWaits
<1>25. \A e : Muted(n, e) <=> Muted(s, e)
  BY <1>14 DEF Muted, Deaf
<1>26. TouchInTime(n) <=> TouchInTime(s)
  BY <1>14 DEF TouchInTime
\* In time the gesture is the only one
<1>27. TouchInTime(s) => /\ ~FingerIsDown(s) /\ g = s.gestures /\ left = {}
                         /\ m.made /\ ~s.elsewhere => Muted(s, target)
                         /\ ~h.cancelled
  <2>1. SUFFICES ASSUME TouchInTime(s), OneGesture(s)
                 PROVE  /\ ~FingerIsDown(s) /\ g = s.gestures /\ left = {}
                        /\ m.made /\ ~s.elsewhere => Muted(s, target)
                        /\ ~h.cancelled
    BY <1>3 DEF ClickedOnce
  <2>2. ~FingerIsDown(s) /\ g = s.gestures
    BY <1>2, <1>5, <2>1 DEF OneGesture
  <2>3. left = {}
    BY <1>2, <1>5, <1>19, <2>1, <2>2 DEF OneGesture
  <2>4. (m.made /\ ~s.elsewhere => Muted(s, target)) /\ ~h.cancelled
    BY <1>2, <1>5, <1>15, <2>1 DEF OneGesture
  <2>5. QED
    BY <2>2, <2>3, <2>4
<1>28. ClickedOnce(n)
  <2>1. SUFFICES ASSUME TouchInTime(n) PROVE ClickedOnce(n)
    BY DEF ClickedOnce
  <2>2. OneGesture(n)
    BY <1>8, <1>14, <1>15, <1>17, <1>25, <1>26, <1>27, <2>1 DEF OneGesture, FingerIsDown
  <2>3. ASSUME NEW i \in Touch!Gestures
        PROVE  /\ ~n.elsewhere => n.heard[i].vclicks <= 1
               /\ ~(n.heard[i].vclicks > 0 /\ n.heard[i].cancelled)
    <3>1. /\ ~s.elsewhere => s.heard[i].vclicks <= 1
          /\ ~(s.heard[i].vclicks > 0 /\ s.heard[i].cancelled)
      BY <1>3, <1>26, <2>1 DEF ClickedOnce
    <3>2. CASE i # g
      BY <1>14, <1>17, <3>1, <3>2
    <3>3. CASE i = g
      <4>1. ~k.cancelled
        BY <1>17, <1>26, <1>27, <2>1
      <4>2. ~s.elsewhere /\ m.made => k.vclicks <= 1
        BY <1>15, <1>17, <1>26, <1>27, <2>1, <3>1, <3>3
      <4>3. ~m.made => k.vclicks <= 1
        <5>1. ~m.made => h.vclicks = 0
          BY <1>20 DEF Unheard
        <5>2. QED
          BY <1>17, <5>1
      <4>4. QED
        BY <1>14, <1>15, <3>3, <4>1, <4>2, <4>3
    <3>4. QED
      BY <3>2, <3>3
  <2>4. QED
    BY <2>2, <2>3 DEF ClickedOnce
<1>29. TapsRight(n)
  <2>1. SUFFICES ASSUME TouchInTime(n), ~n.left, ~n.elsewhere PROVE TapsHeld(n)
    BY DEF TapsRight
  <2>2. TapsHeld(s)
    BY <1>3, <1>14, <1>26, <2>1 DEF TapsRight
  <2>3. s.tapping # {} => /\ ~m.made /\ m.next # "mousedown" /\ Touch!Callable(s, m) /\ TapsOf(s, target)
                          /\ \A e \in Touch!Nodes : h.taps[e] = 0
    BY <1>2, <1>5, <1>15, <1>26, <1>27, <2>1, <2>2 DEF TapsHeld
  <2>4. TapsWithin(s, target) /\ OneEach(s)
    BY <2>3 DEF TapsWithin, OneEach, TapsOf
  <2>5. m.next \in {"mousedown", "mouseup", "click"}
    BY <1>4 DEF MouseEvents
  <2>6. m.next = "click" => n.tapping = {}
    <3>1. s.tapping # {} => ~Touch!Blocks(s, m)
      BY <1>3, <2>3 DEF Touch!Callable, Touch!Blocks, GesturesApart
    <3>2. QED
      BY <1>18, <2>3, <2>4, <3>1
  <2>7. n.tapping # {} =>
           /\ ~m.made /\ Touch!Callable(s, m) /\ TapsOf(n, target)
           /\ m.next = "mouseup" => \A t \in n.tapping : ~t.timer
    <3>1. CASE s.tapping = {}
      <4>1. n.tapping # {} => Touch!Callable(s, m) /\ m.next = "mousedown"
        BY <1>18, <3>1
      <4>2. n.tapping # {} => ~Muted(s, target)
        BY <1>18, <3>1
      <4>3. n.tapping # {} => ~m.made
        BY <1>14, <1>26, <1>27, <2>1, <4>2
      <4>4. TapsOf(n, target)
        BY <1>14, <1>18, <1>26, <1>27, <2>1, <3>1 DEF TapsOf, OneEach
      <4>5. QED
        BY <4>1, <4>3, <4>4
    <3>2. CASE s.tapping # {} /\ m.next = "mouseup"
      <4>1. /\ \A t \in n.tapping : ~t.timer /\ \E u \in s.tapping : t.elem = u.elem /\ t.gesture = u.gesture
            /\ OneEach(n)
        BY <1>18, <2>3, <2>4, <3>2
      <4>2. TapsOf(n, target)
        BY <1>14, <2>3, <3>2, <4>1 DEF TapsOf, OneEach
      <4>3. QED
        BY <2>3, <3>2, <4>1, <4>2
    <3>3. QED
      BY <2>3, <2>5, <2>6, <3>1, <3>2
  <2>8. ASSUME NEW i \in Touch!Gestures, NEW e \in Touch!Nodes PROVE n.heard[i].taps[e] <= 1
    <3>1. s.heard[i].taps[e] <= 1
      BY <2>2 DEF TapsHeld
    <3>2. CASE i # g
      BY <1>17, <3>1, <3>2
    <3>3. CASE i = g
      <4>1. k.taps[e] \in {h.taps[e], h.taps[e] + 1} /\ (s.tapping = {} => k.taps[e] = h.taps[e])
        BY <1>17, <2>4
      <4>2. k.taps[e] <= 1
        BY <1>15, <2>3, <3>1, <3>3, <4>1
      <4>3. QED
        BY <1>15, <3>3, <4>2
    <3>4. QED
      BY <3>2, <3>3
  <2>9. n.tapping # {} => \A e \in Touch!Nodes : k.taps[e] = 0
    <3>1. n.tapping # {} => Unheard(k)
      BY <1>20, <1>21, <2>6, <2>7
    <3>2. QED
      BY <3>1 DEF Unheard
  <2>10. n.tapping # {} => ~(n.finger = Touch!NoFinger /\ n.mouse = {})
    <3>1. n.tapping # {} => next # {}
      BY <1>7, <2>5, <2>6
    <3>2. QED
      BY <1>14, <3>1
  <2>11. \A o \in n.mouse : n.tapping # {} =>
            /\ ~o.made /\ o.next # "mousedown"
            /\ Touch!Callable(n, o) /\ TapsOf(n, o.target)
            /\ o.next = "click" => \A t \in n.tapping : ~t.timer
    <3>1. ASSUME NEW o \in n.mouse, n.tapping # {}
          PROVE  /\ ~o.made /\ o.next # "mousedown"
                 /\ Touch!Callable(n, o) /\ TapsOf(n, o.target)
                 /\ o.next = "click" => \A t \in n.tapping : ~t.timer
      <4>1. o \in next
        BY <1>14, <1>26, <1>27, <2>1
      <4>2. /\ o.target = target /\ o.made = m.made
            /\ m.next = "mousedown" => o.next = "mouseup"
            /\ m.next = "mouseup" => o.next = "click"
            /\ m.next # "click"
        BY <1>8, <4>1
      <4>3. Touch!Callable(n, o)
        BY <1>5, <1>14, <2>7, <3>1, <4>2 DEF Touch!Callable
      <4>4. QED
        BY <2>5, <2>7, <3>1, <4>2, <4>3
    <3>2. QED
      BY <3>1
  <2>12. QED
    BY <1>14, <1>15, <1>26, <1>27, <2>1, <2>8, <2>9, <2>10, <2>11 DEF TapsHeld, FingerIsDown
<1>30. IsFiniteSet(n.tapping)
  BY <1>12, <1>14 DEF Moused, TouchShape
<1>31. QED
  BY <1>1, <1>14, <1>22, <1>24, <1>28, <1>29, <1>30 DEF TouchInv, TouchSafe

LEMMA TouchStep ==
    ASSUME TouchInv, Touch!Next
    PROVE  TouchInv'
<1>1. ASSUME NEW target \in Touch!Nodes, NEW place \in Places, Touch!TouchStart(target, place) PROVE TouchInv'
  BY <1>1, TouchStartSafe
<1>2. ASSUME NEW target \in Touch!Nodes, NEW place \in Places, Touch!PressButton(target, place) PROVE TouchInv'
  BY <1>2, PressButtonSafe
<1>3. CASE Touch!SecondFinger
  BY <1>3, SecondFingerSafe
<1>4. CASE Touch!Scroll
  BY <1>4, ScrollSafe
<1>5. CASE Touch!TouchEnd
  BY <1>5, TouchEndSafe
<1>6. CASE Touch!TouchCancel
  BY <1>6, TouchCancelSafe
<1>7. CASE Touch!ResetTimer
  BY <1>7, ResetTimerSafe
<1>8. ASSUME NEW far \in BOOLEAN, Touch!TouchMove(far) PROVE TouchInv'
  BY <1>8, TouchMoveSafe
<1>9. ASSUME NEW m \in touch.mouse, Touch!MouseGoesOn(m) PROVE TouchInv'
  BY <1>9, MouseGoesOnSafe
<1>10. ASSUME NEW m \in touch.mouse, Touch!NoClick(m) PROVE TouchInv'
  BY <1>10, NoClickSafe
<1>11. ASSUME NEW t \in touch.tapping, Touch!TapHold(t) PROVE TouchInv'
  BY <1>11, TapHoldSafe
<1>12. QED
  BY <1>1, <1>2, <1>3, <1>4, <1>5, <1>6, <1>7, <1>8, <1>9, <1>10, <1>11 DEF Touch!Next

LEMMA TouchIsRight ==
    ASSUME TouchInv
    PROVE  Touch!VClickOnce /\ Touch!PreventedIsBlocked /\ Touch!TapsEnd
<1>1. PICK s : s = touch
  OBVIOUS
<1>2. s \in Touches /\ GesturesApart(s) /\ PreventedWaits(s) /\ ClickedOnce(s) /\ TapsRight(s)
  BY <1>1 DEF TouchInv, TouchSafe
<1>3. Touch!InTime <=> TouchInTime(s)
  BY <1>1 DEF Touch!InTime, TouchInTime
<1>4. Touch!VClickOnce
  BY <1>1, <1>2, <1>3 DEF Touch!VClickOnce, ClickedOnce
<1>5. Touch!PreventedIsBlocked
  BY <1>1, <1>2 DEF Touch!PreventedIsBlocked, PreventedWaits
<1>6. Touch!TapsEnd
  <2>1. SUFFICES ASSUME TouchInTime(s), ~s.left, ~s.elsewhere, TapsHeld(s), OneGesture(s) PROVE Touch!TapsEnd
    BY <1>1, <1>2, <1>3 DEF Touch!TapsEnd, TapsRight, ClickedOnce
  <2>2. Touch!Resting => s.tapping = {}
    BY <1>1, <2>1 DEF Touch!Resting, TapsHeld
  <2>3. \A g \in Touch!Gestures : \A e \in Touch!Nodes : s.heard[g].taps[e] <= 1
    BY <2>1 DEF TapsHeld
  <2>4. ASSUME NEW t \in s.tapping, t.timer
        PROVE  \/ s.finger.gesture = t.gesture
               \/ \E m \in s.mouse : m.gesture = t.gesture /\ m.next = "mouseup"
    <3>1. CASE FingerIsDown(s)
      BY <2>1, <3>1 DEF TapsHeld, TapsOf, OneGesture
    <3>2. CASE ~FingerIsDown(s)
      <4>1. PICK m \in s.mouse : TRUE
        BY <2>1, <3>2 DEF TapsHeld, FingerIsDown
      <4>2. m.next \in {"mousedown", "mouseup", "click"}
        BY <1>2 DEF Touches, MouseEvents
      <4>3. m.next # "mousedown" /\ m.next # "click" /\ t.gesture = s.gestures
        BY <2>1, <2>4 DEF TapsHeld, TapsOf
      <4>4. m.gesture = s.gestures
        BY <2>1 DEF OneGesture
      <4>5. QED
        BY <4>2, <4>3, <4>4
    <3>3. QED
      BY <3>1, <3>2
  <2>5. QED
    BY <1>1, <2>2, <2>3, <2>4 DEF Touch!TapsEnd
<1>7. QED
  BY <1>4, <1>5, <1>6

\* A touch that the browser tells of twice is one vclick and none after it was
\* cancelled, what its handlers prevented is not followed when the browser's
\* click comes, and taps end with the gesture that began them: mouse events
\* are muted by the touch id, or by the list of clicks to block, until the
\* reset timer ends (triggerVirtualEvent, mouseEventCallback, handleTouchEnd
\* and the capturing click listener of jquery.mobile.js).
THEOREM TouchRightTheorem == PartsSpec => []TouchRight
<1> DEFINE Inv == part = "touch" => TouchInv
<1>1. PartsInit => Inv
  BY TouchInitSafe DEF PartsInit
<1>2. Inv /\ [PartsNext]_partsVars => Inv'
  <2>1. SUFFICES ASSUME Inv, [PartsNext]_partsVars PROVE Inv'
    OBVIOUS
  <2>2. CASE UNCHANGED partsVars
    BY <2>1, <2>2 DEF partsVars, TouchInv
  <2>3. CASE PartsNext
    <3>1. part' = part /\ (part = "touch" => Touch!Next)
      BY <2>3 DEF PartsNext, StepOfPhoneGap
    <3>2. QED
      BY <2>1, <3>1, TouchStep
  <2>4. QED
    BY <2>1, <2>2, <2>3
<1>3. Inv => TouchRight
  BY TouchIsRight DEF TouchRight
<1>4. QED
  BY <1>1, <1>2, <1>3, PTL DEF PartsSpec

-----------------------------------------------------------------------------
(* The requests of lib/jquery.js                                             *)

LEMMA SameCount == \A S : Ajax!Cardinality(S) = Cardinality(S)
BY DEF Ajax!Cardinality, Cardinality

\* What the types of data may be, and what the callbacks hear
Types == DataTypes \cup ContentTypes \cup {"*", "text", "xml", "no conversion", "notmodified"}

Reasons == {"abort", "timeout", "error", "parsererror", "No Transport"}

AjaxHeard == ({"success", "error"} \X (Types \cup Reasons)) \cup {<<"complete">>}

\* What may come of a request for a type
Outcomes(want) ==
    ({"error"} \X Reasons) \cup {o \in {"success"} \X Types : o[2] = "notmodified" \/ want \in {"*", o[2]}}

AjaxRequest ==
    [settings : [global : BOOLEAN, timeout : BOOLEAN, want : DataTypes \cup {"*"}],
     state : {0, 1, 2}, installed : BOOLEAN, globals : BOOLEAN, transport : BOOLEAN, callback : BOOLEAN,
     timer : BOOLEAN, fired : BOOLEAN, heard : Seq(AjaxHeard), ends : Nat]

Ajaxes ==
    [active : Int, requests : Seq(AjaxRequest), events : Seq({"ajaxStart", "ajaxStop"}),
     threw : BOOLEAN, crossed : BOOLEAN]

\* A request under way has told nothing; one that ended told it once, and forgot
\* its timer and its callback
RequestRight(q, threw) ==
    /\ q.ends = (IF q.state = 2 THEN 1 ELSE 0) /\ (q.fired <=> q.state = 2)
    /\ q.state = 2 => ~q.timer /\ ~q.callback
    /\ q.callback => q.transport
    /\ q.state < 2 \/ ~q.installed => q.heard = <<>>
    /\ q.state = 2 /\ q.installed =>
          \E o \in Outcomes(q.settings.want) :
             q.heard = <<o, <<"complete">>>> \/ (threw /\ q.heard = <<o>>)

UnderWay(a) == {r \in DOMAIN a.requests : a.requests[r].globals /\ a.requests[r].state < 2}

Odd(n) == n % 2 = 1

Alternate(events) == \A i \in DOMAIN events : events[i] = IF Odd(i) THEN "ajaxStart" ELSE "ajaxStop"

\* active counts the requests under way and n more
Balanced(a, n) ==
    /\ a.active \in Nat /\ a.active = Cardinality(UnderWay(a)) + n
    /\ Alternate(a.events)
    /\ Odd(Len(a.events)) <=> a.active # 0

AjaxRight(a) ==
    /\ \A r \in DOMAIN a.requests : RequestRight(a.requests[r], a.threw)
    /\ a.threw \/ Balanced(a, 0)

AjaxInv == ajax \in Ajaxes /\ (ajax.crossed \/ AjaxRight(ajax))

LEMMA OddNext ==
    ASSUME NEW n \in Nat
    PROVE  Odd(n + 1) <=> ~Odd(n)
BY DEF Odd

LEMMA UnderWayFinite ==
    ASSUME NEW a \in Ajaxes
    PROVE  IsFiniteSet(UnderWay(a)) /\ Cardinality(UnderWay(a)) \in Nat
<1>1. Len(a.requests) \in Nat /\ DOMAIN a.requests = 1..Len(a.requests)
  BY DEF Ajaxes
<1>2. UnderWay(a) \subseteq 1..Len(a.requests)
  BY <1>1 DEF UnderWay
<1>3. IsFiniteSet(1..Len(a.requests))
  <2>1. 1 \in Int /\ Len(a.requests) \in Int
    BY <1>1
  <2>2. QED
    BY <2>1, FS_Interval, Zenon
<1>4. IsFiniteSet(UnderWay(a))
  BY <1>2, <1>3, FS_Subset
<1>5. QED
  BY <1>4, FS_CardinalityType

\* An event that follows the others in turn
LEMMA TriggeredIs ==
    ASSUME NEW a \in Ajaxes, NEW event \in {"ajaxStart", "ajaxStop"}, NEW b, b = Ajax!Triggered(a, event)
    PROVE  /\ b \in Ajaxes
           /\ b.active = a.active /\ b.requests = a.requests
           /\ b.threw = a.threw /\ b.crossed = a.crossed
           /\ Odd(Len(b.events)) <=> ~Odd(Len(a.events))
           /\ Alternate(a.events) /\ (event = IF Odd(Len(a.events)) THEN "ajaxStop" ELSE "ajaxStart")
                 => Alternate(b.events)
<1> DEFINE n == Len(a.events)
<1>1. /\ a.events \in Seq({"ajaxStart", "ajaxStop"}) /\ n \in Nat /\ DOMAIN a.events = 1..n
  BY DEF Ajaxes
<1>2. /\ b \in Ajaxes /\ b.events = Append(a.events, event)
      /\ b.active = a.active /\ b.requests = a.requests /\ b.threw = a.threw /\ b.crossed = a.crossed
  <2>1. Append(a.events, event) \in Seq({"ajaxStart", "ajaxStop"})
    BY <1>1
  <2>2. b = [a EXCEPT !.events = Append(a.events, event)]
    BY DEF Ajax!Triggered
  <2>3. QED
    BY <2>1, <2>2 DEF Ajaxes
<1>3. /\ Len(b.events) = n + 1 /\ DOMAIN b.events = 1..n + 1 /\ b.events[n + 1] = event
      /\ \A i \in 1..n : b.events[i] = a.events[i]
  BY <1>1, <1>2
<1> HIDE DEF n
<1>4. Odd(n + 1) <=> ~Odd(n)
  BY <1>1, OddNext
<1>5. ASSUME Alternate(a.events), event = IF Odd(n) THEN "ajaxStop" ELSE "ajaxStart"
      PROVE  Alternate(b.events)
  <2>1. SUFFICES ASSUME NEW i \in 1..n + 1
                 PROVE  b.events[i] = IF Odd(i) THEN "ajaxStart" ELSE "ajaxStop"
    BY <1>3 DEF Alternate
  <2>2. CASE i \in 1..n
    BY <1>1, <1>3, <1>5, <2>2 DEF Alternate
  <2>3. CASE i = n + 1
    BY <1>3, <1>4, <1>5, <2>3
  <2>4. QED
    BY <1>1, <2>2, <2>3
<1>6. QED
  BY <1>2, <1>3, <1>4, <1>5 DEF n

LEMMA CountInIs ==
    ASSUME NEW a \in Ajaxes, NEW b, b = Ajax!CountIn(a)
    PROVE  /\ b \in Ajaxes
           /\ b.requests = a.requests /\ b.threw = a.threw /\ b.crossed = a.crossed
           /\ \A n \in Int : Balanced(a, n) => Balanced(b, n + 1)
<1> DEFINE more == [a EXCEPT !.active = @ + 1]
<1>1. /\ more \in Ajaxes /\ more.active = a.active + 1 /\ more.requests = a.requests
      /\ more.events = a.events /\ more.threw = a.threw /\ more.crossed = a.crossed
  BY DEF Ajaxes
<1>2. b = IF a.active = 0 THEN Ajax!Triggered(more, "ajaxStart") ELSE more
  BY DEF Ajax!CountIn
<1> HIDE DEF more
<1>3. /\ b \in Ajaxes /\ b.active = a.active + 1
      /\ b.requests = a.requests /\ b.threw = a.threw /\ b.crossed = a.crossed
  BY <1>1, <1>2, TriggeredIs
<1>4. UnderWay(b) = UnderWay(a) /\ Cardinality(UnderWay(a)) \in Nat
  BY <1>3, UnderWayFinite DEF UnderWay
<1>5. ASSUME NEW n \in Int, Balanced(a, n)
      PROVE  Balanced(b, n + 1)
  <2>1. /\ a.active \in Nat /\ a.active = Cardinality(UnderWay(a)) + n
        /\ Alternate(a.events) /\ (Odd(Len(a.events)) <=> a.active # 0)
    BY <1>5 DEF Balanced
  <2>2. Alternate(b.events) /\ Odd(Len(b.events))
    BY <1>1, <1>2, <2>1, TriggeredIs
  <2>3. b.active \in Nat /\ b.active # 0 /\ b.active = Cardinality(UnderWay(b)) + (n + 1)
    BY <1>3, <1>4, <2>1
  <2>4. QED
    BY <2>2, <2>3 DEF Balanced
<1>6. QED
  BY <1>3, <1>5

LEMMA CountOutIs ==
    ASSUME NEW a \in Ajaxes, NEW b, b = Ajax!CountOut(a)
    PROVE  /\ b \in Ajaxes
           /\ b.requests = a.requests /\ b.threw = a.threw /\ b.crossed = a.crossed
           /\ Balanced(a, 1) => Balanced(b, 0)
<1> DEFINE less == [a EXCEPT !.active = @ - 1]
<1>1. /\ less \in Ajaxes /\ less.active = a.active - 1 /\ less.requests = a.requests
      /\ less.events = a.events /\ less.threw = a.threw /\ less.crossed = a.crossed
  BY DEF Ajaxes
<1>2. b = IF less.active = 0 THEN Ajax!Triggered(less, "ajaxStop") ELSE less
  BY DEF Ajax!CountOut
<1> HIDE DEF less
<1>3. /\ b \in Ajaxes /\ b.active = a.active - 1
      /\ b.requests = a.requests /\ b.threw = a.threw /\ b.crossed = a.crossed
  BY <1>1, <1>2, TriggeredIs
<1>4. UnderWay(b) = UnderWay(a) /\ Cardinality(UnderWay(a)) \in Nat
  BY <1>3, UnderWayFinite DEF UnderWay
<1>5. ASSUME Balanced(a, 1)
      PROVE  Balanced(b, 0)
  <2>1. /\ a.active \in Nat /\ a.active = Cardinality(UnderWay(a)) + 1
        /\ Alternate(a.events) /\ (Odd(Len(a.events)) <=> a.active # 0)
    BY <1>5 DEF Balanced
  <2>2. a.active # 0 /\ b.active \in Nat /\ b.active = Cardinality(UnderWay(b)) + 0
    BY <1>3, <1>4, <2>1
  <2>3. Alternate(b.events) /\ (Odd(Len(b.events)) <=> b.active # 0)
    BY <1>1, <1>2, <1>3, <2>1, <2>2, TriggeredIs
  <2>4. QED
    BY <2>2, <2>3 DEF Balanced
<1>6. QED
  BY <1>3, <1>5

\* A request under way joins the others, counted or not
LEMMA BegunIs ==
    ASSUME NEW a \in Ajaxes, NEW q \in AjaxRequest, NEW b, b = Ajax!Begun(a, q)
    PROVE  LET n == Len(a.requests)
           IN  /\ b \in Ajaxes /\ n \in Nat
               /\ DOMAIN a.requests = 1..n /\ DOMAIN b.requests = 1..n + 1
               /\ b.requests[n + 1] = q
               /\ \A r \in 1..n : b.requests[r] = a.requests[r]
               /\ b.active = a.active /\ b.events = a.events /\ b.threw = a.threw /\ b.crossed = a.crossed
<1> DEFINE n == Len(a.requests)
<1>1. a.requests \in Seq(AjaxRequest) /\ n \in Nat /\ DOMAIN a.requests = 1..n
  BY DEF Ajaxes
<1>2. /\ b.requests = Append(a.requests, q) /\ Append(a.requests, q) \in Seq(AjaxRequest)
      /\ b.active = a.active /\ b.events = a.events /\ b.threw = a.threw /\ b.crossed = a.crossed
  BY <1>1 DEF Ajax!Begun, Ajaxes
<1>3. b \in Ajaxes
  BY <1>2 DEF Ajax!Begun, Ajaxes
<1>4. /\ DOMAIN b.requests = 1..n + 1 /\ b.requests[n + 1] = q
      /\ \A r \in 1..n : b.requests[r] = a.requests[r]
  BY <1>1, <1>2
<1>5. QED
  BY <1>1, <1>2, <1>3, <1>4

LEMMA BegunBalanced ==
    ASSUME NEW a \in Ajaxes, NEW q \in AjaxRequest, NEW b, b = Ajax!Begun(a, q), NEW m \in Int, Balanced(a, m)
    PROVE  /\ ~q.globals => Balanced(b, m)
           /\ q.globals /\ q.state < 2 => Balanced(b, m - 1)
<1> DEFINE n == Len(a.requests)
<1>1. /\ n \in Nat
      /\ DOMAIN a.requests = 1..n /\ DOMAIN b.requests = 1..n + 1
      /\ b.requests[n + 1] = q
      /\ \A r \in 1..n : b.requests[r] = a.requests[r]
      /\ b.active = a.active /\ b.events = a.events
  BY BegunIs
<1> HIDE DEF n
<1>2. \A r : r \in 1..n + 1 <=> r \in 1..n \/ r = n + 1
  BY <1>1
<1>3. \A r : r \in UnderWay(b) <=> r \in UnderWay(a) \/ (r = n + 1 /\ q.globals /\ q.state < 2)
  BY <1>1, <1>2 DEF UnderWay
<1>4. CASE ~q.globals
  <2>1. UnderWay(b) = UnderWay(a)
    BY <1>3, <1>4
  <2>2. QED
    BY <1>1, <1>4, <2>1 DEF Balanced
<1>5. CASE q.globals /\ q.state < 2
  <2>1. UnderWay(b) = UnderWay(a) \cup {n + 1}
    BY <1>3, <1>5
  <2>2. n + 1 \notin UnderWay(a)
    BY <1>1 DEF UnderWay
  <2>3. /\ Cardinality(UnderWay(b)) = Cardinality(UnderWay(a)) + 1
        /\ Cardinality(UnderWay(a)) \in Nat
    BY <2>1, <2>2, UnderWayFinite, FS_AddElement
  <2>4. b.active = Cardinality(UnderWay(b)) + (m - 1)
    BY <1>1, <2>3 DEF Balanced
  <2>5. QED
    BY <1>1, <1>5, <2>4 DEF Balanced
<1>6. QED
  BY <1>4, <1>5

\* A request that is made counts from the start when its events are global
LEMMA CountedIs ==
    ASSUME NEW a \in Ajaxes, NEW q \in AjaxRequest, q.state < 2, ~q.globals,
           NEW b, b = Ajax!Counted(a, q)
    PROVE  LET n == Len(a.requests)
           IN  /\ b \in Ajaxes /\ n \in Nat
               /\ DOMAIN a.requests = 1..n /\ DOMAIN b.requests = 1..n + 1
               /\ b.requests[n + 1] = [q EXCEPT !.globals = q.settings.global]
               /\ \A r \in 1..n : b.requests[r] = a.requests[r]
               /\ b.threw = a.threw /\ b.crossed = a.crossed
               /\ \A m \in Int : Balanced(a, m) => Balanced(b, m)
<1> DEFINE p == [q EXCEPT !.globals = TRUE]
           n == Len(a.requests)
           c == Ajax!Begun(a, p)
<1>1. q.settings.global \in BOOLEAN /\ q.globals = FALSE
  BY DEF AjaxRequest
<1>2. CASE q.settings.global
  <2>1. p \in AjaxRequest /\ p.globals /\ p.state < 2
    BY <1>1, <1>2 DEF AjaxRequest
  <2>8. p = [q EXCEPT !.globals = q.settings.global]
    BY <1>2
  <2>2. b = Ajax!CountIn(c)
    BY <1>2 DEF Ajax!Counted
  <2>0. c = Ajax!Begun(a, p)
    OBVIOUS
  <2> HIDE DEF p, c
  <2>3. /\ c \in Ajaxes /\ n \in Nat
        /\ DOMAIN a.requests = 1..n /\ DOMAIN c.requests = 1..n + 1
        /\ c.requests[n + 1] = p
        /\ \A r \in 1..n : c.requests[r] = a.requests[r]
        /\ c.threw = a.threw /\ c.crossed = a.crossed
    BY <2>0, <2>1, BegunIs
  <2>4. /\ b \in Ajaxes
        /\ b.requests = c.requests /\ b.threw = c.threw /\ b.crossed = c.crossed
        /\ \A m \in Int : Balanced(c, m) => Balanced(b, m + 1)
    BY <2>2, <2>3, CountInIs
  <2>5. ASSUME NEW m \in Int, Balanced(a, m)
        PROVE  Balanced(b, m)
    <3>1. Balanced(c, m - 1) /\ m - 1 \in Int /\ (m - 1) + 1 = m
      BY <2>0, <2>1, <2>3, <2>5, BegunBalanced
    <3>2. Balanced(b, (m - 1) + 1)
      BY <2>4, <3>1
    <3>3. QED
      BY <3>1, <3>2
  <2>6. QED
    BY <2>3, <2>4, <2>5, <2>8
<1>3. CASE ~q.settings.global
  <2>1. b = Ajax!Begun(a, q)
    BY <1>3 DEF Ajax!Counted
  <2>2. q = [q EXCEPT !.globals = q.settings.global]
    BY <1>1, <1>3 DEF AjaxRequest
  <2>3. \A m \in Int : Balanced(a, m) => Balanced(b, m)
    BY <1>1, <2>1, BegunBalanced
  <2>4. QED
    BY <2>1, <2>2, <2>3, BegunIs
<1>4. QED
  BY <1>2, <1>3

LEMMA BecomesIs ==
    ASSUME NEW a \in Ajaxes, NEW r \in DOMAIN a.requests, NEW q \in AjaxRequest,
           NEW b, b = Ajax!Becomes(a, r, q)
    PROVE  /\ b \in Ajaxes
           /\ DOMAIN b.requests = DOMAIN a.requests /\ b.requests[r] = q
           /\ \A s \in DOMAIN a.requests : s # r => b.requests[s] = a.requests[s]
           /\ b.active = a.active /\ b.events = a.events /\ b.threw = a.threw /\ b.crossed = a.crossed
<1>1. a.requests \in Seq(AjaxRequest)
  BY DEF Ajaxes
<1>2. b.requests = [a.requests EXCEPT ![r] = q] /\ [a.requests EXCEPT ![r] = q] \in Seq(AjaxRequest)
  BY <1>1 DEF Ajax!Becomes, Ajaxes
<1>3. /\ b.active = a.active /\ b.events = a.events /\ b.threw = a.threw /\ b.crossed = a.crossed
      /\ b \in Ajaxes
  BY <1>2 DEF Ajax!Becomes, Ajaxes
<1>4. QED
  BY <1>1, <1>2, <1>3

\* A request that goes on is counted as before, and one that ends is one less
LEMMA BecomesBalanced ==
    ASSUME NEW a \in Ajaxes, NEW r \in DOMAIN a.requests, NEW q \in AjaxRequest, NEW b, b = Ajax!Becomes(a, r, q),
           NEW m \in Int, Balanced(a, m), q.globals = a.requests[r].globals
    PROVE  /\ (q.state < 2 <=> a.requests[r].state < 2) \/ ~q.globals => Balanced(b, m)
           /\ q.state = 2 /\ a.requests[r].state < 2 /\ q.globals => Balanced(b, m + 1)
<1>1. /\ b \in Ajaxes
      /\ DOMAIN b.requests = DOMAIN a.requests /\ b.requests[r] = q
      /\ \A s \in DOMAIN a.requests : s # r => b.requests[s] = a.requests[s]
      /\ b.active = a.active /\ b.events = a.events
  BY BecomesIs
<1>2. CASE (q.state < 2 <=> a.requests[r].state < 2) \/ ~q.globals
  <2>1. \A s : s \in UnderWay(b) <=> s \in UnderWay(a)
    BY <1>1, <1>2 DEF UnderWay
  <2>2. UnderWay(b) = UnderWay(a)
    BY <2>1
  <2>3. Balanced(b, m)
    BY <1>1, <2>2 DEF Balanced
  <2>4. QED
    BY <1>2, <2>3
<1>3. CASE q.state = 2 /\ a.requests[r].state < 2 /\ q.globals
  <2>1. r \in UnderWay(a) /\ r \notin UnderWay(b)
    <3>1. a.requests[r].globals /\ a.requests[r].state < 2
      BY <1>3
    <3>2. ~(b.requests[r].state < 2)
      BY <1>1, <1>3
    <3>3. QED
      BY <3>1, <3>2 DEF UnderWay
  <2>2. UnderWay(b) = UnderWay(a) \ {r}
    <3>1. \A s : s # r => (s \in UnderWay(b) <=> s \in UnderWay(a))
      BY <1>1 DEF UnderWay
    <3>2. QED
      BY <2>1, <3>1
  <2>3. Cardinality(UnderWay(b)) = Cardinality(UnderWay(a)) - 1 /\ Cardinality(UnderWay(a)) \in Nat
    BY <2>1, <2>2, UnderWayFinite, FS_RemoveElement, ZenonT(40)
  <2>4. b.active = Cardinality(UnderWay(b)) + (m + 1)
    BY <1>1, <2>3 DEF Balanced
  <2>5. Balanced(b, m + 1)
    BY <1>1, <2>4 DEF Balanced
  <2>6. QED
    BY <1>3, <2>5
<1>4. QED
  BY <1>2, <1>3

LEMMA RequestIs ==
    ASSUME NEW settings \in [global : BOOLEAN, timeout : BOOLEAN, want : DataTypes \cup {"*"}],
           NEW q, q = Ajax!Request(settings)
    PROVE  /\ q \in AjaxRequest
           /\ q.settings = settings /\ q.state = 0 /\ q.ends = 0 /\ q.heard = <<>>
           /\ ~q.globals /\ ~q.callback /\ ~q.timer /\ ~q.fired /\ ~q.transport /\ ~q.installed
<1>1. <<>> \in Seq(AjaxHeard)
  OBVIOUS
<1>2. QED
  BY <1>1 DEF Ajax!Request, AjaxRequest

\* A request that a callback makes is under way at once
LEMMA NestedIs ==
    ASSUME NEW a \in Ajaxes, NEW b, b = Ajax!Nested(a)
    PROVE  /\ b \in Ajaxes /\ DOMAIN a.requests \subseteq DOMAIN b.requests
           /\ b.threw = a.threw /\ b.crossed = a.crossed
           /\ \A r \in DOMAIN a.requests : b.requests[r] = a.requests[r]
           /\ \A r \in DOMAIN b.requests \ DOMAIN a.requests : \A threw : RequestRight(b.requests[r], threw)
           /\ \A m \in Int : Balanced(a, m) => Balanced(b, m)
<1> DEFINE plain == [global |-> TRUE, timeout |-> FALSE, want |-> "*"]
           q == Ajax!Request(plain)
           v == Ajax!Sent(Ajax!Ready(q))
           w == [v EXCEPT !.globals = v.settings.global]
           n == Len(a.requests)
<1>1. plain \in [global : BOOLEAN, timeout : BOOLEAN, want : DataTypes \cup {"*"}]
  OBVIOUS
<1>2. q = Ajax!Request(plain) /\ v = Ajax!Sent(Ajax!Ready(q)) /\ b = Ajax!Counted(a, v)
  BY DEF Ajax!Nested
<1> HIDE DEF q, v
<1>3. /\ q \in AjaxRequest
      /\ q.settings = plain /\ q.state = 0 /\ q.ends = 0 /\ q.heard = <<>>
      /\ ~q.globals /\ ~q.callback /\ ~q.timer /\ ~q.fired /\ ~q.transport /\ ~q.installed
  BY <1>1, <1>2, RequestIs
<1>4. /\ v \in AjaxRequest /\ v.state = 1 /\ ~v.globals /\ ~v.fired /\ v.ends = 0 /\ v.heard = <<>>
      /\ v.transport
  <2> DEFINE p == Ajax!Ready(q)
             s == Ajax!Sending(p)
  <2>1. /\ p \in AjaxRequest /\ p.settings = plain /\ p.transport /\ p.ends = 0 /\ p.heard = <<>>
        /\ ~p.globals /\ ~p.fired
    BY <1>3 DEF Ajax!Ready, AjaxRequest
  <2>2. s = Ajax!Sending(p) /\ v = [s EXCEPT !.callback = TRUE]
    BY <1>2 DEF Ajax!Sent
  <2> HIDE DEF p, s
  <2>3. p.settings.timeout = FALSE
    BY <2>1
  <2>4. /\ s \in AjaxRequest /\ s.state = 1 /\ s.transport /\ s.ends = 0 /\ s.heard = <<>>
        /\ ~s.globals /\ ~s.fired
    BY <2>1, <2>2, <2>3 DEF Ajax!Sending, AjaxRequest
  <2>5. QED
    BY <2>2, <2>4 DEF AjaxRequest
<1>5. /\ w \in AjaxRequest /\ w.state = 1 /\ ~w.fired /\ w.ends = 0 /\ w.heard = <<>> /\ w.transport
  BY <1>4 DEF AjaxRequest
<1> HIDE DEF w, n, plain
<1>6. \A threw : RequestRight(w, threw)
  BY <1>5 DEF RequestRight
<1>7. v.state < 2
  BY <1>4
<1>8. /\ b \in Ajaxes /\ n \in Nat
      /\ DOMAIN a.requests = 1..n /\ DOMAIN b.requests = 1..n + 1
      /\ b.requests[n + 1] = w
      /\ \A r \in 1..n : b.requests[r] = a.requests[r]
      /\ b.threw = a.threw /\ b.crossed = a.crossed
      /\ \A m \in Int : Balanced(a, m) => Balanced(b, m)
  BY <1>2, <1>4, <1>7, CountedIs DEF w, n
<1>9. \A r \in DOMAIN b.requests \ DOMAIN a.requests : r = n + 1
  BY <1>8
<1>10. DOMAIN a.requests \subseteq DOMAIN b.requests
  BY <1>8
<1>11. QED
  BY <1>6, <1>8, <1>9, <1>10

LEMMA AppendTwo ==
    ASSUME NEW S, NEW x \in S, NEW y \in S
    PROVE  Append(<<>>, x) = <<x>> /\ Append(<<x>>, y) = <<x, y>>
<1>1. Append(<<>>, x) = <<x>>
  OBVIOUS
<1>2. /\ <<x>> \in Seq(S) /\ <<x, y>> \in Seq(S) /\ Append(<<x>>, y) \in Seq(S)
      /\ Len(<<x, y>>) = 2 /\ Len(Append(<<x>>, y)) = 2
  OBVIOUS
<1>3. \A i \in 1..2 : Append(<<x>>, y)[i] = <<x, y>>[i]
  <2>1. Append(<<x>>, y)[1] = x /\ Append(<<x>>, y)[2] = y
    OBVIOUS
  <2>2. \A i \in 1..2 : i = 1 \/ i = 2
    OBVIOUS
  <2>3. QED
    BY <2>1, <2>2
<1>4. Append(<<x>>, y) = <<x, y>>
  BY <1>2, <1>3, SeqEqual
<1>5. QED
  BY <1>1, <1>4

\* A request that ends tells its outcome, and complete when nothing was thrown
LEMMA EndedIs ==
    ASSUME NEW q \in AjaxRequest, NEW o \in Outcomes(q.settings.want), NEW throws \in BOOLEAN,
           NEW e, e = Ajax!Ended(q, o, throws)
    PROVE  /\ e \in AjaxRequest /\ e.state = 2 /\ e.globals = q.globals
           /\ \A old, threw \in BOOLEAN :
                 RequestRight(q, old) /\ q.state < 2 /\ ~q.callback /\ (throws /\ q.installed => threw)
                    => RequestRight(e, threw)
<1> DEFINE over == [q EXCEPT !.state = 2, !.timer = FALSE, !.transport = FALSE, !.ends = @ + 1, !.fired = TRUE]
           done == <<"complete">>
<1>1. /\ over \in AjaxRequest /\ over.state = 2 /\ over.globals = q.globals /\ over.settings = q.settings
      /\ over.installed = q.installed /\ over.heard = q.heard /\ over.callback = q.callback
      /\ ~over.timer /\ over.fired /\ over.ends = q.ends + 1
  <2>1. q.ends + 1 \in Nat
    BY DEF AjaxRequest
  <2>2. over \in AjaxRequest
    BY <2>1 DEF AjaxRequest
  <2>3. /\ over.state = 2 /\ over.globals = q.globals /\ over.settings = q.settings
        /\ over.installed = q.installed /\ over.heard = q.heard /\ over.callback = q.callback
    BY DEF AjaxRequest
  <2>4. ~over.timer /\ over.fired /\ over.ends = q.ends + 1
    BY DEF AjaxRequest
  <2>5. QED
    BY <2>2, <2>3, <2>4
<1>2. o \in AjaxHeard /\ done \in AjaxHeard
  BY DEF Outcomes, AjaxHeard
<1>3. q.heard \in Seq(AjaxHeard) /\ q.installed \in BOOLEAN /\ q.fired \in BOOLEAN /\ q.ends \in Nat
  BY DEF AjaxRequest
<1>4. \/ e = over /\ (q.fired \/ ~q.installed)
      \/ e = [over EXCEPT !.heard = Append(q.heard, o)] /\ throws /\ q.installed /\ ~q.fired
      \/ e = [over EXCEPT !.heard = Append(Append(q.heard, o), done)] /\ ~throws /\ q.installed /\ ~q.fired
  <2>1. CASE q.fired
    BY <2>1 DEF Ajax!Ended
  <2>2. CASE ~q.fired /\ throws
    BY <1>1, <2>2 DEF Ajax!Ended, Ajax!Hears
  <2>3. CASE ~q.fired /\ ~throws /\ ~q.installed
    BY <1>1, <2>3 DEF Ajax!Ended, Ajax!Hears
  <2>4. CASE ~q.fired /\ ~throws /\ q.installed
    <3>1. e = Ajax!Hears(Ajax!Hears(over, o), done)
      BY <2>4 DEF Ajax!Ended
    <3> HIDE DEF over
    <3>2. Ajax!Hears(over, o) = [over EXCEPT !.heard = Append(q.heard, o)]
      BY <1>1, <2>4 DEF Ajax!Hears
    <3>3. [over EXCEPT !.heard = Append(q.heard, o)].installed
          /\ [over EXCEPT !.heard = Append(q.heard, o)].heard = Append(q.heard, o)
      BY <1>1, <2>4 DEF AjaxRequest
    <3>4. e = [[over EXCEPT !.heard = Append(q.heard, o)] EXCEPT !.heard = Append(Append(q.heard, o), done)]
      BY <3>1, <3>2, <3>3 DEF Ajax!Hears
    <3>5. QED
      BY <1>1, <2>4, <3>4 DEF AjaxRequest
  <2>5. QED
    BY <1>3, <2>1, <2>2, <2>3, <2>4
<1> HIDE DEF over
<1>5. /\ Append(q.heard, o) \in Seq(AjaxHeard)
      /\ Append(Append(q.heard, o), done) \in Seq(AjaxHeard)
  BY <1>2, <1>3
<1> DEFINE hearing == IF q.fired \/ ~q.installed THEN q.heard
                   ELSE IF throws THEN Append(q.heard, o) ELSE Append(Append(q.heard, o), done)
<1>6. /\ e \in AjaxRequest /\ e.state = 2 /\ e.globals = q.globals /\ e.settings = q.settings
      /\ e.installed = q.installed /\ e.callback = q.callback
      /\ ~e.timer /\ e.fired /\ e.ends = q.ends + 1 /\ e.heard = hearing
  <2>1. CASE e = over /\ (q.fired \/ ~q.installed)
    BY <1>1, <2>1
  <2>2. CASE e = [over EXCEPT !.heard = Append(q.heard, o)] /\ throws /\ q.installed /\ ~q.fired
    BY <1>1, <1>5, <2>2, ZenonT(40) DEF AjaxRequest
  <2>3. CASE e = [over EXCEPT !.heard = Append(Append(q.heard, o), done)] /\ ~throws /\ q.installed /\ ~q.fired
    BY <1>1, <1>5, <2>3, ZenonT(40) DEF AjaxRequest
  <2>4. QED
    BY <1>4, <2>1, <2>2, <2>3
<1>7. ASSUME NEW old \in BOOLEAN, NEW threw \in BOOLEAN, RequestRight(q, old), q.state < 2, ~q.callback,
             throws /\ q.installed => threw
      PROVE  RequestRight(e, threw)
  <2>1. q.ends = 0 /\ ~q.fired /\ q.heard = <<>>
    BY <1>7 DEF RequestRight, AjaxRequest
  <2>2. ~q.installed => e.heard = <<>>
    BY <1>6, <2>1
  <2>3. q.installed => e.heard = <<o, done>> \/ (threw /\ e.heard = <<o>>)
    <3>1. Append(<<>>, o) = <<o>> /\ Append(<<o>>, done) = <<o, done>>
      BY <1>2, AppendTwo
    <3>2. QED
      BY <1>6, <1>7, <2>1, <3>1
  <2>4. QED
    BY <1>6, <1>7, <2>1, <2>2, <2>3, SMTT(30) DEF RequestRight
<1>8. QED
  BY <1>6, <1>7

LEMMA RequestRightThrown ==
    ASSUME NEW q, NEW threw, RequestRight(q, threw)
    PROVE  RequestRight(q, TRUE)
BY DEF RequestRight

\* The callbacks of a request that ends are called, and it is counted out when
\* none of them throws
LEMMA FinishedIs ==
    ASSUME NEW a \in Ajaxes, NEW r \in DOMAIN a.requests,
           NEW o \in Outcomes(a.requests[r].settings.want), NEW mood,
           NEW f, f = Ajax!Finished(a, r, o, mood)
    PROVE  /\ f \in Ajaxes /\ f.crossed = a.crossed /\ DOMAIN a.requests \subseteq DOMAIN f.requests
           /\ AjaxRight(a) /\ a.requests[r].state < 2 /\ ~a.requests[r].callback => AjaxRight(f)
<1>0. PICK q : q = a.requests[r] /\ o \in Outcomes(q.settings.want)
  OBVIOUS
<1> DEFINE hears == q.installed /\ ~q.fired
           throws == mood = "throws" /\ hears
           e == Ajax!Ended(q, o, throws)
           over == Ajax!Becomes(a, r, e)
           after == IF mood = "asks again" /\ hears THEN Ajax!Nested(over) ELSE over
<1>1. q \in AjaxRequest
  BY <1>0 DEF Ajaxes
<1>14. o \in Outcomes(q.settings.want)
  BY <1>0
<1>2. e = Ajax!Ended(q, o, throws) /\ throws \in BOOLEAN
  BY <1>1 DEF AjaxRequest
<1>3. over = Ajax!Becomes(a, r, e) /\ (after = over \/ after = Ajax!Nested(over))
  OBVIOUS
<1>4. f = IF throws THEN [over EXCEPT !.threw = TRUE] ELSE IF q.globals THEN Ajax!CountOut(after) ELSE after
  BY <1>0 DEF Ajax!Finished
<1>5. q.installed /\ throws => hears
  OBVIOUS
<1>6. throws => mood = "throws"
  OBVIOUS
<1> HIDE DEF e, over, after, throws, hears
<1>7. /\ e \in AjaxRequest /\ e.state = 2 /\ e.globals = q.globals
      /\ \A old, threw \in BOOLEAN :
            RequestRight(q, old) /\ q.state < 2 /\ ~q.callback /\ (throws /\ q.installed => threw)
               => RequestRight(e, threw)
  BY <1>1, <1>2, <1>14, EndedIs
<1>8. /\ over \in Ajaxes
      /\ DOMAIN over.requests = DOMAIN a.requests /\ over.requests[r] = e
      /\ \A s \in DOMAIN a.requests : s # r => over.requests[s] = a.requests[s]
      /\ over.threw = a.threw /\ over.crossed = a.crossed
  BY <1>3, <1>7, BecomesIs
<1>9. /\ after \in Ajaxes /\ DOMAIN over.requests \subseteq DOMAIN after.requests
      /\ after.threw = over.threw /\ after.crossed = over.crossed
      /\ \A s \in DOMAIN over.requests : after.requests[s] = over.requests[s]
      /\ \A s \in DOMAIN after.requests \ DOMAIN over.requests : \A threw : RequestRight(after.requests[s], threw)
      /\ \A m \in Int : Balanced(over, m) => Balanced(after, m)
  BY <1>3, <1>8, NestedIs
<1>10. a.threw \in BOOLEAN /\ q.globals \in BOOLEAN
  BY <1>1 DEF Ajaxes, AjaxRequest
<1>11. CASE throws
  <2>1. /\ f \in Ajaxes /\ f.requests = over.requests /\ f.threw = TRUE /\ f.crossed = over.crossed
    BY <1>4, <1>8, <1>11 DEF Ajaxes
  <2>2. ASSUME AjaxRight(a), q.state < 2, ~q.callback
        PROVE  AjaxRight(f)
    <3>1. RequestRight(e, TRUE)
      BY <1>0, <1>7, <1>10, <2>2 DEF AjaxRight
    <3>2. \A s \in DOMAIN a.requests : RequestRight(a.requests[s], TRUE)
      BY <2>2, RequestRightThrown DEF AjaxRight
    <3>3. \A s \in DOMAIN f.requests : RequestRight(f.requests[s], f.threw)
      BY <1>8, <2>1, <3>1, <3>2
    <3>4. QED
      BY <2>1, <3>3 DEF AjaxRight
  <2>3. QED
    BY <1>0, <1>8, <2>1, <2>2
<1>12. CASE ~throws
  <2> DEFINE out == Ajax!CountOut(after)
  <2>1. f = IF q.globals THEN out ELSE after
    BY <1>4, <1>12
  <2>2. /\ out \in Ajaxes
        /\ out.requests = after.requests /\ out.threw = after.threw /\ out.crossed = after.crossed
        /\ Balanced(after, 1) => Balanced(out, 0)
    BY <1>9, CountOutIs
  <2> HIDE DEF out
  <2>3. /\ f \in Ajaxes /\ f.requests = after.requests /\ f.threw = a.threw /\ f.crossed = a.crossed
    BY <1>8, <1>9, <2>1, <2>2
  <2>4. ASSUME AjaxRight(a), q.state < 2, ~q.callback
        PROVE  AjaxRight(f)
    <3>1. RequestRight(e, a.threw)
      BY <1>0, <1>7, <1>10, <1>12, <2>4 DEF AjaxRight
    <3>2. \A s \in DOMAIN over.requests : RequestRight(over.requests[s], a.threw)
      BY <1>8, <2>4, <3>1 DEF AjaxRight
    <3>3. \A s \in DOMAIN f.requests : RequestRight(f.requests[s], f.threw)
      BY <1>9, <2>3, <3>2
    <3>4. ASSUME ~a.threw
          PROVE  Balanced(f, 0)
      <4>1. Balanced(a, 0)
        BY <2>4, <3>4 DEF AjaxRight
      <4>2. CASE q.globals
        <5>4. e.globals = a.requests[r].globals /\ e.state = 2 /\ a.requests[r].state < 2 /\ e.globals
          BY <1>0, <1>7, <2>4, <4>2
        <5>5. over = Ajax!Becomes(a, r, e) /\ e \in AjaxRequest
          BY <1>3, <1>7
        <5>1. Balanced(over, 0 + 1)
          BY <4>1, <5>4, <5>5, BecomesBalanced
        <5>2. Balanced(after, 1)
          BY <1>9, <5>1
        <5>3. QED
          BY <2>1, <2>2, <4>2, <5>2
      <4>3. CASE ~q.globals
        <5>1. Balanced(over, 0)
          BY <1>0, <1>3, <1>7, <4>1, <4>3, BecomesBalanced
        <5>2. QED
          BY <1>9, <2>1, <4>3, <5>1
      <4>4. QED
        BY <4>2, <4>3
    <3>5. QED
      BY <2>3, <3>3, <3>4 DEF AjaxRight
  <2>5. QED
    BY <1>0, <1>8, <1>9, <2>3, <2>4
<1>13. QED
  BY <1>11, <1>12

LEMMA FinishIs ==
    ASSUME NEW a \in Ajaxes, NEW r \in DOMAIN a.requests,
           NEW o \in Outcomes(a.requests[r].settings.want), NEW mood,
           NEW f, f = Ajax!Finish(a, r, o, mood)
    PROVE  /\ f \in Ajaxes /\ f.crossed = a.crossed /\ DOMAIN a.requests \subseteq DOMAIN f.requests
           /\ AjaxRight(a) /\ ~a.requests[r].callback => AjaxRight(f)
<1>1. f = IF a.requests[r].state = 2 THEN a ELSE Ajax!Finished(a, r, o, mood)
  BY DEF Ajax!Finish
<1>2. a.requests[r].state = 2 \/ a.requests[r].state < 2
  <2>1. a.requests[r] \in AjaxRequest
    BY DEF Ajaxes
  <2>2. a.requests[r].state \in {0, 1, 2}
    BY <2>1 DEF AjaxRequest
  <2>3. QED
    BY <2>2
<1>3. CASE a.requests[r].state = 2
  BY <1>1, <1>3
<1>4. CASE a.requests[r].state # 2
  <2>1. f = Ajax!Finished(a, r, o, mood)
    BY <1>1, <1>4
  <2>2. /\ f \in Ajaxes /\ f.crossed = a.crossed /\ DOMAIN a.requests \subseteq DOMAIN f.requests
        /\ AjaxRight(a) /\ a.requests[r].state < 2 /\ ~a.requests[r].callback => AjaxRight(f)
    BY <2>1, FinishedIs
  <2>3. QED
    BY <1>2, <1>4, <2>2
<1>5. QED
  BY <1>3, <1>4

\* q may forget its callback or its timer and become p
Forgets(q, p) ==
    /\ p.callback => q.callback
    /\ p.timer => q.timer
    /\ p.settings = q.settings /\ p.state = q.state /\ p.installed = q.installed /\ p.globals = q.globals
    /\ p.transport = q.transport /\ p.fired = q.fired /\ p.heard = q.heard /\ p.ends = q.ends

LEMMA ForgetsIs ==
    ASSUME NEW a \in Ajaxes, NEW r \in DOMAIN a.requests,
           NEW p \in AjaxRequest, Forgets(a.requests[r], p),
           NEW b, b = Ajax!Becomes(a, r, p)
    PROVE  /\ b \in Ajaxes /\ b.crossed = a.crossed /\ DOMAIN b.requests = DOMAIN a.requests
           /\ b.requests[r] = p
           /\ AjaxRight(a) => AjaxRight(b)
<1>1. /\ b \in Ajaxes
      /\ DOMAIN b.requests = DOMAIN a.requests /\ b.requests[r] = p
      /\ \A s \in DOMAIN a.requests : s # r => b.requests[s] = a.requests[s]
      /\ b.threw = a.threw /\ b.crossed = a.crossed
  BY BecomesIs
<1>2. ASSUME AjaxRight(a)
      PROVE  AjaxRight(b)
  <2>1. RequestRight(a.requests[r], a.threw)
    BY <1>2 DEF AjaxRight
  <2>2. RequestRight(p, a.threw)
    BY <2>1 DEF RequestRight, Forgets
  <2>3. \A s \in DOMAIN b.requests : RequestRight(b.requests[s], b.threw)
    BY <1>1, <1>2, <2>2 DEF AjaxRight
  <2>4. /\ p.state < 2 <=> a.requests[r].state < 2
        /\ p.globals = a.requests[r].globals
    BY DEF Forgets
  <2>5. Balanced(a, 0) => Balanced(b, 0)
    BY <2>4, BecomesBalanced
  <2>6. QED
    BY <1>1, <1>2, <2>3, <2>5 DEF AjaxRight
<1>3. QED
  BY <1>1, <1>2

LEMMA AbortIs ==
    ASSUME NEW a \in Ajaxes, NEW r \in DOMAIN a.requests, NEW why \in Reasons, NEW mood,
           NEW f, f = Ajax!Abort(a, r, why, mood)
    PROVE  /\ f \in Ajaxes /\ f.crossed = a.crossed /\ DOMAIN a.requests \subseteq DOMAIN f.requests
           /\ AjaxRight(a) => AjaxRight(f)
<1>0. PICK q : q = a.requests[r]
  OBVIOUS
<1> DEFINE p == [q EXCEPT !.callback = @ /\ ~q.transport]
           b == Ajax!Becomes(a, r, p)
           o == <<"error", why>>
<1>1. q \in AjaxRequest
  BY <1>0 DEF Ajaxes
<1>2. /\ p \in AjaxRequest /\ p.settings = q.settings
      /\ p.callback => q.callback /\ ~q.transport
  BY <1>1 DEF AjaxRequest
<1>3. Forgets(q, p)
  BY <1>1 DEF AjaxRequest, Forgets
<1>4. f = Ajax!Finish(b, r, o, mood) /\ b = Ajax!Becomes(a, r, p)
  BY <1>0 DEF Ajax!Abort
<1>5. o \in Outcomes(q.settings.want)
  BY DEF Outcomes
<1> HIDE DEF p, b, o
<1>6. AjaxRight(a) => ~p.callback
  BY <1>0, <1>2 DEF AjaxRight, RequestRight
<1>7. /\ b \in Ajaxes /\ b.crossed = a.crossed /\ DOMAIN b.requests = DOMAIN a.requests
      /\ b.requests[r] = p
      /\ AjaxRight(a) => AjaxRight(b)
  <2>1. Forgets(a.requests[r], p)
    BY <1>0, <1>3
  <2>2. QED
    BY <1>2, <1>4, <2>1, ForgetsIs
<1>8. o \in Outcomes(b.requests[r].settings.want)
  BY <1>2, <1>5, <1>7
<1>9. /\ f \in Ajaxes /\ f.crossed = b.crossed /\ DOMAIN b.requests \subseteq DOMAIN f.requests
      /\ AjaxRight(b) /\ ~b.requests[r].callback => AjaxRight(f)
  BY <1>4, <1>7, <1>8, FinishIs
<1>10. QED
  BY <1>6, <1>7, <1>9

LEMMA LastOfTwo ==
    ASSUME NEW x, NEW y
    PROVE  Ajax!Last(<<y>> \o <<x>>) = x /\ Ajax!Last(<<y>> \o <<>>) = y /\ Ajax!Last(<<x>>) = x
<1>1. <<x>> \in Seq({x, y}) /\ <<y>> \in Seq({x, y}) /\ <<>> \in Seq({x, y})
  OBVIOUS
<1>2. /\ Len(<<y>> \o <<x>>) = 2 /\ (<<y>> \o <<x>>)[2] = x
      /\ Len(<<y>> \o <<>>) = 1 /\ (<<y>> \o <<>>)[1] = y
  BY <1>1
<1>3. QED
  BY <1>2 DEF Ajax!Last

\* The data are of the type asked for, or of one the server has when that is "*"
LEMMA DataIs ==
    ASSUME NEW want \in DataTypes \cup {"*"}, NEW ct \in ContentTypes \cup {"unknown"},
           NEW responses \in {<<"text">>, <<"xml", "text">>},
           NEW data, data = Ajax!Convert(Ajax!HandleResponses(want, ct, responses))
    PROVE  \/ data = "no conversion"
           \/ data \in Types /\ want \in {"*", data}
<1> DEFINE expected == IF want # "*" THEN <<want>> ELSE IF ct # Ajax!Unknown THEN <<ct>> ELSE <<>>
           fits(i)  == expected = <<>> \/ Ajax!HasConverter(responses[i], Head(expected))
           first    == {i \in DOMAIN responses : fits(i) /\ \A j \in 1..i - 1 : ~fits(j)}
           final    == IF expected # <<>> /\ Ajax!Contains(responses, Head(expected)) THEN Head(expected)
                       ELSE IF first # {} THEN responses[CHOOSE i \in first : TRUE]
                       ELSE Head(responses)
           chain    == IF expected # <<>> /\ final = Head(expected) THEN expected ELSE <<final>> \o expected
<1>1. Ajax!HandleResponses(want, ct, responses) = chain
  BY DEF Ajax!HandleResponses
<1>2. data = "no conversion" \/ data = Ajax!Last(chain)
  BY <1>1 DEF Ajax!Convert
<1>3. chain = expected \/ (chain = <<final>> \o expected)
  OBVIOUS
<1>4. expected = <<>> => chain = <<final>> \o expected /\ final \in {"text", "xml"}
  <2>1. SUFFICES ASSUME expected = <<>> PROVE final \in {"text", "xml"}
    OBVIOUS
  <2>2. \A i \in DOMAIN responses : responses[i] \in {"text", "xml"}
    OBVIOUS
  <2>3. Head(responses) \in {"text", "xml"}
    OBVIOUS
  <2>4. final = IF first # {} THEN responses[CHOOSE i \in first : TRUE] ELSE Head(responses)
    BY <2>1
  <2>5. first # {} => (CHOOSE i \in first : TRUE) \in first
    OBVIOUS
  <2>6. first \subseteq DOMAIN responses
    OBVIOUS
  <2> HIDE DEF first, final
  <2>7. QED
    BY <2>2, <2>3, <2>4, <2>5, <2>6
<1>5. \/ expected = <<>> /\ want = "*"
      \/ \E x \in Types : expected = <<x>> /\ want \in {"*", x}
  BY DEF Types, Ajax!Unknown
<1> HIDE DEF expected, final, chain
<1>6. CASE expected = <<>> /\ want = "*"
  <2>1. chain = <<final>> \o <<>> /\ final \in {"text", "xml"}
    BY <1>4, <1>6
  <2>2. Ajax!Last(chain) = final
    BY <2>1, LastOfTwo
  <2>3. QED
    BY <1>2, <1>6, <2>1, <2>2 DEF Types
<1>7. ASSUME NEW x \in Types, expected = <<x>>, want \in {"*", x}
      PROVE  data = "no conversion" \/ (data \in Types /\ want \in {"*", data})
  <2>1. chain = <<x>> \/ chain = <<final>> \o <<x>>
    BY <1>3, <1>7
  <2>2. Ajax!Last(chain) = x
    BY <2>1, LastOfTwo
  <2>3. QED
    BY <1>2, <1>7, <2>2
<1>8. QED
  BY <1>5, <1>6, <1>7

LEMMA OutcomeIs ==
    ASSUME NEW want \in DataTypes \cup {"*"}, NEW answer \in Ajax!Answers
    PROVE  Ajax!Outcome(want, answer) \in Outcomes(want)
<1>1. /\ answer.status \in {"ok", "notmodified", "failed"}
      /\ answer.contentType \in ContentTypes \cup {"unknown"}
      /\ answer.responses \in {<<"text">>, <<"xml", "text">>}
  BY DEF Ajax!Answers, Ajax!Unknown
<1>2. PICK data : data = Ajax!Convert(Ajax!HandleResponses(want, answer.contentType, answer.responses))
  OBVIOUS
<1>3. data = "no conversion" \/ (data \in Types /\ want \in {"*", data})
  <2>1. PICK ct \in ContentTypes \cup {"unknown"} : ct = answer.contentType
    BY <1>1
  <2>2. PICK responses \in {<<"text">>, <<"xml", "text">>} : responses = answer.responses
    BY <1>1
  <2>3. data = Ajax!Convert(Ajax!HandleResponses(want, ct, responses))
    BY <1>2, <2>1, <2>2
  <2>4. QED
    BY <2>3, DataIs
<1>4. PICK o : o = Ajax!Outcome(want, answer)
  OBVIOUS
<1>5. <<"success", "notmodified">> \in Outcomes(want)
  BY DEF Outcomes, Types
<1>6. <<"error", "error">> \in Outcomes(want) /\ <<"error", "parsererror">> \in Outcomes(want)
  BY DEF Outcomes, Reasons
<1>7. data # "no conversion" => <<"success", data>> \in Outcomes(want)
  BY <1>3 DEF Outcomes
<1>8. CASE answer.status = "notmodified"
  <2>1. o = <<"success", "notmodified">>
    BY <1>4, <1>8 DEF Ajax!Outcome
  <2>2. QED
    BY <1>4, <1>5, <2>1
<1>9. CASE answer.status = "failed"
  <2>1. o = <<"error", "error">>
    BY <1>4, <1>9 DEF Ajax!Outcome
  <2>2. QED
    BY <1>4, <1>6, <2>1
<1>10. CASE answer.status = "ok" /\ (answer.broken \/ data = "no conversion")
  <2>1. o = <<"error", "parsererror">>
    BY <1>2, <1>4, <1>10 DEF Ajax!Outcome
  <2>2. QED
    BY <1>4, <1>6, <2>1
<1>11. CASE answer.status = "ok" /\ ~(answer.broken \/ data = "no conversion")
  <2>1. o = <<"success", data>>
    BY <1>2, <1>4, <1>11 DEF Ajax!Outcome
  <2>2. QED
    BY <1>4, <1>7, <1>11, <2>1
<1>12. QED
  BY <1>1, <1>8, <1>9, <1>10, <1>11

LEMMA AnswerIs ==
    ASSUME NEW a \in Ajaxes, NEW r \in DOMAIN a.requests, NEW answer \in Ajax!Answers, NEW mood,
           NEW f, f = Ajax!Answer(a, r, answer, mood)
    PROVE  /\ f \in Ajaxes /\ f.crossed = a.crossed /\ DOMAIN a.requests \subseteq DOMAIN f.requests
           /\ AjaxRight(a) => AjaxRight(f)
<1>0. PICK q : q = a.requests[r]
  OBVIOUS
<1> DEFINE p == [q EXCEPT !.callback = FALSE]
           b == Ajax!Becomes(a, r, p)
           o == Ajax!Outcome(q.settings.want, answer)
<1>1. q \in AjaxRequest /\ q.settings.want \in DataTypes \cup {"*"}
  <2>1. q \in AjaxRequest
    BY <1>0 DEF Ajaxes
  <2>2. QED
    BY <2>1 DEF AjaxRequest
<1>2. p \in AjaxRequest /\ p.settings = q.settings /\ ~p.callback
  BY <1>1 DEF AjaxRequest
<1>3. Forgets(q, p)
  BY <1>1 DEF AjaxRequest, Forgets
<1>4. f = Ajax!Finish(b, r, o, mood) /\ b = Ajax!Becomes(a, r, p)
  BY <1>0 DEF Ajax!Answer
<1>5. o \in Outcomes(q.settings.want)
  BY <1>1, OutcomeIs
<1> HIDE DEF p, b, o
<1>6. /\ b \in Ajaxes /\ b.crossed = a.crossed /\ DOMAIN b.requests = DOMAIN a.requests
      /\ b.requests[r] = p
      /\ AjaxRight(a) => AjaxRight(b)
  <2>1. Forgets(a.requests[r], p)
    BY <1>0, <1>3
  <2>2. QED
    BY <1>2, <1>4, <2>1, ForgetsIs
<1>7. o \in Outcomes(b.requests[r].settings.want)
  BY <1>2, <1>5, <1>6
<1>8. /\ f \in Ajaxes /\ f.crossed = b.crossed /\ DOMAIN b.requests \subseteq DOMAIN f.requests
      /\ AjaxRight(b) /\ ~b.requests[r].callback => AjaxRight(f)
  BY <1>4, <1>6, <1>7, FinishIs
<1>9. QED
  BY <1>2, <1>6, <1>8

\* Sending fails at once: a request that has just been made ends
LEMMA ThrowsIs ==
    ASSUME NEW a \in Ajaxes, NEW r \in DOMAIN a.requests, NEW mood,
           NEW f, f = Ajax!Throws(a, r, mood)
    PROVE  /\ f \in Ajaxes /\ f.crossed = a.crossed /\ DOMAIN a.requests \subseteq DOMAIN f.requests
           /\ AjaxRight(a) /\ a.requests[r].state = 0 /\ ~a.requests[r].callback => AjaxRight(f)
<1>0. PICK q : q = a.requests[r]
  OBVIOUS
<1> DEFINE p == Ajax!Sending(q)
           b == Ajax!Becomes(a, r, p)
           o == <<"error", "error">>
<1>1. q \in AjaxRequest
  BY <1>0 DEF Ajaxes
<1>2. /\ p \in AjaxRequest /\ p.settings = q.settings /\ p.state = 1 /\ p.callback = q.callback
      /\ p.installed = q.installed /\ p.globals = q.globals /\ p.transport = q.transport
      /\ p.fired = q.fired /\ p.heard = q.heard /\ p.ends = q.ends
  <2>1. q.settings.timeout \in BOOLEAN
    BY <1>1 DEF AjaxRequest
  <2>2. QED
    BY <1>1, <2>1 DEF Ajax!Sending, AjaxRequest
<1>3. f = Ajax!Finish(b, r, o, mood) /\ b = Ajax!Becomes(a, r, p)
  BY <1>0 DEF Ajax!Throws
<1>4. o \in Outcomes(q.settings.want)
  BY DEF Outcomes, Reasons
<1> HIDE DEF p, b, o
<1>5. /\ b \in Ajaxes
      /\ DOMAIN b.requests = DOMAIN a.requests /\ b.requests[r] = p
      /\ \A s \in DOMAIN a.requests : s # r => b.requests[s] = a.requests[s]
      /\ b.threw = a.threw /\ b.crossed = a.crossed
  BY <1>2, <1>3, BecomesIs
<1>6. o \in Outcomes(b.requests[r].settings.want)
  BY <1>2, <1>4, <1>5
<1>7. /\ f \in Ajaxes /\ f.crossed = b.crossed /\ DOMAIN b.requests \subseteq DOMAIN f.requests
      /\ AjaxRight(b) /\ ~b.requests[r].callback => AjaxRight(f)
  BY <1>3, <1>5, <1>6, FinishIs
<1>8. ASSUME AjaxRight(a), q.state = 0
      PROVE  AjaxRight(b)
  <2>1. RequestRight(q, a.threw)
    BY <1>0, <1>8 DEF AjaxRight
  <2>2. RequestRight(p, a.threw)
    BY <1>2, <1>8, <2>1 DEF RequestRight
  <2>3. \A s \in DOMAIN b.requests : RequestRight(b.requests[s], b.threw)
    BY <1>5, <1>8, <2>2 DEF AjaxRight
  <2>4. /\ p.state < 2 <=> a.requests[r].state < 2
        /\ p.globals = a.requests[r].globals
    BY <1>0, <1>2, <1>8
  <2>5. b = Ajax!Becomes(a, r, p) /\ p \in AjaxRequest
    BY <1>2, <1>3
  <2>6. Balanced(a, 0) => Balanced(b, 0)
    BY <2>4, <2>5, BecomesBalanced
  <2>7. QED
    BY <1>5, <1>8, <2>3, <2>6 DEF AjaxRight
<1>9. QED
  BY <1>0, <1>2, <1>5, <1>7, <1>8

\* A request that has done nothing yet but begin
Fresh(q) ==
    /\ q \in AjaxRequest /\ q.state < 2 /\ ~q.globals /\ q.ends = 0 /\ q.heard = <<>> /\ ~q.fired
    /\ q.callback => q.transport

LEMMA FreshIs ==
    ASSUME NEW a \in Ajaxes, NEW q, Fresh(q),
           NEW b, b = Ajax!Counted(a, q) \/ b = Ajax!Begun(a, q)
    PROVE  LET r == Len(a.requests) + 1
           IN  /\ b \in Ajaxes /\ b.crossed = a.crossed
               /\ r \in DOMAIN b.requests /\ DOMAIN a.requests \subseteq DOMAIN b.requests
               /\ b.requests[r].state = q.state /\ b.requests[r].callback = q.callback
               /\ AjaxRight(a) => AjaxRight(b)
<1> DEFINE n == Len(a.requests)
           w == [q EXCEPT !.globals = q.settings.global]
<1>1. q \in AjaxRequest /\ q.state < 2 /\ ~q.globals
  BY DEF Fresh
<1>2. /\ w \in AjaxRequest /\ w.state = q.state /\ w.callback = q.callback /\ w.ends = q.ends
      /\ w.heard = q.heard /\ w.fired = q.fired /\ w.transport = q.transport /\ w.installed = q.installed
  <2>1. q.settings.global \in BOOLEAN
    BY <1>1 DEF AjaxRequest
  <2>2. QED
    BY <1>1, <2>1 DEF AjaxRequest
<1>3. \A threw : RequestRight(q, threw) /\ RequestRight(w, threw)
  <2>1. q.state # 2
    BY <1>1 DEF AjaxRequest
  <2> HIDE DEF w
  <2>2. QED
    BY <1>2, <2>1 DEF Fresh, RequestRight
<1>4. n \in Nat /\ DOMAIN a.requests = 1..n
  BY DEF Ajaxes
<1>5. /\ b \in Ajaxes /\ b.crossed = a.crossed /\ b.threw = a.threw
      /\ DOMAIN b.requests = 1..n + 1
      /\ b.requests[n + 1] = q \/ b.requests[n + 1] = w
      /\ \A r \in 1..n : b.requests[r] = a.requests[r]
      /\ Balanced(a, 0) => Balanced(b, 0)
  <2>1. CASE b = Ajax!Counted(a, q)
    BY <1>1, <2>1, CountedIs
  <2>2. CASE b = Ajax!Begun(a, q)
    <3>1. Balanced(a, 0) => Balanced(b, 0)
      BY <1>1, <2>2, BegunBalanced
    <3>2. QED
      BY <1>1, <2>2, <3>1, BegunIs
  <2>3. QED
    BY <2>1, <2>2
<1> HIDE DEF w, n
<1>6. n + 1 \in 1..n + 1 /\ \A r \in 1..n + 1 : r \in 1..n \/ r = n + 1
  BY <1>4
<1>7. ASSUME AjaxRight(a)
      PROVE  AjaxRight(b)
  <2>1. \A r \in DOMAIN b.requests : RequestRight(b.requests[r], b.threw)
    BY <1>3, <1>4, <1>5, <1>6, <1>7 DEF AjaxRight
  <2>2. QED
    BY <1>5, <1>7, <2>1 DEF AjaxRight
<1>8. b.requests[n + 1].state = q.state /\ b.requests[n + 1].callback = q.callback
  BY <1>2, <1>5
<1>9. DOMAIN a.requests \subseteq DOMAIN b.requests
  BY <1>4, <1>5
<1>10. QED
  BY <1>5, <1>6, <1>7, <1>8, <1>9 DEF n

\* The ways a request may have come before it is sent
LEMMA FreshRequests ==
    ASSUME NEW settings \in Ajax!Settings, NEW q, q = Ajax!Request(settings)
    PROVE  LET ready == Ajax!Ready(q)
               sent  == Ajax!Sent(ready)
           IN  /\ Fresh(q) /\ q.state = 0 /\ ~q.callback
               /\ Fresh([q EXCEPT !.installed = TRUE]) /\ ~[q EXCEPT !.installed = TRUE].callback
               /\ Fresh(ready) /\ ready.state = 0 /\ ~ready.callback
               /\ Fresh(sent) /\ Fresh([sent EXCEPT !.timer = FALSE])
<1> DEFINE ready == Ajax!Ready(q)
           sending == Ajax!Sending(ready)
           sent  == Ajax!Sent(ready)
<1>1. settings \in [global : BOOLEAN, timeout : BOOLEAN, want : DataTypes \cup {"*"}]
  BY DEF Ajax!Settings
<1>2. /\ q \in AjaxRequest
      /\ q.settings = settings /\ q.state = 0 /\ q.ends = 0 /\ q.heard = <<>>
      /\ ~q.globals /\ ~q.callback /\ ~q.timer /\ ~q.fired /\ ~q.transport /\ ~q.installed
  BY <1>1, RequestIs
<1>3. Fresh(q)
  BY <1>2 DEF Fresh
<1> DEFINE installed == [q EXCEPT !.installed = TRUE]
           untimed == [sent EXCEPT !.timer = FALSE]
<1>4. Fresh(installed) /\ ~installed.callback
  <2>1. /\ installed \in AjaxRequest /\ installed.state = 0 /\ installed.ends = 0
        /\ installed.heard = <<>> /\ ~installed.globals /\ ~installed.callback /\ ~installed.fired
    BY <1>2 DEF AjaxRequest
  <2> HIDE DEF installed
  <2>2. QED
    BY <2>1 DEF Fresh
<1>5. /\ ready \in AjaxRequest /\ ready.settings = settings /\ ready.state = 0 /\ ready.ends = 0
      /\ ready.heard = <<>> /\ ~ready.globals /\ ~ready.callback /\ ~ready.fired /\ ready.transport
  BY <1>2 DEF Ajax!Ready, AjaxRequest
<1>6. Fresh(ready)
  BY <1>5 DEF Fresh
<1>7. settings.timeout \in BOOLEAN
  BY <1>1
<1>8. sending = Ajax!Sending(ready) /\ sent = [sending EXCEPT !.callback = TRUE]
  BY DEF Ajax!Sent
<1> HIDE DEF ready, sending, sent
<1>9. /\ sending \in AjaxRequest /\ sending.state = 1 /\ sending.ends = 0
      /\ sending.heard = <<>> /\ ~sending.globals /\ ~sending.fired /\ sending.transport
  BY <1>5, <1>7, <1>8 DEF Ajax!Sending, AjaxRequest
<1>10. /\ sent \in AjaxRequest /\ sent.state = 1 /\ sent.ends = 0
       /\ sent.heard = <<>> /\ ~sent.globals /\ ~sent.fired /\ sent.transport
  BY <1>8, <1>9 DEF AjaxRequest
<1>11. Fresh(sent)
  BY <1>10 DEF Fresh
<1>12. Fresh(untimed)
  <2>1. /\ untimed \in AjaxRequest /\ untimed.state = 1 /\ untimed.ends = 0
        /\ untimed.heard = <<>> /\ ~untimed.globals /\ ~untimed.fired /\ untimed.transport
    BY <1>10 DEF AjaxRequest
  <2> HIDE DEF untimed
  <2>2. QED
    BY <2>1 DEF Fresh
<1>13. QED
  BY <1>2, <1>3, <1>4, <1>5, <1>6, <1>11, <1>12 DEF ready, sent

LEMMA AjaxInitInv == Ajax!Init => AjaxInv
<1>1. SUFFICES ASSUME Ajax!Init PROVE AjaxInv
  OBVIOUS
<1>2. /\ ajax \in Ajaxes /\ ajax.requests = <<>> /\ ajax.active = 0 /\ ajax.events = <<>>
      /\ DOMAIN ajax.requests = {}
  BY <1>1 DEF Ajax!Init, Ajaxes
<1>3. UnderWay(ajax) = {}
  BY <1>2 DEF UnderWay
<1>4. Cardinality(UnderWay(ajax)) = 0
  BY <1>3, FS_EmptySet
<1>5. Alternate(<<>>) /\ ~Odd(Len(<<>>))
  BY DEF Alternate, Odd
<1>6. Balanced(ajax, 0)
  BY <1>2, <1>4, <1>5 DEF Balanced
<1>7. QED
  BY <1>2, <1>6 DEF AjaxInv, AjaxRight

\* A handler of ajaxSend that aborts
LEMMA CrossedIs ==
    ASSUME NEW a \in Ajaxes, NEW b, b = [a EXCEPT !.crossed = TRUE]
    PROVE  b \in Ajaxes /\ b.crossed = TRUE
BY DEF Ajaxes

LEMMA AjaxMade ==
    ASSUME AjaxInv, NEW settings \in Ajax!Settings, NEW way \in Ajax!Ways,
           NEW answer, way = "sync" => answer \in Ajax!Answers,
           NEW mood, Ajax!Ajax(settings, way, answer, mood)
    PROVE  AjaxInv'
<1> DEFINE r       == Len(ajax.requests) + 1
           q       == Ajax!Request(settings)
           ready   == Ajax!Ready(q)
           sent    == Ajax!Sent(ready)
           found   == [q EXCEPT !.installed = TRUE]
           untimed == [sent EXCEPT !.timer = FALSE]
           counted == Ajax!Counted(ajax, ready)
           aborted == Ajax!Abort(counted, r, "abort", mood)
           retried == Ajax!Throws(aborted, r, "quiet")
<1>1. /\ Fresh(q) /\ q.state = 0 /\ ~q.callback
      /\ Fresh(found) /\ ~found.callback
      /\ Fresh(ready) /\ ready.state = 0 /\ ~ready.callback
      /\ Fresh(sent) /\ Fresh(untimed)
  BY FreshRequests
<1>2. ajax' =
        CASE way = "prefilter aborts" -> Ajax!Abort(Ajax!Begun(ajax, q), r, "abort", mood)
          [] way \in {"beforeSend refuses", "beforeSend aborts"} ->
                Ajax!Abort(Ajax!Counted(ajax, q), r, "abort", mood)
          [] way = "no transport" ->
                Ajax!Finish(Ajax!Counted(ajax, found), r, <<"error", "No Transport">>, mood)
          [] way = "ajaxSend aborts" -> IF mood = "throws" THEN aborted ELSE [retried EXCEPT !.crossed = TRUE]
          [] way = "send throws" -> Ajax!Throws(counted, r, mood)
          [] way = "sync" -> Ajax!Answer(Ajax!Counted(ajax, untimed), r, answer, mood)
          [] way = "async" -> Ajax!Counted(ajax, sent)
  BY DEF Ajax!Ajax
<1>3. ajax \in Ajaxes /\ (ajax.crossed \/ AjaxRight(ajax))
  BY DEF AjaxInv
<1> HIDE DEF q, ready, sent, found, untimed
<1>4. ASSUME NEW p, Fresh(p), NEW b, b = Ajax!Counted(ajax, p) \/ b = Ajax!Begun(ajax, p)
      PROVE  /\ b \in Ajaxes /\ b.crossed = ajax.crossed /\ r \in DOMAIN b.requests
             /\ b.requests[r].state = p.state /\ b.requests[r].callback = p.callback
             /\ AjaxRight(ajax) => AjaxRight(b)
  BY <1>3, <1>4, FreshIs
<1>5. /\ counted \in Ajaxes /\ counted.crossed = ajax.crossed /\ r \in DOMAIN counted.requests
      /\ counted.requests[r].state = 0 /\ ~counted.requests[r].callback
      /\ AjaxRight(ajax) => AjaxRight(counted)
  BY <1>1, <1>4
<1>6. "abort" \in Reasons
  BY DEF Reasons
<1>7. /\ aborted \in Ajaxes /\ aborted.crossed = ajax.crossed /\ r \in DOMAIN aborted.requests
      /\ AjaxRight(ajax) => AjaxRight(aborted)
  <2> HIDE DEF counted
  <2>1. /\ aborted \in Ajaxes /\ aborted.crossed = counted.crossed
        /\ DOMAIN counted.requests \subseteq DOMAIN aborted.requests
        /\ AjaxRight(counted) => AjaxRight(aborted)
    BY <1>5, <1>6, AbortIs
  <2>2. QED
    BY <1>5, <2>1
<1> HIDE DEF counted, aborted, r
<1>8. CASE way = "prefilter aborts"
  <2> DEFINE b == Ajax!Begun(ajax, q)
  <2>1. b \in Ajaxes /\ b.crossed = ajax.crossed /\ r \in DOMAIN b.requests /\ (AjaxRight(ajax) => AjaxRight(b))
    BY <1>1, <1>4
  <2>2. ajax' = Ajax!Abort(b, r, "abort", mood)
    BY <1>2, <1>8
  <2> HIDE DEF b
  <2>3. ajax' \in Ajaxes /\ (ajax').crossed = b.crossed /\ (AjaxRight(b) => AjaxRight(ajax'))
    BY <1>6, <2>1, <2>2, AbortIs
  <2>4. QED
    BY <1>3, <2>1, <2>3 DEF AjaxInv
<1>9. CASE way \in {"beforeSend refuses", "beforeSend aborts"}
  <2> DEFINE b == Ajax!Counted(ajax, q)
  <2>1. b \in Ajaxes /\ b.crossed = ajax.crossed /\ r \in DOMAIN b.requests /\ (AjaxRight(ajax) => AjaxRight(b))
    BY <1>1, <1>4
  <2>2. ajax' = Ajax!Abort(b, r, "abort", mood)
    BY <1>2, <1>9
  <2> HIDE DEF b
  <2>3. ajax' \in Ajaxes /\ (ajax').crossed = b.crossed /\ (AjaxRight(b) => AjaxRight(ajax'))
    BY <1>6, <2>1, <2>2, AbortIs
  <2>4. QED
    BY <1>3, <2>1, <2>3 DEF AjaxInv
<1>10. CASE way = "no transport"
  <2> DEFINE b == Ajax!Counted(ajax, found)
             o == <<"error", "No Transport">>
  <2>1. /\ b \in Ajaxes /\ b.crossed = ajax.crossed /\ r \in DOMAIN b.requests /\ ~b.requests[r].callback
        /\ AjaxRight(ajax) => AjaxRight(b)
    BY <1>1, <1>4
  <2>2. ajax' = Ajax!Finish(b, r, o, mood)
    BY <1>2, <1>10
  <2>3. o \in Outcomes(b.requests[r].settings.want)
    BY DEF Outcomes, Reasons
  <2> HIDE DEF b, o
  <2>4. ajax' \in Ajaxes /\ (ajax').crossed = b.crossed /\ (AjaxRight(b) => AjaxRight(ajax'))
    BY <2>1, <2>2, <2>3, FinishIs
  <2>5. QED
    BY <1>3, <2>1, <2>4 DEF AjaxInv
<1>11. CASE way = "ajaxSend aborts"
  <2>1. CASE mood = "throws"
    <3>1. ajax' = aborted
      BY <1>2, <1>11, <2>1
    <3>2. QED
      BY <1>3, <1>7, <3>1 DEF AjaxInv
  <2>2. CASE mood # "throws"
    <3>1. ajax' = [retried EXCEPT !.crossed = TRUE]
      BY <1>2, <1>11, <2>2
    <3>2. retried \in Ajaxes
      BY <1>7, ThrowsIs
    <3> HIDE DEF retried
    <3>3. ajax' \in Ajaxes /\ (ajax').crossed
      BY <3>1, <3>2, CrossedIs
    <3>4. QED
      BY <3>3 DEF AjaxInv
  <2>3. QED
    BY <2>1, <2>2
<1>12. CASE way = "send throws"
  <2>1. ajax' = Ajax!Throws(counted, r, mood)
    BY <1>2, <1>12
  <2>2. ajax' \in Ajaxes /\ (ajax').crossed = counted.crossed /\ (AjaxRight(counted) => AjaxRight(ajax'))
    BY <1>5, <2>1, ThrowsIs
  <2>3. QED
    BY <1>3, <1>5, <2>2 DEF AjaxInv
<1>13. CASE way = "sync"
  <2> DEFINE b == Ajax!Counted(ajax, untimed)
  <2>1. b \in Ajaxes /\ b.crossed = ajax.crossed /\ r \in DOMAIN b.requests /\ (AjaxRight(ajax) => AjaxRight(b))
    BY <1>1, <1>4
  <2>2. ajax' = Ajax!Answer(b, r, answer, mood)
    BY <1>2, <1>13
  <2> HIDE DEF b
  <2>5. answer \in Ajax!Answers
    BY <1>13
  <2>3. ajax' \in Ajaxes /\ (ajax').crossed = b.crossed /\ (AjaxRight(b) => AjaxRight(ajax'))
    BY <2>1, <2>2, <2>5, AnswerIs
  <2>4. QED
    BY <1>3, <2>1, <2>3 DEF AjaxInv
<1>14. CASE way = "async"
  <2>1. ajax' = Ajax!Counted(ajax, sent)
    BY <1>2, <1>14
  <2>2. ajax' \in Ajaxes /\ (ajax').crossed = ajax.crossed /\ (AjaxRight(ajax) => AjaxRight(ajax'))
    BY <1>1, <1>4, <2>1
  <2>3. QED
    BY <1>3, <2>2 DEF AjaxInv
<1>15. QED
  BY <1>8, <1>9, <1>10, <1>11, <1>12, <1>13, <1>14 DEF Ajax!Ways

LEMMA AjaxEnds ==
    ASSUME AjaxInv, NEW r \in DOMAIN ajax.requests, NEW mood,
           \/ Ajax!Timeout(r, mood) \/ Ajax!PageAborts(r, mood)
           \/ \E answer \in Ajax!Answers : Ajax!XhrEvent(r, answer, mood)
    PROVE  AjaxInv'
<1>1. ajax \in Ajaxes /\ (ajax.crossed \/ AjaxRight(ajax))
  BY DEF AjaxInv
<1>2. "abort" \in Reasons /\ "timeout" \in Reasons
  BY DEF Reasons
<1>3. CASE Ajax!Timeout(r, mood)
  <2>0. PICK q : q = ajax.requests[r]
    OBVIOUS
  <2> DEFINE p == [q EXCEPT !.timer = FALSE]
             b == Ajax!Becomes(ajax, r, p)
  <2>1. q \in AjaxRequest
    BY <1>1, <2>0 DEF Ajaxes
  <2>2. p \in AjaxRequest /\ Forgets(q, p)
    BY <2>1 DEF AjaxRequest, Forgets
  <2>3. ajax' = Ajax!Abort(b, r, "timeout", mood) /\ b = Ajax!Becomes(ajax, r, p)
    BY <1>3, <2>0 DEF Ajax!Timeout
  <2> HIDE DEF p, b
  <2>4. b \in Ajaxes /\ b.crossed = ajax.crossed /\ r \in DOMAIN b.requests /\ (AjaxRight(ajax) => AjaxRight(b))
    <3>1. Forgets(ajax.requests[r], p)
      BY <2>0, <2>2
    <3>2. QED
      BY <1>1, <2>2, <2>3, <3>1, ForgetsIs
  <2>5. ajax' \in Ajaxes /\ (ajax').crossed = b.crossed /\ (AjaxRight(b) => AjaxRight(ajax'))
    BY <1>2, <2>3, <2>4, AbortIs
  <2>6. QED
    BY <1>1, <2>4, <2>5 DEF AjaxInv
<1>4. CASE Ajax!PageAborts(r, mood)
  <2>1. ajax' = Ajax!Abort(ajax, r, "abort", mood)
    BY <1>4 DEF Ajax!PageAborts
  <2>2. ajax' \in Ajaxes /\ (ajax').crossed = ajax.crossed /\ (AjaxRight(ajax) => AjaxRight(ajax'))
    BY <1>1, <1>2, <2>1, AbortIs
  <2>3. QED
    BY <1>1, <2>2 DEF AjaxInv
<1>5. ASSUME NEW answer \in Ajax!Answers, Ajax!XhrEvent(r, answer, mood)
      PROVE  AjaxInv'
  <2>1. ajax' = Ajax!Answer(ajax, r, answer, mood)
    BY <1>5 DEF Ajax!XhrEvent
  <2>2. ajax' \in Ajaxes /\ (ajax').crossed = ajax.crossed /\ (AjaxRight(ajax) => AjaxRight(ajax'))
    BY <1>1, <2>1, AnswerIs
  <2>3. QED
    BY <1>1, <2>2 DEF AjaxInv
<1>6. QED
  BY <1>3, <1>4, <1>5

LEMMA AjaxStep == ASSUME AjaxInv, Ajax!Next PROVE AjaxInv'
<1>1. CASE \E mood \in Ajax!Moods : \E settings \in Ajax!Settings :
              \E way \in Ajax!Ways \ {"sync"} : Ajax!Ajax(settings, way, Ajax!SomeAnswer, mood)
  <2>1. PICK mood \in Ajax!Moods, settings \in Ajax!Settings, way \in Ajax!Ways \ {"sync"} :
           Ajax!Ajax(settings, way, Ajax!SomeAnswer, mood)
    BY <1>1
  <2>2. way \in Ajax!Ways /\ way # "sync"
    OBVIOUS
  <2>3. QED
    BY <2>1, <2>2, AjaxMade
<1>2. CASE \E mood \in Ajax!Moods : \E settings \in Ajax!Settings :
              \E answer \in Ajax!Answers : Ajax!Ajax(settings, "sync", answer, mood)
  <2>1. PICK mood \in Ajax!Moods, settings \in Ajax!Settings, answer \in Ajax!Answers :
           Ajax!Ajax(settings, "sync", answer, mood)
    BY <1>2
  <2>2. "sync" \in Ajax!Ways
    BY DEF Ajax!Ways
  <2>3. QED
    BY <2>1, <2>2, AjaxMade
<1>3. CASE \E mood \in Ajax!Moods : \E r \in DOMAIN ajax.requests :
              \/ Ajax!Timeout(r, mood) \/ Ajax!PageAborts(r, mood)
              \/ \E answer \in Ajax!Answers : Ajax!XhrEvent(r, answer, mood)
  BY <1>3, AjaxEnds
<1>4. QED
  BY <1>1, <1>2, <1>3 DEF Ajax!Next

LEMMA Halves ==
    ASSUME NEW n \in Nat
    PROVE  n % 2 = 0 \/ n % 2 = 1
OBVIOUS

\* What AjaxSettles says of one request
LEMMA RequestSettles ==
    ASSUME NEW q \in AjaxRequest, NEW threw, RequestRight(q, threw)
    PROVE  /\ q.ends <= 1 /\ (q.ends = 1 <=> q.state = 2)
           /\ q.state = 2 => ~q.timer /\ ~q.callback
           /\ q.installed /\ ~threw => Len(q.heard) = IF q.state = 2 THEN 2 ELSE 0
           /\ (q.heard # <<>> /\ Head(q.heard)[1] = "success") =>
                 Head(q.heard)[2] = "notmodified" \/ q.settings.want \in {"*", Head(q.heard)[2]}
<1>1. q.state \in {0, 1, 2} /\ q.installed \in BOOLEAN
  BY DEF AjaxRequest
<1>2. /\ q.ends <= 1 /\ (q.ends = 1 <=> q.state = 2)
      /\ q.state = 2 => ~q.timer /\ ~q.callback
  BY DEF RequestRight
<1>3. CASE q.state < 2 \/ ~q.installed
  <2>1. q.heard = <<>> /\ Len(<<>>) = 0
    BY <1>3 DEF RequestRight
  <2>2. q.installed => q.state # 2
    BY <1>1, <1>3
  <2>3. QED
    BY <1>2, <2>1, <2>2
<1>4. CASE q.state = 2 /\ q.installed
  <2>1. PICK o \in Outcomes(q.settings.want) :
           q.heard = <<o, <<"complete">>>> \/ (threw /\ q.heard = <<o>>)
    BY <1>4 DEF RequestRight
  <2>2. /\ Len(<<o, <<"complete">>>>) = 2
        /\ Head(<<o, <<"complete">>>>) = o /\ Head(<<o>>) = o
    OBVIOUS
  <2>3. o[1] = "success" => o[2] = "notmodified" \/ q.settings.want \in {"*", o[2]}
    BY DEF Outcomes
  <2>4. Head(q.heard) = o /\ (~threw => Len(q.heard) = 2)
    BY <2>1, <2>2
  <2>5. QED
    BY <1>2, <1>4, <2>3, <2>4
<1>5. QED
  BY <1>1, <1>3, <1>4

LEMMA AjaxIsSettled == AjaxInv => Ajax!AjaxSettles
<1>1. SUFFICES ASSUME AjaxInv, ~ajax.crossed PROVE Ajax!AjaxSettles
  BY DEF Ajax!AjaxSettles
<1>2. ajax \in Ajaxes /\ AjaxRight(ajax)
  BY <1>1 DEF AjaxInv
<1>3. ASSUME NEW r \in DOMAIN ajax.requests
      PROVE  LET q == ajax.requests[r]
             IN  /\ q.ends <= 1 /\ (q.ends = 1 <=> q.state = 2)
                 /\ q.state = 2 => ~q.timer /\ ~q.callback
                 /\ q.installed /\ ~ajax.threw => Len(q.heard) = IF q.state = 2 THEN 2 ELSE 0
                 /\ (q.heard # <<>> /\ Head(q.heard)[1] = "success") =>
                       Head(q.heard)[2] = "notmodified" \/ q.settings.want \in {"*", Head(q.heard)[2]}
  <2>1. PICK q : q = ajax.requests[r]
    OBVIOUS
  <2>2. q \in AjaxRequest /\ RequestRight(q, ajax.threw)
    BY <1>2, <2>1 DEF Ajaxes, AjaxRight
  <2>3. QED
    BY <2>1, <2>2, RequestSettles
<1>4. ASSUME ~ajax.threw
      PROVE  /\ ajax.active = Ajax!Cardinality({r \in DOMAIN ajax.requests :
                                 ajax.requests[r].globals /\ ajax.requests[r].state < 2})
             /\ \A i \in DOMAIN ajax.events :
                   ajax.events[i] = IF i % 2 = 1 THEN "ajaxStart" ELSE "ajaxStop"
             /\ Len(ajax.events) % 2 = IF ajax.active = 0 THEN 0 ELSE 1
  <2>1. Balanced(ajax, 0) /\ Cardinality(UnderWay(ajax)) \in Nat /\ Len(ajax.events) \in Nat
    BY <1>2, <1>4, UnderWayFinite DEF AjaxRight, Ajaxes
  <2>2. ajax.active = Ajax!Cardinality(UnderWay(ajax))
    BY <2>1, SameCount DEF Balanced
  <2>3. Alternate(ajax.events) /\ (Odd(Len(ajax.events)) <=> ajax.active # 0)
    BY <2>1 DEF Balanced
  <2>4. Len(ajax.events) % 2 = IF ajax.active = 0 THEN 0 ELSE 1
    <3>1. PICK n \in Nat : n = Len(ajax.events)
      BY <2>1
    <3>2. n % 2 = 1 <=> ajax.active # 0
      BY <2>3, <3>1 DEF Odd
    <3>3. n % 2 = 0 \/ n % 2 = 1
      BY Halves
    <3>4. QED
      BY <3>1, <3>2, <3>3
  <2>5. QED
    BY <2>2, <2>3, <2>4 DEF UnderWay, Alternate, Odd
<1>5. QED
  BY <1>3, <1>4 DEF Ajax!AjaxSettles

\* In every behaviour of the page's requests, for any numbers of them and any
\* types of data: unless a handler of ajaxSend aborted, a request ends once, tells
\* its callbacks so in order with data of the type asked for, and jQuery.active
\* with its ajaxStart and ajaxStop counts those under way while nothing threw.
THEOREM AjaxSettlesTheorem == PartsSpec => []AjaxSettles
<1> DEFINE Inv == part = "ajax" => AjaxInv
<1>1. PartsInit => Inv
  BY AjaxInitInv DEF PartsInit
<1>2. Inv /\ [PartsNext]_partsVars => Inv'
  <2>1. SUFFICES ASSUME Inv, [PartsNext]_partsVars PROVE Inv'
    OBVIOUS
  <2>2. CASE UNCHANGED partsVars
    BY <2>1, <2>2 DEF partsVars, AjaxInv
  <2>3. CASE PartsNext
    <3>1. part' = part /\ (part = "ajax" => Ajax!Next)
      BY <2>3 DEF PartsNext, StepOfPhoneGap
    <3>2. QED
      BY <2>1, <3>1, AjaxStep
  <2>4. QED
    BY <2>1, <2>2, <2>3
<1>3. Inv => AjaxSettles
  BY AjaxIsSettled DEF AjaxSettles
<1>4. QED
  BY <1>1, <1>2, <1>3, PTL DEF PartsSpec

=============================================================================
