------------------------------ MODULE SeedClient ------------------------------
(***************************************************************************)
(* The web page of the camera app (index.html): the client of the scenario *)
(* page (Client and CommunityManager, societies-seed.js) and the XMPP test *)
(* page (Hello, reference.js), with the connections they make.             *)
(*                                                                         *)
(* JavaScript runs one callback at a time, so an action is one callback;   *)
(* what interleaves are the user's clicks and the status callbacks of the  *)
(* connections: each login makes a new Strophe.Connection and the callbacks*)
(* of the old one live on.  A connection calls back several times in a row *)
(* when it ends; only the last of those calls leaves a trace on the page.  *)
(*                                                                         *)
(* A connection is its place in the sequence of all of them, null is 0.    *)
(***************************************************************************)
EXTENDS Naturals, Sequences

CONSTANTS
    Users,              \* JIDs
    MaxConnections      \* BOUND: logins on either page

ASSUME SeedClientAssumption ==
    /\ "Societies" \notin Users
    /\ MaxConnections \in Nat

VARIABLES
    conns,              \* every Strophe.Connection made
    client,             \* Client.connection
    jid,                \* Client.jid, "none" for an empty one
    manager,            \* CommunityManager.connection
    feedback,           \* #feedback
    header,             \* #profil h1
    pages,              \* the community pages and #logout show, #page_connection
                        \* does not
    content,            \* #page_discoverCommunities #content: the connection
                        \* whose list shows, 0 for any other text
    hello,              \* Hello.connection
    dialog,             \* #loginDialog shows
    askedOn,            \* history: the connection last asked for communities
    overlapped,         \* history: pages with a login before the last had ended
    crossing            \* history: a login while another was connecting

seedVars == <<client, jid, manager, header, pages, content, askedOn, crossing>>
helloVars == <<hello, dialog>>
vars == <<conns, client, jid, manager, feedback, header, pages, content, hello,
          dialog, askedOn, overlapped, crossing>>

Feedback ==
    {"Disconnected", "Connecting", "Connection failed", "Connected",
     "Disconnecting"}

\* "refused" has a stream and no login, "closing" waits for the server's answer
\* to the end of the stream or for the timeout of 3 s, "ended" calls back no
\* more.  asked: what the handlers of the connection wait for.
Connection ==
    [page : {"seed", "hello"}, user : Users,
     state : {"connecting", "refused", "online", "closing", "ended"},
     asked : SUBSET {"communities", "ping"}]

TypeOK ==
    /\ conns \in Seq(Connection)
    /\ client \in 0..Len(conns) /\ manager \in 0..Len(conns)
    /\ content \in 0..Len(conns) /\ askedOn \in 0..Len(conns)
    /\ hello \in 0..Len(conns)
    /\ jid \in Users \cup {"none"}
    /\ feedback \in Feedback
    /\ header \in Users \cup {"Societies"}
    /\ pages \in BOOLEAN /\ dialog \in BOOLEAN /\ crossing \in BOOLEAN
    /\ overlapped \subseteq {"seed", "hello"}

\* jQuery(function() ...) of both scripts, on the page as it is written.
Init ==
    /\ conns = << >>
    /\ client = 0
    /\ jid = "none"
    /\ manager = 0
    /\ feedback = "Disconnected"
    /\ header = "Societies"
    /\ pages = FALSE
    /\ content = 0
    /\ hello = 0
    /\ dialog = TRUE
    /\ askedOn = 0
    /\ overlapped = {}
    /\ crossing = FALSE

In(page, states) ==
    \E c \in DOMAIN conns : conns[c].page = page /\ conns[c].state \in states

Open == {"connecting", "refused", "online", "closing"}

\* new Strophe.Connection(Config.BOSH_SERVICE).connect(...)
New(page, u) ==
    /\ Len(conns) < MaxConnections
    /\ conns' = Append(conns, [page |-> page, user |-> u,
                               state |-> "connecting", asked |-> {}])
    /\ overlapped' =
         IF In(page, Open) THEN overlapped \cup {page} ELSE overlapped

-----------------------------------------------------------------------------
(* What the callback given to connect does with a status.                   *)

\* Mutant of Told: the DISCONNECTED branch of on_connect is left out.
Told_NotDisconnected(c, status) ==
    /\ feedback' = IF conns[c].page = "seed" /\ status # "Disconnected"
                   THEN status ELSE feedback
    /\ hello' = IF conns[c].page = "hello" /\ status = "Disconnected"
                THEN 0 ELSE hello

\* on_connect shows the status; the test page sets Hello.connection to null
\* when a connection, whichever, ends.
Told(c, status) ==
    /\ feedback' = IF conns[c].page = "seed" THEN status ELSE feedback
    /\ hello' = IF conns[c].page = "hello" /\ status = "Disconnected"
                THEN 0 ELSE hello

Untold == UNCHANGED <<feedback, hello>>

\* Mutant of OnConnected: the manager is initialized once.
OnConnected_InitOnce(c) ==
    /\ conns[c].page = "seed"
    /\ conns' = [conns EXCEPT ![c].state = "online"]
    /\ manager' = IF manager = 0 THEN client ELSE manager
    /\ feedback' = "Connected"
    /\ header' = jid
    /\ pages' = TRUE
    /\ UNCHANGED <<client, jid, content, helloVars, askedOn, overlapped, crossing>>

\* on_connect(CONNECTED) of whichever connection uses Client.connection.
OnConnected(c) ==
    /\ conns[c].page = "seed"
    /\ conns' = [conns EXCEPT ![c].state = "online"]
    /\ manager' = client
    /\ feedback' = "Connected"
    /\ header' = jid
    /\ pages' = TRUE
    /\ UNCHANGED <<client, jid, content, helloVars, askedOn, overlapped, crossing>>

\* trigger('connected') uses Hello.connection; if that is null its handler
\* throws, which Strophe catches.
HelloConnected(c) ==
    /\ conns[c].page = "hello"
    /\ conns' = [d \in DOMAIN conns |->
          [conns[d] EXCEPT !.state = IF d = c THEN "online" ELSE @,
                           !.asked = IF d = hello THEN @ \cup {"ping"} ELSE @]]
    /\ UNCHANGED <<seedVars, feedback, helloVars, overlapped>>

-----------------------------------------------------------------------------
(* The connections (strophe.js), from how they call back.                   *)

Become(c, state) ==
    conns' = [conns EXCEPT ![c].state = state,
                           ![c].asked = IF state = "ended" THEN {} ELSE @]

Still == UNCHANGED <<seedVars, dialog, overlapped>>

Connected(c) ==
    /\ conns[c].state = "connecting"
    /\ OnConnected(c) \/ HelloConnected(c)

\* AUTHFAIL, which neither page listens for.
Refuse(c) ==
    /\ conns[c].state = "connecting"
    /\ Become(c, "refused")
    /\ Untold
    /\ Still

\* The server ends the stream at once, answers with an HTTP error, or is not
\* there at all: then five errors end the connection without a call.
FailToConnect(c) ==
    /\ conns[c].state = "connecting"
    /\ Become(c, "ended")
    /\ Told(c, "Connection failed") \/ Told(c, "Disconnecting") \/ Untold
    /\ Still

\* The server ends the stream, or the network is lost.
Lose(c) ==
    /\ conns[c].state \in {"connecting", "refused", "online"}
    /\ \/ Become(c, "closing") /\ Told(c, "Disconnecting")
       \/ Become(c, "ended") /\ Told(c, "Disconnected")
    /\ Still

Close(c) ==
    /\ conns[c].state = "closing"
    /\ Become(c, "ended")
    /\ Told(c, "Disconnected")
    /\ Still

\* What cs[c].disconnect() may make of the connections cs: it ends a stream,
\* and before there is one the connecting goes on.
Disconnect(cs, c) ==
    LET next == CASE cs[c].state = "connecting" -> {"connecting", "closing"}
                  [] cs[c].state = "ended" -> {"ended"}
                  [] OTHER -> {"closing"}
    IN  {[cs EXCEPT ![c].state = state] : state \in next}

-----------------------------------------------------------------------------
(* The scenario page.                                                       *)

\* $('#loginConnection').click, while #page_connection shows
Login(u) ==
    /\ ~pages
    /\ New("seed", u)
    /\ jid' = u
    /\ client' = Len(conns')
    /\ feedback' = "Connecting"
    /\ crossing' = (crossing \/ In("seed", {"connecting"}))
    /\ UNCHANGED <<manager, header, pages, content, helloVars, askedOn>>

OnDisconnect ==
    /\ header' = "Societies"
    /\ pages' = FALSE

\* Mutant of Logout: the connection is left open.
Logout_NotDisconnect ==
    /\ pages
    /\ feedback' = "Disconnecting"
    /\ OnDisconnect
    /\ UNCHANGED <<conns, client, jid, manager, content, helloVars, askedOn,
                   overlapped, crossing>>

\* $('#logout').live('click')
Logout ==
    /\ pages
    /\ conns' \in IF client = 0 THEN {conns} ELSE Disconnect(conns, client)
    /\ feedback' = IF client = 0 THEN feedback ELSE "Disconnecting"
    /\ OnDisconnect
    /\ UNCHANGED <<client, jid, manager, content, helloVars, askedOn, overlapped,
                   crossing>>

\* Mutant of DiscoverCommunities: the list shows until the next one comes.
DiscoverCommunities_NotWaiting ==
    /\ pages
    /\ conns' = [conns EXCEPT ![manager].asked = @ \cup {"communities"}]
    /\ askedOn' = manager
    /\ UNCHANGED <<client, jid, manager, feedback, header, pages, content,
                   helloVars, overlapped, crossing>>

\* $('#page_discoverCommunities h1').live('click')
DiscoverCommunities ==
    /\ pages
    /\ content' = 0
    /\ conns' = [conns EXCEPT ![manager].asked = @ \cup {"communities"}]
    /\ askedOn' = manager
    /\ UNCHANGED <<client, jid, manager, feedback, header, pages, helloVars,
                   overlapped, crossing>>

\* on_discoverCommunities, on_error_discoverCommunities: handlers are called
\* until the stream has ended.
OnDiscoverCommunities(c) ==
    /\ conns[c].state \in {"online", "closing"}
    /\ "communities" \in conns[c].asked
    /\ conns' = [conns EXCEPT ![c].asked = @ \ {"communities"}]
    /\ content' \in {c, 0}
    /\ UNCHANGED <<client, jid, manager, feedback, header, pages, helloVars,
                   askedOn, overlapped, crossing>>

-----------------------------------------------------------------------------
(* The test page.                                                           *)

\* xmppConnect and trigger('connect')
XmppConnect(u) ==
    /\ dialog
    /\ New("hello", u)
    /\ hello' = Len(conns')
    /\ dialog' = FALSE
    /\ UNCHANGED <<seedVars, feedback>>

\* Coming back to the test page shows its dialog again.
XmppConnectionRef ==
    /\ ~dialog
    /\ dialog' = TRUE
    /\ UNCHANGED <<conns, seedVars, feedback, hello, overlapped>>

\* Mutant of HandlePong: the connection is kept.
HandlePong_NotDisconnect(c) ==
    /\ conns[c].state \in {"online", "closing"}
    /\ "ping" \in conns[c].asked
    /\ conns' = [conns EXCEPT ![c].asked = @ \ {"ping"}]
    /\ UNCHANGED <<seedVars, feedback, helloVars, overlapped>>

\* handle_pong: Hello.connection.disconnect(), whichever connection that is.
HandlePong(c) ==
    /\ conns[c].state \in {"online", "closing"}
    /\ "ping" \in conns[c].asked
    /\ LET answered == [conns EXCEPT ![c].asked = @ \ {"ping"}]
       IN  conns' \in IF hello = 0 THEN {answered} ELSE Disconnect(answered, hello)
    /\ UNCHANGED <<seedVars, feedback, helloVars, overlapped>>

-----------------------------------------------------------------------------

Click ==
    \/ \E u \in Users : Login(u) \/ XmppConnect(u)
    \/ Logout \/ DiscoverCommunities \/ XmppConnectionRef

Call(c) ==
    \/ Connected(c) \/ Refuse(c) \/ FailToConnect(c) \/ Lose(c) \/ Close(c)
    \/ OnDiscoverCommunities(c) \/ HandlePong(c)

Next == Click \/ \E c \in DOMAIN conns : Call(c)

Spec == Init /\ [][Next]_vars

\* The timeout of a stream that is closing, and the server's pong, come.
FairSpec ==
    /\ Spec
    /\ \A c \in 1..MaxConnections :
          WF_vars(c \in DOMAIN conns /\ (Close(c) \/ HandlePong(c)))

-----------------------------------------------------------------------------
(* What the page promises its user.                                         *)

\* While the community pages show, they act for the user whose name is in the
\* header, on the connection of the last login, and that has logged in: unless
\* the user has clicked Login again while a connection was being made
\* (societies-seed.js 75-89 reads Client.connection and Client.jid in the
\* callback of any connection).
SessionShown ==
    pages /\ ~crossing =>
        /\ manager = client /\ client # 0
        /\ header = conns[client].user
        /\ conns[client].state \in {"online", "closing", "ended"}

\* Unless logins crossed, no connection is online that the user has left or
\* has not been told of: the login page only shows when none is
\* (societies-seed.js 161-168).
NoneLeftOnline == ~pages /\ ~crossing => ~In("seed", {"online"})

\* The status shown is that of the last login's connection, if no earlier one
\* was still open: then its late calls are shown too (societies-seed.js 62-92).
FeedbackTells ==
    "seed" \notin overlapped /\ client # 0 =>
        conns[client].state \in
            CASE feedback = "Connected" -> {"online"}
              [] feedback = "Connecting" -> {"connecting", "refused", "ended"}
              [] feedback = "Disconnecting" -> {"closing", "ended"}
              [] OTHER -> {"ended"}

\* A list of communities is the answer on the connection last asked, unless an
\* earlier one was still open at login and answered late (113-128, 172-177).
ListIsOwn ==
    "seed" \notin overlapped /\ content # 0 => content = askedOn

HelloIn(state) ==
    {c \in DOMAIN conns : conns[c].page = "hello" /\ conns[c].state = state}

\* Every connection of the test page that comes online is ended by its pong,
\* unless the user connected again before (reference.js 21-71).
PingEnds ==
    \A c \in 1..MaxConnections :
        c \in HelloIn("online") ~> "hello" \in overlapped \/ c \in HelloIn("ended")

-----------------------------------------------------------------------------
(* The inductive invariant of the proofs in SeedClient_proofs.              *)

\* Whose the connections are that the two pages hold.
Owners ==
    /\ \A c \in {client, manager} \ {0} : conns[c].page = "seed"
    /\ hello # 0 => conns[hello].page = "hello"
    /\ client # 0 => jid = conns[client].user
    /\ client = 0 => ~In("seed", Open \cup {"ended"})
    /\ pages => client # 0 /\ manager # 0

\* Without crossed logins, only the last one is under way or online ...
OnlyClient ==
    ~crossing => \A c \in DOMAIN conns :
        conns[c].page = "seed" /\ conns[c].state \in {"connecting", "online"}
            => c = client

\* ... and without overlapping ones, only the last one has not ended.
OldEnded ==
    "seed" \notin overlapped => \A c \in DOMAIN conns :
        conns[c].page = "seed" /\ conns[c].state # "ended" => c = client

AskedInv ==
    \A c \in DOMAIN conns : "communities" \in conns[c].asked =>
        /\ conns[c].page = "seed"
        /\ c = askedOn \/ conns[c].state = "ended" \/ "seed" \in overlapped

PageInv ==
    /\ crossing => "seed" \in overlapped
    /\ Owners /\ OnlyClient /\ OldEnded /\ AskedInv
    /\ SessionShown /\ NoneLeftOnline /\ FeedbackTells /\ ListIsOwn
=============================================================================
