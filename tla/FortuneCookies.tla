---------------------------- MODULE FortuneCookies ----------------------------
(* The fortune cookie example: an external component that answers every       *)
(* message it gets with a cookie (FortuneCookieXC: Main, FortuneCookieComponent *)
(* and Wisdom), and the command line clients that greet it once and print what *)
(* comes back (FortuneCookieClient: FortuneCookiesClient).  The XMPP server    *)
(* between them, and the Whack and Smack libraries, are external: the server   *)
(* routes messages by address, returns one it cannot deliver to its sender as  *)
(* an error, and closes the session of an address for a later login to it.     *)
EXTENDS Integers, Bags, BagsExt

CONSTANTS
    Clients,        \* the runs of FortuneCookiesClient, each greets once
    Jids,           \* the addresses users log in with, resource included
    JidOf,          \* the address each run logs in with
    CookieCount,    \* Wisdom.cookies.length
    MaxBounces,     \* bound: how often one exchange is returned by the server
    Component,      \* the address of the component
    Nobody          \* no client

ASSUME ClientsAssumption == JidOf \in [Clients -> Jids] /\ Component \notin Jids
ASSUME NobodyAssumption == Nobody \notin Clients
ASSUME CountAssumption == CookieCount \in Nat \ {0} /\ MaxBounces \in Nat

VARIABLES
    component,      \* the component's standing at the server
    pc,             \* where each client's main thread is
    session,        \* the client whose connection an address is bound to
    wire,           \* the messages on their way, a bag
    inbox,          \* the messages handed to the component's workers, a bag
    heard           \* what each client's packet listener has printed, a bag

vars == <<component, pc, session, wire, inbox, heard>>

\* The array of cookies, by index.
Cookies == 0 .. CookieCount - 1

\* rand.nextInt draws from zero up to the bound, the bound excluded.
NextInt(n) == 0 .. n - 1

\* What getCookie may draw.
GetCookie == NextInt(CookieCount)

\* A body: a cookie by its index, or the client's "Good Morrow, Dear Sir!".
Greeting == -1
Body == Cookies \cup {Greeting}

\* A message; greeting and bounces record for whose greeting the exchange
\* began and how often the server has returned a message of it.
Message == [greeting : Clients, from : Jids \cup {Component},
            to : Jids \cup {Component}, body : Body, error : BOOLEAN,
            bounces : 0 .. MaxBounces]

Init ==
    /\ component = "starting"
    /\ pc = [c \in Clients |-> "off"]
    /\ session = [j \in Jids |-> Nobody]
    /\ wire = EmptyBag
    /\ inbox = EmptyBag
    /\ heard = [c \in Clients |-> EmptyBag]

------------------------------------------------------------------------------
(* The component.                                                           *)

\* Main adds the component to the server.
AddComponent ==
    /\ component = "starting"
    /\ component' = "up"
    /\ UNCHANGED <<pc, session, wire, inbox, heard>>

\* The server refuses the component: Main prints that and sleeps on.
RefuseComponent ==
    /\ component = "starting"
    /\ component' = "down"
    /\ UNCHANGED <<pc, session, wire, inbox, heard>>

\* The component's process ends, and the messages in its workers' queue with it.
EndComponent ==
    /\ component = "up"
    /\ component' = "down"
    /\ inbox' = EmptyBag
    /\ UNCHANGED <<pc, session, wire, heard>>

\* Mutant of Response: the addressee is taken from the message's own.
Response_ToOwnAddress(m, cookie) ==
    [m EXCEPT !.from = Component, !.to = m.to, !.body = cookie, !.error = FALSE]

\* The answer to a message: a new message, of no error type, to its sender.
Response(m, cookie) ==
    [m EXCEPT !.from = Component, !.to = m.from, !.body = cookie, !.error = FALSE]

\* Mutant of HandleMessage: the answer is sent twice.
HandleMessage_Twice(m) ==
    /\ component = "up"
    /\ inbox' = BagRemove(inbox, m)
    /\ \E cookie \in GetCookie :
        wire' = BagAdd(BagAdd(wire, Response(m, cookie)), Response(m, cookie))
    /\ UNCHANGED <<component, pc, session, heard>>

\* A worker answers a message, whatever the message's type, with a cookie.
HandleMessage(m) ==
    /\ component = "up"
    /\ inbox' = BagRemove(inbox, m)
    /\ \E cookie \in GetCookie : wire' = BagAdd(wire, Response(m, cookie))
    /\ UNCHANGED <<component, pc, session, heard>>

------------------------------------------------------------------------------
(* The clients.                                                             *)

\* The clients that can be reached at an address: theirs is the connection.
Bind(j, c) ==
    /\ session' = [session EXCEPT ![j] = c]
    /\ pc' = [d \in Clients |-> IF d = c THEN "loggedIn"
                                ELSE IF d = session[j] THEN "replaced" ELSE pc[d]]

\* Mutant of Login: it does not ask for its own resource.
Login_NoResource(c) ==
    /\ pc[c] = "off"
    /\ \E j \in Jids : Bind(j, c)
    /\ UNCHANGED <<component, wire, inbox, heard>>

\* start connects and logs in; the server closes the connection that was bound
\* to the address.
Login(c) ==
    /\ pc[c] = "off"
    /\ Bind(JidOf[c], c)
    /\ UNCHANGED <<component, wire, inbox, heard>>

\* connect or login throws, and start ends the program with it.
FailToStart(c) ==
    /\ pc[c] = "off"
    /\ pc' = [pc EXCEPT ![c] = "failed"]
    /\ UNCHANGED <<component, session, wire, inbox, heard>>

\* start adds the packet listener.
AddPacketListener(c) ==
    /\ pc[c] = "loggedIn"
    /\ pc' = [pc EXCEPT ![c] = "listening"]
    /\ UNCHANGED <<component, session, wire, inbox, heard>>

\* start sends the greeting to the component; main then waits for the user.
SendGreeting(c) ==
    /\ pc[c] = "listening"
    /\ pc' = [pc EXCEPT ![c] = "waiting"]
    /\ wire' = BagAdd(wire, [greeting |-> c, from |-> JidOf[c], to |-> Component,
                             body |-> Greeting, error |-> FALSE, bounces |-> 0])
    /\ UNCHANGED <<component, session, inbox, heard>>

\* The user presses enter: stop disconnects and the program exits.
Stop(c) ==
    /\ pc[c] = "waiting"
    /\ pc' = [pc EXCEPT ![c] = "stopped"]
    /\ session' = [session EXCEPT ![JidOf[c]] = Nobody]
    /\ UNCHANGED <<component, wire, inbox, heard>>

------------------------------------------------------------------------------
(* The server.                                                              *)

\* A message for the component reaches its workers' queue.
ToComponent(m) ==
    /\ m.to = Component
    /\ component = "up"
    /\ wire' = BagRemove(wire, m)
    /\ inbox' = BagAdd(inbox, m)
    /\ UNCHANGED <<component, pc, session, heard>>

\* A message for an address in use reaches its client, which prints it once
\* its listener is there.
ProcessPacket(m) ==
    /\ m.to \in Jids
    /\ LET c == session[m.to] IN
        /\ c # Nobody
        /\ heard' = IF pc[c] = "loggedIn" THEN heard
                    ELSE [heard EXCEPT ![c] = BagAdd(@, m)]
    /\ wire' = BagRemove(wire, m)
    /\ UNCHANGED <<component, pc, session, inbox>>

Unreachable(a) == IF a = Component THEN component # "up" ELSE session[a] = Nobody

\* A message for an address out of use goes back to its sender, an error now.
Bounce(m) ==
    /\ Unreachable(m.to)
    /\ ~m.error
    /\ m.bounces < MaxBounces
    /\ wire' = BagAdd(BagRemove(wire, m),
                      [m EXCEPT !.from = m.to, !.to = m.from, !.error = TRUE,
                                !.bounces = @ + 1])
    /\ UNCHANGED <<component, pc, session, inbox, heard>>

\* The server drops such a message: an error always may be, and another too
\* when it was to be stored for a user who is away.
Discard(m) ==
    /\ Unreachable(m.to)
    /\ m.error \/ m.to # Component
    /\ wire' = BagRemove(wire, m)
    /\ UNCHANGED <<component, pc, session, inbox, heard>>

Route(m) == ToComponent(m) \/ ProcessPacket(m) \/ Bounce(m) \/ Discard(m)

Next ==
    \/ AddComponent \/ RefuseComponent \/ EndComponent
    \/ \E c \in Clients :
        \/ Login(c) \/ FailToStart(c) \/ AddPacketListener(c)
        \/ SendGreeting(c) \/ Stop(c)
    \/ \E m \in BagToSet(wire) : Route(m)
    \/ \E m \in BagToSet(inbox) : HandleMessage(m)

Spec == Init /\ [][Next]_vars

\* Main goes on to addComponent, a worker takes what is queued, and the server
\* and the network deliver what they can.
Fairness ==
    /\ WF_vars(AddComponent \/ RefuseComponent)
    /\ WF_vars(\E m \in BagToSet(inbox) : HandleMessage(m))
    /\ WF_vars(\E m \in BagToSet(wire) : Route(m))

FairSpec == Spec /\ Fairness

------------------------------------------------------------------------------
(* What the example promises.                                               *)

TypeOK ==
    /\ component \in {"starting", "up", "down"}
    /\ pc \in [Clients -> {"off", "failed", "loggedIn", "listening", "waiting",
                           "replaced", "stopped"}]
    /\ session \in [Jids -> Clients \cup {Nobody}]
    /\ BagToSet(wire) \cup BagToSet(inbox) \subseteq Message
    /\ DOMAIN heard = Clients
    /\ \A c \in Clients : BagToSet(heard[c]) \subseteq Message

\* The messages of the exchange that client c began
Of(bag, c) == {m \in BagToSet(bag) : m.greeting = c}

\* Of that exchange a bag holds one message at most, and that once
Single(bag, c) == \A m, n \in Of(bag, c) : m = n /\ bag[m] = 1

\* A greeting gets one answer at most: through the component's queue, its
\* workers, returned messages and later sessions at the same address there is
\* never more than one message of an exchange, on its way, queued or printed
\* (FortuneCookieComponent l.27-35, FortuneCookiesClient l.57-69).
OneAnswer ==
    \A c \in Clients :
        /\ Single(wire, c) /\ Single(inbox, c)
        /\ Of(wire, c) = {} \/ Of(inbox, c) = {}
        /\ \A d \in Clients : Of(heard[d], c) # {} =>
            /\ Single(heard[d], c)
            /\ Of(wire, c) = {} /\ Of(inbox, c) = {}
            /\ \A e \in Clients \ {d} : Of(heard[e], c) = {}

\* A client that prints an answer to a greeting not its own is at the address
\* of a run that greeted and is gone: both mains log in as red with resource
\* home (FortuneCookiesClient l.25-26).
AnswerIsForAddress ==
    \A c \in Clients : \A m \in BagToSet(heard[c]) :
        m.greeting # c =>
            /\ JidOf[m.greeting] = JidOf[c]
            /\ pc[m.greeting] \in {"replaced", "stopped"}

\* The component answers returned messages too (FortuneCookieComponent l.27
\* looks at no type), and each such answer may be returned in turn; that
\* starts only when a greeting's own client is gone before its cookie came.
BouncesAfterLeaving ==
    \A m \in BagToSet(wire) \cup BagToSet(inbox) :
        m.bounces > 0 /\ m.body # Greeting =>
            pc[m.greeting] \in {"replaced", "stopped"}

\* A client that stays prints something for its greeting, a cookie or its own
\* greeting returned, unless the component's process ended meanwhile
\* (FortuneCookiesClient l.55-78).
GreetingAnswered ==
    \A c \in Clients :
        pc[c] = "waiting" ~>
            heard[c] # EmptyBag \/ pc[c] # "waiting" \/ component = "down"

==============================================================================
