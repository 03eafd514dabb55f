--------------------------- MODULE ConnectionPlugin ---------------------------
(* The Android plugin the test page asks for news of the connectivity:       *)
(* execute runs on a thread of its own for every call of the page, onReceive *)
(* on the main thread, and the fields callbackId and receiver, which both    *)
(* use, have no lock.  A field is read and written in steps of their own,    *)
(* and a read sees the last write.                                           *)
EXTENDS Integers, FiniteSets

CONSTANTS
    CallbackIds,    \* the callback ids of the page's calls of createListener
    MaxBroadcasts   \* the bound on changes of connectivity

VARIABLE plugin

None == "null"

\* crossed is for the properties: a call was accepted while
\* another was between its look at callbackId and its write
Init ==
    plugin = [pc |-> [id \in CallbackIds |-> "off"], callbackId |-> None, receiver |-> None,
              registered |-> 0, broadcasts |-> 0, pending |-> 0, looked |-> FALSE,
              heard |-> [id \in CallbackIds |-> 0], crossed |-> FALSE]

At(id, label) == plugin.pc[id] = label

-----------------------------------------------------------------------------
(* execute                                                                   *)

\* A listener is there: ERROR is the result of the call
Refuse(id) ==
    /\ At(id, "off") /\ plugin.callbackId # None
    /\ plugin' = [plugin EXCEPT !.pc[id] = "refused"]

\* Mutant of Accept: the look is at the receiver, which is set later.
Accept_ByReceiver(id) ==
    /\ At(id, "off") /\ plugin.receiver = None
    /\ plugin' = [plugin EXCEPT !.pc[id] = "accepted",
                                !.crossed = @ \/ \E other \in CallbackIds : At(other, "accepted")]

Accept(id) ==
    /\ At(id, "off") /\ plugin.callbackId = None
    /\ plugin' = [plugin EXCEPT !.pc[id] = "accepted",
                                !.crossed = @ \/ \E other \in CallbackIds : At(other, "accepted")]

SetCallbackId(id) ==
    /\ At(id, "accepted")
    /\ plugin' = [plugin EXCEPT !.pc[id] = "set", !.callbackId = id]

\* NO_RESULT, with the callback kept, is the result of the call
KeepReceiver(id) ==
    /\ At(id, "set") /\ plugin.receiver # None
    /\ plugin' = [plugin EXCEPT !.pc[id] = "listens"]

MakeReceiver(id) ==
    /\ At(id, "set") /\ plugin.receiver = None
    /\ plugin' = [plugin EXCEPT !.pc[id] = "making"]

SetReceiver(id) ==
    /\ At(id, "making")
    /\ plugin' = [plugin EXCEPT !.pc[id] = "made", !.receiver = id]

\* registerReceiver takes what the field holds then
RegisterReceiver(id) ==
    /\ At(id, "made")
    /\ plugin' = [plugin EXCEPT !.pc[id] = "listens", !.registered = @ + 1]

-----------------------------------------------------------------------------
(* Android, and onReceive                                                    *)

\* A change of connectivity is broadcast to each registration
Broadcast ==
    /\ plugin.registered > 0 /\ plugin.broadcasts < MaxBroadcasts
    /\ plugin' = [plugin EXCEPT !.broadcasts = @ + 1, !.pending = @ + plugin.registered]

\* updateConnectionInfo looks whether there is a callbackId, which there is
\* whenever a receiver is registered
OnReceive ==
    /\ plugin.pending > 0 /\ ~plugin.looked /\ plugin.callbackId # None
    /\ plugin' = [plugin EXCEPT !.looked = TRUE]

\* and reads it again to call back
CallBack ==
    /\ plugin.looked
    /\ plugin' = [plugin EXCEPT !.looked = FALSE, !.pending = @ - 1,
                                !.heard[plugin.callbackId] = @ + 1]

Next ==
    \/ \E id \in CallbackIds :
          \/ Refuse(id) \/ Accept(id) \/ SetCallbackId(id) \/ KeepReceiver(id)
          \/ MakeReceiver(id) \/ SetReceiver(id) \/ RegisterReceiver(id)
    \/ Broadcast \/ OnReceive \/ CallBack

Spec == Init /\ [][Next]_plugin

-----------------------------------------------------------------------------
(* Properties                                                                *)

Accepted == {id \in CallbackIds : plugin.pc[id] \notin {"off", "refused"}}

\* One call gets to listen and hears each change once, unless two looked at
\* callbackId before either had written it: then one of them is never told,
\* or the other twice
OneListens ==
    /\ ~plugin.crossed =>
          /\ Cardinality(Accepted) <= 1
          /\ \A id \in Accepted : plugin.heard[id] + plugin.pending = plugin.broadcasts
    /\ plugin.registered > 0 => plugin.callbackId \in Accepted

\* A call that was refused hears nothing
RefusedHearsNothing == \A id \in CallbackIds : plugin.heard[id] > 0 => id \in Accepted

=============================================================================
