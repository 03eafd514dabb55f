------------------------------ MODULE MCCommunity ------------------------------
(* Instances of Community for TLC.                                          *)
EXTENDS Community, TLC

CONSTANTS u1, u2, j1, j2, l1, k1, w1, o1

\* Two joins and a leave of one user, a join of another, a query for who is
\* there and one that none of the ifs is for.
ChildOfEach ==
    j1 :> "join" @@ j2 :> "join" @@ l1 :> "leave" @@ k1 :> "join" @@
    w1 :> "who" @@ o1 :> "other"
MCChildOf == [r \in Requests |-> ChildOfEach[r]]

\* w1 and o1 come from the second user, the others' letters tell.
MCUserOf == [r \in Requests |-> IF r \in {j1, j2, l1} THEN u1 ELSE u2]

=============================================================================
