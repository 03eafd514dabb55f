--------------------------- MODULE MCXCCommunication ---------------------------
(* Instances of XCCommunication for TLC.                                    *)
EXTENDS XCCommunication, TLC

CONSTANTS b1, b2, n1, n2, p1, p2, cl1, cl2, cl3, q1, q2, w1, w2, i1

\* The first package has two root classes, the second has one.
MCRootClasses == p1 :> {cl1, cl2} @@ p2 :> {cl3}

\* Two bundles, each with a package and a namespace of its own.
ApartNamespaceOf == b1 :> n1 @@ b2 :> n2
ApartPackageOf == b1 :> p1 @@ b2 :> p2

\* A query for the first namespace, and with it one without an element.
LackingTargetOf == q1 :> n1 @@ q2 :> None

=============================================================================
