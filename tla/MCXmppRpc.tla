------------------------------ MODULE MCXmppRpc ------------------------------
(* Instances of XmppRpc for TLC.                                            *)
EXTENDS XmppRpc, TLC

CONSTANTS a, b, j, k, c1, c2, c3, w1, w2

\* Node a calls node b, in another JVM, through one wrapper.
SharedJvmOf == a :> j @@ b :> k
SharedNodeOf == w1 :> a
SharedEndpointOf == w1 :> b

\* Two nodes in two JVMs call each other, so their ids repeat; two threads of
\* node a share its wrapper.
MutualNodeOf == w1 :> a @@ w2 :> b
MutualEndpointOf == w1 :> b @@ w2 :> a
SharedMutualWrapperOf == c1 :> w1 @@ c2 :> w2 @@ c3 :> w1
SymmetricAtA == Permutations({c1, c3})

\* One node that calls itself, as XmppXmlRpcClientServer.main does.
SelfJvmOf == a :> j
SelfEndpointOf == w1 :> a
SelfWrapperOf == [c \in Callers |-> w1]

=============================================================================
