----------------------------- MODULE MCUniqueIds -----------------------------
(* Instances of UniqueIds for TLC: two threads that share one wrapper.     *)
EXTENDS UniqueIds, TLC

CONSTANTS t1, t2, w1, w2

MCThreads == {t1, t2}
MCSharedWrapper == t1 :> w1 @@ t2 :> w1

Symmetric == Permutations(MCThreads)

========================================
