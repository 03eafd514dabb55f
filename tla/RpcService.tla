----------------------------- MODULE RpcService -----------------------------
(***************************************************************************)
(* What XML-RPC over XMPP promises a thread that calls execute: a call     *)
(* that returns a value returns the answer to that very call, whose        *)
(* handler has run; a call that ends in an exception promises nothing      *)
(* about whether its handler has run, runs or will run, but the handler    *)
(* never runs twice for it.                                                *)
(***************************************************************************)
EXTENDS Naturals

CONSTANTS
    Callers,        \* threads that call execute
    MaxCalls        \* BOUND: calls per caller

VARIABLES
    calls,          \* calls each caller has begun
    inCall,         \* the callers whose call has not ended
    answer,         \* the answer the last ended call returned
    executed        \* the requests whose handler has run

vars == <<calls, inCall, answer, executed>>

Request == [caller : Callers, call : Nat]
Failed == [failed |-> TRUE]

\* The request of the last call c has begun.
Current(c) == [caller |-> c, call |-> calls[c]]

Init ==
    /\ calls = [c \in Callers |-> 0]
    /\ inCall = {}
    /\ answer = [c \in Callers |-> Failed]
    /\ executed = {}

Begin(c) ==
    /\ c \notin inCall
    /\ calls[c] < MaxCalls
    /\ calls' = [calls EXCEPT ![c] = @ + 1]
    /\ inCall' = inCall \cup {c}
    /\ UNCHANGED <<answer, executed>>

\* The handler of a request runs, perhaps long after its caller gave up.
Execute(r) ==
    /\ r.call \in 1..calls[r.caller]
    /\ r \notin executed
    /\ executed' = executed \cup {r}
    /\ UNCHANGED <<calls, inCall, answer>>

End(c, a) ==
    /\ c \in inCall
    /\ inCall' = inCall \ {c}
    /\ answer' = [answer EXCEPT ![c] = a]
    /\ UNCHANGED <<calls, executed>>

ReturnValue(c) == Current(c) \in executed /\ End(c, Current(c))
Throw(c) == End(c, Failed)

Next ==
    \/ \E c \in Callers : Begin(c) \/ ReturnValue(c) \/ Throw(c)
    \/ \E c \in Callers : \E k \in 1..calls[c] :
           Execute([caller |-> c, call |-> k])

Spec == Init /\ [][Next]_vars

=============================================================================
