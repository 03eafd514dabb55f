------------------------------ MODULE MCRpcNode ------------------------------
(* Instances of RpcNode for TLC: a handler of XmlRpcExampleHandler's kind,   *)
(* called by its method, without a method, and with a text that breaks.      *)
EXTENDS RpcNode, TLC

CONSTANTS r1, r2, r3, o1, o2, Example

Quote == <<"examples", "getRandomQuote">>

MCNameOf == r1 :> Quote @@ r2 :> <<"examples">> @@ r3 :> Quote
MCTextOf == r1 :> "plain" @@ r2 :> "plain" @@ r3 :> "markup"

\* The second key is the whole name of a method under the first.
MCKeys == {<<"examples">>, Quote}
MCClassOf == o1 :> Example @@ o2 :> Example
MCResultOf == Example :> [getRandomQuote |-> "value"]

=============================================================================
