--------------------------- MODULE MCFortuneCookies ---------------------------
(* An instance of FortuneCookies for TLC: two runs with the credentials main  *)
(* has, and one of another user.                                              *)
EXTENDS FortuneCookies, TLC

CONSTANTS c1, c2, c3, red, blue

MCJidOf == c1 :> red @@ c2 :> red @@ c3 :> blue

==============================================================================
