------------------------------ MODULE MCStrophe ------------------------------
(* An instance of Strophe for TLC.                                           *)
EXTENDS Strophe

AllOffers == {{}, {"ANONYMOUS"}, {"PLAIN"}, {"DIGEST-MD5", "PLAIN"}, {"X-OTHER"}}

=============================================================================
