----------------------------- MODULE MCSeedClient -----------------------------
(* An instance of SeedClient for TLC: two users of one page.                 *)
EXTENDS SeedClient, TLC

CONSTANTS alice, bob

=============================================================================
