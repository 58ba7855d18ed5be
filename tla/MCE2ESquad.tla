---------------------------- MODULE MCE2ESquad -----------------------------
(* Small instances of the E2E squad for TLC. *)
EXTENDS E2ESquad

=============================================================================
