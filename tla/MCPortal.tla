------------------------------ MODULE MCPortal -------------------------------
(* Small instances of the portal for TLC. *)
EXTENDS Portal

=============================================================================
