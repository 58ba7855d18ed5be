---------------------------- MODULE MCGoldStage ------------------------------
(* Small instances of the Gold agent's stage for TLC. *)
EXTENDS GoldStage

=============================================================================
