--------------------------- MODULE MCSourceStage ----------------------------
(* Small instances of the data source agent's stage for TLC. *)
EXTENDS SourceStage

=============================================================================
