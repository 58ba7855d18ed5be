---------------------------- MODULE MCSparkStage -----------------------------
(* Small instances of the Spark agent's stage for TLC. *)
EXTENDS SparkStage

=============================================================================
