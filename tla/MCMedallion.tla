----------------------------- MODULE MCMedallion -----------------------------
(* Small instances of Bronze and Silver for TLC. *)
EXTENDS Medallion, TLC

\* Keys only matter by equality: sound for the runs without liveness.
KeySymmetry == Permutations(Keys)
=============================================================================
