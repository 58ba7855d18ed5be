------------------------- MODULE MCBronzeStreaming -------------------------
(* Small instances of the Bronze layer for TLC. *)
EXTENDS BronzeStreaming, TLC

\* Keys only matter by equality: sound for the runs without liveness.
KeySymmetry == Permutations(Keys)
=============================================================================
