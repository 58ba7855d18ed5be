--------------------------- MODULE AtLeastOnceLog ---------------------------
(***************************************************************************)
(* What the Bronze layer promises, with no driver, checkpoint or contract  *)
(* in sight: every event a topic receives is stored, in offset order and   *)
(* with no gap, and is never lost again.  Storing an event a second time   *)
(* is a stuttering step here: that is what at-least-once allows.           *)
(***************************************************************************)
EXTENDS Naturals

CONSTANT Topics

VARIABLES
    produced,   \* produced[t]: number of events topic t has received
    kept        \* kept[t]: offsets of t that are durably stored

logVars == <<produced, kept>>

LogInit ==
    /\ produced = [t \in Topics |-> 0]
    /\ kept = [t \in Topics |-> {}]

Produce(t) ==
    /\ \E n \in 1..2 : produced' = [produced EXCEPT ![t] = @ + n]
    /\ UNCHANGED kept

\* Keep the next offset: everything before it is already kept.
Keep(t) ==
    /\ \E o \in 1..produced[t] :
          /\ o \notin kept[t]
          /\ 1..(o - 1) \subseteq kept[t]
          /\ kept' = [kept EXCEPT ![t] = @ \union {o}]
    /\ UNCHANGED produced

LogNext == \E t \in Topics : Produce(t) \/ Keep(t)

SafeLog == LogInit /\ [][LogNext]_logVars
LiveLog == SafeLog /\ \A t \in Topics : WF_logVars(Keep(t))
=============================================================================
