-------------------------- MODULE SparkStage_proofs --------------------------
(***************************************************************************)
(* A success of the Spark agent is that of a job created after it began,   *)
(* for every number of squads, unless its own delete failed unnoticed;     *)
(* deletes that fail elsewhere do no harm.                                 *)
(*                                                                         *)
(* The property says nothing of the waits in between; StageInv adds what   *)
(* they know: once a squad has deleted the object, either there is none or *)
(* somebody created it later.                                              *)
(***************************************************************************)
EXTENDS SparkStage, TLAPS

\* Job numbers only grow: nothing is newer than the last job created.
Numbered ==
    /\ silver.job <= jobs
    /\ \A s \in Squads : since[s] <= jobs

\* What is there, when a squad has deleted, is newer than its beginning.
Cleared ==
    \A s \in Squads :
        phase[s] \in {"apply", "await_silver"} /\ s \notin undeleted =>
            silver.state = "NOT_FOUND" \/ silver.job > since[s]

\* What a squad has taken for its success is newer than its beginning.
TakenIsFresh ==
    \A s \in Squads :
        (phase[s] \in {"verify", "cleanup"} \/ result[s] = "ok") /\ s \notin undeleted =>
            taken[s] > since[s]

\* A squad that is not done has no result yet.
NoResultYet ==
    \A s \in Squads : phase[s] # "done" => result[s] = "none"

\* Who is past a check of Nessie has seen the table, and tables stay.
TablesSeen ==
    \A s \in Squads :
        /\ phase[s] \in {"delete", "apply", "await_silver", "verify", "cleanup"}
              \/ result[s] = "ok" => "bronze" \in nessie
        /\ phase[s] = "cleanup" \/ result[s] = "ok" => "silver" \in nessie

StageInv ==
    TypeOK /\ Numbered /\ Cleared /\ TakenIsFresh /\ NoResultYet /\ TablesSeen

\* StageInv holds whatever earlier runs left behind.
LEMMA StageInvInit == StageInit => StageInv
<1> SUFFICES ASSUME StageInit PROVE StageInv
  OBVIOUS
<1>1. PICK st \in States :
         /\ silver = [state |-> st, job |-> IF st = "NOT_FOUND" THEN 0 ELSE 1]
         /\ jobs = silver.job
  BY DEF StageInit
<1>2. silver \in [state : States, job : Nat] /\ jobs \in Nat /\ silver.job = jobs
  BY <1>1
<1>3. TypeOK
  BY <1>2 DEF StageInit, TypeOK, States, Phases
<1> QED
  BY <1>2, <1>3 DEF StageInit, StageInv, Numbered, Cleared, TakenIsFresh, NoResultYet,
     TablesSeen

\* A delete takes the object away or leaves it, and keeps its number.
LEMMA DeleteWorks ==
    ASSUME TypeOK, NEW fails \in BOOLEAN, Delete(fails)
    PROVE  /\ silver' \in [state : States, job : Nat]
           /\ silver'.state \in {"NOT_FOUND", silver.state}
           /\ silver'.job = silver.job
  BY DEF Delete, TypeOK, States

\* Every step of a squad preserves StageInv.
LEMMA SquadStep ==
    ASSUME StageInv, NEW s \in Squads, Squad(s)
    PROVE  StageInv'
<1> USE SparkStageConstants
    DEF StageInv, TypeOK, Numbered, Cleared, TakenIsFresh, NoResultYet, TablesSeen,
        States, Phases, GoTo, End, platform, history
<1>1. CASE Enter(s)
  BY <1>1 DEF Enter
<1>2. CASE CheckBronze(s)
  BY <1>2 DEF CheckBronze
<1>3. CASE ApplyBronze(s)
  BY <1>3 DEF ApplyBronze
<1>4. CASE AwaitBronze(s)
  BY <1>4 DEF AwaitBronze
<1>5. CASE AwaitTable(s)
  BY <1>5 DEF AwaitTable
<1>6. CASE DeleteSilver(s)
  <2>1. /\ silver' \in [state : States, job : Nat]
        /\ silver'.job = silver.job
        /\ silver'.state \in {"NOT_FOUND", silver.state}
    BY <1>6, DeleteWorks DEF DeleteSilver
  <2> QED BY <1>6, <2>1 DEF DeleteSilver
<1>7. CASE ApplySilver(s)
  <2>1. CASE silver.state = "NOT_FOUND"
    <3>1. /\ jobs' = jobs + 1
          /\ silver' = [state |-> "UNKNOWN", job |-> jobs + 1]
      BY <1>7, <2>1 DEF ApplySilver
    <3>2. \A q \in Squads : since[q] < silver'.job
      BY <3>1
    <3> QED BY <1>7, <3>1, <3>2 DEF ApplySilver
  <2>2. CASE silver.state # "NOT_FOUND"
    BY <1>7, <2>2 DEF ApplySilver
  <2> QED BY <2>1, <2>2
<1>8. CASE AwaitSilver(s)
  <2>1. silver.state # "NOT_FOUND" /\ s \notin undeleted => silver.job > since[s]
    BY <1>8 DEF AwaitSilver
  <2> QED BY <1>8, <2>1 DEF AwaitSilver
<1>9. CASE Verify(s)
  BY <1>9 DEF Verify
<1>10. CASE Cleanup(s)
  <2>1. /\ silver' \in [state : States, job : Nat]
        /\ silver'.state \in {"NOT_FOUND", silver.state}
        /\ silver'.job = silver.job
    BY <1>10, DeleteWorks DEF Cleanup
  <2> QED BY <1>10, <2>1 DEF Cleanup
<1>11. CASE GiveUp(s)
  BY <1>11 DEF GiveUp
<1> QED
  BY <1>1, <1>2, <1>3, <1>4, <1>5, <1>6, <1>7, <1>8, <1>9, <1>10, <1>11 DEF Squad

\* The operator changes states, never the number of a job.
LEMMA OperatorStep ==
    ASSUME StageInv, BronzeRuns \/ SilverRuns
    PROVE  StageInv'
<1> USE DEF StageInv, TypeOK, Numbered, Cleared, TakenIsFresh, NoResultYet, TablesSeen,
        States, Phases, history
<1>1. CASE BronzeRuns
  BY <1>1 DEF BronzeRuns
<1>2. CASE SilverRuns
  <2>1. /\ silver.state # "NOT_FOUND"
        /\ silver'.job = silver.job
        /\ silver' \in [state : States, job : Nat]
    BY <1>2 DEF SilverRuns
  <2> QED BY <1>2, <2>1 DEF SilverRuns
<1> QED BY <1>1, <1>2

\* StageInv holds in every reachable state.
THEOREM StageInvariance == StageSpec => []StageInv
<1>1. StageInit => StageInv
  BY StageInvInit
<1>2. ASSUME StageInv, [StageNext]_vars PROVE StageInv'
  <2>1. CASE \E s \in Squads : Squad(s)
    BY <1>2, <2>1, SquadStep
  <2>2. CASE BronzeRuns \/ SilverRuns
    BY <1>2, <2>2, OperatorStep
  <2>3. CASE UNCHANGED vars
    BY <1>2, <2>3 DEF vars, StageInv, TypeOK, Numbered, Cleared,
       TakenIsFresh, NoResultYet, TablesSeen
  <2> QED BY <1>2, <2>1, <2>2, <2>3 DEF StageNext
<1> QED BY <1>1, <1>2, PTL DEF StageSpec

\* Types, for any number of squads and jobs.
THEOREM StageTypes == StageSpec => []TypeOK
<1>1. StageInv => TypeOK
  BY DEF StageInv
<1> QED BY <1>1, StageInvariance, PTL

\* Unless its own delete failed, a success of the Spark agent is never the
\* state an earlier run left behind, however many squads share the object.
THEOREM SuccessIsOwn == StageSpec => []SuccessIsFresh
<1>1. StageInv => SuccessIsFresh
  BY DEF StageInv, TakenIsFresh, SuccessIsFresh
<1> QED BY <1>1, StageInvariance, PTL

\* A success means that both tables are in Nessie, for ever.
THEOREM SuccessIsStored == StageSpec => []SuccessHasTables
<1>1. StageInv => SuccessHasTables
  BY DEF StageInv, TypeOK, TablesSeen, SuccessHasTables
<1> QED BY <1>1, StageInvariance, PTL

-----------------------------------------------------------------------------
(* The agent's work is short: the half of AgentReturns without fairness.   *)

\* Steps a squad may still take.  The check of the Bronze application may skip
\* its apply and its wait; nothing leads back.
PhasesLeft ==
    [idle |-> 10, bronze |-> 9, apply_bronze |-> 8, await_bronze |-> 7,
     await_table |-> 6, delete |-> 5, apply |-> 4, await_silver |-> 3,
     verify |-> 2, cleanup |-> 1, done |-> 0]
StepsLeft(s) == PhasesLeft[phase[s]]

\* A step of one squad leaves it less to do, and the others as much.
LEMMA SquadCountsDown ==
    ASSUME StageInv, NEW s \in Squads, Squad(s)
    PROVE  /\ StepsLeft(s)' < StepsLeft(s)
           /\ \A q \in Squads \ {s} : StepsLeft(q)' = StepsLeft(q)
<1>1. phase \in [Squads -> Phases]
  BY DEF StageInv, TypeOK
<1>2. ASSUME NEW q \in Squads \ {s} PROVE StepsLeft(q)' = StepsLeft(q)
  <2>1. phase'[q] = phase[q]
    BY <1>1, <1>2 DEF Squad, Enter, CheckBronze, ApplyBronze, AwaitBronze, AwaitTable,
       DeleteSilver, ApplySilver, AwaitSilver, Verify, Cleanup, GiveUp, GoTo, End
  <2> QED BY <2>1 DEF StepsLeft
<1>3. CASE \/ Enter(s) \/ CheckBronze(s) \/ ApplyBronze(s) \/ AwaitBronze(s)
           \/ AwaitTable(s)
  <2>1. \/ phase[s] = "idle" /\ phase'[s] = "bronze"
        \/ phase[s] = "bronze" /\ phase'[s] \in {"await_table", "apply_bronze"}
        \/ phase[s] = "apply_bronze" /\ phase'[s] = "await_bronze"
        \/ phase[s] = "await_bronze" /\ phase'[s] \in {"await_table", "done"}
        \/ phase[s] = "await_table" /\ phase'[s] = "delete"
    BY <1>1, <1>3 DEF Enter, CheckBronze, ApplyBronze, AwaitBronze, AwaitTable, GoTo, End
  <2> QED BY <1>2, <2>1 DEF StepsLeft, PhasesLeft
<1>4. CASE \/ DeleteSilver(s) \/ ApplySilver(s) \/ AwaitSilver(s) \/ Verify(s)
           \/ Cleanup(s)
  <2>1. \/ phase[s] = "delete" /\ phase'[s] = "apply"
        \/ phase[s] = "apply" /\ phase'[s] = "await_silver"
        \/ phase[s] = "await_silver" /\ phase'[s] \in {"verify", "done"}
        \/ phase[s] = "verify" /\ phase'[s] \in {"cleanup", "done"}
        \/ phase[s] = "cleanup" /\ phase'[s] = "done"
    BY <1>1, <1>4 DEF DeleteSilver, ApplySilver, AwaitSilver, Verify, Cleanup, GoTo, End
  <2> QED BY <1>2, <2>1 DEF StepsLeft, PhasesLeft
<1>5. CASE GiveUp(s)
  <2>1. phase[s] \in Phases \ {"idle", "done"} /\ phase'[s] = "done"
    BY <1>1, <1>5 DEF GiveUp, End
  <2>2. StepsLeft(s)' = 0
    BY <2>1 DEF StepsLeft, PhasesLeft
  <2>3. StepsLeft(s) > 0
    BY <2>1 DEF StepsLeft, PhasesLeft, Phases
  <2> QED BY <1>2, <2>2, <2>3
<1> QED BY <1>3, <1>4, <1>5 DEF Squad

\* A squad takes at most ten steps, whatever the operator and the other squads
\* do to the objects it waits for.
THEOREM WorkIsShort ==
    StageSpec =>
        /\ [](\A s \in Squads : StepsLeft(s) \in 0..10)
        /\ [][\A s \in Squads :
                 /\ Squad(s) => StepsLeft(s)' < StepsLeft(s)
                 /\ StepsLeft(s)' <= StepsLeft(s)]_vars
<1> DEFINE Counted == \A s \in Squads : StepsLeft(s) \in 0..10
           Down == \A s \in Squads : /\ Squad(s) => StepsLeft(s)' < StepsLeft(s)
                                     /\ StepsLeft(s)' <= StepsLeft(s)
<1>1. StageInv => Counted
  <2> SUFFICES ASSUME StageInv, NEW s \in Squads PROVE StepsLeft(s) \in 0..10
    OBVIOUS
  <2>1. phase[s] \in Phases
    BY DEF StageInv, TypeOK
  <2> QED BY <2>1 DEF StepsLeft, PhasesLeft, Phases
<1>2. StageInv /\ Counted' /\ [StageNext]_vars => [Down]_vars
  <2> SUFFICES ASSUME StageInv, Counted', StageNext, NEW s \in Squads
               PROVE  /\ Squad(s) => StepsLeft(s)' < StepsLeft(s)
                      /\ StepsLeft(s)' <= StepsLeft(s)
    OBVIOUS
  <2>1. StepsLeft(s) \in Nat /\ StepsLeft(s)' \in Nat
    BY <1>1
  <2>2. Squad(s) => StepsLeft(s)' < StepsLeft(s)
    BY SquadCountsDown
  <2>3. ASSUME NEW q \in Squads \ {s}, Squad(q)
        PROVE  StepsLeft(s)' = StepsLeft(s)
    BY <2>3, SquadCountsDown
  <2>4. ASSUME BronzeRuns \/ SilverRuns PROVE StepsLeft(s)' = StepsLeft(s)
    BY <2>4 DEF BronzeRuns, SilverRuns, StepsLeft
  <2> HIDE DEF Counted, Down
  <2> QED BY <2>1, <2>2, <2>3, <2>4 DEF StageNext
<1> QED BY <1>1, <1>2, StageInvariance, PTL DEF StageSpec
=============================================================================
