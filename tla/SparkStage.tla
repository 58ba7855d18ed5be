----------------------------- MODULE SparkStage -----------------------------
(***************************************************************************)
(* The work of the Spark agent (agents/spark_processing): make sure that   *)
(* the bronze-streaming SparkApplication runs, wait for the Bronze table,  *)
(* run the silver-batch SparkApplication of the table, verify the Silver   *)
(* table.                                                                  *)
(*                                                                         *)
(* The agent only sees Kubernetes objects, which outlive it: the           *)
(* silver-batch object of an earlier run keeps its state until somebody    *)
(* deletes it, and every squad uses the same name for one table.  Squads   *)
(* may run at the same time.  Kubernetes, the Spark operator and Nessie    *)
(* are external.                                                           *)
(***************************************************************************)
EXTENDS Naturals

CONSTANTS
    Squads,             \* runs of the E2E squad on one table
    MaxJobs             \* bound: silver-batch jobs created

ASSUME SparkStageConstants == MaxJobs \in Nat

VARIABLES
    bronze,     \* state of the SparkApplication bronze-streaming
    silver,     \* [state, job] of the SparkApplication silver-batch-<table>
    jobs,       \* silver-batch objects created so far
    nessie,     \* tables Nessie lists: a subset of {"bronze", "silver"}
    phase,      \* phase[s]: what squad s does next
    result,     \* result[s]: "none", "ok" or "error"
    since,      \* since[s]: jobs created before s entered the stage
    taken,      \* taken[s]: the job whose success s has taken for its own
    undeleted   \* squads whose delete left the old object there (history)

vars == <<bronze, silver, jobs, nessie, phase, result, since, taken, undeleted>>
platform == <<bronze, silver, jobs, nessie>>
history == <<since, taken, undeleted>>

States == {"NOT_FOUND", "UNKNOWN", "RUNNING", "COMPLETED", "FAILED"}
Phases == {"idle", "bronze", "apply_bronze", "await_bronze", "await_table",
           "delete", "apply", "await_silver", "verify", "cleanup", "done"}

TypeOK ==
    /\ bronze \in States
    /\ silver \in [state : States, job : Nat]
    /\ jobs \in Nat
    /\ nessie \subseteq {"bronze", "silver"}
    /\ phase \in [Squads -> Phases]
    /\ result \in [Squads -> {"none", "ok", "error"}]
    /\ since \in [Squads -> Nat]
    /\ taken \in [Squads -> Nat]
    /\ undeleted \subseteq Squads

-----------------------------------------------------------------------------
\* An earlier run may have left its silver-batch object behind, in any state,
\* and its tables.
StageInit ==
    /\ bronze \in States \ {"COMPLETED"}
    /\ \E st \in States :
          /\ silver = [state |-> st, job |-> IF st = "NOT_FOUND" THEN 0 ELSE 1]
          /\ jobs = silver.job
    /\ nessie \in SUBSET {"bronze", "silver"}
    /\ phase = [s \in Squads |-> "idle"]
    /\ result = [s \in Squads |-> "none"]
    /\ since = [s \in Squads |-> 0]
    /\ taken = [s \in Squads |-> 0]
    /\ undeleted = {}

GoTo(s, p) == phase' = [phase EXCEPT ![s] = p] /\ UNCHANGED result

End(s, r) ==
    /\ phase' = [phase EXCEPT ![s] = "done"]
    /\ result' = [result EXCEPT ![s] = r]

\* The router has reached the Spark agent of squad `s`.
Enter(s) ==
    /\ phase[s] = "idle"
    /\ GoTo(s, "bronze")
    /\ since' = [since EXCEPT ![s] = jobs]
    /\ UNCHANGED <<platform, taken, undeleted>>

\* get_sparkapplication_status of bronze-streaming; a failing kubectl reads
\* as NOT_FOUND.
CheckBronze(s) ==
    /\ phase[s] = "bronze"
    /\ \/ bronze = "RUNNING" /\ GoTo(s, "await_table")
       \/ GoTo(s, "apply_bronze")
    /\ UNCHANGED <<platform, history>>

\* kubectl apply: an object that exists is left as it is, state included.
ApplyBronze(s) ==
    /\ phase[s] = "apply_bronze"
    /\ bronze' = IF bronze = "NOT_FOUND" THEN "UNKNOWN" ELSE bronze
    /\ GoTo(s, "await_bronze")
    /\ UNCHANGED <<silver, jobs, nessie, history>>

\* wait_for_sparkapplication returns on RUNNING and on FAILED.
AwaitBronze(s) ==
    /\ phase[s] = "await_bronze"
    /\ \/ bronze = "RUNNING" /\ GoTo(s, "await_table")
       \/ bronze = "FAILED" /\ End(s, "error")
    /\ UNCHANGED <<platform, history>>

\* The Bronze table is in Nessie, from this run or an earlier one.
AwaitTable(s) ==
    /\ phase[s] = "await_table"
    /\ "bronze" \in nessie
    /\ GoTo(s, "delete")
    /\ UNCHANGED <<platform, history>>

\* delete_sparkapplication: gone afterwards, or kubectl fails; its exit code
\* is not read.
Delete(fails) ==
    silver' = IF fails THEN silver ELSE [silver EXCEPT !.state = "NOT_FOUND"]

\* Mutant of DeleteSilver: no delete before the apply.
KeepSilver(s) ==
    /\ phase[s] = "delete"
    /\ GoTo(s, "apply")
    /\ UNCHANGED <<platform, history>>

DeleteSilver(s) ==
    /\ phase[s] = "delete"
    /\ \E fails \in BOOLEAN : Delete(fails)
    /\ undeleted' = IF silver'.state = "NOT_FOUND" THEN undeleted
                    ELSE undeleted \union {s}
    /\ GoTo(s, "apply")
    /\ UNCHANGED <<bronze, jobs, nessie, since, taken>>

\* The manifest is rendered and applied; an object that is there stays.
ApplySilver(s) ==
    /\ phase[s] = "apply"
    /\ IF silver.state = "NOT_FOUND"
       THEN /\ jobs < MaxJobs
            /\ jobs' = jobs + 1
            /\ silver' = [state |-> "UNKNOWN", job |-> jobs + 1]
       ELSE UNCHANGED <<silver, jobs>>
    /\ GoTo(s, "await_silver")
    /\ UNCHANGED <<bronze, nessie, history>>

\* wait_for_sparkapplication returns on COMPLETED and on FAILED.
AwaitSilver(s) ==
    /\ phase[s] = "await_silver"
    /\ \/ /\ silver.state = "COMPLETED"
          /\ taken' = [taken EXCEPT ![s] = silver.job]
          /\ GoTo(s, "verify")
       \/ /\ silver.state = "FAILED"
          /\ End(s, "error")
          /\ UNCHANGED taken
    /\ UNCHANGED <<platform, since, undeleted>>

\* Mutant of Verify: the Silver table is not looked up.
VerifyNothing(s) ==
    /\ phase[s] = "verify"
    /\ GoTo(s, "cleanup")
    /\ UNCHANGED <<platform, history>>

\* check_nessie_table_exists of the Silver table.
Verify(s) ==
    /\ phase[s] = "verify"
    /\ IF "silver" \in nessie THEN GoTo(s, "cleanup") ELSE End(s, "error")
    /\ UNCHANGED <<platform, history>>

\* Mutant of Cleanup: the stage is not marked as over.
CleanupOnly(s) ==
    /\ phase[s] = "cleanup"
    /\ \E fails \in BOOLEAN : Delete(fails)
    /\ GoTo(s, "returned")
    /\ UNCHANGED <<bronze, jobs, nessie, history>>

\* The object is deleted again, and the node returns its score.
Cleanup(s) ==
    /\ phase[s] = "cleanup"
    /\ \E fails \in BOOLEAN : Delete(fails)
    /\ End(s, "ok")
    /\ UNCHANGED <<bronze, jobs, nessie, history>>

\* Mutant of GiveUp: the waits have no deadline.
NeverGiveUp(s) ==
    /\ phase[s] \in {"apply_bronze", "delete", "apply", "verify", "cleanup"}
    /\ End(s, "error")
    /\ UNCHANGED <<platform, history>>

\* A wait times out, kubectl or Nessie fails: an exception ends the work.  A
\* call that fails after it took effect is one that worked before this step.
GiveUp(s) ==
    /\ phase[s] \notin {"idle", "done"}
    /\ End(s, "error")
    /\ UNCHANGED <<platform, history>>

Squad(s) ==
    \/ Enter(s) \/ CheckBronze(s) \/ ApplyBronze(s) \/ AwaitBronze(s)
    \/ AwaitTable(s) \/ DeleteSilver(s) \/ ApplySilver(s) \/ AwaitSilver(s)
    \/ Verify(s) \/ Cleanup(s) \/ GiveUp(s)

\* The operator runs the driver, restarts it (UNKNOWN stands for every state
\* in between) or gives it up for good; the first record creates the table.
BronzeRuns ==
    /\ bronze \in {"UNKNOWN", "RUNNING"}
    /\ \/ bronze' \in {"UNKNOWN", "RUNNING", "FAILED"} /\ UNCHANGED nessie
       \/ bronze = "RUNNING" /\ nessie' = nessie \union {"bronze"} /\ UNCHANGED bronze
    /\ UNCHANGED <<silver, jobs, phase, result, history>>

\* A silver-batch job that finds rows of its date creates the Silver table; one
\* that finds none completes without it.
SilverRuns ==
    /\ \/ /\ silver.state = "UNKNOWN"
          /\ silver' = [silver EXCEPT !.state = "RUNNING"]
          /\ UNCHANGED nessie
       \/ /\ silver.state = "RUNNING"
          /\ silver' = [silver EXCEPT !.state = "COMPLETED"]
          /\ \/ "bronze" \in nessie /\ nessie' = nessie \union {"silver"}
             \/ UNCHANGED nessie
       \/ /\ silver.state \in {"UNKNOWN", "RUNNING"}
          /\ silver' = [silver EXCEPT !.state = "FAILED"]
          /\ UNCHANGED nessie
    /\ UNCHANGED <<bronze, jobs, phase, result, history>>

StageNext == (\E s \in Squads : Squad(s)) \/ BronzeRuns \/ SilverRuns

StageSpec == StageInit /\ [][StageNext]_vars
\* Every wait has a deadline and every subprocess a timeout.
FairStageSpec == StageSpec /\ \A s \in Squads : WF_vars(Squad(s))

-----------------------------------------------------------------------------
(* Properties.                                                             *)

\* A success of the agent is the success of a Spark job created after it
\* began, also when other squads delete and create the same object meanwhile,
\* or fail to.  The one way to take an earlier run's state for its own is that
\* its own delete before the apply failed, which nothing notices.
SuccessIsFresh ==
    \A s \in Squads :
        result[s] = "ok" /\ s \notin undeleted => taken[s] > since[s]

\* A success means that both tables are registered in Nessie.
SuccessHasTables ==
    \A s \in Squads : result[s] = "ok" => nessie = {"bronze", "silver"}

\* Every agent that begins its work ends it, one way or the other.
AgentReturns == \A s \in Squads : phase[s] # "idle" ~> phase[s] = "done"
=============================================================================
