----------------------------- MODULE GoldStage ------------------------------
(***************************************************************************)
(* The work of the Gold agent (agents/gold): trigger gold_dbt_dag through  *)
(* the Airflow API, poll the run, retry a failed one, count the rows of    *)
(* the Gold table through Trino.                                           *)
(*                                                                         *)
(* A retry makes two requests: it clears the task instances of the failed  *)
(* run and triggers another one.  Airflow is external: it executes one run *)
(* of the DAG at a time (max_active_runs of dags/gold_dbt_dag.py), the     *)
(* daily one included, and may execute a cleared run again.                *)
(***************************************************************************)
EXTENDS Naturals, Sequences, FiniteSets

CONSTANTS
    ClearRequeues,      \* Airflow may execute a run again whose tasks are cleared
    MaxScheduled        \* bound: daily runs of the DAG meanwhile

ASSUME GoldStageConstants ==
    /\ ClearRequeues \in BOOLEAN
    /\ MaxScheduled \in Nat

VARIABLES
    runs,       \* the runs of gold_dbt_dag: [by, state, tries]
    gold,       \* the Gold table: "absent", "empty" or "rows"
    phase,      \* "trigger", "poll", "clear", "retrigger", "repoll", "count", "done"
    waiting,    \* the run the agent polls
    result      \* "none", "ok" or "error"

vars == <<runs, gold, phase, waiting, result>>

RunStates == {"queued", "running", "success", "failed"}
DagRun == [by : {"agent", "schedule"}, state : RunStates, tries : Nat]

TypeOK ==
    /\ runs \in Seq(DagRun)
    /\ gold \in {"absent", "empty", "rows"}
    /\ phase \in {"trigger", "poll", "clear", "retrigger", "repoll", "count", "done"}
    /\ waiting \in 0..Len(runs)
    /\ result \in {"none", "ok", "error"}

Ours == {i \in DOMAIN runs : runs[i].by = "agent"}
NewRun(by) == Append(runs, [by |-> by, state |-> "queued", tries |-> 0])

-----------------------------------------------------------------------------
GoldInit ==
    /\ runs = <<>>
    /\ gold \in {"absent", "empty", "rows"}     \* built on earlier days
    /\ phase = "trigger"
    /\ waiting = 0
    /\ result = "none"

End(r) == phase' = "done" /\ result' = r
GoTo(p) == phase' = p /\ UNCHANGED result

\* Mutant of Trigger: the id of a run that is not the new one.
TriggerWrongId ==
    /\ phase \in {"trigger", "retrigger"}
    /\ runs' = NewRun("agent")
    /\ waiting' = Len(runs) + 2
    /\ GoTo(IF phase = "trigger" THEN "poll" ELSE "repoll")
    /\ UNCHANGED gold

\* trigger_airflow_dag, first or (... and) after the clear: POST dagRuns
\* returns the id of the new run, which the agent polls from then on.
Trigger ==
    /\ phase \in {"trigger", "retrigger"}
    /\ runs' = NewRun("agent")
    /\ waiting' = Len(runs) + 1
    /\ GoTo(IF phase = "trigger" THEN "poll" ELSE "repoll")
    /\ UNCHANGED gold

\* The answer is lost, or the request was: an exception, never a second POST.
TriggerLost ==
    /\ phase \in {"trigger", "retrigger"}
    /\ runs' \in {runs, NewRun("agent")}
    /\ End("error")
    /\ UNCHANGED <<gold, waiting>>

\* Mutant of Poll: every failure is retried.
PollForEver ==
    /\ phase \in {"poll", "repoll"}
    /\ \/ runs[waiting].state = "success" /\ GoTo("count")
       \/ runs[waiting].state = "failed" /\ GoTo("clear")
    /\ UNCHANGED <<runs, gold, waiting>>

\* wait_for_dag_run returns, and a first failure is retried.
Poll ==
    /\ phase \in {"poll", "repoll"}
    /\ \/ runs[waiting].state = "success" /\ GoTo("count")
       \/ runs[waiting].state = "failed" /\ phase = "poll" /\ GoTo("clear")
       \/ runs[waiting].state = "failed" /\ phase = "repoll" /\ End("error")
    /\ UNCHANGED <<runs, gold, waiting>>

\* clear_and_retry_dag: the answer to the clear request is not read ...
Clear ==
    /\ phase = "clear"
    /\ \/ ClearRequeues /\ runs' = [runs EXCEPT ![waiting].state = "queued"]
       \/ UNCHANGED runs
    /\ GoTo("retrigger")
    /\ UNCHANGED <<gold, waiting>>

\* Mutant of Count: any answer of Trino will do.
CountAnything ==
    /\ phase = "count"
    /\ IF gold # "absent" THEN End("ok") ELSE End("error")
    /\ UNCHANGED <<runs, gold, waiting>>

\* query_trino_count: a positive count, or a RuntimeError.
Count ==
    /\ phase = "count"
    /\ IF gold = "rows" THEN End("ok") ELSE End("error")
    /\ UNCHANGED <<runs, gold, waiting>>

\* Mutant of GiveUp: no timeout.
KeepPolling ==
    /\ phase \in {"trigger", "clear", "retrigger", "count"}
    /\ End("error")
    /\ UNCHANGED <<runs, gold, waiting>>

\* wait_for_dag_run times out, or Airflow or kubectl fails.
GiveUp ==
    /\ phase # "done"
    /\ End("error")
    /\ UNCHANGED <<runs, gold, waiting>>

Agent == Trigger \/ TriggerLost \/ Poll \/ Clear \/ Count \/ GiveUp

\* Airflow starts a queued run when none is running ...
StartRun(i) ==
    /\ runs[i].state = "queued"
    /\ \A j \in DOMAIN runs : runs[j].state # "running"
    /\ runs' = [runs EXCEPT ![i].state = "running", ![i].tries = @ + 1]
    /\ UNCHANGED <<gold, phase, waiting, result>>

\* ... and dbt builds the Gold table, empty when Silver is, or fails.
FinishRun(i) ==
    /\ runs[i].state = "running"
    /\ \/ /\ runs' = [runs EXCEPT ![i].state = "success"]
          /\ gold' \in {"empty", "rows"}
       \/ /\ runs' = [runs EXCEPT ![i].state = "failed"]
          /\ gold' \in {gold, "empty", "rows"}
    /\ UNCHANGED <<phase, waiting, result>>

Daily ==
    /\ Cardinality(DOMAIN runs \ Ours) < MaxScheduled
    /\ runs' = NewRun("schedule")
    /\ UNCHANGED <<gold, phase, waiting, result>>

GoldNext ==
    \/ Agent
    \/ \E i \in DOMAIN runs : StartRun(i) \/ FinishRun(i)
    \/ Daily

GoldSpec == GoldInit /\ [][GoldNext]_vars
\* Every wait has a deadline and every request a timeout.
FairGoldSpec == GoldSpec /\ WF_vars(Agent)

-----------------------------------------------------------------------------
(* Properties.                                                             *)

\* A success rests on a run that this agent triggered and that Airflow marked
\* success, and on a table that held rows when it was counted.
SuccessIsBuilt ==
    [][result' = "ok" /\ result # "ok" =>
          /\ gold = "rows"
          /\ \E i \in Ours : runs[i].state = "success"]_vars

\* One retry only (agents_spefication.md, agent 5): the agent asks for at most
\* two runs, and for the second only after the first was executed.
TwoRunsAtMost ==
    /\ Cardinality(Ours) <= 2
    /\ \A i, j \in Ours : i < j => runs[i].tries > 0

\* The agent ends, also when Airflow never starts a run.
AgentReturns == <>(phase = "done")
=============================================================================
