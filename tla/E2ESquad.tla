------------------------------ MODULE E2ESquad ------------------------------
(***************************************************************************)
(* One run of the E2E agent squad: main() of agents/run_e2e.py, the        *)
(* LangGraph of agents/graph.py with the deterministic router of           *)
(* agents/orchestrator/router.py, the four agents and the reporter.        *)
(*                                                                         *)
(* An agent is a node function: it opens a Langfuse span, does its work,   *)
(* emits its scores and returns the new state; an exception on the way is  *)
(* caught by its handler, which emits a zero score and returns an ERROR    *)
(* state.  What the work does to the platform is abstracted to whether it  *)
(* raises.  Langfuse is external: a call may raise, and scores travel in   *)
(* the background of the client that emitted them.                         *)
(***************************************************************************)
EXTENDS Naturals, Sequences, FiniteSets

CONSTANTS
    NServices,          \* services port_forward.py forwards
    LangfuseOn,         \* LANGFUSE_PUBLIC_KEY is set
    LangfuseRaises,     \* a Langfuse call may raise
    ForwardRaises       \* starting a port-forward may raise

ASSUME SquadConstants ==
    /\ NServices \in Nat
    /\ LangfuseOn \in BOOLEAN
    /\ LangfuseRaises \in BOOLEAN
    /\ ForwardRaises \in BOOLEAN

Pipeline == <<"infra", "data_source", "spark", "gold">>
Agents == {Pipeline[i] : i \in 1..4}

\* The scores an agent emits when its work is done, in order.
InfraScores == <<"infra_health">>
DataSourceScores == <<"contract_valid", "cdc_active">>
SparkScores == <<"silver_rows">>
GoldScores == <<"gold_rows">>

ScoresOf == [a \in Agents |->
    CASE a = "infra" -> InfraScores
      [] a = "data_source" -> DataSourceScores
      [] a = "spark" -> SparkScores
      [] OTHER -> GoldScores]

ScoreNames ==
    {"infra_health", "contract_valid", "cdc_active", "silver_rows", "gold_rows"}
OwnScores(a) == {ScoresOf[a][i] : i \in 1..Len(ScoresOf[a])}

VARIABLES
    \* main()
    pc,             \* "forward", "trace", "graph" or "exited"
    forwards,       \* kubectl port-forward processes alive
    exit,           \* exit code of the process; 99 while it runs
    \* the node LangGraph runs, and how far it is
    node,           \* "none", "orchestrator", an agent, "reporter" or "END"
    step,           \* "enter", "work", "emit", "handler", "leave"
    emits,          \* scores the node has emitted for finished work
    outcome,        \* what the node is about to return: "ok" or "error"
    \* E2EState
    status,         \* current_status
    last,           \* last_completed, "none" for the initial ""
    scores,         \* scores: name -> "none", "good" or "zero"
    report,         \* report_markdown: NoReport, or the status and scores shown
    \* Langfuse
    emitted,        \* scores handed to the client
    delivered       \* scores the server has

vars == <<pc, forwards, exit, node, step, emits, outcome, status, last,
          scores, report, emitted, delivered>>
stateVars == <<status, last, scores, report>>
mainVars == <<pc, forwards, exit>>

Score == [name : ScoreNames, good : BOOLEAN]
NoReport == [status |-> "none", shown |-> {}]
Running == 99

TypeOK ==
    /\ pc \in {"forward", "trace", "graph", "exited"}
    /\ forwards \in 0..NServices
    /\ exit \in {0, 1, Running}
    /\ node \in Agents \union {"none", "orchestrator", "reporter", "END"}
    /\ step \in {"enter", "work", "emit", "handler", "leave"}
    /\ emits \in 0..2
    /\ outcome \in {"ok", "error"}
    /\ status \in {"RUNNING", "ERROR", "SUCCESS"}
    /\ last \in Agents \union {"none", "reporter"}
    /\ scores \in [ScoreNames -> {"none", "good", "zero"}]
    /\ report \in [status : {"none", "ERROR", "SUCCESS", "RUNNING"},
                   shown : SUBSET Score]
    /\ emitted \subseteq Score
    /\ delivered \subseteq Score

MayRaise == LangfuseOn /\ LangfuseRaises

\* lf.score on the client of this call: queued, if Langfuse is configured.
EmitScore(name, good) ==
    emitted' = IF LangfuseOn
               THEN emitted \union {[name |-> name, good |-> good]}
               ELSE emitted

-----------------------------------------------------------------------------
SquadInit ==
    /\ pc \in {"forward", "trace"}      \* --no-port-forward skips "forward"
    /\ forwards = 0
    /\ exit = Running
    /\ node = "none"
    /\ step = "enter"
    /\ emits = 0
    /\ outcome = "ok"
    /\ status = "RUNNING"
    /\ last = "none"
    /\ scores = [n \in ScoreNames |-> "none"]
    /\ report = NoReport
    /\ emitted = {}
    /\ delivered = {}

\* PortForwardManager.start: one kubectl process per service ...
StartForward ==
    /\ pc = "forward"
    /\ forwards < NServices
    /\ forwards' = forwards + 1
    /\ UNCHANGED <<pc, exit, node, step, emits, outcome, stateVars, emitted,
                   delivered>>

\* ... after which main registers stop() with atexit and goes on.
ForwardsUp ==
    /\ pc = "forward"
    /\ forwards = NServices
    /\ pc' = "trace"
    /\ UNCHANGED <<forwards, exit, node, step, emits, outcome, stateVars,
                   emitted, delivered>>

\* start() raises midway: main ends before stop() is registered.
ForwardFails ==
    /\ pc = "forward"
    /\ ForwardRaises
    /\ forwards < NServices
    /\ pc' = "exited"
    /\ exit' = 1
    /\ UNCHANGED <<forwards, node, step, emits, outcome, stateVars, emitted,
                   delivered>>

\* init_trace succeeds and the graph is invoked at its entry point.
InvokeGraph ==
    /\ pc = "trace"
    /\ pc' = "graph"
    /\ node' = "orchestrator"
    /\ UNCHANGED <<forwards, exit, step, emits, outcome, stateVars, emitted,
                   delivered>>

\* An exception leaves init_trace or a node: main ends with a traceback and
\* the atexit hook stops the port-forwards.  E2EState is lost with the graph.
Escape ==
    /\ pc' = "exited"
    /\ exit' = 1
    /\ forwards' = 0
    /\ UNCHANGED <<node, step, emits, outcome, stateVars, emitted, delivered>>

TraceFails ==
    /\ pc = "trace"
    /\ MayRaise
    /\ Escape

At(n, s) == pc = "graph" /\ node = n /\ step = s

Enter(n) ==
    /\ node' = n
    /\ step' = "enter"
    /\ emits' = 0
    /\ outcome' = "ok"

\* Mutant of NextAgent: ERROR is not looked at.
NextAgentIgnoresError ==
    IF last \notin Agents \union {"none"} \/ last = "gold" THEN "reporter"
    ELSE IF last = "none" THEN "infra"
    ELSE Pipeline[(CHOOSE i \in 1..3 : Pipeline[i] = last) + 1]

\* Mutant of NextAgent: off by one.
NextAgentAgain ==
    IF status = "ERROR" \/ last \notin Agents \union {"none"} \/ last = "gold"
    THEN "reporter"
    ELSE IF last = "none" THEN "infra"
    ELSE Pipeline[CHOOSE i \in 1..3 : Pipeline[i] = last]

\* orchestrator_node and the conditional edge route_next_agent.
NextAgent ==
    IF status = "ERROR" \/ last \notin Agents \union {"none"} \/ last = "gold"
    THEN "reporter"
    ELSE IF last = "none" THEN "infra"
    ELSE Pipeline[(CHOOSE i \in 1..3 : Pipeline[i] = last) + 1]

\* Mutant of Orchestrate: "gold is done" is asked before "ERROR".
OrchestrateGoldFirst ==
    /\ pc = "graph"
    /\ node = "orchestrator"
    /\ Enter(NextAgent)
    /\ status' = IF last = "gold" THEN "SUCCESS" ELSE status
    /\ UNCHANGED <<mainVars, last, scores, report, emitted, delivered>>

Orchestrate ==
    /\ pc = "graph"
    /\ node = "orchestrator"
    /\ Enter(NextAgent)
    /\ status' = IF status = "ERROR" THEN "ERROR"
                 ELSE IF last = "gold" THEN "SUCCESS"
                 ELSE IF last \notin Agents \union {"none"} THEN "ERROR"
                 ELSE status
    /\ UNCHANGED <<mainVars, last, scores, report, emitted, delivered>>

\* observe() opens the span of the node; outside the try of the node, so an
\* exception of the client leaves the node.
OpenSpan(n, s) ==
    /\ At(n, "enter")
    /\ step' = s
    /\ UNCHANGED <<mainVars, node, emits, outcome, stateVars, emitted, delivered>>

SpanRaises ==
    /\ pc = "graph"
    /\ node \in Agents \union {"reporter"}
    /\ step \in {"enter", "leave"}
    /\ MayRaise
    /\ Escape

\* The work of the agent is done, or raises into its handler.
Work(a) ==
    /\ At(a, "work")
    /\ step' \in {"emit", "handler"}
    /\ UNCHANGED <<mainVars, node, emits, outcome, stateVars, emitted, delivered>>

\* The next emit_score of the success path ...
Emit(a) ==
    /\ At(a, "emit")
    /\ emits' = emits + 1
    /\ EmitScore(ScoresOf[a][emits + 1], TRUE)
    /\ step' = IF emits + 1 = Len(ScoresOf[a]) THEN "leave" ELSE "emit"
    /\ UNCHANGED <<mainVars, node, outcome, stateVars, delivered>>

\* ... which is inside the try: when it raises, the work is reported failed.
EmitRaises(a) ==
    /\ At(a, "emit")
    /\ MayRaise
    /\ step' = "handler"
    /\ UNCHANGED <<mainVars, node, emits, outcome, stateVars, emitted, delivered>>

\* except Exception: one zero score, then the ERROR state.
Handle(a) ==
    /\ At(a, "handler")
    /\ EmitScore(ScoresOf[a][1], FALSE)
    /\ outcome' = "error"
    /\ step' = "leave"
    /\ UNCHANGED <<mainVars, node, emits, stateVars, delivered>>

HandlerRaises(a) ==
    /\ At(a, "handler")
    /\ MayRaise
    /\ Escape

\* Mutant of Return: a status E2EState does not have.
ReturnFailed(a) ==
    /\ At(a, "leave")
    /\ last' = a
    /\ status' = IF outcome = "error" THEN "FAILED" ELSE status
    /\ scores' = [n \in ScoreNames |->
                    IF n \notin OwnScores(a) THEN scores[n]
                    ELSE IF outcome = "ok" THEN "good" ELSE "zero"]
    /\ Enter("orchestrator")
    /\ UNCHANGED <<mainVars, report, emitted, delivered>>

\* Mutant of Return: the state of a failed node carries no score.
ReturnWithoutScore(a) ==
    /\ At(a, "leave")
    /\ last' = a
    /\ status' = IF outcome = "error" THEN "ERROR" ELSE status
    /\ scores' = [n \in ScoreNames |->
                    IF n \in OwnScores(a) /\ outcome = "ok" THEN "good"
                    ELSE scores[n]]
    /\ Enter("orchestrator")
    /\ UNCHANGED <<mainVars, report, emitted, delivered>>

\* Mutant of Return: current_status is not set on failure.
ReturnRunning(a) ==
    /\ At(a, "leave")
    /\ last' = a
    /\ scores' = [n \in ScoreNames |->
                    IF n \notin OwnScores(a) THEN scores[n]
                    ELSE IF outcome = "ok" THEN "good" ELSE "zero"]
    /\ Enter("orchestrator")
    /\ UNCHANGED <<mainVars, status, report, emitted, delivered>>

\* The node returns its state and the edge leads back to the orchestrator.
Return(a) ==
    /\ At(a, "leave")
    /\ last' = a
    /\ status' = IF outcome = "error" THEN "ERROR" ELSE status
    /\ scores' = [n \in ScoreNames |->
                    IF n \notin OwnScores(a) THEN scores[n]
                    ELSE IF outcome = "ok" THEN "good" ELSE "zero"]
    /\ Enter("orchestrator")
    /\ UNCHANGED <<mainVars, report, emitted, delivered>>

\* The background thread of a client delivers a score; clients do not wait
\* for each other.
Deliver ==
    /\ \E s \in emitted \ delivered : delivered' = delivered \union {s}
    /\ UNCHANGED <<mainVars, node, step, emits, outcome, stateVars, emitted>>

\* get_langfuse_scores: what the server has, [] when a call fails or Langfuse
\* is not configured.
Fetched == IF LangfuseOn THEN {delivered, {}} ELSE {{}}

\* format_slack_report shows the fetched scores, or those of the state when
\* there are none; a score of 1 is shown as good.
StateScores ==
    {[name |-> n, good |-> scores[n] = "good"] :
        n \in {m \in ScoreNames : scores[m] # "none"}}
SlackReport(fetched) ==
    [status |-> status, shown |-> IF fetched # {} THEN fetched ELSE StateScores]

Report ==
    /\ At("reporter", "work")
    /\ \E fetched \in Fetched : report' = SlackReport(fetched)
    /\ last' = "reporter"
    /\ step' = "leave"
    /\ UNCHANGED <<mainVars, node, emits, outcome, status, scores, emitted,
                   delivered>>

EndGraph ==
    /\ At("reporter", "leave")
    /\ node' = "END"
    /\ UNCHANGED <<mainVars, step, emits, outcome, stateVars, emitted, delivered>>

\* Mutant of Exit: no sys.exit.
ExitZero ==
    /\ pc = "graph"
    /\ node = "END"
    /\ pc' = "exited"
    /\ exit' = 0
    /\ forwards' = 0
    /\ UNCHANGED <<node, step, emits, outcome, stateVars, emitted, delivered>>

\* main returns and the atexit hook stops the port-forwards.
Exit ==
    /\ pc = "graph"
    /\ node = "END"
    /\ pc' = "exited"
    /\ exit' = IF status = "SUCCESS" THEN 0 ELSE 1
    /\ forwards' = 0
    /\ UNCHANGED <<node, step, emits, outcome, stateVars, emitted, delivered>>

AgentStep(a) ==
    \/ OpenSpan(a, "work")
    \/ Work(a)
    \/ Emit(a)
    \/ EmitRaises(a)
    \/ Handle(a)
    \/ HandlerRaises(a)
    \/ Return(a)

Process ==
    \/ StartForward
    \/ ForwardsUp
    \/ ForwardFails
    \/ InvokeGraph
    \/ TraceFails
    \/ Orchestrate
    \/ \E a \in Agents : AgentStep(a)
    \/ OpenSpan("reporter", "work")
    \/ Report
    \/ SpanRaises
    \/ EndGraph
    \/ Exit

SquadNext == Process \/ Deliver

\* Every wait of an agent has a timeout, so the process always goes on.
SquadSpec == SquadInit /\ [][SquadNext]_vars
FairSquadSpec == SquadSpec /\ WF_vars(Process)

-----------------------------------------------------------------------------
(* Properties.                                                             *)

Passed(a) == \A n \in OwnScores(a) : scores[n] = "good"

\* An agent runs only while the run is healthy and after every agent before
\* it in the pipeline finished its work, each exactly once; no report exists.
DelegatedInOrder ==
    \A i \in 1..4 :
        node = Pipeline[i] =>
            /\ status = "RUNNING"
            /\ report = NoReport
            /\ last = IF i = 1 THEN "none" ELSE Pipeline[i - 1]
            /\ \A j \in 1..4 : Passed(Pipeline[j]) <=> j < i

\* Exit code 0 is trustworthy: every agent passed, and the report says so.
ExitZeroMeansAllPassed ==
    exit = 0 =>
        /\ \A a \in Agents : Passed(a)
        /\ report.status = "SUCCESS"

\* The report of a successful run never shows a failed score, whether it
\* shows what Langfuse has received so far or the scores of the state.
GreenReport ==
    report.status = "SUCCESS" => \A s \in report.shown : s.good

\* The process ends, whatever raises and wherever.
Terminates == <>(pc = "exited")

\* A failure is shown: the report of a failed run shows the zero score, unless
\* Langfuse has received other scores of the run and that one not yet.
RedReport ==
    [][(report = NoReport /\ report'.status = "ERROR") =>
          \/ \E s \in report'.shown : ~s.good
          \/ delivered # {} /\ \A s \in delivered : s.good]_vars

\* The squad implements the fail-fast pipeline.
AbstractPipeline == INSTANCE FailFastPipeline WITH
    Stages <- Pipeline,
    passed <- {a \in Agents : Passed(a)},
    verdict <- IF status = "SUCCESS" THEN "passed"
               ELSE IF status = "ERROR" \/ exit = 1 THEN "failed"
               ELSE "open"

ImplementsFailFast == AbstractPipeline!FailFastSpec
=============================================================================
