--------------------------- MODULE E2ESquad_proofs ---------------------------
(***************************************************************************)
(* Proofs about one run of the E2E squad, whatever Langfuse raises and     *)
(* however many services are forwarded.                                    *)
(*                                                                         *)
(* The inductive invariant SquadInv ties the position of the graph to the  *)
(* state it carries: at the k-th agent exactly the first k - 1 agents have *)
(* passed (Progress), and a zero score was handed to Langfuse only by a    *)
(* node that returned or is about to return an ERROR state (Truthful).     *)
(***************************************************************************)
EXTENDS E2ESquad, TLAPS

\* The first k agents have passed, no other has.
PassedFirst(k) == \A j \in 1..4 : Passed(Pipeline[j]) <=> j <= k

LastIs(k) == last = IF k = 0 THEN "none" ELSE Pipeline[k]

\* The first k agents returned and passed; or the k-th agent failed.
Healthy(k) == status = "RUNNING" /\ LastIs(k) /\ PassedFirst(k)
Broken(k) == status = "ERROR" /\ LastIs(k) /\ PassedFirst(k - 1)

Phases ==
    /\ pc \in {"forward", "trace"} => node = "none"
    /\ pc = "graph" => node # "none"
    /\ exit = Running <=> pc # "exited"
    /\ exit = 0 => node = "END" /\ status = "SUCCESS"
    /\ step \in {"enter", "work"} => emits = 0
    /\ step = "emit" => node \in Agents /\ emits < Len(ScoresOf[node])

Progress ==
    /\ node = "none" => Healthy(0)
    /\ \A i \in 1..4 : node = Pipeline[i] => Healthy(i - 1)
    /\ node = "orchestrator" =>
          (\E k \in 0..4 : Healthy(k)) \/ (\E k \in 1..4 : Broken(k))
    /\ node \in {"reporter", "END"} =>
          status = "ERROR" \/ (status = "SUCCESS" /\ PassedFirst(4))
    /\ report = NoReport \/ node \in {"reporter", "END"}
    /\ node = "END" \/ (node = "reporter" /\ step = "leave")
          => report.status = status
    /\ node = "reporter" /\ step # "leave" => report = NoReport

Truthful ==
    \/ \A s \in emitted : s.good
    \/ status = "ERROR"
    \/ node \in Agents /\ step = "leave" /\ outcome = "error"

SquadInv ==
    /\ TypeOK
    /\ Phases
    /\ Progress
    /\ Truthful
    /\ delivered \subseteq emitted
    /\ GreenReport

-----------------------------------------------------------------------------
(* The pipeline and its scores.                                            *)

\* The pipeline has four different agents, and the router can look up the
\* position of the first three.
LEMMA PipelineFacts ==
    /\ Pipeline[1] = "infra" /\ Pipeline[2] = "data_source"
    /\ Pipeline[3] = "spark" /\ Pipeline[4] = "gold"
    /\ Agents = {"infra", "data_source", "spark", "gold"}
    /\ \A i, j \in 1..4 : Pipeline[i] = Pipeline[j] => i = j
<1>1. /\ Pipeline[1] = "infra" /\ Pipeline[2] = "data_source"
      /\ Pipeline[3] = "spark" /\ Pipeline[4] = "gold"
  BY DEF Pipeline
<1>2. \A i \in 1..4 : i = 1 \/ i = 2 \/ i = 3 \/ i = 4
  OBVIOUS
<1>3. Agents = {"infra", "data_source", "spark", "gold"}
  BY <1>1, <1>2 DEF Agents
<1>4. \A i, j \in 1..4 : Pipeline[i] = Pipeline[j] => i = j
  BY <1>1, <1>2
<1> QED BY <1>1, <1>3, <1>4

\* The scores each agent emits, by position and as a set.
LEMMA ScoreFacts ==
    /\ OwnScores("infra") = {"infra_health"}
    /\ OwnScores("data_source") = {"contract_valid", "cdc_active"}
    /\ OwnScores("spark") = {"silver_rows"}
    /\ OwnScores("gold") = {"gold_rows"}
    /\ \A a \in Agents : /\ Len(ScoresOf[a]) \in 1..2
                         /\ \A i \in 1..Len(ScoresOf[a]) : ScoresOf[a][i] \in ScoreNames
<1>1. /\ ScoresOf["infra"] = <<"infra_health">>
      /\ ScoresOf["data_source"] = <<"contract_valid", "cdc_active">>
      /\ ScoresOf["spark"] = <<"silver_rows">>
      /\ ScoresOf["gold"] = <<"gold_rows">>
  BY PipelineFacts DEF ScoresOf, InfraScores, DataSourceScores, SparkScores, GoldScores
<1>2. /\ 1..1 = {1} /\ 1..2 = {1, 2}
  OBVIOUS
<1>3. /\ OwnScores("infra") = {"infra_health"}
      /\ OwnScores("data_source") = {"contract_valid", "cdc_active"}
      /\ OwnScores("spark") = {"silver_rows"}
      /\ OwnScores("gold") = {"gold_rows"}
  BY <1>1, <1>2 DEF OwnScores
<1>4. ASSUME NEW a \in Agents
      PROVE  /\ Len(ScoresOf[a]) \in 1..2
             /\ \A i \in 1..Len(ScoresOf[a]) : ScoresOf[a][i] \in ScoreNames
  <2> USE <1>1, <1>2 DEF ScoreNames
  <2>1. CASE a = "infra"
    <3>1. Len(ScoresOf[a]) = 1 /\ ScoresOf[a][1] = "infra_health"
      BY <2>1
    <3> QED BY <3>1
  <2>2. CASE a = "data_source"
    <3>1. /\ Len(ScoresOf[a]) = 2
          /\ ScoresOf[a][1] = "contract_valid" /\ ScoresOf[a][2] = "cdc_active"
      BY <2>2
    <3> QED BY <3>1
  <2>3. CASE a = "spark"
    <3>1. Len(ScoresOf[a]) = 1 /\ ScoresOf[a][1] = "silver_rows"
      BY <2>3
    <3> QED BY <3>1
  <2>4. CASE a = "gold"
    <3>1. Len(ScoresOf[a]) = 1 /\ ScoresOf[a][1] = "gold_rows"
      BY <2>4
    <3> QED BY <3>1
  <2> QED BY <2>1, <2>2, <2>3, <2>4, PipelineFacts
<1> QED BY <1>3, <1>4

\* Every score belongs to exactly one agent.
LEMMA ScoresArePartitioned ==
    /\ \A n \in ScoreNames : \E a \in Agents : n \in OwnScores(a)
    /\ \A a, b \in Agents : a # b => OwnScores(a) \cap OwnScores(b) = {}
    /\ \A a \in Agents : OwnScores(a) # {} /\ OwnScores(a) \subseteq ScoreNames
<1>1. \A n \in ScoreNames : \E a \in Agents : n \in OwnScores(a)
  BY ScoreFacts, PipelineFacts DEF ScoreNames
<1>2. ASSUME NEW a \in Agents
      PROVE  OwnScores(a) # {} /\ OwnScores(a) \subseteq ScoreNames
  <2> USE ScoreFacts DEF ScoreNames
  <2>1. CASE a = "infra"
    BY <2>1
  <2>2. CASE a = "data_source"
    BY <2>2
  <2>3. CASE a = "spark"
    BY <2>3
  <2>4. CASE a = "gold"
    BY <2>4
  <2> QED BY <2>1, <2>2, <2>3, <2>4, PipelineFacts
<1>3. ASSUME NEW a \in Agents, NEW b \in Agents, a # b
      PROVE  OwnScores(a) \cap OwnScores(b) = {}
  <2> USE ScoreFacts
  <2>1. CASE a = "infra"
    BY <1>3, <2>1, PipelineFacts
  <2>2. CASE a = "data_source"
    BY <1>3, <2>2, PipelineFacts
  <2>3. CASE a = "spark"
    BY <1>3, <2>3, PipelineFacts
  <2>4. CASE a = "gold"
    BY <1>3, <2>4, PipelineFacts
  <2> QED BY <2>1, <2>2, <2>3, <2>4, PipelineFacts
<1> QED BY <1>1, <1>2, <1>3

\* What a return does to the agents that have passed.
LEMMA ReturnPasses ==
    ASSUME TypeOK, NEW a \in Agents, Return(a), NEW b \in Agents
    PROVE  Passed(b)' <=> IF b = a THEN outcome = "ok" ELSE Passed(b)
<1>1. OwnScores(b) # {} /\ OwnScores(b) \subseteq ScoreNames
  BY ScoresArePartitioned
<1>2. CASE b = a
  <2>1. \A n \in OwnScores(a) : scores'[n] = IF outcome = "ok" THEN "good" ELSE "zero"
    BY <1>1, <1>2 DEF Return
  <2> QED BY <1>1, <1>2, <2>1 DEF Passed
<1>3. CASE b # a
  <2>1. \A n \in OwnScores(b) : n \notin OwnScores(a)
    BY <1>3, ScoresArePartitioned
  <2>2. \A n \in OwnScores(b) : scores'[n] = scores[n]
    BY <1>1, <2>1 DEF Return
  <2> QED BY <1>3, <2>2 DEF Passed
<1> QED BY <1>2, <1>3

\* Where the router goes from a state that is consistent.
LEMMA NextAgentFacts ==
    /\ \A k \in 0..3 : Healthy(k) => NextAgent = Pipeline[k + 1]
    /\ Healthy(4) => NextAgent = "reporter"
    /\ status = "ERROR" => NextAgent = "reporter"
<1>1. ASSUME NEW k \in 1..3, Healthy(k) PROVE NextAgent = Pipeline[k + 1]
  <2>1. last = Pipeline[k] /\ status # "ERROR"
    BY <1>1 DEF Healthy, LastIs
  <2>2. last \in Agents /\ last # "gold" /\ last # "none"
    BY <2>1, PipelineFacts
  <2>3. (CHOOSE i \in 1..3 : Pipeline[i] = last) = k
    <3>1. \A i \in 1..3 : Pipeline[i] = last => i = k
      BY <2>1, PipelineFacts
    <3> QED BY <2>1, <3>1
  <2> QED BY <2>1, <2>2, <2>3 DEF NextAgent
<1>2. Healthy(0) => NextAgent = Pipeline[1]
  BY PipelineFacts DEF Healthy, LastIs, NextAgent
<1>3. Healthy(4) => NextAgent = "reporter"
  BY PipelineFacts DEF Healthy, LastIs, NextAgent
<1>4. status = "ERROR" => NextAgent = "reporter"
  BY DEF NextAgent
<1>5. \A k \in 0..3 : k = 0 \/ k \in 1..3
  OBVIOUS
<1> QED BY <1>1, <1>2, <1>3, <1>4, <1>5

-----------------------------------------------------------------------------
(* The inductive invariant, conjunct by conjunct.                          *)

\* A step that leaves status, last and scores alone leaves the progress alone.
LEMMA SameProgress ==
    ASSUME UNCHANGED <<status, last, scores>>, NEW k
    PROVE  /\ Healthy(k)' <=> Healthy(k)
           /\ Broken(k)' <=> Broken(k)
           /\ PassedFirst(k)' <=> PassedFirst(k)
  BY DEF Healthy, Broken, LastIs, PassedFirst, Passed

\* The router names an agent or the reporter.
LEMMA NextAgentType == NextAgent \in Agents \union {"reporter"}
<1>1. ASSUME last \in Agents, last # "gold"
      PROVE  Pipeline[(CHOOSE i \in 1..3 : Pipeline[i] = last) + 1] \in Agents
  <2>1. \E i \in 1..3 : Pipeline[i] = last
    BY <1>1, PipelineFacts
  <2>2. (CHOOSE i \in 1..3 : Pipeline[i] = last) \in 1..3
    BY <2>1
  <2>3. \A i \in 1..3 : Pipeline[i + 1] \in Agents
    BY DEF Agents
  <2> QED BY <2>2, <2>3
<1>2. "infra" \in Agents
  BY PipelineFacts
<1> QED BY <1>1, <1>2 DEF NextAgent

\* The scores of the state are scores.
LEMMA StateScoresType == TypeOK => StateScores \subseteq Score
<1> SUFFICES ASSUME TypeOK, NEW s \in StateScores PROVE s \in Score
  OBVIOUS
<1>1. PICK n \in ScoreNames : s = [name |-> n, good |-> scores[n] = "good"]
  BY DEF StateScores
<1> DEFINE good == scores[n] = "good"
<1>2. good \in BOOLEAN
  OBVIOUS
<1>3. s = [name |-> n, good |-> good]
  BY <1>1
<1> HIDE DEF good
<1> QED BY <1>2, <1>3 DEF Score

\* Every step keeps the types.
LEMMA SquadTypeStep ==
    ASSUME TypeOK, Phases, [SquadNext]_vars PROVE TypeOK'
<1> USE SquadConstants DEF TypeOK, mainVars, stateVars, Escape, Running
<1>1. CASE StartForward
  BY <1>1 DEF StartForward
<1>2. CASE ForwardsUp \/ ForwardFails
  BY <1>2 DEF ForwardsUp, ForwardFails
<1>3. CASE InvokeGraph \/ TraceFails \/ SpanRaises
  BY <1>3 DEF InvokeGraph, TraceFails, SpanRaises
<1>4. CASE Orchestrate
  <2>1. NextAgent \in Agents \union {"reporter"}
    BY NextAgentType
  <2> QED BY <1>4, <2>1 DEF Orchestrate, Enter
<1>5. ASSUME NEW n, OpenSpan(n, "work") PROVE TypeOK'
  BY <1>5 DEF OpenSpan
<1>6. ASSUME NEW a \in Agents, Work(a) \/ EmitRaises(a) \/ HandlerRaises(a)
      PROVE  TypeOK'
  BY <1>6 DEF Work, EmitRaises, HandlerRaises
<1>7. ASSUME NEW n \in ScoreNames, NEW good \in BOOLEAN, EmitScore(n, good)
      PROVE  emitted' \subseteq Score
  BY <1>7 DEF EmitScore, Score
<1>8. ASSUME NEW a \in Agents, Emit(a) PROVE TypeOK'
  <2>1. emits < Len(ScoresOf[a]) /\ Len(ScoresOf[a]) \in 1..2
    BY <1>8, ScoreFacts DEF Emit, At, Phases
  <2>2. ScoresOf[a][emits + 1] \in ScoreNames
    BY <2>1, ScoreFacts
  <2>3. emitted' \subseteq Score
    BY <1>7, <1>8, <2>2 DEF Emit
  <2>4. emits + 1 \in 0..2
    <3>1. \A e \in 0..2, n \in 1..2 : e < n => e + 1 \in 0..2
      OBVIOUS
    <3>2. emits \in 0..2
      OBVIOUS
    <3> QED BY <2>1, <3>1, <3>2
  <2>5. step' \in {"leave", "emit"}
    BY <1>8 DEF Emit
  <2> QED BY <1>8, <2>3, <2>4, <2>5 DEF Emit
<1>9. ASSUME NEW a \in Agents, Handle(a) PROVE TypeOK'
  <2>1. ScoresOf[a][1] \in ScoreNames
    BY ScoreFacts
  <2>2. emitted' \subseteq Score
    BY <1>7, <1>9, <2>1 DEF Handle
  <2> QED BY <1>9, <2>2 DEF Handle
<1>10. ASSUME NEW a \in Agents, Return(a) PROVE TypeOK'
  <2>1. scores' \in [ScoreNames -> {"none", "good", "zero"}]
    BY <1>10 DEF Return
  <2> QED BY <1>10, <2>1 DEF Return, Enter
<1>11. CASE Deliver
  BY <1>11 DEF Deliver
<1>12. CASE Report
  <2> QED BY <1>12, StateScoresType DEF Report, SlackReport, Fetched
<1>13. CASE EndGraph \/ Exit
  BY <1>13 DEF EndGraph, Exit
<1>14. CASE UNCHANGED vars
  BY <1>14 DEF vars
<1>15. ASSUME NEW a \in Agents, AgentStep(a) PROVE TypeOK'
  BY <1>5, <1>6, <1>8, <1>9, <1>10, <1>15, Zenon DEF AgentStep
<1> QED BY <1>1, <1>2, <1>3, <1>4, <1>5, <1>11, <1>12, <1>13, <1>14, <1>15,
           Zenon DEF SquadNext, Process

\* Where main, the graph and the node of the moment are.
LEMMA PhasesStep ==
    ASSUME TypeOK, Phases, [SquadNext]_vars PROVE Phases'
<1> USE DEF Phases, mainVars, stateVars, Escape, Running, At
<1>1. CASE StartForward \/ ForwardsUp \/ ForwardFails
  BY <1>1 DEF StartForward, ForwardsUp, ForwardFails
<1>2. CASE InvokeGraph \/ TraceFails \/ SpanRaises
  <2>1. CASE InvokeGraph
    BY <2>1, PipelineFacts DEF InvokeGraph
  <2>2. CASE TraceFails
    BY <2>2 DEF TraceFails
  <2>3. CASE SpanRaises
    BY <2>3 DEF SpanRaises
  <2> QED BY <1>2, <2>1, <2>2, <2>3
<1>3. CASE Orchestrate
  <2>1. NextAgent # "none"
    <3>1. NextAgent \in Agents \union {"reporter"}
      BY NextAgentType
    <3> QED BY <3>1, PipelineFacts
  <2> QED BY <1>3, <2>1 DEF Orchestrate, Enter
<1>4. ASSUME NEW n, OpenSpan(n, "work") PROVE Phases'
  BY <1>4 DEF OpenSpan
<1>5. ASSUME NEW a \in Agents, EmitRaises(a) \/ HandlerRaises(a) \/ Handle(a)
      PROVE  Phases'
  <2>1. CASE EmitRaises(a)
    BY <2>1 DEF EmitRaises
  <2>2. CASE HandlerRaises(a)
    BY <2>2 DEF HandlerRaises
  <2>3. CASE Handle(a)
    BY <2>3 DEF Handle
  <2> QED BY <1>5, <2>1, <2>2, <2>3
<1>6. ASSUME NEW a \in Agents, Work(a) PROVE Phases'
  <2>1. /\ pc = "graph" /\ node = a /\ emits = 0
        /\ UNCHANGED <<pc, exit, node, emits, status>>
        /\ step' \in {"emit", "handler"}
    BY <1>6 DEF Work
  <2>2. emits < Len(ScoresOf[a])
    BY <2>1, ScoreFacts
  <2> QED BY <2>1, <2>2
<1>7. ASSUME NEW a \in Agents, Emit(a) PROVE Phases'
  <2>1. emits < Len(ScoresOf[a]) /\ Len(ScoresOf[a]) \in 1..2 /\ emits \in 0..2
    BY <1>7, ScoreFacts DEF Emit, TypeOK
  <2> QED BY <1>7, <2>1 DEF Emit
<1>8. ASSUME NEW a \in Agents, Return(a) PROVE Phases'
  BY <1>8, PipelineFacts DEF Return, Enter
<1>9. CASE Report \/ Deliver \/ EndGraph \/ Exit
  BY <1>9, PipelineFacts DEF Report, Deliver, EndGraph, Exit
<1>10. CASE UNCHANGED vars
  BY <1>10 DEF vars
<1>11. ASSUME NEW a \in Agents, AgentStep(a) PROVE Phases'
  BY <1>4, <1>5, <1>6, <1>7, <1>8, <1>11, Zenon DEF AgentStep
<1> QED BY <1>1, <1>2, <1>3, <1>4, <1>9, <1>10, <1>11, Zenon DEF SquadNext, Process

\* The progress of the pipeline follows the position of the graph.
LEMMA ProgressStep ==
    ASSUME TypeOK, Phases, Progress, [SquadNext]_vars PROVE Progress'
<1> USE DEF mainVars, stateVars, At
<1>1. ASSUME UNCHANGED <<status, last, scores, node, report>>,
             step' = step \/ node # "reporter" \/ (step # "leave" /\ step' = "work")
      PROVE  Progress'
  <2>1. \A k : /\ Healthy(k)' <=> Healthy(k)
               /\ Broken(k)' <=> Broken(k)
               /\ PassedFirst(k)' <=> PassedFirst(k)
    BY <1>1, SameProgress
  <2>2. node = "reporter" => (step' = "leave" <=> step = "leave")
    BY <1>1
  <2> QED BY <1>1, <2>1, <2>2 DEF Progress
<1>2. CASE InvokeGraph
  <2>1. node = "none" /\ Healthy(0) /\ report = NoReport
    BY <1>2 DEF InvokeGraph, Phases, Progress
  <2>2. Healthy(0)'
    BY <1>2, <2>1, SameProgress DEF InvokeGraph
  <2>3. node' = "orchestrator" /\ report' = NoReport
    BY <1>2, <2>1 DEF InvokeGraph
  <2>4. \E k \in 0..4 : Healthy(k)'
    BY <2>2
  <2> QED BY <2>3, <2>4, PipelineFacts DEF Progress
<1>3. CASE Orchestrate
  <2>1. /\ report' = NoReport /\ report = NoReport
        /\ node' = NextAgent /\ step' = "enter"
    BY <1>3 DEF Orchestrate, Enter, Progress
  <2>2. ASSUME NEW k \in 0..3, Healthy(k) PROVE Progress'
    <3>1. last # "gold" /\ last \in Agents \union {"none"} /\ status = "RUNNING"
      BY <2>2, PipelineFacts DEF Healthy, LastIs
    <3>2. UNCHANGED <<status, last, scores>>
      BY <1>3, <3>1 DEF Orchestrate
    <3>3. node' = Pipeline[k + 1] /\ Healthy(k)'
      BY <2>1, <2>2, <3>2, NextAgentFacts, SameProgress
    <3>4. \A i \in 1..4 : Pipeline[i] = Pipeline[k + 1] => i = k + 1
      BY PipelineFacts
    <3>5. node' \in Agents
      BY <3>3 DEF Agents
    <3> QED BY <2>1, <3>3, <3>4, <3>5, PipelineFacts DEF Progress
  <2>3. ASSUME Healthy(4) PROVE Progress'
    <3>1. last = "gold" /\ status = "RUNNING" /\ PassedFirst(4)
      BY <2>3, PipelineFacts DEF Healthy, LastIs
    <3>2. node' = "reporter" /\ status' = "SUCCESS" /\ UNCHANGED <<last, scores>>
      BY <1>3, <2>1, <2>3, <3>1, NextAgentFacts DEF Orchestrate
    <3>3. PassedFirst(4)'
      BY <3>1, <3>2 DEF PassedFirst, Passed
    <3> QED BY <2>1, <3>2, <3>3, PipelineFacts DEF Progress
  <2>4. ASSUME status = "ERROR" PROVE Progress'
    <3>1. node' = "reporter" /\ status' = "ERROR"
      BY <1>3, <2>1, <2>4, NextAgentFacts DEF Orchestrate
    <3> QED BY <2>1, <3>1, PipelineFacts DEF Progress
  <2>5. \A k \in 0..4 : k \in 0..3 \/ k = 4
    OBVIOUS
  <2> QED BY <1>3, <2>2, <2>3, <2>4, <2>5 DEF Orchestrate, Progress, Broken
<1>4. ASSUME NEW a \in Agents, Return(a) PROVE Progress'
  <2>1. PICK i \in 1..4 : a = Pipeline[i]
    BY DEF Agents
  <2>2. Healthy(i - 1) /\ report = NoReport
    BY <1>4, <2>1, PipelineFacts DEF Return, Progress
  <2>3. \A j \in 1..4 : Passed(Pipeline[j])' <=>
           IF j = i THEN outcome = "ok" ELSE j <= i - 1
    <3>1. \A j \in 1..4 : Pipeline[j] \in Agents /\ (Pipeline[j] = a <=> j = i)
      BY <2>1, PipelineFacts DEF Agents
    <3> QED BY <1>4, <2>2, <3>1, ReturnPasses DEF Healthy, PassedFirst
  <2>4. CASE outcome = "ok"
    <3>1. status' = "RUNNING" /\ last' = Pipeline[i]
      BY <1>4, <2>1, <2>2, <2>4 DEF Return, Healthy
    <3>2. Healthy(i)'
      BY <2>3, <2>4, <3>1 DEF Healthy, LastIs, PassedFirst
    <3> QED BY <1>4, <2>2, <3>2, PipelineFacts DEF Return, Enter, Progress
  <2>5. CASE outcome = "error"
    <3>1. status' = "ERROR" /\ last' = Pipeline[i]
      BY <1>4, <2>1, <2>5 DEF Return
    <3>2. Broken(i)'
      BY <2>3, <2>5, <3>1 DEF Broken, LastIs, PassedFirst
    <3> QED BY <1>4, <2>2, <3>2, PipelineFacts DEF Return, Enter, Progress
  <2> QED BY <2>4, <2>5 DEF TypeOK
<1>5. CASE Report
  <2>1. PassedFirst(4)' <=> PassedFirst(4)
    BY <1>5 DEF Report, PassedFirst, Passed
  <2> QED BY <1>5, <2>1, PipelineFacts DEF Report, SlackReport, Progress
<1>6. CASE EndGraph
  <2>1. PassedFirst(4)' <=> PassedFirst(4)
    BY <1>6 DEF EndGraph, PassedFirst, Passed
  <2> QED BY <1>6, <2>1, PipelineFacts DEF EndGraph, Progress
<1>7. CASE \/ StartForward \/ ForwardsUp \/ ForwardFails \/ TraceFails
           \/ SpanRaises \/ Exit \/ Deliver \/ UNCHANGED vars
  BY <1>1, <1>7 DEF StartForward, ForwardsUp, ForwardFails, TraceFails,
     SpanRaises, Exit, Deliver, Escape, vars
<1>8. ASSUME NEW n, OpenSpan(n, "work") PROVE Progress'
  BY <1>1, <1>8 DEF OpenSpan
<1>9. ASSUME NEW a \in Agents,
             Work(a) \/ Emit(a) \/ EmitRaises(a) \/ Handle(a) \/ HandlerRaises(a)
      PROVE  Progress'
  <2>1. node # "reporter" /\ UNCHANGED <<status, last, scores, node, report>>
    BY <1>9, PipelineFacts DEF Work, Emit, EmitRaises, Handle, HandlerRaises, Escape
  <2> QED BY <1>1, <2>1
<1>10. ASSUME NEW a \in Agents, AgentStep(a) PROVE Progress'
  BY <1>4, <1>8, <1>9, <1>10, Zenon DEF AgentStep
<1> QED BY <1>2, <1>3, <1>5, <1>6, <1>7, <1>8, <1>10, Zenon DEF SquadNext, Process

\* A zero score is handed out only on the way to an ERROR state.
LEMMA TruthfulStep ==
    ASSUME TypeOK, Phases, Truthful, delivered \subseteq emitted,
           [SquadNext]_vars
    PROVE  Truthful' /\ (delivered \subseteq emitted)'
<1> DEFINE Goal == Truthful' /\ (delivered \subseteq emitted)'
<1> USE DEF Truthful, mainVars, stateVars, At
<1>1. ASSUME UNCHANGED <<emitted, delivered, status, node, outcome>>,
             step' = step \/ step # "leave"
      PROVE  Goal
  BY <1>1
<1>2. CASE \/ StartForward \/ ForwardsUp \/ ForwardFails \/ TraceFails
           \/ SpanRaises \/ Exit \/ UNCHANGED vars
  BY <1>1, <1>2 DEF StartForward, ForwardsUp, ForwardFails, TraceFails,
     SpanRaises, Exit, Escape, vars
<1>3. CASE InvokeGraph \/ Orchestrate
  <2>1. node \notin Agents /\ UNCHANGED <<emitted, delivered>>
    <3>1. CASE InvokeGraph
      BY <3>1, PipelineFacts DEF InvokeGraph, Phases
    <3>2. CASE Orchestrate
      BY <3>2, PipelineFacts DEF Orchestrate
    <3> QED BY <1>3, <3>1, <3>2
  <2>2. status = "ERROR" => status' = "ERROR"
    BY <1>3 DEF InvokeGraph, Orchestrate
  <2> QED BY <2>1, <2>2
<1>4. ASSUME NEW n, OpenSpan(n, "work") PROVE Goal
  BY <1>1, <1>4 DEF OpenSpan
<1>5. ASSUME NEW a \in Agents, Work(a) \/ EmitRaises(a) \/ HandlerRaises(a)
      PROVE  Goal
  BY <1>1, <1>5 DEF Work, EmitRaises, HandlerRaises, Escape
<1>6. ASSUME NEW a \in Agents, Emit(a) PROVE Goal
  <2>1. \A s \in emitted' : s \in emitted \/ s.good
    BY <1>6 DEF Emit, EmitScore
  <2>2. /\ emitted \subseteq emitted' /\ delivered' = delivered
        /\ status' = status /\ step = "emit"
    BY <1>6 DEF Emit, EmitScore
  <2> QED BY <2>1, <2>2
<1>7. ASSUME NEW a \in Agents, Handle(a) PROVE Goal
  <2>1. node' \in Agents /\ step' = "leave" /\ outcome' = "error"
    BY <1>7 DEF Handle
  <2>2. emitted \subseteq emitted' /\ delivered' = delivered
    BY <1>7 DEF Handle, EmitScore
  <2> QED BY <2>1, <2>2
<1>8. ASSUME NEW a \in Agents, Return(a) PROVE Goal
  BY <1>8 DEF Return
<1>9. CASE Deliver
  <2>1. delivered' \subseteq emitted
    BY <1>9 DEF Deliver
  <2> QED BY <1>9, <2>1 DEF Deliver
<1>10. CASE Report \/ EndGraph
  BY <1>10, PipelineFacts DEF Report, EndGraph
<1>11. ASSUME NEW a \in Agents, AgentStep(a) PROVE Goal
  BY <1>4, <1>5, <1>6, <1>7, <1>8, <1>11, Zenon DEF AgentStep
<1> QED BY <1>2, <1>3, <1>4, <1>9, <1>10, <1>11, Zenon DEF SquadNext, Process

\* A report of success shows good scores only.
LEMMA GreenReportStep ==
    ASSUME SquadInv, [SquadNext]_vars PROVE GreenReport'
<1>1. CASE UNCHANGED report
  BY <1>1 DEF SquadInv, GreenReport
<1>2. CASE Report
  <2> SUFFICES ASSUME report'.status = "SUCCESS", NEW s \in report'.shown
               PROVE  s.good
    BY DEF GreenReport
  <2>1. /\ status = "SUCCESS" /\ node = "reporter"
        /\ s \in delivered \/ s \in StateScores
    <3>1. report'.status = status /\ node = "reporter"
      BY <1>2 DEF Report, SlackReport, At
    <3>2. report'.shown = delivered \/ report'.shown = {}
             \/ report'.shown = StateScores
      BY <1>2 DEF Report, SlackReport, Fetched
    <3> QED BY <3>1, <3>2
  <2>2. PassedFirst(4)
    BY <2>1 DEF SquadInv, Progress
  <2>3. \A a \in Agents : Passed(a)
    BY <2>2 DEF PassedFirst, Agents
  <2>4. \A n \in ScoreNames : scores[n] = "good"
    BY <2>3, ScoresArePartitioned DEF Passed
  <2>5. CASE s \in delivered
    BY <2>1, <2>5, PipelineFacts DEF SquadInv, Truthful
  <2>6. CASE s \in StateScores
    <3>1. PICK n \in ScoreNames : s = [name |-> n, good |-> scores[n] = "good"]
      BY <2>6 DEF StateScores
    <3>2. (scores[n] = "good") = TRUE
      BY <2>4
    <3>3. s = [name |-> n, good |-> TRUE]
      BY <3>1, <3>2
    <3> QED BY <3>3
  <2> QED BY <2>1, <2>5, <2>6
<1>3. report' = report \/ Report
  BY DEF SquadNext, Process, AgentStep, StartForward, ForwardsUp, ForwardFails,
     InvokeGraph, TraceFails, SpanRaises, Orchestrate, OpenSpan, Work, Emit,
     EmitRaises, Handle, HandlerRaises, Return, Deliver, EndGraph, Exit, Escape,
     vars, stateVars
<1> QED BY <1>1, <1>2, <1>3

\* SquadInv is inductive: its parts hold after a step because they all held
\* before it.
THEOREM SquadInvInductive ==
    ASSUME SquadInv, [SquadNext]_vars PROVE SquadInv'
  BY SquadTypeStep, PhasesStep, ProgressStep, TruthfulStep, GreenReportStep
     DEF SquadInv

\* SquadInv holds when main starts.
LEMMA SquadInvInit == SquadInit => SquadInv
<1> SUFFICES ASSUME SquadInit PROVE SquadInv
  OBVIOUS
<1> USE DEF SquadInit
<1>1. TypeOK
  BY SquadConstants DEF TypeOK, NoReport, Score, Running
<1>2. Phases
  BY DEF Phases, Running
<1>3. Progress
  <2>1. \A a \in Agents : ~Passed(a)
    BY ScoresArePartitioned DEF Passed
  <2>2. PassedFirst(0)
    BY <2>1 DEF PassedFirst, Agents
  <2>3. Healthy(0)
    BY <2>2 DEF Healthy, LastIs
  <2> QED BY <2>3, PipelineFacts DEF Progress
<1>4. Truthful /\ delivered \subseteq emitted /\ GreenReport
  BY DEF Truthful, GreenReport, NoReport
<1> QED BY <1>1, <1>2, <1>3, <1>4 DEF SquadInv

\* SquadInv holds in every reachable state of a run, whichever call raises.
THEOREM SquadInvariance == SquadSpec => []SquadInv
<1>1. SquadInit => SquadInv
  BY SquadInvInit
<1>2. SquadInv /\ [SquadNext]_vars => SquadInv'
  BY SquadInvInductive
<1> QED BY <1>1, <1>2, PTL DEF SquadSpec

-----------------------------------------------------------------------------
(* What follows from the invariant.                                        *)

\* Type correctness.
THEOREM SquadTypes == SquadSpec => []TypeOK
<1>1. SquadInv => TypeOK
  BY DEF SquadInv
<1> QED BY <1>1, SquadInvariance, PTL

\* An agent runs only after exactly the agents before it have passed.
THEOREM Delegation == SquadSpec => []DelegatedInOrder
<1>1. SquadInv => DelegatedInOrder
  <2> SUFFICES ASSUME SquadInv, NEW i \in 1..4, node = Pipeline[i]
               PROVE  /\ status = "RUNNING" /\ report = NoReport
                      /\ last = IF i = 1 THEN "none" ELSE Pipeline[i - 1]
                      /\ \A j \in 1..4 : Passed(Pipeline[j]) <=> j < i
    BY DEF DelegatedInOrder
  <2>1. Healthy(i - 1)
    BY DEF SquadInv, Progress
  <2>2. report = NoReport
    BY PipelineFacts DEF SquadInv, Progress
  <2>3. \A j \in 1..4 : j <= i - 1 <=> j < i
    OBVIOUS
  <2>4. last = IF i = 1 THEN "none" ELSE Pipeline[i - 1]
    BY <2>1 DEF Healthy, LastIs
  <2>5. \A j \in 1..4 : Passed(Pipeline[j]) <=> j < i
    BY <2>1, <2>3 DEF Healthy, PassedFirst
  <2> QED BY <2>1, <2>2, <2>4, <2>5 DEF Healthy
<1> QED BY <1>1, SquadInvariance, PTL

\* Exit code 0 means that every agent passed and that the report says so.
THEOREM ExitZeroIsTrustworthy == SquadSpec => []ExitZeroMeansAllPassed
<1>1. SquadInv => ExitZeroMeansAllPassed
  <2> SUFFICES ASSUME SquadInv, exit = 0
               PROVE  (\A a \in Agents : Passed(a)) /\ report.status = "SUCCESS"
    BY DEF ExitZeroMeansAllPassed
  <2>1. node = "END" /\ status = "SUCCESS"
    BY DEF SquadInv, Phases
  <2>2. PassedFirst(4) /\ report.status = "SUCCESS"
    BY <2>1 DEF SquadInv, Progress
  <2> QED BY <2>2 DEF PassedFirst, Agents
<1> QED BY <1>1, SquadInvariance, PTL

\* A report of success shows no failed score.
THEOREM GreenReportIsGreen == SquadSpec => []GreenReport
<1>1. SquadInv => GreenReport
  BY DEF SquadInv
<1> QED BY <1>1, SquadInvariance, PTL

-----------------------------------------------------------------------------
(* The refinement: a return is PassStage or FailRun, the router's last     *)
(* decision is PassRun, an exception that leaves the graph is FailRun, and *)
(* everything else stutters.                                               *)

PassedSet == {a \in Agents : Passed(a)}

Verdict ==
    IF status = "SUCCESS" THEN "passed"
    ELSE IF status = "ERROR" \/ exit = 1 THEN "failed"
    ELSE "open"

\* Steps that leave the state of the graph alone and at most end the process.
LEMMA EndingRefined ==
    ASSUME SquadInv, UNCHANGED <<status, scores>>,
           exit' = exit \/ exit' = 1 \/ status \in {"SUCCESS", "ERROR"}
    PROVE  \/ AbstractPipeline!FailRun
           \/ UNCHANGED AbstractPipeline!pipelineVars
<1>1. PassedSet' = PassedSet
  BY DEF PassedSet, Passed
<1>2. Verdict' = Verdict \/ (Verdict = "open" /\ Verdict' = "failed")
  BY DEF Verdict, SquadInv, TypeOK
<1> QED BY <1>1, <1>2 DEF PassedSet, Verdict, AbstractPipeline!FailRun,
           AbstractPipeline!pipelineVars

\* The return of an agent passes its stage or fails the run.
LEMMA ReturnRefined ==
    ASSUME SquadInv, NEW a \in Agents, Return(a)
    PROVE  AbstractPipeline!PipelineNext
<1>1. PICK i \in 1..4 : a = Pipeline[i]
  BY DEF Agents
<1>2. Healthy(i - 1)
  BY <1>1 DEF Return, At, SquadInv, Progress
<1>3. Verdict = "open" /\ exit' = exit
  BY <1>2 DEF Verdict, Healthy, Return, At, SquadInv, Phases, Running, mainVars
<1>4. PassedSet = {Pipeline[j] : j \in 1..(i - 1)}
  <2>1. \A j \in 1..4 : Passed(Pipeline[j]) <=> j <= i - 1
    BY <1>2 DEF Healthy, PassedFirst
  <2> QED BY <2>1 DEF PassedSet, Agents
<1>5. CASE outcome = "ok"
  <2>1. PassedSet' = PassedSet \union {Pipeline[i]}
    <3>1. \A b \in Agents : Passed(b)' <=> b = a \/ Passed(b)
      BY <1>5, ReturnPasses DEF SquadInv
    <3> QED BY <1>1, <3>1 DEF PassedSet
  <2>2. Verdict' = Verdict
    BY <1>2, <1>3, <1>5 DEF Verdict, Return, Healthy
  <2>3. AbstractPipeline!Before(i) = PassedSet
    BY <1>4 DEF AbstractPipeline!Before
  <2>4. AbstractPipeline!PassStage(i)
    BY <1>3, <2>1, <2>2, <2>3 DEF AbstractPipeline!PassStage, PassedSet, Verdict
  <2>5. i \in 1..Len(Pipeline)
    BY DEF Pipeline
  <2> QED BY <2>4, <2>5 DEF AbstractPipeline!PipelineNext
<1>6. CASE outcome = "error"
  <2>1. PassedSet' = PassedSet
    <3>1. ~Passed(a)
      BY <1>1, <1>2 DEF Healthy, PassedFirst
    <3>2. \A b \in Agents : Passed(b)' <=> Passed(b)
      BY <1>6, <3>1, ReturnPasses DEF SquadInv
    <3> QED BY <3>2 DEF PassedSet
  <2>2. Verdict' = "failed"
    BY <1>6 DEF Verdict, Return
  <2> QED BY <1>3, <2>1, <2>2 DEF PassedSet, Verdict, AbstractPipeline!FailRun,
             AbstractPipeline!PipelineNext
<1> QED BY <1>5, <1>6 DEF SquadInv, TypeOK

\* The router passes the run when the last agent has passed.
LEMMA OrchestrateRefined ==
    ASSUME SquadInv, Orchestrate
    PROVE  \/ AbstractPipeline!PipelineNext
           \/ UNCHANGED AbstractPipeline!pipelineVars
<1>1. PassedSet' = PassedSet /\ exit' = exit
  BY DEF PassedSet, Passed, Orchestrate, mainVars
<1>2. CASE Healthy(4)
  <2>1. Verdict = "open" /\ Verdict' = "passed"
    BY <1>2, PipelineFacts DEF Verdict, Healthy, LastIs, Orchestrate, SquadInv,
       Phases, Running
  <2>2. PassedSet = {Pipeline[j] : j \in 1..Len(Pipeline)}
    <3>1. \A j \in 1..4 : Passed(Pipeline[j])
      BY <1>2 DEF Healthy, PassedFirst
    <3>2. Len(Pipeline) = 4
      BY DEF Pipeline
    <3> QED BY <3>1, <3>2 DEF PassedSet, Agents
  <2> QED BY <1>1, <2>1, <2>2 DEF PassedSet, Verdict, AbstractPipeline!PassRun,
             AbstractPipeline!PipelineNext
<1>3. CASE ~Healthy(4)
  <2>1. status' = status
    <3>1. (\E k \in 0..3 : Healthy(k)) \/ status = "ERROR"
      <4>1. \A k \in 0..4 : k \in 0..3 \/ k = 4
        OBVIOUS
      <4> QED BY <1>3, <4>1 DEF Orchestrate, SquadInv, Progress, Broken
    <3>2. ASSUME NEW k \in 0..3, Healthy(k)
          PROVE  last # "gold" /\ last \in Agents \union {"none"}
      BY <3>2, PipelineFacts DEF Healthy, LastIs
    <3> QED BY <3>1, <3>2 DEF Orchestrate
  <2>2. Verdict' = Verdict
    BY <1>1, <2>1 DEF Verdict
  <2> QED BY <1>1, <2>2 DEF PassedSet, Verdict, AbstractPipeline!pipelineVars
<1> QED BY <1>2, <1>3

\* Every step of the squad is a step of the fail-fast pipeline or a stutter.
LEMMA SquadStepRefined ==
    ASSUME SquadInv, [SquadNext]_vars
    PROVE  [AbstractPipeline!PipelineNext]_(AbstractPipeline!pipelineVars)
<1>1. CASE \/ StartForward \/ ForwardsUp \/ ForwardFails \/ InvokeGraph
           \/ TraceFails \/ SpanRaises \/ Report \/ EndGraph \/ Deliver
           \/ UNCHANGED vars
  <2>1. UNCHANGED <<status, scores>> /\ (exit' = exit \/ exit' = 1)
    BY <1>1 DEF StartForward, ForwardsUp, ForwardFails, InvokeGraph, TraceFails,
       SpanRaises, Report, EndGraph, Deliver, Escape, vars, mainVars, stateVars
  <2> QED BY <2>1, EndingRefined DEF AbstractPipeline!PipelineNext
<1>2. CASE Exit
  <2>1. UNCHANGED <<status, scores>> /\ status \in {"SUCCESS", "ERROR"}
    BY <1>2 DEF Exit, stateVars, SquadInv, Progress
  <2> QED BY <2>1, EndingRefined DEF AbstractPipeline!PipelineNext
<1>3. ASSUME NEW n, OpenSpan(n, "work")
      PROVE  [AbstractPipeline!PipelineNext]_(AbstractPipeline!pipelineVars)
  <2>1. UNCHANGED <<status, scores>> /\ exit' = exit
    BY <1>3 DEF OpenSpan, mainVars, stateVars
  <2> QED BY <2>1, EndingRefined DEF AbstractPipeline!PipelineNext
<1>4. ASSUME NEW a \in Agents, AgentStep(a)
      PROVE  [AbstractPipeline!PipelineNext]_(AbstractPipeline!pipelineVars)
  <2>1. CASE Return(a)
    BY <2>1, ReturnRefined
  <2>2. CASE \/ Work(a) \/ Emit(a) \/ EmitRaises(a) \/ Handle(a)
             \/ HandlerRaises(a)
    <3>1. UNCHANGED <<status, scores>> /\ (exit' = exit \/ exit' = 1)
      BY <2>2 DEF Work, Emit, EmitRaises, Handle, HandlerRaises, Escape,
         mainVars, stateVars
    <3> QED BY <3>1, EndingRefined DEF AbstractPipeline!PipelineNext
  <2> QED BY <1>3, <1>4, <2>1, <2>2, Zenon DEF AgentStep
<1> QED BY <1>1, <1>2, <1>3, <1>4, OrchestrateRefined DEF SquadNext, Process

\* The squad implements the fail-fast pipeline.
THEOREM SquadIsFailFast == SquadSpec => ImplementsFailFast
<1>1. SquadInit => AbstractPipeline!PipelineInit
  <2> SUFFICES ASSUME SquadInit PROVE AbstractPipeline!PipelineInit
    OBVIOUS
  <2>1. \A a \in Agents : ~Passed(a)
    BY ScoresArePartitioned DEF Passed, SquadInit
  <2> QED BY <2>1 DEF SquadInit, Running, AbstractPipeline!PipelineInit
<1>2. SquadInv /\ [SquadNext]_vars
         => [AbstractPipeline!PipelineNext]_(AbstractPipeline!pipelineVars)
  BY SquadStepRefined
<1> QED BY <1>1, <1>2, SquadInvariance, PTL
        DEF SquadSpec, ImplementsFailFast, AbstractPipeline!FailFastSpec
-----------------------------------------------------------------------------
(* A failure is shown.                                                     *)

\* An ERROR state carries the zero score of the node that failed.
FailureRecorded == status = "ERROR" => \E n \in ScoreNames : scores[n] = "zero"

\* Only the return of a failing agent sets ERROR, and it sets its own scores
\* to zero; the router never does, because it always finds a state it knows.
LEMMA FailureRecordedStep ==
    ASSUME SquadInv, FailureRecorded, [SquadNext]_vars PROVE FailureRecorded'
<1>1. ASSUME UNCHANGED <<status, scores>> PROVE FailureRecorded'
  BY <1>1 DEF FailureRecorded
<1>2. CASE Orchestrate
  <2>1. scores' = scores
    BY <1>2 DEF Orchestrate
  <2>2. status' = "ERROR" => status = "ERROR"
    <3>1. (\E k \in 0..4 : Healthy(k)) \/ status = "ERROR"
      BY <1>2 DEF Orchestrate, SquadInv, Progress, Broken
    <3>2. ASSUME NEW k \in 0..4, Healthy(k)
          PROVE  status = "RUNNING" /\ last \in Agents \union {"none"}
      BY <3>2, PipelineFacts DEF Healthy, LastIs
    <3> QED BY <1>2, <3>1, <3>2 DEF Orchestrate
  <2> QED BY <2>1, <2>2 DEF FailureRecorded
<1>3. ASSUME NEW a \in Agents, Return(a) PROVE FailureRecorded'
  <2>1. status = "RUNNING"
    <3>1. PICK i \in 1..4 : a = Pipeline[i]
      BY DEF Agents
    <3>2. Healthy(i - 1)
      BY <1>3, <3>1 DEF Return, At, SquadInv, Progress
    <3> QED BY <3>2 DEF Healthy
  <2>2. CASE outcome = "error"
    <3>1. PICK n \in ScoreNames : n \in OwnScores(a)
      BY ScoresArePartitioned
    <3>2. scores'[n] = "zero"
      BY <1>3, <2>2, <3>1 DEF Return
    <3> QED BY <3>2 DEF FailureRecorded
  <2>3. CASE outcome # "error"
    BY <1>3, <2>1, <2>3 DEF Return, FailureRecorded
  <2> QED BY <2>2, <2>3
<1>4. CASE \/ StartForward \/ ForwardsUp \/ ForwardFails \/ InvokeGraph
           \/ TraceFails \/ SpanRaises \/ Report \/ EndGraph \/ Deliver \/ Exit
           \/ UNCHANGED vars
  BY <1>1, <1>4 DEF StartForward, ForwardsUp, ForwardFails, InvokeGraph,
     TraceFails, SpanRaises, Report, EndGraph, Deliver, Exit, Escape, vars, stateVars
<1>5. ASSUME NEW n, OpenSpan(n, "work") PROVE FailureRecorded'
  BY <1>1, <1>5 DEF OpenSpan, stateVars
<1>6. ASSUME NEW a \in Agents, AgentStep(a) PROVE FailureRecorded'
  <2>1. CASE Work(a) \/ Emit(a) \/ EmitRaises(a) \/ Handle(a) \/ HandlerRaises(a)
    BY <1>1, <2>1 DEF Work, Emit, EmitRaises, Handle, HandlerRaises, Escape, stateVars
  <2> QED BY <1>3, <1>5, <1>6, <2>1, Zenon DEF AgentStep
<1> QED BY <1>2, <1>4, <1>5, <1>6, Zenon DEF SquadNext, Process

\* The report of a failed run shows a zero score, or only what Langfuse had
\* received by then, all of it good.
LEMMA ReportShowsFailure ==
    ASSUME SquadInv, FailureRecorded, Report, report'.status = "ERROR"
    PROVE  \/ \E s \in report'.shown : ~s.good
           \/ delivered # {} /\ \A s \in delivered : s.good
<1>1. status = "ERROR"
  BY DEF Report, SlackReport
<1>2. PICK n \in ScoreNames : scores[n] = "zero"
  BY <1>1 DEF FailureRecorded
<1>3. \E s \in StateScores : ~s.good
  <2> DEFINE z == [name |-> n, good |-> scores[n] = "good"]
  <2>1. z \in StateScores
    BY <1>2 DEF StateScores
  <2>2. ~z.good
    BY <1>2
  <2> QED BY <2>1, <2>2
<1>4. report'.shown = StateScores \/ (delivered # {} /\ report'.shown = delivered)
  BY DEF Report, SlackReport, Fetched
<1> QED BY <1>3, <1>4

\* A failure is shown: a report of ERROR shows a zero score, unless Langfuse
\* has received other scores of the run and that one not yet (format_slack_report
\* prefers what the server has to what the state says).
THEOREM FailureIsShown == SquadSpec => RedReport
<1> DEFINE Shown == (report = NoReport /\ report'.status = "ERROR") =>
                       \/ \E s \in report'.shown : ~s.good
                       \/ delivered # {} /\ \A s \in delivered : s.good
<1>1. SquadInit => FailureRecorded
  BY DEF SquadInit, FailureRecorded
<1>2. SquadInv /\ FailureRecorded /\ [SquadNext]_vars => FailureRecorded'
  BY FailureRecordedStep
<1>3. SquadInv /\ FailureRecorded /\ [SquadNext]_vars => [Shown]_vars
  <2> SUFFICES ASSUME SquadInv, FailureRecorded, [SquadNext]_vars,
                      report = NoReport, report'.status = "ERROR"
               PROVE  \/ \E s \in report'.shown : ~s.good
                      \/ delivered # {} /\ \A s \in delivered : s.good
    OBVIOUS
  <2>1. report' # report
    BY DEF NoReport
  <2>2. report' = report \/ Report
    BY DEF SquadNext, Process, AgentStep, StartForward, ForwardsUp, ForwardFails,
       InvokeGraph, TraceFails, SpanRaises, Orchestrate, OpenSpan, Work, Emit,
       EmitRaises, Handle, HandlerRaises, Return, Deliver, EndGraph, Exit, Escape,
       vars, stateVars
  <2> QED BY <2>1, <2>2, ReportShowsFailure
<1> QED BY <1>1, <1>2, <1>3, SquadInvariance, PTL DEF SquadSpec, RedReport
-----------------------------------------------------------------------------
(* Every run is short: what remains to be done is a number that each step  *)
(* of the process makes smaller.                                           *)

\* Agents of the pipeline after agent `a`, and agents the router may still call.
After == [infra |-> 3, data_source |-> 2, spark |-> 1, gold |-> 0]
AgentsLeft ==
    IF status = "ERROR" THEN 0 ELSE IF last = "none" THEN 4 ELSE After[last]

\* Steps an agent may still take.
AgentSteps ==
    CASE step = "enter" -> 7
      [] step = "work" -> 6
      [] step = "emit" -> 5 - emits
      [] step = "handler" -> 3
      [] OTHER -> 2

ReporterSteps ==
    CASE step = "enter" -> 4 [] step = "work" -> 3 [] OTHER -> 2

GraphSteps ==
    CASE node = "END" -> 1
      [] node = "reporter" -> ReporterSteps
      [] node = "orchestrator" -> 5 + 8 * AgentsLeft
      [] OTHER -> 5 + 8 * After[node] + AgentSteps

StepsLeft ==
    CASE pc = "forward" -> 40 + (NServices - forwards)
      [] pc = "trace" -> 39
      [] pc = "graph" -> GraphSteps
      [] OTHER -> 0

\* Nodes LangGraph may still enter, END included.
NodesLeft ==
    CASE node = "none" -> 11
      [] node = "orchestrator" -> 2 + 2 * AgentsLeft
      [] node = "reporter" -> 1
      [] node = "END" -> 0
      [] OTHER -> 3 + 2 * After[node]

\* At the router, what is left follows from what it decides next.
LEMMA RouterCountsDown ==
    ASSUME SquadInv, node = "orchestrator"
    PROVE  /\ AgentsLeft \in 0..4
           /\ \/ NextAgent = "reporter"
              \/ /\ NextAgent \in Agents
                 /\ After[NextAgent] + 1 = AgentsLeft
<1>1. CASE status = "ERROR"
  BY <1>1, NextAgentFacts DEF AgentsLeft
<1>2. CASE status # "ERROR"
  <2>1. PICK k \in 0..4 : Healthy(k)
    BY <1>2 DEF SquadInv, Progress, Broken
  <2>2. k = 0 \/ k = 1 \/ k = 2 \/ k = 3 \/ k = 4
    OBVIOUS
  <2>3. last = IF k = 0 THEN "none" ELSE Pipeline[k]
    BY <2>1 DEF Healthy, LastIs
  <2>4. AgentsLeft = 4 - k
    BY <1>2, <2>2, <2>3, PipelineFacts DEF AgentsLeft, After
  <2>5. CASE k = 4
    BY <2>1, <2>4, <2>5, NextAgentFacts
  <2>6. CASE k # 4
    <3>1. k \in 0..3 /\ NextAgent = Pipeline[k + 1]
      BY <2>1, <2>6, NextAgentFacts
    <3>2. After[Pipeline[k + 1]] = 3 - k /\ Pipeline[k + 1] \in Agents
      BY <2>2, <2>6, PipelineFacts DEF After
    <3> QED BY <2>4, <3>1, <3>2
  <2> QED BY <2>5, <2>6
<1> QED BY <1>1, <1>2

\* An agent has at most three others after it, and is none of the other nodes.
LEMMA AgentFacts ==
    ASSUME NEW a \in Agents
    PROVE  /\ After[a] \in 0..3
           /\ a \notin {"none", "orchestrator", "reporter", "END"}
  BY PipelineFacts DEF After

\* An agent that has begun is a few steps from its end.
LEMMA AgentStepsType == TypeOK => AgentSteps \in 2..7
<1> SUFFICES ASSUME TypeOK PROVE AgentSteps \in 2..7
  OBVIOUS
<1>1. emits \in 0..2 /\ step \in {"enter", "work", "emit", "handler", "leave"}
  BY DEF TypeOK
<1>2. 5 - emits \in 2..7
  BY <1>1
<1> QED BY <1>1, <1>2 DEF AgentSteps

\* What is left is a natural number, and bounded by the services forwarded.
LEMMA StepsLeftType ==
    SquadInv => StepsLeft \in 0..(40 + NServices) /\ NodesLeft \in 0..11
<1> SUFFICES ASSUME SquadInv
             PROVE  StepsLeft \in 0..(40 + NServices) /\ NodesLeft \in 0..11
  OBVIOUS
<1> USE SquadConstants DEF SquadInv
<1>1. /\ node \in Agents \union {"none", "orchestrator", "reporter", "END"}
      /\ pc \in {"forward", "trace", "graph", "exited"} /\ forwards \in 0..NServices
  BY DEF TypeOK
<1>2. pc = "graph" => node # "none"
  BY DEF Phases
<1>3. CASE node \in Agents
  <2>1. After[node] \in 0..3 /\ AgentSteps \in 2..7
    BY <1>3, AgentFacts, AgentStepsType
  <2>2. GraphSteps = 5 + 8 * After[node] + AgentSteps
    BY <1>3, AgentFacts DEF GraphSteps
  <2>3. NodesLeft = 3 + 2 * After[node]
    BY <1>3, AgentFacts DEF NodesLeft
  <2> HIDE DEF SquadInv
  <2> QED BY <1>1, <2>1, <2>2, <2>3 DEF StepsLeft
<1>4. CASE node = "orchestrator"
  <2>1. AgentsLeft \in 0..4
    BY <1>4, RouterCountsDown
  <2> QED BY <1>1, <1>4, <2>1 DEF StepsLeft, GraphSteps, NodesLeft
<1>5. CASE node \in {"none", "reporter", "END"}
  BY <1>1, <1>2, <1>5 DEF StepsLeft, GraphSteps, ReporterSteps, NodesLeft
<1> QED BY <1>1, <1>3, <1>4, <1>5

\* A step leaves less to be done, and enters a node only if one was left.
CountsDown ==
    /\ StepsLeft' < StepsLeft
    /\ node' # node => NodesLeft' < NodesLeft

LEMMA OrchestrateCountsDown == ASSUME SquadInv, Orchestrate PROVE CountsDown
<1>1. /\ pc = "graph" /\ pc' = "graph" /\ node = "orchestrator"
      /\ node' = NextAgent /\ step' = "enter"
  BY DEF Orchestrate, Enter, mainVars
<1>2. /\ AgentsLeft \in 0..4
      /\ NextAgent = "reporter" \/ (/\ NextAgent \in Agents
                                    /\ After[NextAgent] + 1 = AgentsLeft)
  BY <1>1, RouterCountsDown
<1>3. StepsLeft = 5 + 8 * AgentsLeft /\ NodesLeft = 2 + 2 * AgentsLeft
  BY <1>1 DEF StepsLeft, GraphSteps, NodesLeft
<1>4. CASE NextAgent = "reporter"
  <2>1. StepsLeft' = 4 /\ NodesLeft' = 1
    BY <1>1, <1>4 DEF StepsLeft, GraphSteps, ReporterSteps, NodesLeft
  <2> QED BY <1>2, <1>3, <2>1 DEF CountsDown
<1>5. CASE NextAgent # "reporter"
  <2>1. /\ node' \in Agents
        /\ node' \notin {"none", "orchestrator", "reporter", "END"}
        /\ After[node'] \in 0..3
    BY <1>1, <1>2, <1>5, AgentFacts
  <2>2. StepsLeft' = 5 + 8 * After[node'] + 7
    BY <1>1, <2>1 DEF StepsLeft, GraphSteps, AgentSteps
  <2>3. NodesLeft' = 3 + 2 * After[node']
    BY <2>1 DEF NodesLeft
  <2>4. After[node'] + 1 = AgentsLeft
    BY <1>1, <1>2, <1>5
  <2> QED BY <1>2, <1>3, <2>1, <2>2, <2>3, <2>4 DEF CountsDown
<1> QED BY <1>4, <1>5

LEMMA ReturnCountsDown ==
    ASSUME SquadInv, NEW a \in Agents, Return(a) PROVE CountsDown
<1>1. /\ pc = "graph" /\ pc' = "graph" /\ node = a /\ step = "leave"
      /\ node' = "orchestrator" /\ last' = a
  BY DEF Return, At, Enter, mainVars
<1>2. After[a] \in 0..3 /\ a \notin {"none", "orchestrator", "reporter", "END"}
  BY AgentFacts
<1>3. StepsLeft = 5 + 8 * After[a] + 2 /\ NodesLeft = 3 + 2 * After[a]
  BY <1>1, <1>2 DEF StepsLeft, GraphSteps, AgentSteps, NodesLeft
<1>4. AgentsLeft' = 0 \/ AgentsLeft' = After[a]
  BY <1>1, <1>2 DEF AgentsLeft
<1>5. StepsLeft' = 5 + 8 * AgentsLeft' /\ NodesLeft' = 2 + 2 * AgentsLeft'
  BY <1>1 DEF StepsLeft, GraphSteps, NodesLeft
<1> QED BY <1>2, <1>3, <1>4, <1>5 DEF CountsDown

LEMMA AgentCountsDown ==
    ASSUME SquadInv, NEW a \in Agents,
           OpenSpan(a, "work") \/ Work(a) \/ Emit(a) \/ EmitRaises(a) \/ Handle(a)
    PROVE  CountsDown
<1>1. /\ pc = "graph" /\ pc' = "graph" /\ node = a /\ node' = a
  BY DEF OpenSpan, Work, Emit, EmitRaises, Handle, At, mainVars
<1>2. After[a] \in 0..3 /\ a \notin {"none", "orchestrator", "reporter", "END"}
  BY AgentFacts
<1>3. /\ StepsLeft = 5 + 8 * After[a] + AgentSteps
      /\ StepsLeft' = 5 + 8 * After[a] + AgentSteps'
  BY <1>1, <1>2 DEF StepsLeft, GraphSteps
<1>4. AgentSteps \in Nat /\ AgentSteps' \in Nat /\ AgentSteps' < AgentSteps
  <2>1. CASE OpenSpan(a, "work")
    BY <2>1 DEF OpenSpan, At, AgentSteps
  <2>2. CASE Work(a)
    <3>1. emits = 0 /\ emits' = 0 /\ step = "work" /\ step' \in {"emit", "handler"}
      BY <2>2 DEF Work, At, SquadInv, Phases
    <3> QED BY <3>1 DEF AgentSteps
  <2>3. CASE Emit(a) \/ EmitRaises(a)
    <3>1. step = "emit" /\ emits \in 0..1
      <4>1. step = "emit"
        BY <2>3 DEF Emit, EmitRaises, At
      <4>2. emits \in 0..2 /\ emits < Len(ScoresOf[a])
        BY <1>1, <4>1 DEF SquadInv, TypeOK, Phases
      <4>3. Len(ScoresOf[a]) \in 1..2
        BY ScoreFacts
      <4>4. \A e \in 0..2, n \in 1..2 : e < n => e \in 0..1
        OBVIOUS
      <4> QED BY <4>1, <4>2, <4>3, <4>4
    <3>2. \/ step' = "emit" /\ emits' = emits + 1
          \/ step' \in {"leave", "handler"}
      BY <2>3 DEF Emit, EmitRaises
    <3> QED BY <3>1, <3>2 DEF AgentSteps
  <2>4. CASE Handle(a)
    BY <2>4 DEF Handle, At, AgentSteps
  <2> QED BY <2>1, <2>2, <2>3, <2>4
<1> QED BY <1>1, <1>2, <1>3, <1>4 DEF CountsDown

LEMMA ProcessCountsDown == ASSUME SquadInv, Process PROVE CountsDown
<1> USE SquadConstants
<1>1. CASE StartForward \/ ForwardsUp
  <2>1. forwards \in 0..NServices /\ node' = node
    BY <1>1 DEF SquadInv, TypeOK, StartForward, ForwardsUp
  <2> QED BY <1>1, <2>1 DEF StartForward, ForwardsUp, CountsDown, StepsLeft
<1>2. CASE ForwardFails \/ TraceFails \/ SpanRaises \/ Exit
           \/ \E a \in Agents : HandlerRaises(a)
  <2>1. pc' = "exited" /\ pc # "exited" /\ node' = node
    BY <1>2 DEF ForwardFails, TraceFails, SpanRaises, Exit, HandlerRaises, At, Escape
  <2>2. StepsLeft # 0
    <3>1. CASE pc = "graph" /\ node \in Agents
      <4>1. After[node] \in 0..3 /\ AgentSteps \in 2..7
        BY <3>1, AgentFacts, AgentStepsType DEF SquadInv
      <4> QED BY <3>1, <4>1, AgentFacts DEF StepsLeft, GraphSteps
    <3>2. CASE pc = "graph" /\ node = "orchestrator"
      BY <3>2, RouterCountsDown DEF StepsLeft, GraphSteps
    <3>3. CASE pc = "graph" /\ node \in {"reporter", "END"}
      BY <3>3 DEF StepsLeft, GraphSteps, ReporterSteps
    <3>4. CASE pc \in {"forward", "trace"}
      BY <3>4 DEF StepsLeft, SquadInv, TypeOK
    <3> QED BY <2>1, <3>1, <3>2, <3>3, <3>4 DEF SquadInv, TypeOK, Phases
  <2>3. StepsLeft' = 0
    BY <2>1 DEF StepsLeft
  <2>4. StepsLeft \in Nat
    BY StepsLeftType
  <2> QED BY <2>1, <2>2, <2>3, <2>4 DEF CountsDown
<1>3. CASE InvokeGraph
  <2>1. /\ pc = "trace" /\ pc' = "graph" /\ node = "none" /\ node' = "orchestrator"
    BY <1>3 DEF InvokeGraph, SquadInv, Phases
  <2>2. AgentsLeft' = 4
    <3>1. status = "RUNNING" /\ last = "none"
      BY <2>1 DEF SquadInv, Progress, Healthy, LastIs
    <3> QED BY <1>3, <3>1 DEF InvokeGraph, stateVars, AgentsLeft
  <2> QED BY <2>1, <2>2 DEF CountsDown, StepsLeft, GraphSteps, NodesLeft
<1>4. CASE OpenSpan("reporter", "work") \/ Report \/ EndGraph
  BY <1>4 DEF OpenSpan, Report, EndGraph, At, mainVars, CountsDown, StepsLeft,
     GraphSteps, ReporterSteps, NodesLeft
<1>5. ASSUME NEW a \in Agents, AgentStep(a) PROVE CountsDown
  <2>1. CASE HandlerRaises(a)
    BY <1>2, <2>1
  <2> QED BY <1>5, <2>1, AgentCountsDown, ReturnCountsDown DEF AgentStep
<1> QED BY <1>1, <1>2, <1>3, <1>4, <1>5, OrchestrateCountsDown, Zenon
        DEF Process

\* Whatever raises and however scores travel, the process takes at most
\* 40 + NServices steps, and the graph enters at most ten nodes and END, well
\* below LangGraph's recursion limit of 25.  With the fairness of
\* FairSquadSpec this is why the process ends.
THEOREM RunIsShort ==
    SquadSpec => /\ [](StepsLeft \in 0..(40 + NServices) /\ NodesLeft \in 0..11)
                 /\ [][Process => StepsLeft' < StepsLeft]_vars
                 /\ [][StepsLeft' # StepsLeft => Process]_vars
                 /\ [][node' # node => NodesLeft' < NodesLeft]_vars
<1>1. SquadInv => StepsLeft \in 0..(40 + NServices) /\ NodesLeft \in 0..11
  BY StepsLeftType
<1>2. SquadInv /\ [SquadNext]_vars => [Process => StepsLeft' < StepsLeft]_vars
  BY ProcessCountsDown DEF CountsDown
<1>3. SquadInv /\ [SquadNext]_vars => [node' # node => NodesLeft' < NodesLeft]_vars
  <2>1. Deliver => node' = node
    BY DEF Deliver
  <2> QED BY <2>1, ProcessCountsDown DEF CountsDown, SquadNext
<1>4. [SquadNext]_vars => [StepsLeft' # StepsLeft => Process]_vars
  <2>1. Deliver => StepsLeft' = StepsLeft
    BY DEF Deliver, mainVars, stateVars, StepsLeft, GraphSteps, AgentSteps,
       ReporterSteps, AgentsLeft
  <2> QED BY <2>1 DEF SquadNext
<1> QED BY <1>1, <1>2, <1>3, <1>4, SquadInvariance, PTL DEF SquadSpec
=============================================================================
