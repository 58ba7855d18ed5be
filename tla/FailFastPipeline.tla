-------------------------- MODULE FailFastPipeline --------------------------
(***************************************************************************)
(* What the E2E squad promises, with no graph, node or trace in sight:     *)
(* the stages are passed one after the other; the first failure settles    *)
(* the verdict and no further stage is passed; the verdict is "passed"     *)
(* only when every stage was.                                              *)
(***************************************************************************)
EXTENDS Naturals, Sequences

CONSTANT Stages     \* the stages, in order

VARIABLES
    passed,     \* the stages passed so far
    verdict     \* "open", "passed" or "failed"

pipelineVars == <<passed, verdict>>

Before(i) == {Stages[j] : j \in 1..(i - 1)}

PipelineInit ==
    /\ passed = {}
    /\ verdict = "open"

PassStage(i) ==
    /\ verdict = "open"
    /\ Before(i) = passed
    /\ passed' = passed \union {Stages[i]}
    /\ UNCHANGED verdict

FailRun ==
    /\ verdict = "open"
    /\ verdict' = "failed"
    /\ UNCHANGED passed

PassRun ==
    /\ verdict = "open"
    /\ passed = {Stages[i] : i \in 1..Len(Stages)}
    /\ verdict' = "passed"
    /\ UNCHANGED passed

PipelineNext ==
    \/ \E i \in 1..Len(Stages) : PassStage(i)
    \/ FailRun
    \/ PassRun

FailFastSpec == PipelineInit /\ [][PipelineNext]_pipelineVars
=============================================================================
