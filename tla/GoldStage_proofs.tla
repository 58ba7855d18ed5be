--------------------------- MODULE GoldStage_proofs ---------------------------
(***************************************************************************)
(* Proofs about the Gold agent, for any number of daily runs beside its    *)
(* own and whether or not Airflow executes a cleared run again.            *)
(*                                                                         *)
(* GoldInv counts the runs the agent has asked for at each of its phases:  *)
(* the retry is reached only from a run that was executed and failed, and  *)
(* nothing leads back to it.                                               *)
(***************************************************************************)
EXTENDS GoldStage, FiniteSetTheorems, TLAPS

\* What the agent has asked for, phase by phase.
Requested ==
    /\ phase = "trigger" => Ours = {}
    /\ phase \in {"poll", "clear", "retrigger"} => Ours = {waiting}
    /\ phase \in {"repoll", "count"} => waiting \in Ours
    /\ \E i, j \in Nat : Ours \subseteq {i, j}

\* A run that is not queued was executed, the one to be retried in particular,
\* and the one to be counted for has succeeded.
Executed ==
    /\ \A i \in DOMAIN runs : runs[i].state # "queued" => runs[i].tries > 0
    /\ phase \in {"clear", "retrigger"} => runs[waiting].tries > 0
    /\ phase = "count" => runs[waiting].state = "success"

\* The second request follows an execution of the first.
RetriedAfterRun == \A i, j \in Ours : i < j => runs[i].tries > 0

GoldInv == TypeOK /\ Requested /\ Executed /\ RetriedAfterRun

-----------------------------------------------------------------------------
\* A POST of a run appends it, queued and never executed.
LEMMA NewRunFacts ==
    ASSUME runs \in Seq(DagRun), NEW by \in {"agent", "schedule"}, runs' = NewRun(by)
    PROVE  /\ runs' \in Seq(DagRun)
           /\ Len(runs') = Len(runs) + 1
           /\ DOMAIN runs' = DOMAIN runs \union {Len(runs) + 1}
           /\ \A i \in DOMAIN runs : runs'[i] = runs[i] /\ i \in 1..Len(runs)
           /\ runs'[Len(runs) + 1] = [by |-> by, state |-> "queued", tries |-> 0]
           /\ Ours' = IF by = "agent" THEN Ours \union {Len(runs) + 1} ELSE Ours
<1> DEFINE r == [by |-> by, state |-> "queued", tries |-> 0]
<1>1. r \in DagRun /\ r.by = by
  BY DEF DagRun, RunStates
<1>2. runs' = Append(runs, r)
  BY DEF NewRun
<1> HIDE DEF r
<1>3. /\ runs' \in Seq(DagRun)
      /\ Len(runs') = Len(runs) + 1
      /\ DOMAIN runs' = DOMAIN runs \union {Len(runs) + 1}
      /\ \A i \in DOMAIN runs : runs'[i] = runs[i] /\ i \in 1..Len(runs)
      /\ runs'[Len(runs) + 1] = r
  BY <1>1, <1>2
<1>4. Ours' = IF by = "agent" THEN Ours \union {Len(runs) + 1} ELSE Ours
  BY <1>1, <1>3 DEF Ours
<1> QED BY <1>3, <1>4 DEF r

\* A step of Airflow keeps who asked for which run.
LEMMA RunChanged ==
    ASSUME runs \in Seq(DagRun), NEW i \in DOMAIN runs, NEW r \in DagRun,
           r.by = runs[i].by, runs' = [runs EXCEPT ![i] = r]
    PROVE  /\ runs' \in Seq(DagRun) /\ Len(runs') = Len(runs)
           /\ DOMAIN runs' = DOMAIN runs
           /\ runs'[i] = r
           /\ \A j \in DOMAIN runs : j # i => runs'[j] = runs[j]
           /\ Ours' = Ours
<1>1. /\ runs' \in Seq(DagRun) /\ Len(runs') = Len(runs)
      /\ DOMAIN runs' = DOMAIN runs
      /\ runs'[i] = r
      /\ \A j \in DOMAIN runs : j # i => runs'[j] = runs[j]
  OBVIOUS
<1> QED BY <1>1 DEF Ours

\* GoldInv holds before the agent begins.
LEMMA GoldInvInit == GoldInit => GoldInv
<1> SUFFICES ASSUME GoldInit PROVE GoldInv
  OBVIOUS
<1>1. Ours = {} /\ DOMAIN runs = {} /\ Len(runs) = 0
  BY DEF GoldInit, Ours
<1>2. TypeOK
  BY <1>1 DEF GoldInit, TypeOK
<1> QED
  BY <1>1, <1>2 DEF GoldInit, GoldInv, Requested, Executed, RetriedAfterRun

\* The agent asks for a run, and learns of it or not.
LEMMA TriggerStep ==
    ASSUME GoldInv, Trigger \/ TriggerLost
    PROVE  GoldInv'
<1> USE DEF GoldInv
<1>1. runs \in Seq(DagRun) /\ waiting \in 0..Len(runs) /\ Len(runs) \in Nat
  BY DEF TypeOK
<1> DEFINE n == Len(runs) + 1
<1>2. CASE runs' = NewRun("agent")
  <2>1. /\ runs' \in Seq(DagRun) /\ Len(runs') = n
        /\ DOMAIN runs' = DOMAIN runs \union {n}
        /\ \A i \in DOMAIN runs : runs'[i] = runs[i] /\ i \in 1..Len(runs)
        /\ runs'[n].state = "queued"
        /\ Ours' = Ours \union {n}
    BY <1>1, <1>2, NewRunFacts
  <2>2. \/ phase = "trigger" /\ Ours' = {n}
        \/ phase = "retrigger" /\ Ours' = {waiting, n} /\ waiting \in DOMAIN runs
           /\ runs[waiting].tries > 0
    BY <2>1 DEF Trigger, TriggerLost, Requested, Executed, Ours
  <2>3. \/ phase' \in {"poll", "repoll"} /\ waiting' = n
           /\ (phase' = "poll" <=> phase = "trigger") /\ UNCHANGED result
        \/ phase' = "done" /\ waiting' = waiting /\ result' = "error"
    BY DEF Trigger, TriggerLost, GoTo, End
  <2>4. UNCHANGED gold
    BY DEF Trigger, TriggerLost
  <2>5. TypeOK'
    BY <1>1, <2>1, <2>3, <2>4 DEF TypeOK
  <2>6. Requested'
    <3>1. \E i, j \in Nat : Ours' \subseteq {i, j}
      BY <1>1, <2>2
    <3>2. n \in Ours'
      BY <2>1
    <3> QED BY <2>2, <2>3, <3>1, <3>2 DEF Requested
  <2>7. Executed'
    BY <2>1, <2>3 DEF Executed
  <2>8. RetriedAfterRun'
    BY <1>1, <2>1, <2>2 DEF RetriedAfterRun
  <2> QED BY <2>5, <2>6, <2>7, <2>8
<1>3. CASE runs' = runs /\ TriggerLost
  BY <1>3 DEF TriggerLost, End, TypeOK, Requested, Executed, RetriedAfterRun, Ours
<1> QED BY <1>2, <1>3 DEF Trigger, TriggerLost

\* The agent polls, clears, counts or gives up.
LEMMA PollStep ==
    ASSUME GoldInv, Poll \/ Clear \/ Count \/ GiveUp
    PROVE  GoldInv'
<1> USE DEF GoldInv
<1>1. CASE Poll
  <2>1. UNCHANGED <<runs, gold, waiting>> /\ UNCHANGED Ours
    BY <1>1 DEF Poll, Ours
  <2>2. waiting \in DOMAIN runs
    BY <1>1 DEF Poll, Requested, Ours
  <2>3. \/ phase' = "count" /\ runs[waiting].state = "success" /\ UNCHANGED result
        \/ phase = "poll" /\ phase' = "clear" /\ runs[waiting].state = "failed"
           /\ UNCHANGED result
        \/ phase' = "done" /\ result' = "error"
    BY <1>1 DEF Poll, GoTo, End
  <2>4. waiting \in Ours
    BY <1>1 DEF Poll, Requested
  <2> QED
    BY <2>1, <2>2, <2>3, <2>4 DEF TypeOK, Requested, Executed, RetriedAfterRun
<1>2. CASE Clear
  <2>1. /\ phase = "clear" /\ phase' = "retrigger" /\ UNCHANGED <<gold, waiting, result>>
        /\ Ours = {waiting} /\ waiting \in DOMAIN runs
    BY <1>2 DEF Clear, GoTo, Requested, Ours
  <2>2. CASE UNCHANGED runs
    BY <2>1, <2>2 DEF TypeOK, Requested, Executed, RetriedAfterRun, Ours
  <2>3. CASE runs' = [runs EXCEPT ![waiting].state = "queued"]
    <3> DEFINE r == [runs[waiting] EXCEPT !.state = "queued"]
    <3>1. runs \in Seq(DagRun) /\ runs[waiting] \in DagRun
      BY <2>1 DEF TypeOK
    <3>2. r \in DagRun /\ r.by = runs[waiting].by /\ r.tries = runs[waiting].tries
          /\ r.state = "queued"
      BY <3>1 DEF DagRun, RunStates
    <3>3. runs' = [runs EXCEPT ![waiting] = r]
      BY <2>1, <2>3, <3>1
    <3> HIDE DEF r
    <3>4. /\ runs' \in Seq(DagRun) /\ Len(runs') = Len(runs)
          /\ DOMAIN runs' = DOMAIN runs
          /\ runs'[waiting] = r
          /\ \A j \in DOMAIN runs : j # waiting => runs'[j] = runs[j]
          /\ Ours' = Ours
      BY <2>1, <3>1, <3>2, <3>3, RunChanged
    <3>5. TypeOK' /\ Requested'
      BY <2>1, <3>4 DEF TypeOK, Requested
    <3>6. Executed' /\ RetriedAfterRun'
      BY <2>1, <3>2, <3>4 DEF Executed, RetriedAfterRun, Ours
    <3> QED BY <3>5, <3>6
  <2> QED BY <1>2, <2>2, <2>3 DEF Clear
<1>3. CASE Count \/ GiveUp
  BY <1>3 DEF Count, GiveUp, End, TypeOK, Requested, Executed, RetriedAfterRun, Ours
<1> QED BY <1>1, <1>2, <1>3

\* Airflow starts, finishes and schedules runs.
LEMMA AirflowStep ==
    ASSUME GoldInv, (\E i \in DOMAIN runs : StartRun(i) \/ FinishRun(i)) \/ Daily
    PROVE  GoldInv'
<1> USE DEF GoldInv
<1>1. ASSUME NEW i \in DOMAIN runs, StartRun(i) \/ FinishRun(i) PROVE GoldInv'
  <2>1. runs \in Seq(DagRun) /\ runs[i] \in DagRun
    BY DEF TypeOK
  <2>2. /\ UNCHANGED <<phase, waiting, result>>
        /\ gold' \in {"absent", "empty", "rows"}
        /\ runs[i].state \in {"queued", "running"}
    BY <1>1 DEF StartRun, FinishRun, TypeOK
  <2>3. PICK r \in DagRun :
           /\ runs' = [runs EXCEPT ![i] = r]
           /\ r.by = runs[i].by /\ r.tries >= runs[i].tries /\ r.tries \in Nat
           /\ r.state # "queued" /\ r.tries > 0
    <3>1. CASE StartRun(i)
      <4>1. PICK n \in Nat : n = runs[i].tries + 1
        BY <2>1 DEF DagRun
      <4> DEFINE r == [runs[i] EXCEPT !.state = "running", !.tries = n]
      <4>2. r \in DagRun /\ r.by = runs[i].by /\ r.state = "running" /\ r.tries = n
        BY <2>1, <4>1 DEF DagRun, RunStates
      <4>3. runs' = [runs EXCEPT ![i] = r]
        BY <2>1, <3>1, <4>1 DEF StartRun
      <4>4. n >= runs[i].tries /\ n > 0
        BY <2>1, <4>1 DEF DagRun
      <4> HIDE DEF r
      <4> QED BY <4>2, <4>3, <4>4
    <3>2. CASE FinishRun(i)
      <4>1. PICK st \in {"success", "failed"} : runs' = [runs EXCEPT ![i].state = st]
        <5>1. CASE runs' = [runs EXCEPT ![i].state = "success"]
          BY <5>1
        <5>2. CASE runs' = [runs EXCEPT ![i].state = "failed"]
          BY <5>2
        <5> QED BY <3>2, <5>1, <5>2 DEF FinishRun
      <4> DEFINE r == [runs[i] EXCEPT !.state = st]
      <4>2. r \in DagRun /\ r.by = runs[i].by /\ r.state = st
            /\ r.tries = runs[i].tries /\ runs[i].tries \in Nat
        BY <2>1, <4>1 DEF DagRun, RunStates
      <4>3. runs' = [runs EXCEPT ![i] = r]
        BY <2>1, <4>1
      <4>4. runs[i].tries > 0
        BY <3>2 DEF FinishRun, Executed
      <4>5. r.state # "queued" /\ r.tries >= runs[i].tries /\ r.tries \in Nat /\ r.tries > 0
        BY <4>1, <4>2, <4>4
      <4> HIDE DEF r
      <4> QED BY <4>2, <4>3, <4>5
    <3> QED BY <1>1, <3>1, <3>2
  <2>4. /\ runs' \in Seq(DagRun) /\ Len(runs') = Len(runs)
        /\ DOMAIN runs' = DOMAIN runs
        /\ runs'[i] = r
        /\ \A j \in DOMAIN runs : j # i => runs'[j] = runs[j]
        /\ Ours' = Ours
    BY <2>1, <2>3, RunChanged
  <2>5. TypeOK' /\ Requested'
    BY <2>2, <2>4 DEF TypeOK, Requested
  <2>6. phase = "count" => waiting # i
    BY <2>2 DEF Executed
  <2>7. phase \in {"clear", "retrigger", "count"} => waiting \in DOMAIN runs
    BY DEF Requested, Ours
  <2>8. Executed' /\ RetriedAfterRun'
    BY <2>2, <2>3, <2>4, <2>6, <2>7 DEF Executed, RetriedAfterRun, Ours
  <2> QED BY <2>5, <2>8
<1>2. CASE Daily
  <2>1. runs \in Seq(DagRun) /\ runs' = NewRun("schedule")
        /\ UNCHANGED <<gold, phase, waiting, result>>
    BY <1>2 DEF Daily, TypeOK
  <2>2. /\ runs' \in Seq(DagRun) /\ Len(runs') = Len(runs) + 1
        /\ DOMAIN runs' = DOMAIN runs \union {Len(runs) + 1}
        /\ \A i \in DOMAIN runs : runs'[i] = runs[i] /\ i \in 1..Len(runs)
        /\ runs'[Len(runs) + 1].state = "queued"
        /\ Ours' = Ours
    BY <2>1, NewRunFacts
  <2>3. phase \in {"clear", "retrigger", "count"} => waiting \in DOMAIN runs
    BY DEF Requested, Ours
  <2>4. TypeOK' /\ Requested'
    BY <2>1, <2>2 DEF TypeOK, Requested
  <2>5. Executed' /\ RetriedAfterRun'
    BY <2>1, <2>2, <2>3 DEF Executed, RetriedAfterRun, Ours
  <2> QED BY <2>4, <2>5
<1> QED BY <1>1, <1>2

\* GoldInv is inductive.
LEMMA GoldInvStep ==
    ASSUME GoldInv, [GoldNext]_vars PROVE GoldInv'
<1>1. CASE Agent
  BY <1>1, TriggerStep, PollStep DEF Agent
<1>2. CASE (\E i \in DOMAIN runs : StartRun(i) \/ FinishRun(i)) \/ Daily
  BY <1>2, AirflowStep
<1>3. CASE UNCHANGED vars
  BY <1>3 DEF vars, GoldInv, TypeOK, Requested, Executed, RetriedAfterRun, Ours
<1> QED BY <1>1, <1>2, <1>3 DEF GoldNext

\* GoldInv holds in every reachable state.
THEOREM GoldInvariance == GoldSpec => []GoldInv
<1>1. GoldInv /\ [GoldNext]_vars => GoldInv'
  BY GoldInvStep
<1> QED BY <1>1, GoldInvInit, PTL DEF GoldSpec

-----------------------------------------------------------------------------
(* What follows from the invariant.                                        *)

\* Types: the run the agent polls is one Airflow has.
THEOREM GoldTypes == GoldSpec => []TypeOK
<1>1. GoldInv => TypeOK
  BY DEF GoldInv
<1> QED BY <1>1, GoldInvariance, PTL

\* A set of two has at most two members.
LEMMA AtMostTwo ==
    ASSUME NEW S, NEW i, NEW j, S \subseteq {i, j} PROVE Cardinality(S) <= 2
<1>1. IsFiniteSet({i}) /\ Cardinality({i}) = 1
  BY FS_Singleton
<1>2. {i, j} = {i} \union {j}
  OBVIOUS
<1>3. IsFiniteSet({i, j}) /\ Cardinality({i, j}) <= 2
  BY <1>1, <1>2, FS_AddElement
<1>4. Cardinality(S) <= Cardinality({i, j}) /\ IsFiniteSet(S)
  BY <1>3, FS_Subset
<1> QED BY <1>3, <1>4, FS_CardinalityType

\* At most one retry, and only of a run that was executed.
THEOREM OneRetry == GoldSpec => []TwoRunsAtMost
<1>1. GoldInv => TwoRunsAtMost
  <2> SUFFICES ASSUME GoldInv PROVE TwoRunsAtMost
    OBVIOUS
  <2>1. PICK i, j \in Nat : Ours \subseteq {i, j}
    BY DEF GoldInv, Requested
  <2>2. Cardinality(Ours) <= 2
    BY <2>1, AtMostTwo
  <2> QED BY <2>2 DEF GoldInv, RetriedAfterRun, TwoRunsAtMost
<1> QED BY <1>1, GoldInvariance, PTL

\* A success rests on a run of the agent that succeeded and a table with rows.
THEOREM SuccessRestsOnRun == GoldSpec => SuccessIsBuilt
<1> DEFINE Built == result' = "ok" /\ result # "ok" =>
                       /\ gold = "rows"
                       /\ \E i \in Ours : runs[i].state = "success"
<1>1. GoldInv /\ [GoldNext]_vars => [Built]_vars
  <2> SUFFICES ASSUME GoldInv, GoldNext, result' = "ok", result # "ok"
               PROVE  gold = "rows" /\ \E i \in Ours : runs[i].state = "success"
    OBVIOUS
  <2>1. Count
    BY DEF GoldNext, Agent, Trigger, TriggerLost, Poll, Clear, GiveUp, StartRun,
       FinishRun, Daily, GoTo, End
  <2> QED BY <2>1 DEF Count, End, GoldInv, Requested, Executed
<1> QED BY <1>1, GoldInvariance, PTL DEF GoldSpec, SuccessIsBuilt

-----------------------------------------------------------------------------
(* The agent's work is short: the half of AgentReturns without fairness.   *)

\* Steps the agent may still take: the poll of the retry is a phase of its
\* own, from which nothing leads back to the clear.
PhasesLeft ==
    [trigger |-> 6, poll |-> 5, clear |-> 4, retrigger |-> 3, repoll |-> 2,
     count |-> 1, done |-> 0]
StepsLeft == PhasesLeft[phase]

\* The agent takes at most six steps, however often its runs fail and whatever
\* else Airflow executes meanwhile.
THEOREM WorkIsShort ==
    GoldSpec => /\ [](StepsLeft \in 0..6)
                /\ [][Agent => StepsLeft' < StepsLeft]_vars
                /\ [][StepsLeft' # StepsLeft => Agent]_vars
<1>1. GoldInv => StepsLeft \in 0..6
  BY DEF GoldInv, TypeOK, StepsLeft, PhasesLeft
<1>2. GoldInv /\ [GoldNext]_vars => [Agent => StepsLeft' < StepsLeft]_vars
  <2> SUFFICES ASSUME GoldInv, Agent PROVE StepsLeft' < StepsLeft
    OBVIOUS
  <2>1. phase \in {"trigger", "poll", "clear", "retrigger", "repoll", "count", "done"}
    BY DEF GoldInv, TypeOK
  <2>2. \/ phase = "trigger" /\ phase' \in {"poll", "done"}
        \/ phase = "retrigger" /\ phase' \in {"repoll", "done"}
        \/ phase = "poll" /\ phase' \in {"count", "clear", "done"}
        \/ phase = "repoll" /\ phase' \in {"count", "done"}
        \/ phase = "clear" /\ phase' \in {"retrigger", "done"}
        \/ phase = "count" /\ phase' = "done"
    BY <2>1 DEF Agent, Trigger, TriggerLost, Poll, Clear, Count, GiveUp, GoTo, End
  <2> QED BY <2>2 DEF StepsLeft, PhasesLeft
<1>3. [GoldNext]_vars => [StepsLeft' # StepsLeft => Agent]_vars
  <2> SUFFICES ASSUME GoldNext, ~Agent PROVE StepsLeft' = StepsLeft
    OBVIOUS
  <2>1. phase' = phase
    BY DEF GoldNext, StartRun, FinishRun, Daily
  <2> QED BY <2>1 DEF StepsLeft
<1> QED BY <1>1, <1>2, <1>3, GoldInvariance, PTL DEF GoldSpec
=============================================================================
