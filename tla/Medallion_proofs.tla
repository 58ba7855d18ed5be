-------------------------- MODULE Medallion_proofs --------------------------
(***************************************************************************)
(* Proofs about Bronze and Silver together, for any set of tables, keys    *)
(* and runners, and any number of overlapping runs, crashes and replays.   *)
(*                                                                         *)
(* Every step of the composition is a step of the Bronze layer or leaves   *)
(* it alone, so its invariant carries over.  Silver adds SilverInv: a run  *)
(* has seen a prefix of bronze.t_valid, and Silver holds one row per key,  *)
(* each from an image of that key that is in bronze.t_valid.               *)
(***************************************************************************)
EXTENDS Medallion, BronzeStreaming_proofs, WellFoundedInduction

\* The inductive invariant of the composition.
SeenIsPrefix ==
    \A job \in Runners \X Tables : run[job].seen <= Len(valid[job[2]])

SilverInv ==
    /\ BronzeInv
    /\ MedallionTypeOK
    /\ SeenIsPrefix
    /\ OneRowPerKey
    /\ SilverFromBronze

\* A step of the composition is a step of the Bronze layer or leaves it alone.
LEMMA StepIsBronzeStep ==
    ASSUME [MedallionNext]_vars
    PROVE  [BronzeNext]_bronzeVars
  BY DEF MedallionNext, RegisterTable, BronzeStep, Midnight, SubmitHourly,
         SubmitAgent, SubmitManual, Submit, Work, ReadBronze, BeginMerge,
         CommitMerge, Abort, Fail, BronzeNext, Source, vars

\* The composition runs the Bronze layer unchanged ...
THEOREM MedallionRunsBronze == MedallionSpec => BronzeSpec
<1>1. MedallionInit => BronzeInit
  BY DEF MedallionInit
<1>2. [MedallionNext]_vars => [BronzeNext]_bronzeVars
  BY StepIsBronzeStep
<1> QED BY <1>1, <1>2, PTL DEF MedallionSpec, BronzeSpec

\* ... and so has its invariant.
LEMMA BronzeInvHere == MedallionSpec => []BronzeInv
  BY MedallionRunsBronze, BronzeInvariance, PTL

-----------------------------------------------------------------------------
(* The MERGE.                                                              *)

\* Rows of a date that a run has seen are rows of bronze.t_valid, and an
\* event in bronze.t_valid is an event of the topic.
LEMMA SeenRows ==
    ASSUME BronzeInv, NEW t \in Tables, NEW date, NEW seen \in Nat,
           seen <= Len(valid[t]), NEW i \in DateRows(t, date, seen)
    PROVE  /\ i \in Nat /\ i \in DOMAIN valid[t]
           /\ valid[t][i].src \in DOMAIN log[t]
           /\ valid[t][i].src \in Nat
           /\ KeyOf(t, i) \in Keys
<1>1. valid[t] \in Seq(ValidRow) /\ log[t] \in Seq(Event)
  BY DEF BronzeInv, TypeOK
<1>2. i \in 1..Len(valid[t]) /\ i \in Nat
  BY <1>1, LenProperties DEF DateRows
<1>3. i \in DOMAIN valid[t]
  BY <1>1, <1>2, LenProperties
<1>4. valid[t][i].src \in 1..planned[t]
  BY <1>3 DEF BronzeInv, StoredIsPlanned, Stored, Sources
<1>5. planned[t] <= Len(log[t]) /\ planned[t] \in Nat /\ Len(log[t]) \in Nat
  BY <1>1, LenProperties DEF BronzeInv, Checkpointed, TypeOK
<1>6. valid[t][i].src \in 1..Len(log[t])
  BY <1>4, <1>5
<1>7. valid[t][i].src \in DOMAIN log[t] /\ valid[t][i].src \in Nat
  BY <1>1, <1>6, LenProperties
<1>8. log[t][valid[t][i].src] \in Event
  BY <1>1, <1>6, ElementOfSeq
<1> QED BY <1>2, <1>3, <1>7, <1>8 DEF KeyOf, Event

\* Merging rows that row_number() = 1 selected keeps one row per key.
LEMMA MergeKeepsOneRowPerKey ==
    ASSUME NEW t, NEW target, NEW S, S \subseteq Nat,
           \A r, s \in target : r.key = s.key => r = s
    PROVE  LET merged == Merge(t, target, Dedup(t, S))
           IN  \A r, s \in merged : r.key = s.key => r = s
<1> DEFINE D == Dedup(t, S)
           merged == Merge(t, target, D)
<1>1. \A i, j \in D : KeyOf(t, i) = KeyOf(t, j) => i = j
  BY DEF Dedup
<1>2. \A r \in merged :
         \/ r \in target /\ \A i \in D : KeyOf(t, i) # r.key
         \/ \E i \in D : r = [key |-> KeyOf(t, i), src |-> valid[t][i].src]
  BY DEF Merge
<1> SUFFICES ASSUME NEW r \in merged, NEW s \in merged, r.key = s.key
             PROVE  r = s
  OBVIOUS
<1> HIDE DEF D, merged
<1>3. CASE r \in target /\ \A i \in D : KeyOf(t, i) # r.key
  <2>1. s \in target
    BY <1>2, <1>3
  <2> QED BY <1>3, <2>1
<1>4. CASE \E i \in D : r = [key |-> KeyOf(t, i), src |-> valid[t][i].src]
  <2>1. PICK i \in D : r = [key |-> KeyOf(t, i), src |-> valid[t][i].src]
    BY <1>4
  <2>2. s.key = KeyOf(t, i)
    BY <2>1
  <2>3. PICK j \in D : s = [key |-> KeyOf(t, j), src |-> valid[t][j].src]
    BY <1>2, <2>1, <2>2
  <2>4. i = j
    BY <1>1, <2>2, <2>3
  <2> QED BY <2>1, <2>3, <2>4
<1> QED BY <1>2, <1>3, <1>4

\* A merged row was in the target or is the image of a parsed source row.
LEMMA MergedRows ==
    ASSUME NEW t, NEW target, NEW S, NEW r \in Merge(t, target, Dedup(t, Parsed(t, S)))
    PROVE  \/ r \in target
           \/ \E i \in S :
                 /\ r = [key |-> KeyOf(t, i), src |-> valid[t][i].src]
                 /\ log[t][valid[t][i].src].kind \in {"c", "u"}
  BY DEF Merge, Dedup, Parsed

\* An image of a row stays one, and so does a row of bronze.t_valid.
LEMMA ImagesStay ==
    ASSUME BronzeInv, [BronzeNext]_bronzeVars, NEW t \in Tables, NEW k
    PROVE  /\ Images(t, k) \subseteq Images(t, k)'
           /\ \A o : (\E i \in DOMAIN valid[t] : valid[t][i].src = o)
                       => \E i \in DOMAIN valid'[t] : valid'[t][i].src = o
           /\ Len(valid[t]) <= Len(valid'[t])
<1>1. /\ \A i \in DOMAIN log[t] : i \in DOMAIN log'[t] /\ log'[t][i] = log[t][i]
      /\ \A i \in DOMAIN valid[t] : i \in DOMAIN valid'[t] /\ valid'[t][i] = valid[t][i]
  BY NothingTakenBack DEF BronzeInv
<1>2. Images(t, k) \subseteq Images(t, k)'
  BY <1>1 DEF Images
<1>3. valid[t] \in Seq(ValidRow) /\ valid'[t] \in Seq(ValidRow)
  BY TypeStep DEF BronzeInv, TypeOK
<1>4. Len(valid[t]) <= Len(valid'[t])
  <2>1. /\ DOMAIN valid[t] = 1..Len(valid[t]) /\ DOMAIN valid'[t] = 1..Len(valid'[t])
        /\ Len(valid[t]) \in Nat /\ Len(valid'[t]) \in Nat
    BY <1>3, LenProperties
  <2>2. CASE Len(valid[t]) = 0
    BY <2>1, <2>2
  <2>3. CASE Len(valid[t]) # 0
    <3>1. Len(valid[t]) \in DOMAIN valid[t]
      BY <2>1, <2>3
    <3>2. Len(valid[t]) \in 1..Len(valid'[t])
      BY <1>1, <2>1, <3>1
    <3> QED BY <2>1, <3>2
  <2> QED BY <2>2, <2>3
<1> QED BY <1>1, <1>2, <1>4

-----------------------------------------------------------------------------
(* The inductive invariant.                                                *)

\* Only a commit of a MERGE writes Silver.
LEMMA OnlyCommitsWrite ==
    ASSUME [MedallionNext]_vars
    PROVE  silver' = silver \/ \E r \in Runners, t \in Tables : CommitMerge(r, t)
  BY DEF MedallionNext, RegisterTable, BronzeStep, Midnight, SubmitHourly,
         SubmitAgent, SubmitManual, Submit, Work, ReadBronze, BeginMerge,
         Abort, Fail, Finish, vars, silverVars

\* What a step may do to the runs: one of them is submitted, advances or
\* ends, and the only position it may take is the end of bronze.t_valid.
LEMMA RunStep ==
    ASSUME BronzeInv, MedallionTypeOK, [MedallionNext]_vars
    PROVE  /\ run' \in [Runners \X Tables -> Run]
           /\ \A job \in Runners \X Tables :
                 run'[job].seen \in {run[job].seen, 0, Len(valid[job[2]])}
<1> DEFINE Goal ==
       /\ run' \in [Runners \X Tables -> Run]
       /\ \A job \in Runners \X Tables :
             run'[job].seen \in {run[job].seen, 0, Len(valid[job[2]])}
<1> USE DEF MedallionTypeOK
<1>1. ASSUME UNCHANGED run PROVE Goal
  BY <1>1
<1>2. ASSUME NEW r \in Runners, NEW t \in Tables, Finish(r, t) PROVE Goal
  BY <1>2 DEF Finish, IdleRun, Run
<1>3. ASSUME NEW r \in Runners, NEW t \in Tables, NEW date \in Nat, Submit(r, t, date)
      PROVE Goal
  BY <1>3 DEF Submit, IdleRun, Run
<1>4. ASSUME NEW r \in Runners, NEW t \in Tables, ReadBronze(r, t) PROVE Goal
  <2>1. Len(valid[t]) \in Nat
    BY LenProperties DEF BronzeInv, TypeOK
  <2>2. CASE DateRows(t, run[<<r, t>>].date, Len(valid[t])) = {}
    <3>1. Finish(r, t)
      BY <1>4, <2>2 DEF ReadBronze
    <3> QED BY <1>2, <3>1
  <2>3. CASE DateRows(t, run[<<r, t>>].date, Len(valid[t])) # {}
    <3> DEFINE seen == Len(valid[t])
               read == [run[<<r, t>>] EXCEPT !.phase = "read", !.seen = seen]
    <3>1. run' = [run EXCEPT ![<<r, t>>] = read]
      BY <1>4, <2>3 DEF ReadBronze
    <3>2. read \in Run /\ read.seen = seen
      <4> HIDE DEF seen
      <4>1. seen \in Nat
        BY <2>1 DEF seen
      <4>2. run[<<r, t>>] \in Run
        OBVIOUS
      <4> QED BY <4>1, <4>2 DEF Run
    <3> HIDE DEF read
    <3> QED BY <3>1, <3>2
  <2> QED BY <2>2, <2>3
<1>5. ASSUME NEW r \in Runners, NEW t \in Tables, BeginMerge(r, t) PROVE Goal
  BY <1>5 DEF BeginMerge, Run
<1>6. ASSUME NEW r \in Runners, NEW t \in Tables, CommitMerge(r, t) PROVE Goal
  <2>1. run' = Overtaken(r, t)
    BY <1>6 DEF CommitMerge
  <2>2. ASSUME NEW job \in Runners \X Tables
        PROVE  run'[job] \in Run /\ run'[job].seen \in {run[job].seen, 0}
    <3> DEFINE stale == run[job].stale \/ (job[2] = t /\ run[job].phase = "merging")
    <3>1. stale \in BOOLEAN
      OBVIOUS
    <3>2. run'[job] = IF job = <<r, t>> THEN IdleRun
                      ELSE [run[job] EXCEPT !.stale = stale]
      BY <2>1, Zenon DEF Overtaken
    <3> HIDE DEF stale
    <3>3. IdleRun \in Run /\ IdleRun.seen = 0
      BY DEF IdleRun, Run
    <3>4. /\ [run[job] EXCEPT !.stale = stale] \in Run
          /\ [run[job] EXCEPT !.stale = stale].seen = run[job].seen
      BY <3>1 DEF Run
    <3> QED BY <3>2, <3>3, <3>4
  <2> QED BY <2>1, <2>2 DEF Overtaken
<1>7. day \in Nat /\ \A t \in Tables : due[t] \in Nat
  BY DEF TypeOK
<1>8. ASSUME MedallionNext PROVE Goal
  <2>1. ASSUME NEW t \in Tables, SubmitHourly(t) \/ SubmitAgent(t) PROVE Goal
    BY <1>3, <1>7, <2>1 DEF SubmitHourly, SubmitAgent
  <2>2. ASSUME NEW t \in Tables, NEW date \in 1..day, SubmitManual(t, date) PROVE Goal
    BY <1>3, <1>7, <2>2 DEF SubmitManual
  <2>3. ASSUME NEW r \in Runners, NEW t \in Tables, Work(r, t) \/ Fail(r, t) PROVE Goal
    BY <1>2, <1>4, <1>5, <1>6, <2>3 DEF Work, Fail, Abort
  <2>4. ASSUME \/ \E t \in Tables : RegisterTable(t)
               \/ BronzeStep
               \/ Midnight
        PROVE  Goal
    BY <1>1, <2>4 DEF RegisterTable, BronzeStep, Midnight, silverVars
  <2> QED BY <1>8, <2>1, <2>2, <2>3, <2>4 DEF MedallionNext
<1> QED BY <1>1, <1>8 DEF vars, silverVars

\* A run's position stays within bronze.t_valid.
LEMMA SeenStep ==
    ASSUME SilverInv, [MedallionNext]_vars PROVE SeenIsPrefix'
<1> SUFFICES ASSUME NEW job \in Runners \X Tables
             PROVE  run'[job].seen <= Len(valid'[job[2]])
  BY DEF SeenIsPrefix
<1>1. job[2] \in Tables
  OBVIOUS
<1>2. Len(valid[job[2]]) <= Len(valid'[job[2]])
  BY <1>1, StepIsBronzeStep, ImagesStay DEF SilverInv
<1>3. BronzeInv'
  BY StepIsBronzeStep, BronzeInvInductive DEF SilverInv
<1>4. Len(valid[job[2]]) \in Nat /\ Len(valid'[job[2]]) \in Nat
  BY <1>1, <1>3, LenProperties DEF SilverInv, BronzeInv, TypeOK
<1>5. run[job].seen \in Nat /\ run[job].seen <= Len(valid[job[2]])
  BY DEF SilverInv, MedallionTypeOK, Run, SeenIsPrefix
<1>6. run'[job].seen \in {run[job].seen, 0, Len(valid[job[2]])}
  BY RunStep DEF SilverInv
<1> QED BY <1>2, <1>4, <1>5, <1>6

\* What a commit leaves in Silver: rows that were there, and images of their
\* key that are in bronze.t_valid.
LEMMA CommittedRows ==
    ASSUME SilverInv, NEW r \in Runners, NEW t \in Tables, CommitMerge(r, t),
           NEW row \in silver'[t]
    PROVE  \/ row \in silver[t]
           \/ /\ row \in SilverRow
              /\ row.src \in Images(t, row.key)
              /\ \E i \in DOMAIN valid[t] : valid[t][i].src = row.src
<1> DEFINE date == run[<<r, t>>].date
           seen == run[<<r, t>>].seen
           S == DateRows(t, date, seen)
<1>1. row \in Merge(t, silver[t], Dedup(t, Parsed(t, S)))
  BY DEF CommitMerge, SilverInv, MedallionTypeOK
<1>2. seen \in Nat /\ seen <= Len(valid[t])
  <2>1. <<r, t>> \in Runners \X Tables /\ <<r, t>>[2] = t
    OBVIOUS
  <2> QED BY <2>1 DEF SilverInv, MedallionTypeOK, Run, SeenIsPrefix
<1>3. ASSUME NEW i \in S,
             row = [key |-> KeyOf(t, i), src |-> valid[t][i].src],
             log[t][valid[t][i].src].kind \in {"c", "u"}
      PROVE  /\ row \in SilverRow
             /\ row.src \in Images(t, row.key)
             /\ \E j \in DOMAIN valid[t] : valid[t][j].src = row.src
  <2>1. /\ i \in DOMAIN valid[t]
        /\ valid[t][i].src \in DOMAIN log[t]
        /\ valid[t][i].src \in Nat
        /\ KeyOf(t, i) \in Keys
    BY <1>2, SeenRows DEF SilverInv
  <2> QED BY <1>3, <2>1 DEF SilverRow, Images, KeyOf
<1> HIDE DEF S
<1>4. \/ row \in silver[t]
      \/ \E i \in S :
            /\ row = [key |-> KeyOf(t, i), src |-> valid[t][i].src]
            /\ log[t][valid[t][i].src].kind \in {"c", "u"}
  BY <1>1, MergedRows
<1> QED BY <1>3, <1>4

\* Silver keeps its type, one row per key, and its provenance.
LEMMA SilverStep ==
    ASSUME SilverInv, [MedallionNext]_vars
    PROVE  /\ silver' \in [Tables -> SUBSET SilverRow]
           /\ OneRowPerKey'
           /\ SilverFromBronze'
<1>1. ASSUME NEW u \in Tables, NEW k
      PROVE  /\ Images(u, k) \subseteq Images(u, k)'
             /\ \A o : (\E i \in DOMAIN valid[u] : valid[u][i].src = o)
                         => \E i \in DOMAIN valid'[u] : valid'[u][i].src = o
  BY StepIsBronzeStep, ImagesStay DEF SilverInv
<1>2. CASE silver' = silver
  <2>1. silver' \in [Tables -> SUBSET SilverRow] /\ OneRowPerKey'
    BY <1>2 DEF SilverInv, MedallionTypeOK, OneRowPerKey
  <2>2. SilverFromBronze'
    BY <1>1, <1>2 DEF SilverInv, SilverFromBronze
  <2> QED BY <2>1, <2>2
<1>3. CASE \E r \in Runners, t \in Tables : CommitMerge(r, t)
  <2>1. PICK r \in Runners, t \in Tables : CommitMerge(r, t)
    BY <1>3
  <2> DEFINE S == Parsed(t, DateRows(t, run[<<r, t>>].date, run[<<r, t>>].seen))
             merged == Merge(t, silver[t], Dedup(t, S))
  <2>2. silver' = [silver EXCEPT ![t] = merged]
    BY <2>1 DEF CommitMerge
  <2>3. silver \in [Tables -> SUBSET SilverRow]
    BY DEF SilverInv, MedallionTypeOK
  <2>4. \A x, y \in merged : x.key = y.key => x = y
    <3>1. S \subseteq Nat
      BY DEF Parsed, DateRows
    <3>2. \A x, y \in silver[t] : x.key = y.key => x = y
      BY DEF SilverInv, OneRowPerKey
    <3> QED BY <3>1, <3>2, MergeKeepsOneRowPerKey
  <2>5. \A row \in silver'[t] :
           \/ row \in silver[t]
           \/ /\ row \in SilverRow
              /\ row.src \in Images(t, row.key)
              /\ \E i \in DOMAIN valid[t] : valid[t][i].src = row.src
    BY <2>1, CommittedRows
  <2> HIDE DEF merged
  <2>6. silver'[t] = merged /\ \A u \in Tables \ {t} : silver'[u] = silver[u]
    BY <2>2, <2>3
  <2>7. silver' \in [Tables -> SUBSET SilverRow]
    <3>1. silver'[t] \in SUBSET SilverRow
      BY <2>3, <2>5
    <3> QED BY <2>2, <2>3, <2>6, <3>1
  <2>8. OneRowPerKey'
    BY <2>4, <2>6 DEF SilverInv, OneRowPerKey
  <2>9. SilverFromBronze'
    <3> SUFFICES ASSUME NEW u \in Tables, NEW row \in silver'[u]
                 PROVE  /\ row.src \in Images(u, row.key)'
                        /\ \E i \in DOMAIN valid'[u] : valid'[u][i].src = row.src
      BY DEF SilverFromBronze
    <3>1. /\ row.src \in Images(u, row.key)
          /\ \E i \in DOMAIN valid[u] : valid[u][i].src = row.src
      BY <2>5, <2>6 DEF SilverInv, SilverFromBronze
    <3> QED BY <1>1, <3>1
  <2> QED BY <2>7, <2>8, <2>9
<1> QED BY <1>2, <1>3, OnlyCommitsWrite

\* The counters keep their type.
LEMMA DueStep ==
    ASSUME SilverInv, [MedallionNext]_vars
    PROVE  due' \in [Tables -> Nat] /\ started' \in Nat /\ failures' \in Nat
<1> USE DEF SilverInv, MedallionTypeOK
<1>1. ASSUME NEW r \in Runners, NEW t \in Tables
      PROVE  NextDue(r, t) \in [Tables -> Nat]
  <2>1. run[<<r, t>>].date \in Nat
    BY DEF Run
  <2> QED BY <2>1 DEF NextDue
<1>2. day \in Nat
  BY DEF TypeOK
<1>3. ASSUME NEW r \in Runners, NEW t \in Tables, Work(r, t) \/ Fail(r, t)
      PROVE  due' \in [Tables -> Nat] /\ started' \in Nat /\ failures' \in Nat
  <2>1. (due' = due \/ due' = NextDue(r, t)) /\ started' = started
    BY <1>3 DEF Work, Fail, ReadBronze, BeginMerge, CommitMerge, Abort, Finish
  <2>2. failures' = failures \/ failures' = failures + 1
    BY <1>3 DEF Work, Fail, ReadBronze, BeginMerge, CommitMerge, Abort
  <2> QED BY <1>1, <2>1, <2>2
<1>4. ASSUME \/ \E t \in Tables : RegisterTable(t)
             \/ BronzeStep
             \/ Midnight
             \/ \E t \in Tables : SubmitHourly(t)
             \/ \E t \in Tables : SubmitAgent(t)
             \/ \E t \in Tables, date \in 1..day : SubmitManual(t, date)
      PROVE  due' \in [Tables -> Nat] /\ started' \in Nat /\ failures' \in Nat
  <2>1. ASSUME NEW t \in Tables, RegisterTable(t)
        PROVE  due' \in [Tables -> Nat] /\ UNCHANGED <<started, failures>>
    BY <1>2, <2>1 DEF RegisterTable
  <2>2. ASSUME BronzeStep \/ Midnight PROVE UNCHANGED <<due, started, failures>>
    BY <2>2 DEF BronzeStep, Midnight, silverVars
  <2>3. ASSUME NEW t \in Tables,
               \/ SubmitHourly(t)
               \/ SubmitAgent(t)
               \/ \E date \in 1..day : SubmitManual(t, date)
        PROVE  /\ UNCHANGED <<due, failures>>
               /\ started' = started \/ started' = started + 1
    BY <2>3 DEF SubmitHourly, SubmitAgent, SubmitManual, Submit
  <2> QED BY <1>4, <2>1, <2>2, <2>3
<1>5. CASE UNCHANGED vars
  BY <1>5 DEF vars, silverVars
<1>6. CASE MedallionNext
  BY <1>3, <1>4, <1>6, Zenon DEF MedallionNext
<1> QED BY <1>5, <1>6

\* SilverInv holds initially and every step of the composition preserves it.
THEOREM SilverInvInductive ==
    ASSUME SilverInv, [MedallionNext]_vars PROVE SilverInv'
<1>1. BronzeInv'
  BY StepIsBronzeStep, BronzeInvInductive DEF SilverInv
<1>2. MedallionTypeOK'
  <2>1. TypeOK'
    BY <1>1 DEF BronzeInv
  <2>2. run' \in [Runners \X Tables -> Run]
    BY RunStep DEF SilverInv
  <2> QED BY <2>1, <2>2, SilverStep, DueStep DEF MedallionTypeOK
<1> QED BY <1>1, <1>2, SeenStep, SilverStep DEF SilverInv

\* SilverInv holds of the empty platform.
LEMMA SilverInvInit == MedallionInit => SilverInv
<1> SUFFICES ASSUME MedallionInit PROVE SilverInv
  OBVIOUS
<1>1. BronzeInv
  BY BronzeInvInit DEF MedallionInit
<1>2. MedallionTypeOK
  <2>1. TypeOK
    BY <1>1 DEF BronzeInv
  <2>2. IdleRun \in Run
    BY DEF IdleRun, Run
  <2> QED BY <2>1, <2>2 DEF MedallionInit, MedallionTypeOK
<1>3. SeenIsPrefix
  <2>1. \A t \in Tables : Len(valid[t]) \in Nat
    BY <1>1, LenProperties DEF BronzeInv, TypeOK
  <2>2. \A job \in Runners \X Tables : run[job].seen = 0 /\ job[2] \in Tables
    BY DEF MedallionInit, IdleRun
  <2> QED BY <2>1, <2>2 DEF SeenIsPrefix
<1>4. OneRowPerKey /\ SilverFromBronze
  BY DEF MedallionInit, OneRowPerKey, SilverFromBronze
<1> QED BY <1>1, <1>2, <1>3, <1>4 DEF SilverInv

\* SilverInv holds in every reachable state: for every number of tables,
\* runners, overlapping runs, crashes and midnights.
THEOREM SilverInvariance == MedallionSpec => []SilverInv
<1>1. MedallionInit => SilverInv
  BY SilverInvInit
<1>2. SilverInv /\ [MedallionNext]_vars => SilverInv'
  BY SilverInvInductive
<1> QED BY <1>1, <1>2, PTL DEF MedallionSpec

\* Type correctness of the composition.
THEOREM MedallionTypes == MedallionSpec => []MedallionTypeOK
<1>1. SilverInv => MedallionTypeOK
  BY DEF SilverInv
<1> QED BY <1>1, SilverInvariance, PTL

\* Silver holds at most one row per primary key, whatever runs overlap.
THEOREM SilverHasOneRowPerKey == MedallionSpec => []OneRowPerKey
<1>1. SilverInv => OneRowPerKey
  BY DEF SilverInv
<1> QED BY <1>1, SilverInvariance, PTL

\* Every Silver row is an image of its own key that is in bronze.t_valid.
THEOREM SilverComesFromBronze == MedallionSpec => []SilverFromBronze
<1>1. SilverInv => SilverFromBronze
  BY DEF SilverInv
<1> QED BY <1>1, SilverInvariance, PTL

-----------------------------------------------------------------------------
(* The hourly DAG alone.                                                   *)

Hourly(t) == run[<<"hourly", t>>]

\* The hourly runs of a table follow the calendar: a run is for the date that
\* is due, which never lies ahead, and the last run of a date comes after it.
HourlyRuns ==
    \A t \in Tables :
        /\ due[t] <= day
        /\ "hourly" \in Runners =>
              /\ Hourly(t).phase # "idle" =>
                    t \in registered /\ Hourly(t).date = due[t]
              /\ Hourly(t).last => Hourly(t).date < day
              /\ Hourly(t).stale => Hourly(t).phase # "idle"

\* While nobody else started a run, the hourly runs are all there is.
OnlyHourlyRuns ==
    started = 0 =>
        \A job \in Runners \X Tables :
            run[job].phase # "idle" => job[1] = "hourly"

HasRead(t) == "hourly" \in Runners /\ Hourly(t).phase \in {"read", "merging"}

\* A row of Silver comes from a Bronze row whose date is not after the date
\* that is due, and a run under way for that same date has seen that row.
MergedInTime ==
    started = 0 =>
        \A t \in Tables : \A r \in silver[t] :
            \E i \in DOMAIN valid[t] :
                /\ valid[t][i].src = r.src
                /\ valid[t][i].day <= due[t]
                /\ HasRead(t) /\ valid[t][i].day = due[t] => i <= Hourly(t).seen

HourlyInv ==
    /\ SilverInv
    /\ DatesInOrder
    /\ OffsetsInOrder
    /\ HourlyRuns
    /\ OnlyHourlyRuns
    /\ MergedInTime

\* What a step does to the hourly run of a table: it is marked stale at most,
\* its table is registered, it is submitted, reads, begins its MERGE or ends.
HourlyJobStep(t) ==
    \/ /\ due'[t] = due[t]
       /\ Hourly(t)'.phase = Hourly(t).phase
       /\ Hourly(t)'.date = Hourly(t).date
       /\ Hourly(t)'.last = Hourly(t).last
       /\ Hourly(t)'.seen = Hourly(t).seen
       /\ Hourly(t)'.stale => Hourly(t).stale \/ Hourly(t).phase = "merging"
    \/ /\ t \notin registered
       /\ due'[t] = day
       /\ Hourly(t)' = Hourly(t)
    \/ /\ Hourly(t).phase = "idle"
       /\ t \in registered
       /\ due'[t] = due[t]
       /\ Hourly(t)'.phase = "started"
       /\ Hourly(t)'.date = due[t]
       /\ Hourly(t)'.last => due[t] < day
       /\ ~Hourly(t)'.stale
    \/ /\ Hourly(t).phase = "started"
       /\ due'[t] = due[t]
       /\ Hourly(t)' = [Hourly(t) EXCEPT !.phase = "read", !.seen = Len(valid[t])]
    \/ /\ Hourly(t).phase = "read"
       /\ due'[t] = due[t]
       /\ Hourly(t)' = [Hourly(t) EXCEPT !.phase = "merging"]
    \/ /\ Hourly(t).phase # "idle" \/ Hourly(t).stale
       /\ due'[t] = IF Hourly(t).last THEN Hourly(t).date + 1 ELSE due[t]
       /\ Hourly(t)' = IdleRun

\* A run of `r` for `t` that ends leaves the hourly runs of other tables, and
\* with another runner every hourly run, as they were.
LEMMA FinishStep ==
    ASSUME SilverInv, NEW r \in Runners, NEW t \in Tables, Finish(r, t),
           run[<<r, t>>].phase # "idle" \/ run[<<r, t>>].stale,
           "hourly" \in Runners, NEW u \in Tables
    PROVE  HourlyJobStep(u)
<1> USE DEF SilverInv, MedallionTypeOK
<1>1. due \in [Tables -> Nat] /\ run \in [Runners \X Tables -> Run]
  OBVIOUS
<1>2. CASE r = "hourly" /\ u = t
  <2>1. Hourly(u)' = IdleRun
    BY <1>1, <1>2 DEF Finish, Hourly
  <2>2. due'[u] = IF Hourly(u).last THEN Hourly(u).date + 1 ELSE due[u]
    BY <1>1, <1>2 DEF Finish, NextDue, Hourly
  <2>3. Hourly(u).phase # "idle" \/ Hourly(u).stale
    BY <1>2 DEF Hourly
  <2> QED BY <2>1, <2>2, <2>3 DEF HourlyJobStep
<1>3. CASE r # "hourly" \/ u # t
  <2>1. <<"hourly", u>> # <<r, t>> /\ <<"hourly", u>> \in Runners \X Tables
    BY <1>3
  <2>2. Hourly(u)' = Hourly(u)
    BY <1>1, <2>1 DEF Finish, Hourly
  <2>3. due'[u] = due[u]
    BY <1>1, <1>3 DEF Finish, NextDue
  <2> QED BY <2>2, <2>3 DEF HourlyJobStep
<1> QED BY <1>2, <1>3

\* The run a submission creates.
LEMMA SubmittedRun ==
    ASSUME NEW date \in Nat, NEW last \in BOOLEAN
    PROVE  LET new == [IdleRun EXCEPT !.phase = "started", !.date = date,
                                      !.last = last]
           IN  /\ new.phase = "started" /\ new.date = date /\ new.last = last
               /\ new.seen = 0 /\ ~new.stale
  BY DEF IdleRun

\* Every step of the composition moves an hourly run in one of these ways.
LEMMA HourlyJobSteps ==
    ASSUME SilverInv, [MedallionNext]_vars, "hourly" \in Runners, NEW u \in Tables
    PROVE  HourlyJobStep(u)
<1> USE DEF SilverInv, MedallionTypeOK
<1>1. due \in [Tables -> Nat] /\ run \in [Runners \X Tables -> Run]
      /\ <<"hourly", u>> \in Runners \X Tables
  OBVIOUS
<1>2. ASSUME run' = run, due' = due PROVE HourlyJobStep(u)
  BY <1>2 DEF HourlyJobStep, Hourly
<1>3. ASSUME NEW t \in Tables, RegisterTable(t) PROVE HourlyJobStep(u)
  <2>1. t \notin registered /\ due' = [due EXCEPT ![t] = day] /\ run' = run
    BY <1>3 DEF RegisterTable, Register
  <2> QED BY <1>1, <2>1 DEF HourlyJobStep, Hourly
<1>4. ASSUME NEW r \in Runners, NEW t \in Tables, NEW date \in Nat,
             Submit(r, t, date),
             r = "hourly" => date = due[t] /\ t \in registered
      PROVE  HourlyJobStep(u)
  <2>1. run[<<r, t>>].phase = "idle" /\ due' = due
    BY <1>4 DEF Submit
  <2> DEFINE last == (r = "hourly" /\ due[t] < day)
             new == [IdleRun EXCEPT !.phase = "started", !.date = date,
                                    !.last = last]
  <2>2. /\ run' = [run EXCEPT ![<<r, t>>] = new]
        /\ new.phase = "started" /\ new.date = date /\ new.last = last
        /\ ~new.stale
    <3>1. run' = [run EXCEPT ![<<r, t>>] = new]
      BY <1>4 DEF Submit
    <3>2. last \in BOOLEAN
      OBVIOUS
    <3> HIDE DEF last
    <3> QED BY <3>1, <3>2, SubmittedRun
  <2> HIDE DEF new
  <2>3. CASE r = "hourly" /\ u = t
    BY <1>1, <1>4, <2>1, <2>2, <2>3 DEF HourlyJobStep, Hourly
  <2>4. CASE r # "hourly" \/ u # t
    <3>1. <<"hourly", u>> # <<r, t>>
      BY <2>4
    <3>2. Hourly(u)' = Hourly(u)
      BY <1>1, <2>2, <3>1 DEF Hourly
    <3> QED BY <2>1, <3>2 DEF HourlyJobStep
  <2> QED BY <2>3, <2>4
<1>5. ASSUME NEW r \in Runners, NEW t \in Tables, ReadBronze(r, t)
      PROVE  HourlyJobStep(u)
  <2>1. CASE Finish(r, t)
    BY <1>5, <2>1, FinishStep DEF ReadBronze
  <2>2. CASE ~Finish(r, t)
    <3>1. /\ run' = [run EXCEPT ![<<r, t>>].phase = "read",
                                ![<<r, t>>].seen = Len(valid[t])]
          /\ due' = due /\ run[<<r, t>>].phase = "started"
      BY <1>5, <2>2 DEF ReadBronze
    <3>2. CASE <<r, t>> = <<"hourly", u>>
      BY <1>1, <3>1, <3>2 DEF HourlyJobStep, Hourly
    <3>3. CASE <<r, t>> # <<"hourly", u>>
      BY <1>1, <3>1, <3>3 DEF HourlyJobStep, Hourly
    <3> QED BY <3>2, <3>3
  <2> QED BY <2>1, <2>2
<1>6. ASSUME NEW r \in Runners, NEW t \in Tables, BeginMerge(r, t)
      PROVE  HourlyJobStep(u)
  <2>1. /\ run' = [run EXCEPT ![<<r, t>>].phase = "merging"]
        /\ due' = due /\ run[<<r, t>>].phase = "read"
    BY <1>6 DEF BeginMerge
  <2>2. CASE <<r, t>> = <<"hourly", u>>
    BY <1>1, <2>1, <2>2 DEF HourlyJobStep, Hourly
  <2>3. CASE <<r, t>> # <<"hourly", u>>
    BY <1>1, <2>1, <2>3 DEF HourlyJobStep, Hourly
  <2> QED BY <2>2, <2>3
<1>7. ASSUME NEW r \in Runners, NEW t \in Tables, CommitMerge(r, t)
      PROVE  HourlyJobStep(u)
  <2>1. run' = Overtaken(r, t) /\ due' = NextDue(r, t)
        /\ run[<<r, t>>].phase = "merging"
    BY <1>7 DEF CommitMerge
  <2>2. CASE <<r, t>> = <<"hourly", u>>
    <3>1. Hourly(u)' = IdleRun
      BY <1>1, <2>1, <2>2 DEF Overtaken, Hourly
    <3>2. due'[u] = IF Hourly(u).last THEN Hourly(u).date + 1 ELSE due[u]
      BY <1>1, <2>1, <2>2 DEF NextDue, Hourly
    <3>3. Hourly(u).phase # "idle"
      BY <2>1, <2>2 DEF Hourly
    <3> QED BY <3>1, <3>2, <3>3 DEF HourlyJobStep
  <2>3. CASE <<r, t>> # <<"hourly", u>>
    <3> DEFINE stale == Hourly(u).stale \/ (u = t /\ Hourly(u).phase = "merging")
    <3>1. Hourly(u)' = [Hourly(u) EXCEPT !.stale = stale]
      BY <1>1, <2>1, <2>3 DEF Overtaken, Hourly
    <3>2. Hourly(u) \in Run
      BY <1>1 DEF Hourly
    <3>3. due'[u] = due[u]
      BY <1>1, <2>1, <2>3 DEF NextDue
    <3>4. stale => Hourly(u).stale \/ Hourly(u).phase = "merging"
      OBVIOUS
    <3> HIDE DEF stale
    <3>5. /\ Hourly(u)'.phase = Hourly(u).phase
          /\ Hourly(u)'.date = Hourly(u).date
          /\ Hourly(u)'.last = Hourly(u).last
          /\ Hourly(u)'.seen = Hourly(u).seen
          /\ Hourly(u)'.stale = stale
      BY <3>1, <3>2 DEF Run
    <3> QED BY <3>3, <3>4, <3>5 DEF HourlyJobStep
  <2> QED BY <2>2, <2>3
<1>8. ASSUME NEW r \in Runners, NEW t \in Tables, Abort(r, t) \/ Fail(r, t)
      PROVE  HourlyJobStep(u)
  <2>1. Finish(r, t) /\ (run[<<r, t>>].phase # "idle" \/ run[<<r, t>>].stale)
    BY <1>8 DEF Abort, Fail
  <2> QED BY <2>1, FinishStep
<1>9. CASE UNCHANGED vars
  BY <1>2, <1>9 DEF vars, silverVars
<1>10. CASE MedallionNext
  <2>1. ASSUME NEW t \in Tables,
               \/ SubmitHourly(t)
               \/ SubmitAgent(t)
               \/ \E date \in 1..day : SubmitManual(t, date)
        PROVE  HourlyJobStep(u)
    <3>1. day \in Nat /\ due[t] \in Nat
      BY <1>1 DEF TypeOK
    <3> QED BY <1>4, <2>1, <3>1 DEF SubmitHourly, SubmitAgent, SubmitManual
  <2>2. ASSUME BronzeStep \/ Midnight PROVE HourlyJobStep(u)
    BY <1>2, <2>2 DEF BronzeStep, Midnight, silverVars
  <2> QED BY <1>3, <1>5, <1>6, <1>7, <1>8, <1>10, <2>1, <2>2
          DEF MedallionNext, Work
<1> QED BY <1>9, <1>10

\* Days and contracts only ever go forward, and so does the date that is due.
LEMMA DueForward ==
    ASSUME SilverInv, HourlyRuns, [MedallionNext]_vars, NEW t \in Tables
    PROVE  /\ registered \subseteq registered'
           /\ day <= day' /\ day \in Nat /\ day' \in Nat
           /\ due[t] <= due'[t] /\ due'[t] <= day'
           /\ due[t] \in Nat /\ due'[t] \in Nat
<1> USE DEF SilverInv, MedallionTypeOK
<1>1. [BronzeNext]_bronzeVars /\ BronzeInv
  BY StepIsBronzeStep
<1>2. day <= day' /\ day \in Nat /\ day' \in Nat
  BY <1>1, PositionStep DEF BronzeInv, TypeOK
<1>3. registered \subseteq registered'
  BY <1>1 DEF BronzeNext, Source, Driver, Register, SourceUpsert, SourceDelete,
              PlanBatch, AppendRow, CommitBatch, StartDriver, Crash, Tick, bronzeVars
<1>4. due[t] \in Nat /\ due'[t] \in Nat
  BY DueStep
<1>5. due[t] <= due'[t] /\ due'[t] <= day'
  <2>1. due[t] <= day
    BY DEF HourlyRuns
  <2>2. CASE "hourly" \in Runners
    <3>1. Hourly(t) \in Run /\ Hourly(t).date \in Nat
      BY <2>2 DEF Hourly, Run
    <3>2. \/ due'[t] = due[t]
          \/ due'[t] = day
          \/ /\ Hourly(t).phase # "idle" \/ Hourly(t).stale
             /\ due'[t] = IF Hourly(t).last THEN Hourly(t).date + 1 ELSE due[t]
      BY <2>2, HourlyJobSteps DEF HourlyJobStep
    <3>3. /\ Hourly(t).stale => Hourly(t).phase # "idle"
          /\ Hourly(t).phase # "idle" => Hourly(t).date = due[t]
          /\ Hourly(t).last => Hourly(t).date < day
      BY <2>2 DEF HourlyRuns
    <3> QED BY <1>2, <1>4, <2>1, <3>1, <3>2, <3>3
  <2>3. CASE "hourly" \notin Runners
    <3>1. \A r \in Runners, u \in Tables : NextDue(r, u) = due
      BY <2>3 DEF NextDue
    <3>2. due' = due \/ \E u \in Tables : due' = [due EXCEPT ![u] = day]
      BY <3>1 DEF MedallionNext, RegisterTable, BronzeStep, Midnight, SubmitHourly,
             SubmitAgent, SubmitManual, Submit, Work, ReadBronze, BeginMerge,
             CommitMerge, Abort, Fail, Finish, vars, silverVars
    <3> QED BY <1>2, <1>4, <2>1, <3>2
  <2> QED BY <2>2, <2>3
<1> QED BY <1>2, <1>3, <1>4, <1>5

\* The hourly runs keep following the calendar.
LEMMA HourlyRunsStep ==
    ASSUME SilverInv, HourlyRuns, [MedallionNext]_vars PROVE HourlyRuns'
<1> SUFFICES ASSUME NEW t \in Tables
             PROVE  /\ due'[t] <= day'
                    /\ "hourly" \in Runners =>
                          /\ Hourly(t)'.phase # "idle" =>
                                t \in registered' /\ Hourly(t)'.date = due'[t]
                          /\ Hourly(t)'.last => Hourly(t)'.date < day'
                          /\ Hourly(t)'.stale => Hourly(t)'.phase # "idle"
  BY DEF HourlyRuns
<1>1. /\ registered \subseteq registered' /\ due'[t] <= day'
      /\ day <= day' /\ day \in Nat /\ day' \in Nat /\ due[t] \in Nat
  BY DueForward
<1> SUFFICES ASSUME "hourly" \in Runners
             PROVE  /\ Hourly(t)'.phase # "idle" =>
                          t \in registered' /\ Hourly(t)'.date = due'[t]
                    /\ Hourly(t)'.last => Hourly(t)'.date < day'
                    /\ Hourly(t)'.stale => Hourly(t)'.phase # "idle"
  BY <1>1
<1>2. /\ Hourly(t).phase # "idle" => t \in registered /\ Hourly(t).date = due[t]
      /\ Hourly(t).last => Hourly(t).date < day
      /\ Hourly(t).stale => Hourly(t).phase # "idle"
  BY DEF HourlyRuns
<1>3. Hourly(t) \in Run /\ Hourly(t).date \in Nat
  BY DEF SilverInv, MedallionTypeOK, Hourly, Run
<1>4. HourlyJobStep(t)
  BY HourlyJobSteps
<1>5. CASE /\ due'[t] = due[t]
           /\ Hourly(t)'.phase = Hourly(t).phase
           /\ Hourly(t)'.date = Hourly(t).date
           /\ Hourly(t)'.last = Hourly(t).last
           /\ Hourly(t)'.seen = Hourly(t).seen
           /\ Hourly(t)'.stale => Hourly(t).stale \/ Hourly(t).phase = "merging"
  BY <1>1, <1>2, <1>3, <1>5
<1>6. CASE t \notin registered /\ Hourly(t)' = Hourly(t)
  BY <1>1, <1>2, <1>3, <1>6
<1>7. CASE /\ Hourly(t)'.phase = "started"
           /\ t \in registered
           /\ due'[t] = due[t]
           /\ Hourly(t)'.date = due[t]
           /\ Hourly(t)'.last => due[t] < day
           /\ ~Hourly(t)'.stale
  BY <1>1, <1>7
<1>8. CASE /\ Hourly(t).phase = "started"
           /\ due'[t] = due[t]
           /\ Hourly(t)' = [Hourly(t) EXCEPT !.phase = "read", !.seen = Len(valid[t])]
  BY <1>1, <1>2, <1>3, <1>8 DEF Run
<1>9. CASE /\ Hourly(t).phase = "read"
           /\ due'[t] = due[t]
           /\ Hourly(t)' = [Hourly(t) EXCEPT !.phase = "merging"]
  BY <1>1, <1>2, <1>3, <1>9 DEF Run
<1>10. CASE Hourly(t)' = IdleRun
  BY <1>10 DEF IdleRun
<1> QED BY <1>4, <1>5, <1>6, <1>7, <1>8, <1>9, <1>10 DEF HourlyJobStep

\* While nobody else starts a run, no other runner has one.
LEMMA OnlyHourlyStep ==
    ASSUME SilverInv, OnlyHourlyRuns, [MedallionNext]_vars
    PROVE  OnlyHourlyRuns' /\ (started' = 0 => started = 0)
<1> USE DEF SilverInv, MedallionTypeOK
<1>1. run \in [Runners \X Tables -> Run] /\ started \in Nat
  OBVIOUS
<1>2. started' = started \/ started' = started + 1
  BY DEF MedallionNext, RegisterTable, BronzeStep, Midnight, SubmitHourly,
         SubmitAgent, SubmitManual, Submit, Work, ReadBronze, BeginMerge,
         CommitMerge, Abort, Fail, vars, silverVars
<1>3. started' = 0 => started = 0
  BY <1>1, <1>2
<1>4. ASSUME started' = 0, NEW job \in Runners \X Tables, job[1] # "hourly",
             run[job].phase = "idle"
      PROVE  run'[job].phase = "idle"
  <2> DEFINE Goal == run'[job].phase = "idle"
  <2>1. ASSUME NEW r \in Runners, NEW t \in Tables, Finish(r, t) PROVE Goal
    BY <1>1, <1>4, <2>1 DEF Finish, IdleRun
  <2>2. ASSUME NEW t \in Tables, SubmitHourly(t) PROVE Goal
    <3>1. job # <<"hourly", t>>
      BY <1>4
    <3> QED BY <1>1, <1>4, <2>2, <3>1 DEF SubmitHourly, Submit
  <2>3. ASSUME NEW r \in Runners, NEW t \in Tables, Work(r, t) \/ Fail(r, t)
        PROVE  Goal
    <3>1. CASE BeginMerge(r, t)
      <4>1. job # <<r, t>>
        BY <1>4, <3>1 DEF BeginMerge
      <4> QED BY <1>1, <1>4, <3>1, <4>1 DEF BeginMerge
    <3>2. CASE ReadBronze(r, t)
      <4>1. job # <<r, t>>
        BY <1>4, <3>2 DEF ReadBronze
      <4>2. \/ Finish(r, t)
            \/ run' = [run EXCEPT ![<<r, t>>].phase = "read",
                                  ![<<r, t>>].seen = Len(valid[t])]
        BY <3>2 DEF ReadBronze
      <4>3. ASSUME run' = [run EXCEPT ![<<r, t>>].phase = "read",
                                      ![<<r, t>>].seen = Len(valid[t])]
            PROVE  run'[job] = run[job]
        BY <1>1, <4>1, <4>3
      <4> QED BY <1>4, <2>1, <4>2, <4>3
    <3>3. CASE CommitMerge(r, t)
      <4>1. run' = Overtaken(r, t) /\ job # <<r, t>>
        BY <1>4, <3>3 DEF CommitMerge
      <4> DEFINE stale == run[job].stale \/ (job[2] = t /\ run[job].phase = "merging")
      <4>2. run'[job] = [run[job] EXCEPT !.stale = stale]
        BY <1>4, <4>1 DEF Overtaken
      <4> HIDE DEF stale
      <4> QED BY <1>1, <1>4, <4>2 DEF Run
    <3>4. CASE Abort(r, t) \/ Fail(r, t)
      BY <2>1, <3>4 DEF Abort, Fail
    <3> QED BY <2>3, <3>1, <3>2, <3>3, <3>4 DEF Work
  <2>4. ASSUME NEW t \in Tables,
               SubmitAgent(t) \/ \E date \in 1..day : SubmitManual(t, date)
        PROVE  FALSE
    BY <1>1, <1>4, <2>4 DEF SubmitAgent, SubmitManual
  <2>5. ASSUME UNCHANGED run PROVE Goal
    BY <1>4, <2>5
  <2>6. ASSUME (\E t \in Tables : RegisterTable(t)) \/ BronzeStep \/ Midnight
        PROVE  UNCHANGED run
    BY <2>6 DEF RegisterTable, BronzeStep, Midnight, silverVars
  <2>7. CASE UNCHANGED vars
    BY <2>5, <2>7 DEF vars, silverVars
  <2>8. CASE MedallionNext
    BY <2>2, <2>3, <2>4, <2>5, <2>6, <2>8 DEF MedallionNext
  <2> QED BY <2>7, <2>8
<1>5. OnlyHourlyRuns'
  BY <1>3, <1>4 DEF OnlyHourlyRuns
<1> QED BY <1>3, <1>5

\* What a commit adds to Silver: images of rows of the run's date it has seen,
\* and of every key the last of them.
LEMMA CommitAdds ==
    ASSUME SilverInv, NEW r \in Runners, NEW t \in Tables, CommitMerge(r, t),
           NEW row \in silver'[t], row \notin silver[t]
    PROVE  LET S == Parsed(t, DateRows(t, run[<<r, t>>].date, run[<<r, t>>].seen))
           IN  \E i \in S :
                  /\ row = [key |-> KeyOf(t, i), src |-> valid[t][i].src]
                  /\ \A j \in S : KeyOf(t, j) = row.key => j <= i
<1> DEFINE S == Parsed(t, DateRows(t, run[<<r, t>>].date, run[<<r, t>>].seen))
<1>1. row \in Merge(t, silver[t], Dedup(t, S))
  BY DEF CommitMerge, SilverInv, MedallionTypeOK
<1> HIDE DEF S
<1>2. PICK i \in Dedup(t, S) : row = [key |-> KeyOf(t, i), src |-> valid[t][i].src]
  BY <1>1 DEF Merge
<1>3. i \in S /\ \A j \in S : KeyOf(t, j) = KeyOf(t, i) => j <= i
  BY <1>2 DEF Dedup
<1> QED BY <1>2, <1>3 DEF S

\* Silver stays within what was due, and within what a run under way has seen.
LEMMA MergedInTimeStep ==
    ASSUME HourlyInv, [MedallionNext]_vars PROVE MergedInTime'
<1> USE DEF HourlyInv
<1> SUFFICES ASSUME started' = 0, NEW t \in Tables, NEW row \in silver'[t]
             PROVE  \E i \in DOMAIN valid'[t] :
                       /\ valid'[t][i].src = row.src
                       /\ valid'[t][i].day <= due'[t]
                       /\ HasRead(t)' /\ valid'[t][i].day = due'[t]
                             => i <= Hourly(t)'.seen
  BY DEF MergedInTime
<1>1. started = 0
  BY OnlyHourlyStep
<1>2. due[t] <= due'[t] /\ due[t] \in Nat /\ due'[t] \in Nat
  BY DueForward
<1>3. \A i \in DOMAIN valid[t] : i \in DOMAIN valid'[t] /\ valid'[t][i] = valid[t][i]
  BY StepIsBronzeStep, NothingTakenBack DEF SilverInv, BronzeInv
<1>4. /\ DOMAIN valid[t] = 1..Len(valid[t]) /\ Len(valid[t]) \in Nat
      /\ \A i \in DOMAIN valid[t] : valid[t][i].day \in Nat
  <2>1. valid[t] \in Seq(ValidRow)
    BY DEF SilverInv, BronzeInv, TypeOK
  <2>2. DOMAIN valid[t] = 1..Len(valid[t]) /\ Len(valid[t]) \in Nat
    BY <2>1, LenProperties
  <2>3. \A i \in DOMAIN valid[t] : valid[t][i] \in ValidRow
    BY <2>1, <2>2, ElementOfSeq
  <2> QED BY <2>2, <2>3 DEF ValidRow
<1>5. CASE row \in silver[t]
  <2>1. PICK i \in DOMAIN valid[t] :
           /\ valid[t][i].src = row.src
           /\ valid[t][i].day <= due[t]
           /\ HasRead(t) /\ valid[t][i].day = due[t] => i <= Hourly(t).seen
    BY <1>1, <1>5 DEF MergedInTime
  <2>2. ASSUME HasRead(t)', valid[t][i].day = due'[t] PROVE i <= Hourly(t)'.seen
    <3>1. valid[t][i].day = due[t]
      BY <1>2, <1>4, <2>1, <2>2
    <3>2. "hourly" \in Runners /\ Hourly(t)'.phase \in {"read", "merging"}
      BY <2>2 DEF HasRead
    <3>3. HourlyJobStep(t) /\ Hourly(t) \in Run
      BY <3>2, HourlyJobSteps DEF Hourly, SilverInv, MedallionTypeOK
    <3>4. Hourly(t).phase # "idle" => t \in registered
      BY <3>2 DEF HourlyRuns
    <3>5. CASE /\ Hourly(t)'.phase = Hourly(t).phase
               /\ Hourly(t)'.seen = Hourly(t).seen
      BY <2>1, <3>1, <3>2, <3>5 DEF HasRead
    <3>6. CASE t \notin registered /\ Hourly(t)' = Hourly(t)
      BY <3>2, <3>4, <3>6
    <3>7. CASE Hourly(t)'.phase = "started"
      BY <3>2, <3>7
    <3>8. CASE Hourly(t)' = [Hourly(t) EXCEPT !.phase = "read", !.seen = Len(valid[t])]
      <4>1. Hourly(t)'.seen = Len(valid[t])
        BY <3>3, <3>8 DEF Run
      <4> QED BY <1>4, <2>1, <4>1
    <3>9. CASE /\ Hourly(t).phase = "read"
               /\ Hourly(t)' = [Hourly(t) EXCEPT !.phase = "merging"]
      <4>1. Hourly(t)'.seen = Hourly(t).seen
        BY <3>3, <3>9 DEF Run
      <4> QED BY <2>1, <3>1, <3>2, <3>9, <4>1 DEF HasRead
    <3>10. CASE Hourly(t)' = IdleRun
      BY <3>2, <3>10 DEF IdleRun
    <3> QED BY <3>3, <3>5, <3>6, <3>7, <3>8, <3>9, <3>10 DEF HourlyJobStep
  <2>3. valid[t][i].day <= due'[t]
    BY <1>2, <1>4, <2>1
  <2> QED BY <1>3, <2>1, <2>2, <2>3
<1>6. CASE row \notin silver[t]
  <2>1. PICK r \in Runners, u \in Tables : CommitMerge(r, u)
    BY <1>6, OnlyCommitsWrite
  <2>2. u = t
    BY <1>6, <2>1 DEF CommitMerge, SilverInv, MedallionTypeOK
  <2>3. r = "hourly"
    BY <1>1, <2>1 DEF OnlyHourlyRuns, CommitMerge
  <2>4. Hourly(t)' = IdleRun
    BY <2>1, <2>2, <2>3 DEF CommitMerge, Overtaken, Hourly
  <2>5. ~HasRead(t)'
    BY <2>4 DEF HasRead, IdleRun
  <2>6. PICK i \in DateRows(t, Hourly(t).date, Hourly(t).seen) :
           row.src = valid[t][i].src
    BY <1>6, <2>1, <2>2, <2>3, CommitAdds DEF Parsed, Hourly
  <2>7. i \in DOMAIN valid[t] /\ valid[t][i].day = Hourly(t).date
    <3>1. Hourly(t).seen \in Nat /\ Hourly(t).seen <= Len(valid[t])
      <4>1. <<"hourly", t>> \in Runners \X Tables /\ <<"hourly", t>>[2] = t
        BY <2>1, <2>3
      <4> QED BY <4>1 DEF SilverInv, MedallionTypeOK, Run, SeenIsPrefix, Hourly
    <3> QED BY <1>4, <2>6, <3>1 DEF DateRows
  <2>8. Hourly(t).date = due[t]
    BY <2>1, <2>2, <2>3 DEF HourlyRuns, CommitMerge, Hourly
  <2> QED BY <1>2, <1>3, <2>5, <2>6, <2>7, <2>8
<1> QED BY <1>5, <1>6

\* HourlyInv holds initially and is preserved by every step, other runners'
\* and a crashing driver's included.
THEOREM HourlyInvInductive ==
    ASSUME HourlyInv, [MedallionNext]_vars PROVE HourlyInv'
<1> USE DEF HourlyInv
<1>1. DatesInOrder' /\ OffsetsInOrder'
  BY StepIsBronzeStep, OrderStep DEF SilverInv, BronzeInv
<1> QED BY <1>1, SilverInvInductive, HourlyRunsStep, OnlyHourlyStep, MergedInTimeStep

LEMMA HourlyInvInit == MedallionInit => HourlyInv
<1> SUFFICES ASSUME MedallionInit PROVE HourlyInv
  OBVIOUS
<1>1. DatesInOrder /\ OffsetsInOrder
  BY DEF MedallionInit, BronzeInit, DatesInOrder, OffsetsInOrder
<1>2. HourlyRuns
  BY DEF MedallionInit, BronzeInit, HourlyRuns, Hourly, IdleRun
<1>3. OnlyHourlyRuns
  BY DEF MedallionInit, OnlyHourlyRuns, IdleRun
<1>4. MergedInTime
  BY DEF MedallionInit, MergedInTime
<1> QED BY <1>1, <1>2, <1>3, <1>4, SilverInvInit DEF HourlyInv

THEOREM HourlyInvariance == MedallionSpec => []HourlyInv
<1>1. MedallionInit => HourlyInv
  BY HourlyInvInit
<1>2. HourlyInv /\ [MedallionNext]_vars => HourlyInv'
  BY HourlyInvInductive
<1> QED BY <1>1, <1>2, PTL DEF MedallionSpec

\* A commit of the hourly run replaces a row by one that is not older: the row
\* came from an earlier date, whose events precede, or from this date, and
\* then the run has seen its Bronze row too.
LEMMA HourlyCommit ==
    ASSUME HourlyInv, crashes = 0, started = 0, [MedallionNext]_vars,
           NEW t \in Tables, NEW r \in silver[t], NEW s \in silver'[t],
           r.key = s.key
    PROVE  r.src <= s.src
<1> USE DEF HourlyInv
<1>0. r \in SilverRow /\ r.src \in Nat
  BY DEF SilverInv, MedallionTypeOK, SilverRow
<1>1. CASE s \in silver[t]
  <2>1. r = s
    BY <1>1 DEF SilverInv, OneRowPerKey
  <2> QED BY <1>0, <2>1
<1>2. CASE s \notin silver[t]
  <2>1. PICK q \in Runners, u \in Tables : CommitMerge(q, u)
    BY <1>2, OnlyCommitsWrite
  <2>2. u = t
    BY <1>2, <2>1 DEF CommitMerge, SilverInv, MedallionTypeOK
  <2>3. q = "hourly" /\ Hourly(t).phase = "merging" /\ "hourly" \in Runners
    BY <2>1, <2>2 DEF OnlyHourlyRuns, CommitMerge, Hourly
  <2>4. Hourly(t).date = due[t] /\ HasRead(t)
    BY <2>3 DEF HourlyRuns, HasRead
  <2> DEFINE D == DateRows(t, Hourly(t).date, Hourly(t).seen)
             S == Parsed(t, D)
  <2>5. PICK i \in S :
           /\ s = [key |-> KeyOf(t, i), src |-> valid[t][i].src]
           /\ \A j \in S : KeyOf(t, j) = s.key => j <= i
    BY <1>2, <2>1, <2>2, <2>3, CommitAdds DEF Hourly
  <2>6. PICK j \in DOMAIN valid[t] :
           /\ valid[t][j].src = r.src
           /\ valid[t][j].day <= due[t]
           /\ valid[t][j].day = due[t] => j <= Hourly(t).seen
    BY <2>4 DEF MergedInTime
  <2>7. Hourly(t).seen \in Nat /\ Hourly(t).seen <= Len(valid[t])
    <3>1. <<"hourly", t>> \in Runners \X Tables /\ <<"hourly", t>>[2] = t
      BY <2>3
    <3> QED BY <3>1 DEF SilverInv, MedallionTypeOK, Run, SeenIsPrefix, Hourly
  <2>8. i \in D /\ Nested
    BY <2>5 DEF Parsed
  <2>9. i \in DOMAIN valid[t] /\ i \in Nat /\ valid[t][i].src \in Nat
    BY <2>7, <2>8, SeenRows DEF SilverInv
  <2>10. valid[t][i].day = due[t]
    BY <2>4, <2>8 DEF DateRows
  <2>11. /\ j \in Nat /\ j >= 1 /\ valid[t][j].day \in Nat /\ due[t] \in Nat
    <3>1. valid[t] \in Seq(ValidRow)
      BY DEF SilverInv, BronzeInv, TypeOK
    <3>2. j \in 1..Len(valid[t]) /\ Len(valid[t]) \in Nat
      BY <3>1, LenProperties
    <3>3. valid[t][j] \in ValidRow
      BY <3>1, <3>2, ElementOfSeq
    <3> QED BY <3>2, <3>3 DEF ValidRow, SilverInv, MedallionTypeOK
  <2>12. j <= i
    <3>1. CASE valid[t][j].day = due[t]
      <4>1. j \in D
        BY <2>4, <2>6, <2>7, <2>11, <3>1 DEF DateRows
      <4>2. r.src \in Images(t, r.key)
        BY DEF SilverInv, SilverFromBronze
      <4>3. /\ log[t][valid[t][j].src].key = r.key
            /\ log[t][valid[t][j].src].kind \in {"c", "u"}
        BY <2>6, <4>2 DEF Images
      <4>4. j \in S /\ KeyOf(t, j) = s.key
        BY <2>8, <4>1, <4>3 DEF Parsed, KeyOf
      <4> QED BY <2>5, <4>4
    <3>2. CASE valid[t][j].day # due[t]
      <4>1. ~(i <= j)
        BY <2>6, <2>9, <2>10, <2>11, <3>2 DEF DatesInOrder
      <4> QED BY <2>9, <2>11, <4>1
    <3> QED BY <3>1, <3>2
  <2>13. valid[t][j].src <= valid[t][i].src
    <3>1. CASE j = i
      BY <2>9, <3>1
    <3>2. CASE j < i
      BY <1>0, <2>6, <2>9, <3>2 DEF OffsetsInOrder
    <3> QED BY <2>9, <2>11, <2>12, <3>1, <3>2
  <2> QED BY <2>5, <2>6, <2>13
<1> QED BY <1>1, <1>2

\* The hourly DAG alone keeps the most recent event of every row, over
\* midnights and failed runs, until a Bronze driver crashes.
THEOREM HourlyKeepsNewest == MedallionSpec => HourlyNeverRegresses
<1>1. HourlyInv /\ [MedallionNext]_vars =>
        [crashes = 0 /\ started = 0 =>
            \A t \in Tables : \A r \in silver[t] : \A s \in silver'[t] :
                r.key = s.key => r.src <= s.src]_vars
  BY HourlyCommit
<1> QED BY <1>1, HourlyInvariance, PTL DEF MedallionSpec, HourlyNeverRegresses

-----------------------------------------------------------------------------
(* What a MERGE leaves behind.                                             *)

\* A set of natural numbers has a least element, and a bounded one a greatest.
LEMMA LeastElement ==
    ASSUME NEW T \in SUBSET Nat, T # {}
    PROVE  \E x \in T : \A y \in T : x <= y
<1> DEFINE R == {ss \in Nat \X Nat : ss[1] < ss[2]}
<1>1. IsWellFoundedOn(R, Nat)
  BY NatLessThanWellFounded DEF OpToRel
<1> HIDE DEF R
<1>2. PICK x \in T : \A y \in T : <<y, x>> \notin R
  BY <1>1, WFMin
<1>3. \A y \in T : ~(y < x)
  BY <1>2 DEF R
<1> QED BY <1>3

LEMMA GreatestElement ==
    ASSUME NEW n \in Nat, NEW T \in SUBSET (1..n), T # {}
    PROVE  \E x \in T : \A y \in T : y <= x
<1> DEFINE U == {m \in Nat : \E y \in T : m + y = n}
<1>1. PICK y \in T : TRUE
  OBVIOUS
<1>2. n - y \in U
  BY <1>1
<1>3. PICK m \in U : \A k \in U : m <= k
  <2>1. U \in SUBSET Nat /\ U # {}
    BY <1>2
  <2> HIDE DEF U
  <2> QED BY <2>1, LeastElement
<1>4. PICK x \in T : m + x = n
  BY <1>3
<1>5. ASSUME NEW z \in T PROVE z <= x
  <2>1. n - z \in U
    OBVIOUS
  <2>2. m <= n - z
    BY <1>3, <2>1
  <2> QED BY <1>3, <1>4, <2>2
<1> QED BY <1>5

MergedBy(r, t) ==
    Parsed(t, DateRows(t, run[<<r, t>>].date, run[<<r, t>>].seen))

\* A commit leaves, for every key it merges, the last of its images: no MERGE
\* deletes, since no row of bronze.t_valid carries the op of a delete.
LEMMA CommitUpserts ==
    ASSUME SilverInv, OpsAreReads, NEW r \in Runners, NEW t \in Tables,
           CommitMerge(r, t), NEW i \in MergedBy(r, t)
    PROVE  \E l \in MergedBy(r, t) :
              /\ KeyOf(t, l) = KeyOf(t, i)
              /\ \A j \in MergedBy(r, t) : KeyOf(t, j) = KeyOf(t, i) => j <= l
              /\ [key |-> KeyOf(t, i), src |-> valid[t][l].src] \in silver'[t]
<1> DEFINE S == MergedBy(r, t)
           seen == run[<<r, t>>].seen
           T == {j \in S : KeyOf(t, j) = KeyOf(t, i)}
<1>1. seen \in Nat /\ seen <= Len(valid[t])
  <2>1. <<r, t>> \in Runners \X Tables /\ <<r, t>>[2] = t
    OBVIOUS
  <2> QED BY <2>1 DEF SilverInv, MedallionTypeOK, Run, SeenIsPrefix
<1>2. S \subseteq 1..seen /\ Nested
  BY DEF MergedBy, Parsed, DateRows
<1>3. PICK l \in T : \A j \in T : j <= l
  <2>1. T \in SUBSET (1..seen) /\ T # {}
    BY <1>2
  <2> HIDE DEF T
  <2> QED BY <1>1, <2>1, GreatestElement
<1>4. l \in S /\ KeyOf(t, l) = KeyOf(t, i)
      /\ \A j \in S : KeyOf(t, j) = KeyOf(t, i) => j <= l
  BY <1>3
<1>5. l \in Dedup(t, S)
  BY <1>4 DEF Dedup
<1>6. valid[t][l].op = "r"
  <2>1. valid[t] \in Seq(ValidRow)
    BY DEF SilverInv, BronzeInv, TypeOK
  <2>2. l \in DOMAIN valid[t]
    BY <1>1, <1>2, <1>4, <2>1, LenProperties
  <2> QED BY <1>2, <2>2 DEF OpsAreReads
<1>7. silver'[t] = Merge(t, silver[t], Dedup(t, S))
  BY DEF CommitMerge, SilverInv, MedallionTypeOK, MergedBy
<1> HIDE DEF S, T
<1>8. [key |-> KeyOf(t, l), src |-> valid[t][l].src] \in silver'[t]
  BY <1>5, <1>6, <1>7 DEF Merge
<1> QED BY <1>4, <1>8 DEF S

\* A row the commit does not replace stays.
LEMMA CommitKeeps ==
    ASSUME SilverInv, NEW r \in Runners, NEW t \in Tables, CommitMerge(r, t),
           NEW row \in silver[t]
    PROVE  row \in silver'[t] \/ \E i \in MergedBy(r, t) : KeyOf(t, i) = row.key
<1>1. silver'[t] = Merge(t, silver[t], Dedup(t, MergedBy(r, t)))
  BY DEF CommitMerge, SilverInv, MedallionTypeOK, MergedBy
<1>2. Dedup(t, MergedBy(r, t)) \subseteq MergedBy(r, t)
  BY DEF Dedup
<1> QED BY <1>1, <1>2 DEF Merge

\* A key that is in Silver stays there.
SilverKeepsKeys ==
    [][\A t \in Tables : \A row \in silver[t] :
          \E s \in silver'[t] : s.key = row.key]_vars

\* No run of anybody, for whatever date, ever takes a row out of Silver: the
\* deletes of the source cannot arrive.
THEOREM NothingLeavesSilver == MedallionSpec => SilverKeepsKeys
<1>1. MedallionInit => OpsAreReads
  BY DEF MedallionInit, BronzeInit, OpsAreReads
<1>2. SilverInv /\ OpsAreReads /\ [MedallionNext]_vars => OpsAreReads'
  BY StepIsBronzeStep, OpsStep DEF SilverInv, BronzeInv
<1>3. ASSUME SilverInv, OpsAreReads, [MedallionNext]_vars
      PROVE  [\A t \in Tables : \A row \in silver[t] :
                 \E s \in silver'[t] : s.key = row.key]_vars
  <2> SUFFICES ASSUME NEW t \in Tables, NEW row \in silver[t]
               PROVE  \E s \in silver'[t] : s.key = row.key
    OBVIOUS
  <2>1. CASE row \in silver'[t]
    BY <2>1
  <2>2. CASE row \notin silver'[t]
    <3>1. PICK r \in Runners : CommitMerge(r, t)
      <4>1. PICK r \in Runners, u \in Tables : CommitMerge(r, u)
        BY <1>3, <2>2, OnlyCommitsWrite
      <4>2. u = t
        BY <1>3, <2>2, <4>1 DEF CommitMerge, SilverInv, MedallionTypeOK
      <4> QED BY <4>1, <4>2
    <3>2. PICK i \in MergedBy(r, t) : KeyOf(t, i) = row.key
      BY <1>3, <2>2, <3>1, CommitKeeps
    <3>3. \E l \in MergedBy(r, t) :
             [key |-> KeyOf(t, i), src |-> valid[t][l].src] \in silver'[t]
      BY <1>3, <3>1, CommitUpserts
    <3> QED BY <3>2, <3>3
  <2> QED BY <2>1, <2>2
<1> QED BY <1>1, <1>2, <1>3, SilverInvariance, PTL
        DEF MedallionSpec, SilverKeepsKeys

-----------------------------------------------------------------------------
(* Nothing of a closed date is missing.                                    *)

\* The last run of a date starts after midnight: it sees all rows of its date.
LastSeesAll ==
    \A t \in Tables :
        HasRead(t) /\ Hourly(t).last =>
            \A i \in DOMAIN valid[t] :
                valid[t][i].day = Hourly(t).date => i <= Hourly(t).seen

\* An hourly run that is alone is never overtaken by another commit.
NeverOvertaken ==
    started = 0 =>
        \A t \in Tables : "hourly" \in Runners => ~Hourly(t).stale

ClosedInv ==
    /\ HourlyInv
    /\ OpsAreReads
    /\ ContractsFirst
    /\ LastSeesAll
    /\ NeverOvertaken
    /\ ClosedDatesMerged

\* A row that is new in bronze.t_valid carries today's date.
LEMMA NewRowsAreToday ==
    ASSUME BronzeInv, [MedallionNext]_vars, NEW t \in Tables,
           NEW i \in DOMAIN valid'[t]
    PROVE  \/ i \in DOMAIN valid[t] /\ valid'[t][i] = valid[t][i]
           \/ i = Len(valid[t]) + 1 /\ valid'[t][i].day = day /\ day' = day
<1> USE DEF BronzeInv
<1>1. valid[t] \in Seq(ValidRow) /\ [BronzeNext]_bronzeVars
  BY StepIsBronzeStep DEF TypeOK
<1>2. CASE valid'[t] = valid[t]
  BY <1>2
<1>3. CASE valid'[t] # valid[t]
  <2>1. PICK v \in ValidRow :
           valid'[t] = Append(valid[t], v) /\ v.day = day /\ day' = day
    BY <1>1, <1>3, ValidStep
  <2>2. /\ DOMAIN valid'[t] = 1..(Len(valid[t]) + 1)
        /\ DOMAIN valid[t] = 1..Len(valid[t]) /\ Len(valid[t]) \in Nat
        /\ valid'[t][Len(valid[t]) + 1] = v
        /\ \A k \in 1..Len(valid[t]) : valid'[t][k] = valid[t][k]
    BY <1>1, <2>1, AppendFacts
  <2> QED BY <2>1, <2>2
<1> QED BY <1>2, <1>3

\* An hourly run whose table it is keeps its place, or just read Bronze.
LEMMA HasReadStep ==
    ASSUME SilverInv, HourlyRuns, [MedallionNext]_vars, NEW t \in Tables,
           HasRead(t)'
    PROVE  /\ Hourly(t)'.date = Hourly(t).date
           /\ Hourly(t)'.last = Hourly(t).last
           /\ \/ HasRead(t) /\ Hourly(t)'.seen = Hourly(t).seen
              \/ Hourly(t)'.seen = Len(valid[t]) /\ valid' = valid
<1>1. "hourly" \in Runners /\ Hourly(t)'.phase \in {"read", "merging"}
  BY DEF HasRead
<1>2. HourlyJobStep(t) /\ Hourly(t) \in Run
  BY <1>1, HourlyJobSteps DEF Hourly, SilverInv, MedallionTypeOK
<1>3. Hourly(t).phase # "idle" => t \in registered
  BY <1>1 DEF HourlyRuns
<1>4. CASE /\ Hourly(t)'.phase = Hourly(t).phase
           /\ Hourly(t)'.date = Hourly(t).date
           /\ Hourly(t)'.last = Hourly(t).last
           /\ Hourly(t)'.seen = Hourly(t).seen
  BY <1>1, <1>4 DEF HasRead
<1>5. CASE t \notin registered /\ Hourly(t)' = Hourly(t)
  BY <1>1, <1>3, <1>5
<1>6. CASE Hourly(t)'.phase = "started" \/ Hourly(t)' = IdleRun
  BY <1>1, <1>6 DEF IdleRun
<1>7. CASE /\ Hourly(t).phase = "started"
           /\ Hourly(t)' = [Hourly(t) EXCEPT !.phase = "read", !.seen = Len(valid[t])]
  <2>1. /\ Hourly(t)'.date = Hourly(t).date
        /\ Hourly(t)'.last = Hourly(t).last
        /\ Hourly(t)'.seen = Len(valid[t])
    BY <1>2, <1>7 DEF Run
  <2>2. run' # run
    BY <1>1, <1>7 DEF Hourly
  <2>3. valid' = valid
    BY <2>2 DEF MedallionNext, RegisterTable, BronzeStep, Midnight, SubmitHourly,
       SubmitAgent, SubmitManual, Submit, Work, ReadBronze, BeginMerge,
       CommitMerge, Abort, Fail, vars, silverVars, bronzeVars
  <2> QED BY <2>1, <2>3
<1>8. CASE /\ Hourly(t).phase = "read"
           /\ Hourly(t)' = [Hourly(t) EXCEPT !.phase = "merging"]
  BY <1>1, <1>2, <1>8 DEF Run, HasRead
<1> QED BY <1>2, <1>4, <1>5, <1>6, <1>7, <1>8 DEF HourlyJobStep

LEMMA LastSeesAllStep ==
    ASSUME SilverInv, HourlyRuns, LastSeesAll, [MedallionNext]_vars
    PROVE  LastSeesAll'
<1> SUFFICES ASSUME NEW t \in Tables, HasRead(t)', Hourly(t)'.last,
                    NEW i \in DOMAIN valid'[t],
                    valid'[t][i].day = Hourly(t)'.date
             PROVE  i <= Hourly(t)'.seen
  BY DEF LastSeesAll
<1>1. /\ Hourly(t)'.date = Hourly(t).date
      /\ Hourly(t).last
      /\ \/ HasRead(t) /\ Hourly(t)'.seen = Hourly(t).seen
         \/ Hourly(t)'.seen = Len(valid[t]) /\ valid' = valid
  BY HasReadStep
<1>2. "hourly" \in Runners
  BY DEF HasRead
<1>3. Hourly(t).date < day /\ Hourly(t).date \in Nat /\ day \in Nat
  BY <1>1, <1>2 DEF HourlyRuns, SilverInv, MedallionTypeOK, Hourly, Run, TypeOK
<1>4. i \in DOMAIN valid[t] /\ valid'[t][i] = valid[t][i]
  BY <1>1, <1>3, NewRowsAreToday DEF SilverInv
<1>5. CASE HasRead(t) /\ Hourly(t)'.seen = Hourly(t).seen
  BY <1>1, <1>4, <1>5 DEF LastSeesAll
<1>6. CASE Hourly(t)'.seen = Len(valid[t])
  <2>1. DOMAIN valid[t] = 1..Len(valid[t])
    BY LenProperties DEF SilverInv, BronzeInv, TypeOK
  <2> QED BY <1>4, <1>6, <2>1
<1> QED BY <1>1, <1>5, <1>6

\* Only a commit of another runner marks an hourly run stale.
LEMMA StaleStep ==
    ASSUME SilverInv, [MedallionNext]_vars, NEW t \in Tables,
           "hourly" \in Runners, Hourly(t)'.stale, ~Hourly(t).stale
    PROVE  \E r \in Runners : r # "hourly" /\ CommitMerge(r, t)
<1> USE DEF SilverInv, MedallionTypeOK
<1> DEFINE job == <<"hourly", t>>
<1>1. /\ run \in [Runners \X Tables -> Run] /\ job \in Runners \X Tables
      /\ run'[job].stale /\ ~run[job].stale
  BY DEF Hourly
<1> HIDE DEF job
<1>2. ASSUME NEW r \in Runners, NEW u \in Tables, Finish(r, u) PROVE FALSE
  BY <1>1, <1>2 DEF Finish, IdleRun
<1>3. ASSUME NEW r \in Runners, NEW u \in Tables, NEW date \in Nat, Submit(r, u, date)
      PROVE  FALSE
  <2> DEFINE last == (r = "hourly" /\ due[u] < day)
             new == [IdleRun EXCEPT !.phase = "started", !.date = date,
                                    !.last = last]
  <2>1. run' = [run EXCEPT ![<<r, u>>] = new]
    BY <1>3 DEF Submit
  <2>2. ~new.stale
    <3>1. last \in BOOLEAN
      OBVIOUS
    <3> HIDE DEF last
    <3> QED BY <3>1, SubmittedRun
  <2> HIDE DEF new
  <2> QED BY <1>1, <2>1, <2>2
<1>4. ASSUME NEW r \in Runners, NEW u \in Tables, ReadBronze(r, u) PROVE FALSE
  <2>1. run' = [run EXCEPT ![<<r, u>>].phase = "read",
                           ![<<r, u>>].seen = Len(valid[u])]
    BY <1>2, <1>4 DEF ReadBronze
  <2>2. CASE job = <<r, u>>
    BY <1>1, <2>1, <2>2 DEF Run
  <2>3. CASE job # <<r, u>>
    BY <1>1, <2>1, <2>3
  <2> QED BY <2>2, <2>3
<1>5. ASSUME NEW r \in Runners, NEW u \in Tables, BeginMerge(r, u) PROVE FALSE
  <2>1. run' = [run EXCEPT ![<<r, u>>].phase = "merging"]
    BY <1>5 DEF BeginMerge
  <2>2. CASE job = <<r, u>>
    BY <1>1, <2>1, <2>2 DEF Run
  <2>3. CASE job # <<r, u>>
    BY <1>1, <2>1, <2>3
  <2> QED BY <2>2, <2>3
<1>6. ASSUME NEW r \in Runners, NEW u \in Tables, CommitMerge(r, u)
      PROVE  r # "hourly" /\ u = t
  <2>1. run' = Overtaken(r, u)
    BY <1>6 DEF CommitMerge
  <2>2. job # <<r, u>>
    BY <1>1, <2>1 DEF Overtaken, IdleRun
  <2> DEFINE stale == run[job].stale \/ (job[2] = u /\ run[job].phase = "merging")
  <2>3. run'[job] = [run[job] EXCEPT !.stale = stale]
    BY <1>1, <2>1, <2>2 DEF Overtaken
  <2>4. stale \in BOOLEAN
    BY <1>1
  <2> HIDE DEF stale
  <2>5. run'[job].stale = stale
    BY <1>1, <2>3, <2>4 DEF Run
  <2>6. job[2] = u
    BY <1>1, <2>5 DEF stale
  <2> QED BY <2>2, <2>6 DEF job
<1>7. ASSUME UNCHANGED run PROVE FALSE
  BY <1>1, <1>7
<1>8. MedallionNext
  BY <1>7 DEF vars, silverVars
<1>9. day \in Nat /\ \A u \in Tables : due[u] \in Nat
  BY DEF TypeOK
<1>10. ASSUME NEW u \in Tables,
              \/ SubmitHourly(u)
              \/ SubmitAgent(u)
              \/ \E date \in 1..day : SubmitManual(u, date)
       PROVE  FALSE
  BY <1>3, <1>9, <1>10 DEF SubmitHourly, SubmitAgent, SubmitManual
<1>11. ~BronzeStep /\ ~Midnight /\ \A u \in Tables : ~RegisterTable(u)
  BY <1>7 DEF BronzeStep, Midnight, RegisterTable, silverVars
<1>12. PICK r \in Runners, u \in Tables : Work(r, u) \/ Fail(r, u)
  BY <1>8, <1>10, <1>11 DEF MedallionNext
<1>13. CommitMerge(r, u)
  BY <1>2, <1>4, <1>5, <1>12 DEF Work, Abort, Fail
<1> QED BY <1>6, <1>13

LEMMA NeverOvertakenStep ==
    ASSUME SilverInv, OnlyHourlyRuns, NeverOvertaken, [MedallionNext]_vars
    PROVE  NeverOvertaken'
<1> SUFFICES ASSUME started' = 0, NEW t \in Tables, "hourly" \in Runners,
                    Hourly(t)'.stale
             PROVE  FALSE
  BY DEF NeverOvertaken
<1>1. started = 0 /\ ~Hourly(t).stale
  BY OnlyHourlyStep DEF NeverOvertaken
<1>2. PICK r \in Runners : r # "hourly" /\ CommitMerge(r, t)
  BY <1>1, StaleStep
<1> QED BY <1>1, <1>2 DEF OnlyHourlyRuns, CommitMerge

\* How the date that is due moves on, when the last run of a date may not
\* fail and is not overtaken: the run found no row, or it committed.
LEMMA LastRunEnds ==
    ASSUME HourlyInv, NeverOvertaken, started = 0, ~LastRunMayFail,
           [MedallionNext]_vars, NEW t \in Tables, due'[t] # due[t]
    PROVE  \/ t \notin registered
           \/ /\ "hourly" \in Runners
              /\ Hourly(t).last
              /\ Hourly(t).date = due[t] /\ due'[t] = due[t] + 1
              /\ \/ CommitMerge("hourly", t)
                 \/ /\ silver' = silver
                    /\ DateRows(t, due[t], Len(valid[t])) = {}
<1> USE DEF HourlyInv
<1>1. due \in [Tables -> Nat]
  BY DEF SilverInv, MedallionTypeOK
<1>2. ASSUME NEW r \in Runners, NEW u \in Tables, due' = NextDue(r, u)
      PROVE  r = "hourly" /\ u = t /\ Hourly(t).last /\ due'[t] = Hourly(t).date + 1
  BY <1>1, <1>2 DEF NextDue, Hourly
<1>3. MedallionNext
  BY DEF vars, silverVars
<1>4. ASSUME NEW u \in Tables, RegisterTable(u) PROVE t \notin registered
  BY <1>1, <1>4 DEF RegisterTable, Register
<1>5. ASSUME \/ BronzeStep \/ Midnight
             \/ \E u \in Tables : \/ SubmitHourly(u)
                                  \/ SubmitAgent(u)
                                  \/ \E date \in 1..day : SubmitManual(u, date)
      PROVE  FALSE
  BY <1>5 DEF BronzeStep, Midnight, SubmitHourly, SubmitAgent, SubmitManual,
              Submit, silverVars
<1>6. ASSUME NEW r \in Runners, NEW u \in Tables, Work(r, u) \/ Fail(r, u)
      PROVE  /\ "hourly" \in Runners
             /\ Hourly(t).last
             /\ Hourly(t).date = due[t] /\ due'[t] = due[t] + 1
             /\ \/ CommitMerge("hourly", t)
                \/ /\ silver' = silver
                   /\ DateRows(t, due[t], Len(valid[t])) = {}
  <2>1. due' = NextDue(r, u)
    BY <1>6 DEF Work, Fail, ReadBronze, BeginMerge, CommitMerge, Abort, Finish
  <2>2. /\ r = "hourly" /\ u = t /\ Hourly(t).last
        /\ due'[t] = Hourly(t).date + 1
    BY <1>2, <2>1
  <2>3. ~Hourly(t).stale
    BY <2>2 DEF NeverOvertaken
  <2>4. ~Fail(r, u)
    BY <2>2 DEF Fail, Hourly
  <2>5. ~BeginMerge(r, u)
    BY DEF BeginMerge
  <2>6. Hourly(t).phase # "idle" =>
           t \in registered /\ Hourly(t).date = due[t]
    BY <2>2 DEF HourlyRuns
  <2>7. ~Abort(r, u)
    BY <2>2, <2>3, <2>6 DEF Abort, Hourly
  <2>8. CASE CommitMerge(r, u)
    <3>1. Hourly(t).phase # "idle"
      BY <2>2, <2>8 DEF CommitMerge, Hourly
    <3> QED BY <2>2, <2>6, <2>8, <3>1
  <2>9. CASE ReadBronze(r, u)
    <3>1. Hourly(t).phase # "idle" /\ silver' = silver
      BY <2>2, <2>9 DEF ReadBronze, Hourly
    <3>2. DateRows(t, Hourly(t).date, Len(valid[t])) = {}
      BY <2>2, <2>9 DEF ReadBronze, Hourly
    <3> QED BY <2>2, <2>6, <3>1, <3>2
  <2> QED BY <1>6, <2>4, <2>5, <2>7, <2>8, <2>9 DEF Work
<1> QED BY <1>3, <1>4, <1>5, <1>6 DEF MedallionNext

\* An image in bronze.t_valid stays the same image.
LEMMA ParsedStays ==
    ASSUME BronzeInv, [MedallionNext]_vars, NEW t \in Tables, NEW i \in DOMAIN valid[t]
    PROVE  /\ i \in DOMAIN valid'[t] /\ valid'[t][i] = valid[t][i]
           /\ KeyOf(t, i)' = KeyOf(t, i)
           /\ i \in Parsed(t, DOMAIN valid[t])' => i \in Parsed(t, DOMAIN valid[t])
<1>1. [BronzeNext]_bronzeVars
  BY StepIsBronzeStep
<1>2. valid'[t][i] = valid[t][i] /\ i \in DOMAIN valid'[t]
  BY <1>1, NothingTakenBack DEF BronzeInv
<1>3. valid[t][i].src \in DOMAIN log[t]
  <2>1. valid[t] \in Seq(ValidRow)
    BY DEF BronzeInv, TypeOK
  <2>2. DOMAIN valid[t] = 1..Len(valid[t]) /\ Len(valid[t]) \in Nat
    BY <2>1, LenProperties
  <2>3. i \in DateRows(t, valid[t][i].day, Len(valid[t]))
    BY <2>2 DEF DateRows
  <2> QED BY <2>2, <2>3, SeenRows
<1>4. log'[t][valid[t][i].src] = log[t][valid[t][i].src]
  BY <1>1, <1>3, NothingTakenBack DEF BronzeInv
<1> QED BY <1>2, <1>4 DEF KeyOf, Parsed

\* A commit keeps every closed date merged: a row it replaces gets an image
\* of the date that is due, which reached Bronze after it.
LEMMA CommitKeepsClosed ==
    ASSUME HourlyInv, OpsAreReads, started = 0, [MedallionNext]_vars,
           NEW t \in Tables, "hourly" \in Runners,
           CommitMerge("hourly", t),
           NEW i \in DOMAIN valid[t], valid[t][i].day < due[t],
           NEW r \in silver[t], r.key = KeyOf(t, i),
           NEW j \in DOMAIN valid[t], i <= j, valid[t][j].src = r.src
    PROVE  \E s \in silver'[t] :
              /\ s.key = KeyOf(t, i)
              /\ \E k \in DOMAIN valid[t] : i <= k /\ valid[t][k].src = s.src
<1> USE DEF HourlyInv
<1>1. CASE r \in silver'[t]
  BY <1>1
<1>2. CASE r \notin silver'[t]
  <2>1. PICK l \in MergedBy("hourly", t) :
           [key |-> KeyOf(t, i), src |-> valid[t][l].src] \in silver'[t]
    <3>1. PICK m \in MergedBy("hourly", t) : KeyOf(t, m) = r.key
      BY <1>2, CommitKeeps
    <3> QED BY <3>1, CommitUpserts
  <2>2. Hourly(t).seen \in Nat /\ Hourly(t).seen <= Len(valid[t])
    <3>1. <<"hourly", t>> \in Runners \X Tables /\ <<"hourly", t>>[2] = t
      OBVIOUS
    <3> QED BY <3>1 DEF SilverInv, MedallionTypeOK, Run, SeenIsPrefix, Hourly
  <2>3. l \in DateRows(t, Hourly(t).date, Hourly(t).seen)
    BY <2>1 DEF MergedBy, Parsed, Hourly
  <2>4. l \in DOMAIN valid[t] /\ l \in Nat
    BY <2>2, <2>3, SeenRows DEF SilverInv
  <2>5. Hourly(t).date = due[t]
    BY DEF HourlyRuns, CommitMerge, Hourly
  <2>6. valid[t][l].day = due[t]
    BY <2>3, <2>5 DEF DateRows
  <2>7. /\ due[t] \in Nat /\ valid[t][i].day \in Nat /\ i \in Nat
    <3>1. valid[t] \in Seq(ValidRow)
      BY DEF SilverInv, BronzeInv, TypeOK
    <3>2. i \in 1..Len(valid[t]) /\ Len(valid[t]) \in Nat
      BY <3>1, LenProperties
    <3>3. valid[t][i] \in ValidRow
      BY <3>1, <3>2, ElementOfSeq
    <3> QED BY <3>2, <3>3 DEF ValidRow, SilverInv, MedallionTypeOK
  <2>8. i <= l
    <3>1. ~(l <= i)
      BY <2>4, <2>6, <2>7 DEF DatesInOrder
    <3> QED BY <2>4, <2>7, <3>1
  <2> QED BY <2>1, <2>4, <2>8
<1> QED BY <1>1, <1>2

\* Every closed date stays merged, and the date a run closes is merged then.
LEMMA ClosedStep ==
    ASSUME ClosedInv, [MedallionNext]_vars PROVE ClosedDatesMerged'
<1> USE DEF ClosedInv, HourlyInv
<1> SUFFICES ASSUME started' = 0, ~LastRunMayFail, NEW t \in Tables,
                    NEW i \in Parsed(t, DOMAIN valid[t])',
                    valid'[t][i].day < due'[t]
             PROVE  \E s \in silver'[t] :
                       /\ s.key = KeyOf(t, i)'
                       /\ \E k \in DOMAIN valid'[t] :
                             i <= k /\ valid'[t][k].src = s.src
  BY DEF ClosedDatesMerged
<1>1. started = 0 /\ BronzeInv
  BY OnlyHourlyStep DEF SilverInv
<1>2. /\ due[t] <= due'[t] /\ due'[t] <= day' /\ day \in Nat /\ day' \in Nat
      /\ due[t] \in Nat /\ due'[t] \in Nat
  BY DueForward
<1>3. i \in DOMAIN valid[t]
  BY <1>1, <1>2, NewRowsAreToday DEF Parsed
<1>4. /\ valid'[t][i] = valid[t][i] /\ KeyOf(t, i)' = KeyOf(t, i)
      /\ i \in Parsed(t, DOMAIN valid[t])
  BY <1>1, <1>3, ParsedStays
<1>5. \A k \in DOMAIN valid[t] : k \in DOMAIN valid'[t] /\ valid'[t][k] = valid[t][k]
  BY <1>1, ParsedStays
<1>6. /\ DOMAIN valid[t] = 1..Len(valid[t]) /\ Len(valid[t]) \in Nat
      /\ i \in Nat /\ valid[t][i].day \in Nat
  <2>1. valid[t] \in Seq(ValidRow)
    BY DEF SilverInv, BronzeInv, TypeOK
  <2>2. DOMAIN valid[t] = 1..Len(valid[t]) /\ Len(valid[t]) \in Nat
    BY <2>1, LenProperties
  <2>3. valid[t][i] \in ValidRow
    BY <1>3, <2>1, <2>2, ElementOfSeq
  <2> QED BY <1>3, <2>2, <2>3 DEF ValidRow
<1> SUFFICES \E s \in silver'[t] :
                /\ s.key = KeyOf(t, i)
                /\ \E k \in DOMAIN valid[t] : i <= k /\ valid[t][k].src = s.src
  BY <1>4, <1>5
<1>7. CASE valid[t][i].day < due[t]
  <2>1. PICK r \in silver[t] :
           /\ r.key = KeyOf(t, i)
           /\ \E j \in DOMAIN valid[t] : i <= j /\ valid[t][j].src = r.src
    BY <1>1, <1>4, <1>7 DEF ClosedDatesMerged
  <2>2. CASE r \in silver'[t]
    BY <2>1, <2>2
  <2>3. CASE r \notin silver'[t]
    <3>1. PICK q \in Runners, u \in Tables : CommitMerge(q, u)
      BY <2>3, OnlyCommitsWrite
    <3>2. u = t
      BY <2>3, <3>1 DEF CommitMerge, SilverInv, MedallionTypeOK
    <3>3. q = "hourly"
      BY <1>1, <3>1 DEF OnlyHourlyRuns, CommitMerge
    <3> QED BY <1>1, <1>3, <1>7, <2>1, <3>1, <3>2, <3>3, CommitKeepsClosed
  <2> QED BY <2>2, <2>3
<1>8. CASE ~(valid[t][i].day < due[t])
  <2>1. due'[t] # due[t]
    BY <1>2, <1>4, <1>8
  <2>2. t \in registered
    BY <1>1, <1>3, NoContractNoRows
  <2>3. /\ "hourly" \in Runners /\ Hourly(t).last
        /\ Hourly(t).date = due[t] /\ due'[t] = due[t] + 1
        /\ \/ CommitMerge("hourly", t)
           \/ DateRows(t, due[t], Len(valid[t])) = {}
    BY <1>1, <2>1, <2>2, LastRunEnds
  <2>4. valid[t][i].day = due[t]
    BY <1>2, <1>4, <1>6, <1>8, <2>3
  <2>5. CASE CommitMerge("hourly", t)
    <3>1. HasRead(t) /\ Hourly(t).seen \in Nat
      BY <2>3, <2>5 DEF CommitMerge, HasRead, Hourly, SilverInv, MedallionTypeOK, Run
    <3>2. i <= Hourly(t).seen
      BY <1>3, <2>3, <2>4, <3>1 DEF LastSeesAll
    <3>3. i \in DateRows(t, Hourly(t).date, Hourly(t).seen)
      BY <1>3, <1>6, <2>3, <2>4, <3>1, <3>2 DEF DateRows
    <3>4. i \in MergedBy("hourly", t)
      BY <1>4, <3>3 DEF MergedBy, Parsed, Hourly
    <3>5. PICK l \in MergedBy("hourly", t) :
             /\ i <= l
             /\ [key |-> KeyOf(t, i), src |-> valid[t][l].src] \in silver'[t]
      BY <2>3, <2>5, <3>4, CommitUpserts
    <3>6. l \in DOMAIN valid[t]
      <4>1. l \in DateRows(t, Hourly(t).date, Hourly(t).seen)
        BY <3>5 DEF MergedBy, Parsed, Hourly
      <4>2. <<"hourly", t>> \in Runners \X Tables /\ <<"hourly", t>>[2] = t
        BY <2>3
      <4>3. Hourly(t).seen <= Len(valid[t])
        BY <4>2 DEF SilverInv, SeenIsPrefix, Hourly
      <4> QED BY <1>1, <3>1, <4>1, <4>3, SeenRows
    <3> QED BY <3>5, <3>6
  <2>6. CASE DateRows(t, due[t], Len(valid[t])) = {}
    <3>1. i \in DateRows(t, due[t], Len(valid[t]))
      BY <1>3, <1>6, <2>4 DEF DateRows
    <3> QED BY <2>6, <3>1
  <2> QED BY <2>3, <2>5, <2>6
<1> QED BY <1>7, <1>8

THEOREM ClosedInvInductive ==
    ASSUME ClosedInv, [MedallionNext]_vars PROVE ClosedInv'
<1> USE DEF ClosedInv, HourlyInv
<1>1. HourlyInv'
  BY HourlyInvInductive
<1>2. OpsAreReads' /\ ContractsFirst'
  BY StepIsBronzeStep, OpsStep, ContractsFirstStep DEF SilverInv, BronzeInv
<1> QED BY <1>1, <1>2, LastSeesAllStep, NeverOvertakenStep, ClosedStep

\* ClosedInv holds in every reachable state, whoever runs.
LEMMA ClosedInvariance == MedallionSpec => []ClosedInv
<1>1. MedallionInit => ClosedInv
  <2> SUFFICES ASSUME MedallionInit PROVE ClosedInv
    OBVIOUS
  <2>1. OpsAreReads /\ ContractsFirst
    BY DEF MedallionInit, BronzeInit, OpsAreReads, ContractsFirst
  <2>2. LastSeesAll /\ NeverOvertaken /\ ClosedDatesMerged
    BY DEF MedallionInit, BronzeInit, LastSeesAll, NeverOvertaken, HasRead,
           ClosedDatesMerged, Parsed, Hourly, IdleRun
  <2> QED BY <2>1, <2>2, HourlyInvInit DEF ClosedInv
<1>2. ClosedInv /\ [MedallionNext]_vars => ClosedInv'
  BY ClosedInvInductive
<1> QED BY <1>1, <1>2, PTL DEF MedallionSpec

\* The hourly DAG alone leaves no image of a closed date behind, whatever
\* crashes, replays and failed earlier runs there were, as long as the last
\* run of a date does not fail.
THEOREM ClosedDatesAreMerged == MedallionSpec => []ClosedDatesMerged
<1>1. ClosedInv => ClosedDatesMerged
  BY DEF ClosedInv
<1> QED BY <1>1, ClosedInvariance, PTL

-----------------------------------------------------------------------------
(* Convergence, but for the fairness that brings the last hourly run about. *)

\* The driver has come to the end of the topic, nothing of the table was
\* quarantined, and every date of which Bronze has an image is closed.
Settled(t) ==
    /\ pos[t] = Len(log[t])
    /\ invalid[t] = <<>>
    /\ \A j \in Parsed(t, DOMAIN valid[t]) : valid[t][j].day < due[t]

\* Silver of a settled table is up to date, whatever crashed and was replayed
\* before: the hourly DAG does not only merge every closed image, the one it
\* merges last is the last image.
SettledIsUpToDate ==
    Nested /\ started = 0 /\ ~LastRunMayFail =>
        \A t \in Tables : Settled(t) => UpToDate(t)

\* The types a reader of bronze.t_valid relies on.
LEMMA ValidTypes ==
    ASSUME SilverInv, NEW t \in Tables
    PROVE  /\ DOMAIN valid[t] = 1..Len(valid[t]) /\ Len(valid[t]) \in Nat
           /\ DOMAIN log[t] = 1..Len(log[t]) /\ Len(log[t]) \in Nat
           /\ \A j \in DOMAIN valid[t] : valid[t][j].src \in Nat
<1>1. valid[t] \in Seq(ValidRow) /\ log[t] \in Seq(Event)
  BY DEF SilverInv, BronzeInv, TypeOK
<1>2. \A j \in DOMAIN valid[t] : valid[t][j] \in ValidRow
  BY <1>1
<1> QED BY <1>1, <1>2, LenProperties DEF ValidRow

\* The last Bronze row of a key holds its last image: a replay of older events
\* ends with the newest (ReplayKeepsOrder), and nothing is missing.
LEMMA LastRowIsLastImage ==
    ASSUME SilverInv, ReplayKeepsOrder, Nested, NEW t \in Tables, Settled(t),
           NEW k \in Keys, NEW m \in Images(t, k), \A i \in Images(t, k) : i <= m
    PROVE  \E l \in Parsed(t, DOMAIN valid[t]) :
              /\ KeyOf(t, l) = k /\ valid[t][l].src = m
              /\ \A j \in DOMAIN valid[t] : valid[t][j].src \in Images(t, k) => j <= l
<1> DEFINE J == {j \in DOMAIN valid[t] : valid[t][j].src \in Images(t, k)}
<1>1. m \in 1..pos[t] /\ pos[t] \in Nat
  BY ValidTypes DEF Settled, Images
<1>2. m \in Stored(t)
  BY <1>1 DEF SilverInv, BronzeInv, AppendedIsStored
<1>3. PICK i \in DOMAIN valid[t] : valid[t][i].src = m
  <2>1. Sources(invalid[t]) = {}
    BY DEF Settled, Sources
  <2> QED BY <1>2, <2>1 DEF Stored, Sources
<1>4. PICK l \in J : \A j \in J : j <= l
  <2>1. J \in SUBSET (1..Len(valid[t])) /\ J # {} /\ Len(valid[t]) \in Nat
    BY <1>3, ValidTypes
  <2> HIDE DEF J
  <2> QED BY <2>1, GreatestElement
<1>5. valid[t][l].src = m
  <2> SUFFICES ASSUME valid[t][l].src # m PROVE FALSE
    OBVIOUS
  <2>1. valid[t][l].src \in Nat /\ valid[t][l].src <= m
    BY ValidTypes
  <2>2. m \in (valid[t][l].src + 1)..pos[t]
    BY <1>1, <2>1
  <2>3. PICK j \in DOMAIN valid[t] : l < j /\ valid[t][j].src = m
    BY <2>2 DEF ReplayKeepsOrder, Settled
  <2>4. j \in J /\ j \in Nat /\ l \in Nat
    BY <2>3, ValidTypes
  <2> QED BY <1>4, <2>3, <2>4
<1>6. l \in Parsed(t, DOMAIN valid[t]) /\ KeyOf(t, l) = k
  BY DEF Parsed, Images, KeyOf
<1> QED BY <1>4, <1>5, <1>6

\* Silver has that image: the row it holds was merged from that Bronze row or
\* from a later one, and there is none.
LEMMA LastImageMerged ==
    ASSUME ClosedInv, ReplayKeepsOrder, Nested, started = 0, ~LastRunMayFail,
           NEW t \in Tables, Settled(t), NEW k \in Keys,
           NEW m \in Images(t, k), \A i \in Images(t, k) : i <= m
    PROVE  \E r \in silver[t] : r.key = k /\ r.src = m
<1> USE DEF ClosedInv, HourlyInv
<1>1. PICK l \in Parsed(t, DOMAIN valid[t]) :
         /\ KeyOf(t, l) = k /\ valid[t][l].src = m
         /\ \A j \in DOMAIN valid[t] : valid[t][j].src \in Images(t, k) => j <= l
  BY LastRowIsLastImage
<1>2. valid[t][l].day < due[t]
  BY DEF Settled
<1>3. PICK r \in silver[t] :
         /\ r.key = k
         /\ \E j \in DOMAIN valid[t] : l <= j /\ valid[t][j].src = r.src
  BY <1>1, <1>2 DEF ClosedDatesMerged
<1>4. PICK j \in DOMAIN valid[t] : l <= j /\ valid[t][j].src = r.src
  BY <1>3
<1>5. r.src \in Images(t, k)
  BY <1>3 DEF SilverInv, SilverFromBronze
<1>6. j = l
  <2>1. j \in Nat /\ l \in Nat
    BY ValidTypes DEF Parsed
  <2> QED BY <1>1, <1>4, <1>5, <2>1
<1> QED BY <1>1, <1>3, <1>4, <1>6

\* Silver of a settled table holds exactly the last image of every row: the
\* safety half of Converges, for any number of crashes, failed runs and keys.
THEOREM SettledTablesAreUpToDate == MedallionSpec => []SettledIsUpToDate
<1>1. ASSUME ClosedInv, ReplayKeepsOrder PROVE SettledIsUpToDate
  <2> SUFFICES ASSUME Nested, started = 0, ~LastRunMayFail,
                      NEW t \in Tables, Settled(t), NEW k \in Keys
               PROVE  {r.src : r \in {s \in silver[t] : s.key = k}} =
                         {i \in Images(t, k) : \A j \in Images(t, k) : j <= i}
    BY DEF SettledIsUpToDate, UpToDate
  <2> DEFINE Held == {r.src : r \in {s \in silver[t] : s.key = k}}
             Last == {i \in Images(t, k) : \A j \in Images(t, k) : j <= i}
  <2>1. Images(t, k) \subseteq 1..Len(log[t]) /\ Len(log[t]) \in Nat
    BY <1>1, ValidTypes DEF Images, ClosedInv, HourlyInv
  <2>2. Last \subseteq Held
    BY <1>1, LastImageMerged
  <2>3. ASSUME NEW r \in silver[t], r.key = k PROVE r.src \in Last
    <3>1. r.src \in Images(t, k)
      BY <1>1, <2>3 DEF ClosedInv, HourlyInv, SilverInv, SilverFromBronze
    <3>2. PICK m \in Images(t, k) : \A j \in Images(t, k) : j <= m
      <4>1. Images(t, k) \in SUBSET (1..Len(log[t])) /\ Images(t, k) # {}
        BY <2>1, <3>1
      <4> QED BY <2>1, <4>1, GreatestElement
    <3>3. PICK s \in silver[t] : s.key = k /\ s.src = m
      BY <1>1, <3>2, LastImageMerged
    <3>4. r = s
      BY <1>1, <2>3, <3>3 DEF ClosedInv, HourlyInv, SilverInv, OneRowPerKey
    <3> QED BY <3>2, <3>3, <3>4
  <2> QED BY <2>2, <2>3
<1>2. MedallionSpec => []ReplayKeepsOrder
  BY MedallionRunsBronze, ReplayOrder
<1> QED BY <1>1, <1>2, ClosedInvariance, PTL
=============================================================================
