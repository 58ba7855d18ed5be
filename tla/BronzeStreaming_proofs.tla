----------------------- MODULE BronzeStreaming_proofs -----------------------
(***************************************************************************)
(* Proofs about the Bronze layer, for any set of tables and keys, any      *)
(* number of events, days and driver failures.                             *)
(*                                                                         *)
(* BronzeInv is inductive: an append extends the stored offsets of one     *)
(* topic by exactly the offset after the driver's position, which the      *)
(* invariant says is either the next new offset or one stored before.      *)
(***************************************************************************)
EXTENDS BronzeStreaming, SequenceTheorems, TLAPS

\* The sequence facts the proofs use: the length, domain and elements of a
\* sequence one element longer, and its type.
LEMMA AppendFacts ==
    ASSUME NEW S, NEW s \in Seq(S), NEW e \in S
    PROVE  /\ Append(s, e) \in Seq(S)
           /\ Len(Append(s, e)) = Len(s) + 1
           /\ Append(s, e)[Len(s) + 1] = e
           /\ \A i \in 1..Len(s) : Append(s, e)[i] = s[i]
           /\ DOMAIN s = 1..Len(s)
           /\ DOMAIN Append(s, e) = 1..(Len(s) + 1)
           /\ Len(s) \in Nat
  BY AppendProperties, LenProperties

\* The kinds of row an append writes are rows of the Bronze tables.
LEMMA RecordedOpType ==
    ASSUME NEW e \in Event
    PROVE  RecordedOp(e) \in {"c", "u", "d", "r"}
  BY DEF RecordedOp, Event

\* A sequence that was appended to is not empty.
LEMMA AppendNotEmpty ==
    ASSUME NEW S, NEW s \in Seq(S), NEW x \in S PROVE Append(s, x) # <<>>
  BY AppendProperties

\* The empty platform has the right types.
LEMMA TypeInit == BronzeInit => TypeOK
  BY DEF BronzeInit, TypeOK

\* What an append does, with the row and the verdict abstracted away: it
\* stores offset pos[t] + 1 of one topic and nothing else, on either side.
LEMMA AppendEffect ==
    ASSUME TypeOK, Checkpointed, NEW t \in Tables, AppendRow(t)
    PROVE  \E v \in ValidRow, w \in InvalidRow :
              /\ v.src = pos[t] + 1 /\ w.src = pos[t] + 1
              /\ v.day = day /\ (Nested => v.op = "r")
              /\ \/ /\ valid' = [valid EXCEPT ![t] = Append(valid[t], v)]
                    /\ invalid' = invalid
                 \/ /\ invalid' = [invalid EXCEPT ![t] = Append(invalid[t], w)]
                    /\ valid' = valid
<1> DEFINE o == pos[t] + 1
           e == log[t][o]
           v == [src |-> o, op |-> RecordedOp(e), day |-> day]
           w == [src |-> o, day |-> day]
<1>1. o \in 1..Len(log[t])
  BY LenProperties DEF AppendRow, Checkpointed, TypeOK
<1>2. e \in Event
  BY <1>1, ElementOfSeq DEF TypeOK
<1>3. v \in ValidRow /\ w \in InvalidRow
  BY <1>1, <1>2, RecordedOpType, LenProperties DEF ValidRow, InvalidRow, TypeOK
<1>4. \/ /\ valid' = [valid EXCEPT ![t] = Append(valid[t], v)]
         /\ invalid' = invalid
      \/ /\ invalid' = [invalid EXCEPT ![t] = Append(invalid[t], w)]
         /\ valid' = valid
  BY DEF AppendRow
<1>5. /\ v.src = pos[t] + 1 /\ w.src = pos[t] + 1
      /\ v.day = day /\ (Nested => v.op = "r")
  BY DEF RecordedOp
<1> HIDE DEF v, w, e
<1> QED BY <1>3, <1>4, <1>5

\* One step of the job keeps the types.
LEMMA TypeStep ==
    ASSUME TypeOK, Checkpointed, [BronzeNext]_bronzeVars PROVE TypeOK'
<1> USE BronzeConstants DEF TypeOK
<1>1. ASSUME NEW t \in Tables, Register(t) PROVE TypeOK'
  BY <1>1 DEF Register
<1>2. ASSUME NEW t \in Tables, NEW k \in Keys, NEW c \in Conformance,
             SourceUpsert(t, k, c)
      PROVE  TypeOK'
  <2> DEFINE e == [key |-> k, kind |-> IF Present(t, k) THEN "u" ELSE "c",
                   conforms |-> c]
  <2>1. e \in Event
    BY DEF Event
  <2>2. Append(log[t], e) \in Seq(Event)
    BY <2>1, AppendFacts
  <2>3. log' \in [Tables -> Seq(Event)]
    BY <1>2, <2>2 DEF SourceUpsert
  <2> QED BY <1>2, <2>3 DEF SourceUpsert
<1>3. ASSUME NEW t \in Tables, NEW k \in Keys, NEW c \in Conformance,
             SourceDelete(t, k, c)
      PROVE  TypeOK'
  <2> DEFINE d == [key |-> k, kind |-> "d", conforms |-> c]
             x == [key |-> k, kind |-> "t", conforms |-> FALSE]
  <2>1. d \in Event /\ x \in Event
    BY DEF Event
  <2>2. <<d, x>> \in Seq(Event)
    BY <2>1
  <2>3. log[t] \o <<d, x>> \in Seq(Event)
    BY <2>2, ConcatProperties
  <2>4. log' \in [Tables -> Seq(Event)]
    BY <1>3, <2>3 DEF SourceDelete
  <2> QED BY <1>3, <2>4 DEF SourceDelete
<1>4. ASSUME PlanBatch PROVE TypeOK'
  BY <1>4, LenProperties DEF PlanBatch
<1>5. ASSUME NEW t \in Tables, AppendRow(t) PROVE TypeOK'
  <2>1. valid' \in [Tables -> Seq(ValidRow)] /\ invalid' \in [Tables -> Seq(InvalidRow)]
    <3>1. PICK v \in ValidRow, w \in InvalidRow :
             \/ /\ valid' = [valid EXCEPT ![t] = Append(valid[t], v)]
                /\ invalid' = invalid
             \/ /\ invalid' = [invalid EXCEPT ![t] = Append(invalid[t], w)]
                /\ valid' = valid
      BY <1>5, AppendEffect
    <3>2. Append(valid[t], v) \in Seq(ValidRow) /\ Append(invalid[t], w) \in Seq(InvalidRow)
      BY AppendFacts
    <3> QED BY <3>1, <3>2
  <2>2. /\ pos' = [pos EXCEPT ![t] = pos[t] + 1]
        /\ UNCHANGED <<log, registered, mounted, driver, crashes, planned,
                       committed, day>>
    BY <1>5 DEF AppendRow
  <2> QED BY <2>1, <2>2
<1>6. ASSUME CommitBatch PROVE TypeOK'
  BY <1>6 DEF CommitBatch
<1>7. ASSUME StartDriver PROVE TypeOK'
  BY <1>7 DEF StartDriver
<1>8. ASSUME Crash PROVE TypeOK'
  BY <1>8 DEF Crash
<1>9. ASSUME Tick PROVE TypeOK'
  BY <1>9 DEF Tick
<1>10. ASSUME UNCHANGED bronzeVars PROVE TypeOK'
  BY <1>10 DEF bronzeVars
<1> QED
  BY <1>1, <1>2, <1>3, <1>4, <1>5, <1>6, <1>7, <1>8, <1>9, <1>10
     DEF BronzeNext, Source, Driver

-----------------------------------------------------------------------------
(* The checkpoint.                                                         *)

\* The source only makes a topic longer.
LEMMA LogGrows ==
    ASSUME TypeOK, Source, NEW t \in Tables
    PROVE  Len(log[t]) <= Len(log'[t])
<1> USE DEF TypeOK
<1>1. ASSUME NEW u \in Tables, Register(u) PROVE Len(log[t]) <= Len(log'[t])
  BY <1>1, LenProperties DEF Register
<1>2. ASSUME NEW u \in Tables, NEW k \in Keys, NEW c \in Conformance,
             SourceUpsert(u, k, c)
      PROVE  Len(log[t]) <= Len(log'[t])
  <2>1. CASE t = u
    <3>1. [key |-> k, kind |-> IF Present(t, k) THEN "u" ELSE "c",
           conforms |-> c] \in Event
      BY BronzeConstants DEF Event
    <3> QED BY <1>2, <2>1, <3>1, AppendFacts DEF SourceUpsert
  <2>2. CASE t # u
    BY <1>2, <2>2, LenProperties DEF SourceUpsert
  <2> QED BY <2>1, <2>2
<1>3. ASSUME NEW u \in Tables, NEW k \in Keys, NEW c \in Conformance,
             SourceDelete(u, k, c)
      PROVE  Len(log[t]) <= Len(log'[t])
  <2> DEFINE two == <<[key |-> k, kind |-> "d", conforms |-> c],
                      [key |-> k, kind |-> "t", conforms |-> FALSE]>>
  <2>1. two \in Seq(Event) /\ Len(two) = 2
    BY BronzeConstants DEF Event
  <2>2. log' = [log EXCEPT ![u] = log[u] \o two]
    BY <1>3 DEF SourceDelete
  <2> HIDE DEF two
  <2>3. Len(log[u] \o two) = Len(log[u]) + 2
    <3>1. log[u] \in Seq(Event)
      OBVIOUS
    <3>2. Len(log[u] \o two) = Len(log[u]) + Len(two)
      BY <3>1, <2>1, ConcatProperties
    <3> QED BY <3>2, <2>1
  <2>4. CASE t = u
    BY <2>2, <2>3, <2>4, LenProperties
  <2>5. CASE t # u
    BY <2>2, <2>5, LenProperties
  <2> QED BY <2>4, <2>5
<1> QED BY <1>1, <1>2, <1>3 DEF Source

\* No step breaks the order of committed, pos, planned and the end of a topic:
\* events only arrive behind the batch, and a crash goes back to the commit.
LEMMA CheckpointStep ==
    ASSUME TypeOK, Checkpointed, [BronzeNext]_bronzeVars PROVE Checkpointed'
<1> USE DEF TypeOK, Checkpointed
<1>1. ASSUME Source PROVE Checkpointed'
  <2>1. UNCHANGED <<driver, planned, committed, pos>>
    BY <1>1 DEF Source, Register, SourceUpsert, SourceDelete
  <2>2. \A t \in Tables : Len(log[t]) <= Len(log'[t]) /\ Len(log'[t]) \in Nat
    BY <1>1, LogGrows, TypeStep, LenProperties DEF BronzeNext
  <2> QED BY <2>1, <2>2, LenProperties
<1>2. ASSUME PlanBatch PROVE Checkpointed'
  BY <1>2, LenProperties DEF PlanBatch, InFlight
<1>3. ASSUME NEW t \in Tables, AppendRow(t) PROVE Checkpointed'
  <2>1. /\ driver = "up" /\ pos[t] < planned[t]
        /\ pos' = [pos EXCEPT ![t] = pos[t] + 1]
        /\ UNCHANGED <<log, driver, planned, committed>>
    BY <1>3 DEF AppendRow
  <2> QED BY <2>1
<1>4. ASSUME CommitBatch PROVE Checkpointed'
  BY <1>4 DEF CommitBatch
<1>5. ASSUME StartDriver PROVE Checkpointed'
  BY <1>5 DEF StartDriver
<1>6. ASSUME Crash PROVE Checkpointed'
  BY <1>6, LenProperties DEF Crash
<1>7. ASSUME Tick \/ UNCHANGED bronzeVars PROVE Checkpointed'
  BY <1>7 DEF Tick, bronzeVars
<1> QED BY <1>1, <1>2, <1>3, <1>4, <1>5, <1>6, <1>7 DEF BronzeNext, Driver

-----------------------------------------------------------------------------
(* What is stored.                                                         *)

\* Appending a row to a sequence of rows adds its source to their sources.
LEMMA AppendSources ==
    ASSUME NEW R, NEW rows \in Seq(R), NEW row \in R
    PROVE  Sources(Append(rows, row)) = Sources(rows) \union {row.src}
<1> DEFINE more == Append(rows, row)
<1>1. /\ DOMAIN more = 1..(Len(rows) + 1)
      /\ more[Len(rows) + 1] = row
      /\ \A i \in 1..Len(rows) : more[i] = rows[i]
      /\ DOMAIN rows = 1..Len(rows)
      /\ Len(rows) \in Nat
  BY AppendFacts
<1> HIDE DEF more
<1>2. 1..(Len(rows) + 1) = 1..Len(rows) \union {Len(rows) + 1}
  BY <1>1
<1>3. {more[i].src : i \in DOMAIN more} =
          {rows[i].src : i \in DOMAIN rows} \union {row.src}
  BY <1>1, <1>2
<1> QED BY <1>3 DEF more, Sources

\* An append stores exactly one offset, the one after the position.
LEMMA AppendStores ==
    ASSUME TypeOK, Checkpointed, NEW t \in Tables, AppendRow(t), NEW u \in Tables
    PROVE  Stored(u)' = IF u = t THEN Stored(t) \union {pos[t] + 1} ELSE Stored(u)
<1>1. PICK v \in ValidRow, w \in InvalidRow :
         /\ v.src = pos[t] + 1 /\ w.src = pos[t] + 1
         /\ \/ /\ valid' = [valid EXCEPT ![t] = Append(valid[t], v)]
               /\ invalid' = invalid
            \/ /\ invalid' = [invalid EXCEPT ![t] = Append(invalid[t], w)]
               /\ valid' = valid
  BY AppendEffect
<1>2. /\ valid \in [Tables -> Seq(ValidRow)]
      /\ invalid \in [Tables -> Seq(InvalidRow)]
  BY DEF TypeOK
<1>3. CASE u = t
  <2>1. CASE valid' = [valid EXCEPT ![t] = Append(valid[t], v)] /\ invalid' = invalid
    <3>1. valid'[t] = Append(valid[t], v)
      BY <1>2, <2>1
    <3>2. valid[t] \in Seq(ValidRow)
      BY <1>2
    <3>3. Sources(Append(valid[t], v)) = Sources(valid[t]) \union {v.src}
      BY <3>2, AppendSources
    <3> QED BY <1>1, <1>3, <2>1, <3>1, <3>3 DEF Stored
  <2>2. CASE invalid' = [invalid EXCEPT ![t] = Append(invalid[t], w)] /\ valid' = valid
    <3>1. invalid'[t] = Append(invalid[t], w)
      BY <1>2, <2>2
    <3>2. invalid[t] \in Seq(InvalidRow)
      BY <1>2
    <3>3. Sources(Append(invalid[t], w)) = Sources(invalid[t]) \union {w.src}
      BY <3>2, AppendSources
    <3> QED BY <1>1, <1>3, <2>2, <3>1, <3>3 DEF Stored
  <2> QED BY <1>1, <2>1, <2>2
<1>4. CASE u # t
  <2>1. valid'[u] = valid[u] /\ invalid'[u] = invalid[u]
    BY <1>1, <1>2, <1>4
  <2> QED BY <1>4, <2>1 DEF Stored
<1> QED BY <1>3, <1>4

\* No other action touches the Bronze tables.
LEMMA OthersStoreNothing ==
    ASSUME [BronzeNext]_bronzeVars, ~\E t \in Tables : AppendRow(t)
    PROVE  /\ valid' = valid /\ invalid' = invalid
           /\ pos' = pos \/ pos' = committed
  BY DEF BronzeNext, Source, Driver, Register, SourceUpsert, SourceDelete,
         PlanBatch, CommitBatch, StartDriver, Crash, Tick, bronzeVars

\* BronzeInv is inductive: appends follow the position, and only offsets
\* below it are ever committed, so no crash, replay or commit opens a hole.
THEOREM BronzeInvInductive ==
    ASSUME BronzeInv, [BronzeNext]_bronzeVars PROVE BronzeInv'
<1> USE DEF BronzeInv
<1>1. TypeOK' /\ Checkpointed'
  BY TypeStep, CheckpointStep
<1>2. ASSUME NEW t \in Tables, AppendRow(t)
      PROVE  (AppendedIsStored /\ NoGap /\ StoredIsPlanned)'
  <2>1. /\ pos' = [pos EXCEPT ![t] = pos[t] + 1]
        /\ planned' = planned
        /\ pos[t] < planned[t]
        /\ pos \in [Tables -> Nat] /\ planned \in [Tables -> Nat]
    BY <1>2 DEF AppendRow, TypeOK
  <2>2. \A u \in Tables :
           Stored(u)' = IF u = t THEN Stored(t) \union {pos[t] + 1} ELSE Stored(u)
    BY <1>2, AppendStores
  <2>3. AppendedIsStored'
    BY <2>1, <2>2 DEF AppendedIsStored
  <2>4. NoGap'
    BY <2>1, <2>2 DEF NoGap, AppendedIsStored
  <2>5. StoredIsPlanned'
    BY <2>1, <2>2 DEF StoredIsPlanned
  <2> QED BY <2>3, <2>4, <2>5
<1>3. ASSUME ~\E t \in Tables : AppendRow(t)
      PROVE  (AppendedIsStored /\ NoGap /\ StoredIsPlanned)'
  <2>1. \A t \in Tables : Stored(t)' = Stored(t)
    BY <1>3, OthersStoreNothing DEF Stored
  <2>2. \A t \in Tables : pos'[t] <= pos[t] /\ planned[t] <= planned'[t]
    <3>1. pos' = pos \/ pos' = committed
      BY <1>3, OthersStoreNothing
    <3>2. \A t \in Tables : pos'[t] <= pos[t]
      BY <3>1 DEF Checkpointed, TypeOK
    <3>3. planned' = planned \/ PlanBatch
      BY <1>3 DEF BronzeNext, Source, Driver, Register, SourceUpsert,
                  SourceDelete, CommitBatch, StartDriver, Crash, Tick, bronzeVars
    <3>4. PlanBatch => \A t \in Tables : planned'[t] = Len(log[t])
      BY DEF PlanBatch
    <3> QED BY <3>2, <3>3, <3>4 DEF Checkpointed, TypeOK
  <2>3. pos \in [Tables -> Nat] /\ pos' \in [Tables -> Nat]
        /\ planned \in [Tables -> Nat] /\ planned' \in [Tables -> Nat]
    BY <1>1 DEF TypeOK
  <2>4. AppendedIsStored'
    BY <2>1, <2>2, <2>3 DEF AppendedIsStored
  <2>5. NoGap'
    BY <2>1 DEF NoGap
  <2>6. StoredIsPlanned'
    BY <2>1, <2>2, <2>3 DEF StoredIsPlanned
  <2> QED BY <2>4, <2>5, <2>6
<1> QED BY <1>1, <1>2, <1>3

\* BronzeInv holds of the empty platform.
LEMMA BronzeInvInit == BronzeInit => BronzeInv
<1> SUFFICES ASSUME BronzeInit PROVE BronzeInv
  OBVIOUS
<1>1. TypeOK
  BY TypeInit
<1>2. \A t \in Tables : Stored(t) = {}
  BY DEF BronzeInit, Stored, Sources
<1>3. \A t \in Tables : /\ pos[t] = 0 /\ planned[t] = 0 /\ committed[t] = 0
                        /\ Len(log[t]) = 0
  BY DEF BronzeInit
<1>4. Checkpointed
  BY <1>3 DEF Checkpointed, BronzeInit
<1> QED
  BY <1>1, <1>2, <1>3, <1>4 DEF BronzeInv, AppendedIsStored, NoGap, StoredIsPlanned

\* Type correctness and the inductive invariant of the Bronze layer, for
\* every number of tables, events, crashes and days.
THEOREM BronzeInvariance == BronzeSpec => []BronzeInv
<1>1. BronzeInit => BronzeInv
  BY BronzeInvInit
<1>2. BronzeInv /\ [BronzeNext]_bronzeVars => BronzeInv'
  BY BronzeInvInductive
<1> QED BY <1>1, <1>2, PTL DEF BronzeSpec

\* No committed event is ever lost, whatever crashes and replays happened.
THEOREM NothingCommittedIsLost == BronzeSpec => []CommittedIsStored
<1>1. BronzeInv => CommittedIsStored
  BY DEF BronzeInv, TypeOK, Checkpointed, AppendedIsStored, CommittedIsStored
<1> QED BY <1>1, BronzeInvariance, PTL

\* Bronze never has a hole in a topic.
THEOREM BronzeHasNoGap == BronzeSpec => []NoGap
<1>1. BronzeInv => NoGap
  BY DEF BronzeInv
<1> QED BY <1>1, BronzeInvariance, PTL

-----------------------------------------------------------------------------
(* The order of the rows.                                                  *)

\* While nothing is quarantined the replay order survives every step: an append puts a
\* row of the next event after all rows, and a crash only moves pos back.
LEMMA ReplayOrderStep ==
    ASSUME BronzeInv, ReplayKeepsOrder, [BronzeNext]_bronzeVars
    PROVE  ReplayKeepsOrder'
<1> SUFFICES ASSUME NEW u \in Tables, invalid'[u] = <<>>,
                    NEW i \in DOMAIN valid'[u],
                    NEW o \in (valid'[u][i].src + 1)..pos'[u]
             PROVE  \E j \in DOMAIN valid'[u] : i < j /\ valid'[u][j].src = o
  BY DEF ReplayKeepsOrder
<1> USE DEF BronzeInv
<1>1. /\ valid \in [Tables -> Seq(ValidRow)] /\ valid' \in [Tables -> Seq(ValidRow)]
      /\ pos \in [Tables -> Nat] /\ pos' \in [Tables -> Nat]
      /\ committed \in [Tables -> Nat]
      /\ invalid \in [Tables -> Seq(InvalidRow)]
  BY TypeStep DEF TypeOK
<1>2. CASE \E t \in Tables : AppendRow(t)
  <2>1. PICK t \in Tables : AppendRow(t)
    BY <1>2
  <2>2. PICK v \in ValidRow, w \in InvalidRow :
           /\ v.src = pos[t] + 1
           /\ \/ /\ valid' = [valid EXCEPT ![t] = Append(valid[t], v)]
                 /\ invalid' = invalid
              \/ /\ invalid' = [invalid EXCEPT ![t] = Append(invalid[t], w)]
                 /\ valid' = valid
    BY <2>1, AppendEffect
  <2>3. pos' = [pos EXCEPT ![t] = pos[t] + 1]
    BY <2>1 DEF AppendRow
  <2>4. CASE u # t
    <3>1. valid'[u] = valid[u] /\ pos'[u] = pos[u] /\ invalid'[u] = invalid[u]
      BY <1>1, <2>2, <2>3, <2>4
    <3> QED BY <3>1 DEF ReplayKeepsOrder
  <2>5. CASE u = t
    <3> DEFINE n == Len(valid[t])
    <3>0. invalid'[t] = invalid[t] /\ valid' = [valid EXCEPT ![t] = Append(valid[t], v)]
      <4>1. Append(invalid[t], w) # <<>>
        BY <1>1, AppendNotEmpty
      <4> QED BY <1>1, <2>2, <2>5, <4>1
    <3>1. valid'[t] = Append(valid[t], v) /\ pos'[t] = pos[t] + 1
      BY <1>1, <2>3, <3>0
    <3>2. valid[t] \in Seq(ValidRow)
      BY <1>1
    <3>3. /\ DOMAIN valid'[t] = 1..(n + 1) /\ DOMAIN valid[t] = 1..n /\ n \in Nat
          /\ valid'[t][n + 1] = v
          /\ \A k \in 1..n : valid'[t][k] = valid[t][k]
      BY <3>1, <3>2, AppendFacts
    <3> HIDE DEF n
    <3>4. \A k \in 1..n : valid[t][k].src \in Nat
      <4>1. \A k \in 1..n : valid[t][k] \in ValidRow
        BY <3>2, <3>3, ElementOfSeq
      <4> QED BY <4>1 DEF ValidRow
    <3>5. pos[t] \in Nat
      BY <1>1
    <3>6. i \in 1..n
      <4>1. i = n + 1 => valid'[t][i].src = pos[t] + 1
        BY <2>2, <3>3
      <4> QED BY <2>5, <3>1, <3>3, <3>5, <4>1
    <3>7. CASE o = pos[t] + 1
      <4>1. i < n + 1 /\ valid'[u][n + 1].src = o /\ n + 1 \in DOMAIN valid'[u]
        BY <2>2, <2>5, <3>3, <3>6, <3>7
      <4> QED BY <4>1
    <3>8. CASE o # pos[t] + 1
      <4>1. o \in (valid[t][i].src + 1)..pos[t]
        BY <2>5, <3>1, <3>3, <3>4, <3>5, <3>6, <3>8
      <4>2. PICK j \in 1..n : i < j /\ valid[t][j].src = o
        BY <4>1, <2>5, <3>3, <3>6, <3>0 DEF ReplayKeepsOrder
      <4>3. j \in 1..(n + 1) /\ valid'[t][j] = valid[t][j]
        BY <3>3
      <4>4. j \in DOMAIN valid'[u] /\ valid'[u][j].src = o
        BY <2>5, <3>3, <4>2, <4>3
      <4> QED BY <4>2, <4>4
    <3> QED BY <3>7, <3>8
  <2> QED BY <2>4, <2>5
<1>3. CASE ~\E t \in Tables : AppendRow(t)
  <2>1. valid'[u] = valid[u] /\ pos'[u] <= pos[u] /\ invalid'[u] = invalid[u]
    BY <1>1, <1>3, OthersStoreNothing DEF Checkpointed
  <2>2. valid[u][i].src \in Nat
    <3>1. valid[u] \in Seq(ValidRow) /\ i \in 1..Len(valid[u])
      BY <1>1, <2>1, LenProperties
    <3>2. valid[u][i] \in ValidRow
      BY <3>1, ElementOfSeq
    <3> QED BY <3>2 DEF ValidRow
  <2>3. o \in (valid[u][i].src + 1)..pos[u]
    BY <1>1, <2>1, <2>2
  <2> QED BY <2>1, <2>3 DEF ReplayKeepsOrder
<1> QED BY <1>2, <1>3

\* While no row of a table was quarantined, no crash or replay leaves an older
\* event as the last word of bronze.t_valid.
THEOREM ReplayOrder == BronzeSpec => []ReplayKeepsOrder
<1>1. BronzeInit => ReplayKeepsOrder
  BY DEF BronzeInit, ReplayKeepsOrder
<1>2. BronzeInv /\ ReplayKeepsOrder /\ [BronzeNext]_bronzeVars => ReplayKeepsOrder'
  BY ReplayOrderStep
<1> QED BY <1>1, <1>2, BronzeInvariance, PTL DEF BronzeSpec

-----------------------------------------------------------------------------
(* Refinement of the at-least-once log.                                    *)

\* A step of the source makes one topic longer by one or two events.
LEMMA SourceProduces ==
    ASSUME TypeOK, NEW t \in Tables, NEW k \in Keys, NEW c \in Conformance,
           SourceUpsert(t, k, c) \/ SourceDelete(t, k, c)
    PROVE  \E n \in 1..2 :
              [u \in Tables |-> Len(log[u])]' =
                  [[u \in Tables |-> Len(log[u])] EXCEPT ![t] = @ + n]
<1> USE BronzeConstants DEF TypeOK
<1>1. log[t] \in Seq(Event)
  OBVIOUS
<1>2. CASE SourceUpsert(t, k, c)
  <2> DEFINE e == [key |-> k, kind |-> IF Present(t, k) THEN "u" ELSE "c",
                   conforms |-> c]
  <2>1. e \in Event
    BY DEF Event
  <2>2. log' = [log EXCEPT ![t] = Append(log[t], e)]
    BY <1>2 DEF SourceUpsert
  <2> HIDE DEF e
  <2>3. Len(Append(log[t], e)) = Len(log[t]) + 1
    BY <1>1, <2>1, AppendFacts
  <2>4. [u \in Tables |-> Len(log'[u])] =
           [[u \in Tables |-> Len(log[u])] EXCEPT ![t] = @ + 1]
    BY <2>2, <2>3
  <2> QED BY <2>4
<1>3. CASE SourceDelete(t, k, c)
  <2> DEFINE two == <<[key |-> k, kind |-> "d", conforms |-> c],
                      [key |-> k, kind |-> "t", conforms |-> FALSE]>>
  <2>1. two \in Seq(Event) /\ Len(two) = 2
    BY DEF Event
  <2>2. log' = [log EXCEPT ![t] = log[t] \o two]
    BY <1>3 DEF SourceDelete
  <2> HIDE DEF two
  <2>3. Len(log[t] \o two) = Len(log[t]) + Len(two)
    BY <1>1, <2>1, ConcatProperties
  <2>4. [u \in Tables |-> Len(log'[u])] =
           [[u \in Tables |-> Len(log[u])] EXCEPT ![t] = @ + 2]
    BY <2>1, <2>2, <2>3
  <2> QED BY <2>4
<1> QED BY <1>2, <1>3

\* Every step of the job keeps the next offset, produces events, or stutters.
LEMMA LogStepRefined ==
    ASSUME BronzeInv, [BronzeNext]_bronzeVars
    PROVE  [AbstractLog!LogNext]_(AbstractLog!logVars)
<1> USE DEF AbstractLog!LogNext, AbstractLog!logVars
<1> DEFINE produced == [t \in Tables |-> Len(log[t])]
           kept == [t \in Tables |-> Stored(t)]
<1>1. ASSUME NEW t \in Tables, AppendRow(t)
      PROVE  AbstractLog!Keep(t) \/ UNCHANGED <<produced, kept>>
  <2> DEFINE o == pos[t] + 1
  <2>1. log' = log /\ pos[t] < planned[t]
    BY <1>1 DEF AppendRow
  <2>2. o \in 1..Len(log[t]) /\ 1..(o - 1) \subseteq Stored(t)
    BY <2>1, LenProperties DEF BronzeInv, TypeOK, Checkpointed, AppendedIsStored
  <2>3. \A u \in Tables :
           Stored(u)' = IF u = t THEN Stored(t) \union {o} ELSE Stored(u)
    BY <1>1, AppendStores DEF BronzeInv
  <2>4. kept' = [kept EXCEPT ![t] = @ \union {o}]
    BY <2>3
  <2>5. produced' = produced
    BY <2>1
  <2>6. CASE o \in Stored(t)
    <3>1. kept' = kept
      BY <2>3, <2>6
    <3> QED BY <2>5, <3>1
  <2>7. CASE o \notin Stored(t)
    BY <2>2, <2>4, <2>5, <2>7 DEF AbstractLog!Keep
  <2> QED BY <2>6, <2>7
<1>2. ASSUME NEW t \in Tables, NEW k \in Keys, NEW c \in Conformance,
             SourceUpsert(t, k, c) \/ SourceDelete(t, k, c)
      PROVE  AbstractLog!Produce(t)
  <2>1. valid' = valid /\ invalid' = invalid
    BY <1>2 DEF SourceUpsert, SourceDelete
  <2>2. kept' = kept
    BY <2>1 DEF Stored
  <2>3. \E n \in 1..2 : produced' = [produced EXCEPT ![t] = @ + n]
    BY <1>2, SourceProduces DEF BronzeInv
  <2> QED BY <2>2, <2>3 DEF AbstractLog!Produce
<1>3. ASSUME UNCHANGED <<log, valid, invalid>> PROVE UNCHANGED <<produced, kept>>
  BY <1>3 DEF Stored
<1>4. \/ \E t \in Tables : AppendRow(t)
      \/ \E t \in Tables, k \in Keys, c \in Conformance :
            SourceUpsert(t, k, c) \/ SourceDelete(t, k, c)
      \/ UNCHANGED <<log, valid, invalid>>
  BY DEF BronzeNext, Source, Driver, Register, PlanBatch, CommitBatch,
         StartDriver, Crash, Tick, bronzeVars
<1> QED BY <1>1, <1>2, <1>3, <1>4

\* The Bronze layer implements the gap-free at-least-once log.
THEOREM BronzeImplementsLog == BronzeSpec => ImplementsSafeLog
<1>1. BronzeInit => AbstractLog!LogInit
  <2> SUFFICES ASSUME BronzeInit PROVE AbstractLog!LogInit
    OBVIOUS
  <2>1. \A t \in Tables : Len(log[t]) = 0 /\ Stored(t) = {}
    BY DEF BronzeInit, Stored, Sources
  <2> QED BY <2>1 DEF AbstractLog!LogInit
<1>2. BronzeInv /\ [BronzeNext]_bronzeVars
         => [AbstractLog!LogNext]_(AbstractLog!logVars)
  BY LogStepRefined
<1> QED
  BY <1>1, <1>2, BronzeInvariance, PTL
     DEF BronzeSpec, ImplementsSafeLog, AbstractLog!SafeLog

-----------------------------------------------------------------------------
(* Kafka and Iceberg never take anything back.                             *)

\* Events and Bronze rows stay where they are, in every step.
LEMMA NothingTakenBack ==
    ASSUME TypeOK, Checkpointed, [BronzeNext]_bronzeVars, NEW t \in Tables
    PROVE  /\ \A i \in DOMAIN log[t] : i \in DOMAIN log'[t] /\ log'[t][i] = log[t][i]
           /\ \A i \in DOMAIN valid[t] :
                 i \in DOMAIN valid'[t] /\ valid'[t][i] = valid[t][i]
<1> USE BronzeConstants
<1>1. log \in [Tables -> Seq(Event)] /\ valid \in [Tables -> Seq(ValidRow)]
  BY DEF TypeOK
<1>2. CASE \E u \in Tables, k \in Keys, c \in Conformance :
              SourceUpsert(u, k, c) \/ SourceDelete(u, k, c)
  <2>1. PICK u \in Tables, k \in Keys, c \in Conformance :
           SourceUpsert(u, k, c) \/ SourceDelete(u, k, c)
    BY <1>2
  <2>2. PICK more \in Seq(Event) : log' = [log EXCEPT ![u] = log[u] \o more]
    <3>1. CASE SourceUpsert(u, k, c)
      <4> DEFINE e == [key |-> k, kind |-> IF Present(u, k) THEN "u" ELSE "c",
                       conforms |-> c]
      <4>1. e \in Event
        BY DEF Event
      <4>2. log' = [log EXCEPT ![u] = Append(log[u], e)]
        BY <3>1 DEF SourceUpsert
      <4> HIDE DEF e
      <4>3. log[u] \in Seq(Event)
        BY <1>1
      <4>4. <<e>> \in Seq(Event) /\ Append(log[u], e) = log[u] \o <<e>>
        BY <4>1, <4>3, AppendIsConcat
      <4> QED BY <4>2, <4>4
    <3>2. CASE SourceDelete(u, k, c)
      <4> DEFINE two == <<[key |-> k, kind |-> "d", conforms |-> c],
                          [key |-> k, kind |-> "t", conforms |-> FALSE]>>
      <4>1. two \in Seq(Event)
        BY DEF Event
      <4>2. log' = [log EXCEPT ![u] = log[u] \o two]
        BY <3>2 DEF SourceDelete
      <4> QED BY <4>1, <4>2
    <3> QED BY <2>1, <3>1, <3>2
  <2>3. valid' = valid
    BY <2>1 DEF SourceUpsert, SourceDelete
  <2>4. log[u] \in Seq(Event)
    BY <1>1
  <2>5. /\ Len(log[u] \o more) = Len(log[u]) + Len(more)
        /\ \A i \in 1..(Len(log[u]) + Len(more)) : (log[u] \o more)[i] =
              IF i <= Len(log[u]) THEN log[u][i] ELSE more[i - Len(log[u])]
        /\ log[u] \o more \in Seq(Event)
    BY <2>2, <2>4, ConcatProperties
  <2>6. /\ DOMAIN log[u] = 1..Len(log[u]) /\ Len(log[u]) \in Nat /\ Len(more) \in Nat
        /\ DOMAIN (log[u] \o more) = 1..Len(log[u] \o more)
    BY <2>2, <2>4, <2>5, LenProperties
  <2>7. \A i \in DOMAIN log[u] :
           i \in DOMAIN (log[u] \o more) /\ (log[u] \o more)[i] = log[u][i]
    BY <2>5, <2>6
  <2> QED BY <1>1, <2>2, <2>3, <2>7
<1>3. CASE \E u \in Tables : AppendRow(u)
  <2>1. PICK u \in Tables : AppendRow(u)
    BY <1>3
  <2>2. log' = log
    BY <2>1 DEF AppendRow
  <2>3. PICK v \in ValidRow :
           valid' = valid \/ valid' = [valid EXCEPT ![u] = Append(valid[u], v)]
    BY <2>1, AppendEffect
  <2>4. valid[u] \in Seq(ValidRow)
    BY <1>1
  <2>5. \A i \in DOMAIN valid[u] :
           i \in DOMAIN Append(valid[u], v) /\ Append(valid[u], v)[i] = valid[u][i]
    BY <2>4, AppendFacts
  <2> QED BY <1>1, <2>2, <2>3, <2>5
<1>4. CASE log' = log /\ valid' = valid
  BY <1>4
<1>5. \/ \E u \in Tables : AppendRow(u)
      \/ \E u \in Tables, k \in Keys, c \in Conformance :
            SourceUpsert(u, k, c) \/ SourceDelete(u, k, c)
      \/ log' = log /\ valid' = valid
  BY DEF BronzeNext, Source, Driver, Register, PlanBatch, CommitBatch,
         StartDriver, Crash, Tick, bronzeVars
<1> QED BY <1>2, <1>3, <1>4, <1>5

-----------------------------------------------------------------------------
(* The order and the dates of the rows of one driver.                      *)

\* Rows carry the date they were appended on, so their dates never go back.
DatesInOrder ==
    \A t \in Tables :
        /\ \A i \in DOMAIN valid[t] : valid[t][i].day <= day
        /\ \A i, j \in DOMAIN valid[t] :
              i <= j => valid[t][i].day <= valid[t][j].day

\* Until a driver first crashes, bronze.t_valid has an event at most once and
\* in offset order.
OffsetsInOrder ==
    crashes = 0 =>
        \A t \in Tables :
            /\ \A i \in DOMAIN valid[t] : valid[t][i].src <= pos[t]
            /\ \A i, j \in DOMAIN valid[t] :
                  i < j => valid[t][i].src < valid[t][j].src

\* What a step may do to bronze.t_valid: nothing, or append one row of the
\* event after the driver's position, dated today.
LEMMA ValidStep ==
    ASSUME TypeOK, Checkpointed, [BronzeNext]_bronzeVars, NEW t \in Tables
    PROVE  \/ valid'[t] = valid[t]
           \/ \E v \in ValidRow :
                 /\ valid'[t] = Append(valid[t], v)
                 /\ v.src = pos[t] + 1
                 /\ v.day = day
                 /\ Nested => v.op = "r"
                 /\ pos'[t] = pos[t] + 1
                 /\ day' = day
<1>1. valid \in [Tables -> Seq(ValidRow)] /\ pos \in [Tables -> Nat]
  BY DEF TypeOK
<1>2. CASE \E u \in Tables : AppendRow(u)
  <2>1. PICK u \in Tables : AppendRow(u)
    BY <1>2
  <2>2. PICK v \in ValidRow :
           /\ v.src = pos[u] + 1 /\ v.day = day /\ (Nested => v.op = "r")
           /\ valid' = valid \/ valid' = [valid EXCEPT ![u] = Append(valid[u], v)]
    BY <2>1, AppendEffect
  <2>3. pos' = [pos EXCEPT ![u] = pos[u] + 1] /\ day' = day
    BY <2>1 DEF AppendRow
  <2> QED BY <1>1, <2>2, <2>3
<1>3. CASE ~\E u \in Tables : AppendRow(u)
  BY <1>3, OthersStoreNothing
<1> QED BY <1>2, <1>3

\* Only a crash moves the position back, and then it is counted; the calendar
\* only moves forward.
LEMMA PositionStep ==
    ASSUME TypeOK, Checkpointed, [BronzeNext]_bronzeVars
    PROVE  /\ day <= day' /\ day' \in Nat
           /\ crashes <= crashes' /\ crashes' \in Nat
           /\ crashes' = crashes => \A t \in Tables : pos[t] <= pos'[t]
<1> USE DEF TypeOK
<1>1. ASSUME NEW t \in Tables, AppendRow(t)
      PROVE  /\ UNCHANGED <<day, crashes>>
             /\ \A u \in Tables : pos[u] <= pos'[u]
  BY <1>1 DEF AppendRow
<1>2. ASSUME Crash PROVE UNCHANGED day /\ crashes' = crashes + 1
  BY <1>2 DEF Crash
<1>3. ASSUME Tick PROVE day' = day + 1 /\ UNCHANGED <<crashes, pos>>
  BY <1>3 DEF Tick
<1>4. ASSUME Source \/ PlanBatch \/ CommitBatch \/ StartDriver \/ UNCHANGED bronzeVars
      PROVE  UNCHANGED <<day, crashes, pos>>
  BY <1>4 DEF Source, Register, SourceUpsert, SourceDelete, PlanBatch,
              CommitBatch, StartDriver, bronzeVars
<1> QED BY <1>1, <1>2, <1>3, <1>4 DEF BronzeNext, Driver

\* Both orders survive every step.
LEMMA OrderStep ==
    ASSUME TypeOK, Checkpointed, DatesInOrder, OffsetsInOrder,
           [BronzeNext]_bronzeVars
    PROVE  DatesInOrder' /\ OffsetsInOrder'
<1> SUFFICES
      ASSUME NEW t \in Tables
      PROVE  /\ \A i \in DOMAIN valid'[t] : valid'[t][i].day <= day'
             /\ \A i, j \in DOMAIN valid'[t] :
                   i <= j => valid'[t][i].day <= valid'[t][j].day
             /\ crashes' = 0 =>
                   /\ \A i \in DOMAIN valid'[t] : valid'[t][i].src <= pos'[t]
                   /\ \A i, j \in DOMAIN valid'[t] :
                         i < j => valid'[t][i].src < valid'[t][j].src
  BY DEF DatesInOrder, OffsetsInOrder
<1>1. /\ valid[t] \in Seq(ValidRow) /\ pos[t] \in Nat /\ pos'[t] \in Nat
      /\ day \in Nat /\ day' \in Nat /\ day <= day'
      /\ crashes' = 0 => crashes = 0 /\ pos[t] <= pos'[t]
  <2>1. TypeOK'
    BY TypeStep
  <2>2. crashes' = 0 => crashes = 0 /\ pos[t] <= pos'[t]
    BY PositionStep DEF TypeOK
  <2> QED BY <2>1, <2>2, PositionStep DEF TypeOK
<1>2. \A i \in DOMAIN valid[t] : valid[t][i].src \in Nat /\ valid[t][i].day \in Nat
  <2>1. \A i \in DOMAIN valid[t] : valid[t][i] \in ValidRow
    BY <1>1, LenProperties, ElementOfSeq
  <2> QED BY <2>1 DEF ValidRow
<1>3. /\ \A i \in DOMAIN valid[t] : valid[t][i].day <= day
      /\ \A i, j \in DOMAIN valid[t] : i <= j => valid[t][i].day <= valid[t][j].day
      /\ crashes' = 0 =>
            /\ \A i \in DOMAIN valid[t] : valid[t][i].src <= pos[t]
            /\ \A i, j \in DOMAIN valid[t] :
                  i < j => valid[t][i].src < valid[t][j].src
  BY <1>1 DEF DatesInOrder, OffsetsInOrder
<1>4. CASE valid'[t] = valid[t]
  BY <1>1, <1>2, <1>3, <1>4
<1>5. CASE valid'[t] # valid[t]
  <2>1. PICK v \in ValidRow :
           /\ valid'[t] = Append(valid[t], v)
           /\ v.src = pos[t] + 1 /\ v.day = day
           /\ pos'[t] = pos[t] + 1 /\ day' = day
    BY <1>5, ValidStep
  <2> DEFINE n == Len(valid[t])
  <2>2. /\ DOMAIN valid'[t] = 1..(n + 1) /\ DOMAIN valid[t] = 1..n /\ n \in Nat
        /\ valid'[t][n + 1] = v
        /\ \A i \in 1..n : valid'[t][i] = valid[t][i]
    BY <1>1, <2>1, AppendFacts
  <2> HIDE DEF n
  <2>3. \A i \in 1..(n + 1) : i \in 1..n \/ i = n + 1
    BY <2>2
  <2>4. /\ \A i \in 1..n : valid'[t][i].day <= day
        /\ valid'[t][n + 1].day = day
        /\ crashes' = 0 => \A i \in 1..n : valid'[t][i].src <= pos[t]
        /\ valid'[t][n + 1].src = pos[t] + 1
        /\ pos'[t] = pos[t] + 1 /\ day' = day
    BY <1>3, <2>1, <2>2
  <2>5. \A i \in 1..n : valid'[t][i].src \in Nat /\ valid'[t][i].day \in Nat
    BY <1>2, <2>2
  <2>6. ASSUME NEW i \in 1..(n + 1)
        PROVE  /\ valid'[t][i].day <= day'
               /\ crashes' = 0 => valid'[t][i].src <= pos'[t]
    <3>1. CASE i \in 1..n
      <4>1. valid'[t][i].day <= day'
        BY <2>4, <3>1
      <4>2. ASSUME crashes' = 0 PROVE valid'[t][i].src <= pos'[t]
        <5>1. valid'[t][i].src <= pos[t]
          BY <2>4, <3>1, <4>2
        <5> QED BY <1>1, <2>4, <2>5, <3>1, <5>1
      <4> QED BY <4>1, <4>2
    <3>2. CASE i = n + 1
      BY <1>1, <2>4, <3>2
    <3> QED BY <2>3, <3>1, <3>2
  <2>7. ASSUME NEW i \in 1..(n + 1), NEW j \in 1..(n + 1), i <= j
        PROVE  valid'[t][i].day <= valid'[t][j].day
    <3>1. CASE j \in 1..n
      <4>1. i \in 1..n
        BY <2>2, <2>7, <3>1
      <4> QED BY <1>3, <2>2, <2>7, <3>1, <4>1
    <3>2. CASE j = n + 1
      BY <1>1, <2>1, <2>4, <2>6, <3>2
    <3> QED BY <2>3, <3>1, <3>2
  <2>8. ASSUME NEW i \in 1..(n + 1), NEW j \in 1..(n + 1), i < j, crashes' = 0
        PROVE  valid'[t][i].src < valid'[t][j].src
    <3>1. i \in 1..n
      BY <2>2, <2>8
    <3>2. CASE j \in 1..n
      BY <1>3, <2>2, <2>8, <3>1, <3>2
    <3>3. CASE j = n + 1
      BY <1>1, <2>4, <2>5, <2>8, <3>1, <3>3
    <3> QED BY <2>3, <3>2, <3>3
  <2> QED BY <2>2, <2>6, <2>7, <2>8
<1> QED BY <1>4, <1>5

\* Before the first driver crash, Bronze holds every event at most once and in
\* the order of its topic, under dates that never go back.
THEOREM AppendOrder == BronzeSpec => [](DatesInOrder /\ OffsetsInOrder)
<1> DEFINE InOrder == DatesInOrder /\ OffsetsInOrder
<1>1. BronzeInit => InOrder
  BY DEF BronzeInit, DatesInOrder, OffsetsInOrder
<1>2. BronzeInv /\ InOrder /\ [BronzeNext]_bronzeVars => InOrder'
  BY OrderStep DEF BronzeInv
<1> QED BY <1>1, <1>2, BronzeInvariance, PTL DEF BronzeSpec

\* With wrapped events the job finds no op at the top level, so every row of
\* bronze.t_valid carries the default "r": a delete looks like a read.
OpsAreReads ==
    Nested => \A t \in Tables : \A i \in DOMAIN valid[t] : valid[t][i].op = "r"

LEMMA OpsStep ==
    ASSUME TypeOK, Checkpointed, OpsAreReads, [BronzeNext]_bronzeVars
    PROVE  OpsAreReads'
<1> SUFFICES ASSUME Nested, NEW t \in Tables, NEW i \in DOMAIN valid'[t]
             PROVE  valid'[t][i].op = "r"
  BY DEF OpsAreReads
<1>1. valid[t] \in Seq(ValidRow)
  BY DEF TypeOK
<1>2. CASE valid'[t] = valid[t]
  BY <1>2 DEF OpsAreReads
<1>3. CASE valid'[t] # valid[t]
  <2>1. PICK v \in ValidRow : valid'[t] = Append(valid[t], v) /\ v.op = "r"
    BY <1>3, ValidStep
  <2>2. /\ DOMAIN valid'[t] = 1..(Len(valid[t]) + 1)
        /\ DOMAIN valid[t] = 1..Len(valid[t]) /\ Len(valid[t]) \in Nat
        /\ valid'[t][Len(valid[t]) + 1] = v
        /\ \A k \in 1..Len(valid[t]) : valid'[t][k] = valid[t][k]
    BY <1>1, <2>1, AppendFacts
  <2>3. CASE i = Len(valid[t]) + 1
    BY <2>1, <2>2, <2>3
  <2>4. CASE i # Len(valid[t]) + 1
    <3>1. i \in DOMAIN valid[t] /\ valid'[t][i] = valid[t][i]
      BY <2>2, <2>4
    <3> QED BY <3>1 DEF OpsAreReads
  <2> QED BY <2>3, <2>4
<1> QED BY <1>2, <1>3

\* The portal registers a table before its topic fills: a table without a
\* contract has no events, and so no Bronze rows.
ContractsFirst ==
    \A t \in Tables : t \notin registered => log[t] = <<>>

LEMMA ContractsFirstStep ==
    ASSUME TypeOK, ContractsFirst, [BronzeNext]_bronzeVars PROVE ContractsFirst'
<1>1. log \in [Tables -> Seq(Event)]
  BY DEF TypeOK
<1>2. ASSUME NEW u \in Tables, NEW k \in Keys, NEW c \in Conformance,
             SourceUpsert(u, k, c) \/ SourceDelete(u, k, c)
      PROVE  ContractsFirst'
  <2>1. u \in registered /\ registered' = registered
        /\ \A t \in Tables \ {u} : log'[t] = log[t]
    BY <1>1, <1>2 DEF SourceUpsert, SourceDelete
  <2> QED BY <2>1 DEF ContractsFirst
<1>3. ASSUME log' = log, registered \subseteq registered' PROVE ContractsFirst'
  BY <1>3 DEF ContractsFirst
<1>4. ASSUME \/ \E t \in Tables : Register(t)
             \/ Driver \/ Crash \/ Tick \/ UNCHANGED bronzeVars
      PROVE  log' = log /\ registered \subseteq registered'
  BY <1>4 DEF Register, Driver, PlanBatch, AppendRow, CommitBatch, StartDriver,
              Crash, Tick, bronzeVars
<1> QED BY <1>2, <1>3, <1>4 DEF BronzeNext, Source

LEMMA NoContractNoRows ==
    ASSUME BronzeInv, ContractsFirst, NEW t \in Tables, t \notin registered
    PROVE  DOMAIN valid[t] = {}
<1>1. Len(log[t]) = 0
  BY DEF ContractsFirst
<1>2. planned[t] \in Nat /\ planned[t] <= 0
  BY <1>1 DEF BronzeInv, TypeOK, Checkpointed
<1>3. Stored(t) = {}
  BY <1>2 DEF BronzeInv, StoredIsPlanned
<1> QED BY <1>3 DEF Stored, Sources
=============================================================================
