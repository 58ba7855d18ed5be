-------------------------- MODULE SourceStage_proofs --------------------------
(***************************************************************************)
(* Proofs about the data source agent, for every number of squads, seed    *)
(* rows and columns, whatever others left behind and do at the same time.  *)
(*                                                                         *)
(* The argument is one of monotony: the table, once there, keeps its key;  *)
(* contracts are replaced and never removed; a connector stays; published  *)
(* events and committed offsets only grow.  SourceInv says at which phase  *)
(* a squad relies on which of them.                                        *)
(***************************************************************************)
EXTENDS SourceStage, TLAPS

\* A squad that has begun has a table, and what it inspected is that table.
TableSeen ==
    \A s \in Squads :
        /\ phase[s] # "idle" => source # NoTable
        /\ phase[s] \in {"generate", "lint"} => seen[s].keys = source.keys

\* A draft is a contract, and one the CLI accepted or Silver accepts.
DraftIsUsable ==
    \A s \in Squads :
        /\ phase[s] \in {"lint", "upload"} => draft[s].contract \in Contract
        /\ (phase[s] = "upload" /\ draft[s].origin = "agent") =>
              Loads(draft[s].contract) \/ source.keys = {}

\* A squad stores a contract before it activates, and waits for an event only
\* of a connector that is there.
StoredBeforeAsked ==
    \A s \in Squads :
        /\ phase[s] \in {"activate", "posting", "consume"} => minio # NoDraft
        /\ phase[s] = "consume" => connector # "absent"

\* Before there was a table no squad uploaded a contract.
NothingUploadedYet == source = NoTable => minio.origin # "agent"

\* What was published and committed when a squad began still is; what it read
\* came after what was committed.
OffsetsGrow ==
    \A s \in Squads :
        /\ phase[s] # "idle" =>
              entry[s].offset <= offset /\ entry[s].published <= published
        /\ result[s] = "ok" => read[s] > entry[s].offset

\* A squad that is not done has no result.
NoResultYet == \A s \in Squads : phase[s] # "done" => result[s] = "none"

SourceInv ==
    /\ TypeOK
    /\ TableSeen
    /\ DraftIsUsable
    /\ StoredBeforeAsked
    /\ NothingUploadedYet
    /\ OffsetsGrow
    /\ NoResultYet
    /\ SuccessIsCaptured
    /\ StoredIsUsable

-----------------------------------------------------------------------------
\* The generator returns a contract whatever the provider answers, and the
\* one it makes itself loads if the table has a key.
LEMMA Generated ==
    ASSUME NEW reply \in Reply, NEW schema \in Schema
    PROVE  /\ ParseAndValidate(reply, schema) \in Contract
           /\ FallbackContract(schema) \in Contract
           /\ schema.keys # {} => Loads(FallbackContract(schema))
<1>1. FallbackContract(schema) \in Contract
  BY DEF FallbackContract, Schema, Contract
<1> QED BY <1>1 DEF ParseAndValidate, Reply, FallbackContract, Schema, Loads

\* The table the agent makes is one, and has a key.
LEMMA AgentTableFacts ==
    AgentTable \in Schema /\ AgentTable # NoTable /\ NoTable \in Schema
  BY SourceStageConstants DEF AgentTable, Schema, NoTable

\* A draft that holds a contract is one, and what others store is no agent's.
LEMMA NoDraftFacts ==
    /\ NoDraft \in Draft /\ NoDraft.origin = "none"
    /\ \A d \in Draft : d.contract \in Contract => d # NoDraft
    /\ \A d \in Foreign : d \in Draft /\ d # NoDraft /\ d.origin = "others"
  BY DEF Draft, Origins, Foreign, NoDraft, Contract, NoContract

\* SourceInv holds whatever others left.
LEMMA SourceInvInit == SourceInit => SourceInv
<1> SUFFICES ASSUME SourceInit PROVE SourceInv
  OBVIOUS
<1>1. minio \in Draft /\ minio.origin # "agent"
  BY NoDraftFacts DEF SourceInit
<1>2. rows \in Nat /\ published \in 0..rows /\ offset \in 0..published
  <2>1. rows \in {0} \/ rows \in 0..MaxLeft
    BY DEF SourceInit
  <2>2. rows \in Nat
    BY <2>1, SourceStageConstants
  <2>3. published \in 0..rows \/ published \in {0}
    BY DEF SourceInit
  <2> QED BY <2>2, <2>3 DEF SourceInit
<1>3. connector \in {"absent", "running", "failed"} /\ asked \in BOOLEAN
  BY DEF SourceInit
<1>4. TypeOK
  BY <1>1, <1>2, <1>3, NoDraftFacts, AgentTableFacts, SourceStageConstants
     DEF SourceInit, TypeOK, Phases
<1>5. TableSeen /\ DraftIsUsable /\ OffsetsGrow /\ NoResultYet /\ SuccessIsCaptured
  BY DEF SourceInit, TableSeen, DraftIsUsable, OffsetsGrow, NoResultYet,
     SuccessIsCaptured
<1>6. StoredBeforeAsked /\ NothingUploadedYet /\ StoredIsUsable
  BY <1>1
     DEF SourceInit, StoredBeforeAsked, NothingUploadedYet, StoredIsUsable
<1> QED BY <1>4, <1>5, <1>6 DEF SourceInv

\* A squad moves on without touching the platform, or gives up.
LEMMA MoveStep ==
    ASSUME SourceInv, NEW s \in Squads,
           SeedRow(s) \/ Inspect(s) \/ Generate(s) \/ GiveUp(s)
    PROVE  SourceInv'
<1> USE DEF SourceInv
<1>1. CASE SeedRow(s)
  <2>1. UNCHANGED <<source, minio, connector, asked, published, offset, seen, draft,
                    entry, read, result>>
        /\ rows' \in {rows, rows + 1}
        /\ seeded' \in [Squads -> 0..SeedRows]
        /\ (phase' = phase \/ phase' = [phase EXCEPT ![s] = "inspect"])
        /\ phase[s] = "seed"
    BY <1>1, SourceStageConstants DEF SeedRow, GoTo, kafka, history, TypeOK
  <2>2. TypeOK'
    BY <2>1 DEF TypeOK, Phases
  <2> QED
    BY <2>1, <2>2
       DEF TypeOK, TableSeen, DraftIsUsable, StoredBeforeAsked, NothingUploadedYet,
           OffsetsGrow, NoResultYet, SuccessIsCaptured, StoredIsUsable
<1>2. CASE Inspect(s)
  <2>1. /\ Introspected(source, source) \in Schema
        /\ Introspected(source, source).keys = source.keys
    BY DEF TypeOK, Introspected, Schema
  <2>2. /\ UNCHANGED <<source, rows, minio, connector, asked, published, offset,
                       seeded, draft, entry, read, result>>
        /\ phase' = [phase EXCEPT ![s] = "generate"] /\ phase[s] = "inspect"
        /\ seen' = [seen EXCEPT ![s] = Introspected(source, source)]
    BY <1>2 DEF Inspect, GoTo, kafka, history
  <2>3. TypeOK'
    BY <2>1, <2>2 DEF TypeOK, Phases
  <2> QED
    BY <2>1, <2>2, <2>3
       DEF TypeOK, TableSeen, DraftIsUsable, StoredBeforeAsked, NothingUploadedYet,
           OffsetsGrow, NoResultYet, SuccessIsCaptured, StoredIsUsable
<1>3. CASE Generate(s)
  <2>1. PICK reply \in Reply :
           draft' = [draft EXCEPT ![s] =
                        [contract |-> ParseAndValidate(reply, seen[s]), origin |-> "agent"]]
    BY <1>3 DEF Generate
  <2> DEFINE d == [contract |-> ParseAndValidate(reply, seen[s]), origin |-> "agent"]
  <2>2. d \in Draft /\ d.contract \in Contract
    BY Generated DEF TypeOK, Draft, Origins
  <2>3. /\ UNCHANGED <<source, rows, minio, connector, asked, published, offset,
                       seeded, seen, entry, read, result>>
        /\ phase' = [phase EXCEPT ![s] = "lint"] /\ phase[s] = "generate"
        /\ draft' = [draft EXCEPT ![s] = d]
    BY <1>3, <2>1 DEF Generate, GoTo, kafka, history
  <2> HIDE DEF d
  <2>4. TypeOK'
    BY <2>2, <2>3 DEF TypeOK, Phases
  <2> QED
    BY <2>2, <2>3, <2>4
       DEF TypeOK, TableSeen, DraftIsUsable, StoredBeforeAsked, NothingUploadedYet,
           OffsetsGrow, NoResultYet, SuccessIsCaptured, StoredIsUsable
<1>4. CASE GiveUp(s)
  <2>1. /\ UNCHANGED <<source, rows, minio, connector, asked, published, offset,
                       entry, read>>
        /\ phase' = [phase EXCEPT ![s] = "done"] /\ phase[s] # "idle"
        /\ result' = [result EXCEPT ![s] = "error"]
    BY <1>4 DEF GiveUp, End, kafka, history
  <2>2. Drop(s)
    BY <1>4 DEF GiveUp
  <2>3. TypeOK'
    BY <2>1, <2>2, NoDraftFacts, AgentTableFacts, SourceStageConstants
       DEF TypeOK, Phases, Drop
  <2> QED
    BY <2>1, <2>2, <2>3
       DEF TypeOK, TableSeen, DraftIsUsable, StoredBeforeAsked, NothingUploadedYet,
           OffsetsGrow, NoResultYet, SuccessIsCaptured, StoredIsUsable, Drop
<1> QED BY <1>1, <1>2, <1>3, <1>4

\* The table is made, the contract is judged.
LEMMA TableAndLint ==
    ASSUME SourceInv, NEW s \in Squads, CreateTable(s) \/ Lint(s)
    PROVE  SourceInv'
<1> USE DEF SourceInv
<1>1. CASE CreateTable(s)
  <2> DEFINE e == [published |-> published, offset |-> offset]
  <2>1. /\ UNCHANGED <<rows, minio, connector, asked, published, offset, seeded,
                       seen, draft, read, result>>
        /\ phase' = [phase EXCEPT ![s] = "seed"] /\ phase[s] = "idle"
        /\ entry' = [entry EXCEPT ![s] = e]
        /\ source' = IF source = NoTable THEN AgentTable ELSE source
    BY <1>1 DEF CreateTable, GoTo, kafka, local
  <2>2. source' \in Schema /\ source' # NoTable
    BY <2>1, AgentTableFacts DEF TypeOK
  <2>3. e \in [published : Nat, offset : Nat] /\ e.published = published /\ e.offset = offset
    BY DEF TypeOK
  <2> HIDE DEF e
  <2>4. TypeOK'
    BY <2>1, <2>2, <2>3 DEF TypeOK, Phases
  <2>5. source = NoTable => \A u \in Squads : phase[u] = "idle"
    BY DEF TableSeen
  <2>6. TableSeen' /\ DraftIsUsable'
    BY <2>1, <2>2, <2>5 DEF TypeOK, TableSeen, DraftIsUsable
  <2>7. StoredBeforeAsked' /\ NothingUploadedYet' /\ NoResultYet'
    BY <2>1, <2>2 DEF TypeOK, StoredBeforeAsked, NothingUploadedYet, NoResultYet
  <2>8. OffsetsGrow'
    BY <2>1, <2>3 DEF TypeOK, OffsetsGrow, NoResultYet
  <2>9. SuccessIsCaptured' /\ StoredIsUsable'
    BY <2>1, <2>2 DEF TypeOK, SuccessIsCaptured, StoredIsUsable, NothingUploadedYet
  <2> QED BY <2>4, <2>6, <2>7, <2>8, <2>9
<1>2. CASE Lint(s)
  <2>1. PICK lint \in {"accepted", "refused"} :
           draft' = [draft EXCEPT ![s] =
                        IF lint = "accepted"
                        THEN [contract |-> draft[s].contract, origin |-> "cli"]
                        ELSE [contract |-> FallbackContract(seen[s]), origin |-> "agent"]]
    BY <1>2 DEF Lint, TypeOK
  <2> DEFINE d == IF lint = "accepted"
                  THEN [contract |-> draft[s].contract, origin |-> "cli"]
                  ELSE [contract |-> FallbackContract(seen[s]), origin |-> "agent"]
  <2>2. /\ UNCHANGED <<source, rows, minio, connector, asked, published, offset,
                       seeded, seen, entry, read, result>>
        /\ phase' = [phase EXCEPT ![s] = "upload"] /\ phase[s] = "lint"
        /\ draft' = [draft EXCEPT ![s] = d]
    BY <1>2, <2>1 DEF Lint, GoTo, kafka, history
  <2>3. FallbackContract(seen[s]) \in Contract
        /\ (source.keys # {} => Loads(FallbackContract(seen[s])))
    <3>1. seen[s] \in Schema /\ NoContract \in Reply
      BY DEF TypeOK, Reply
    <3> QED BY <2>2, <3>1, Generated DEF TableSeen
  <2>4. d.contract \in Contract /\ d \in Draft
    BY <2>2, <2>3 DEF DraftIsUsable, Draft, Origins
  <2>5. d.origin = "agent" => Loads(d.contract) \/ source.keys = {}
    BY <2>3
  <2> HIDE DEF d
  <2>6. TypeOK'
    BY <2>2, <2>4 DEF TypeOK, Phases
  <2>7. DraftIsUsable'
    BY <2>2, <2>4, <2>5 DEF TypeOK, DraftIsUsable
  <2> QED
    BY <2>2, <2>6, <2>7
       DEF TypeOK, TableSeen, StoredBeforeAsked, NothingUploadedYet,
           OffsetsGrow, NoResultYet, SuccessIsCaptured, StoredIsUsable
<1> QED BY <1>1, <1>2

\* The contract is uploaded and the connector asked for and waited for.
LEMMA UploadAndActivate ==
    ASSUME SourceInv, NEW s \in Squads, Upload(s) \/ Activate(s) \/ ActivateReturns(s)
    PROVE  SourceInv'
<1> USE DEF SourceInv
<1>1. CASE Upload(s)
  <2>1. /\ UNCHANGED <<source, rows, connector, asked, published, offset, entry,
                       read, result>>
        /\ minio' = draft[s] /\ Drop(s)
        /\ phase' = [phase EXCEPT ![s] = "activate"] /\ phase[s] = "upload"
    BY <1>1 DEF Upload, GoTo, kafka, history
  <2>2. /\ draft[s] \in Draft /\ draft[s] # NoDraft /\ source # NoTable
        /\ draft[s].origin = "agent" => Loads(draft[s].contract) \/ source.keys = {}
    BY <2>1, NoDraftFacts DEF TypeOK, DraftIsUsable, TableSeen
  <2>3. TypeOK'
    BY <2>1, <2>2, NoDraftFacts, AgentTableFacts, SourceStageConstants
       DEF TypeOK, Phases, Drop
  <2>4. TableSeen' /\ DraftIsUsable' /\ NoResultYet'
    BY <2>1 DEF TypeOK, TableSeen, DraftIsUsable, NoResultYet, Drop
  <2>5. StoredBeforeAsked' /\ NothingUploadedYet' /\ StoredIsUsable'
    BY <2>1, <2>2 DEF TypeOK, StoredBeforeAsked, NothingUploadedYet, StoredIsUsable
  <2>6. OffsetsGrow' /\ SuccessIsCaptured'
    BY <2>1, <2>2 DEF TypeOK, OffsetsGrow, SuccessIsCaptured
  <2> QED BY <2>3, <2>4, <2>5, <2>6
<1>2. CASE Activate(s) \/ ActivateReturns(s)
  <2>1. /\ UNCHANGED <<source, rows, minio, connector, published, offset, seeded,
                       seen, draft, entry, read, result>>
        /\ phase[s] \in {"activate", "posting"}
        /\ \/ /\ phase' = [phase EXCEPT ![s] = "consume"]
              /\ connector # "absent" /\ UNCHANGED asked
           \/ phase' = [phase EXCEPT ![s] = "posting"] /\ asked' = TRUE
    BY <1>2 DEF Activate, ActivateReturns, GoTo, kafka, local, history
  <2>2. TypeOK'
    BY <2>1 DEF TypeOK, Phases
  <2>3. StoredBeforeAsked'
    BY <2>1 DEF TypeOK, StoredBeforeAsked
  <2> QED
    BY <2>1, <2>2, <2>3
       DEF TypeOK, TableSeen, DraftIsUsable, NothingUploadedYet, OffsetsGrow,
           NoResultYet, SuccessIsCaptured, StoredIsUsable
<1> QED BY <1>1, <1>2

\* An event is read, and perhaps its offset committed.
LEMMA ConsumeStep ==
    ASSUME SourceInv, NEW s \in Squads, Consume(s)
    PROVE  SourceInv'
<1> USE DEF SourceInv
<1>1. /\ UNCHANGED <<source, rows, minio, connector, asked, published, seeded,
                     seen, draft, entry>>
      /\ offset' \in {offset, offset + 1} /\ offset < published
      /\ read' = [read EXCEPT ![s] = offset + 1]
      /\ phase' = [phase EXCEPT ![s] = "done"] /\ phase[s] = "consume"
      /\ result' = [result EXCEPT ![s] = "ok"]
  BY DEF Consume, End, local, TypeOK
<1>2. rows \in Nat /\ published \in 0..rows /\ offset \in 0..published
      /\ published \in Nat /\ offset \in Nat
  BY DEF TypeOK
<1>3. offset' \in 0..published /\ offset <= offset' /\ offset + 1 \in 1..published
  BY <1>1, <1>2
<1>4. TypeOK'
  BY <1>1, <1>2, <1>3 DEF TypeOK, Phases
<1>5. entry[s].offset <= offset /\ entry[s].offset \in Nat
  BY <1>1 DEF TypeOK, OffsetsGrow
<1>6. OffsetsGrow'
  BY <1>1, <1>2, <1>3, <1>5 DEF TypeOK, OffsetsGrow
<1>7. source # NoTable /\ connector # "absent" /\ minio # NoDraft
  BY <1>1 DEF TableSeen, StoredBeforeAsked
<1>8. SuccessIsCaptured'
  BY <1>1, <1>3, <1>7 DEF TypeOK, SuccessIsCaptured
<1> QED
  BY <1>1, <1>4, <1>6, <1>8
     DEF TypeOK, TableSeen, DraftIsUsable, StoredBeforeAsked, NothingUploadedYet,
         NoResultYet, StoredIsUsable

\* Others store contracts and ask for the connector.
LEMMA OthersStep ==
    ASSUME SourceInv, OthersStore \/ OthersAsk
    PROVE  SourceInv'
<1> USE DEF SourceInv
<1>1. /\ UNCHANGED <<source, rows, connector, published, offset, phase, seeded, seen,
                     draft, result, entry, read>>
      /\ asked' \in BOOLEAN
      /\ minio' = minio \/ (minio' \in Draft /\ minio' # NoDraft /\ minio'.origin = "others")
  BY NoDraftFacts DEF OthersStore, OthersAsk, kafka, local, history, TypeOK
<1>2. TypeOK'
  BY <1>1 DEF TypeOK
<1> QED
  BY <1>1, <1>2
     DEF TableSeen, DraftIsUsable, StoredBeforeAsked, NothingUploadedYet,
         OffsetsGrow, NoResultYet, SuccessIsCaptured, StoredIsUsable

\* The connector is created, fails, is restarted and publishes.
LEMMA ConnectStep ==
    ASSUME SourceInv, CreateConnector \/ ConnectorFails \/ ConnectorRestarts \/ Publish
    PROVE  SourceInv'
<1> USE DEF SourceInv
<1>1. /\ UNCHANGED <<source, rows, minio, asked, offset, phase, seeded, seen, draft,
                     result, entry, read>>
      /\ connector' \in {connector, "running", "failed"}
      /\ connector = "absent" \/ connector' # "absent"
      /\ published' \in {published, published + 1}
      /\ published' = published \/ published < rows
  BY DEF CreateConnector, ConnectorFails, ConnectorRestarts, Publish, local, history
<1>2. /\ rows \in Nat /\ published \in 0..rows /\ offset \in 0..published
      /\ published \in Nat /\ offset \in Nat
  BY DEF TypeOK
<1>3. published' \in 0..rows /\ offset \in 0..published' /\ published <= published'
  BY <1>1, <1>2
<1>4. TypeOK'
  BY <1>1, <1>2, <1>3 DEF TypeOK
<1>5. OffsetsGrow'
  BY <1>1, <1>2, <1>3 DEF TypeOK, OffsetsGrow
<1>6. SuccessIsCaptured'
  <2>1. \A n \in 1..published : n \in 1..published'
    BY <1>2, <1>3
  <2> QED BY <1>1, <2>1 DEF SuccessIsCaptured
<1> QED
  BY <1>1, <1>4, <1>5, <1>6
     DEF TableSeen, DraftIsUsable, StoredBeforeAsked, NothingUploadedYet,
         NoResultYet, StoredIsUsable

\* SourceInv holds in every reachable state.
THEOREM SourceInvariance == SourceSpec => []SourceInv
<1>1. ASSUME SourceInv, [SourceNext]_vars PROVE SourceInv'
  <2>1. CASE \E s \in Squads : Squad(s)
    BY <1>1, <2>1, MoveStep, TableAndLint, UploadAndActivate, ConsumeStep DEF Squad
  <2>2. CASE CreateConnector \/ ConnectorFails \/ ConnectorRestarts \/ Publish
    BY <1>1, <2>2, ConnectStep
  <2>3. CASE OthersStore \/ OthersAsk
    BY <1>1, <2>3, OthersStep
  <2>4. CASE UNCHANGED vars
    BY <1>1, <2>4
       DEF vars, SourceInv, TypeOK, TableSeen, DraftIsUsable, StoredBeforeAsked,
           NothingUploadedYet, OffsetsGrow, NoResultYet, SuccessIsCaptured, StoredIsUsable
  <2> QED BY <1>1, <2>1, <2>2, <2>3, <2>4 DEF SourceNext
<1> QED BY <1>1, SourceInvInit, PTL DEF SourceSpec

-----------------------------------------------------------------------------
(* What follows from the invariant.                                        *)

\* Types, the order of rows, events and offsets included.
THEOREM SourceTypes == SourceSpec => []TypeOK
<1>1. SourceInv => TypeOK
  BY DEF SourceInv
<1> QED BY <1>1, SourceInvariance, PTL

\* A success stands for a table, its stored contract, its connector and one of
\* its events.
THEOREM SuccessIsReal == SourceSpec => []SuccessIsCaptured
<1>1. SourceInv => SuccessIsCaptured
  BY DEF SourceInv
<1> QED BY <1>1, SourceInvariance, PTL

\* Without a backlog, the event read was published after the agent began.
THEOREM EventIsFresh == SourceSpec => []FreshUnlessBacklog
<1>1. SourceInv => FreshUnlessBacklog
  BY DEF SourceInv, OffsetsGrow, FreshUnlessBacklog
<1> QED BY <1>1, SourceInvariance, PTL

\* Whatever others left and store in between, a contract that an agent put into
\* MinIO was accepted by the CLI, or loads, or belongs to a table without a key.
THEOREM StoredContractIsUsable == SourceSpec => []StoredIsUsable
<1>1. SourceInv => StoredIsUsable
  BY DEF SourceInv
<1> QED BY <1>1, SourceInvariance, PTL

-----------------------------------------------------------------------------
(* The agent's work is short: the half of AgentReturns without fairness.   *)

\* Steps an agent may still take, the rows it has yet to insert included.
PhasesAfter ==
    [inspect |-> 8, generate |-> 7, lint |-> 6, upload |-> 5, activate |-> 4,
     posting |-> 3, consume |-> 2, done |-> 0]
StepsLeft(s) ==
    CASE phase[s] = "idle" -> SeedRows + 10
      [] phase[s] = "seed" -> SeedRows - seeded[s] + 9
      [] OTHER -> PhasesAfter[phase[s]]

\* A step of one squad leaves it less to do, and the others as much.
LEMMA SquadCountsDown ==
    ASSUME SourceInv, NEW s \in Squads, Squad(s)
    PROVE  /\ StepsLeft(s)' < StepsLeft(s)
           /\ \A q \in Squads \ {s} : StepsLeft(q)' = StepsLeft(q)
<1> USE SourceStageConstants
<1>1. /\ phase \in [Squads -> Phases] /\ seeded \in [Squads -> 0..SeedRows]
      /\ seeded[s] \in 0..SeedRows
  BY DEF SourceInv, TypeOK
<1>2. ASSUME NEW q \in Squads \ {s} PROVE StepsLeft(q)' = StepsLeft(q)
  <2>1. phase'[q] = phase[q] /\ seeded'[q] = seeded[q]
    BY <1>1, <1>2 DEF Squad, CreateTable, SeedRow, Inspect, Generate, Lint, Upload,
       Activate, ActivateReturns, Consume, GiveUp, GoTo, End, Drop, local
  <2> QED BY <2>1 DEF StepsLeft
<1>3. CASE CreateTable(s)
  <2>1. phase[s] = "idle" /\ phase'[s] = "seed" /\ seeded'[s] = seeded[s]
    BY <1>1, <1>3 DEF CreateTable, GoTo, local
  <2> QED BY <1>1, <1>2, <2>1 DEF StepsLeft
<1>4. CASE SeedRow(s)
  <2>1. /\ phase[s] = "seed"
        /\ \/ seeded[s] < SeedRows /\ phase'[s] = "seed" /\ seeded'[s] = seeded[s] + 1
           \/ seeded[s] >= SeedRows /\ phase'[s] = "inspect"
    BY <1>1, <1>4 DEF SeedRow, GoTo
  <2> QED BY <1>1, <1>2, <2>1 DEF StepsLeft, PhasesAfter
<1>5. CASE \/ Inspect(s) \/ Generate(s) \/ Lint(s) \/ Upload(s) \/ Activate(s)
           \/ ActivateReturns(s) \/ Consume(s)
  <2>1. \/ phase[s] = "inspect" /\ phase'[s] = "generate"
        \/ phase[s] = "generate" /\ phase'[s] = "lint"
        \/ phase[s] = "lint" /\ phase'[s] = "upload"
        \/ phase[s] = "upload" /\ phase'[s] = "activate"
        \/ phase[s] = "activate" /\ phase'[s] \in {"posting", "consume"}
        \/ phase[s] = "posting" /\ phase'[s] = "consume"
        \/ phase[s] = "consume" /\ phase'[s] = "done"
    BY <1>1, <1>5 DEF Inspect, Generate, Lint, Upload, Activate, ActivateReturns,
       Consume, GoTo, End
  <2> QED BY <1>2, <2>1 DEF StepsLeft, PhasesAfter
<1>6. CASE GiveUp(s)
  <2>1. phase[s] \in Phases \ {"idle", "done"} /\ phase'[s] = "done"
    BY <1>1, <1>6 DEF GiveUp, End
  <2>2. StepsLeft(s)' = 0
    BY <2>1 DEF StepsLeft, PhasesAfter
  <2>3. StepsLeft(s) > 0
    BY <1>1, <2>1 DEF StepsLeft, PhasesAfter, Phases
  <2> QED BY <1>2, <2>2, <2>3
<1> QED BY <1>3, <1>4, <1>5, <1>6 DEF Squad

\* From its beginning the agent takes at most SeedRows + 10 steps, whatever
\* fails and whoever else works on the table: no failure leads back.
THEOREM WorkIsShort ==
    SourceSpec =>
        /\ [](\A s \in Squads : StepsLeft(s) \in 0..(SeedRows + 10))
        /\ [][\A s \in Squads :
                 /\ Squad(s) => StepsLeft(s)' < StepsLeft(s)
                 /\ StepsLeft(s)' <= StepsLeft(s)]_vars
<1> DEFINE Counted == \A s \in Squads : StepsLeft(s) \in 0..(SeedRows + 10)
           Down == \A s \in Squads : /\ Squad(s) => StepsLeft(s)' < StepsLeft(s)
                                     /\ StepsLeft(s)' <= StepsLeft(s)
<1>1. SourceInv => Counted
  <2> SUFFICES ASSUME SourceInv, NEW s \in Squads
               PROVE  StepsLeft(s) \in 0..(SeedRows + 10)
    OBVIOUS
  <2>1. phase[s] \in Phases /\ seeded[s] \in 0..SeedRows
    BY DEF SourceInv, TypeOK
  <2> QED BY <2>1, SourceStageConstants DEF StepsLeft, PhasesAfter, Phases
<1>2. SourceInv /\ Counted' /\ [SourceNext]_vars => [Down]_vars
  <2> SUFFICES ASSUME SourceInv, Counted', SourceNext, NEW s \in Squads
               PROVE  /\ Squad(s) => StepsLeft(s)' < StepsLeft(s)
                      /\ StepsLeft(s)' <= StepsLeft(s)
    OBVIOUS
  <2>1. StepsLeft(s) \in Nat /\ StepsLeft(s)' \in Nat
    BY <1>1, SourceStageConstants
  <2>2. Squad(s) => StepsLeft(s)' < StepsLeft(s)
    BY SquadCountsDown
  <2>3. ASSUME NEW q \in Squads \ {s}, Squad(q)
        PROVE  StepsLeft(s)' = StepsLeft(s)
    BY <2>3, SquadCountsDown
  <2>4. ASSUME \/ OthersStore \/ OthersAsk \/ CreateConnector \/ ConnectorFails
               \/ ConnectorRestarts \/ Publish
        PROVE  StepsLeft(s)' = StepsLeft(s)
    BY <2>4 DEF OthersStore, OthersAsk, CreateConnector, ConnectorFails,
       ConnectorRestarts, Publish, StepsLeft, local
  <2> HIDE DEF Counted, Down
  <2>5. StepsLeft(s)' <= StepsLeft(s)
    <3>1. CASE \E q \in Squads : Squad(q)
      <4>1. PICK q \in Squads : Squad(q)
        BY <3>1
      <4>2. CASE q = s
        BY <2>1, <2>2, <4>1, <4>2
      <4>3. CASE q # s
        BY <2>1, <2>3, <4>1, <4>3
      <4> QED BY <4>2, <4>3
    <3>2. CASE \/ OthersStore \/ OthersAsk \/ CreateConnector \/ ConnectorFails
               \/ ConnectorRestarts \/ Publish
      BY <2>1, <2>4, <3>2
    <3> QED BY <3>1, <3>2 DEF SourceNext
  <2> QED BY <2>2, <2>5
<1> QED BY <1>1, <1>2, SourceInvariance, PTL DEF SourceSpec

-----------------------------------------------------------------------------
(* What the agents see of activate is what it promises.                    *)

Promise == INSTANCE ConnectorPromise
    WITH exists <- connector # "absent",
         reported <- \E s \in Squads : result[s] = "ok"

\* Every step of the stage is one the promise allows: a connector, running or
\* not, comes after a request and stays, and success is only reported of one
\* that exists.  Without a connector of an earlier run it begins as the
\* promise does.
THEOREM SourceKeepsPromise ==
    SourceSpec =>
        /\ [][Promise!Ask \/ Promise!Create \/ Promise!ReportSuccess]_(Promise!vars)
        /\ connector = "absent" => Promise!PromiseSpec
<1> DEFINE PromiseNext == Promise!Ask \/ Promise!Create \/ Promise!ReportSuccess
<1>1. SourceInit /\ connector = "absent" => Promise!PromiseInit
  BY DEF SourceInit, Promise!PromiseInit
<1>2. SourceInv /\ SourceInv' /\ [SourceNext]_vars => [PromiseNext]_(Promise!vars)
  <2> SUFFICES ASSUME SourceInv, SourceInv', [SourceNext]_vars
               PROVE  PromiseNext \/ UNCHANGED Promise!vars
    OBVIOUS
  <2> USE DEF Promise!vars
  <2>1. TypeOK /\ (\A s \in Squads : result'[s] = "ok" => connector' # "absent")
    BY DEF SourceInv, SuccessIsCaptured
  <2>2. ASSUME NEW s \in Squads, Activate(s)
        PROVE  Promise!Ask \/ UNCHANGED Promise!vars
    BY <2>2 DEF Activate, GoTo, local, history, Promise!Ask
  <2>3. ASSUME CreateConnector PROVE Promise!Create
    BY <2>3 DEF CreateConnector, Promise!Create
  <2>4. ASSUME NEW s \in Squads, Consume(s)
        PROVE  Promise!ReportSuccess \/ UNCHANGED Promise!vars
    <3>1. UNCHANGED <<connector, asked>>
      BY <2>4 DEF Consume
    <3>2. CASE \E u \in Squads : result'[u] = "ok" /\ result[u] # "ok"
      <4>1. connector # "absent" /\ (\E u \in Squads : result'[u] = "ok")
        BY <2>1, <3>1, <3>2
      <4> QED BY <3>1, <4>1 DEF Promise!ReportSuccess
    <3>3. CASE \A u \in Squads : result'[u] = "ok" => result[u] = "ok"
      <4>1. \A u \in Squads : result[u] = "ok" => result'[u] = "ok"
        BY <2>1, <2>4 DEF Consume, End, TypeOK
      <4> QED BY <3>1, <3>3, <4>1
    <3> QED BY <3>2, <3>3
  <2>5. ASSUME NEW s \in Squads, GiveUp(s) PROVE UNCHANGED Promise!vars
    <3>1. result[s] = "none" /\ result' = [result EXCEPT ![s] = "error"]
      BY <2>5 DEF SourceInv, GiveUp, End, NoResultYet
    <3>2. \A u \in Squads : result'[u] = "ok" <=> result[u] = "ok"
      BY <2>1, <3>1 DEF TypeOK
    <3>3. UNCHANGED <<connector, asked>>
      BY <2>5 DEF GiveUp, kafka
    <3> QED BY <3>2, <3>3
  <2>6. ASSUME NEW s \in Squads,
               \/ CreateTable(s) \/ SeedRow(s) \/ Inspect(s) \/ Generate(s)
               \/ Lint(s) \/ Upload(s) \/ ActivateReturns(s)
        PROVE  UNCHANGED <<connector, asked, result>>
    BY <2>6 DEF CreateTable, SeedRow, Inspect, Generate, Lint, Upload,
       ActivateReturns, GoTo, kafka, local
  <2>7. ASSUME ConnectorFails \/ ConnectorRestarts PROVE UNCHANGED Promise!vars
    BY <2>7 DEF ConnectorFails, ConnectorRestarts
  <2>9. ASSUME OthersAsk PROVE Promise!Ask
    BY <2>9 DEF OthersAsk, Promise!Ask
  <2>8. ASSUME OthersStore \/ Publish \/ UNCHANGED vars
        PROVE  UNCHANGED <<connector, asked, result>>
    BY <2>8 DEF OthersStore, Publish, kafka, vars
  <2> QED BY <2>2, <2>3, <2>4, <2>5, <2>6, <2>7, <2>8, <2>9 DEF SourceNext, Squad
<1> QED BY <1>1, <1>2, SourceInvariance, PTL DEF SourceSpec, Promise!PromiseSpec
=============================================================================
