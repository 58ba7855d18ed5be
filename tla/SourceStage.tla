---------------------------- MODULE SourceStage -----------------------------
(***************************************************************************)
(* The work of the data source agent (agents/data_source): create and seed *)
(* the table, generate and lint its contract, upload it, activate the      *)
(* connector, and read one change event of the table from Kafka.           *)
(*                                                                         *)
(* Table, contract, connector, topic and the offsets of the agent's        *)
(* consumer group outlive the agent, and every squad on the table uses the *)
(* same; the portal and the command line (USAGE.md, "Option B") write the  *)
(* same contract and the same connector.  Postgres, the CLI in the         *)
(* portal's pod, MinIO, Kafka and Kafka Connect are external; activate is  *)
(* used as ConnectorPromise describes.                                     *)
(***************************************************************************)
EXTENDS ContractGeneration, Naturals

CONSTANTS
    Squads,         \* runs of the E2E squad on one table
    AgentKey,       \* the key column of the table the agent creates
    SeedRows,       \* seed_rows of create_and_seed_table
    MaxLeft         \* bound: rows earlier runs left

ASSUME SourceStageConstants ==
    /\ AgentKey \in Columns
    /\ SeedRows \in Nat
    /\ MaxLeft \in Nat

VARIABLES
    source,     \* the table in Postgres
    rows,       \* rows inserted so far
    minio,      \* the contract in MinIO and where it came from
    connector,  \* "absent", "running" or "failed"
    asked,      \* somebody has sent a request for the connector
    published,  \* rows whose event is on the topic
    offset,     \* committed offset of the group e2e-agent-<topic>
    phase,      \* phase[s]: what the agent of squad s does next
    seeded,     \* seeded[s]: rows it has inserted
    seen,       \* seen[s]: the schema it inspected
    draft,      \* draft[s]: the contract it is about to upload
    result,     \* result[s]: "none", "ok" or "error"
    entry,      \* entry[s]: published and offset when s began (history)
    read        \* read[s]: the event that s took for its proof (history)

vars == <<source, rows, minio, connector, asked, published, offset, phase,
          seeded, seen, draft, result, entry, read>>
kafka == <<connector, asked, published, offset>>
local == <<seeded, seen, draft>>
history == <<entry, read>>

AgentTable == [cols |-> Columns, keys |-> {AgentKey}]

\* Where a contract came from: "others" stands for the portal, an upload by
\* hand and earlier runs, "agent" for an agent of Squads, and "cli" for one of
\* theirs that the CLI accepted.
Origins == {"none", "others", "agent", "cli"}
Draft == [contract : Contract \union {NoContract}, origin : Origins]
NoDraft == [contract |-> NoContract, origin |-> "none"]
Foreign == {[contract |-> c, origin |-> "others"] : c \in Contract}
Phases == {"idle", "seed", "inspect", "generate", "lint", "upload", "activate",
           "posting", "consume", "done"}

TypeOK ==
    /\ source \in Schema
    /\ rows \in Nat
    /\ minio \in Draft
    /\ connector \in {"absent", "running", "failed"}
    /\ asked \in BOOLEAN
    /\ published \in 0..rows
    /\ offset \in 0..published
    /\ phase \in [Squads -> Phases]
    /\ seeded \in [Squads -> 0..SeedRows]
    /\ seen \in [Squads -> Schema]
    /\ draft \in [Squads -> Draft]
    /\ result \in [Squads -> {"none", "ok", "error"}]
    /\ entry \in [Squads -> [published : Nat, offset : Nat]]
    /\ read \in [Squads -> Nat]

-----------------------------------------------------------------------------
\* What others left: any contract or none, a connector with or without one,
\* events only of rows, offsets only of events.
SourceInit ==
    /\ source \in Schema
    /\ rows \in IF source = NoTable THEN {0} ELSE 0..MaxLeft
    /\ minio \in {NoDraft} \union Foreign
    /\ connector \in {"absent", "running", "failed"}
    /\ asked = (connector # "absent")
    /\ published \in IF asked THEN 0..rows ELSE {0}
    /\ offset \in 0..published
    /\ phase = [s \in Squads |-> "idle"]
    /\ seeded = [s \in Squads |-> 0]
    /\ seen = [s \in Squads |-> NoTable]
    /\ draft = [s \in Squads |-> NoDraft]
    /\ result = [s \in Squads |-> "none"]
    /\ entry = [s \in Squads |-> [published |-> 0, offset |-> 0]]
    /\ read = [s \in Squads |-> 0]

GoTo(s, p) == phase' = [phase EXCEPT ![s] = p] /\ UNCHANGED result

End(s, r) ==
    /\ phase' = [phase EXCEPT ![s] = "done"]
    /\ result' = [result EXCEPT ![s] = r]

\* The locals of the node, dropped when nothing reads them any more.
Drop(s) ==
    /\ seeded' = [seeded EXCEPT ![s] = 0]
    /\ seen' = [seen EXCEPT ![s] = NoTable]
    /\ draft' = [draft EXCEPT ![s] = NoDraft]

\* CREATE TABLE IF NOT EXISTS: a table that is there stays as it is.
CreateTable(s) ==
    /\ phase[s] = "idle"
    /\ source' = IF source = NoTable THEN AgentTable ELSE source
    /\ entry' = [entry EXCEPT ![s] = [published |-> published, offset |-> offset]]
    /\ GoTo(s, "seed")
    /\ UNCHANGED <<rows, minio, kafka, local, read>>

\* Mutant of SeedRow: one row too many.
SeedRowAgain(s) ==
    /\ phase[s] = "seed"
    /\ IF seeded[s] <= SeedRows
       THEN /\ rows' = rows + 1
            /\ seeded' = [seeded EXCEPT ![s] = @ + 1]
            /\ UNCHANGED <<phase, result>>
       ELSE GoTo(s, "inspect") /\ UNCHANGED <<rows, seeded>>
    /\ UNCHANGED <<source, minio, kafka, seen, draft, history>>

\* One INSERT after the other.  The key is a serial, so ON CONFLICT never
\* applies: every run adds its rows.
SeedRow(s) ==
    /\ phase[s] = "seed"
    /\ IF seeded[s] < SeedRows
       THEN /\ rows' = rows + 1
            /\ seeded' = [seeded EXCEPT ![s] = @ + 1]
            /\ UNCHANGED <<phase, result>>
       ELSE GoTo(s, "inspect") /\ UNCHANGED <<rows, seeded>>
    /\ UNCHANGED <<source, minio, kafka, seen, draft, history>>

Inspect(s) ==
    /\ phase[s] = "inspect"
    /\ seen' = [seen EXCEPT ![s] = Introspected(source, source)]
    /\ GoTo(s, "generate")
    /\ UNCHANGED <<source, rows, minio, kafka, seeded, draft, history>>

\* Gemini's reply, or without an API key that of the fallback provider.
Generate(s) ==
    /\ phase[s] = "generate"
    /\ \E reply \in Reply :
          draft' = [draft EXCEPT ![s] =
                       [contract |-> ParseAndValidate(reply, seen[s]), origin |-> "agent"]]
    /\ GoTo(s, "lint")
    /\ UNCHANGED <<source, rows, minio, kafka, seeded, seen, history>>

\* Mutant of Lint: the verdict is not read.
LintOnly(s) ==
    /\ phase[s] = "lint"
    /\ \E valid \in BOOLEAN :
          draft' = [draft EXCEPT ![s].origin = IF valid THEN "cli" ELSE "agent"]
    /\ GoTo(s, "upload")
    /\ UNCHANGED <<source, rows, minio, kafka, seeded, seen, history>>

\* validate_contract_cli: a contract the CLI does not accept, or that it is
\* not there to accept, is replaced; the replacement is not linted again.
Lint(s) ==
    /\ phase[s] = "lint"
    /\ \E lint \in {"accepted", "refused"} :
          draft' = [draft EXCEPT ![s] =
                       IF lint = "accepted"
                       THEN [contract |-> @.contract, origin |-> "cli"]
                       ELSE [contract |-> FallbackContract(seen[s]), origin |-> "agent"]]
    /\ GoTo(s, "upload")
    /\ UNCHANGED <<source, rows, minio, kafka, seeded, seen, history>>

\* Mutant of Upload: a failing put_object is ignored.
UploadAnyway(s) ==
    /\ phase[s] = "upload"
    /\ minio' \in {minio, draft[s]}
    /\ GoTo(s, "activate")
    /\ Drop(s)
    /\ UNCHANGED <<source, rows, kafka, history>>

Upload(s) ==
    /\ phase[s] = "upload"
    /\ minio' = draft[s]
    /\ GoTo(s, "activate")
    /\ Drop(s)
    /\ UNCHANGED <<source, rows, kafka, history>>

\* activate: a connector that exists is "already_active", whatever its state;
\* an answer that is no 200 reads as absent.
Activate(s) ==
    /\ phase[s] = "activate"
    /\ \/ /\ connector # "absent"
          /\ GoTo(s, "consume")
          /\ UNCHANGED asked
       \/ asked' = TRUE /\ GoTo(s, "posting")
    /\ UNCHANGED <<source, rows, minio, connector, published, offset, local,
                   history>>

ActivateReturns(s) ==
    /\ phase[s] = "posting"
    /\ connector # "absent"
    /\ GoTo(s, "consume")
    /\ UNCHANGED <<source, rows, minio, kafka, local, history>>

\* Mutant of Consume: no consumer group, every run reads from the start.
ConsumeEarliest(s) ==
    /\ phase[s] = "consume"
    /\ published > 0
    /\ read' = [read EXCEPT ![s] = 1]
    /\ End(s, "ok")
    /\ UNCHANGED <<source, rows, minio, kafka, local, entry>>

\* consume_one_kafka_message: the first event after the committed offset of
\* the group.  close() commits it, or fails to.
Consume(s) ==
    /\ phase[s] = "consume"
    /\ published > offset
    /\ read' = [read EXCEPT ![s] = offset + 1]
    /\ offset' \in {offset, offset + 1}
    /\ End(s, "ok")
    /\ UNCHANGED <<source, rows, minio, connector, asked, published, local, entry>>

\* Mutant of GiveUp: the consumer has no timeout.
GiveUpButNotOnKafka(s) ==
    /\ phase[s] \notin {"idle", "consume", "done"}
    /\ End(s, "error")
    /\ Drop(s)
    /\ UNCHANGED <<source, rows, minio, kafka, history>>

\* psql, kubectl, the provider, MinIO or Kafka Connect fails, the portal's pod
\* is not where it is looked for, a created connector has "error" in its
\* name, no message came in 60 s: an exception ends the work.
GiveUp(s) ==
    /\ phase[s] \notin {"idle", "done"}
    /\ End(s, "error")
    /\ Drop(s)
    /\ UNCHANGED <<source, rows, minio, kafka, history>>

Squad(s) ==
    \/ CreateTable(s) \/ SeedRow(s) \/ Inspect(s) \/ Generate(s) \/ Lint(s)
    \/ Upload(s) \/ Activate(s) \/ ActivateReturns(s) \/ Consume(s) \/ GiveUp(s)

\* The portal stores what it generated, which no CLI has seen, and anybody may
\* upload a contract by hand, also one load_contract cannot read ...
OthersStore ==
    /\ minio' \in Foreign
    /\ UNCHANGED <<source, rows, kafka, phase, local, result, history>>

\* ... and ask for the connector, by hand also without a contract.
OthersAsk ==
    /\ asked' = TRUE
    /\ UNCHANGED <<source, rows, minio, connector, published, offset, phase, local,
                   result, history>>

\* Kafka Connect creates the connector; it may fail, and be restarted ...
CreateConnector ==
    /\ asked
    /\ connector = "absent"
    /\ connector' = "running"
    /\ UNCHANGED <<source, rows, minio, asked, published, offset, phase, local,
                   result, history>>

ConnectorFails ==
    /\ connector = "running"
    /\ connector' = "failed"
    /\ UNCHANGED <<source, rows, minio, asked, published, offset, phase, local,
                   result, history>>

ConnectorRestarts ==
    /\ connector = "failed"
    /\ connector' = "running"
    /\ UNCHANGED <<source, rows, minio, asked, published, offset, phase, local,
                   result, history>>

\* ... and publishes, while it runs, every row of the table.
Publish ==
    /\ connector = "running"
    /\ published < rows
    /\ published' = published + 1
    /\ UNCHANGED <<source, rows, minio, connector, asked, offset, phase, local,
                   result, history>>

SourceNext ==
    \/ \E s \in Squads : Squad(s)
    \/ OthersStore \/ OthersAsk
    \/ CreateConnector \/ ConnectorFails \/ ConnectorRestarts \/ Publish

SourceSpec == SourceInit /\ [][SourceNext]_vars
\* Every wait ends: by a timeout in the code, but for psycopg's connect, which
\* has TCP's, and a model call that outlives its wait_for, whose thread
\* asyncio.run joins: it has the timeout of the provider's HTTP client.
FairSourceSpec == SourceSpec /\ \A s \in Squads : WF_vars(Squad(s))

-----------------------------------------------------------------------------
(* Properties.                                                             *)

\* A success means that the table is there, that a contract is stored and a
\* connector exists for it, and that an event of it was read.
SuccessIsCaptured ==
    \A s \in Squads : result[s] = "ok" =>
        /\ source # NoTable
        /\ connector # "absent" /\ minio # NoDraft
        /\ read[s] \in 1..published

\* The event read is one published after the agent began, so that the
\* connector was alive, unless an earlier run had left an unread event.
FreshUnlessBacklog ==
    \A s \in Squads :
        (result[s] = "ok" /\ entry[s].offset = entry[s].published) =>
            read[s] > entry[s].published

\* A contract that an agent has put into MinIO, whatever others have stored
\* before and store in between, was accepted by the CLI or is one load_contract
\* accepts (agents_spefication.md, agent 3), unless the table has no key.
StoredIsUsable ==
    minio.origin = "agent" => Loads(minio.contract) \/ source.keys = {}

\* Every agent that begins its work ends it, one way or the other.
AgentReturns == \A s \in Squads : phase[s] # "idle" ~> phase[s] = "done"
=============================================================================
