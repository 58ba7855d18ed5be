# A TLA+ model of the on-premise data platform

This directory holds TLA+ specifications of the parts of the platform that
have a state, the TLC configurations that check them on small instances, and
theorems about them proved with TLAPS. File and line references are to the
repository; `PROJECT.json` maps every definition to the lines it models.

The platform captures changes of a Postgres database with Debezium, stores
them in Apache Iceberg tables (Bronze), merges them into one row per key
(Silver), builds star-schema tables with dbt (Gold), and offers a chat portal
that puts a new table under capture. A squad of agents tests the whole path
end to end.

```
 Postgres --Debezium--> Kafka cdc.public.<t> --bronze_streaming.py--> bronze.<t>_valid / <t>_invalid
                          ^                         ^ contracts copied at start
 portal --contract--> s3://contracts                |
        --POST /connectors--> Kafka Connect         |      (hourly DAG, manual DAG, Spark agent)
                                                    +--bronze_to_silver.py--> silver.<t>
 E2E squad: infra -> data_source -> spark -> gold -> reporter         dbt --> gold.*
```

## 1. Inventory

| Component | State it keeps | Operations | Talks to | What is hard | What makes it correct |
|---|---|---|---|---|---|
| Bronze streaming job, `spark/jobs/bronze_streaming.py` | Spark checkpoint (offset log, commit log), the Iceberg tables, the contracts on its volume | plan a batch, validate and append one record, commit, die, restart | Kafka, MinIO, Nessie, Spark operator | a batch is appended row by row and replayed as a whole after a crash, against other contracts | no event is lost or skipped, replays do not bury newer events, the contract binds |
| Silver batch job, `spark/jobs/bronze_to_silver.py` | `silver.<t>`; per run a Bronze snapshot and a target snapshot | load contract, read one ingestion date, deduplicate, MERGE | Nessie/Iceberg, MinIO | overlapping runs, stale snapshots, dates in any order, a Bronze in the middle of a replay | one row per key, rows come from Bronze, the newest image wins, Silver catches up |
| Silver scheduling, `dags/silver_processing_dag.py` | DAG runs | hourly run per contract, manual run of any date | Airflow, Spark operator | midnight, failed last run of a date | every date is closed once |
| E2E graph and router, `agents/run_e2e.py`, `graph.py`, `orchestrator/router.py`, `state.py` | `E2EState` | route, run a node, exit | the agents, Langfuse | errors inside handlers, routing by what a node left in the state | order, fail-fast, exit code, termination |
| Observability and report, `agents/observability.py`, `agents/reporter/` | scores in a client's queue, scores on the server, the report | open span, emit, deliver, fetch, format | Langfuse | delivery in the background by several clients; a client that raises | a green report is green, a failure is reported |
| Port forwarding, `agents/port_forward.py` | `kubectl` processes | start, stop at exit | Kubernetes | a start that fails midway | no process outlives the run |
| Connector activation, `portal/agent/connector_activator.py` | the connector in Kafka Connect | check, create with retries | Kafka Connect | check-then-create, lost answers, late requests | a success is real, one creator, the call ends |
| Agents' work, `agents/{infrastructure,data_source,spark_processing,gold}/` | Kubernetes objects, Nessie tables, DAG runs | poll, apply, delete, trigger, retry | Kubernetes, Kafka, Nessie, Airflow, Trino | the objects outlive the agent and are shared by name | a success is a success of this run; one retry; every wait ends |
| Portal, `portal/app.py`, `portal/agent/session.py`, `commands.py` | per session the selected provider and the message in hand; contracts in MinIO (and a copy on a volume) | start, select a provider, check, inspect, generate, store, activate, stop | LLM providers, Postgres, MinIO, Kafka Connect | handlers interleave at their awaits; settings change under a running handler; a step fails after others took effect; a thread outlives its handler | no capture without a contract, no false success, no generation after an error before a new selection, every message is answered |
| LLM providers, `portal/agent/providers/` | none | construct, generate | Gemini, Ollama | a model that never answers | an answer or a `ProviderError`, by a deadline |
| Contract generation, `portal/agent/odcs_generator.py`, `schema_inspector.py` | none | introspect, parse, fall back | Postgres, LLM | two queries for one schema; whatever a model writes is accepted; the Silver job is stricter | what it stores, the Silver job can load |
| Gold layer (dbt), readiness validator, cluster and Helm files | – | – | – | declarative or read-only | – |
| ConfigMap copies of the two jobs, `spark/scripts/` | as the jobs | as the jobs | as the jobs | they are what the SparkApplications mount and run; the Silver copy is not `spark/jobs/bronze_to_silver.py` (section 3) | – |

The hazards, each at the line where it bites and with the properties that
would catch it, are under `hazards` in `PROJECT.json`.

## 2. Modules

| Module | Models | Checked by | Proofs |
|---|---|---|---|
| `AtLeastOnceLog` | what Bronze promises: events are kept in order, without a gap, for ever | – (abstract) | |
| `BronzeStreaming` | the Bronze job, its driver and its checkpoint | `bronze_*` | `BronzeStreaming_proofs` |
| `Medallion` | Bronze and Silver together; extends `BronzeStreaming` | `silver_*` | `Medallion_proofs` |
| `FailFastPipeline` | what the squad promises: stages in order, the first failure is the verdict | – (abstract) | |
| `E2ESquad` | `main`, the graph, router, nodes, Langfuse, reporter, port-forwards | `squad_faulty` | `E2ESquad_proofs` |
| `ConnectorPromise` | what `activate` promises: a connector appears only when asked for, stays, and a success is true | – (abstract) | |
| `ConnectorActivation` | concurrent calls of `activate` for one connector | `activation` | `ConnectorActivation_proofs` |
| `ContractGeneration` | schemas, contracts, the generator and what `load_contract` accepts, as operators | with its two users | with its two users |
| `Portal` | the chat handlers of several sessions; extends `ContractGeneration` | `portal` | `Portal_proofs` |
| `SourceStage` | the data source agent of several squads on one table; extends `ContractGeneration` | `source_stage` | `SourceStage_proofs` |
| `SparkStage` | the Spark agent, the SparkApplications it shares with other squads | `spark_stage` | `SparkStage_proofs` |
| `GoldStage` | the Gold agent, the runs of `gold_dbt_dag` | `gold_stage` | `GoldStage_proofs` |

An `MC…` module extends the module it instantiates and holds the symmetry set
where one is used; model values, constants and bounds are in the `.cfg` of the
run. Operators whose comment starts
with "Mutant of" are not part of a specification: each is a plausible wrong
version of one definition, and shows that a property notices it. No module
uses a `RECURSIVE` operator.

### BronzeStreaming

`log[t]` is the topic of a table, one partition, offsets from 1. Spark's two
logs are `planned` (offset log, written before `foreachBatch`) and `committed`
(commit log, written after it); `pos` is how far `process_batch` has appended.
`PlanBatch` is the trigger, `AppendRow` one round of the loop of
`process_batch` (validation included), `CommitBatch` its return, `Crash` any
end of the driver, `StartDriver` a start by the Spark operator, which grants
`OnFailureRetries` restarts, with the initContainer's copy of the contracts
(any subset of them, because a failing copy is ignored). `Verdicts` is
`validate_record`: without a contract file or without the `datacontract`
command every record passes; with them the command decides, or its timeout
says no. `docker/spark/Dockerfile` does not install the command, so `HasCli =
FALSE` is the deployed system and `HasCli = TRUE` the intended one. `Nested`
says whether the converter of Kafka Connect wraps an event in `payload`:
USAGE.md:243 shows it wrapped, the manifest asks for unwrapped events
(`VALUE_CONVERTER_SCHEMAS_ENABLE`, kafka-connect.yaml:45), Silver needs them
wrapped, Bronze reads `op` as if they were not.

A row of Bronze keeps only what a property can tell apart: the offset it came
from, the recorded `op` and its ingestion date. Its place in the sequence is
its `_cdc_ts`.

### Medallion

`Submit…` start a run (`SubmitHourly` for `due[t]`, the date of the data
interval; `SubmitAgent` for today; `SubmitManual` for any date); `ReadBronze`
is `load_contract` and the Bronze snapshot, `BeginMerge` the snapshot of the
target, `CommitMerge` the Iceberg commit, which fails when `stale` says that
another commit came first (`Abort`). `Parsed`, `Dedup` and `Merge` are the
three SQL statements as operators on sets of rows. `Midnight` waits until the
hourly run that closes the previous date is over.

### E2ESquad

One process: `main` (`pc`), the node LangGraph runs (`node`, `step`), the
fields of `E2EState`, and the scores on their way to Langfuse. A span opens
outside the `try` of a node and a score is emitted inside it, and the handler
emits its own score: the three places where a Langfuse exception has three
different effects (`SpanRaises`, `EmitRaises`, `HandlerRaises`). The work of
an agent succeeds or raises (`Work`); what it does is in `SourceStage`,
`SparkStage` and `GoldStage`. The reporter is `Fetched` (what Langfuse has
received, or nothing), `SlackReport` (its scores, or those of the state) and
`Report`, the node.

### ConnectorActivation

Callers, requests and answers on the wire, and Kafka Connect. A request whose
answer the caller gave up on stays in `requests` and may be executed later
(`Execute`) or never (`DropRequest`). `CheckExists` reads anything but a 200
as "absent", as `_connector_exists` does; `Receive` is `raise_for_status` with
its split between 5xx (retry) and 4xx (raise: a 409 as "conflict", a refused
configuration as "rejected"). Kafka Connect answers 409 also
while it rebalances; `rebalanced` remembers who got such an answer.

All this implements `ConnectorPromise`, in which there is one connector,
somebody who asked for it and somebody who was told of success. `Portal` and
`SourceStage` use `activate` as that promise: `BeginActivate` or `Activate` asks,
`CreateConnector` creates at any later time, `ActivateReturns` needs the
connector, and raising is always possible.

### ContractGeneration

A schema is a set of columns and a set of key columns. `Introspected` is the
two queries of `introspect`: the key first, then the columns, each with a
snapshot of its own, so that the table may change in between. A reply of a
provider is a contract (a mapping with a `schema`) or nothing of the kind;
`ParseAndValidate` takes the first as it is and makes the second a
`FallbackContract`. `Loads` is what `load_contract` of the Silver job asks:
fields, and a key among them.

### Portal

The chat portal is one event loop. Between two awaits nothing else of it runs,
so that the steps of a message are `HandleMessage` (up to the first await),
`CheckTable`, `Inspect`, `GenerateAndStore` or `GenerateFails`, `BeginActivate`
and `ActivateReturns` or `ActivateRaises`. `task[s]` holds the locals of the
handler: the provider it began with, the table and the schema it saw. The
settings panel may select another provider at any time; when the old one's call
fails, `clear_provider` clears the new one. `Abandon` is the user's Stop and
every exception that nothing catches. `asked`, `connector` and `told` are the
promise of `activate`, table by table.

### SourceStage

Table, contract, connector, topic and the consumer group's offset are shared
and outlive the agents; `SourceInit` starts with anything others may have left:
any contract, also one no CLI has seen or `load_contract` cannot read (the
portal stores such contracts, app.py:223-230, and USAGE.md:129-138 uploads
contracts/orders.yaml by hand), and a connector in any state, with or without a
contract (USAGE.md:140 creates it by `curl`). `OthersStore` and `OthersAsk` do
the same while the agents work. The `origin` of a contract says who it is from:
`StoredIsUsable` is about those of the agents. `Lint` is the CLI's verdict and
the fallback that replaces a refused contract without being linted; `Consume`
is the first event after the group's offset, which `close` commits or fails to
commit. `entry` and `read` remember what was published when the agent began and
what it took for its proof.

### SparkStage and GoldStage

The objects the agents drive and the agents as sequential processes over
them. In `SparkStage` several squads use one `silver-batch-<table>` object,
numbered by `job` so that a property can tell a fresh job from a stale one. A
delete may fail, and the agent does not read kubectl's exit code: `undeleted`
remembers the squads that went on with an old object.
In `GoldStage` Airflow executes one run at a time, and a cleared run may be
executed again (`ClearRequeues`): whether it is depends on the default of
`reset_dag_runs` in the Airflow API, so both are allowed.

## 3. What the runs show

Every run finishes in less than three minutes. Deadlock is not checked because
every system here may come to rest: the source falls silent, the bounds are
reached, a process has ended.

| Run | Instance | Shows |
|---|---|---|
| `bronze_replay` | 2 topics, 3 events, 2 days, 1 crash and the 1 restart granted for it, the CLI, flat events, fair driver | no committed event lost, `ReplayKeepsOrder`; Bronze implements the live at-least-once log |
| `silver_converges` | 2 keys, 3 events, 2 days, 1 crash, 1 failed run, hourly DAG, no CLI, fair | Silver catches up with the last image of every row and stays there; nothing of a closed date is missing from it; its rows come from Bronze; before the crash no row is replaced by an older image |
| `silver_overlap` | 2 keys, 2 events, 2 days, 1 crash, an hourly run and an agent or manual run of any date, one failure, the CLI | one row per primary key, types |
| `squad_faulty` | 8 port-forwards, every Langfuse call may raise | order, exit code, green and red reports, termination, refinement of `FailFastPipeline` (no agent runs after an error, the first verdict is final) |
| `activation` | 3 callers, 3 attempts, 3 faults of all kinds (5xx, refusals, lost messages, rebalances) | one creator, a conflict is a false alarm unless its caller met a rebalance, without a fault a loser lost to a winner, every call returns, refinement of `ConnectorPromise` |
| `portal` | 2 sessions, 1 table of up to 1 column, 1 schema change, default provider Ollama, no Gemini key | a captured table has its contract and a told success is true, the fallback's contract loads, an error forces a new selection, every message is answered |
| `source_stage` | 2 squads, 1 column, 1 seeded row each, up to 1 row, event and commit of earlier runs, any contract and connector left over, others that store contracts and ask for the connector meanwhile | a success has a table, a contract, a connector and an event; the event is fresh unless there was a backlog; what an agent stored is usable; both agents return |
| `spark_stage` | 2 squads, objects left over in any state, 3 jobs, failing deletes | a success is that of a fresh job unless the squad's own delete failed, both tables exist, both agents return |
| `gold_stage` | 2 daily runs, cleared runs execute again | one retry only, a success rests on a successful run and a non-empty table, the agent returns |

The bounds. A replay needs two events in one batch and one crash; with as many
crashes as restarts (`OnFailureRetries = MaxCrashes`) the last restart the
policy grants is needed. One failure more ends ingestion, as the manifest
asks for (bronze-streaming-app.yaml:16), and is not a run. Two topics
make a batch that is finished for one and not for the other. Two keys and
three events give a key with two images and another in between, or a row that
is deleted; two days give one midnight, which is where dates and runs meet. A
lost update of Silver needs two overlapping runs. A connector race needs two
callers; the third is a loser that races a loser; three faults exhaust a
caller. The portal's interleavings need two sessions on one table (one
activates while the other stores) and one change of the schema, which can fall
between the two queries of an introspection; one column tells a table with a
key from one without and from no table. A provider that cannot be built
(Gemini without its key) clears the selection. `source_stage` has one column,
`Columns = {AgentKey}`, because the properties only ask whether there is a
key; one row per squad and one left over give an event of an earlier run, one
of the other squad and one of the agent itself. In `spark_stage`, `MaxJobs` is
one more than the squads create when the object is absent. The theorems below
have none of these bounds.

Fairness. `WF(Driver)`: Spark's trigger and the operator that restarts a
failed driver keep running; nothing obliges a source to write or a driver to
fail. `WF(SubmitHourly)`, `WF(Work)`: Airflow schedules the hourly DAG and a
submitted Spark job proceeds. `WF(Process)`, `WF(Squad)`, `WF(Agent)`: every
wait of an agent has a deadline and every subprocess or HTTP call a timeout,
so the process always takes a next step. Two calls of the data source agent
have no timeout of this code: psycopg's connect has TCP's, and the thread of a
model call that `wait_for` gave up on is joined when `asyncio.run` ends, so
that the deadline of the client library (and, from Python 3.12 on, of that
join) is what ends it; the platform is not assumed to make
progress. `WF(Prompt)`: the event loop runs what is ready, a call of a
provider ends at the deadline of `wait_for` at the latest, and `activate` has
bounded retries with a timeout each (`AllReturn`), so it may always give up;
that a model or Kafka Connect answers is not assumed. `WF(Activate)`,
`WF(Execute)`: callers run and Kafka Connect handles or loses a request (a
lost one is a `PostLost` at the caller's timeout).

### Where the code and its documents disagree

Each of these runs has one property, taken from a document, a comment or a
test, and TLC finds a behaviour of the code that violates it. `findings` in
`PROJECT.json` quotes the line.

| Run | The document | The code |
|---|---|---|
| `bronze_contract` | contracts validate every record (README.md:70) | a contract registered after the driver started does not bind |
| `silver_manual_rerun` | keeps the most recent event (USAGE.md:408) | a run of an earlier date after a later one restores an older image |
| `silver_deletes` | DELETE on Silver when the op is D (USAGE.md:409) | deletes are filtered out before the MERGE |

None of them needs a failure. More disagreements follow from the models or
were met while writing them, and have no run of their own:

* A failed `kubectl delete` leaves an old COMPLETED object that counts as this
  run's success (`undeleted` of `SparkStage`; agents_spefication.md:22 asks for
  Spark pods that complete).
* A Silver run that reads Bronze in the middle of a replay puts an older image
  back until the next run, which is why `HourlyNeverRegresses` stops at the
  first crash.
* A port-forward that fails to start leaves the earlier ones running
  (`ForwardFails`), and a Langfuse exception in the span of the reporter loses
  the report (`SpanRaises`).
* A connector that was there before counts as activated without the HTTP 201
  of agents_spefication.md:16 (`CheckExists`), also one whose task has failed.
* `create_and_seed_table` inserts without a key, so `ON CONFLICT DO NOTHING`
  never applies and every run adds five rows, while its consumer commits one
  offset: from the second run on the group has a backlog, and a dead connector
  passes the CDC check (`FreshUnlessBacklog` has the backlog as its exception).
* The data source agent looks for the portal's pod in namespace `serving` with
  label `app=portal` (agents/data_source/tools.py:58);
  gitops/apps/chainlit-app.yaml:19 deploys it in `portal`. The `datacontract`
  command it runs there is not in portal/requirements.txt; with the pod and
  without the command every contract would be replaced by the fallback.
* It also searches the answer of Kafka Connect for the text "error"
  (agents/data_source/agent.py:68), which a table's own name may contain.
* A namespace without pods passes the pre-flight of the infrastructure agent
  (agents/infrastructure/agent.py:31).
* contracts/orders.yaml has a list under `schema`, which `load_contract` cannot
  read (USAGE.md, "Data Contracts", shows the mapping it can).
* The SparkApplications mount ConfigMaps at /opt/spark/scripts
  (dags/templates/silver-batch-app.yaml:59-60 and 73-75,
  spark/applications/silver-batch-app.yaml:73-75,
  bronze-streaming-app.yaml:88-90; USAGE.md:316-318 and
  scripts/test-e2e.sh:236-243 apply them; docker/spark/Dockerfile copies no
  script). The Bronze ConfigMap is `spark/jobs/bronze_streaming.py` but for a
  comment. The Silver one is not `spark/jobs/bronze_to_silver.py`: it reads
  `bronze.valid_<t>`, which nobody writes (the Bronze job writes
  `bronze.<t>_valid`), it neither parses nor filters `payload.after`, and it
  tests `_cdc_op = 'D'` where Debezium's ops are lower case. `Medallion` and the
  two Silver runs above are about `spark/jobs/bronze_to_silver.py`; run from the
  ConfigMap, the job fails on its missing source table.
* The portal announces `bronze.valid_<t>` (app.py:252); the job writes
  `bronze.<t>_valid`.

## 4. What is proved

With TLAPS, for every value of the constants that satisfies the named
assumptions (`BronzeConstants`, `MedallionConstants`, `SquadConstants`,
`ActivationConstants`, `PortalConstants`, `SourceStageConstants`,
`SparkStageConstants`, `GoldStageConstants`: types of the constants, and for
the data source stage that `AgentKey` is a column, for activation that there
is at least one attempt):

| Theorem | States |
|---|---|
| `BronzeInvariance`, `NothingCommittedIsLost`, `BronzeHasNoGap` | types, checkpoint order, no lost event, no hole in Bronze |
| `AppendOrder` | the dates of Bronze's rows never go back, nor do their offsets before the first crash |
| `ReplayOrder` | in a table of which nothing was quarantined, a replay never leaves an older event as the last word |
| `BronzeImplementsLog` | the safety part of the refinement of `AtLeastOnceLog` |
| `MedallionRunsBronze` | the composition only adds stuttering to Bronze, so all of the above carries over |
| `MedallionTypes`, `SilverHasOneRowPerKey`, `SilverComesFromBronze` | Silver's invariants under any number of overlapping runs |
| `HourlyKeepsNewest` | the hourly DAG alone never puts an older image back, until Bronze crashes |
| `NothingLeavesSilver` | no run of anybody takes a row out of Silver: what is behind `silver_deletes`, for every instance |
| `ClosedDatesAreMerged`, `SettledTablesAreUpToDate` | the hourly DAG alone leaves nothing of a closed date behind, and shows the last image of every row once a table is at rest, over crashes, replays and failed runs |
| `SquadTypes`, `Delegation`, `ExitZeroIsTrustworthy`, `GreenReportIsGreen`, `FailureIsShown`, `SquadIsFailFast` | the squad's invariants and its reports, its refinement of `FailFastPipeline` |
| `ActivationTypes`, `OnlyOneCreates`, `ConflictIsFalseAlarm`, `RaceHasAWinner` | connector activation by any number of callers with any number of faults |
| `ActivationKeepsPromise` | connector activation implements `ConnectorPromise` |
| `PortalKeepsPromise`, `SourceKeepsPromise` | what its callers see of `activate` is a behaviour of the same promise: for each table of the portal, and for the data source agents (who begin like it if no connector was left over) |
| `PortalTypes`, `CaptureIsContracted`, `FallbackIsAccepted`, `ErrorNeedsSelection` | the portal's invariants and its action property, for any number of sessions, tables, columns and schema changes |
| `SourceTypes`, `SuccessIsReal`, `EventIsFresh`, `StoredContractIsUsable` | the data source agent's invariants, for any number of squads, whatever others left and do meanwhile |
| `StageTypes`, `SuccessIsOwn`, `SuccessIsStored` | the Spark agent's success is its own unless its own delete failed, and finds both tables, for any number of squads |
| `GoldTypes`, `OneRetry`, `SuccessRestsOnRun` | the Gold agent asks for at most two runs, and its success rests on one of them and on rows in the table |
| `RunIsShort`, `CallIsShort`, `HandlerIsShort`, `WorkIsShort` (of each stage) | how many steps a run of the squad, a call of `activate`, a message and an agent's work take at most |

The arguments.

* Bronze. `CommittedIsStored` says nothing about the rows of a batch in flight
  and is not inductive: `CommitBatch` needs that every planned offset was
  appended. `BronzeInv` adds `Checkpointed` (committed <= pos <= planned <=
  length), `AppendedIsStored` (what lies below `pos` is stored: a crash sets
  `pos` back, so it survives), `NoGap` (needed when a replay starts below rows
  that are already there) and `StoredIsPlanned` (a row beyond the plan would
  make the next append skip). `ReplayKeepsOrder` is inductive together with
  `BronzeInv`: the row appended at `pos + 1` is the last one, so it follows
  every row of an older event.
* Silver. Two rows of one key cannot both be inserted: `Dedup` leaves one
  source row per key and `Merge` first removes the target rows it matches;
  the commit reads the current target because a stale one aborts.
  `SilverFromBronze` needs `SeenIsPrefix`: what a run has read is a prefix of
  Bronze, which only grows. The proof never uses how many runners there are.
* The hourly DAG alone. `HourlyInv` adds what makes its order of work the
  order of events: rows are appended under dates that never go back
  (`DatesInOrder`), before the first crash in offset order (`OffsetsInOrder`),
  and hourly runs follow the calendar (`HourlyRuns`). `MergedInTime` ties them
  to Silver: a row of Silver comes from a Bronze row of a date that is not
  after the one due, and a run for that same date has read it. So the image a
  run merges is of a later date, or of the same date and the newest among the
  rows it has read: `HourlyNeverRegresses`. The step that matters,
  `CommitMerge`, needs that no other run commits (`OnlyHourlyRuns`).
* Closed dates. `ClosedDatesMerged` is not inductive: when the last run of a
  date commits, everything of that date must be in what it has read
  (`LastSeesAll`: it starts after midnight, and rows are only appended under
  today's date), it must not be aborted by another commit (`NeverOvertaken`),
  and later runs may only replace images by those of later Bronze rows
  (`MergedInTime` again). Deletes cannot undo it because `OpsAreReads`:
  wrapped events have no op at the top level. `Dedup` keeps the newest row of
  a key, which exists by well-founded induction on the sequence's indices
  (`GreatestElement`, from the library's `WFMin`). For a table at rest
  (`Settled`) the newest image in Bronze is the last of the source, which is
  `SettledTablesAreUpToDate`: also after a replay, which appends the last
  event again, last.
* Squad. `Phases` ties the node to its step; `Progress` says which agents have
  passed at each node; `Truthful` says that every score emitted so far is good
  unless the run is in ERROR or the current node is about to return it. A
  report of success then shows only good scores, whether it shows those of the
  state or any subset that was delivered. `FailureRecorded` is the other
  direction: ERROR comes with a zero score in the state, because only a
  failing agent sets it and the router always finds a stage it knows.
* Activation. A `201` in flight or read is a token: there is at most one, and
  it exists only when the connector does. Nothing deletes the connector, so a
  success, a token and (without a rebalance) a 409 all imply it. `RaceHasAWinner`
  adds `Undisturbed`: as long as nothing failed, every message belongs to the
  POST its caller waits for, so the token cannot be lost.
  The refinement follows: a `Post` is an `Ask`, an `Execute` that makes the
  connector is a `Create` and needs `Sent` (no request without a POST), a
  return with success is a `ReportSuccess`.
* Portal. None of its properties says what a handler knows between two awaits.
  `StoredBeforeAsked` does: past `Store` the contract is in MinIO, everything
  asked for has one, and only what was asked for is created; contracts are
  replaced, never removed, so late requests do no harm. `SeenKey` carries the
  key from the introspection to the contract, `FailedHasNone` says that a
  failed session has no provider, so that `HandleMessage` is not enabled.
  `PortalKeepsPromise` maps `BeginActivate` to `Ask`, `CreateConnector` to
  `Create`, `ActivateReturns` to `ReportSuccess` and the rest to stuttering.
* Data source stage. The argument is one of monotony: a table keeps its key,
  contracts are replaced, a connector stays, published events and committed
  offsets only grow. `OffsetsGrow` relates the counters to what they were when
  the squad began: without a backlog the offset it reads at is not below what
  was published then, so the event it reads is newer. What others store carries
  another `origin`, so `StoredIsUsable` needs only what a draft is when it is
  uploaded (`DraftIsUsable`) and, for the step that creates the table and with
  it the key, that no squad has stored anything before (`NothingUploadedYet`).
  Of `activate` the stage
  shows what `ConnectorPromise` allows (`SourceKeepsPromise`): `result`
  becomes "ok" only where `SuccessIsCaptured` has a connector.
* Spark stage. `Cleared`: between a squad's delete and its apply, the object
  is absent or was created after the squad entered. `TakenIsFresh` carries
  that over the wait, through deletes and creations by other squads, also
  failing ones. `TablesSeen`: Nessie's tables stay once they were seen.
* Gold stage. `Requested` counts what the agent has asked for at each phase:
  nothing before the first trigger, one run until the second, two after it, and
  nothing leads back. `Executed` says that a run that is no longer queued was
  started, so the one to be retried was, and that it is not started again
  unnoticed; the clear that may requeue it keeps its count of executions.
* Step counts. For each process whose end is claimed, `StepsLeft` is a natural
  number that every step of that process lowers and no other step raises, but
  for the next message of a portal's session (`NodesLeft` counts the graph's
  nodes: at most ten and END, so LangGraph's recursion limit of 25 is never
  met). Retries do not break it because each uses up an attempt: a POST of
  `activate` weighs three steps, a stage's run of retries is part of its
  phases. That a process has a next step until it has ended (ENABLED) and
  takes it (fairness) is what is left to TLC.

What TLAPS cannot state here is ENABLED and fairness, and with them liveness.
So these properties are only model-checked, and for each the half without
fairness is proved:

| Property | Proved of it |
|---|---|
| `ImplementsLiveLog` | `BronzeImplementsLog`: every step is one of the log's |
| `Converges` | `SettledTablesAreUpToDate`: what Silver holds once nothing is left to do |
| `Terminates` | `RunIsShort` |
| `AllReturn` | `CallIsShort` |
| `HandlerEnds` | `HandlerIsShort` |
| `AgentReturns` (three stages) | `WorkIsShort` of each |

Every other property of a passing run is a theorem. `BronzeInv` is proved and
not run as such: `silver_overlap` checks Bronze's types within
`MedallionTypeOK`, `bronze_replay` what follows from it.

The violated properties of the three runs above are not theorems, of course;
`NothingLeavesSilver` shows why `DeletesPropagate` fails, and
`HourlyKeepsNewest` that `SilverNeverRegresses` needs a manual or agent run,
or a crash, to fail.

## 5. Abstractions and what is not modelled

* A topic is one partition, and `_cdc_ts` orders rows as they were appended:
  the wall clock of the driver does not go backwards. A row's date is the date
  of its append. Topics of one batch are appended in any interleaving, which
  over-approximates the order of the batch. Snapshot events (`op = "r"`)
  behave as upserts and are not a kind of their own. Kafka keeps every event:
  `failOnDataLoss = false` is not exercised.
* `Nested = TRUE` is the envelope Silver expects; the manifest produces
  `FALSE` if the image honours its setting. The Silver runs use `TRUE`; with
  `FALSE` nothing reaches Silver. The theorems hold for both.
* The templated `params.date` of the DAGs is taken to be the date of the data
  interval, and Airflow's contract directory to mirror the registered
  contracts. The first hourly run after midnight closes the day before, and a
  day is longer than a run. `silver_converges` assumes that this last run does
  not fail for good (`LastRunMayFail = FALSE`); otherwise the last changes of
  a date stay in Bronze.
* An Airflow run's SparkApplication has the same name for every hour of a date
  (`dags/templates/silver-batch-app.yaml`); how the operator recreates it is
  outside the repository. The date in the manifest of the Spark agent does not
  change between its steps.
* `--reprocess-invalid` reads columns the invalid table does not have and is
  passed by nothing in the repository. `Medallion` translates
  `spark/jobs/bronze_to_silver.py`; the older copy in the ConfigMap that the
  SparkApplications mount (section 3) finds no table to read and is not
  modelled.
* Of a contract only its fields and its keys are kept; types, quality rules
  and the prompt are not. That Debezium's decimals do not fit the `double` a
  contract declares for `numeric` is therefore out of sight.
* The copy of a contract on the portal's volume is written and never read, and
  left out. `on_start` and the settings handler are one step each: what they
  await is only a message to the user. A handler's locals are reset when it
  ends or no longer reads them.
* Two consumers of one group on a topic of one partition would be assigned one
  at a time; the model lets both read, which has more behaviours.
* A table without columns is the same as no table (`NoTable`).
* `ClearRequeues` lets a cleared DAG run execute beside the one that retries
  it. `TwoRunsAtMost` counts the requests of the agent, not executions: nothing
  in the code keeps the two from running at the same time.
* `FallbackLoads` is about a schema with a key. An introspection that missed
  the key between its two queries has none, and its fallback contract is one
  `load_contract` refuses; the portal has nothing to notice that by.
* `Config.from_env` errors, signals, malformed JSON answers of HTTP services
  and LangGraph's recursion limit (25; by `RunIsShort` a run enters ten nodes) are
  left out.
* Outside the models: Kafka, Debezium, Postgres, Spark, Iceberg, Kubernetes,
  Airflow, Kafka Connect, Chainlit, the language models and Langfuse, each
  modelled from how the code uses it and marked external in the map.

Not modelled: the infrastructure agent's reads (a pre-flight that changes
nothing); dbt models and the readiness validator (declarative or read-only);
the ConfigMap copy of the Silver job; deployment files, except for the settings that became
constants.

## 6. Plan

Done, in this order: Bronze, Bronze with Silver, the squad, connector
activation, the Spark and Gold stages; then contract generation, the portal,
the data source stage and the promise of `activate`; and their proofs.

Next, to model:

1. A composition of `E2ESquad` with `SourceStage`, `SparkStage` and
   `GoldStage`, each an implementation of `Work`.
2. Contracts that change while their table has Bronze rows and a Silver table:
   `Portal` composed with `Medallion`.
3. Kafka's retention under `failOnDataLoss = false`.
4. The pre-flight of the infrastructure agent against pods that come and go.

Next, to prove: of the composed squad (1), that the stages' successes add up
to what the report of success says; and, of (2), which contract the rows of a
table were validated with.
