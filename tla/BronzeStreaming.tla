-------------------------- MODULE BronzeStreaming --------------------------
(***************************************************************************)
(* The Bronze layer: the Structured Streaming job of                       *)
(* spark/jobs/bronze_streaming.py, which copies every Debezium topic       *)
(* cdc.public.<table> into two Iceberg tables, <table>_valid and           *)
(* <table>_invalid.                                                        *)
(*                                                                         *)
(* A micro-batch is at-least-once: Spark records the end offsets of the    *)
(* batch (planned) before foreachBatch runs and the commit (committed)     *)
(* after it, while process_batch appends the rows one at a time.  A driver *)
(* that dies in between replays the whole batch.  The contracts a driver   *)
(* validates against are those its initContainer copied when it started.   *)
(*                                                                         *)
(* Kafka, the source database and the Spark checkpoint are external.  A    *)
(* topic is one partition; an offset counts from 1.                        *)
(***************************************************************************)
EXTENDS Naturals, Sequences, FiniteSets

CONSTANTS
    Tables,             \* source tables
    Keys,               \* primary keys of their rows
    Conformance,        \* the outcomes the contract check may give: {TRUE} or BOOLEAN
    Nested,             \* the converter wraps an event in {"schema", "payload"}
    HasCli,             \* the datacontract CLI is installed in the Spark image
    OnFailureRetries,   \* restarts the Spark operator grants the driver
    MaxLog,             \* bound: events of all topics together
    MaxDay,             \* bound: calendar days
    MaxCrashes          \* bound: driver failures

ASSUME BronzeConstants ==
    /\ Conformance \subseteq BOOLEAN
    /\ Nested \in BOOLEAN
    /\ HasCli \in BOOLEAN
    /\ OnFailureRetries \in Nat
    /\ MaxLog \in Nat
    /\ MaxDay \in Nat
    /\ MaxCrashes \in Nat

VARIABLES
    log,         \* log[t]: the events of topic cdc.public.t, in offset order
    registered,  \* tables with a contract in s3://contracts
    mounted,     \* contracts the running driver found in /contracts
    driver,      \* "up" or "down"
    crashes,     \* driver failures so far
    planned,     \* planned[t]: end offset of the last batch in the offset log
    committed,   \* committed[t]: end offset of the last batch in the commit log
    pos,         \* pos[t]: offset the running batch has appended up to
    valid,       \* valid[t]: rows of bronze.t_valid, in _cdc_ts order
    invalid,     \* invalid[t]: rows of bronze.t_invalid
    day          \* today's date

bronzeVars ==
    <<log, registered, mounted, driver, crashes, planned, committed, pos,
      valid, invalid, day>>

-----------------------------------------------------------------------------
(* Data.  An event says which row it is about, what happened to it         *)
(* ("c"reate, "u"pdate, "d"elete, or the "t"ombstone that follows a        *)
(* delete: a null value), and whether its value conforms to the contract.  *)

Event == [key : Keys, kind : {"c", "u", "d", "t"}, conforms : BOOLEAN]
ValidRow == [src : Nat, op : {"c", "u", "d", "r"}, day : Nat]
InvalidRow == [src : Nat, day : Nat]

TypeOK ==
    /\ log \in [Tables -> Seq(Event)]
    /\ registered \subseteq Tables
    /\ mounted \subseteq Tables
    /\ driver \in {"up", "down"}
    /\ crashes \in Nat
    /\ planned \in [Tables -> Nat]
    /\ committed \in [Tables -> Nat]
    /\ pos \in [Tables -> Nat]
    /\ valid \in [Tables -> Seq(ValidRow)]
    /\ invalid \in [Tables -> Seq(InvalidRow)]
    /\ day \in Nat

\* The events of all topics, as <<topic, offset>>.
Events == UNION {{t} \X DOMAIN log[t] : t \in Tables}

\* The row `k` of table `t` exists in Postgres: its last event is not a delete.
Present(t, k) ==
    \E i \in DOMAIN log[t] :
        /\ log[t][i].key = k
        /\ log[t][i].kind \in {"c", "u"}
        /\ \A j \in DOMAIN log[t] : log[t][j].key = k => j <= i

\* record.get("op", "r") on the decoded value: the op of a wrapped event is
\* below "payload", and a tombstone decodes to {}.
RecordedOp(e) == IF Nested \/ e.kind = "t" THEN "r" ELSE e.kind

\* What validate_record may answer: TRUE without a contract or without the
\* CLI; otherwise the verdict of the CLI, or FALSE when it times out.
Verdicts(t, e) ==
    IF t \in mounted /\ HasCli THEN {e.conforms, FALSE} ELSE {TRUE}

\* The offsets of topic `t` that some row of bronze.t_valid or t_invalid holds.
Sources(rows) == {rows[i].src : i \in DOMAIN rows}
Stored(t) == Sources(valid[t]) \union Sources(invalid[t])

InFlight == planned # committed

-----------------------------------------------------------------------------
BronzeInit ==
    /\ log = [t \in Tables |-> <<>>]
    /\ registered = {}
    /\ mounted = {}
    /\ driver = "down"
    /\ crashes = 0
    /\ planned = [t \in Tables |-> 0]
    /\ committed = [t \in Tables |-> 0]
    /\ pos = [t \in Tables |-> 0]
    /\ valid = [t \in Tables |-> <<>>]
    /\ invalid = [t \in Tables |-> <<>>]
    /\ day = 1

\* The portal uploads the contract of `t` to s3://contracts and then
\* activates its connector; both are done when the topic starts to fill.
Register(t) ==
    /\ t \notin registered
    /\ registered' = registered \union {t}
    /\ UNCHANGED <<log, mounted, driver, crashes, planned, committed, pos,
                   valid, invalid, day>>

\* A row of Postgres is inserted or updated, and Debezium appends the event.
SourceUpsert(t, k, c) ==
    /\ t \in registered
    /\ Cardinality(Events) + 1 <= MaxLog
    /\ log' = [log EXCEPT ![t] = Append(@,
                 [key |-> k, kind |-> IF Present(t, k) THEN "u" ELSE "c",
                  conforms |-> c])]
    /\ UNCHANGED <<registered, mounted, driver, crashes, planned, committed,
                   pos, valid, invalid, day>>

\* A row of Postgres is deleted: Debezium appends the delete and a tombstone.
SourceDelete(t, k, c) ==
    /\ t \in registered
    /\ Present(t, k)
    /\ Cardinality(Events) + 2 <= MaxLog
    /\ log' = [log EXCEPT ![t] = @ \o
                 <<[key |-> k, kind |-> "d", conforms |-> c],
                   [key |-> k, kind |-> "t", conforms |-> FALSE]>>]
    /\ UNCHANGED <<registered, mounted, driver, crashes, planned, committed,
                   pos, valid, invalid, day>>

\* The trigger fires and some topic has new events: the batch reaches to the
\* end of every topic, and its offsets are written before it runs.
PlanBatch ==
    /\ driver = "up"
    /\ ~InFlight
    /\ \E t \in Tables : Len(log[t]) > committed[t]
    /\ planned' = [t \in Tables |-> Len(log[t])]
    /\ UNCHANGED <<log, registered, mounted, driver, crashes, committed, pos,
                   valid, invalid, day>>

\* Mutant of AppendRow: the batch is walked from its newest record.
AppendNewestFirst(t) ==
    /\ driver = "up"
    /\ pos[t] < planned[t]
    /\ LET o == planned[t] - (pos[t] - committed[t])
       IN valid' = [valid EXCEPT ![t] =
             Append(@, [src |-> o, op |-> RecordedOp(log[t][o]), day |-> day])]
    /\ pos' = [pos EXCEPT ![t] = pos[t] + 1]
    /\ UNCHANGED <<log, registered, mounted, driver, crashes, planned,
                   committed, invalid, day>>

\* One round of the loop of process_batch: validate the next record of the
\* batch and append it, alone, to the table its verdict selects.
AppendRow(t) ==
    /\ driver = "up"
    /\ pos[t] < planned[t]
    /\ LET o == pos[t] + 1
           e == log[t][o]
       IN \/ /\ TRUE \in Verdicts(t, e)
             /\ valid' = [valid EXCEPT ![t] =
                   Append(@, [src |-> o, op |-> RecordedOp(e), day |-> day])]
             /\ UNCHANGED invalid
          \/ /\ FALSE \in Verdicts(t, e)
             /\ invalid' = [invalid EXCEPT ![t] =
                   Append(@, [src |-> o, day |-> day])]
             /\ UNCHANGED valid
    /\ pos' = [pos EXCEPT ![t] = pos[t] + 1]
    /\ UNCHANGED <<log, registered, mounted, driver, crashes, planned,
                   committed, day>>

\* process_batch returned: Spark writes the commit of the batch.
CommitBatch ==
    /\ driver = "up"
    /\ InFlight
    /\ pos = planned
    /\ committed' = planned
    /\ UNCHANGED <<log, registered, mounted, driver, crashes, planned, pos,
                   valid, invalid, day>>

\* Mutant of Crash: the new driver takes the batch in flight for done.
CrashSkipsBatch ==
    /\ driver = "up"
    /\ crashes < MaxCrashes
    /\ crashes' = crashes + 1
    /\ driver' = "down"
    /\ mounted' = {}
    /\ committed' = planned
    /\ pos' = planned
    /\ UNCHANGED <<log, registered, planned, valid, invalid, day>>

\* The driver dies, or a failing append, S3 call or query ends it: rows
\* already appended stay, the position inside the batch is lost.
Crash ==
    /\ driver = "up"
    /\ crashes < MaxCrashes
    /\ crashes' = crashes + 1
    /\ driver' = "down"
    /\ mounted' = {}
    /\ pos' = committed
    /\ UNCHANGED <<log, registered, planned, committed, valid, invalid, day>>

\* Mutant of StartDriver: one restart less than the policy grants.
StartDriverOneLess ==
    /\ driver = "down"
    /\ crashes < OnFailureRetries
    /\ driver' = "up"
    /\ \E m \in SUBSET registered : mounted' = m
    /\ UNCHANGED <<log, registered, crashes, planned, committed, pos, valid,
                   invalid, day>>

\* The first start, or restartPolicy OnFailure: a new driver copies the
\* contracts that are in MinIO now (the copy may fail midway and is then
\* ignored) and resumes from the checkpoint.
StartDriver ==
    /\ driver = "down"
    /\ crashes <= OnFailureRetries
    /\ driver' = "up"
    /\ \E m \in SUBSET registered : mounted' = m
    /\ UNCHANGED <<log, registered, crashes, planned, committed, pos, valid,
                   invalid, day>>

\* Midnight.
Tick ==
    /\ day < MaxDay
    /\ day' = day + 1
    /\ UNCHANGED <<log, registered, mounted, driver, crashes, planned,
                   committed, pos, valid, invalid>>

Source ==
    \/ \E t \in Tables : Register(t)
    \/ \E t \in Tables, k \in Keys, c \in Conformance : SourceUpsert(t, k, c)
    \/ \E t \in Tables, k \in Keys, c \in Conformance : SourceDelete(t, k, c)

Driver ==
    \/ PlanBatch
    \/ \E t \in Tables : AppendRow(t)
    \/ CommitBatch
    \/ StartDriver

BronzeNext == Source \/ Driver \/ Crash \/ Tick

\* The driver and the operator that restarts it run for as long as they can;
\* nothing obliges the source to write or the driver to fail.
BronzeFairness == WF_bronzeVars(Driver)

BronzeSpec == BronzeInit /\ [][BronzeNext]_bronzeVars
FairBronzeSpec == BronzeSpec /\ BronzeFairness

-----------------------------------------------------------------------------
(* Properties.                                                             *)

\* The batch in flight lies between the two checkpoint logs, and a driver
\* that is not running has no position inside a batch.
Checkpointed ==
    /\ \A t \in Tables :
          /\ committed[t] <= pos[t]
          /\ pos[t] <= planned[t]
          /\ planned[t] <= Len(log[t])
    /\ driver = "down" => pos = committed

\* No committed event is lost: whatever crashes, replays and quarantine
\* decisions happened, every offset below the commit is a row of
\* bronze.t_valid or bronze.t_invalid.
CommittedIsStored ==
    \A t \in Tables : 1..committed[t] \subseteq Stored(t)

\* The same for the batch in flight: the running driver has stored every
\* event up to its position.
AppendedIsStored ==
    \A t \in Tables : 1..pos[t] \subseteq Stored(t)

\* Bronze never has a hole: an event is stored only when every earlier event
\* of its topic is, across any number of driver generations.
NoGap ==
    \A t \in Tables : \A o \in Stored(t) : 1..o \subseteq Stored(t)

\* Nothing is invented: rows come from offsets a batch planned.
StoredIsPlanned ==
    \A t \in Tables : Stored(t) \subseteq 1..planned[t]

\* The inductive invariant behind the three above.
BronzeInv ==
    /\ TypeOK
    /\ Checkpointed
    /\ AppendedIsStored
    /\ NoGap
    /\ StoredIsPlanned

\* A replay never leaves an older event as the last word of bronze.t_valid:
\* any row of an event before the driver's position is followed by a row of
\* every later event up to that position.  Silver keeps the row with the
\* greatest _cdc_ts, so its result depends on this.  It needs a table of
\* which nothing was quarantined: a replay may judge a record differently.
ReplayKeepsOrder ==
    \A t \in Tables :
        invalid[t] = <<>> =>
            \A i \in DOMAIN valid[t] :
                \A o \in (valid[t][i].src + 1)..pos[t] :
                    \E j \in DOMAIN valid[t] : i < j /\ valid[t][j].src = o

\* The Data Contract enforcement of README.md: a record that the contract
\* registered for its table rejects never enters bronze.t_valid.
ContractEnforced ==
    [][\A t \in registered :
          \A i \in (Len(valid[t]) + 1)..Len(valid'[t]) :
              log[t][valid'[t][i].src].conforms]_bronzeVars

\* The Bronze layer implements the gap-free at-least-once log.
AbstractLog == INSTANCE AtLeastOnceLog WITH
    Topics <- Tables,
    produced <- [t \in Tables |-> Len(log[t])],
    kept <- [t \in Tables |-> Stored(t)]

ImplementsSafeLog == AbstractLog!SafeLog

\* ... and keeps every event eventually, as long as the operator has restarts
\* left: the liveness of the abstract log.
ImplementsLiveLog == AbstractLog!LiveLog
=============================================================================
