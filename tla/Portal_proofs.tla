---------------------------- MODULE Portal_proofs ----------------------------
(***************************************************************************)
(* Proofs about the portal, for every number of sessions, tables, columns  *)
(* and schema changes.                                                     *)
(*                                                                         *)
(* None of the properties says what a handler knows between two awaits;    *)
(* PortalInv adds it: past Store the contract is in MinIO, and what the    *)
(* inspector returned has the key the table had.  Contracts are replaced   *)
(* and never removed, so a late request of activate finds one.             *)
(***************************************************************************)
EXTENDS Portal, TLAPS

\* Whoever may activate a table has stored its contract, and Kafka Connect
\* creates only what was asked for.
StoredBeforeAsked ==
    /\ \A s \in Sessions :
          task[s].at \in {"activate", "activating"} => minio[task[s].table] # NotStored
    /\ \A t \in asked : minio[t] # NotStored
    /\ connector \subseteq asked

\* A session whose provider failed has none.
FailedHasNone ==
    \A s \in Sessions : failed[s] => provider[s] = "none"

\* If the table kept its key during the introspection, that is the key seen.
SeenKey ==
    \A s \in Sessions : task[s].key # {} => task[s].seen.keys = task[s].key

\* Whoever was told of a success has a connector.
ToldIsTrue == told \subseteq connector

PortalInv ==
    /\ TypeOK
    /\ StoredBeforeAsked
    /\ FailedHasNone
    /\ SeenKey
    /\ ToldIsTrue
    /\ FallbackLoads

-----------------------------------------------------------------------------
(* Contracts.                                                              *)

\* What introspect returns is a schema, and the table's own if the table did
\* not change between its queries.
LEMMA IntrospectedSchema ==
    ASSUME NEW before \in Schema, NEW after \in Schema
    PROVE  /\ Introspected(before, after) \in Schema
           /\ before = after => Introspected(before, after).keys = before.keys
  BY DEF Introspected, Schema

\* A contract is not the absence of one.
LEMMA ContractIsStored ==
    ASSUME NEW c \in Contract PROVE c # NoContract
  BY DEF Contract, NoContract

\* Whatever a provider answers, the generator returns a contract; from a
\* useless answer it makes one with the key of the schema, which loads if
\* there is a key.
LEMMA GeneratorReturnsContract ==
    ASSUME NEW reply \in Reply, NEW schema \in Schema
    PROVE  /\ ParseAndValidate(reply, schema) \in Contract
           /\ reply = NoContract =>
                 /\ ParseAndValidate(reply, schema).keys = schema.keys
                 /\ schema.keys # {} => Loads(ParseAndValidate(reply, schema))
<1>1. FallbackContract(schema) \in Contract
  BY DEF FallbackContract, Schema, Contract
<1>2. schema.keys # {} => Loads(FallbackContract(schema))
  BY DEF FallbackContract, Schema, Loads
<1>3. FallbackContract(schema).keys = schema.keys
  BY DEF FallbackContract
<1> QED BY <1>1, <1>2, <1>3 DEF ParseAndValidate, Reply

-----------------------------------------------------------------------------
\* PortalInv holds before the first session.
LEMMA PortalInvInit == PortalInit => PortalInv
<1> SUFFICES ASSUME PortalInit PROVE PortalInv
  OBVIOUS
<1>1. NotStored \in Stored /\ NotStored.key = {}
  BY DEF NotStored, Stored, NoContract
<1>2. task \in [Sessions -> Task] /\ \A s \in Sessions : task[s].at = "idle" /\ task[s].key = {}
  BY DEF PortalInit
<1>3. TypeOK
  BY <1>1, <1>2, PortalConstants DEF PortalInit, TypeOK
<1>4. FallbackLoads
  BY <1>1 DEF PortalInit, FallbackLoads
<1> QED
  BY <1>2, <1>3, <1>4
     DEF PortalInit, PortalInv, StoredBeforeAsked, FailedHasNone, SeenKey, ToldIsTrue

\* The end of a handler, whatever it had got to.
LEMMA DoneType ==
    ASSUME TypeOK, NEW s \in Sessions, Done(s)
    PROVE  /\ task' \in [Sessions -> Task]
           /\ task'[s].at = "idle" /\ task'[s].key = {}
           /\ \A u \in Sessions : u # s => task'[u] = task[u]
<1>1. task[s] \in Task
  BY DEF TypeOK
<1>2. [task[s] EXCEPT !.at = "idle", !.with = "fallback",
                      !.seen = NoTable, !.key = {}] \in Task
  BY <1>1 DEF Task, Schema, NoTable, Providers
<1> QED BY <1>1, <1>2 DEF TypeOK, Done, Task

\* A handler that ends leaves what the others know and stored as it was.
LEMMA DoneStep ==
    ASSUME PortalInv, NEW s \in Sessions, Done(s),
           UNCHANGED <<database, minio, asked, connector>>,
           provider' \in [Sessions -> Providers \union {"none", "closed"}],
           failed' \in [Sessions -> BOOLEAN], FailedHasNone',
           told' \subseteq Tables, told' \subseteq connector
    PROVE  PortalInv'
<1> USE DEF PortalInv
<1>1. /\ task' \in [Sessions -> Task]
      /\ task'[s].at = "idle" /\ task'[s].key = {}
      /\ \A u \in Sessions : u # s => task'[u] = task[u]
  BY DoneType
<1>2. TypeOK'
  BY <1>1 DEF TypeOK, database
<1>3. StoredBeforeAsked'
  BY <1>1 DEF StoredBeforeAsked
<1>4. SeenKey'
  BY <1>1 DEF SeenKey
<1>5. ToldIsTrue' /\ FallbackLoads'
  BY DEF ToldIsTrue, FallbackLoads
<1> QED BY <1>2, <1>3, <1>4, <1>5

\* A provider is selected: the flag goes only with a provider that works.
LEMMA SelectStep ==
    ASSUME PortalInv, NEW s \in Sessions, NEW name, SetProvider(s, name),
           UNCHANGED <<database, task, minio, capture>>
    PROVE  PortalInv'
<1> USE DEF PortalInv
<1>1. Buildable \subseteq Providers
  BY DEF Buildable, Providers
<1>2. /\ provider' \in [Sessions -> Providers \union {"none", "closed"}]
      /\ failed' \in [Sessions -> BOOLEAN]
  BY <1>1 DEF SetProvider, TypeOK
<1>3. FailedHasNone'
  BY DEF SetProvider, FailedHasNone, TypeOK
<1>4. TypeOK'
  BY <1>2 DEF TypeOK, database, capture
<1> QED
  BY <1>3, <1>4 DEF StoredBeforeAsked, SeenKey, ToldIsTrue, FallbackLoads, capture

\* The message of session `s` moves on to `step`, which is not yet past Store,
\* having seen a schema and perhaps its key.
LEMMA MoveStep ==
    ASSUME PortalInv, NEW s \in Sessions, NEW k \in Task,
           k.at \notin {"activate", "activating"},
           k.key # {} => k.seen.keys = k.key,
           task' = [task EXCEPT ![s] = k],
           source' \in [Tables -> Schema], ddl' \in 0..MaxDdl,
           UNCHANGED <<provider, failed, minio, capture>>
    PROVE  PortalInv'
<1> USE DEF PortalInv
<1>1. /\ task' \in [Sessions -> Task] /\ task'[s] = k
      /\ \A u \in Sessions : u # s => task'[u] = task[u]
  BY DEF TypeOK
<1>2. TypeOK'
  BY <1>1 DEF TypeOK, capture
<1>3. StoredBeforeAsked' /\ SeenKey'
  BY <1>1 DEF StoredBeforeAsked, SeenKey, capture
<1> QED BY <1>2, <1>3 DEF FailedHasNone, ToldIsTrue, FallbackLoads, capture

\* A message arrives, and its table is looked up.
LEMMA BeforeInspect ==
    ASSUME PortalInv, NEW s \in Sessions,
           CheckTable(s) \/ \E t \in Tables : HandleMessage(s, t)
    PROVE  PortalInv'
<1>0. task[s] \in Task /\ PortalInv
  BY DEF PortalInv, TypeOK
<1>1. ASSUME NEW t \in Tables, HandleMessage(s, t) PROVE PortalInv'
  <2> DEFINE k == [task[s] EXCEPT !.at = "check", !.table = t, !.with = provider[s]]
  <2>1. /\ k \in Task /\ k.at = "check"
        /\ k.key = task[s].key /\ k.seen = task[s].seen
    BY <1>0, <1>1 DEF HandleMessage, Task
  <2>2. task' = [task EXCEPT ![s] = k]
    BY <1>1 DEF HandleMessage, PortalInv, TypeOK
  <2>3. /\ source' \in [Tables -> Schema] /\ ddl' \in 0..MaxDdl
        /\ UNCHANGED <<provider, failed, minio, capture>>
    BY <1>0, <1>1 DEF HandleMessage, PortalInv, TypeOK, database
  <2> HIDE DEF k
  <2> QED BY <1>0, <2>1, <2>2, <2>3, MoveStep DEF PortalInv, SeenKey
<1>2. CASE CheckTable(s) /\ Done(s)
  BY <1>0, <1>2, DoneStep
     DEF CheckTable, PortalInv, TypeOK, ToldIsTrue, FailedHasNone, capture
<1>3. CASE CheckTable(s) /\ GoTo(s, "inspect")
  <2> DEFINE k == [task[s] EXCEPT !.at = "inspect"]
  <2>1. /\ k \in Task /\ k.at = "inspect"
        /\ k.key = task[s].key /\ k.seen = task[s].seen
    BY <1>0 DEF Task
  <2>2. task' = [task EXCEPT ![s] = k]
    BY <1>3 DEF GoTo, PortalInv, TypeOK
  <2>3. /\ source' \in [Tables -> Schema] /\ ddl' \in 0..MaxDdl
        /\ UNCHANGED <<provider, failed, minio, capture>>
    BY <1>0, <1>3 DEF CheckTable, PortalInv, TypeOK, database
  <2> HIDE DEF k
  <2> QED BY <1>0, <2>1, <2>2, <2>3, MoveStep DEF PortalInv, SeenKey
<1> QED BY <1>1, <1>2, <1>3 DEF CheckTable

\* A change of one table.
LEMMA AlterType ==
    ASSUME TypeOK, NEW t \in Tables, NEW schema \in Schema, Alter(t, schema)
    PROVE  source' \in [Tables -> Schema] /\ ddl' \in 0..MaxDdl
  BY PortalConstants DEF Alter, TypeOK

\* The inspector's two queries, with a change of the table in between or not.
LEMMA InspectStep ==
    ASSUME PortalInv, NEW s \in Sessions, Inspect(s)
    PROVE  PortalInv'
<1> DEFINE t == task[s].table
           seen == Introspected(source[t], source'[t])
           key == IF source'[t] = source[t] THEN source[t].keys ELSE {}
           k == [task[s] EXCEPT !.at = "generate", !.seen = seen, !.key = key]
<1>1. task[s] \in Task /\ t \in Tables
  BY DEF PortalInv, TypeOK, Task
<1>2. source' \in [Tables -> Schema] /\ ddl' \in 0..MaxDdl
  <2>1. CASE UNCHANGED database
    BY <2>1 DEF database, PortalInv, TypeOK
  <2>2. CASE \E schema \in Schema : Alter(t, schema)
    BY <1>1, <2>2, AlterType DEF PortalInv
  <2> QED BY <2>1, <2>2 DEF Inspect
<1>3. source[t] \in Schema /\ source'[t] \in Schema
  BY <1>1, <1>2 DEF PortalInv, TypeOK
<1>4. seen \in Schema /\ (source'[t] = source[t] => seen.keys = source[t].keys)
  BY <1>3, IntrospectedSchema
<1>5. key \in SUBSET Columns /\ (key # {} => seen.keys = key)
  BY <1>3, <1>4 DEF Schema
<1> HIDE DEF seen, key
<1>6. k \in Task /\ k.at = "generate" /\ k.seen = seen /\ k.key = key
  BY <1>1, <1>4, <1>5 DEF Task
<1>7. task' = [task EXCEPT ![s] = k]
  BY DEF Inspect, PortalInv, TypeOK, seen, key
<1> HIDE DEF k
<1> QED BY <1>2, <1>5, <1>6, <1>7, MoveStep DEF Inspect

\* The contract is stored, and the table may be activated.
LEMMA StoreStep ==
    ASSUME PortalInv, NEW s \in Sessions, GenerateAndStore(s)
    PROVE  PortalInv'
<1> USE DEF PortalInv
<1>1. PICK reply \in Answers(task[s].with) :
         Store(s, ParseAndValidate(reply, task[s].seen))
  BY DEF GenerateAndStore
<1>2. UNCHANGED <<database, provider, failed, capture>>
  BY DEF GenerateAndStore
<1> DEFINE contract == ParseAndValidate(reply, task[s].seen)
           key == IF task[s].with \in Fallible THEN {} ELSE task[s].key
           t == task[s].table
           k == [task[s] EXCEPT !.at = "activate", !.with = "fallback",
                                !.seen = NoTable, !.key = {}]
<1>3. task[s] \in Task /\ t \in Tables /\ task[s].seen \in Schema /\ reply \in Reply
  BY <1>1 DEF TypeOK, Task, Reply, Answers
<1>4. contract \in Contract /\ contract # NoContract
  BY <1>3, GeneratorReturnsContract, ContractIsStored
<1>5. key # {} => Loads(contract) /\ contract.keys = key
  <2> SUFFICES ASSUME key # {} PROVE Loads(contract) /\ contract.keys = key
    OBVIOUS
  <2>1. reply = NoContract /\ key = task[s].key
    BY <1>1 DEF Answers
  <2>2. task[s].seen.keys = key
    BY <2>1 DEF SeenKey
  <2> QED BY <1>3, <2>1, <2>2, GeneratorReturnsContract
<1>6. key \in SUBSET Columns
  BY <1>3 DEF Task
<1>7. /\ k \in Task /\ k.at = "activate" /\ k.table = t /\ k.key = {}
  BY <1>3 DEF Task, Schema, NoTable, Providers
<1>8. CASE UNCHANGED minio /\ Done(s)
  BY <1>2, <1>8, DoneStep DEF capture, TypeOK, ToldIsTrue, FailedHasNone
<1>9. CASE /\ minio' = [minio EXCEPT ![t] = [contract |-> contract, key |-> key]]
           /\ task' = [task EXCEPT ![s] = k]
  <2> HIDE DEF contract, key, k
  <2>1. [contract |-> contract, key |-> key] \in Stored
    BY <1>4, <1>6 DEF Stored
  <2>2. [contract |-> contract, key |-> key] # NotStored
    BY <1>4 DEF NotStored
  <2>3. TypeOK'
    BY <1>2, <1>3, <1>7, <1>9, <2>1 DEF TypeOK, capture, database
  <2>4. \A u \in Tables : minio[u] # NotStored => minio'[u] # NotStored
    BY <1>3, <1>9, <2>2 DEF TypeOK
  <2>5. minio'[t] # NotStored
    BY <1>3, <1>9, <2>2 DEF TypeOK
  <2>6. StoredBeforeAsked'
    <3>1. \A u \in Sessions : task[u].table \in Tables
      BY DEF TypeOK, Task
    <3> QED BY <1>2, <1>7, <1>9, <2>4, <2>5, <3>1 DEF StoredBeforeAsked, TypeOK, capture
  <2>7. SeenKey'
    BY <1>7, <1>9 DEF SeenKey, TypeOK
  <2>8. FallbackLoads'
    BY <1>3, <1>5, <1>9 DEF FallbackLoads, TypeOK
  <2> QED BY <1>2, <2>3, <2>6, <2>7, <2>8 DEF FailedHasNone, ToldIsTrue, capture
<1>10. Store(s, contract) =>
          \/ UNCHANGED minio /\ Done(s)
          \/ /\ minio' = [minio EXCEPT ![t] = [contract |-> contract, key |-> key]]
             /\ task' = [task EXCEPT ![s] = k]
  BY DEF Store, TypeOK
<1> QED BY <1>1, <1>8, <1>9, <1>10

\* activate begins in its thread, or Kafka Connect creates a connector.
LEMMA CaptureStep ==
    ASSUME PortalInv,
           \/ \E s \in Sessions : BeginActivate(s)
           \/ \E t \in Tables : CreateConnector(t)
    PROVE  PortalInv'
<1> USE DEF PortalInv
<1>1. ASSUME NEW s \in Sessions, BeginActivate(s) PROVE PortalInv'
  <2> DEFINE k == [task[s] EXCEPT !.at = "activating"]
  <2>1. task[s] \in Task /\ task[s].at = "activate"
    BY <1>1 DEF BeginActivate, At, TypeOK
  <2>2. /\ k \in Task /\ k.table = task[s].table /\ task[s].table \in Tables
        /\ k.key = task[s].key /\ k.seen = task[s].seen
    BY <2>1 DEF Task
  <2>3. task' = [task EXCEPT ![s] = k]
    BY <1>1 DEF BeginActivate, GoTo, TypeOK
  <2>4. minio[task[s].table] # NotStored
    BY <2>1 DEF StoredBeforeAsked
  <2> HIDE DEF k
  <2>5. /\ asked' = asked \union {task[s].table}
        /\ UNCHANGED <<source, ddl, provider, failed, minio, connector, told>>
    BY <1>1 DEF BeginActivate, database
  <2>6. TypeOK'
    BY <2>2, <2>3, <2>5 DEF TypeOK
  <2>7. StoredBeforeAsked' /\ SeenKey'
    BY <2>2, <2>3, <2>4, <2>5 DEF StoredBeforeAsked, SeenKey, TypeOK
  <2> QED BY <2>5, <2>6, <2>7 DEF FailedHasNone, ToldIsTrue, FallbackLoads
<1>2. ASSUME NEW t \in Tables, CreateConnector(t) PROVE PortalInv'
  BY <1>2
     DEF CreateConnector, TypeOK, StoredBeforeAsked, SeenKey, FailedHasNone,
         ToldIsTrue, FallbackLoads, database
<1> QED BY <1>1, <1>2

\* The handlers that end: an error of the provider, of activate or of anything
\* else, and the message of success.
LEMMA EndStep ==
    ASSUME PortalInv, NEW s \in Sessions,
           GenerateFails(s) \/ ActivateReturns(s) \/ ActivateRaises(s) \/ Abandon(s)
    PROVE  PortalInv'
<1> USE DEF PortalInv
<1>1. task[s].table \in Tables
  BY DEF TypeOK, Task
<1>2. CASE GenerateFails(s)
  <2>1. /\ provider' \in [Sessions -> Providers \union {"none", "closed"}]
        /\ failed' \in [Sessions -> BOOLEAN]
        /\ FailedHasNone'
    BY <1>2 DEF GenerateFails, TypeOK, FailedHasNone
  <2> QED BY <1>2, <2>1, DoneStep DEF GenerateFails, capture, TypeOK, ToldIsTrue
<1>3. CASE ActivateReturns(s)
  BY <1>1, <1>3, DoneStep DEF ActivateReturns, TypeOK, ToldIsTrue, FailedHasNone
<1>4. CASE ActivateRaises(s) \/ Abandon(s)
  BY <1>4, DoneStep
     DEF ActivateRaises, Abandon, capture, TypeOK, ToldIsTrue, FailedHasNone
<1> QED BY <1>2, <1>3, <1>4

\* A table is changed from outside.
LEMMA AlterStep ==
    ASSUME PortalInv, NEW t \in Tables, AlterTable(t)
    PROVE  PortalInv'
<1> USE DEF PortalInv
<1>1. source' \in [Tables -> Schema] /\ ddl' \in 0..MaxDdl
  BY AlterType DEF AlterTable
<1> QED
  BY <1>1 DEF AlterTable, capture, TypeOK, StoredBeforeAsked, SeenKey, FailedHasNone,
     ToldIsTrue, FallbackLoads

\* PortalInv is inductive.
THEOREM PortalInvInductive ==
    ASSUME PortalInv, [PortalNext]_vars PROVE PortalInv'
<1>1. ASSUME NEW s \in Sessions, OnStart(s) \/ \E name \in Providers : SelectProvider(s, name)
      PROVE  PortalInv'
  BY <1>1, SelectStep DEF OnStart, SelectProvider
<1>2. ASSUME NEW s \in Sessions, Handler(s) PROVE PortalInv'
  BY <1>2, BeforeInspect, InspectStep, StoreStep, CaptureStep, EndStep DEF Handler
<1>3. ASSUME NEW s \in Sessions, \E t \in Tables : HandleMessage(s, t) PROVE PortalInv'
  BY <1>3, BeforeInspect
<1>4. ASSUME NEW t \in Tables, CreateConnector(t) \/ AlterTable(t) PROVE PortalInv'
  BY <1>4, CaptureStep, AlterStep
<1>5. CASE UNCHANGED vars
  BY <1>5
     DEF vars, PortalInv, TypeOK, StoredBeforeAsked, SeenKey, FailedHasNone,
         ToldIsTrue, FallbackLoads
<1> QED BY <1>1, <1>2, <1>3, <1>4, <1>5 DEF PortalNext

\* PortalInv holds in every reachable state of the portal.
THEOREM PortalInvariance == PortalSpec => []PortalInv
<1>1. PortalInv /\ [PortalNext]_vars => PortalInv'
  BY PortalInvInductive
<1> QED BY <1>1, PortalInvInit, PTL DEF PortalSpec

-----------------------------------------------------------------------------
(* What follows from the invariant.                                        *)

\* Types.
THEOREM PortalTypes == PortalSpec => []TypeOK
<1>1. PortalInv => TypeOK
  BY DEF PortalInv
<1> QED BY <1>1, PortalInvariance, PTL

\* Whoever is told of success has a connector, and every captured table has
\* its contract in MinIO.
THEOREM CaptureIsContracted == PortalSpec => []CaptureHasContract
<1>1. PortalInv => CaptureHasContract
  BY DEF PortalInv, StoredBeforeAsked, ToldIsTrue, CaptureHasContract
<1> QED BY <1>1, PortalInvariance, PTL

\* The Silver job accepts the fallback contract of a table that kept its key
\* while it was inspected.
THEOREM FallbackIsAccepted == PortalSpec => []FallbackLoads
<1>1. PortalInv => FallbackLoads
  BY DEF PortalInv
<1> QED BY <1>1, PortalInvariance, PTL

\* After an error of its provider, a session takes no message before the user
\* has selected one again.
THEOREM ErrorNeedsSelection == PortalSpec => ErrorForcesReselect
<1> DEFINE Step == \A s \in Sessions : At(s, "idle") /\ ~At(s, "idle")' => ~failed[s]
<1>1. PortalInv /\ [PortalNext]_vars => [Step]_vars
  <2> SUFFICES ASSUME PortalInv, PortalNext, NEW s \in Sessions,
                      At(s, "idle"), ~At(s, "idle")'
               PROVE  ~failed[s]
    OBVIOUS
  <2> USE DEF PortalInv
  <2>1. ASSUME NEW u \in Sessions, Handler(u), u # s PROVE task'[s] = task[s]
    BY <2>1
       DEF Handler, CheckTable, Inspect, GenerateFails, GenerateAndStore, Store,
           BeginActivate, ActivateReturns, ActivateRaises, Abandon, Done, GoTo, TypeOK
  <2>2. ~Handler(s)
    BY DEF Handler, CheckTable, Inspect, GenerateFails, GenerateAndStore,
       BeginActivate, ActivateReturns, ActivateRaises, Abandon, At
  <2>3. ASSUME NEW u \in Sessions, NEW t \in Tables, HandleMessage(u, t), u # s
        PROVE  task'[s] = task[s]
    BY <2>3 DEF HandleMessage, TypeOK
  <2>4. CASE \E t \in Tables : HandleMessage(s, t)
    BY <2>4 DEF HandleMessage, FailedHasNone, Providers
  <2>5. UNCHANGED task => FALSE
    BY DEF At
  <2>6. task'[s] # task[s]
    BY DEF At
  <2> QED
    BY <2>1, <2>2, <2>3, <2>4, <2>5, <2>6
       DEF PortalNext, OnStart, SelectProvider, CreateConnector, AlterTable
<1> QED BY <1>1, PortalInvariance, PTL DEF PortalSpec, ErrorForcesReselect

-----------------------------------------------------------------------------
(* A handler is short: the half of HandlerEnds without fairness.           *)

\* Steps the handler of session `s` may still take.
PhasesLeft ==
    [check |-> 6, inspect |-> 5, generate |-> 4, activate |-> 3,
     activating |-> 2, idle |-> 0]
StepsLeft(s) == PhasesLeft[task[s].at]

LEMMA StepsLeftType ==
    ASSUME TypeOK, NEW s \in Sessions
    PROVE  /\ StepsLeft(s) \in 0..6
           /\ ~At(s, "idle") => StepsLeft(s) > 0
BY DEF TypeOK, Task, StepsLeft, PhasesLeft, At

\* A step of one handler leaves it less to do, and the others as much.
LEMMA HandlerCountsDown ==
    ASSUME TypeOK, NEW s \in Sessions, Handler(s)
    PROVE  /\ StepsLeft(s)' < StepsLeft(s)
           /\ \A q \in Sessions \ {s} : StepsLeft(q)' = StepsLeft(q)
<1>1. task \in [Sessions -> Task]
  BY DEF TypeOK
<1>2. ASSUME NEW q \in Sessions \ {s} PROVE StepsLeft(q)' = StepsLeft(q)
  <2>1. task'[q] = task[q]
    BY <1>1, <1>2
       DEF Handler, CheckTable, Inspect, GenerateFails, GenerateAndStore, Store,
           BeginActivate, ActivateReturns, ActivateRaises, Abandon, Done, GoTo
  <2> QED BY <2>1 DEF StepsLeft
<1>3. CASE CheckTable(s) \/ Inspect(s) \/ BeginActivate(s)
  <2>1. \/ task[s].at = "check" /\ task'[s].at \in {"idle", "inspect"}
        \/ task[s].at = "inspect" /\ task'[s].at = "generate"
        \/ task[s].at = "activate" /\ task'[s].at = "activating"
    BY <1>1, <1>3 DEF CheckTable, Inspect, BeginActivate, Done, GoTo, At, Task
  <2> QED BY <1>2, <2>1 DEF StepsLeft, PhasesLeft
<1>4. CASE GenerateAndStore(s)
  <2>1. task[s].at = "generate"
    BY <1>4 DEF GenerateAndStore, At
  <2>2. PICK reply \in Answers(task[s].with) :
           Store(s, ParseAndValidate(reply, task[s].seen))
    BY <1>4 DEF GenerateAndStore
  <2>3. task'[s].at \in {"idle", "activate"}
    BY <1>1, <2>2 DEF Store, Done, Task
  <2> QED BY <1>2, <2>1, <2>3 DEF StepsLeft, PhasesLeft
<1>5. CASE GenerateFails(s) \/ ActivateReturns(s) \/ ActivateRaises(s) \/ Abandon(s)
  <2>1. ~At(s, "idle") /\ task'[s].at = "idle"
    BY <1>1, <1>5 DEF GenerateFails, ActivateReturns, ActivateRaises, Abandon,
       Done, At, Task
  <2>2. StepsLeft(s)' = 0
    BY <2>1 DEF StepsLeft, PhasesLeft
  <2> QED BY <1>2, <2>1, <2>2, StepsLeftType
<1> QED BY <1>3, <1>4, <1>5 DEF Handler

\* A message is handled in at most six steps, whatever the other sessions, the
\* providers and Kafka Connect do; only the next message, which is taken when
\* nothing is being handled, gives a session more.
THEOREM HandlerIsShort ==
    PortalSpec =>
        /\ [](\A s \in Sessions : StepsLeft(s) \in 0..6)
        /\ [][\A s \in Sessions :
                 /\ Handler(s) => StepsLeft(s)' < StepsLeft(s)
                 /\ ~At(s, "idle") => StepsLeft(s)' <= StepsLeft(s)]_vars
<1> DEFINE Counted == \A s \in Sessions : StepsLeft(s) \in 0..6
           Down == \A s \in Sessions :
                      /\ Handler(s) => StepsLeft(s)' < StepsLeft(s)
                      /\ ~At(s, "idle") => StepsLeft(s)' <= StepsLeft(s)
<1>1. PortalInv => Counted
  BY StepsLeftType DEF PortalInv
<1>2. PortalInv /\ Counted' /\ [PortalNext]_vars => [Down]_vars
  <2> SUFFICES ASSUME PortalInv, Counted', PortalNext, NEW s \in Sessions
               PROVE  /\ Handler(s) => StepsLeft(s)' < StepsLeft(s)
                      /\ ~At(s, "idle") => StepsLeft(s)' <= StepsLeft(s)
    OBVIOUS
  <2>1. TypeOK /\ StepsLeft(s) \in 0..6 /\ StepsLeft(s)' \in 0..6
    BY <1>1 DEF PortalInv
  <2>2. Handler(s) => StepsLeft(s)' < StepsLeft(s)
    BY <2>1, HandlerCountsDown
  <2>3. ASSUME NEW q \in Sessions \ {s}, Handler(q)
        PROVE  StepsLeft(s)' = StepsLeft(s)
    BY <2>1, <2>3, HandlerCountsDown
  <2>4. ASSUME NEW q \in Sessions, NEW t \in Tables, HandleMessage(q, t), ~At(s, "idle")
        PROVE  StepsLeft(s)' = StepsLeft(s)
    <3>1. q # s /\ task'[s] = task[s]
      BY <2>1, <2>4 DEF HandleMessage, At, TypeOK
    <3> QED BY <3>1 DEF StepsLeft
  <2>5. ASSUME UNCHANGED task PROVE StepsLeft(s)' = StepsLeft(s)
    BY <2>5 DEF StepsLeft
  <2> HIDE DEF Counted, Down
  <2>6. ASSUME ~At(s, "idle") PROVE StepsLeft(s)' <= StepsLeft(s)
    <3>1. CASE \E q \in Sessions : Handler(q)
      <4>1. PICK q \in Sessions : Handler(q)
        BY <3>1
      <4>2. CASE q = s
        BY <2>1, <2>2, <4>1, <4>2
      <4>3. CASE q # s
        BY <2>1, <2>3, <4>1, <4>3
      <4> QED BY <4>2, <4>3
    <3>2. CASE \E q \in Sessions, t \in Tables : HandleMessage(q, t)
      BY <2>1, <2>4, <2>6, <3>2
    <3>3. CASE UNCHANGED task
      BY <2>1, <2>5, <3>3
    <3> QED BY <3>1, <3>2, <3>3
       DEF PortalNext, OnStart, SelectProvider, CreateConnector, AlterTable
  <2> QED BY <2>2, <2>6
<1> QED BY <1>1, <1>2, PortalInvariance, PTL DEF PortalSpec

-----------------------------------------------------------------------------
(* To its users the portal keeps the promise of activate.                  *)

Promise(t) == INSTANCE ConnectorPromise
    WITH exists <- t \in connector, asked <- t \in asked, reported <- t \in told

\* For every table, what the sessions see of Kafka Connect is what activate
\* promises: a connector comes after a request for it and stays, also when the
\* request is late, and success is told only of a connector that exists.
THEOREM PortalKeepsPromise ==
    PortalSpec => \A t \in Tables : Promise(t)!PromiseSpec
<1> SUFFICES ASSUME NEW t \in Tables PROVE PortalSpec => Promise(t)!PromiseSpec
  OBVIOUS
<1>1. PortalInit => Promise(t)!PromiseInit
  BY DEF PortalInit, Promise!PromiseInit
<1>2. TypeOK /\ [PortalNext]_vars
      => [Promise(t)!Ask \/ Promise(t)!Create \/ Promise(t)!ReportSuccess]_(Promise(t)!vars)
  <2> SUFFICES ASSUME TypeOK, [PortalNext]_vars
               PROVE  \/ Promise(t)!Ask \/ Promise(t)!Create
                      \/ Promise(t)!ReportSuccess \/ UNCHANGED Promise(t)!vars
    OBVIOUS
  <2> USE DEF Promise!vars
  <2>1. UNCHANGED capture => UNCHANGED Promise(t)!vars
    BY DEF capture
  <2>2. ASSUME NEW s \in Sessions, BeginActivate(s)
        PROVE  Promise(t)!Ask \/ UNCHANGED Promise(t)!vars
    BY <2>2 DEF BeginActivate, Promise!Ask
  <2>3. ASSUME NEW s \in Sessions, ActivateReturns(s)
        PROVE  Promise(t)!ReportSuccess \/ UNCHANGED Promise(t)!vars
    BY <2>3 DEF ActivateReturns, Promise!ReportSuccess
  <2>4. ASSUME NEW u \in Tables, CreateConnector(u)
        PROVE  Promise(t)!Create \/ UNCHANGED Promise(t)!vars
    BY <2>4 DEF CreateConnector, Promise!Create
  <2>5. ASSUME NEW s \in Sessions,
               \/ OnStart(s)
               \/ \E name \in Providers : SelectProvider(s, name)
               \/ \E u \in Tables : HandleMessage(s, u)
               \/ CheckTable(s) \/ Inspect(s) \/ GenerateFails(s)
               \/ GenerateAndStore(s) \/ ActivateRaises(s) \/ Abandon(s)
        PROVE  UNCHANGED capture
    BY <2>5 DEF OnStart, SelectProvider, HandleMessage, CheckTable, Inspect,
       GenerateFails, GenerateAndStore, ActivateRaises, Abandon
  <2>6. (\E u \in Tables : AlterTable(u)) \/ UNCHANGED vars => UNCHANGED capture
    BY DEF AlterTable, vars, capture
  <2> QED BY <2>1, <2>2, <2>3, <2>4, <2>5, <2>6 DEF PortalNext, Handler
<1>3. PortalInv => TypeOK
  BY DEF PortalInv
<1> QED BY <1>1, <1>2, <1>3, PortalInvariance, PTL DEF PortalSpec, Promise!PromiseSpec
=============================================================================
