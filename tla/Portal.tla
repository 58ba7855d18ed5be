------------------------------- MODULE Portal -------------------------------
(***************************************************************************)
(* The chat portal (portal/app.py): sessions that put tables under         *)
(* capture.                                                                *)
(*                                                                         *)
(* All handlers run on one event loop and interleave where they await: a   *)
(* message, the reply of a provider, the thread that runs activate.  What  *)
(* lies between two awaits is one step here.  The settings of a session    *)
(* may change while its message is being handled; a second message waits   *)
(* until the first is over or the user stops it.                           *)
(*                                                                         *)
(* Postgres, the providers, MinIO and Kafka Connect are external; activate *)
(* is used as ConnectorPromise describes it.                               *)
(***************************************************************************)
EXTENDS ContractGeneration, Naturals

CONSTANTS
    Sessions,           \* chat sessions
    Tables,             \* tables their users ask for
    DefaultProvider,    \* DEFAULT_LLM_PROVIDER, possibly a name nobody knows
    HasGeminiKey,       \* GEMINI_API_KEY is set
    MaxDdl              \* bound: changes of a table's schema

ASSUME PortalConstants ==
    /\ DefaultProvider \in STRING
    /\ HasGeminiKey \in BOOLEAN
    /\ MaxDdl \in Nat

Providers == {"gemini", "ollama", "fallback"}       \* KNOWN_PROVIDERS

\* build_from_name returns: Gemini's constructor wants its API key.
Buildable == IF HasGeminiKey THEN Providers ELSE Providers \ {"gemini"}

\* generate_yaml of an LLM provider raises a ProviderError, at its deadline at
\* the latest, ...
Fallible == Providers \ {"fallback"}

\* ... or returns what the model wrote; the fallback returns an empty string.
Answers(name) == IF name \in Fallible THEN Reply ELSE {NoContract}

VARIABLES
    source,     \* source[t]: the table in Postgres
    ddl,        \* schema changes so far
    provider,   \* provider[s]: in cl.user_session; "closed" before on_start
    failed,     \* failed[s]: a provider failed since the last selection
    task,       \* task[s]: the message that is being handled
    minio,      \* minio[t]: the contract in MinIO
    asked,      \* tables for which a call of activate has begun
    connector,  \* tables Kafka Connect captures
    told        \* tables some user was told are captured

vars == <<source, ddl, provider, failed, task, minio, asked, connector,
          told>>
capture == <<asked, connector, told>>
database == <<source, ddl>>

\* `seen` is what the inspector returned; `key` is the primary key the table
\* had at both of its queries (history).
Task == [at : {"idle", "check", "inspect", "generate", "activate", "activating"},
         table : Tables, with : Providers, seen : Schema, key : SUBSET Columns]

\* A contract in MinIO; `key` is kept of those the fallback provider made.
Stored == [contract : Contract \union {NoContract}, key : SUBSET Columns]
NotStored == [contract |-> NoContract, key |-> {}]

TypeOK ==
    /\ source \in [Tables -> Schema]
    /\ ddl \in 0..MaxDdl
    /\ provider \in [Sessions -> Providers \union {"none", "closed"}]
    /\ failed \in [Sessions -> BOOLEAN]
    /\ task \in [Sessions -> Task]
    /\ minio \in [Tables -> Stored]
    /\ asked \subseteq Tables
    /\ connector \subseteq Tables
    /\ told \subseteq Tables

-----------------------------------------------------------------------------
PortalInit ==
    /\ source \in [Tables -> Schema]
    /\ ddl = 0
    /\ provider = [s \in Sessions |-> "closed"]
    /\ failed = [s \in Sessions |-> FALSE]
    /\ task \in [Sessions -> {k \in Task : k.at = "idle" /\ k.with = "fallback"
                                /\ k.seen = NoTable /\ k.key = {}}]
    /\ minio = [t \in Tables |-> NotStored]
    /\ asked = {}
    /\ connector = {}
    /\ told = {}

At(s, step) == task[s].at = step
GoTo(s, step) == task' = [task EXCEPT ![s].at = step]
\* The handler of session `s` is over.
Done(s) == task' = [task EXCEPT ![s].at = "idle", ![s].with = "fallback",
                                ![s].seen = NoTable, ![s].key = {}]

\* set_provider_by_name and its except branch, clear_provider.
SetProvider(s, name) ==
    /\ provider' = [provider EXCEPT ![s] = IF name \in Buildable THEN name ELSE "none"]
    /\ failed' = [failed EXCEPT ![s] = @ /\ name \notin Buildable]

\* on_start: the default provider, or none.
OnStart(s) ==
    /\ provider[s] = "closed"
    /\ SetProvider(s, DefaultProvider)
    /\ UNCHANGED <<database, task, minio, capture>>

\* on_settings_update at any time, /llm when no message is being handled; a
\* name /llm does not know changes nothing.
SelectProvider(s, name) ==
    /\ provider[s] # "closed"
    /\ SetProvider(s, name)
    /\ UNCHANGED <<database, task, minio, capture>>

\* handle_message up to its first await.  Without a provider, and for a name
\* that is not a table name, it answers and returns.
HandleMessage(s, t) ==
    /\ At(s, "idle")
    /\ provider[s] \in Providers
    /\ task' = [task EXCEPT ![s].at = "check", ![s].table = t,
                            ![s].with = provider[s]]
    /\ UNCHANGED <<database, provider, failed, minio, capture>>

CheckTable(s) ==
    /\ At(s, "check")
    /\ IF source[task[s].table] = NoTable THEN Done(s) ELSE GoTo(s, "inspect")
    /\ UNCHANGED <<database, provider, failed, minio, capture>>

\* The table is changed, made or dropped.
Alter(t, schema) ==
    /\ ddl < MaxDdl
    /\ ddl' = ddl + 1
    /\ source' = [source EXCEPT ![t] = schema]

\* introspect blocks the event loop, but not the database.
Inspect(s) ==
    LET t == task[s].table IN
    /\ At(s, "inspect")
    /\ (\E schema \in Schema : Alter(t, schema)) \/ UNCHANGED database
    /\ task' = [task EXCEPT ![s].at = "generate",
                            ![s].seen = Introspected(source[t], source'[t]),
                            ![s].key = IF source'[t] = source[t]
                                       THEN source[t].keys ELSE {}]
    /\ UNCHANGED <<provider, failed, minio, capture>>

\* Mutant of GenerateFails: the provider is cleared only if it is still
\* the selected one.
GenerateFailsUnlessSwitched(s) ==
    /\ At(s, "generate")
    /\ task[s].with \in Fallible
    /\ provider' = [provider EXCEPT ![s] = IF @ = task[s].with THEN "none" ELSE @]
    /\ failed' = [failed EXCEPT ![s] = TRUE]
    /\ Done(s)
    /\ UNCHANGED <<database, minio, capture>>

\* Mutant of GenerateFails: Ollama's call has no deadline.
GenerateFailsOnlyGemini(s) ==
    /\ At(s, "generate")
    /\ task[s].with = "gemini"
    /\ provider' = [provider EXCEPT ![s] = "none"]
    /\ failed' = [failed EXCEPT ![s] = TRUE]
    /\ Done(s)
    /\ UNCHANGED <<database, minio, capture>>

\* ProviderError: an API error, or the deadline of wait_for.  Whatever
\* provider is selected by now is cleared.
GenerateFails(s) ==
    /\ At(s, "generate")
    /\ task[s].with \in Fallible
    /\ provider' = [provider EXCEPT ![s] = "none"]
    /\ failed' = [failed EXCEPT ![s] = TRUE]
    /\ Done(s)
    /\ UNCHANGED <<database, minio, capture>>

\* Mutant of Store: a failing upload is logged and ignored.
StoreAnyway(s, contract) ==
    /\ \/ minio' = [minio EXCEPT ![task[s].table] = [contract |-> contract, key |-> {}]]
       \/ UNCHANGED minio
    /\ task' = [task EXCEPT ![s].at = "activate", ![s].with = "fallback",
                             ![s].seen = NoTable, ![s].key = {}]

\* The contract goes to MinIO, or a failing put_object leaves the handler.  The
\* copy on the portal's volume, written just before, is read by nobody.
Store(s, contract) ==
    \/ /\ minio' = [minio EXCEPT ![task[s].table] =
                       [contract |-> contract,
                        key |-> IF task[s].with \in Fallible THEN {} ELSE task[s].key]]
       /\ task' = [task EXCEPT ![s].at = "activate", ![s].with = "fallback",
                                ![s].seen = NoTable, ![s].key = {}]
    \/ UNCHANGED minio /\ Done(s)

\* The provider answers in time; what follows has no await.
GenerateAndStore(s) ==
    /\ At(s, "generate")
    /\ \E reply \in Answers(task[s].with) :
          Store(s, ParseAndValidate(reply, task[s].seen))
    /\ UNCHANGED <<database, provider, failed, capture>>

\* asyncio.to_thread(_activator.activate, table_name).
BeginActivate(s) ==
    /\ At(s, "activate")
    /\ asked' = asked \union {task[s].table}
    /\ GoTo(s, "activating")
    /\ UNCHANGED <<database, provider, failed, minio, connector, told>>

\* activate returns and the user is told of the success.
ActivateReturns(s) ==
    /\ At(s, "activating")
    /\ task[s].table \in connector
    /\ told' = told \union {task[s].table}
    /\ Done(s)
    /\ UNCHANGED <<database, provider, failed, minio, asked, connector>>

\* activate gives up (409, retries exhausted): nothing catches it.
ActivateRaises(s) ==
    /\ At(s, "activating")
    /\ Done(s)
    /\ UNCHANGED <<database, provider, failed, minio, capture>>

\* Any other exception leaves the handler and is shown by Chainlit: Postgres
\* is away, a reply without "response" (KeyError), a value YAML cannot build
\* (ValueError); the user's Stop cancels it.  A thread goes on.
Abandon(s) ==
    /\ ~At(s, "idle")
    /\ Done(s)
    /\ UNCHANGED <<database, provider, failed, minio, capture>>

\* A request of activate reaches Kafka Connect, late ones included.
CreateConnector(t) ==
    /\ t \in asked
    /\ connector' = connector \union {t}
    /\ UNCHANGED <<database, provider, failed, task, minio, asked, told>>

AlterTable(t) ==
    /\ \E schema \in Schema : Alter(t, schema)
    /\ UNCHANGED <<provider, failed, task, minio, capture>>

Handler(s) ==
    \/ CheckTable(s) \/ Inspect(s) \/ GenerateFails(s) \/ GenerateAndStore(s)
    \/ BeginActivate(s) \/ ActivateReturns(s) \/ ActivateRaises(s) \/ Abandon(s)

PortalNext ==
    \/ \E s \in Sessions :
          \/ OnStart(s)
          \/ \E name \in Providers : SelectProvider(s, name)
          \/ \E t \in Tables : HandleMessage(s, t)
          \/ Handler(s)
    \/ \E t \in Tables : CreateConnector(t) \/ AlterTable(t)

\* The loop runs what is ready, a call of a provider has a deadline and so
\* has activate; that a provider or Kafka Connect answers is not assumed.
Prompt(s) ==
    \/ CheckTable(s) \/ Inspect(s) \/ GenerateFails(s) \/ BeginActivate(s)
    \/ task[s].with \notin Fallible /\ GenerateAndStore(s)
    \/ ActivateRaises(s)

PortalSpec == PortalInit /\ [][PortalNext]_vars
FairPortalSpec == PortalSpec /\ \A s \in Sessions : WF_vars(Prompt(s))

-----------------------------------------------------------------------------
(* Properties.                                                             *)

\* A table whose user was told "CDC ativado com sucesso" is captured, and one
\* that is captured has its contract in MinIO, also when uploads fail,
\* handlers are stopped and activations of other sessions come late: the jobs
\* that read its topic find a contract to copy.
CaptureHasContract ==
    /\ told \subseteq connector
    /\ \A t \in connector : minio[t] # NotStored

\* After a provider raised an error, the session generates nothing until the
\* user has selected a provider again (docstring of clear_provider), also
\* when the provider was switched while the failing call was under way.
ErrorForcesReselect ==
    [][\A s \in Sessions :
          At(s, "idle") /\ ~At(s, "idle")' => ~failed[s]]_vars

\* A contract of the fallback provider for a table that kept its primary key
\* during the introspection is accepted by load_contract and has that key.
\* A table without a primary key, or one changed between the two queries, may
\* get a contract that Silver refuses; so may any table from an LLM.
FallbackLoads ==
    \A t \in Tables :
        minio[t].key # {} =>
            Loads(minio[t].contract) /\ minio[t].contract.keys = minio[t].key

\* Every message is answered in the end, also when a provider hangs.
HandlerEnds == \A s \in Sessions : ~At(s, "idle") ~> At(s, "idle")
=============================================================================
