----------------------------- MODULE Medallion -----------------------------
(***************************************************************************)
(* Bronze and Silver together: the batch job of                            *)
(* spark/jobs/bronze_to_silver.py merges the Bronze rows of one ingestion  *)
(* date into iceberg.silver.<table>, while the Bronze driver keeps         *)
(* appending, crashing and replaying.                                      *)
(*                                                                         *)
(* A run is started by the hourly Airflow DAG for the date of its data     *)
(* interval, by the E2E Spark agent for today, or by hand for any date     *)
(* (silver_processing_manual).  It reads a snapshot of Bronze, later       *)
(* snapshots Silver, and commits with Iceberg's optimistic check: the      *)
(* commit fails when another run committed in between.                     *)
(***************************************************************************)
EXTENDS BronzeStreaming

CONSTANTS
    Runners,            \* who may start runs: a subset of RunnerKinds
    MaxRuns,            \* bound: runs started by the agent or by hand
    MaxFailures,        \* bound: runs that fail
    LastRunMayFail      \* the last hourly run of a date may be one of them

RunnerKinds == {"hourly", "agent", "manual"}

ASSUME MedallionConstants ==
    /\ Runners \subseteq RunnerKinds
    /\ MaxRuns \in Nat
    /\ MaxFailures \in Nat
    /\ LastRunMayFail \in BOOLEAN

VARIABLES
    silver,     \* silver[t]: rows [key, src] of silver.t; src is the event
                \* whose "after" image the row holds
    run,        \* run[<<r, t>>]: the run that runner r has active for table t
    due,        \* due[t]: date of the next hourly run for t
    started,    \* runs started by the agent or by hand
    failures    \* runs that failed

silverVars == <<silver, run, due, started, failures>>
vars == <<bronzeVars, silverVars>>

IdleRun ==
    [phase |-> "idle", date |-> 0, last |-> FALSE, seen |-> 0, stale |-> FALSE]

SilverRow == [key : Keys, src : Nat]
Run == [phase : {"idle", "started", "read", "merging"},
        date : Nat, last : BOOLEAN, seen : Nat, stale : BOOLEAN]

MedallionTypeOK ==
    /\ TypeOK
    /\ silver \in [Tables -> SUBSET SilverRow]
    /\ run \in [Runners \X Tables -> Run]
    /\ due \in [Tables -> Nat]
    /\ started \in Nat
    /\ failures \in Nat

-----------------------------------------------------------------------------
(* The MERGE, as a function of the Bronze rows a run has seen.             *)

\* The rows of bronze.t_valid ingested on `date`, of the first `seen`.
DateRows(t, date, seen) == {i \in 1..seen : valid[t][i].day = date}

KeyOf(t, i) == log[t][valid[t][i].src].key

\* Mutant of Parsed: the "before" image of a delete is taken as its row.
ParsedWithDeletes(t, S) ==
    {i \in S : Nested /\ log[t][valid[t][i].src].kind # "t"}

\* parse_cdc_envelope: $.payload.after exists only in a wrapped event that is
\* not a delete or a tombstone; every other row is dropped.
Parsed(t, S) ==
    {i \in S : Nested /\ log[t][valid[t][i].src].kind \in {"c", "u"}}

\* Mutant of Dedup: the window is not filtered by row_number() = 1.
NoDedup(t, S) == S

\* Mutant of Dedup: the window is ordered by ascending _cdc_ts.
DedupOldest(t, S) ==
    {i \in S : \A j \in S : KeyOf(t, j) = KeyOf(t, i) => i <= j}

\* row_number() = 1 over the primary key by descending _cdc_ts.
Dedup(t, S) ==
    {i \in S : \A j \in S : KeyOf(t, j) = KeyOf(t, i) => j <= i}

\* MERGE INTO: a matched row is deleted when the op is "d" and replaced
\* otherwise; an unmatched source row is inserted.
Merge(t, target, S) ==
    LET unmatched == {r \in target : \A i \in S : KeyOf(t, i) # r.key}
        deleting == {i \in S : /\ valid[t][i].op = "d"
                               /\ \E r \in target : r.key = KeyOf(t, i)}
    IN  unmatched \union
            {[key |-> KeyOf(t, i), src |-> valid[t][i].src] :
                i \in S \ deleting}

-----------------------------------------------------------------------------
MedallionInit ==
    /\ BronzeInit
    /\ silver = [t \in Tables |-> {}]
    /\ run = [job \in Runners \X Tables |-> IdleRun]
    /\ due = [t \in Tables |-> 1]
    /\ started = 0
    /\ failures = 0

\* The contract of `t` is registered; its hourly DAG exists from then on
\* and starts with today (catchup is off).
RegisterTable(t) ==
    /\ Register(t)
    /\ due' = [due EXCEPT ![t] = day]
    /\ UNCHANGED <<silver, run, started, failures>>

\* Midnight, once the last hourly run of the day before has been dealt with:
\* a day is longer than a run.
Midnight ==
    /\ \A t \in registered : due[t] = day
    /\ Tick
    /\ UNCHANGED silverVars

BronzeStep ==
    /\ \/ \E t \in Tables, k \in Keys, c \in Conformance :
             SourceUpsert(t, k, c) \/ SourceDelete(t, k, c)
       \/ Driver
       \/ Crash
    /\ UNCHANGED silverVars

\* Runner `r` submits the job for table `t` and `date`.
Submit(r, t, date) ==
    /\ run[<<r, t>>].phase = "idle"
    /\ run' = [run EXCEPT ![<<r, t>>] =
          [IdleRun EXCEPT !.phase = "started", !.date = date,
                          !.last = (r = "hourly" /\ due[t] < day)]]
    /\ UNCHANGED <<bronzeVars, silver, due, failures>>

\* Mutant of SubmitHourly: the DAG takes the date of the wall clock.
SubmitHourlyToday(t) ==
    /\ "hourly" \in Runners
    /\ t \in registered
    /\ Submit("hourly", t, day)
    /\ UNCHANGED started

\* Mutant of SubmitHourly: catchup, which runs earlier intervals again.
SubmitHourlyCatchup(t) ==
    /\ "hourly" \in Runners
    /\ t \in registered
    /\ \E date \in 1..due[t] : Submit("hourly", t, date)
    /\ UNCHANGED started

\* The hourly DAG, at most one active run: the date of the data interval is
\* the day before in the first run after midnight, which closes that date.
SubmitHourly(t) ==
    /\ "hourly" \in Runners
    /\ t \in registered
    /\ Submit("hourly", t, due[t])
    /\ UNCHANGED started

\* The E2E Spark agent renders the manifest with date.today().
SubmitAgent(t) ==
    /\ "agent" \in Runners
    /\ started < MaxRuns
    /\ Submit("agent", t, day)
    /\ started' = started + 1

\* An operator triggers silver_processing_manual for some date.
SubmitManual(t, date) ==
    /\ "manual" \in Runners
    /\ started < MaxRuns
    /\ Submit("manual", t, date)
    /\ started' = started + 1

\* The hourly DAG moves on to the next date once the last run of one is over.
NextDue(r, t) ==
    IF r = "hourly" /\ run[<<r, t>>].last
    THEN [due EXCEPT ![t] = run[<<r, t>>].date + 1]
    ELSE due

\* Mutant of Finish: the slot of the run is not freed.
FinishKeepsRun(r, t) ==
    /\ run' = [run EXCEPT ![<<r, t>>].phase = "finished"]
    /\ due' = NextDue(r, t)

Finish(r, t) ==
    /\ run' = [run EXCEPT ![<<r, t>>] = IdleRun]
    /\ due' = NextDue(r, t)

\* A commit to silver.t makes every other MERGE under way on it stale.
Overtaken(r, t) ==
    [job \in Runners \X Tables |->
        IF job = <<r, t>> THEN IdleRun
        ELSE [run[job] EXCEPT !.stale =
                 @ \/ (job[2] = t /\ run[job].phase = "merging")]]

\* load_contract succeeds and spark.table fixes the snapshot of Bronze; with
\* no row of that date the job stops there.
ReadBronze(r, t) ==
    /\ run[<<r, t>>].phase = "started"
    /\ t \in registered
    /\ IF DateRows(t, run[<<r, t>>].date, Len(valid[t])) = {}
       THEN Finish(r, t)
       ELSE /\ run' = [run EXCEPT ![<<r, t>>].phase = "read",
                                  ![<<r, t>>].seen = Len(valid[t])]
            /\ UNCHANGED due
    /\ UNCHANGED <<bronzeVars, silver, started, failures>>

\* ensure_silver_table, then the MERGE statement snapshots its target.
BeginMerge(r, t) ==
    /\ run[<<r, t>>].phase = "read"
    /\ run' = [run EXCEPT ![<<r, t>>].phase = "merging"]
    /\ UNCHANGED <<bronzeVars, silver, due, started, failures>>

\* Iceberg commits the MERGE: nothing was committed since the snapshot.
CommitMerge(r, t) ==
    LET rows == DateRows(t, run[<<r, t>>].date, run[<<r, t>>].seen)
    IN /\ run[<<r, t>>].phase = "merging"
       /\ ~run[<<r, t>>].stale
       /\ silver' = [silver EXCEPT ![t] =
                        Merge(t, @, Dedup(t, Parsed(t, rows)))]
       /\ run' = Overtaken(r, t)
       /\ due' = NextDue(r, t)
       /\ UNCHANGED <<bronzeVars, started, failures>>

\* The run dies and leaves nothing behind: its commit conflicts, or
\* load_contract finds no contract ...
Abort(r, t) ==
    /\ \/ run[<<r, t>>].stale
       \/ run[<<r, t>>].phase = "started" /\ t \notin registered
    /\ Finish(r, t)
    /\ UNCHANGED <<bronzeVars, silver, started, failures>>

\* ... or its driver, S3 or the catalog fails.
Fail(r, t) ==
    /\ run[<<r, t>>].phase # "idle"
    /\ failures < MaxFailures
    /\ LastRunMayFail \/ ~run[<<r, t>>].last
    /\ failures' = failures + 1
    /\ Finish(r, t)
    /\ UNCHANGED <<bronzeVars, silver, started>>

Work(r, t) ==
    ReadBronze(r, t) \/ BeginMerge(r, t) \/ CommitMerge(r, t) \/ Abort(r, t)

MedallionNext ==
    \/ \E t \in Tables : RegisterTable(t)
    \/ BronzeStep
    \/ Midnight
    \/ \E t \in Tables : SubmitHourly(t)
    \/ \E t \in Tables : SubmitAgent(t)
    \/ \E t \in Tables, date \in 1..day : SubmitManual(t, date)
    \/ \E r \in Runners, t \in Tables : Work(r, t) \/ Fail(r, t)

MedallionSpec == MedallionInit /\ [][MedallionNext]_vars

\* The Bronze driver runs, the hourly DAG is scheduled for every table, and a
\* job that was submitted gets on with it.
Fairness ==
    /\ WF_vars(Driver /\ UNCHANGED silverVars)
    /\ \A t \in Tables : WF_vars(SubmitHourly(t))
    /\ \A r \in Runners, t \in Tables : WF_vars(Work(r, t))

FairMedallionSpec == MedallionSpec /\ Fairness

-----------------------------------------------------------------------------
(* Properties.                                                             *)

\* The events of `t` that carry an image of the row `k`.
Images(t, k) ==
    {i \in DOMAIN log[t] : log[t][i].key = k /\ log[t][i].kind \in {"c", "u"}}

\* Silver has at most one row per primary key, whatever runs overlap and
\* whatever Bronze replayed (test_silver_customers_no_duplicates).
OneRowPerKey ==
    \A t \in Tables : \A r, s \in silver[t] : r.key = s.key => r = s

\* A Silver row is the image of an event of that very row, and that event is
\* in bronze.t_valid: nothing quarantined or never ingested reaches Silver.
SilverFromBronze ==
    \A t \in Tables : \A r \in silver[t] :
        /\ r.src \in Images(t, r.key)
        /\ \E i \in DOMAIN valid[t] : valid[t][i].src = r.src

\* "Keeps the most recent CDC event": a row of Silver is never replaced by an
\* older image of itself.
SilverNeverRegresses ==
    [][\A t \in Tables : \A r \in silver[t] : \A s \in silver'[t] :
          r.key = s.key => r.src <= s.src]_vars

\* The hourly DAG alone does keep the most recent event, over midnights and
\* failed runs, for as long as the Bronze driver never crashed.
HourlyNeverRegresses ==
    [][crashes = 0 /\ started = 0 =>
          \A t \in Tables : \A r \in silver[t] : \A s \in silver'[t] :
              r.key = s.key => r.src <= s.src]_vars

\* Nothing of a closed date is missing from Silver: for an image that reached
\* bronze.t_valid on a date before the one that is due, Silver has that row in
\* this image or in one that reached Bronze after it.  The hourly DAG alone
\* does this over crashes, replays and failed runs, unless it is the last run
\* of a date that fails: no later run processes that date again.
ClosedDatesMerged ==
    started = 0 /\ ~LastRunMayFail =>
        \A t \in Tables : \A i \in Parsed(t, DOMAIN valid[t]) :
            valid[t][i].day < due[t] =>
                \E r \in silver[t] :
                    /\ r.key = KeyOf(t, i)
                    /\ \E j \in DOMAIN valid[t] : i <= j /\ valid[t][j].src = r.src

\* Silver of `t` holds exactly the last image of every row.
UpToDate(t) ==
    \A k \in Keys :
        {r.src : r \in {s \in silver[t] : s.key = k}} =
            {i \in Images(t, k) : \A j \in Images(t, k) : j <= i}

\* When the source falls silent, Silver catches up with the last image of
\* every row (a deleted row keeps its last image) and stays there, through
\* driver crashes, replays, failed hourly runs and midnight.
Converges == <>[](\A t \in Tables : UpToDate(t))

\* A row that is deleted at the source disappears from Silver.
DeletesPropagate ==
    \A t \in Tables, k \in Keys :
        (k \in {log[t][i].key : i \in DOMAIN log[t]} /\ ~Present(t, k))
            ~> (Present(t, k) \/ \A r \in silver[t] : r.key # k)
=============================================================================
