------------------------- MODULE ConnectorActivation -------------------------
(***************************************************************************)
(* Activating the CDC of one table: several callers (portal sessions, the  *)
(* data source agent) run ConnectorActivator.activate of                   *)
(* portal/agent/connector_activator.py for the same connector name.        *)
(*                                                                         *)
(* activate checks that the connector exists and otherwise creates it,     *)
(* with up to three POSTs.  Check and create are separate requests, and a  *)
(* POST whose answer is lost may have been, or may still be, executed.     *)
(* Kafka Connect is external: it creates a connector once, answers 409     *)
(* when the name is taken or while its workers rebalance, and may answer   *)
(* 5xx, or refuse a request with another 4xx.                              *)
(***************************************************************************)
EXTENDS Naturals, FiniteSets

CONSTANTS
    Callers,        \* concurrent activations of the table
    MaxRetries,     \* max_retries of _create_connector
    Faults,         \* what may go wrong: a subset of FaultKinds
    MaxFaults       \* bound: errors of Kafka Connect and lost messages

FaultKinds == {"4xx", "5xx", "lost", "rebalance"}

ASSUME ActivationConstants ==
    /\ MaxRetries \in Nat \ {0}
    /\ Faults \subseteq FaultKinds
    /\ MaxFaults \in Nat

VARIABLES
    connector,  \* the connector in Kafka Connect: "absent" or "present"
    phase,      \* phase[c]: "check", "post", "wait", "backoff", "done"
    attempt,    \* attempt[c]: POSTs sent so far
    result,     \* result[c]: how activate ended
    requests,   \* POSTs on their way: <<caller, attempt>>
    answers,    \* answers on their way: <<caller, attempt, status>>
    faults,     \* faults so far
    rebalanced  \* callers answered 409 for a rebalance (history)

vars == <<connector, phase, attempt, result, requests, answers, faults,
          rebalanced>>
network == <<requests, answers>>
fault == <<faults, rebalanced>>

Results == {"none", "already_active", "created", "conflict", "rejected", "exhausted",
            "unreachable"}
Statuses == {201, 400, 409, 500}

TypeOK ==
    /\ connector \in {"absent", "present"}
    /\ phase \in [Callers -> {"check", "post", "wait", "backoff", "done"}]
    /\ attempt \in [Callers -> 0..MaxRetries]
    /\ result \in [Callers -> Results]
    /\ requests \subseteq Callers \X (1..MaxRetries)
    /\ answers \subseteq Callers \X (1..MaxRetries) \X Statuses
    /\ faults \in 0..MaxFaults
    /\ rebalanced \subseteq Callers

Active == connector = "present"

Fault(kind) ==
    /\ kind \in Faults
    /\ faults < MaxFaults
    /\ faults' = faults + 1

-----------------------------------------------------------------------------
ActivationInit ==
    /\ connector = "absent"
    /\ phase = [c \in Callers |-> "check"]
    /\ attempt = [c \in Callers |-> 0]
    /\ result = [c \in Callers |-> "none"]
    /\ requests = {}
    /\ answers = {}
    /\ faults = 0
    /\ rebalanced = {}

Return(c, r) ==
    /\ phase' = [phase EXCEPT ![c] = "done"]
    /\ result' = [result EXCEPT ![c] = r]

\* _connector_exists: only a 200 counts as existing, so that any error reads as
\* absent.
CheckExists(c) ==
    /\ phase[c] = "check"
    /\ \/ /\ Active
          /\ Return(c, "already_active")
          /\ UNCHANGED faults
       \/ /\ phase' = [phase EXCEPT ![c] = "post"]
          /\ \/ ~Active /\ UNCHANGED faults
             \/ Active /\ \E kind \in FaultKinds \ {"lost"} : Fault(kind)
          /\ UNCHANGED result
    /\ UNCHANGED <<connector, attempt, network, rebalanced>>

\* The GET gets no answer: the exception leaves activate.
CheckLost(c) ==
    /\ phase[c] = "check"
    /\ Fault("lost")
    /\ Return(c, "unreachable")
    /\ UNCHANGED <<connector, attempt, network, rebalanced>>

\* client.post, the next of at most MaxRetries.
Post(c) ==
    /\ phase[c] = "post"
    /\ attempt' = [attempt EXCEPT ![c] = @ + 1]
    /\ requests' = requests \union {<<c, attempt[c] + 1>>}
    /\ phase' = [phase EXCEPT ![c] = "wait"]
    /\ UNCHANGED <<connector, result, answers, fault>>

\* Kafka Connect executes a POST, even one whose caller gave up on it.
Execute(q) ==
    /\ requests' = requests \ {q}
    /\ \/ /\ ~Active
          /\ connector' = "present"
          /\ answers' = answers \union {<<q[1], q[2], 201>>}
          /\ UNCHANGED fault
       \/ /\ Active
          /\ answers' = answers \union {<<q[1], q[2], 409>>}
          /\ UNCHANGED <<connector, fault>>
       \/ /\ Fault("rebalance")
          /\ answers' = answers \union {<<q[1], q[2], 409>>}
          /\ rebalanced' = rebalanced \union {q[1]}
          /\ UNCHANGED connector
       \/ /\ Fault("4xx")      \* an invalid configuration
          /\ answers' = answers \union {<<q[1], q[2], 400>>}
          /\ UNCHANGED <<connector, rebalanced>>
       \/ /\ Fault("5xx")      \* before or after creating it
          /\ answers' = answers \union {<<q[1], q[2], 500>>}
          /\ connector' \in {connector, "present"}
          /\ UNCHANGED rebalanced
    /\ UNCHANGED <<phase, attempt, result>>

\* Mutant of Retry: one attempt too many.
RetryOnceMore(c) ==
    IF attempt[c] <= MaxRetries
    THEN /\ phase' = [phase EXCEPT ![c] = "backoff"]
         /\ UNCHANGED result
    ELSE Return(c, "exhausted")

\* After a retryable error: sleep 2 ** attempt, or give up after the last.
Retry(c) ==
    IF attempt[c] < MaxRetries
    THEN /\ phase' = [phase EXCEPT ![c] = "backoff"]
         /\ UNCHANGED result
    ELSE Return(c, "exhausted")

\* Mutants of Receive: what it makes of each status.
ReceiveAs(c, on409, on500) ==
    /\ phase[c] = "wait"
    /\ \E a \in answers :
          /\ a[1] = c /\ a[2] = attempt[c]
          /\ answers' = answers \ {a}
          /\ CASE a[3] = 201 -> Return(c, "created")
               [] a[3] = 409 -> Return(c, on409)
               [] a[3] = 400 -> Return(c, "rejected")
               [] OTHER -> Return(c, on500)
    /\ UNCHANGED <<connector, attempt, requests, fault>>

\* ... no raise_for_status on a 5xx,
ReceiveTrusts5xx(c) == ReceiveAs(c, "conflict", "created")

\* ... a 409 taken for a success of this call,
ReceiveTrusts409(c) == ReceiveAs(c, "created", "exhausted")

\* ... every error taken for a conflict,
ReceiveAllConflicts(c) == ReceiveAs(c, "conflict", "conflict")

\* ... only a 200 accepted,
ReceiveOnly200(c) ==
    /\ phase[c] = "wait"
    /\ \E a \in answers :
          /\ a[1] = c /\ a[2] = attempt[c]
          /\ answers' = answers \ {a}
    /\ Return(c, "conflict")
    /\ UNCHANGED <<connector, attempt, requests, fault>>

\* ... a 5xx swallowed without a retry.
ReceiveSwallows5xx(c) ==
    /\ phase[c] = "wait"
    /\ \E a \in answers :
          /\ a[1] = c /\ a[2] = attempt[c]
          /\ answers' = answers \ {a}
          /\ CASE a[3] = 201 -> Return(c, "created")
               [] a[3] = 409 -> Return(c, "conflict")
               [] a[3] = 400 -> Return(c, "rejected")
               [] OTHER -> UNCHANGED <<phase, result>>
    /\ UNCHANGED <<connector, attempt, requests, fault>>

\* The caller reads the answer to the POST it waits for: raise_for_status
\* retries a 5xx and raises any 4xx, a 409 among them.
Receive(c) ==
    /\ phase[c] = "wait"
    /\ \E a \in answers :
          /\ a[1] = c /\ a[2] = attempt[c]
          /\ answers' = answers \ {a}
          /\ CASE a[3] = 201 -> Return(c, "created")
               [] a[3] = 409 -> Return(c, "conflict")
               [] a[3] = 400 -> Return(c, "rejected")
               [] OTHER -> Retry(c)
    /\ UNCHANGED <<connector, attempt, requests, fault>>

\* httpx.RequestError: no answer in time.  The POST may be executed yet.
PostLost(c) ==
    /\ phase[c] = "wait"
    /\ Fault("lost")
    /\ Retry(c)
    /\ UNCHANGED <<connector, attempt, network, rebalanced>>

\* The request is lost before it reaches Kafka Connect.
DropRequest(q) ==
    /\ q \in requests
    /\ q[2] < attempt[q[1]] \/ phase[q[1]] # "wait"
    /\ requests' = requests \ {q}
    /\ UNCHANGED <<connector, phase, attempt, result, answers, fault>>

WakeUp(c) ==
    /\ phase[c] = "backoff"
    /\ phase' = [phase EXCEPT ![c] = "post"]
    /\ UNCHANGED <<connector, attempt, result, network, fault>>

Activate(c) ==
    CheckExists(c) \/ CheckLost(c) \/ Post(c) \/ Receive(c) \/ PostLost(c)
        \/ WakeUp(c)

ActivationNext ==
    \/ \E c \in Callers : Activate(c)
    \/ \E q \in requests : Execute(q) \/ DropRequest(q)

\* Callers run, and a POST reaches Kafka Connect or is given up on.
ActivationSpec == ActivationInit /\ [][ActivationNext]_vars
FairActivationSpec ==
    /\ ActivationSpec
    /\ \A c \in Callers : WF_vars(Activate(c))
    /\ WF_vars(\E q \in requests : Execute(q))

-----------------------------------------------------------------------------
(* Properties.                                                             *)

Succeeded(c) == result[c] \in {"already_active", "created"}

\* However many callers race and however often they retry, at most one of
\* them is told that it created the connector.
OneCreator ==
    Cardinality({c \in Callers : result[c] = "created"}) <= 1

\* Unless Kafka Connect answered one of its POSTs in a rebalance, a 409 that
\* activate raises means the table is being captured: a false alarm, also
\* when it answers a retry of a POST that was executed after all.
ConflictMeansActive ==
    \A c \in Callers :
        (result[c] = "conflict" /\ c \notin rebalanced) => Active

\* Every activation ends.
AllReturn == \A c \in Callers : <>(phase[c] = "done")

\* When every activation is over and nothing failed at the network or in
\* Kafka Connect, a caller that was refused has lost to one that was told it
\* created the connector: the losers of a race get a 409, never all of them.
SomeoneSucceeds ==
    (faults = 0 /\ \A c \in Callers : phase[c] = "done") =>
        \A c \in Callers :
            Succeeded(c) \/ \E d \in Callers : result[d] = "created"

\* Seen from outside, any number of racing, retrying and failing calls is the
\* one promise the portal and the data source agent rely on.
Promise == INSTANCE ConnectorPromise WITH
    exists <- Active,
    asked <- \E c \in Callers : attempt[c] > 0,
    reported <- \E c \in Callers : Succeeded(c)

ImplementsPromise == Promise!PromiseSpec
=============================================================================
