---------------------- MODULE ConnectorActivation_proofs ----------------------
(***************************************************************************)
(* Proofs about the activation of one connector, for any number of         *)
(* callers, retries and faults.                                            *)
(*                                                                         *)
(* The invariant follows the answer 201 as a token: Kafka Connect hands it *)
(* out at most once, since it creates the connector when it does and never *)
(* removes it; it then lies among the answers or with the one caller that  *)
(* was told "created".                                                     *)
(***************************************************************************)
EXTENDS ConnectorActivation, FiniteSetTheorems, TLAPS

\* The holders of the token: there is at most one, and none before the
\* connector exists.
Token ==
    /\ \A a, b \in answers : a[3] = 201 /\ b[3] = 201 => a = b
    /\ \A c, d \in Callers :
          result[c] = "created" /\ result[d] = "created" => c = d
    /\ \A a \in answers, c \in Callers : a[3] = 201 => result[c] # "created"
    /\ \A a \in answers : a[3] = 201 => Active

\* A 409 is only ever the answer of a Kafka Connect that has the connector,
\* or was rebalancing.
Honest409 ==
    \A a \in answers : a[3] = 409 => Active \/ a[1] \in rebalanced

\* A request was sent by somebody.
Sent ==
    \A q \in requests : attempt[q[1]] > 0

\* A caller that is about to POST has an attempt left, one that waits has sent one.
AttemptsLeft ==
    \A c \in Callers :
        /\ phase[c] = "check" => attempt[c] = 0
        /\ phase[c] \in {"post", "backoff"} => attempt[c] < MaxRetries
        /\ phase[c] = "wait" => attempt[c] > 0

\* A call that is not over has no result.
Pending ==
    \A c \in Callers : phase[c] # "done" => result[c] = "none"

\* activate returns normally only when the connector exists.
SuccessMeansActive == \A c \in Callers : Succeeded(c) => Active

ActivationInv ==
    /\ TypeOK
    /\ Pending
    /\ AttemptsLeft
    /\ Token
    /\ Honest409
    /\ Sent
    /\ SuccessMeansActive
    /\ ConflictMeansActive

\* ActivationInv holds before anybody calls activate.
LEMMA ActivationInvInit == ActivationInit => ActivationInv
<1> SUFFICES ASSUME ActivationInit PROVE ActivationInv
  OBVIOUS
<1> USE ActivationConstants DEF ActivationInit
<1>1. TypeOK
  <2>1. connector \in {"absent", "present"}
    OBVIOUS
  <2>2. /\ phase \in [Callers -> {"check", "post", "wait", "backoff", "done"}]
        /\ attempt \in [Callers -> 0..MaxRetries]
        /\ result \in [Callers -> Results]
    BY DEF Results
  <2>3. faults \in 0..MaxFaults
    OBVIOUS
  <2> QED BY <2>1, <2>2, <2>3 DEF TypeOK
<1>2. AttemptsLeft /\ Token /\ Honest409 /\ Sent /\ Pending
  BY DEF AttemptsLeft, Token, Honest409, Sent, Pending
<1>3. SuccessMeansActive /\ ConflictMeansActive
  BY DEF SuccessMeansActive, ConflictMeansActive, Succeeded, Active
<1> QED BY <1>1, <1>2, <1>3 DEF ActivationInv

\* Kafka Connect answers one POST.
LEMMA ExecuteStep ==
    ASSUME ActivationInv, NEW q \in requests, Execute(q) PROVE ActivationInv'
<1> USE ActivationConstants DEF ActivationInv
<1>1. /\ UNCHANGED <<phase, attempt, result>> /\ requests' = requests \ {q}
      /\ connector' \in {connector, "present"}
      /\ faults' \in 0..MaxFaults
      /\ rebalanced' \in {rebalanced, rebalanced \union {q[1]}}
  BY DEF Execute, Fault, TypeOK, fault
<1>2. PICK s \in Statuses :
         /\ answers' = answers \union {<<q[1], q[2], s>>}
         /\ s = 201 => ~Active /\ Active'
         /\ s = 409 => Active' \/ q[1] \in rebalanced'
  BY DEF Execute, Fault, Statuses, Active
<1>0. Active => Active'
  BY <1>1 DEF Active
<1> DEFINE new == <<q[1], q[2], s>>
<1>3. new \in Callers \X (1..MaxRetries) \X Statuses /\ new[3] = s
  BY DEF TypeOK
<1> HIDE DEF new
<1>4. TypeOK' /\ AttemptsLeft' /\ Pending'
  <2>1. answers' \subseteq Callers \X (1..MaxRetries) \X Statuses
    BY <1>2, <1>3 DEF TypeOK, new
  <2>2. rebalanced' \subseteq Callers
    BY <1>1 DEF TypeOK
  <2> QED BY <1>1, <2>1, <2>2 DEF TypeOK, AttemptsLeft, Pending
<1>5. \A a \in answers' : a = new \/ a \in answers
  BY <1>2 DEF new
<1>6. \A a \in answers' : a[3] = 201 => Active'
  BY <1>0, <1>2, <1>3, <1>5 DEF Token
<1>7. Token'
  <2>1. \A a \in answers : s = 201 => a[3] # 201
    BY <1>2 DEF Token
  <2>2. \A c \in Callers : s = 201 => result[c] # "created"
    BY <1>2 DEF SuccessMeansActive, Succeeded, Active
  <2>3. \A a, b \in answers' : a[3] = 201 /\ b[3] = 201 => a = b
    BY <1>3, <1>5, <2>1 DEF Token
  <2>4. \A a \in answers', c \in Callers : a[3] = 201 => result'[c] # "created"
    BY <1>1, <1>3, <1>5, <2>2 DEF Token
  <2> QED BY <1>1, <1>6, <2>3, <2>4 DEF Token
<1>8. Honest409' /\ Sent'
  <2>1. new[1] = q[1]
    BY DEF new
  <2> QED BY <1>0, <1>1, <1>2, <1>3, <1>5, <2>1 DEF Honest409, Sent
<1>9. SuccessMeansActive' /\ ConflictMeansActive'
  BY <1>0, <1>1 DEF SuccessMeansActive, ConflictMeansActive, Succeeded, Active
<1> QED BY <1>4, <1>7, <1>8, <1>9

\* A caller returns from activate; the answer `a` it read is consumed.
LEMMA ReceiveStep ==
    ASSUME ActivationInv, NEW c \in Callers, Receive(c) PROVE ActivationInv'
<1> USE ActivationConstants DEF ActivationInv
<1>1. PICK a \in answers :
         /\ a[1] = c /\ a[2] = attempt[c]
         /\ answers' = answers \ {a}
         /\ \/ a[3] = 201 /\ Return(c, "created")
            \/ a[3] = 409 /\ Return(c, "conflict")
            \/ a[3] = 400 /\ Return(c, "rejected")
            \/ a[3] \notin {201, 400, 409} /\ Retry(c)
  BY DEF Receive
<1>2. UNCHANGED <<connector, attempt, requests, fault>> /\ phase[c] = "wait"
  BY DEF Receive
<1>3. TypeOK' /\ AttemptsLeft' /\ Pending'
  BY <1>1, <1>2 DEF TypeOK, AttemptsLeft, Pending, Return, Retry, Results, fault
<1>4. CASE a[3] = 201
  <2>1. result' = [result EXCEPT ![c] = "created"] /\ Active
    BY <1>1, <1>4 DEF Return, Token
  <2>2. \A d \in Callers : result[d] # "created"
    BY <1>1, <1>4 DEF Token
  <2>3. \A b \in answers' : b[3] # 201
    BY <1>1, <1>4 DEF Token
  <2>4. Token'
    BY <1>2, <2>1, <2>2, <2>3 DEF Token, TypeOK
  <2> QED BY <1>1, <1>2, <1>3, <2>1, <2>4
          DEF TypeOK, Honest409, Sent, SuccessMeansActive, ConflictMeansActive,
              Succeeded, Active, fault
<1>5. CASE a[3] = 409
  <2>1. result' = [result EXCEPT ![c] = "conflict"]
    BY <1>1, <1>5 DEF Return
  <2>2. Active \/ c \in rebalanced
    BY <1>1, <1>5 DEF Honest409
  <2> QED BY <1>1, <1>2, <1>3, <2>1, <2>2
          DEF TypeOK, Token, Honest409, Sent, SuccessMeansActive,
              ConflictMeansActive, Succeeded, Active, fault
<1>6. CASE a[3] \notin {201, 409}
  <2>1. \/ UNCHANGED result
        \/ \E r \in {"rejected", "exhausted"} : result' = [result EXCEPT ![c] = r]
    BY <1>1, <1>6 DEF Retry, Return
  <2> QED BY <1>1, <1>2, <1>3, <2>1
          DEF TypeOK, Token, Honest409, Sent, SuccessMeansActive,
              ConflictMeansActive, Succeeded, Active, fault
<1> QED BY <1>4, <1>5, <1>6

\* Everything else hands out no answer and no success without a connector.
LEMMA OtherSteps ==
    ASSUME ActivationInv, NEW c \in Callers,
           CheckExists(c) \/ CheckLost(c) \/ Post(c) \/ PostLost(c) \/ WakeUp(c)
    PROVE  ActivationInv'
<1> USE ActivationConstants DEF ActivationInv
<1>1. UNCHANGED <<connector, answers, rebalanced>> /\ faults' \in 0..MaxFaults
  BY DEF CheckExists, CheckLost, Post, PostLost, WakeUp, Fault, TypeOK,
     network, fault
<1>2. \/ UNCHANGED result
      \/ \E r \in {"already_active", "unreachable", "exhausted"} :
            /\ result' = [result EXCEPT ![c] = r]
            /\ r = "already_active" => Active
  BY DEF CheckExists, CheckLost, Post, PostLost, WakeUp, Return, Retry
<1>3. TypeOK' /\ AttemptsLeft' /\ Pending'
  <2>1. CASE CheckExists(c) \/ CheckLost(c) \/ PostLost(c) \/ WakeUp(c)
    BY <1>1, <2>1 DEF CheckExists, CheckLost, PostLost, WakeUp, Return, Retry,
       TypeOK, AttemptsLeft, Pending, Results, network
  <2>2. CASE Post(c)
    <3>1. attempt[c] + 1 \in 1..MaxRetries
      BY <2>2 DEF Post, TypeOK, AttemptsLeft
    <3> QED BY <1>1, <2>2, <3>1 DEF Post, TypeOK, AttemptsLeft, Pending
  <2> QED BY <2>1, <2>2
<1>4. Token' /\ Honest409'
  BY <1>1, <1>2 DEF TypeOK, Token, Honest409, Active
<1>6. Sent'
  <2>1. CASE Post(c)
    BY <2>1 DEF Post, TypeOK, Sent
  <2>2. CASE ~Post(c)
    <3>1. UNCHANGED <<attempt, requests>>
      BY <2>2 DEF CheckExists, CheckLost, PostLost, WakeUp, network
    <3> QED BY <3>1 DEF Sent
  <2> QED BY <2>1, <2>2
<1>5. SuccessMeansActive' /\ ConflictMeansActive'
  BY <1>1, <1>2 DEF TypeOK, SuccessMeansActive, ConflictMeansActive, Succeeded, Active
<1> QED BY <1>3, <1>4, <1>5, <1>6

\* ActivationInv is inductive: the one token is created with the connector,
\* travels in its 201 and ends as the result of the caller that reads it.
THEOREM ActivationInvInductive ==
    ASSUME ActivationInv, [ActivationNext]_vars PROVE ActivationInv'
<1>1. ASSUME NEW c \in Callers, Activate(c) PROVE ActivationInv'
  BY <1>1, ReceiveStep, OtherSteps DEF Activate
<1>2. ASSUME NEW q \in requests, DropRequest(q) PROVE ActivationInv'
  BY <1>2 DEF DropRequest, ActivationInv, TypeOK, AttemptsLeft, Token, Honest409,
     Sent, Pending, fault, SuccessMeansActive, ConflictMeansActive, Succeeded, Active
<1>3. CASE UNCHANGED vars
  BY <1>3 DEF vars, ActivationInv, TypeOK, AttemptsLeft, Token, Honest409,
     Sent, Pending, fault, SuccessMeansActive, ConflictMeansActive, Succeeded, Active
<1> QED BY <1>1, <1>2, <1>3, ExecuteStep DEF ActivationNext

\* ActivationInv holds in every reachable state, for every number of callers,
\* retries and faults.
THEOREM ActivationInvariance == ActivationSpec => []ActivationInv
<1>1. ActivationInit => ActivationInv
  BY ActivationInvInit
<1>2. ActivationInv /\ [ActivationNext]_vars => ActivationInv'
  BY ActivationInvInductive
<1> QED BY <1>1, <1>2, PTL DEF ActivationSpec

-----------------------------------------------------------------------------
(* What follows from the invariant.                                        *)

\* Types, the bound on attempts included: POSTs are never more than MaxRetries.
THEOREM ActivationTypes == ActivationSpec => []TypeOK
<1>1. ActivationInv => TypeOK
  BY DEF ActivationInv
<1> QED BY <1>1, ActivationInvariance, PTL

\* A caller that is told of success has a connector.
THEOREM SuccessIsReal == ActivationSpec => []SuccessMeansActive
<1>1. ActivationInv => SuccessMeansActive
  BY DEF ActivationInv
<1> QED BY <1>1, ActivationInvariance, PTL

\* At most one caller is told that it created the connector.
THEOREM OnlyOneCreates == ActivationSpec => []OneCreator
<1>1. ActivationInv => OneCreator
  <2> DEFINE creators == {c \in Callers : result[c] = "created"}
  <2> SUFFICES ASSUME ActivationInv PROVE Cardinality(creators) <= 1
    BY DEF OneCreator
  <2>1. \A c, d \in creators : c = d
    BY DEF ActivationInv, Token
  <2>2. creators = {} \/ \E c \in creators : creators = {c}
    BY <2>1
  <2> HIDE DEF creators
  <2>3. CASE creators = {}
    BY <2>3, FS_EmptySet
  <2>4. ASSUME NEW c \in creators, creators = {c} PROVE Cardinality(creators) <= 1
    BY <2>4, FS_Singleton
  <2> QED BY <2>2, <2>3, <2>4
<1> QED BY <1>1, ActivationInvariance, PTL

\* Whoever raises a 409 that no rebalance explains raises a false alarm.
THEOREM ConflictIsFalseAlarm == ActivationSpec => []ConflictMeansActive
<1>1. ActivationInv => ConflictMeansActive
  BY DEF ActivationInv
<1> QED BY <1>1, ActivationInvariance, PTL

-----------------------------------------------------------------------------
(* As long as nothing failed.                                              *)

\* Every message belongs to the POST its caller waits for, one message per
\* caller; no answer is a 500; and the connector, once it is there, was
\* announced by a 201 that is on its way or was read.
Undisturbed ==
    /\ \A q \in requests : phase[q[1]] = "wait" /\ q[2] = attempt[q[1]]
    /\ \A a \in answers :
          /\ phase[a[1]] = "wait" /\ a[2] = attempt[a[1]]
          /\ a[3] \in {201, 409}
    /\ \A q \in requests, a \in answers : q[1] # a[1]
    /\ \A a, b \in answers : a[1] = b[1] => a = b
    /\ \A a \in answers : a[3] = 409 => Active
    /\ Active => \/ \E a \in answers : a[3] = 201
                 \/ \E c \in Callers : result[c] = "created"
    /\ \A c \in Callers :
          IF phase[c] = "done"
          THEN Succeeded(c) \/ (result[c] = "conflict" /\ Active)
          ELSE result[c] = "none"

UndisturbedInv == ActivationInv /\ (faults = 0 => Undisturbed)

\* A step without a fault keeps it, and a fault is never undone.
LEMMA UndisturbedStep ==
    ASSUME UndisturbedInv, [ActivationNext]_vars PROVE UndisturbedInv'
<1> SUFFICES ASSUME faults' = 0 PROVE Undisturbed'
  BY ActivationInvInductive DEF UndisturbedInv
<1> USE DEF UndisturbedInv, ActivationInv
<1>1. faults = 0 /\ \A kind : ~Fault(kind)
  BY DEF ActivationNext, Activate, CheckExists, CheckLost, Post, Receive, PostLost,
     WakeUp, Execute, DropRequest, Fault, vars, TypeOK, fault
<1>2. Undisturbed
  BY <1>1
<1>3. ASSUME NEW c \in Callers, CheckExists(c) \/ WakeUp(c) PROVE Undisturbed'
  <2>1. /\ UNCHANGED <<connector, attempt, requests, answers>>
        /\ phase[c] \in {"check", "backoff"}
        /\ \/ phase' = [phase EXCEPT ![c] = "post"] /\ UNCHANGED result
           \/ /\ phase' = [phase EXCEPT ![c] = "done"]
              /\ result' = [result EXCEPT ![c] = "already_active"]
    BY <1>3 DEF CheckExists, WakeUp, Return, network
  <2>2. CASE phase' = [phase EXCEPT ![c] = "post"] /\ UNCHANGED result
    BY <1>2, <2>1, <2>2 DEF Undisturbed, TypeOK, Active, Succeeded
  <2>3. CASE /\ phase' = [phase EXCEPT ![c] = "done"]
             /\ result' = [result EXCEPT ![c] = "already_active"]
    <3>1. result[c] # "created"
      BY <1>2, <2>1 DEF Undisturbed
    <3> QED BY <1>2, <2>1, <2>3, <3>1 DEF Undisturbed, TypeOK, Active, Succeeded
  <2> QED BY <2>1, <2>2, <2>3
<1>4. ASSUME NEW c \in Callers, Post(c) PROVE Undisturbed'
  BY <1>1, <1>2, <1>4 DEF Post, Undisturbed, TypeOK, Active, Succeeded
<1>5. ASSUME NEW c \in Callers, Receive(c) PROVE Undisturbed'
  <2>1. PICK a \in answers :
           /\ a[1] = c /\ answers' = answers \ {a}
           /\ phase' = [phase EXCEPT ![c] = "done"]
           /\ \/ a[3] = 201 /\ result' = [result EXCEPT ![c] = "created"]
              \/ a[3] = 409 /\ result' = [result EXCEPT ![c] = "conflict"]
    BY <1>2, <1>5 DEF Receive, Return, Undisturbed
  <2>2. UNCHANGED <<connector, attempt, requests>> /\ phase[c] = "wait"
    BY <1>5 DEF Receive
  <2>3. \A b \in answers' : b[1] # c
    BY <1>2, <2>1 DEF Undisturbed
  <2>4. \A q \in requests' : q[1] # c
    BY <1>2, <2>1, <2>2 DEF Undisturbed
  <2>5. CASE a[3] = 201
    <3>1. result' = [result EXCEPT ![c] = "created"] /\ Active
      BY <2>1, <2>5 DEF Token
    <3> QED BY <1>2, <2>1, <2>2, <2>3, <2>4, <3>1
            DEF Undisturbed, TypeOK, Active, Succeeded
  <2>6. CASE a[3] = 409
    <3>1. result' = [result EXCEPT ![c] = "conflict"] /\ Active
      BY <1>2, <2>1, <2>6 DEF Undisturbed
    <3>2. result[c] # "created"
      BY <1>2, <2>2 DEF Undisturbed
    <3> QED BY <1>2, <2>1, <2>2, <2>3, <2>4, <2>6, <3>1, <3>2
            DEF Undisturbed, TypeOK, Active, Succeeded
  <2> QED BY <2>1, <2>5, <2>6
<1>6. ASSUME NEW q \in requests, Execute(q) PROVE Undisturbed'
  <2>1. PICK s \in {201, 409} :
           /\ answers' = answers \union {<<q[1], q[2], s>>}
           /\ s = 201 => Active'
           /\ s = 409 => Active /\ Active'
           /\ ~Active /\ Active' => s = 201
    BY <1>1, <1>6 DEF Execute, Active
  <2>2. UNCHANGED <<phase, attempt, result>> /\ requests' = requests \ {q}
    BY <1>6 DEF Execute
  <2> DEFINE new == <<q[1], q[2], s>>
  <2>3. new[1] = q[1] /\ new[2] = q[2] /\ new[3] = s /\ new \in answers'
    BY <2>1
  <2>4. \A a \in answers' : a = new \/ a \in answers
    BY <2>1
  <2> HIDE DEF new
  <2>5. \A r \in requests' : r[1] # q[1]
    <3>1. ASSUME NEW r \in requests, r[1] = q[1] PROVE r = q
      <4>1. r[2] = q[2]
        BY <1>2, <3>1 DEF Undisturbed
      <4> QED BY <3>1, <4>1 DEF TypeOK
    <3> QED BY <2>2, <3>1
  <2>6. Active => Active'
    BY <2>1
  <2> QED BY <1>2, <2>1, <2>2, <2>3, <2>4, <2>5, <2>6 DEF Undisturbed, Succeeded
<1>7. ASSUME NEW q \in requests, DropRequest(q) PROVE Undisturbed'
  BY <1>1, <1>2, <1>7 DEF DropRequest, Undisturbed, TypeOK, Active, Succeeded
<1>8. CASE UNCHANGED vars
  BY <1>1, <1>2, <1>8 DEF vars, Undisturbed, Active, Succeeded
<1> QED
  BY <1>1, <1>3, <1>4, <1>5, <1>6, <1>7, <1>8
     DEF ActivationNext, Activate, CheckLost, PostLost

\* In a race in which nothing fails, whoever is refused has lost to the caller
\* that was told it created the connector.
THEOREM RaceHasAWinner == ActivationSpec => []SomeoneSucceeds
<1>1. ActivationInit => UndisturbedInv
  BY ActivationInvInit DEF ActivationInit, UndisturbedInv, Undisturbed, Active
<1>2. UndisturbedInv /\ [ActivationNext]_vars => UndisturbedInv'
  BY UndisturbedStep
<1>3. UndisturbedInv => SomeoneSucceeds
  <2> SUFFICES ASSUME UndisturbedInv, faults = 0,
                      \A c \in Callers : phase[c] = "done",
                      NEW c \in Callers
               PROVE  Succeeded(c) \/ \E d \in Callers : result[d] = "created"
    BY DEF SomeoneSucceeds
  <2>1. \A a \in answers : a[1] \in Callers
    BY DEF UndisturbedInv, ActivationInv, TypeOK
  <2>2. answers = {}
    BY <2>1 DEF UndisturbedInv, Undisturbed
  <2> QED BY <2>2 DEF UndisturbedInv, Undisturbed
<1> QED BY <1>1, <1>2, <1>3, PTL DEF ActivationSpec

-----------------------------------------------------------------------------
(* The promise.                                                            *)

\* Every step of callers and Kafka Connect is a step of the promise.
LEMMA PromiseStep ==
    ASSUME ActivationInv, ActivationInv', [ActivationNext]_vars
    PROVE  [Promise!Ask \/ Promise!Create \/ Promise!ReportSuccess]_(Promise!vars)
<1> USE DEF Promise!Ask, Promise!Create, Promise!ReportSuccess, Promise!vars
<1> DEFINE asked == \E c \in Callers : attempt[c] > 0
           reported == \E c \in Callers : Succeeded(c)
<1> SUFFICES \/ asked' /\ UNCHANGED <<Active, reported>>
             \/ asked /\ Active' /\ UNCHANGED <<asked, reported>>
             \/ Active /\ reported' /\ UNCHANGED <<Active, asked>>
             \/ UNCHANGED <<Active, asked, reported>>
  OBVIOUS
<1>1. ASSUME NEW c \in Callers, Activate(c)
      PROVE  \/ asked' /\ UNCHANGED <<Active, reported>>
             \/ Active /\ reported' /\ UNCHANGED <<Active, asked>>
             \/ UNCHANGED <<Active, asked, reported>>
  <2>1. CASE Post(c)
    <3>1. asked'
      BY <2>1 DEF Post, ActivationInv, TypeOK
    <3>2. UNCHANGED <<connector, result>>
      BY <2>1 DEF Post
    <3>3. UNCHANGED Active /\ UNCHANGED reported
      BY <3>2 DEF Active, Succeeded
    <3> QED BY <3>1, <3>3
  <2>2. CASE ~Post(c)
    <3>1. UNCHANGED <<connector, attempt>>
      BY <1>1, <2>2 DEF Activate, CheckExists, CheckLost, Receive, PostLost, WakeUp
    <3>2. UNCHANGED Active /\ UNCHANGED asked
      BY <3>1 DEF Active
    <3>3. reported => reported'
      <4>1. \A d \in Callers : d # c => result'[d] = result[d]
        BY <1>1, <2>2 DEF Activate, CheckExists, CheckLost, Receive, PostLost,
           WakeUp, Retry, Return, ActivationInv, TypeOK
      <4>2. Succeeded(c) => Succeeded(c)'
        <5>1. \/ UNCHANGED result
              \/ phase[c] \in {"check", "wait"}
          BY <1>1, <2>2 DEF Activate, CheckExists, CheckLost, Receive, PostLost, WakeUp
        <5>2. phase[c] \in {"check", "wait"} => ~Succeeded(c)
          BY DEF ActivationInv, Pending, Succeeded
        <5> QED BY <5>1, <5>2 DEF Succeeded
      <4> QED BY <4>1, <4>2 DEF Succeeded
    <3>4. reported' => Active
      BY <3>1 DEF ActivationInv, SuccessMeansActive, Active
    <3> QED BY <3>2, <3>3, <3>4
  <2> QED BY <2>1, <2>2
<1>2. ASSUME NEW q \in requests, Execute(q)
      PROVE  \/ asked /\ Active' /\ UNCHANGED <<asked, reported>>
             \/ UNCHANGED <<Active, asked, reported>>
  <2>1. asked
    BY DEF ActivationInv, TypeOK, Sent
  <2>2. UNCHANGED <<attempt, result>>
    BY <1>2 DEF Execute
  <2>3. UNCHANGED asked /\ UNCHANGED reported
    BY <2>2 DEF Succeeded
  <2>4. Active' \/ UNCHANGED Active
    BY <1>2 DEF Execute, Active
  <2> QED BY <2>1, <2>3, <2>4
<1>3. CASE UNCHANGED vars \/ \E q \in requests : DropRequest(q)
  <2>1. UNCHANGED <<connector, attempt, result>>
    BY <1>3 DEF vars, DropRequest
  <2> QED BY <2>1 DEF Active, Succeeded
<1> QED BY <1>1, <1>2, <1>3 DEF ActivationNext

\* The calls of activate implement ConnectorPromise, which is what the models
\* of the portal and of the data source agent use in their place.
THEOREM ActivationKeepsPromise == ActivationSpec => ImplementsPromise
<1>1. ActivationInit => Promise!PromiseInit
  BY DEF ActivationInit, Promise!PromiseInit, Active, Succeeded
<1>2. ActivationInv /\ ActivationInv' /\ [ActivationNext]_vars
        => [Promise!Ask \/ Promise!Create \/ Promise!ReportSuccess]_(Promise!vars)
  BY PromiseStep
<1> QED
  BY <1>1, <1>2, ActivationInvariance, PTL
     DEF ActivationSpec, ImplementsPromise, Promise!PromiseSpec

-----------------------------------------------------------------------------
(* A call is short: the half of AllReturn that needs no fairness.          *)

\* Steps caller `c` may still take: three per POST that is left, the one it
\* waits for included.
StepsLeft(c) ==
    CASE phase[c] = "check" -> 3 * MaxRetries + 1
      [] phase[c] = "post" -> 3 * (MaxRetries - attempt[c])
      [] phase[c] = "wait" -> 3 * (MaxRetries - attempt[c]) + 2
      [] phase[c] = "backoff" -> 3 * (MaxRetries - attempt[c]) + 1
      [] OTHER -> 0

\* There are never more than at the check, and none only after the return.
LEMMA StepsLeftType ==
    ActivationInv =>
        \A c \in Callers :
            /\ StepsLeft(c) \in 0..(3 * MaxRetries + 1)
            /\ phase[c] # "done" => StepsLeft(c) > 0
<1> SUFFICES ASSUME ActivationInv, NEW c \in Callers
             PROVE  /\ StepsLeft(c) \in 0..(3 * MaxRetries + 1)
                    /\ phase[c] # "done" => StepsLeft(c) > 0
  OBVIOUS
<1>1. /\ phase[c] \in {"check", "post", "wait", "backoff", "done"}
      /\ attempt[c] \in 0..MaxRetries /\ MaxRetries \in Nat \ {0}
      /\ phase[c] \in {"post", "backoff"} => attempt[c] < MaxRetries
      /\ phase[c] = "wait" => attempt[c] > 0
  BY ActivationConstants DEF ActivationInv, TypeOK, AttemptsLeft
<1>2. PICK k \in 0..MaxRetries : k = attempt[c]
  BY <1>1
<1> QED BY <1>1, <1>2 DEF StepsLeft

\* A step of a caller leaves it less to do, and the others as much.
LEMMA CallerCountsDown ==
    ASSUME ActivationInv, NEW c \in Callers, Activate(c)
    PROVE  /\ StepsLeft(c)' < StepsLeft(c)
           /\ \A d \in Callers \ {c} : StepsLeft(d)' = StepsLeft(d)
<1> USE ActivationConstants
<1>1. /\ phase[c] \in {"check", "post", "wait", "backoff", "done"}
      /\ attempt[c] \in 0..MaxRetries /\ MaxRetries \in Nat \ {0}
      /\ phase[c] = "check" => attempt[c] = 0
      /\ phase[c] \in {"post", "backoff"} => attempt[c] < MaxRetries
      /\ phase \in [Callers -> {"check", "post", "wait", "backoff", "done"}]
      /\ attempt \in [Callers -> 0..MaxRetries]
  BY DEF ActivationInv, TypeOK, AttemptsLeft
<1>2. PICK k \in Nat : k = attempt[c]
  BY <1>1
<1>3. ASSUME NEW d \in Callers \ {c} PROVE StepsLeft(d)' = StepsLeft(d)
  <2>1. phase'[d] = phase[d] /\ attempt'[d] = attempt[d]
    BY <1>1, <1>3 DEF Activate, CheckExists, CheckLost, Post, Receive, PostLost,
       WakeUp, Retry, Return
  <2> QED BY <2>1 DEF StepsLeft
<1>4. CASE CheckExists(c) \/ CheckLost(c)
  <2>1. phase[c] = "check" /\ phase'[c] \in {"post", "done"} /\ attempt'[c] = 0 /\ k = 0
    BY <1>1, <1>2, <1>4 DEF CheckExists, CheckLost, Return
  <2> QED BY <1>1, <1>2, <1>3, <2>1 DEF StepsLeft
<1>5. CASE Post(c)
  <2>1. phase[c] = "post" /\ phase'[c] = "wait" /\ attempt'[c] = k + 1 /\ k < MaxRetries
    BY <1>1, <1>2, <1>5 DEF Post
  <2> QED BY <1>1, <1>2, <1>3, <2>1 DEF StepsLeft
<1>6. CASE Receive(c) \/ PostLost(c)
  <2>1. /\ phase[c] = "wait" /\ attempt'[c] = k /\ k <= MaxRetries
        /\ phase'[c] \in {"done", "backoff"}
    BY <1>1, <1>2, <1>6 DEF Receive, PostLost, Retry, Return
  <2> QED BY <1>1, <1>2, <1>3, <2>1 DEF StepsLeft
<1>7. CASE WakeUp(c)
  <2>1. phase[c] = "backoff" /\ phase'[c] = "post" /\ attempt'[c] = k /\ k < MaxRetries
    BY <1>1, <1>2, <1>7 DEF WakeUp
  <2> QED BY <1>1, <1>2, <1>3, <2>1 DEF StepsLeft
<1> QED BY <1>4, <1>5, <1>6, <1>7 DEF Activate

\* From its check on a call takes at most 3 * MaxRetries + 1 steps, whatever
\* Kafka Connect answers, however many callers there are: no answer sends it
\* back to its check, and a retry uses up an attempt.
THEOREM CallIsShort ==
    ActivationSpec =>
        /\ [](\A c \in Callers :
                 /\ StepsLeft(c) \in 0..(3 * MaxRetries + 1)
                 /\ phase[c] # "done" => StepsLeft(c) > 0)
        /\ [][\A c \in Callers :
                 /\ Activate(c) => StepsLeft(c)' < StepsLeft(c)
                 /\ StepsLeft(c)' <= StepsLeft(c)]_vars
<1> DEFINE Counted == \A c \in Callers :
              /\ StepsLeft(c) \in 0..(3 * MaxRetries + 1)
              /\ phase[c] # "done" => StepsLeft(c) > 0
           Down == \A c \in Callers :
              /\ Activate(c) => StepsLeft(c)' < StepsLeft(c)
              /\ StepsLeft(c)' <= StepsLeft(c)
<1>1. ActivationInv => Counted
  BY StepsLeftType
<1>2. ActivationInv /\ Counted' /\ [ActivationNext]_vars => [Down]_vars
  <2> SUFFICES ASSUME ActivationInv, Counted', ActivationNext, NEW c \in Callers
               PROVE  /\ Activate(c) => StepsLeft(c)' < StepsLeft(c)
                      /\ StepsLeft(c)' <= StepsLeft(c)
    OBVIOUS
  <2>1. StepsLeft(c) \in Nat /\ StepsLeft(c)' \in Nat
    BY <1>1
  <2>2. Activate(c) => StepsLeft(c)' < StepsLeft(c)
    BY CallerCountsDown
  <2>3. ASSUME NEW d \in Callers \ {c}, Activate(d)
        PROVE  StepsLeft(c)' = StepsLeft(c)
    BY <2>3, CallerCountsDown
  <2>4. ASSUME NEW q \in requests, Execute(q) \/ DropRequest(q)
        PROVE  StepsLeft(c)' = StepsLeft(c)
    BY <2>4 DEF Execute, DropRequest, StepsLeft
  <2> HIDE DEF Counted
  <2> QED BY <2>1, <2>2, <2>3, <2>4 DEF ActivationNext
<1> QED BY <1>1, <1>2, ActivationInvariance, PTL DEF ActivationSpec
=============================================================================
