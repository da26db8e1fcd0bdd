----------------------- MODULE ActionExecutionProofs -----------------------
(***************************************************************************)
(* Safety of ActionExecution, and its refinement of ExecutionLedger, for   *)
(* any number of requests, keys and executors, whichever of them may die.  *)
(***************************************************************************)
EXTENDS ActionExecution, TLAPS

(* Between claim and settlement an executor works on a row of the table.     *)
Owns(x) == executor[x].pc \in {"start", "call", "settle", "recover"}

CarriesItsWork(x) ==
  /\ executor[x].pc # "idle" =>
       executor[x].request \in Requests /\ executor[x].key \in Keys
  /\ Owns(x) \/ executor[x].pc = "answer" =>
       executor[x].execution \in Executions /\ Exists(executor[x].execution)
  /\ executor[x].pc = "settle" => executor[x].result \in Outcomes

TypeInv ==
  /\ TypeOK
  /\ \A x \in Executors : CarriesItsWork(x)

-----------------------------------------------------------------------------
(* The steps, sorted by what they write.  A step of the first kind leaves    *)
(* the database and the adapter alone, and owns nothing afterwards.          *)
Bystander(x) ==
  \/ \E r \in Requests, k \in Keys \cup {NoRow} : Authorize(x, r, k)
  \/ GuardReturns(x) \/ GuardRefuses(x) \/ GuardPasses(x)
  \/ ClaimConflict(x) \/ ResolveConflict(x)
  \/ RecoverFails(x)
  \/ Finish(x)
  \/ Crash(x)

LEMMA StepKinds ==
  ASSUME [Next]_vars
  PROVE  \/ UNCHANGED vars
         \/ \E x \in Executors :
              \/ Bystander(x)
              \/ \E e \in Executions : Claim(x, e)
              \/ Start(x)
              \/ \E o \in Outcomes : AdapterReports(x, o)
              \/ AdapterRaises(x)
              \/ Settle(x)
              \/ Recover(x)
BY DEF Next, Arrive, Proceed, Bystander

(* An UPDATE of the status of a row: the row stays what it was otherwise.    *)
LEMMA StatusUpdate ==
  ASSUME TypeOK, NEW e \in Executions, Exists(e), NEW s \in ExecutionStatuses,
         execution' = [execution EXCEPT ![e].status = s]
  PROVE  /\ execution' \in [Executions -> Row \cup {NoRow}]
         /\ Exists(e)'
         /\ execution'[e].key = execution[e].key
         /\ execution'[e].request = execution[e].request
         /\ execution'[e].status = s
         /\ \A f \in Executions : f # e => execution'[f] = execution[f]
<1> DEFINE row == [execution[e] EXCEPT !.status = s]
<1>1. execution[e] \in Row
  BY DEF TypeOK, Exists
<1>2. /\ row \in Row
      /\ row.key = execution[e].key
      /\ row.request = execution[e].request
      /\ row.status = s
  BY <1>1 DEF Row
<1>3. execution' = [execution EXCEPT ![e] = row]
  OBVIOUS
<1> HIDE DEF row
<1>4. /\ execution'[e] = row
      /\ \A f \in Executions : f # e => execution'[f] = execution[f]
      /\ execution' \in [Executions -> Row \cup {NoRow}]
  BY <1>2, <1>3 DEF TypeOK
<1> QED
  BY <1>2, <1>4, NoRowAssumption DEF Exists

(* An owner moves on with the events that it has added to its session.       *)
LEMMA OwnerMoves ==
  ASSUME TypeOK, NEW x \in Executors, NEW pc \in {"call", "answer"},
         NEW added \in SUBSET Event,
         executor' = [executor EXCEPT ![x].pc = pc, ![x].pending = added]
  PROVE  /\ executor' \in [Executors -> Activity]
         /\ executor'[x].pc = pc
         /\ executor'[x].request = executor[x].request
         /\ executor'[x].key = executor[x].key
         /\ executor'[x].execution = executor[x].execution
         /\ \A y \in Executors : y # x => executor'[y] = executor[y]
<1> DEFINE act == [executor[x] EXCEPT !.pc = pc, !.pending = added]
<1>1. /\ act \in Activity
      /\ act.pc = pc
      /\ act.request = executor[x].request
      /\ act.key = executor[x].key
      /\ act.execution = executor[x].execution
  BY DEF TypeOK, Activity
<1>2. executor' = [executor EXCEPT ![x] = act]
  BY DEF TypeOK, Activity
<1> HIDE DEF act
<1> QED
  BY <1>1, <1>2 DEF TypeOK

(* What a step that writes a status writes, and on behalf of whom.           *)
LEMMA OwnerWrites ==
  ASSUME TypeInv, NEW x \in Executors, Start(x) \/ Settle(x) \/ Recover(x)
  PROVE  LET e == executor[x].execution
             s == IF Start(x) THEN "RUNNING"
                  ELSE IF Settle(x) THEN executor[x].result
                  ELSE "UNKNOWN"
         IN
         /\ e \in Executions /\ Exists(e) /\ s \in ExecutionStatuses
         /\ Owns(x)
         /\ execution' = [execution EXCEPT ![e].status = s]
         /\ attempt' = [attempt EXCEPT ![e] = s]
         /\ calls' = calls
         /\ requestStatus' = requestStatus
         /\ s # "PENDING"
BY DEF TypeInv, CarriesItsWork, Start, Settle, Recover, Owns, ExecutionStatuses,
       Outcomes

LEMMA TypeInit == Init => TypeInv
BY DEF Init, TypeInv, TypeOK, CarriesItsWork, Owns, Idle, Activity

LEMMA TypeStep == TypeInv /\ [Next]_vars => TypeInv'
<1> SUFFICES ASSUME TypeInv, [Next]_vars PROVE TypeInv'
  OBVIOUS
<1>1. CASE UNCHANGED vars
  BY <1>1 DEF vars, TypeInv, TypeOK, CarriesItsWork, Owns, Exists
<1>2. ASSUME NEW x \in Executors, NEW e \in Executions, Claim(x, e)
      PROVE  TypeInv'
  <2> DEFINE row == [request |-> executor[x].request, key |-> executor[x].key,
                     status |-> "PENDING"]
  <2>1. row \in Row
    BY <1>2 DEF Claim, TypeInv, CarriesItsWork, Row, ExecutionStatuses
  <2>2. execution' = [execution EXCEPT ![e] = row]
    BY <1>2 DEF Claim
  <2> HIDE DEF row
  <2>3. /\ execution' \in [Executions -> Row \cup {NoRow}]
        /\ Exists(e)'
        /\ \A f \in Executions : Exists(f) => Exists(f)'
    BY <2>1, <2>2, NoRowAssumption DEF TypeInv, TypeOK, Exists
  <2> DEFINE act == [executor[x] EXCEPT !.pc = "start", !.execution = e]
  <2>4. /\ act \in Activity
        /\ act.execution = e /\ act.pc = "start"
        /\ act.request = executor[x].request /\ act.key = executor[x].key
    BY DEF TypeInv, TypeOK, Activity
  <2>4a. executor' = [executor EXCEPT ![x] = act]
    BY <1>2 DEF Claim, TypeInv, TypeOK, Activity
  <2> HIDE DEF act
  <2>5. /\ executor' \in [Executors -> Activity]
        /\ executor'[x].execution = e
        /\ executor'[x].pc = "start"
        /\ executor'[x].request = executor[x].request
        /\ executor'[x].key = executor[x].key
        /\ \A y \in Executors : y # x => executor'[y] = executor[y]
    BY <2>4, <2>4a DEF TypeInv, TypeOK
  <2>6. \A y \in Executors : CarriesItsWork(y)'
    BY <1>2, <2>3, <2>5 DEF Claim, TypeInv, CarriesItsWork, Owns
  <2> QED
    BY <1>2, <2>3, <2>5, <2>6 DEF Claim, TypeInv, TypeOK
<1>3. ASSUME NEW x \in Executors, Start(x) \/ Settle(x) \/ Recover(x)
      PROVE  TypeInv'
  <2>1. /\ execution' \in [Executions -> Row \cup {NoRow}]
        /\ \A f \in Executions : Exists(f) => Exists(f)'
    <3>1. PICK e \in Executions, s \in ExecutionStatuses :
            Exists(e) /\ execution' = [execution EXCEPT ![e].status = s]
      BY <1>3, OwnerWrites
    <3> QED
      BY <3>1, StatusUpdate DEF TypeInv, Exists
  <2>2. attempt' \in [Executions -> (ExecutionStatuses \ {"PENDING"}) \cup {NoRow}]
    <3>1. PICK e \in Executions, s \in ExecutionStatuses \ {"PENDING"} :
            attempt' = [attempt EXCEPT ![e] = s]
      BY <1>3, OwnerWrites
    <3> QED
      BY <3>1 DEF TypeInv, TypeOK
  <2>3. /\ executor' \in [Executors -> Activity]
        /\ events' \subseteq Event
    <3>1. executor[x].execution \in Executions
      BY <1>3, OwnerWrites
    <3>2. CASE Start(x)
      <4>1. {[execution |-> executor[x].execution, what |-> "STARTED"]}
              \in SUBSET Event
        BY <3>1 DEF Event
      <4> QED
        BY <3>2, <4>1, OwnerMoves DEF Start, TypeInv, TypeOK
    <3>3. CASE Settle(x)
      <4>1. OutcomeEvents(executor[x].execution, executor[x].result) \in SUBSET Event
        BY <3>1, <3>3 DEF Settle, OutcomeEvents, TypeInv, CarriesItsWork, Outcomes,
                          Event
      <4> QED
        <5>1. executor[x].pending \subseteq Event
          BY DEF TypeInv, TypeOK, Activity
        <5> QED
          BY <3>3, <4>1, <5>1, OwnerMoves DEF Settle, TypeInv, TypeOK
    <3>4. CASE Recover(x)
      <4>1. {[execution |-> executor[x].execution, what |-> "FAILED"]}
              \in SUBSET Event
        BY <3>1 DEF Event
      <4> QED
        BY <3>4, <4>1, OwnerMoves DEF Recover, TypeInv, TypeOK
    <3> QED
      BY <1>3, <3>2, <3>3, <3>4
  <2>4. \A y \in Executors : CarriesItsWork(y)'
    BY <1>3, <2>1 DEF Start, Settle, Recover, TypeInv, TypeOK, CarriesItsWork,
                      Owns, Activity
  <2> QED
    BY <1>3, <2>1, <2>2, <2>3, <2>4 DEF Start, Settle, Recover, TypeInv, TypeOK
<1>4. ASSUME NEW x \in Executors, NEW o \in Outcomes,
             AdapterReports(x, o) \/ AdapterRaises(x)
      PROVE  TypeInv'
  <2>1. executor' \in [Executors -> Activity] /\ calls' \in [Keys -> Nat]
    <3>1. executor' \in [Executors -> Activity]
      BY <1>4 DEF AdapterReports, AdapterRaises, TypeInv, TypeOK, Activity
    <3>2. executor[x].key \in Keys /\ calls[executor[x].key] \in Nat
      BY <1>4 DEF AdapterReports, AdapterRaises, TypeInv, TypeOK, CarriesItsWork
    <3>3. calls' = [calls EXCEPT ![executor[x].key] = calls[executor[x].key] + 1]
      BY <1>4 DEF AdapterReports, AdapterRaises
    <3> QED
      BY <3>1, <3>2, <3>3 DEF TypeInv, TypeOK
  <2>2. \A y \in Executors : CarriesItsWork(y)'
    BY <1>4 DEF AdapterReports, AdapterRaises, TypeInv, TypeOK, CarriesItsWork,
                Owns, Activity, Exists
  <2> QED
    BY <1>4, <2>1, <2>2 DEF AdapterReports, AdapterRaises, TypeInv, TypeOK
<1>5. ASSUME NEW x \in Executors, Bystander(x)
      PROVE  TypeInv'
  <2>1. UNCHANGED <<requestStatus, execution, attempt, calls, events>>
    BY <1>5 DEF Bystander, Authorize, GuardReturns, GuardRefuses, GuardPasses,
       ClaimConflict, ResolveConflict, RecoverFails, Finish, Crash
  <2>2. \/ executor' = [executor EXCEPT ![x] = Idle]
        \/ /\ executor[x].pc # "idle"
           /\ \E pc \in {"claim", "conflict"} :
                executor' = [executor EXCEPT ![x].pc = pc]
        \/ \E r \in Requests, k \in Keys :
             executor' = [executor EXCEPT ![x] =
               [Idle EXCEPT !.pc = "guard", !.request = r, !.key = k]]
    BY <1>5, KeysAssumption
    DEF Bystander, Authorize, GuardReturns, GuardRefuses, GuardPasses,
        ClaimConflict, ResolveConflict, RecoverFails, Finish, Crash, Release
  <2>3. executor' \in [Executors -> Activity] /\ CarriesItsWork(x)'
    <3>1. CASE executor' = [executor EXCEPT ![x] = Idle]
      BY <3>1 DEF Idle, TypeInv, TypeOK, Activity, CarriesItsWork, Owns
    <3>2. ASSUME executor[x].pc # "idle", NEW pc \in {"claim", "conflict"},
                 executor' = [executor EXCEPT ![x].pc = pc]
          PROVE  executor' \in [Executors -> Activity] /\ CarriesItsWork(x)'
      BY <3>2 DEF TypeInv, TypeOK, Activity, CarriesItsWork, Owns
    <3>3. ASSUME NEW r \in Requests, NEW k \in Keys,
                 executor' = [executor EXCEPT ![x] =
                   [Idle EXCEPT !.pc = "guard", !.request = r, !.key = k]]
          PROVE  executor' \in [Executors -> Activity] /\ CarriesItsWork(x)'
      BY <3>3 DEF Idle, TypeInv, TypeOK, Activity, CarriesItsWork, Owns
    <3> QED
      BY <2>2, <3>1, <3>2, <3>3
  <2>4. \A y \in Executors : y # x => executor'[y] = executor[y]
    BY <2>2 DEF TypeInv, TypeOK
  <2>5. \A y \in Executors : CarriesItsWork(y)'
    BY <2>1, <2>3, <2>4 DEF TypeInv, CarriesItsWork, Owns, Exists
  <2> QED
    BY <2>1, <2>3, <2>5 DEF TypeInv, TypeOK
<1> QED
  BY <1>1, <1>2, <1>3, <1>4, <1>5, StepKinds DEF Outcomes

(* The values of the variables.                                              *)
THEOREM TypeInvariance == Spec => []TypeInv
BY TypeInit, TypeStep, PTL DEF Spec

THEOREM TypeCorrect == Spec => []TypeOK
BY TypeInvariance, PTL DEF TypeInv

-----------------------------------------------------------------------------
(* An execution row has one executor working on it, which holds its key, and *)
(* how far it got shows in the row and in the calls of the adapter.          *)
OwnerInv(x) ==
  LET e == executor[x].execution
      k == executor[x].key
  IN
  /\ Owns(x) => /\ execution[e].key = k
                /\ execution[e].request = executor[x].request
  /\ executor[x].pc = "start" => execution[e].status = "PENDING"
  /\ executor[x].pc = "call" => execution[e].status = "RUNNING" /\ calls[k] = 0
  /\ executor[x].pc \in {"settle", "recover"} =>
       execution[e].status = "RUNNING" /\ calls[k] = 1

SoleOwner ==
  \A x, y \in Executors :
    Owns(x) /\ Owns(y) /\ executor[x].execution = executor[y].execution => x = y

LedgerInv ==
  /\ TypeInv
  /\ KeyIsClaimedOnce
  /\ KeyIsCalledOnce
  /\ AttemptMirrorsExecution
  /\ SoleOwner
  /\ \A x \in Executors : OwnerInv(x)

(* How a claimed key comes into the table.                                   *)
LEMMA ClaimInserts ==
  ASSUME LedgerInv, NEW x \in Executors, NEW e \in Executions, Claim(x, e)
  PROVE  /\ ~Exists(e) /\ Exists(e)'
         /\ execution'[e].key = executor[x].key
         /\ execution'[e].request = executor[x].request
         /\ execution'[e].status = "PENDING"
         /\ \A f \in Executions : f # e => execution'[f] = execution[f]
         /\ \A f \in Executions : Exists(f) => execution[f].key # executor[x].key
         /\ executor[x].key \in Keys /\ executor[x].request \in Requests
         /\ UNCHANGED <<requestStatus, attempt, calls>>
         /\ executor'[x].pc = "start" /\ executor'[x].execution = e
         /\ executor'[x].key = executor[x].key
         /\ executor'[x].request = executor[x].request
         /\ \A y \in Executors : y # x => executor'[y] = executor[y]
<1> DEFINE row == [request |-> executor[x].request, key |-> executor[x].key,
                   status |-> "PENDING"]
           act == [executor[x] EXCEPT !.pc = "start", !.execution = e]
<1>1. executor[x].key \in Keys /\ executor[x].request \in Requests /\ row \in Row
  BY DEF Claim, LedgerInv, TypeInv, CarriesItsWork, Row, ExecutionStatuses
<1>2. /\ execution' = [execution EXCEPT ![e] = row]
      /\ executor' = [executor EXCEPT ![x] = act]
      /\ UNCHANGED <<requestStatus, attempt, calls>>
      /\ ~Exists(e)
  BY DEF Claim, LedgerInv, TypeInv, TypeOK, Activity
<1>3. /\ act.pc = "start" /\ act.execution = e
      /\ act.key = executor[x].key /\ act.request = executor[x].request
  BY DEF LedgerInv, TypeInv, TypeOK, Activity
<1>4. \A f \in Executions : Exists(f) => execution[f].key # executor[x].key
  BY DEF Claim, KeyIsFree, Holders
<1>5. row.key = executor[x].key /\ row.request = executor[x].request
      /\ row.status = "PENDING" /\ row # NoRow
  BY <1>1, NoRowAssumption
<1> HIDE DEF row, act
<1>6. /\ executor'[x] = act
      /\ \A y \in Executors : y # x => executor'[y] = executor[y]
      /\ execution'[e] = row
      /\ \A f \in Executions : f # e => execution'[f] = execution[f]
  BY <1>2 DEF LedgerInv, TypeInv, TypeOK
<1> QED
  BY <1>1, <1>2, <1>3, <1>4, <1>5, <1>6 DEF Exists

(* How an owner writes a status: its row keeps its key and its request, and  *)
(* the owner is left with what it must do next.                              *)
LEMMA OwnerUpdates ==
  ASSUME LedgerInv, NEW x \in Executors, Start(x) \/ Settle(x) \/ Recover(x)
  PROVE  LET e == executor[x].execution
             s == IF Start(x) THEN "RUNNING"
                  ELSE IF Settle(x) THEN executor[x].result
                  ELSE "UNKNOWN"
         IN
         /\ e \in Executions /\ Exists(e) /\ execution'[e] # NoRow
         /\ Owns(x)
         /\ execution'[e].key = execution[e].key
         /\ execution'[e].request = execution[e].request
         /\ execution'[e].status = s
         /\ attempt'[e] = s
         /\ s # "PENDING"
         /\ \A f \in Executions : f # e => /\ execution'[f] = execution[f]
                                          /\ attempt'[f] = attempt[f]
         /\ UNCHANGED <<requestStatus, calls>>
         /\ executor'[x].pc = IF Start(x) THEN "call" ELSE "answer"
         /\ executor'[x].key = executor[x].key
         /\ executor'[x].request = executor[x].request
         /\ executor'[x].execution = e
         /\ \A y \in Executors : y # x => executor'[y] = executor[y]
<1> DEFINE e == executor[x].execution
           s == IF Start(x) THEN "RUNNING"
                ELSE IF Settle(x) THEN executor[x].result
                ELSE "UNKNOWN"
           pc == IF Start(x) THEN "call" ELSE "answer"
<1>1. /\ e \in Executions /\ Exists(e) /\ s \in ExecutionStatuses
      /\ s # "PENDING" /\ Owns(x)
      /\ execution' = [execution EXCEPT ![e].status = s]
      /\ attempt' = [attempt EXCEPT ![e] = s]
      /\ UNCHANGED <<requestStatus, calls>>
  BY OwnerWrites DEF LedgerInv
<1>2. \E added : executor' = [executor EXCEPT ![x].pc = pc, ![x].pending = added]
  BY DEF Start, Settle, Recover
<1>3. /\ executor'[x].pc = pc
      /\ executor'[x].key = executor[x].key
      /\ executor'[x].request = executor[x].request
      /\ executor'[x].execution = executor[x].execution
      /\ \A y \in Executors : y # x => executor'[y] = executor[y]
  BY <1>2 DEF LedgerInv, TypeInv, TypeOK, Activity
<1> HIDE DEF e, s
<1>4. /\ execution'[e] # NoRow
      /\ execution'[e].key = execution[e].key
      /\ execution'[e].request = execution[e].request
      /\ execution'[e].status = s
      /\ \A f \in Executions : f # e => execution'[f] = execution[f]
  BY <1>1, StatusUpdate DEF LedgerInv, TypeInv, Exists
<1>5. /\ attempt'[e] = s
      /\ \A f \in Executions : f # e => attempt'[f] = attempt[f]
  BY <1>1 DEF LedgerInv, TypeInv, TypeOK
<1> QED
  BY <1>1, <1>3, <1>4, <1>5 DEF e, s

(* How the adapter is called.                                                *)
LEMMA AdapterCounts ==
  ASSUME LedgerInv, NEW x \in Executors, NEW o \in Outcomes,
         AdapterReports(x, o) \/ AdapterRaises(x)
  PROVE  LET k == executor[x].key IN
         /\ k \in Keys /\ Owns(x) /\ executor[x].pc = "call"
         /\ calls[k] = 0 /\ calls'[k] = 1
         /\ calls' = [calls EXCEPT ![k] = 1]
         /\ \A l \in Keys : l # k => calls'[l] = calls[l]
         /\ UNCHANGED <<requestStatus, execution, attempt>>
         /\ executor'[x].pc \in {"settle", "recover"}
         /\ executor'[x].key = k
         /\ executor'[x].request = executor[x].request
         /\ executor'[x].execution = executor[x].execution
         /\ \A y \in Executors : y # x => executor'[y] = executor[y]
<1> DEFINE k == executor[x].key
<1>1. k \in Keys /\ Owns(x) /\ executor[x].pc = "call" /\ calls[k] = 0
  BY DEF AdapterReports, AdapterRaises, Owns, LedgerInv, TypeInv, CarriesItsWork,
         OwnerInv
<1>2. UNCHANGED <<requestStatus, execution, attempt>>
      /\ calls' = [calls EXCEPT ![k] = calls[k] + 1]
  BY DEF AdapterReports, AdapterRaises
<1>3. /\ executor'[x].pc \in {"settle", "recover"}
      /\ executor'[x].key = k
      /\ executor'[x].request = executor[x].request
      /\ executor'[x].execution = executor[x].execution
      /\ \A y \in Executors : y # x => executor'[y] = executor[y]
  BY DEF AdapterReports, AdapterRaises, LedgerInv, TypeInv, TypeOK, Activity
<1> HIDE DEF k
<1>4. calls' = [calls EXCEPT ![k] = 1]
  BY <1>1, <1>2
<1>5. calls'[k] = 1 /\ \A l \in Keys : l # k => calls'[l] = calls[l]
  BY <1>1, <1>4 DEF LedgerInv, TypeInv, TypeOK
<1> QED
  BY <1>1, <1>2, <1>3, <1>4, <1>5 DEF k

(* A bystander changes nothing that the ledger is about.                     *)
LEMMA BystanderLeaves ==
  ASSUME TypeInv, NEW x \in Executors, Bystander(x)
  PROVE  /\ UNCHANGED <<requestStatus, execution, attempt, calls>>
         /\ ~Owns(x)'
         /\ \A y \in Executors : y # x => executor'[y] = executor[y]
<1>1. UNCHANGED <<requestStatus, execution, attempt, calls>>
  BY DEF Bystander, Authorize, GuardReturns, GuardRefuses, GuardPasses,
         ClaimConflict, ResolveConflict, RecoverFails, Finish, Crash
<1>2. \/ executor' = [executor EXCEPT ![x] = Idle]
      \/ \E pc \in {"claim", "conflict"} : executor' = [executor EXCEPT ![x].pc = pc]
      \/ \E r, k : executor' = [executor EXCEPT ![x] =
           [Idle EXCEPT !.pc = "guard", !.request = r, !.key = k]]
  BY DEF Bystander, Authorize, GuardReturns, GuardRefuses, GuardPasses,
         ClaimConflict, ResolveConflict, RecoverFails, Finish, Crash, Release
<1>3. /\ executor'[x].pc \in {"idle", "claim", "conflict", "guard"}
      /\ \A y \in Executors : y # x => executor'[y] = executor[y]
  <2>1. CASE executor' = [executor EXCEPT ![x] = Idle]
    BY <2>1 DEF Idle, TypeInv, TypeOK
  <2>2. ASSUME NEW pc \in {"claim", "conflict"},
               executor' = [executor EXCEPT ![x].pc = pc]
        PROVE  /\ executor'[x].pc = pc
               /\ \A y \in Executors : y # x => executor'[y] = executor[y]
    BY <2>2 DEF TypeInv, TypeOK, Activity
  <2>3. ASSUME NEW r, NEW k,
               executor' = [executor EXCEPT ![x] =
                 [Idle EXCEPT !.pc = "guard", !.request = r, !.key = k]]
        PROVE  /\ executor'[x].pc = "guard"
               /\ \A y \in Executors : y # x => executor'[y] = executor[y]
    BY <2>3 DEF Idle, TypeInv, TypeOK
  <2> QED
    BY <1>2, <2>1, <2>2, <2>3
<1> QED
  BY <1>1, <1>3 DEF Owns

LEMMA LedgerInit == Init => LedgerInv
<1> SUFFICES ASSUME Init PROVE LedgerInv
  OBVIOUS
<1>1. TypeInv
  BY DEF Init, TypeInv, TypeOK, CarriesItsWork, Owns, Idle, Activity
<1>2. /\ \A e \in Executions : execution[e] = NoRow /\ attempt[e] = NoRow
      /\ \A k \in Keys : calls[k] = 0
      /\ \A x \in Executors : executor[x].pc = "idle"
  BY DEF Init, Idle
<1> QED
  BY <1>1, <1>2
  DEF LedgerInv, KeyIsClaimedOnce, KeyIsCalledOnce, AttemptMirrorsExecution,
      SoleOwner, OwnerInv, Owns, Exists

LEMMA LedgerStep == LedgerInv /\ TypeInv' /\ [Next]_vars => LedgerInv'
<1> SUFFICES ASSUME LedgerInv, TypeInv', [Next]_vars PROVE LedgerInv'
  OBVIOUS
<1>0. ASSUME NEW y \in Executors, Owns(y)
      PROVE  /\ executor[y].execution \in Executions
             /\ Exists(executor[y].execution)
             /\ executor[y].key \in Keys
  BY <1>0 DEF LedgerInv, TypeInv, CarriesItsWork, Owns
<1>1. ASSUME UNCHANGED <<execution, attempt, calls>>,
             \A y \in Executors : executor'[y] = executor[y] \/ ~Owns(y)'
      PROVE  LedgerInv'
  BY <1>1 DEF LedgerInv, KeyIsClaimedOnce, KeyIsCalledOnce, Holders, Exists,
              AttemptMirrorsExecution, SoleOwner, OwnerInv, Owns
<1>2. ASSUME NEW x \in Executors, NEW e \in Executions, Claim(x, e)
      PROVE  LedgerInv'
  <2> USE ClaimInserts, <1>2
  <2>1. KeyIsClaimedOnce'
    BY DEF LedgerInv, KeyIsClaimedOnce, Exists
  <2>2. KeyIsCalledOnce'
    BY DEF LedgerInv, KeyIsCalledOnce, Holders, Exists
  <2>3. AttemptMirrorsExecution'
    BY DEF LedgerInv, AttemptMirrorsExecution, Exists
  <2>4. SoleOwner'
    BY <1>0 DEF LedgerInv, SoleOwner, Owns
  <2>5. ASSUME NEW y \in Executors PROVE OwnerInv(y)'
    BY <1>0 DEF LedgerInv, OwnerInv, Owns
  <2> QED
    BY <2>1, <2>2, <2>3, <2>4, <2>5 DEF LedgerInv
<1>3. ASSUME NEW x \in Executors, Start(x) \/ Settle(x) \/ Recover(x)
      PROVE  LedgerInv'
  <2> USE OwnerUpdates, <1>3
  <2>1. KeyIsClaimedOnce'
    BY DEF LedgerInv, KeyIsClaimedOnce, Exists
  <2>2. KeyIsCalledOnce'
    BY DEF LedgerInv, KeyIsCalledOnce, Holders, Exists
  <2>3. AttemptMirrorsExecution'
    BY DEF LedgerInv, AttemptMirrorsExecution, Exists
  <2>4. SoleOwner'
    BY DEF LedgerInv, SoleOwner, Owns
  <2>5. ASSUME NEW y \in Executors, y # x PROVE OwnerInv(y)'
    BY <1>0, <2>5 DEF LedgerInv, OwnerInv, Owns, SoleOwner
  <2>6. OwnerInv(x)'
    <3>1. ASSUME Start(x) PROVE calls[executor[x].key] = 0
      <4>1. /\ execution[executor[x].execution].key = executor[x].key
            /\ execution[executor[x].execution].status = "PENDING"
            /\ Exists(executor[x].execution)
            /\ executor[x].execution \in Executions
            /\ executor[x].key \in Keys
        BY <1>0, <3>1 DEF Start, LedgerInv, OwnerInv, Owns
      <4>2. calls[executor[x].key] \in Nat /\ calls[executor[x].key] <= 1
        BY <4>1 DEF LedgerInv, TypeInv, TypeOK, KeyIsCalledOnce
      <4>3. ASSUME calls[executor[x].key] = 1 PROVE FALSE
        <5>1. PICK f \in Holders(executor[x].key) :
                execution[f].status # "PENDING"
          BY <4>1, <4>3 DEF LedgerInv, KeyIsCalledOnce
        <5>2. f = executor[x].execution
          BY <4>1, <5>1 DEF LedgerInv, KeyIsClaimedOnce, Holders
        <5> QED
          BY <4>1, <5>1, <5>2
      <4> QED
        BY <4>2, <4>3
    <3> QED
      BY <3>1 DEF LedgerInv, OwnerInv, Owns
  <2> QED
    BY <2>1, <2>2, <2>3, <2>4, <2>5, <2>6 DEF LedgerInv
<1>4. ASSUME NEW x \in Executors, NEW o \in Outcomes,
             AdapterReports(x, o) \/ AdapterRaises(x)
      PROVE  LedgerInv'
  <2> USE AdapterCounts, <1>4
  <2>1. KeyIsClaimedOnce' /\ AttemptMirrorsExecution'
    BY DEF LedgerInv, KeyIsClaimedOnce, AttemptMirrorsExecution, Exists
  <2>2. KeyIsCalledOnce'
    BY <1>0 DEF LedgerInv, KeyIsCalledOnce, Holders, Exists, OwnerInv
  <2>3. SoleOwner'
    BY DEF LedgerInv, SoleOwner, Owns
  <2>4. ASSUME NEW y \in Executors, y # x PROVE OwnerInv(y)'
    <3>1. ASSUME Owns(y) PROVE executor[y].key # executor[x].key
      BY <1>0, <2>4, <3>1
      DEF LedgerInv, OwnerInv, SoleOwner, KeyIsClaimedOnce
    <3> QED
      BY <1>0, <2>4, <3>1 DEF LedgerInv, OwnerInv, Owns
  <2>5. OwnerInv(x)'
    BY DEF LedgerInv, OwnerInv, Owns
  <2> QED
    BY <2>1, <2>2, <2>3, <2>4, <2>5 DEF LedgerInv
<1>5. ASSUME NEW x \in Executors, Bystander(x)
      PROVE  LedgerInv'
  BY <1>1, <1>5, BystanderLeaves DEF LedgerInv
<1> QED
  BY <1>1, <1>2, <1>3, <1>4, <1>5, StepKinds DEF vars, Outcomes

THEOREM LedgerInvariance == Spec => []LedgerInv
BY LedgerInit, LedgerStep, TypeInvariance, PTL DEF Spec

(* The UNIQUE constraint makes one executor the owner of a key ...           *)
THEOREM OneClaimPerKey == Spec => []KeyIsClaimedOnce
BY LedgerInvariance, PTL DEF LedgerInv

(* ... and the adapter is called for the key at most once, after the row     *)
(* that tells of it is RUNNING, whatever crashes.                            *)
THEOREM OneCallPerKey == Spec => []KeyIsCalledOnce
BY LedgerInvariance, PTL DEF LedgerInv

(* The attempt row never disagrees with the execution row.                   *)
THEOREM AttemptAgrees == Spec => []AttemptMirrorsExecution
BY LedgerInvariance, PTL DEF LedgerInv

-----------------------------------------------------------------------------
(* Only the owner of a running execution settles it, once.                   *)
LEMMA OutcomesStay ==
  ASSUME LedgerInv, [Next]_vars, NEW e \in Executions, Exists(e),
         execution[e].status \in Outcomes
  PROVE  execution'[e] = execution[e]
<1>1. ASSUME NEW x \in Executors, NEW f \in Executions, Claim(x, f)
      PROVE  execution'[e] = execution[e]
  BY <1>1, ClaimInserts
<1>2. ASSUME NEW x \in Executors, Start(x) \/ Settle(x) \/ Recover(x)
      PROVE  execution'[e] = execution[e]
  <2>1. execution[executor[x].execution].status \notin Outcomes
    BY <1>2 DEF Start, Settle, Recover, LedgerInv, OwnerInv, Outcomes
  <2> QED
    BY <1>2, <2>1, OwnerUpdates
<1>3. ASSUME NEW x \in Executors, NEW o \in Outcomes,
             AdapterReports(x, o) \/ AdapterRaises(x)
      PROVE  execution'[e] = execution[e]
  BY <1>3, AdapterCounts
<1>4. ASSUME NEW x \in Executors, Bystander(x)
      PROVE  execution'[e] = execution[e]
  BY <1>4, BystanderLeaves DEF LedgerInv
<1> QED
  BY <1>1, <1>2, <1>3, <1>4, StepKinds DEF vars, Outcomes

(* An outcome that a client has seen, or could have seen, is not replaced.   *)
THEOREM OutcomesAreFinal == Spec => OutcomeIsFinal
<1>1. LedgerInv /\ [Next]_vars =>
        [\A e \in Executions : Exists(e) /\ execution[e].status \in Outcomes
           => execution'[e] = execution[e]]_vars
  BY OutcomesStay
<1> QED
  BY <1>1, LedgerInvariance, PTL DEF Spec, OutcomeIsFinal

-----------------------------------------------------------------------------
(* A request that has one effect and on which nobody works: who works on     *)
(* another request does not touch its rows, and the guard lets nobody in.    *)
Sealed(r, e) == Effects(r) = {e} /\ Working(r) = {}

LEMMA OthersLeave ==
  ASSUME NEW r \in Requests, NEW e \in Executions, Sealed(r, e),
         NEW x \in Executors, executor[x].request # r,
         executor'[x].request = executor[x].request,
         \A y \in Executors : y # x => executor'[y] = executor[y],
         \A f \in Executions :
           \/ execution'[f] = execution[f]
           \/ /\ ~Exists(f) \/ execution[f].request # r
              /\ ~Exists(f)' \/ execution'[f].request # r
  PROVE  Sealed(r, e)'
<1>1. Effects(r)' = Effects(r)
  BY DEF Effects, ExecutionsOf, Exists
<1>2. Working(r)' = {}
  BY DEF Sealed, Working
<1> QED
  BY <1>1, <1>2 DEF Sealed

LEMMA SealedStays ==
  ASSUME LedgerInv, [Next]_vars, NEW r \in Requests, NEW e \in Executions,
         Sealed(r, e)
  PROVE  Sealed(r, e)'
<1>1. ASSUME NEW x \in Executors, executor[x].pc = "claim" \/ Owns(x)
      PROVE  executor[x].request # r
  BY <1>1 DEF Sealed, Working, Owns
<1>2. ASSUME NEW x \in Executors, NEW f \in Executions, Claim(x, f)
      PROVE  Sealed(r, e)'
  <2>1. executor[x].request # r
    BY <1>1, <1>2 DEF Claim
  <2> QED
    BY <1>2, <2>1, ClaimInserts, OthersLeave
<1>3. ASSUME NEW x \in Executors, Start(x) \/ Settle(x) \/ Recover(x)
      PROVE  Sealed(r, e)'
  <2>1. executor[x].request # r
    BY <1>1, <1>3, OwnerUpdates
  <2>2. execution[executor[x].execution].request = executor[x].request
    BY <1>3, OwnerUpdates DEF LedgerInv, OwnerInv
  <2> QED
    BY <1>3, <2>1, <2>2, OwnerUpdates, OthersLeave
<1>4. ASSUME NEW x \in Executors, NEW o \in Outcomes,
             AdapterReports(x, o) \/ AdapterRaises(x)
      PROVE  Sealed(r, e)'
  <2>1. executor[x].request # r
    BY <1>1, <1>4, AdapterCounts
  <2> QED
    BY <1>4, <2>1, AdapterCounts, OthersLeave
<1>5. ASSUME NEW x \in Executors, Bystander(x)
      PROVE  Sealed(r, e)'
  <2>1. Effects(r)' = Effects(r)
    BY <1>5, BystanderLeaves DEF LedgerInv, Effects, ExecutionsOf, Exists
  <2>2. ASSUME executor'[x].pc = "claim", executor'[x].request = r
        PROVE  FALSE
    <3>1. GuardPasses(x)
      <4>1. CASE \E q \in Requests, k \in Keys \cup {NoRow} : Authorize(x, q, k)
        <5>1. \E q, k : executor' = [executor EXCEPT ![x] =
                [Idle EXCEPT !.pc = "guard", !.request = q, !.key = k]]
          BY <4>1 DEF Authorize
        <5> QED
          BY <2>2, <5>1 DEF Idle, LedgerInv, TypeInv, TypeOK
      <4>2. CASE GuardReturns(x) \/ GuardRefuses(x) \/ ResolveConflict(x)
                   \/ RecoverFails(x) \/ Finish(x) \/ Crash(x)
        <5>1. executor' = [executor EXCEPT ![x] = Idle]
          BY <4>2 DEF GuardReturns, GuardRefuses, ResolveConflict, RecoverFails,
             Finish, Crash, Release
        <5> QED
          BY <2>2, <5>1 DEF Idle, LedgerInv, TypeInv, TypeOK
      <4>3. CASE ClaimConflict(x)
        BY <2>2, <4>3 DEF ClaimConflict, LedgerInv, TypeInv, TypeOK, Activity
      <4> QED
        BY <1>5, <4>1, <4>2, <4>3 DEF Bystander
    <3>2. executor[x].request = r
      BY <2>2, <3>1 DEF GuardPasses, LedgerInv, TypeInv, TypeOK, Activity
    <3>3. e \in ExecutionsOf(r) /\ execution[e].status \in BlockingStatuses
      BY DEF Sealed, Effects, BlockingStatuses
    <3> QED
      BY <3>1, <3>2, <3>3 DEF GuardPasses, SameKey, Blocking
  <2>3. Working(r)' = {}
    <3>1. ASSUME NEW y \in Executors, y # x PROVE y \notin Working(r)'
      BY <1>5, <3>1, BystanderLeaves DEF LedgerInv, Sealed, Working
    <3>2. x \notin Working(r)'
      BY <1>5, <2>2, BystanderLeaves DEF LedgerInv, Working, Owns
    <3> QED
      BY <3>1, <3>2 DEF Working
  <2> QED
    BY <2>1, <2>3 DEF Sealed
<1>6. CASE UNCHANGED vars
  BY <1>6 DEF vars, Sealed, Effects, Working, ExecutionsOf, Exists
<1> QED
  BY <1>2, <1>3, <1>4, <1>5, <1>6, StepKinds DEF Outcomes

(* Where one execution may have taken effect and nobody works on the request *)
(* any more, none is ever added.                                             *)
THEOREM EffectsAreNotRepeated == Spec => EffectIsNotRepeated
<1> SUFFICES ASSUME NEW r \in Requests
             PROVE  Spec =>
                      [](HasOneEffect(r) /\ Working(r) = {} => []HasOneEffect(r))
  BY DEF EffectIsNotRepeated
<1> DEFINE Done == HasOneEffect(r) /\ Working(r) = {}
<1>1. LedgerInv /\ [Next]_vars /\ Done => Done'
  <2> SUFFICES ASSUME LedgerInv, [Next]_vars, Done PROVE Done'
    OBVIOUS
  <2>1. PICK e \in Executions : Sealed(r, e)
    BY DEF HasOneEffect, Sealed
  <2>2. Sealed(r, e)'
    BY <2>1, SealedStays
  <2> QED
    BY <2>2 DEF HasOneEffect, Sealed
<1>2. Done => HasOneEffect(r)
  OBVIOUS
<1> QED
  BY <1>1, <1>2, LedgerInvariance, PTL DEF Spec

-----------------------------------------------------------------------------
(* The ledger of a key that has one holder, and of a key that has none.      *)
LEMMA LedgerOfHolder ==
  ASSUME KeyIsClaimedOnce, NEW e \in Executions, Exists(e)
  PROVE  /\ OwnerOf(execution[e].key) = execution[e].request
         /\ OutcomeOf(execution[e].key) =
              IF execution[e].status \in Outcomes THEN execution[e].status ELSE NoRow
<1> DEFINE H == Holders(execution[e].key)
<1>1. H = {e}
  BY DEF KeyIsClaimedOnce, Holders
<1>2. (CHOOSE f \in H : TRUE) = e
  BY <1>1
<1> QED
  BY <1>1, <1>2 DEF OwnerOf, OutcomeOf

LEMMA LedgerOfFreeKey ==
  ASSUME NEW k, Holders(k) = {}
  PROVE  OwnerOf(k) = NoRow /\ OutcomeOf(k) = NoRow
BY DEF OwnerOf, OutcomeOf

(* A key whose holders a step leaves alone keeps its ledger.                 *)
LEMMA LedgerStays ==
  ASSUME NEW k \in Keys,
         \A e \in Executions :
           \/ execution'[e] = execution[e]
           \/ /\ ~Exists(e) \/ execution[e].key # k
              /\ execution'[e] = NoRow \/ execution'[e].key # k
  PROVE  OwnerOf(k)' = OwnerOf(k) /\ OutcomeOf(k)' = OutcomeOf(k)
<1>1. Holders(k)' = Holders(k)
  BY DEF Holders, Exists
<1>2. \A e \in Holders(k) : execution'[e] = execution[e]
  BY DEF Holders, Exists
<1>3. Holders(k) # {} => (CHOOSE e \in Holders(k) : TRUE) \in Holders(k)
  OBVIOUS
<1> QED
  BY <1>1, <1>2, <1>3 DEF OwnerOf, OutcomeOf

(* The executors keep what the ledger promises of a key: they start with an  *)
(* empty ledger, and each step is a claim, a call, a settlement or nothing.  *)
THEOREM LedgerIsImplemented == Spec => ImplementsLedger
<1>1. Init => Ledger!Init
  BY LedgerOfFreeKey DEF Init, Ledger!Init, Holders, Exists
<1>2. LedgerInv /\ LedgerInv' /\ [Next]_vars => [Ledger!Next]_Ledger!vars
  <2> SUFFICES ASSUME LedgerInv, LedgerInv', [Next]_vars
               PROVE  [Ledger!Next]_Ledger!vars
    OBVIOUS
  <2>1. ASSUME UNCHANGED <<execution, calls>> PROVE UNCHANGED Ledger!vars
    BY <2>1 DEF Ledger!vars, OwnerOf, OutcomeOf, Holders, Exists
  <2>2. ASSUME NEW x \in Executors, NEW e \in Executions, Claim(x, e)
        PROVE  Ledger!Next
    <3>0. PICK k \in Keys, r \in Requests :
            k = executor[x].key /\ r = executor[x].request
      BY <2>2, ClaimInserts
    <3>1. Holders(k) = {} /\ calls' = calls
      BY <2>2, <3>0, ClaimInserts DEF Claim, KeyIsFree
    <3>2. OwnerOf(k) = NoRow /\ OutcomeOf(k) = NoRow
      BY <3>1, LedgerOfFreeKey
    <3>3. /\ Exists(e)' /\ execution'[e].key = k
          /\ execution'[e].request = r /\ execution'[e].status = "PENDING"
          /\ ~Exists(e)
          /\ \A f \in Executions : f # e => execution'[f] = execution[f]
      BY <2>2, <3>0, ClaimInserts
    <3>4. OwnerOf(k)' = r /\ OutcomeOf(k)' = NoRow
      <4>1. Holders(k)' = {e}
        <5>1. \A f \in Executions : f # e => f \notin Holders(k)'
          BY <3>1, <3>3 DEF Holders, Exists
        <5> QED
          BY <3>3, <5>1 DEF Holders
      <4>2. (CHOOSE f \in Holders(k)' : TRUE) = e
        BY <4>1
      <4> QED
        BY <3>3, <4>1, <4>2 DEF OwnerOf, OutcomeOf, Outcomes
    <3>5. \A l \in Keys : l # k => /\ OwnerOf(l)' = OwnerOf(l)
                                  /\ OutcomeOf(l)' = OutcomeOf(l)
      BY <3>3, LedgerStays
    <3>6. /\ [l \in Keys |-> OwnerOf(l)'] = [[l \in Keys |-> OwnerOf(l)] EXCEPT ![k] = r]
          /\ [l \in Keys |-> OutcomeOf(l)'] = [l \in Keys |-> OutcomeOf(l)]
      BY <3>2, <3>4, <3>5
    <3>7. Ledger!Claim(k, r)
      BY <3>1, <3>2, <3>6 DEF Ledger!Claim
    <3> QED
      BY <3>7 DEF Ledger!Next
  <2>3. ASSUME NEW x \in Executors, Start(x) \/ Settle(x) \/ Recover(x)
        PROVE  [Ledger!Next]_Ledger!vars
    <3>0. PICK e \in Executions, k \in Keys :
            e = executor[x].execution /\ k = executor[x].key
      BY <2>3, OwnerUpdates
      DEF LedgerInv, TypeInv, CarriesItsWork, Owns
    <3>1. /\ Exists(e) /\ execution[e].key = k
          /\ Exists(e)' /\ execution'[e].key = k
          /\ execution'[e].request = execution[e].request
          /\ calls' = calls
          /\ \A f \in Executions : f # e => execution'[f] = execution[f]
      BY <2>3, <3>0, OwnerUpdates
      DEF LedgerInv, OwnerInv, Exists, Owns, TypeInv, CarriesItsWork
    <3>2. /\ execution[e].status \notin Outcomes
          /\ \/ Start(x) /\ execution'[e].status = "RUNNING"
             \/ /\ calls[k] = 1
                /\ execution'[e].status \in Outcomes
      BY <2>3, <3>0, OwnerUpdates
      DEF LedgerInv, OwnerInv, TypeInv, CarriesItsWork, Start, Settle, Recover,
          Outcomes
    <3>3. /\ OwnerOf(k) = execution[e].request
          /\ OutcomeOf(k) = NoRow
      BY <3>1, <3>2, LedgerOfHolder DEF LedgerInv
    <3>4. /\ OwnerOf(k)' = execution[e].request
          /\ OutcomeOf(k)' = IF execution'[e].status \in Outcomes
                             THEN execution'[e].status ELSE NoRow
      <4>1. Holders(k)' = {e}
        <5>1. \A f \in Executions : f # e => f \notin Holders(k)'
          BY <3>1 DEF Holders, Exists, LedgerInv, KeyIsClaimedOnce
        <5> QED
          BY <3>1, <5>1 DEF Holders
      <4>2. (CHOOSE f \in Holders(k)' : TRUE) = e
        BY <4>1
      <4> QED
        BY <3>1, <4>1, <4>2 DEF OwnerOf, OutcomeOf
    <3>5. \A l \in Keys : l # k => /\ OwnerOf(l)' = OwnerOf(l)
                                  /\ OutcomeOf(l)' = OutcomeOf(l)
      BY <3>1, LedgerStays
    <3>6. CASE execution'[e].status \in Outcomes
      <4>1. execution'[e].status \in Ledger!Outcomes
        BY <3>6 DEF Outcomes, Ledger!Outcomes
      <4>2. calls[k] = 1
        BY <3>2, <3>6 DEF Outcomes
      <4>3. PICK o \in Ledger!Outcomes : o = execution'[e].status
        BY <4>1
      <4>4. /\ [l \in Keys |-> OwnerOf(l)'] = [l \in Keys |-> OwnerOf(l)]
            /\ [l \in Keys |-> OutcomeOf(l)'] =
                 [[l \in Keys |-> OutcomeOf(l)] EXCEPT ![k] = o]
        BY <3>3, <3>4, <3>5, <3>6, <4>3
      <4>5. Ledger!Settle(k, o)
        BY <3>1, <3>3, <4>2, <4>4 DEF Ledger!Settle
      <4> QED
        BY <4>5 DEF Ledger!Next
    <3>7. CASE execution'[e].status \notin Outcomes
      <4>1. \A l \in Keys : OwnerOf(l)' = OwnerOf(l) /\ OutcomeOf(l)' = OutcomeOf(l)
        BY <3>3, <3>4, <3>5, <3>7
      <4>2. /\ [l \in Keys |-> OwnerOf(l)'] = [l \in Keys |-> OwnerOf(l)]
            /\ [l \in Keys |-> OutcomeOf(l)'] = [l \in Keys |-> OutcomeOf(l)]
        BY <4>1
      <4> QED
        BY <3>1, <4>2 DEF Ledger!vars
    <3> QED
      BY <3>6, <3>7
  <2>4. ASSUME NEW x \in Executors, NEW o \in Outcomes,
               AdapterReports(x, o) \/ AdapterRaises(x)
        PROVE  Ledger!Next
    <3>0. PICK e \in Executions, k \in Keys :
            e = executor[x].execution /\ k = executor[x].key
      BY <2>4, AdapterCounts DEF LedgerInv, TypeInv, CarriesItsWork
    <3>1. /\ calls[k] = 0 /\ calls' = [calls EXCEPT ![k] = 1]
          /\ execution' = execution
          /\ Exists(e) /\ execution[e].key = k
          /\ execution[e].request \in Requests
      BY <2>4, <3>0, AdapterCounts
      DEF LedgerInv, OwnerInv, Owns, TypeInv, TypeOK, CarriesItsWork, Exists, Row
    <3>2. OwnerOf(k) # NoRow
      BY <3>1, LedgerOfHolder, NoRowAssumption DEF LedgerInv
    <3>3. \A l \in Keys : OwnerOf(l)' = OwnerOf(l) /\ OutcomeOf(l)' = OutcomeOf(l)
      BY <3>1, LedgerStays
    <3>4. Ledger!Call(k)
      BY <3>1, <3>2, <3>3 DEF Ledger!Call
    <3> QED
      BY <3>4 DEF Ledger!Next
  <2>5. ASSUME NEW x \in Executors, Bystander(x) PROVE UNCHANGED Ledger!vars
    BY <2>1, <2>5, BystanderLeaves DEF LedgerInv
  <2> QED
    BY <2>1, <2>2, <2>3, <2>4, <2>5, StepKinds DEF vars, Outcomes
<1> QED
  BY <1>1, <1>2, LedgerInvariance, PTL DEF Spec, ImplementsLedger, Ledger!Spec

-----------------------------------------------------------------------------
(* An executor works for the request that it found authorized, and the rows  *)
(* that it makes name that request.                                          *)
LEMMA WorksForAuthorized ==
  ASSUME TypeInv, [Next]_vars, NEW x \in Executors, executor'[x].pc # "idle"
  PROVE  \/ /\ executor[x].pc # "idle"
            /\ executor'[x].request = executor[x].request
         \/ /\ executor'[x].request \in Requests
            /\ Authorized(executor'[x].request)
<1>1. CASE executor'[x] = executor[x]
  BY <1>1
<1>2. ASSUME NEW r \in Requests, NEW k \in Keys \cup {NoRow}, Authorize(x, r, k)
      PROVE  executor'[x].request = r /\ Authorized(r)
  BY <1>2 DEF Authorize, TypeInv, TypeOK, Idle
<1>3. ASSUME Release(x) PROVE FALSE
  BY <1>3 DEF Release, Idle, TypeInv, TypeOK
<1>4. ASSUME executor[x].pc # "idle",
             \/ GuardPasses(x) \/ ClaimConflict(x)
             \/ \E e \in Executions : Claim(x, e)
             \/ \E o \in Outcomes : AdapterReports(x, o)
             \/ AdapterRaises(x)
      PROVE  executor'[x].request = executor[x].request
  BY <1>4 DEF GuardPasses, ClaimConflict, Claim, AdapterReports, AdapterRaises,
     TypeInv, TypeOK, Activity
<1>5. ASSUME Start(x) \/ Settle(x) \/ Recover(x)
      PROVE  executor[x].pc # "idle" /\ executor'[x].request = executor[x].request
  BY <1>5 DEF Start, Settle, Recover, TypeInv, TypeOK, Activity
<1>6. ASSUME NEW y \in Executors, y # x, Arrive(y) \/ Proceed(y) \/ Crash(y)
      PROVE  executor'[x] = executor[x]
  BY <1>6 DEF Arrive, Proceed, Crash, Release, Authorize, GuardReturns, GuardRefuses,
     GuardPasses, Claim, ClaimConflict, ResolveConflict, Start, AdapterReports,
     AdapterRaises, Settle, Recover, RecoverFails, Finish, TypeInv, TypeOK
<1>7. ASSUME \/ GuardPasses(x) \/ ClaimConflict(x)
             \/ \E e \in Executions : Claim(x, e)
             \/ \E o \in Outcomes : AdapterReports(x, o)
             \/ AdapterRaises(x)
      PROVE  executor[x].pc # "idle"
  BY <1>7 DEF GuardPasses, ClaimConflict, Claim, AdapterReports, AdapterRaises
<1> QED
  BY <1>1, <1>2, <1>3, <1>4, <1>5, <1>6, <1>7 DEF Next, vars, Arrive, Proceed,
     GuardReturns, GuardRefuses, ResolveConflict, RecoverFails, Finish, Crash

LEMMA RowsNameTheirRequest ==
  ASSUME TypeInv, [Next]_vars, NEW e \in Executions, Exists(e)'
  PROVE  \/ Exists(e) /\ execution'[e].request = execution[e].request
         \/ \E x \in Executors : /\ executor[x].pc # "idle"
                                 /\ execution'[e].request = executor[x].request
<1>1. CASE execution'[e] = execution[e]
  BY <1>1 DEF Exists
<1>2. ASSUME NEW x \in Executors, NEW f \in Executions, Claim(x, f)
      PROVE  \/ execution'[e] = execution[e]
             \/ executor[x].pc # "idle" /\ execution'[e].request = executor[x].request
  BY <1>2 DEF Claim, TypeInv, TypeOK
<1>3. ASSUME NEW x \in Executors, Start(x) \/ Settle(x) \/ Recover(x)
      PROVE  \/ execution'[e] = execution[e]
             \/ Exists(e) /\ execution'[e].request = execution[e].request
  BY <1>3, OwnerWrites, StatusUpdate DEF TypeInv
<1>4. ASSUME NEW x \in Executors,
             \/ Bystander(x) \/ \E o \in Outcomes : AdapterReports(x, o)
             \/ AdapterRaises(x)
      PROVE  execution' = execution
  BY <1>4 DEF Bystander, AdapterReports, AdapterRaises, Authorize, GuardReturns,
     GuardRefuses, GuardPasses, ClaimConflict, ResolveConflict, RecoverFails,
     Finish, Crash
<1>5. CASE UNCHANGED vars
  BY <1>1, <1>5 DEF vars
<1> QED
  BY <1>1, <1>2, <1>3, <1>4, <1>5, StepKinds
=============================================================================
