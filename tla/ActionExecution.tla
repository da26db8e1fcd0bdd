-------------------------- MODULE ActionExecution --------------------------
(***************************************************************************)
(* services/action_execution: an approved action request is carried out by *)
(* an adapter to the outside world, under an idempotency key that the      *)
(* client chooses or that is derived from the request.                     *)
(*                                                                         *)
(* An executor is one POST /action-requests/{id}/execute in flight.  Each  *)
(* of its steps ends at an await; the adapter is called outside any        *)
(* transaction, and nothing takes up the work of an executor that died.    *)
(***************************************************************************)
EXTENDS Naturals

CONSTANTS
  Requests,    \* ids of action_requests rows
  Executions,  \* ids of action_executions rows
  Keys,        \* idempotency keys
  DefaultKey,  \* the key exec_<id> of each request
  Executors,   \* calls of execute_action_request in flight
  NoRow,       \* no such row, or a parameter that was not given
  Mortal       \* the executors that may die between two of their steps

ASSUME KeysAssumption ==
  /\ DefaultKey \in [Requests -> Keys]
  /\ \A r, s \in Requests : DefaultKey[r] = DefaultKey[s] => r = s

ASSUME MortalAssumption == Mortal \subseteq Executors

VARIABLES
  requestStatus,  \* status of each action request (read only here)
  execution,      \* the action_executions table
  attempt,        \* status of the action_execution_attempts row of each
  calls,          \* calls the adapter received, per key (outside the database)
  events,         \* committed ACTION_EXECUTION_* security events
  executor        \* what each executor is doing

vars == <<requestStatus, execution, attempt, calls, events, executor>>

-----------------------------------------------------------------------------
Outcomes == {"SUCCEEDED", "FAILED", "UNKNOWN"}
ExecutionStatuses == Outcomes \cup {"PENDING", "RUNNING"}
RequestStatuses == {"PENDING_APPROVAL", "APPROVED", "REJECTED", "CANCELLED"}

Row == [request : Requests, key : Keys, status : ExecutionStatuses]

ASSUME NoRowAssumption ==
  NoRow \notin Requests \cup Executions \cup Keys \cup ExecutionStatuses \cup Row

Event == [execution : Executions, what : {"STARTED", "SUCCEEDED", "FAILED"}]

Activity == [pc        : {"idle", "guard", "claim", "conflict", "start",
                          "call", "settle", "recover", "answer"},
             request   : Requests \cup {NoRow},
             key       : Keys \cup {NoRow},
             execution : Executions \cup {NoRow},
             result    : Outcomes \cup {NoRow},
             pending   : SUBSET Event]

TypeOK ==
  /\ requestStatus \in [Requests -> RequestStatuses \cup {NoRow}]
  /\ execution \in [Executions -> Row \cup {NoRow}]
  /\ attempt \in [Executions -> (ExecutionStatuses \ {"PENDING"}) \cup {NoRow}]
  /\ calls \in [Keys -> Nat]
  /\ events \subseteq Event
  /\ executor \in [Executors -> Activity]

-----------------------------------------------------------------------------
Exists(e) == execution[e] # NoRow

ExecutionsOf(r) == {e \in Executions : Exists(e) /\ execution[e].request = r}

Holders(k) == {e \in Executions : Exists(e) /\ execution[e].key = k}

Idle == [pc |-> "idle", request |-> NoRow, key |-> NoRow,
         execution |-> NoRow, result |-> NoRow, pending |-> {}]

Init ==
  /\ requestStatus \in [Requests -> RequestStatuses \cup {NoRow}]
  /\ execution = [e \in Executions |-> NoRow]
  /\ attempt = [e \in Executions |-> NoRow]
  /\ calls = [k \in Keys |-> 0]
  /\ events = {}
  /\ executor = [x \in Executors |-> Idle]

(* The session is closed: events added to it and not committed are gone.     *)
Release(x) == executor' = [executor EXCEPT ![x] = Idle]

-----------------------------------------------------------------------------
(* Fault: an undecided request counts as authorized.                        *)
Authorized_Undecided(r) == requestStatus[r] \in {"APPROVED", "PENDING_APPROVAL"}

(* 1. and 2.  Only an approved request is executed; any other is refused     *)
(* without a change.                                                         *)
Authorized(r) == requestStatus[r] = "APPROVED"

Authorize(x, r, k) ==
  /\ executor[x].pc = "idle"
  /\ Authorized(r)
  /\ executor' = [executor EXCEPT ![x] =
       [Idle EXCEPT !.pc = "guard", !.request = r,
                    !.key = IF k = NoRow THEN DefaultKey[r] ELSE k]]
  /\ UNCHANGED <<requestStatus, execution, attempt, calls, events>>

(* 3.  The executions of the request, in no particular order: the first one  *)
(* that has the same key is returned, the first other one that is running,   *)
(* succeeded or unknown refuses the call.                                    *)
SameKey(x) == {e \in ExecutionsOf(executor[x].request) :
                 execution[e].key = executor[x].key}

(* Fault: a running execution blocks nothing.                               *)
BlockingStatuses_NotRunning == {"SUCCEEDED", "UNKNOWN"}

BlockingStatuses == {"SUCCEEDED", "RUNNING", "UNKNOWN"}

Blocking(x) == {e \in ExecutionsOf(executor[x].request) \ SameKey(x) :
                  execution[e].status \in BlockingStatuses}

GuardReturns(x) ==
  /\ executor[x].pc = "guard"
  /\ SameKey(x) # {}
  /\ Release(x)
  /\ UNCHANGED <<requestStatus, execution, attempt, calls, events>>

GuardRefuses(x) ==
  /\ executor[x].pc = "guard"
  /\ Blocking(x) # {}
  /\ Release(x)
  /\ UNCHANGED <<requestStatus, execution, attempt, calls, events>>

GuardPasses(x) ==
  /\ executor[x].pc = "guard"
  /\ SameKey(x) = {}
  /\ Blocking(x) = {}
  /\ executor' = [executor EXCEPT ![x].pc = "claim"]
  /\ UNCHANGED <<requestStatus, execution, attempt, calls, events>>

(* 4.  The UNIQUE constraint on idempotency_key decides who owns the key.    *)
KeyIsFree(k) == Holders(k) = {}

Claim(x, e) ==
  /\ executor[x].pc = "claim"
  /\ KeyIsFree(executor[x].key)
  /\ ~Exists(e)
  /\ execution' = [execution EXCEPT ![e] =
       [request |-> executor[x].request, key |-> executor[x].key,
        status |-> "PENDING"]]
  /\ executor' = [executor EXCEPT ![x].pc = "start", ![x].execution = e]
  /\ UNCHANGED <<requestStatus, attempt, calls, events>>

(* Fault: the loser of the claim goes on with the row.                      *)
ClaimConflict_TakesOver(x) ==
  /\ executor[x].pc = "claim"
  /\ \E e \in Holders(executor[x].key) :
       executor' = [executor EXCEPT ![x].pc = "start", ![x].execution = e]
  /\ UNCHANGED <<requestStatus, execution, attempt, calls, events>>

ClaimConflict(x) ==
  /\ executor[x].pc = "claim"
  /\ ~KeyIsFree(executor[x].key)
  /\ executor' = [executor EXCEPT ![x].pc = "conflict"]
  /\ UNCHANGED <<requestStatus, execution, attempt, calls, events>>

(* The row that holds the key is read and returned, whichever request it     *)
(* belongs to.                                                               *)
ResolveConflict(x) ==
  /\ executor[x].pc = "conflict"
  /\ Release(x)
  /\ UNCHANGED <<requestStatus, execution, attempt, calls, events>>

(* 5.  RUNNING and the attempt row, in one commit; the STARTED event is only *)
(* added to the session.                                                     *)
Start(x) ==
  LET e == executor[x].execution IN
  /\ executor[x].pc = "start"
  /\ execution' = [execution EXCEPT ![e].status = "RUNNING"]
  /\ attempt' = [attempt EXCEPT ![e] = "RUNNING"]
  /\ executor' = [executor EXCEPT ![x].pc = "call",
       ![x].pending = {[execution |-> e, what |-> "STARTED"]}]
  /\ UNCHANGED <<requestStatus, calls, events>>

(* 6.  The adapter acts on the outside world, then reports or raises.        *)
AdapterReports(x, o) ==
  /\ executor[x].pc = "call"
  /\ calls' = [calls EXCEPT ![executor[x].key] = @ + 1]
  /\ executor' = [executor EXCEPT ![x].pc = "settle", ![x].result = o]
  /\ UNCHANGED <<requestStatus, execution, attempt, events>>

AdapterRaises(x) ==
  /\ executor[x].pc = "call"
  /\ calls' = [calls EXCEPT ![executor[x].key] = @ + 1]
  /\ executor' = [executor EXCEPT ![x].pc = "recover"]
  /\ UNCHANGED <<requestStatus, execution, attempt, events>>

(* 7.  The outcome on the execution and on its attempt, and the STARTED      *)
(* event, in one commit.  The event of the outcome is added afterwards.      *)
OutcomeEvents(e, o) ==
  IF o = "UNKNOWN" THEN {} ELSE {[execution |-> e, what |-> o]}

(* Fault: the outcome is answered without a commit.                         *)
Settle_Uncommitted(x) ==
  /\ executor[x].pc = "settle"
  /\ executor' = [executor EXCEPT ![x].pc = "answer", ![x].pending = {}]
  /\ UNCHANGED <<requestStatus, execution, attempt, calls, events>>

Settle(x) ==
  LET e == executor[x].execution
      o == executor[x].result
  IN
  /\ executor[x].pc = "settle"
  /\ execution' = [execution EXCEPT ![e].status = o]
  /\ attempt' = [attempt EXCEPT ![e] = o]
  /\ events' = events \cup executor[x].pending
  /\ executor' = [executor EXCEPT ![x].pc = "answer",
                                  ![x].pending = OutcomeEvents(e, o)]
  /\ UNCHANGED <<requestStatus, calls>>

(* Fault: the attempt is forgotten.                                         *)
Recover_ExecutionOnly(x) ==
  /\ executor[x].pc = "recover"
  /\ execution' = [execution EXCEPT ![executor[x].execution].status = "UNKNOWN"]
  /\ executor' = [executor EXCEPT ![x].pc = "answer", ![x].pending = {}]
  /\ UNCHANGED <<requestStatus, attempt, calls, events>>

(* The exception handler: the rollback drops the STARTED event, the outcome  *)
(* is UNKNOWN ...                                                            *)
Recover(x) ==
  LET e == executor[x].execution IN
  /\ executor[x].pc = "recover"
  /\ execution' = [execution EXCEPT ![e].status = "UNKNOWN"]
  /\ attempt' = [attempt EXCEPT ![e] = "UNKNOWN"]
  /\ executor' = [executor EXCEPT ![x].pc = "answer",
       ![x].pending = {[execution |-> e, what |-> "FAILED"]}]
  /\ UNCHANGED <<requestStatus, calls, events>>

(* ... if the handler gets that far.  The rollback has expired the execution *)
(* whose id it reads next, and an AsyncSession cannot reload an attribute    *)
(* outside an await: the handler raises in its turn.                         *)
RecoverFails(x) ==
  /\ executor[x].pc = "recover"
  /\ Release(x)
  /\ UNCHANGED <<requestStatus, execution, attempt, calls, events>>

(* The execution is read again and returned.  No commit follows.             *)
Finish(x) ==
  /\ executor[x].pc = "answer"
  /\ Release(x)
  /\ UNCHANGED <<requestStatus, execution, attempt, calls, events>>

-----------------------------------------------------------------------------
(* The process ends, the client disconnects, or a commit or a read fails: in *)
(* the last case too nothing more is recorded, the handler being unable to.  *)
Crash(x) ==
  /\ x \in Mortal
  /\ executor[x].pc # "idle"
  /\ Release(x)
  /\ UNCHANGED <<requestStatus, execution, attempt, calls, events>>

Arrive(x) == \E r \in Requests, k \in Keys \cup {NoRow} : Authorize(x, r, k)

Proceed(x) ==
  \/ GuardReturns(x)
  \/ GuardRefuses(x)
  \/ GuardPasses(x)
  \/ \E e \in Executions : Claim(x, e)
  \/ ClaimConflict(x)
  \/ ResolveConflict(x)
  \/ Start(x)
  \/ \E o \in Outcomes : AdapterReports(x, o)
  \/ AdapterRaises(x)
  \/ Settle(x)
  \/ Recover(x)
  \/ RecoverFails(x)
  \/ Finish(x)

Next == \E x \in Executors : Arrive(x) \/ Proceed(x) \/ Crash(x)

Spec == Init /\ [][Next]_vars

(* The event loop resumes an executor whose await has completed, and the     *)
(* adapter comes back: the simulator sleeps 0.1 s.                           *)
FairSpec == Spec /\ \A x \in Executors : WF_vars(Proceed(x))

-----------------------------------------------------------------------------
(* "We are the sole owner of this execution": concurrent calls with one key  *)
(* leave one row, although each of them found none.                          *)
KeyIsClaimedOnce ==
  \A e, f \in Executions :
    Exists(e) /\ Exists(f) /\ execution[e].key = execution[f].key => e = f

(* A key reaches the adapter once, whoever submits it again, and after the   *)
(* database knows that it is about to: a crash leaves a RUNNING row behind,  *)
(* never an action that no row tells of.                                     *)
KeyIsCalledOnce ==
  \A k \in Keys :
    /\ calls[k] <= 1
    /\ calls[k] = 1 => \E e \in Holders(k) : execution[e].status # "PENDING"

(* The attempt row and the execution row tell the same story at any time.    *)
AttemptMirrorsExecution ==
  \A e \in Executions :
    attempt[e] = IF ~Exists(e) \/ execution[e].status = "PENDING" THEN NoRow
                 ELSE execution[e].status

(* An outcome that a client has seen, or could have seen, is not replaced.   *)
OutcomeIsFinal ==
  [][\A e \in Executions : Exists(e) /\ execution[e].status \in Outcomes
       => execution'[e] = execution[e]]_vars

(* The global request guard: an execution that may have taken effect rules   *)
(* out another one for its request.                                          *)
OneEffectPerRequest ==
  \A r \in Requests : \A e, f \in ExecutionsOf(r) :
    /\ execution[e].status \in {"RUNNING", "SUCCEEDED", "UNKNOWN"}
    /\ execution[f].status \in {"RUNNING", "SUCCEEDED", "UNKNOWN"}
    => e = f

(* The executions of a request that may have taken effect.                   *)
Effects(r) ==
  {e \in ExecutionsOf(r) : execution[e].status \in {"RUNNING", "SUCCEEDED", "UNKNOWN"}}

(* The calls that are past the guard of a request and not yet done with it.  *)
Working(r) ==
  {x \in Executors : /\ executor[x].request = r
                     /\ executor[x].pc \in {"claim", "start", "call", "settle",
                                            "recover"}}

HasOneEffect(r) == \E e \in Executions : Effects(r) = {e}

(* Where one execution may have taken effect and nobody works on the request *)
(* any more, none is ever added: not by retries, under whatever keys, after  *)
(* crashes of whoever left it RUNNING, PENDING or UNKNOWN.  Two effects take *)
(* two calls that are past the guard together.                               *)
EffectIsNotRepeated ==
  \A r \in Requests :
    [](HasOneEffect(r) /\ Working(r) = {} => []HasOneEffect(r))

(* The adapter raised an exception while it carried out this execution.      *)
Raised(e) ==
  \E x \in Executors : executor[x].pc = "recover" /\ executor[x].execution = e

(* What an executor that lives claimed it settles, unless the adapter raises. *)
ClaimIsSettled ==
  \A x \in Executors \ Mortal, e \in Executions :
    (executor[x].pc = "start" /\ executor[x].execution = e) ~>
      (Raised(e) \/ (Exists(e) /\ execution[e].status \in Outcomes))

(* The ledger of a key, as the rows that hold it tell it.                    *)
OwnerOf(k) ==
  IF Holders(k) = {} THEN NoRow
  ELSE execution[CHOOSE e \in Holders(k) : TRUE].request

OutcomeOf(k) ==
  IF \E e \in Holders(k) : execution[e].status \in Outcomes
  THEN execution[CHOOSE e \in Holders(k) : TRUE].status
  ELSE NoRow

Ledger == INSTANCE ExecutionLedger WITH
  owner <- [k \in Keys |-> OwnerOf(k)],
  outcome <- [k \in Keys |-> OutcomeOf(k)]

(* Every step of the executors is a step of the ledger, or none.             *)
ImplementsLedger == Ledger!Spec
=============================================================================
