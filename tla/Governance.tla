----------------------------- MODULE Governance -----------------------------
(***************************************************************************)
(* The chain of governance over one database: policy evaluations           *)
(* (PolicyEngine), the action requests that refer to them (ActionRequest)  *)
(* and the executions of approved requests (ActionExecution).  The three   *)
(* share tables and nothing else; a step of one leaves the others' alone.  *)
(***************************************************************************)
EXTENDS Naturals, Sequences

CONSTANTS
  Investigations, Actions, Evaluators, MaxEvaluations,
  Requests, Handlers,
  Executions, Keys, DefaultKey, Executors,
  NoRow,
  MortalHandlers, MortalExecutors

VARIABLES
  evaluations, evaluator,
  request, audit, announced, handler,
  execution, attempt, calls, events, executor

policyVars == <<evaluations, evaluator>>
requestVars == <<request, audit, announced, handler>>
executionVars == <<execution, attempt, calls, events, executor>>
vars == <<policyVars, requestVars, executionVars>>

-----------------------------------------------------------------------------
Evaluations == 1..MaxEvaluations

(* What create_from_evaluation reads of the policy_evaluation table.         *)
decisionOf == [e \in Evaluations |->
  IF e \in DOMAIN evaluations THEN evaluations[e].decision ELSE NoRow]

(* What execute_action_request reads of the action_requests table.           *)
statusOf == [r \in Requests |->
  IF request[r] = NoRow THEN NoRow ELSE request[r].status]

PE == INSTANCE PolicyEngine
AR == INSTANCE ActionRequest WITH
  evaluations <- decisionOf, Mortal <- MortalHandlers
AE == INSTANCE ActionExecution WITH
  requestStatus <- statusOf, Mortal <- MortalExecutors

(* The kinds of rows and NULL are told apart, and callers ask for the        *)
(* actions of the PolicyAction enumeration.                                  *)
ASSUME NoRowAssumption ==
  /\ NoRow \notin Requests \cup Evaluations \cup Handlers
  /\ NoRow \notin AR!Row \cup AR!Statuses \cup AR!Decisions
  /\ NoRow \notin Executions \cup Keys
  /\ NoRow \notin AE!Row \cup AE!ExecutionStatuses

ASSUME MaxEvaluationsAssumption == MaxEvaluations \in Nat

ASSUME ActionsAssumption == Actions \subseteq PE!PolicyActions

ASSUME KeysAssumption ==
  /\ DefaultKey \in [Requests -> Keys]
  /\ \A r, s \in Requests : DefaultKey[r] = DefaultKey[s] => r = s

ASSUME MortalAssumption ==
  MortalHandlers \subseteq Handlers /\ MortalExecutors \subseteq Executors

Init ==
  /\ PE!Init
  /\ AR!Init
  /\ AE!Init

PolicyStep == PE!Next /\ UNCHANGED <<requestVars, executionVars>>
RequestStep == UNCHANGED <<policyVars, executionVars>> /\ AR!Next
ExecutionStep == UNCHANGED <<policyVars, requestVars>> /\ AE!Next

Next == PolicyStep \/ RequestStep \/ ExecutionStep

Spec == Init /\ [][Next]_vars

-----------------------------------------------------------------------------
(* The tables and what is in flight, each as its component has it.           *)
TypeOK == PE!TypeOK /\ AR!TypeOK /\ AE!TypeOK

(* A human approved it: the audit trail of the request has an approval.      *)
WasApproved(r) == \E n \in 1..Len(audit[r]) : audit[r][n].to = "APPROVED"

(* "Financial execution requires human approval": nothing is claimed for a   *)
(* request, and the adapter is not called for it, unless the audit trail     *)
(* shows an approval and the policy had asked for one.                       *)
ExecutedOnlyIfApproved ==
  \A e \in Executions : execution[e] # NoRow =>
    LET r == execution[e].request IN
    /\ request[r] # NoRow
    /\ WasApproved(r)
    /\ decisionOf[request[r].evaluation] = "APPROVAL_REQUIRED"
=============================================================================
