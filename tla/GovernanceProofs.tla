-------------------------- MODULE GovernanceProofs --------------------------
(***************************************************************************)
(* The chain of governance keeps what its parts were proved to keep each   *)
(* on its own, and a human has approved whatever is executed: for any      *)
(* number of evaluations, requests, handlers and executors, whichever of   *)
(* them may die.                                                           *)
(***************************************************************************)
EXTENDS ExceptionView, SequenceTheorems, TLAPS

ARP == INSTANCE ActionRequestProofs WITH
  evaluations <- decisionOf, Mortal <- MortalHandlers

AEP == INSTANCE ActionExecutionProofs WITH
  requestStatus <- statusOf, Mortal <- MortalExecutors

(* The assumptions of the parts are those of the whole.                      *)
LEMMA RequestAssumptions == ARP!NoRowAssumption /\ ARP!MortalAssumption
BY NoRowAssumption, MortalAssumption DEF ARP!NoRowAssumption, ARP!MortalAssumption,
   ARP!Row, AR!Row, ARP!Statuses, AR!Statuses, ARP!Verdicts, AR!Verdicts

LEMMA ExecutionAssumptions ==
  AEP!KeysAssumption /\ AEP!MortalAssumption /\ AEP!NoRowAssumption
BY NoRowAssumption, KeysAssumption, MortalAssumption
   DEF AEP!KeysAssumption, AEP!MortalAssumption, AEP!NoRowAssumption, AEP!Row,
   AE!Row, AEP!ExecutionStatuses, AE!ExecutionStatuses, AEP!Outcomes, AE!Outcomes

(* The parts, and the parts with their theorems, take the same steps.        *)
LEMMA SameInit == AR!Init /\ AE!Init => ARP!Init /\ AEP!Init
BY DEF AR!Init, ARP!Init, AR!Idle, ARP!Idle, AR!Decisions, ARP!Decisions,
   AE!Init, AEP!Init, AE!Idle, AEP!Idle, AE!RequestStatuses, AEP!RequestStatuses

LEMMA SameRequestStep == AR!Next => ARP!Next
BY DEF AR!StartCreate, ARP!StartCreate, AR!InsertRequest, ARP!InsertRequest,
   AR!InsertConflict, ARP!InsertConflict, AR!ResolveConflict,
   ARP!ResolveConflict, AR!AnnounceCreated, ARP!AnnounceCreated,
   AR!LoadRequest, ARP!LoadRequest, AR!CommitTransition,
   ARP!CommitTransition, AR!RecordVerdict, ARP!RecordVerdict,
   AR!AnnounceVerdict, ARP!AnnounceVerdict, AR!Crash, ARP!Crash, AR!Arrive,
   ARP!Arrive, AR!Proceed, ARP!Proceed, AR!Next, ARP!Next, AR!Exists,
   ARP!Exists, AR!RowsFor, ARP!RowsFor, AR!Idle, ARP!Idle,
   AR!RequiresApproval, ARP!RequiresApproval, AR!UniqueEvaluation,
   ARP!UniqueEvaluation, AR!Release, ARP!Release, AR!CanTransition,
   ARP!CanTransition, AR!AuditEntry, ARP!AuditEntry, AR!Verdicts, ARP!Verdicts

LEMMA SameExecutionStep == AE!Next => AEP!Next
BY DEF AE!Authorize, AEP!Authorize, AE!Authorized, AEP!Authorized,
   AE!GuardReturns, AEP!GuardReturns, AE!GuardRefuses, AEP!GuardRefuses,
   AE!GuardPasses, AEP!GuardPasses, AE!SameKey, AEP!SameKey, AE!Blocking,
   AEP!Blocking, AE!BlockingStatuses, AEP!BlockingStatuses, AE!Claim,
   AEP!Claim, AE!KeyIsFree, AEP!KeyIsFree, AE!Holders, AEP!Holders,
   AE!ClaimConflict, AEP!ClaimConflict, AE!ResolveConflict,
   AEP!ResolveConflict, AE!Start, AEP!Start, AE!AdapterReports,
   AEP!AdapterReports, AE!AdapterRaises, AEP!AdapterRaises, AE!OutcomeEvents,
   AEP!OutcomeEvents, AE!Settle, AEP!Settle, AE!Recover, AEP!Recover,
   AE!RecoverFails, AEP!RecoverFails, AE!Finish, AEP!Finish, AE!Crash,
   AEP!Crash, AE!Arrive, AEP!Arrive, AE!Proceed, AEP!Proceed, AE!Next,
   AEP!Next, AE!Exists, AEP!Exists, AE!ExecutionsOf, AEP!ExecutionsOf,
   AE!Idle, AEP!Idle, AE!Release, AEP!Release, AE!Outcomes, AEP!Outcomes

-----------------------------------------------------------------------------
(* What a caller of the policy engine takes over the await is typed, and the *)
(* table stays within its bound.                                             *)
PolicyInv ==
  /\ PE!TypeOK
  /\ DOMAIN evaluations \subseteq Evaluations
  /\ \A v \in Evaluators : evaluator[v].pc = "insert" =>
       /\ evaluator[v].investigation \in Investigations
       /\ evaluator[v].action \in PE!PolicyActions

TypeInv == PolicyInv /\ ARP!TypeInv /\ AEP!TypeInv

(* Evaluations are added at the end and never changed.                       *)
LEMMA PolicySteps ==
  ASSUME PolicyInv, PE!Next
  PROVE  /\ PolicyInv'
         /\ \A e \in DOMAIN evaluations :
              e \in DOMAIN evaluations' /\ evaluations'[e] = evaluations[e]
<1> USE DEF PolicyInv, PE!TypeOK
<1>1. ASSUME NEW v \in Evaluators, NEW i \in Investigations, NEW a \in Actions,
             PE!Check(v, i, a)
      PROVE  PolicyInv' /\ UNCHANGED evaluations
  <2> DEFINE act == [pc |-> "insert", investigation |-> i, action |-> a]
  <2>1. /\ act \in PE!Activity /\ act.investigation \in Investigations
        /\ act.action \in PE!PolicyActions
    BY ActionsAssumption DEF PE!Activity
  <2>2. evaluator' = [evaluator EXCEPT ![v] = act] /\ UNCHANGED evaluations
    BY <1>1 DEF PE!Check
  <2> HIDE DEF act
  <2>3. evaluator' \in [Evaluators -> PE!Activity] /\ evaluator'[v] = act
        /\ \A w \in Evaluators : w # v => evaluator'[w] = evaluator[w]
    BY <2>1, <2>2
  <2> QED
    BY <2>1, <2>2, <2>3
<1>2. ASSUME NEW v \in Evaluators, evaluator' = [evaluator EXCEPT ![v] = PE!Idle],
             evaluations' \in Seq(PE!EvaluationRow),
             DOMAIN evaluations' \subseteq Evaluations
      PROVE  PolicyInv'
  <2>1. PE!Idle \in PE!Activity /\ PE!Idle.pc = "idle"
    BY DEF PE!Idle, PE!Activity
  <2>2. evaluator' \in [Evaluators -> PE!Activity] /\ evaluator'[v] = PE!Idle
        /\ \A w \in Evaluators : w # v => evaluator'[w] = evaluator[w]
    BY <1>2, <2>1
  <2> QED
    BY <1>2, <2>1, <2>2
<1>3. ASSUME NEW v \in Evaluators, PE!Insert(v)
      PROVE  /\ PolicyInv'
             /\ \A e \in DOMAIN evaluations :
                  e \in DOMAIN evaluations' /\ evaluations'[e] = evaluations[e]
  <2> DEFINE row == PE!Evaluation(evaluator[v].investigation, evaluator[v].action)
  <2>1. /\ evaluator[v].investigation \in Investigations
        /\ evaluator[v].action \in PE!PolicyActions
    BY <1>3 DEF PE!Insert
  <2>2. row \in PE!EvaluationRow
    BY <2>1 DEF PE!Evaluation, PE!EvaluationRow, PE!Decision
  <2>3. evaluations' = Append(evaluations, row)
        /\ evaluator' = [evaluator EXCEPT ![v] = PE!Idle]
    BY <1>3 DEF PE!Insert
  <2> HIDE DEF row
  <2>4. /\ evaluations' \in Seq(PE!EvaluationRow)
        /\ Len(evaluations') = Len(evaluations) + 1
        /\ \A e \in 1..Len(evaluations) : evaluations'[e] = evaluations[e]
    BY <2>2, <2>3, AppendProperties
  <2>5. /\ DOMAIN evaluations = 1..Len(evaluations) /\ Len(evaluations) \in Nat
        /\ DOMAIN evaluations' = 1..Len(evaluations')
    BY <2>4
  <2>6. PolicyInv'
    <3>1. Len(evaluations') <= MaxEvaluations
      BY <1>3, <2>4, <2>5, MaxEvaluationsAssumption DEF PE!Insert
    <3>2. DOMAIN evaluations' \subseteq Evaluations
      BY <2>4, <2>5, <3>1, MaxEvaluationsAssumption DEF Evaluations
    <3> QED
      BY <1>2, <2>3, <2>4, <3>2
  <2>7. \A e \in DOMAIN evaluations :
          e \in DOMAIN evaluations' /\ evaluations'[e] = evaluations[e]
    BY <2>4, <2>5
  <2> QED
    BY <2>6, <2>7
<1>4. ASSUME NEW v \in Evaluators, PE!Crash(v)
      PROVE  PolicyInv' /\ UNCHANGED evaluations
  BY <1>2, <1>4 DEF PE!Crash
<1> QED
  BY <1>1, <1>3, <1>4 DEF PE!Next

LEMMA DecisionsTyped ==
  ASSUME PolicyInv'
  PROVE  decisionOf' \in [Evaluations -> ARP!Decisions \cup {NoRow}]
<1>1. \A e \in DOMAIN evaluations' : evaluations'[e] \in PE!EvaluationRow
  BY DEF PolicyInv, PE!TypeOK
<1> QED
  BY <1>1 DEF decisionOf, PE!EvaluationRow, ARP!Decisions

(* A decision that was read stays what it was.                               *)
LEMMA DecisionsStay ==
  ASSUME PolicyInv, PE!Next, NEW e \in Evaluations,
         decisionOf[e] = "APPROVAL_REQUIRED"
  PROVE  decisionOf'[e] = "APPROVAL_REQUIRED"
<1>1. e \in DOMAIN evaluations
  BY NoRowAssumption DEF decisionOf, AR!Decisions
<1>2. e \in DOMAIN evaluations' /\ evaluations'[e] = evaluations[e]
  BY <1>1, PolicySteps
<1> QED
  BY <1>1, <1>2 DEF decisionOf

LEMMA StatusesTyped ==
  ASSUME ARP!TypeInv'
  PROVE  statusOf' \in [Requests -> AEP!RequestStatuses \cup {NoRow}]
BY DEF statusOf, ARP!TypeInv, ARP!TypeOK, ARP!Row, ARP!Statuses, ARP!Verdicts,
       AEP!RequestStatuses

LEMMA TypeInit == Init => TypeInv
<1> SUFFICES ASSUME Init PROVE TypeInv
  OBVIOUS
<1>1. PolicyInv
  BY DEF Init, PE!Init, PolicyInv, PE!TypeOK, PE!Idle, PE!Activity
<1>2. ARP!Init /\ AEP!Init
  BY SameInit DEF Init
<1> QED
  BY <1>1, <1>2, ARP!TypeInit, AEP!TypeInit, RequestAssumptions,
     ExecutionAssumptions DEF TypeInv

LEMMA PolicyTypes == TypeInv /\ PolicyStep => TypeInv'
<1> SUFFICES ASSUME TypeInv, PolicyStep PROVE TypeInv'
  OBVIOUS
<1>1. PolicyInv'
  BY PolicySteps DEF TypeInv, PolicyStep
<1>2. decisionOf' \in [Evaluations -> ARP!Decisions \cup {NoRow}]
  BY <1>1, DecisionsTyped
<1>3. ARP!TypeInv'
  BY <1>2 DEF TypeInv, PolicyStep, requestVars, ARP!TypeInv, ARP!TypeOK,
     ARP!CarriesItsWork, ARP!Exists
<1>4. AEP!TypeInv'
  BY DEF TypeInv, PolicyStep, requestVars, executionVars, statusOf, AEP!TypeInv,
     AEP!TypeOK, AEP!CarriesItsWork, AEP!Owns, AEP!Exists
<1> QED
  BY <1>1, <1>3, <1>4 DEF TypeInv

LEMMA RequestTypes == TypeInv /\ RequestStep => TypeInv'
<1> SUFFICES ASSUME TypeInv, RequestStep PROVE TypeInv'
  OBVIOUS
<1>1. PolicyInv'
  BY DEF TypeInv, RequestStep, policyVars, PolicyInv, PE!TypeOK
<1>2. ARP!TypeInv'
  BY SameRequestStep, ARP!TypeStep, RequestAssumptions DEF TypeInv, RequestStep
<1>3. statusOf' \in [Requests -> AEP!RequestStatuses \cup {NoRow}]
  BY <1>2, StatusesTyped
<1>4. AEP!TypeInv'
  BY <1>3 DEF TypeInv, RequestStep, executionVars, AEP!TypeInv, AEP!TypeOK,
     AEP!CarriesItsWork, AEP!Owns, AEP!Exists
<1> QED
  BY <1>1, <1>2, <1>4 DEF TypeInv

LEMMA ExecutionTypes == TypeInv /\ ExecutionStep => TypeInv'
<1> SUFFICES ASSUME TypeInv, ExecutionStep PROVE TypeInv'
  OBVIOUS
<1>1. PolicyInv'
  BY DEF TypeInv, ExecutionStep, policyVars, PolicyInv, PE!TypeOK
<1>2. ARP!TypeInv'
  BY DEF TypeInv, ExecutionStep, policyVars, requestVars, decisionOf, ARP!TypeInv,
     ARP!TypeOK, ARP!CarriesItsWork, ARP!Exists
<1>3. AEP!TypeInv'
  BY SameExecutionStep, AEP!TypeStep, ExecutionAssumptions DEF TypeInv, ExecutionStep
<1> QED
  BY <1>1, <1>2, <1>3 DEF TypeInv

LEMMA Stutters ==
  ASSUME TypeInv, UNCHANGED vars
  PROVE  TypeInv'
BY DEF TypeInv, vars, policyVars, requestVars, executionVars, decisionOf, statusOf,
   PolicyInv, PE!TypeOK, ARP!TypeInv, ARP!TypeOK, ARP!CarriesItsWork, ARP!Exists,
   AEP!TypeInv, AEP!TypeOK, AEP!CarriesItsWork, AEP!Owns, AEP!Exists

LEMMA TypeStep == TypeInv /\ [Next]_vars => TypeInv'
BY PolicyTypes, RequestTypes, ExecutionTypes, Stutters DEF Next

-----------------------------------------------------------------------------
(* The request is there, its evaluation asked for an approval, and its audit *)
(* trail shows one.                                                          *)
Sanctioned(r) == r \in Requests /\ request[r] # NoRow /\ WasApproved(r)

Inv ==
  /\ TypeInv
  /\ ARP!AuditInv
  /\ ARP!AskedInv
  /\ AEP!LedgerInv
  /\ \A x \in Executors : executor[x].pc # "idle" => Sanctioned(executor[x].request)
  /\ \A e \in Executions :
       execution[e] # NoRow => Sanctioned(execution[e].request)

LEMMA InvInit == Init => Inv
<1> SUFFICES ASSUME Init PROVE Inv
  OBVIOUS
<1>1. TypeInv /\ ARP!AuditInv /\ ARP!AskedInv /\ AEP!LedgerInv
  BY TypeInit, SameInit, ARP!AuditInit, ARP!AskedInit, AEP!LedgerInit,
     RequestAssumptions, ExecutionAssumptions DEF Init
<1>2. /\ \A x \in Executors : executor[x].pc = "idle"
      /\ \A e \in Executions : execution[e] = NoRow
  BY DEF Init, AE!Init, AE!Idle
<1> QED
  BY <1>1, <1>2 DEF Inv

(* An approval is never taken from the audit trail, nor a request deleted.   *)
LEMMA SanctionStays ==
  ASSUME TypeInv, RequestStep, NEW r, Sanctioned(r)
  PROVE  Sanctioned(r)'
<1>1. PICK n \in 1..Len(audit[r]) : audit[r][n].to = "APPROVED"
  BY DEF Sanctioned, WasApproved
<1>2. ARP!AuditedBy(r, "APPROVED", audit[r][n].actor)
  BY <1>1 DEF ARP!AuditedBy
<1>3. PICK g : g = audit[r][n].actor
  OBVIOUS
<1>4. ARP!AuditedBy(r, "APPROVED", g)'
  BY <1>2, <1>3, SameRequestStep, ARP!AuditIsAppendOnly, RequestAssumptions
     DEF TypeInv, RequestStep, Sanctioned
<1>5. request'[r] # NoRow
  BY SameRequestStep, ARP!RowsPersist, RequestAssumptions
     DEF TypeInv, RequestStep, Sanctioned, ARP!Exists
<1> QED
  BY <1>4, <1>5 DEF Sanctioned, WasApproved, ARP!AuditedBy

(* What an executor finds authorized is a request with an approval.          *)
LEMMA AuthorizedIsSanctioned ==
  ASSUME ARP!AuditInv, NEW r \in Requests, AEP!Authorized(r)
  PROVE  Sanctioned(r)
<1>1. request[r] # NoRow /\ request[r].status = "APPROVED"
  BY NoRowAssumption DEF AEP!Authorized, statusOf, AR!Statuses, AR!Verdicts
<1>2. /\ audit[r] # << >> /\ audit[r][Len(audit[r])].to = "APPROVED"
      /\ audit[r] \in Seq(ARP!AuditRow)
  BY <1>1 DEF ARP!AuditInv, ARP!StatusIsLastAudited, ARP!Exists, ARP!TypeInv, ARP!TypeOK
<1>3. Len(audit[r]) \in 1..Len(audit[r])
  BY <1>2, EmptySeq
<1> QED
  BY <1>1, <1>2, <1>3 DEF Sanctioned, WasApproved

(* What the executions look like does not depend on the other tables.        *)
LEMMA LedgerStays ==
  ASSUME Inv, TypeInv', UNCHANGED executionVars
  PROVE  AEP!LedgerInv'
BY DEF executionVars, Inv, TypeInv, AEP!LedgerInv, AEP!KeyIsClaimedOnce,
   AEP!KeyIsCalledOnce, AEP!AttemptMirrorsExecution, AEP!SoleOwner, AEP!OwnerInv,
   AEP!Holders, AEP!Exists, AEP!Owns

LEMMA PolicyKeeps == Inv /\ PolicyStep => Inv'
<1> SUFFICES ASSUME Inv, PolicyStep PROVE Inv'
  OBVIOUS
<1>1. TypeInv /\ TypeInv' /\ PolicyInv /\ PE!Next
  BY PolicyTypes DEF Inv, TypeInv, PolicyStep
<1>2. UNCHANGED <<request, audit, announced, handler, execution, executor>>
  BY DEF PolicyStep, requestVars, executionVars
<1>3. ARP!AuditInv'
  BY <1>1, <1>2 DEF Inv, TypeInv, ARP!AuditInv, ARP!StatusIsLastAudited, ARP!Exists
<1>4. ARP!AskedInv'
  <2>1. ASSUME NEW r \in Requests, request[r] # NoRow
        PROVE  decisionOf'[request[r].evaluation] = "APPROVAL_REQUIRED"
    <3>1. PICK e \in Evaluations : e = request[r].evaluation
      BY <1>1, <2>1 DEF TypeInv, ARP!TypeInv, ARP!TypeOK, ARP!Row
    <3>2. decisionOf[e] = "APPROVAL_REQUIRED"
      BY <2>1, <3>1 DEF Inv, ARP!AskedInv, ARP!RequiresApproval, ARP!Exists
    <3> QED
      BY <1>1, <3>1, <3>2, DecisionsStay
  <2>2. ASSUME NEW h \in Handlers, handler[h].pc = "insert"
        PROVE  decisionOf'[handler[h].evaluation] = "APPROVAL_REQUIRED"
    <3>1. PICK e \in Evaluations : e = handler[h].evaluation
      BY <1>1, <2>2 DEF TypeInv, ARP!TypeInv, ARP!CarriesItsWork
    <3>2. decisionOf[e] = "APPROVAL_REQUIRED"
      BY <2>2, <3>1 DEF Inv, ARP!AskedInv, ARP!RequiresApproval
    <3> QED
      BY <1>1, <3>1, <3>2, DecisionsStay
  <2> QED
    BY <1>2, <2>1, <2>2 DEF ARP!AskedInv, ARP!RequiresApproval, ARP!Exists
<1>5. AEP!LedgerInv'
  BY <1>1, LedgerStays DEF PolicyStep
<1> QED
  BY <1>1, <1>2, <1>3, <1>4, <1>5 DEF Inv, Sanctioned, WasApproved

LEMMA RequestKeeps == Inv /\ RequestStep => Inv'
<1> SUFFICES ASSUME Inv, RequestStep PROVE Inv'
  OBVIOUS
<1>1. TypeInv /\ TypeInv'
  BY RequestTypes DEF Inv
<1>2. ARP!AuditInv' /\ ARP!AskedInv'
  BY <1>1, SameRequestStep, ARP!AuditStep, ARP!AskedStep, RequestAssumptions
     DEF Inv, TypeInv, RequestStep
<1>3. UNCHANGED <<execution, executor>>
  BY DEF RequestStep, executionVars
<1>4. \A r : Sanctioned(r) => Sanctioned(r)'
  BY <1>1, SanctionStays
<1>5. AEP!LedgerInv'
  BY <1>1, LedgerStays DEF RequestStep
<1> QED
  BY <1>1, <1>2, <1>3, <1>4, <1>5 DEF Inv

LEMMA ExecutionKeeps == Inv /\ ExecutionStep => Inv'
<1> SUFFICES ASSUME Inv, ExecutionStep PROVE Inv'
  OBVIOUS
<1>1. TypeInv /\ TypeInv' /\ AEP!TypeInv /\ AEP!Next
  BY ExecutionTypes, SameExecutionStep DEF Inv, TypeInv, ExecutionStep
<1>2. UNCHANGED <<evaluations, request, audit, announced, handler>>
  BY DEF ExecutionStep, policyVars, requestVars
<1>3. UNCHANGED decisionOf
  BY <1>2 DEF decisionOf
<1>4. ARP!AuditInv' /\ ARP!AskedInv'
  BY <1>1, <1>2, <1>3 DEF Inv, TypeInv, ARP!AuditInv, ARP!StatusIsLastAudited,
     ARP!Exists, ARP!AskedInv, ARP!RequiresApproval
<1>5. \A r : Sanctioned(r)' <=> Sanctioned(r)
  BY <1>2 DEF Sanctioned, WasApproved
<1>6. ASSUME NEW x \in Executors, executor'[x].pc # "idle"
      PROVE  Sanctioned(executor'[x].request)
  <2>1. CASE executor[x].pc # "idle" /\ executor'[x].request = executor[x].request
    BY <2>1 DEF Inv
  <2>2. CASE /\ executor'[x].request \in Requests
             /\ AEP!Authorized(executor'[x].request)
    BY <2>2, AuthorizedIsSanctioned DEF Inv
  <2> QED
    BY <1>1, <1>6, <2>1, <2>2, AEP!WorksForAuthorized, ExecutionAssumptions
<1>7. ASSUME NEW e \in Executions, execution'[e] # NoRow
      PROVE  Sanctioned(execution'[e].request)
  BY <1>1, <1>7, AEP!RowsNameTheirRequest, ExecutionAssumptions DEF Inv, AEP!Exists
<1>8. \A x \in Executors : (executor[x].pc # "idle" => Sanctioned(executor[x].request))'
  BY <1>2, <1>6 DEF Sanctioned, WasApproved
<1>9. \A e \in Executions :
        (execution[e] # NoRow => Sanctioned(execution[e].request))'
  BY <1>2, <1>7 DEF Sanctioned, WasApproved
<1>10. AEP!LedgerInv'
  BY <1>1, AEP!LedgerStep, ExecutionAssumptions DEF Inv, TypeInv
<1> QED
  BY <1>1, <1>4, <1>8, <1>9, <1>10 DEF Inv

LEMMA InvStep == Inv /\ [Next]_vars => Inv'
<1>1. ASSUME Inv, UNCHANGED vars PROVE Inv'
  <2>1. UNCHANGED <<evaluations, request, audit, announced, handler, execution,
                    executor>>
    BY <1>1 DEF vars, policyVars, requestVars, executionVars
  <2>2. TypeInv' /\ UNCHANGED decisionOf /\ AEP!LedgerInv'
    BY <1>1, <2>1, Stutters, LedgerStays DEF Inv, decisionOf, vars
  <2> QED
    BY <1>1, <2>1, <2>2 DEF Inv, TypeInv, ARP!AuditInv, ARP!StatusIsLastAudited,
       ARP!Exists, ARP!AskedInv, ARP!RequiresApproval, Sanctioned, WasApproved
<1> QED
  BY <1>1, PolicyKeeps, RequestKeeps, ExecutionKeeps DEF Next

LEMMA Invariance == Spec => []Inv
BY InvInit, InvStep, PTL DEF Spec

-----------------------------------------------------------------------------
(* The three components on one database keep the types that each was proved  *)
(* to keep on a database of its own.                                         *)
THEOREM TypeInvariance == Spec => []TypeOK
<1>1. Inv => TypeOK
  BY DEF Inv, TypeInv, PolicyInv, TypeOK,
     AR!TypeOK, ARP!TypeInv, ARP!TypeOK, AR!Row, ARP!Row, AR!AuditRow, ARP!AuditRow,
     AR!Announcement, ARP!Announcement, AR!Activity, ARP!Activity,
     AR!Decisions, ARP!Decisions, AR!Verdicts, ARP!Verdicts, AR!Statuses, ARP!Statuses,
     AE!TypeOK, AEP!TypeInv, AEP!TypeOK, AE!Row, AEP!Row, AE!Event, AEP!Event,
     AE!Activity, AEP!Activity, AE!Outcomes, AEP!Outcomes,
     AE!ExecutionStatuses, AEP!ExecutionStatuses,
     AE!RequestStatuses, AEP!RequestStatuses
<1> QED
  BY <1>1, Invariance, PTL

(* Nothing is claimed or carried out for a request unless the policy had     *)
(* asked for an approval and the audit trail shows one, whatever deciders    *)
(* and executors do at once and wherever they die.                           *)
THEOREM ApprovalPrecedesExecution == Spec => []ExecutedOnlyIfApproved
<1>1. Inv => ExecutedOnlyIfApproved
  BY DEF Inv, Sanctioned, ExecutedOnlyIfApproved, ARP!AskedInv, ARP!Exists,
     ARP!RequiresApproval
<1> QED
  BY <1>1, Invariance, PTL

-----------------------------------------------------------------------------
(* The view: the state of an exception, derived twice.                       *)

(* What stands in the columns of a joined row.                               *)
Columns(row) ==
  /\ row \in [inv : InvestigationStatuses \cup {NoRow},
              pol : AR!Decisions \cup {NoRow},
              req : AR!Statuses \cup {NoRow},
              exec : AE!ExecutionStatuses \cup {NoRow}]

(* The first of the arms that hold is the one that the CASE takes.           *)
LEMMA FirstArm ==
  ASSUME NEW S \in SUBSET (1..11), NEW n \in S, \A m \in S : n <= m
  PROVE  Min(S) = n
<1>1. \A m \in S : (\A k \in S : m <= k) => m = n
  <2>1. \A m \in S : m \in Int
    OBVIOUS
  <2>2. n <= n
    OBVIOUS
  <2> QED
    BY <2>1
<1> QED
  BY <1>1 DEF Min

ArmHits(row) == {n \in DOMAIN Arms : row[Arms[n].column] \in Arms[n].values}

LEMMA ArmsHit ==
  ASSUME NEW row
  PROVE  /\ ArmHits(row) \in SUBSET (1..11)
         /\ 1 \in ArmHits(row) <=> row.exec = "SUCCEEDED"
         /\ 2 \in ArmHits(row) <=> row.exec = "FAILED"
         /\ 3 \in ArmHits(row) <=> row.exec = "UNKNOWN"
         /\ 4 \in ArmHits(row) <=> row.exec \in {"PENDING", "RUNNING"}
         /\ 5 \in ArmHits(row) <=> row.req = "APPROVED"
         /\ 6 \in ArmHits(row) <=> row.req = "PENDING_APPROVAL"
         /\ 7 \in ArmHits(row) <=> row.req \in {"REJECTED", "CANCELLED"}
         /\ 8 \in ArmHits(row) <=> row.pol = "DENIED"
         /\ 9 \in ArmHits(row) <=> row.pol = "APPROVAL_REQUIRED"
         /\ 10 \in ArmHits(row) <=> row.inv = "PENDING"
         /\ 11 \in ArmHits(row) <=> row.inv \in {"FAILED", "UNAVAILABLE"}
<1>1. DOMAIN Arms = 1..11
  BY DEF Arms
<1>2. /\ Arms[1] = Arm("exec", {"SUCCEEDED"}, "RESOLVED")
      /\ Arms[2] = Arm("exec", {"FAILED"}, "FAILED")
      /\ Arms[3] = Arm("exec", {"UNKNOWN"}, "UNKNOWN")
      /\ Arms[4] = Arm("exec", {"PENDING", "RUNNING"}, "EXECUTING")
      /\ Arms[5] = Arm("req", {"APPROVED"}, "APPROVED")
      /\ Arms[6] = Arm("req", {"PENDING_APPROVAL"}, "AWAITING_APPROVAL")
      /\ Arms[7] = Arm("req", {"REJECTED", "CANCELLED"}, "OPEN")
      /\ Arms[8] = Arm("pol", {"DENIED"}, "RESOLVED")
      /\ Arms[9] = Arm("pol", {"APPROVAL_REQUIRED"}, "AWAITING_APPROVAL")
      /\ Arms[10] = Arm("inv", {"PENDING"}, "INVESTIGATING")
      /\ Arms[11] = Arm("inv", {"FAILED", "UNAVAILABLE"}, "FAILED")
  BY DEF Arms
<1>3. \A c, v, s : /\ Arm(c, v, s).column = c /\ Arm(c, v, s).values = v
                   /\ Arm(c, v, s).state = s
  BY DEF Arm
<1> QED
  BY <1>1, <1>2, <1>3 DEF ArmHits

LEMMA ArmDecides ==
  ASSUME NEW row, NEW n \in ArmHits(row), \A m \in 1..11 : m < n => m \notin ArmHits(row)
  PROVE  SqlState(row) = Arms[n].state
<1>1. ArmHits(row) \in SUBSET (1..11)
  BY ArmsHit
<1>2. \A m \in ArmHits(row) : n <= m
  BY <1>1
<1>3. Min(ArmHits(row)) = n
  BY <1>1, <1>2, FirstArm
<1> QED
  BY <1>3 DEF SqlState, ArmHits

LEMMA ArmStates ==
  /\ Arms[1].state = "RESOLVED" /\ Arms[2].state = "FAILED"
  /\ Arms[3].state = "UNKNOWN" /\ Arms[4].state = "EXECUTING"
  /\ Arms[5].state = "APPROVED" /\ Arms[6].state = "AWAITING_APPROVAL"
  /\ Arms[7].state = "OPEN" /\ Arms[8].state = "RESOLVED"
  /\ Arms[9].state = "AWAITING_APPROVAL" /\ Arms[10].state = "INVESTIGATING"
  /\ Arms[11].state = "FAILED"
BY DEF Arms, Arm

(* What each status says, if it says anything.                               *)
LEMMA ExecSays ==
  ASSUME NEW s \in AE!ExecutionStatuses \cup {NoRow}
  PROVE  Lookup(ExecState, s) =
           CASE s = "SUCCEEDED" -> "RESOLVED" [] s = "FAILED" -> "FAILED"
             [] s = "UNKNOWN" -> "UNKNOWN" [] s \in {"PENDING", "RUNNING"} -> "EXECUTING"
             [] OTHER -> NoRow
BY NoRowAssumption DEF Lookup, ExecState, AE!ExecutionStatuses, AE!Outcomes

LEMMA ReqSays ==
  ASSUME NEW s \in AR!Statuses \cup {NoRow}
  PROVE  Lookup(ReqState, s) =
           CASE s = "APPROVED" -> "APPROVED"
             [] s = "PENDING_APPROVAL" -> "AWAITING_APPROVAL"
             [] s \in {"REJECTED", "CANCELLED"} -> "OPEN"
             [] OTHER -> NoRow
BY NoRowAssumption DEF Lookup, ReqState, AR!Statuses, AR!Verdicts

LEMMA PolSays ==
  ASSUME NEW s \in AR!Decisions \cup {NoRow}
  PROVE  Lookup(PolState, s) =
           CASE s = "DENIED" -> "RESOLVED"
             [] s = "APPROVAL_REQUIRED" -> "AWAITING_APPROVAL"
             [] OTHER -> NoRow
BY NoRowAssumption DEF Lookup, PolState, AR!Decisions

LEMMA InvSays ==
  ASSUME NEW s \in InvestigationStatuses \cup {NoRow}
  PROVE  Lookup(InvState, s) =
           CASE s = "PENDING" -> "INVESTIGATING"
             [] s \in {"FAILED", "UNAVAILABLE"} -> "FAILED"
             [] OTHER -> NoRow
BY StatesAssumption DEF Lookup, InvState, InvestigationStatuses

(* The two derivations of the state of an exception are one function of the  *)
(* four columns.                                                             *)
LEMMA SameState ==
  ASSUME NEW row, Columns(row)
  PROVE  SqlState(row) = OverallState(row)
<1>0. /\ row.exec \in AE!ExecutionStatuses \cup {NoRow}
      /\ row.req \in AR!Statuses \cup {NoRow}
      /\ row.pol \in AR!Decisions \cup {NoRow}
      /\ row.inv \in InvestigationStatuses \cup {NoRow}
  BY DEF Columns
<1> DEFINE a == Lookup(ExecState, row.exec)
           b == Lookup(ReqState, row.req)
           c == Lookup(PolState, row.pol)
           d == Lookup(InvState, row.inv)
           h == ArmHits(row)
<1>1. /\ h \in SUBSET (1..11)
      /\ 1 \in h <=> row.exec = "SUCCEEDED"
      /\ 2 \in h <=> row.exec = "FAILED"
      /\ 3 \in h <=> row.exec = "UNKNOWN"
      /\ 4 \in h <=> row.exec \in {"PENDING", "RUNNING"}
      /\ 5 \in h <=> row.req = "APPROVED"
      /\ 6 \in h <=> row.req = "PENDING_APPROVAL"
      /\ 7 \in h <=> row.req \in {"REJECTED", "CANCELLED"}
      /\ 8 \in h <=> row.pol = "DENIED"
      /\ 9 \in h <=> row.pol = "APPROVAL_REQUIRED"
      /\ 10 \in h <=> row.inv = "PENDING"
      /\ 11 \in h <=> row.inv \in {"FAILED", "UNAVAILABLE"}
  BY ArmsHit
<1>2. OverallState(row) = FirstOf(a, b, c, d)
  BY DEF OverallState
<1>3. \A n \in h : (\A m \in 1..11 : m < n => m \notin h) => SqlState(row) = Arms[n].state
  BY ArmDecides
<1>4. h = {} => SqlState(row) = "OPEN"
  BY DEF SqlState, ArmHits
<1>5. NoRow \notin OverallStates
  BY StatesAssumption
<1>6. a = CASE row.exec = "SUCCEEDED" -> "RESOLVED" [] row.exec = "FAILED" -> "FAILED"
            [] row.exec = "UNKNOWN" -> "UNKNOWN"
            [] row.exec \in {"PENDING", "RUNNING"} -> "EXECUTING"
            [] OTHER -> NoRow
  BY <1>0, ExecSays
<1>7. b = CASE row.req = "APPROVED" -> "APPROVED"
            [] row.req = "PENDING_APPROVAL" -> "AWAITING_APPROVAL"
            [] row.req \in {"REJECTED", "CANCELLED"} -> "OPEN"
            [] OTHER -> NoRow
  BY <1>0, ReqSays
<1>8. c = CASE row.pol = "DENIED" -> "RESOLVED"
            [] row.pol = "APPROVAL_REQUIRED" -> "AWAITING_APPROVAL"
            [] OTHER -> NoRow
  BY <1>0, PolSays
<1>9. d = CASE row.inv = "PENDING" -> "INVESTIGATING"
            [] row.inv \in {"FAILED", "UNAVAILABLE"} -> "FAILED"
            [] OTHER -> NoRow
  BY <1>0, InvSays
<1> HIDE DEF a, b, c, d, h
<1>10. CASE 1 \in h \/ 2 \in h \/ 3 \in h \/ 4 \in h
  <2>1. SqlState(row) = a /\ a # NoRow
    BY <1>1, <1>3, <1>5, <1>6, <1>10, ArmStates DEF OverallStates
  <2> QED
    BY <1>2, <2>1 DEF FirstOf
<1>11. CASE /\ 1 \notin h /\ 2 \notin h /\ 3 \notin h /\ 4 \notin h
            /\ 5 \in h \/ 6 \in h \/ 7 \in h
  <2>1. SqlState(row) = b /\ b # NoRow /\ a = NoRow
    BY <1>1, <1>3, <1>5, <1>6, <1>7, <1>11, ArmStates DEF OverallStates
  <2> QED
    BY <1>2, <2>1 DEF FirstOf
<1>12. CASE /\ 1 \notin h /\ 2 \notin h /\ 3 \notin h /\ 4 \notin h
            /\ 5 \notin h /\ 6 \notin h /\ 7 \notin h
            /\ 8 \in h \/ 9 \in h
  <2>1. SqlState(row) = c /\ c # NoRow /\ a = NoRow /\ b = NoRow
    BY <1>1, <1>3, <1>5, <1>6, <1>7, <1>8, <1>12, ArmStates DEF OverallStates
  <2> QED
    BY <1>2, <2>1 DEF FirstOf
<1>13. CASE /\ 1 \notin h /\ 2 \notin h /\ 3 \notin h /\ 4 \notin h
            /\ 5 \notin h /\ 6 \notin h /\ 7 \notin h /\ 8 \notin h /\ 9 \notin h
  <2>1. a = NoRow /\ b = NoRow /\ c = NoRow
    BY <1>1, <1>6, <1>7, <1>8, <1>13
  <2>2. CASE 10 \in h \/ 11 \in h
    <3>1. SqlState(row) = d /\ d # NoRow
      BY <1>1, <1>3, <1>5, <1>9, <1>13, <2>2, ArmStates DEF OverallStates
    <3> QED
      BY <1>2, <2>1, <3>1 DEF FirstOf
  <2>3. CASE 10 \notin h /\ 11 \notin h
    <3>1. h = {}
      BY <1>1, <1>13, <2>3
    <3>2. d = NoRow
      BY <1>1, <1>9, <2>3
    <3> QED
      BY <1>2, <1>4, <2>1, <3>1, <3>2 DEF FirstOf
  <2> QED
    BY <2>2, <2>3
<1> QED
  BY <1>10, <1>11, <1>12, <1>13

(* The links of a joined chain: each names the one before it, or is missing. *)
LEMMA Links ==
  ASSUME TypeInv, NEW i \in Investigations, NEW c \in Joined(i)
  PROVE  /\ \/ c[1] = NoRow /\ EvaluationsOf(i) = {}
            \/ c[1] \in EvaluationsOf(i) /\ c[1] # NoRow
         /\ \/ c[2] = NoRow /\ RequestsOf(c[1]) = {}
            \/ c[2] \in RequestsOf(c[1]) /\ c[2] # NoRow
         /\ \/ c[3] = NoRow /\ ExecutionsOf(c[2]) = {}
            \/ c[3] \in ExecutionsOf(c[2]) /\ c[3] # NoRow
<1>1. /\ c[1] \in OrNull(EvaluationsOf(i)) /\ c[2] \in OrNull(RequestsOf(c[1]))
      /\ c[3] \in OrNull(ExecutionsOf(c[2]))
      /\ c[1] \in Evaluations \cup {NoRow}
  BY DEF Joined
<1>2. /\ RequestsOf(c[1]) \subseteq Requests /\ ExecutionsOf(c[2]) \subseteq Executions
      /\ NoRow \notin Requests /\ NoRow \notin Executions /\ NoRow \notin Evaluations
  BY NoRowAssumption DEF RequestsOf, ExecutionsOf
<1>3. c[1] \in EvaluationsOf(i) => c[1] # NoRow
  BY <1>2 DEF EvaluationsOf, TypeInv, PolicyInv
<1> QED
  BY <1>1, <1>2, <1>3 DEF OrNull

LEMMA JoinedColumns ==
  ASSUME TypeInv, NEW i \in Investigations, NEW c \in Joined(i),
         NEW inv \in InvestigationStatuses \cup {NoRow}
  PROVE  Columns(JoinedRow(inv, c))
<1>1. \/ c[1] = NoRow
      \/ c[1] # NoRow /\ evaluations[c[1]].decision \in AR!Decisions
  <2>1. \A n \in DOMAIN evaluations : evaluations[n] \in PE!EvaluationRow
    BY DEF TypeInv, PolicyInv, PE!TypeOK
  <2> QED
    BY <2>1, Links DEF EvaluationsOf, PE!EvaluationRow, AR!Decisions
<1>2. \/ c[2] = NoRow
      \/ c[2] # NoRow /\ request[c[2]].status \in AR!Statuses
  BY Links DEF RequestsOf, TypeInv, ARP!TypeInv, ARP!TypeOK, ARP!Row, ARP!Statuses,
     ARP!Verdicts, AR!Statuses, AR!Verdicts
<1>3. \/ c[3] = NoRow
      \/ c[3] # NoRow /\ execution[c[3]].status \in AE!ExecutionStatuses
  BY Links DEF ExecutionsOf, TypeInv, AEP!TypeInv, AEP!TypeOK, AEP!Row,
     AEP!ExecutionStatuses, AEP!Outcomes, AE!ExecutionStatuses, AE!Outcomes
<1> QED
  BY <1>1, <1>2, <1>3 DEF Columns, JoinedRow

AllColumns ==
  \A i \in Investigations, inv \in InvestigationStatuses :
    \A c \in Joined(i) : Columns(JoinedRow(inv, c))

LEMMA AllJoinedColumns == TypeInv => AllColumns
  BY JoinedColumns DEF AllColumns

(* An exception is resolved by what was carried out for it, or by a policy   *)
(* that leaves nothing to request.                                           *)
Resolved(row) ==
  \/ row.exec = "SUCCEEDED"
  \/ row.exec = NoRow /\ row.req = NoRow /\ row.pol = "DENIED"

LEMMA ResolvedRows ==
  ASSUME NEW row, Columns(row)
  PROVE  OverallState(row) = "RESOLVED" <=> Resolved(row)
<1>0. /\ row.exec \in AE!ExecutionStatuses \cup {NoRow}
      /\ row.req \in AR!Statuses \cup {NoRow}
      /\ row.pol \in AR!Decisions \cup {NoRow}
      /\ row.inv \in InvestigationStatuses \cup {NoRow}
  BY DEF Columns
<1> DEFINE a == Lookup(ExecState, row.exec)
           b == Lookup(ReqState, row.req)
           c == Lookup(PolState, row.pol)
           d == Lookup(InvState, row.inv)
<1>1. OverallState(row) = FirstOf(a, b, c, d)
  BY DEF OverallState
<1>2. /\ a = "RESOLVED" <=> row.exec = "SUCCEEDED"
      /\ a = NoRow <=> row.exec = NoRow
  BY <1>0, ExecSays, NoRowAssumption, StatesAssumption
     DEF AE!ExecutionStatuses, AE!Outcomes, OverallStates
<1>3. /\ b # "RESOLVED"
      /\ b = NoRow <=> row.req = NoRow
  BY <1>0, ReqSays, NoRowAssumption, StatesAssumption
     DEF AR!Statuses, AR!Verdicts, OverallStates
<1>4. /\ c = "RESOLVED" <=> row.pol = "DENIED"
  BY <1>0, PolSays, StatesAssumption DEF AR!Decisions, OverallStates
<1>5. d # "RESOLVED"
  BY <1>0, InvSays, StatesAssumption DEF OverallStates
<1>6. NoRow # "RESOLVED"
  BY StatesAssumption DEF OverallStates
<1> HIDE DEF a, b, c, d
<1> QED
  BY <1>1, <1>2, <1>3, <1>4, <1>5, <1>6 DEF FirstOf, Resolved

(* A resolved exception: its chain is whole up to an execution that          *)
(* succeeded, or ends at an evaluation that denied.                          *)
LEMMA ResolvedChains ==
  ASSUME TypeInv, NEW i \in Investigations, NEW c \in Joined(i),
         NEW inv \in InvestigationStatuses,
         OverallState(JoinedRow(inv, c)) = "RESOLVED"
  PROVE  /\ c[1] \in EvaluationsOf(i)
         /\ \/ /\ c[2] \in RequestsOf(c[1])
               /\ c[3] \in ExecutionsOf(c[2])
               /\ execution[c[3]].status = "SUCCEEDED"
            \/ /\ c[2] = NoRow /\ c[3] = NoRow
               /\ evaluations[c[1]].decision = "DENIED"
<1> DEFINE row == JoinedRow(inv, c)
<1>1. Resolved(row)
  BY JoinedColumns, ResolvedRows
<1>2. /\ row.pol = IF c[1] = NoRow THEN NoRow ELSE evaluations[c[1]].decision
      /\ row.req = IF c[2] = NoRow THEN NoRow ELSE request[c[2]].status
      /\ row.exec = IF c[3] = NoRow THEN NoRow ELSE execution[c[3]].status
  BY DEF JoinedRow
<1>3. NoRow \notin {"SUCCEEDED", "DENIED"} /\ NoRow \notin Requests /\ NoRow \notin Evaluations
  BY NoRowAssumption DEF AE!ExecutionStatuses, AE!Outcomes, AR!Decisions
<1>4. \A r \in Requests : request[r] # NoRow =>
        request[r].status # NoRow /\ request[r].evaluation \in Evaluations
  BY NoRowAssumption DEF TypeInv, ARP!TypeInv, ARP!TypeOK, ARP!Row, ARP!Statuses,
     ARP!Verdicts, AR!Statuses, AR!Verdicts
<1>5. \A e \in Executions : execution[e] # NoRow =>
        execution[e].status # NoRow /\ execution[e].request \in Requests
  BY NoRowAssumption DEF TypeInv, AEP!TypeInv, AEP!TypeOK, AEP!Row,
     AEP!ExecutionStatuses, AEP!Outcomes, AE!ExecutionStatuses, AE!Outcomes
<1> HIDE DEF row
<1>6. CASE row.exec = "SUCCEEDED"
  <2>1. c[3] \in ExecutionsOf(c[2]) /\ execution[c[3]].status = "SUCCEEDED"
    BY <1>2, <1>3, <1>6, Links
  <2>2. c[2] \in Requests
    BY <1>5, <2>1 DEF ExecutionsOf
  <2>3. c[2] \in RequestsOf(c[1])
    BY <1>3, <2>2, Links
  <2>4. c[1] \in Evaluations
    BY <1>4, <2>3 DEF RequestsOf
  <2>5. c[1] \in EvaluationsOf(i)
    BY <1>3, <2>4, Links
  <2> QED
    BY <2>1, <2>3, <2>5
<1>7. CASE row.exec = NoRow /\ row.req = NoRow /\ row.pol = "DENIED"
  <2>1. c[1] \in EvaluationsOf(i) /\ evaluations[c[1]].decision = "DENIED"
    BY <1>2, <1>3, <1>7, Links
  <2>2. c[2] = NoRow
    BY <1>2, <1>4, <1>7, Links DEF RequestsOf
  <2>3. c[3] = NoRow
    BY <1>2, <1>5, <1>7, Links DEF ExecutionsOf
  <2> QED
    BY <2>1, <2>2, <2>3
<1> QED
  BY <1>1, <1>6, <1>7 DEF Resolved

(* The links of a chain stay: rows are never deleted and keep what they      *)
(* refer to.                                                                 *)
LEMMA LinksStay ==
  ASSUME Inv, [Next]_vars
  PROVE  /\ \A i \in Investigations : \A n \in EvaluationsOf(i) :
              /\ n \in EvaluationsOf(i)'
              /\ evaluations'[n].decision = evaluations[n].decision
         /\ \A n : \A r \in RequestsOf(n) : r \in RequestsOf(n)'
         /\ \A r : \A e \in ExecutionsOf(r) : execution[e].status = "SUCCEEDED" =>
              /\ e \in ExecutionsOf(r)'
              /\ execution'[e].status = "SUCCEEDED"
<1>1. CASE PolicyStep
  <2>1. \A n \in DOMAIN evaluations :
          n \in DOMAIN evaluations' /\ evaluations'[n] = evaluations[n]
    BY <1>1, PolicySteps DEF PolicyStep, Inv, TypeInv
  <2>2. UNCHANGED <<request, execution>>
    BY <1>1 DEF PolicyStep, requestVars, executionVars
  <2> QED
    BY <2>1, <2>2 DEF EvaluationsOf, RequestsOf, ExecutionsOf
<1>2. CASE RequestStep
  <2>1. UNCHANGED <<evaluations, execution>>
    BY <1>2 DEF RequestStep, policyVars, executionVars
  <2>2. \A r \in Requests : request[r] # NoRow =>
          request'[r] # NoRow /\ request'[r].evaluation = request[r].evaluation
    BY <1>2, SameRequestStep, ARP!RowsPersist, RequestAssumptions
       DEF RequestStep, Inv, TypeInv, ARP!Exists
  <2> QED
    BY <2>1, <2>2 DEF EvaluationsOf, RequestsOf, ExecutionsOf
<1>3. CASE ExecutionStep
  <2>1. UNCHANGED <<evaluations, request>>
    BY <1>3 DEF ExecutionStep, policyVars, requestVars
  <2>2. \A e \in Executions : execution[e] # NoRow /\ execution[e].status = "SUCCEEDED" =>
          execution'[e] = execution[e]
    BY <1>3, SameExecutionStep, AEP!OutcomesStay, ExecutionAssumptions
       DEF ExecutionStep, Inv, AEP!Exists, AEP!Outcomes
  <2> QED
    BY <2>1, <2>2 DEF EvaluationsOf, RequestsOf, ExecutionsOf
<1>4. CASE UNCHANGED vars
  BY <1>4 DEF vars, policyVars, requestVars, executionVars, EvaluationsOf,
     RequestsOf, ExecutionsOf
<1> QED
  BY <1>1, <1>2, <1>3, <1>4 DEF Next

(* What was denied is never requested, and nothing is executed for no        *)
(* request.                                                                  *)
DeadEnds ==
  /\ \A n \in DOMAIN evaluations :
       evaluations[n].decision = "DENIED" => RequestsOf(n) = {}
  /\ ExecutionsOf(NoRow) = {}

LEMMA DenialEndsChain == Inv => DeadEnds
<1> SUFFICES ASSUME Inv PROVE DeadEnds
  OBVIOUS
<1>1. ASSUME NEW n \in DOMAIN evaluations, evaluations[n].decision = "DENIED",
             NEW r \in RequestsOf(n)
      PROVE  FALSE
  <2>1. decisionOf[request[r].evaluation] = "APPROVAL_REQUIRED" /\ request[r].evaluation = n
    BY DEF RequestsOf, Inv, ARP!AskedInv, ARP!RequiresApproval, ARP!Exists
  <2>2. n \in Evaluations
    BY DEF Inv, TypeInv, PolicyInv
  <2> QED
    BY <1>1, <2>1, <2>2 DEF decisionOf
<1>2. ExecutionsOf(NoRow) = {}
  BY NoRowAssumption DEF ExecutionsOf, Inv, TypeInv, AEP!TypeInv, AEP!TypeOK, AEP!Row
<1> QED
  BY <1>1, <1>2 DEF DeadEnds

LEMMA ResolvedStep ==
  ASSUME Inv, Inv', [Next]_vars, NEW i \in Investigations,
         NEW inv \in InvestigationStatuses, NEW c \in Joined(i),
         OverallState(JoinedRow(inv, c)) = "RESOLVED"
  PROVE  c \in Joined(i)' /\ OverallState(JoinedRow(inv, c))' = "RESOLVED"
<1>1. TypeInv /\ AllColumns' /\ DeadEnds'
  <2>1. TypeInv' => AllColumns'
    BY AllJoinedColumns, PTL
  <2>2. Inv' => DeadEnds'
    BY DenialEndsChain, PTL
  <2> QED
    BY <2>1, <2>2 DEF Inv
<1>2. /\ c[1] \in EvaluationsOf(i)
      /\ \/ /\ c[2] \in RequestsOf(c[1]) /\ c[3] \in ExecutionsOf(c[2])
            /\ execution[c[3]].status = "SUCCEEDED"
         \/ /\ c[2] = NoRow /\ c[3] = NoRow
            /\ evaluations[c[1]].decision = "DENIED"
  BY <1>1, ResolvedChains
<1>3. /\ c[1] \in EvaluationsOf(i)'
      /\ evaluations'[c[1]].decision = evaluations[c[1]].decision
  BY <1>2, LinksStay
<1>4. /\ c \in (Evaluations \cup {NoRow}) \X (Requests \cup {NoRow})
                 \X (Executions \cup {NoRow})
  BY DEF Joined
<1>5. c[1] \in Evaluations /\ NoRow \notin Evaluations /\ NoRow \notin Executions
  BY <1>2, <1>1, NoRowAssumption DEF EvaluationsOf, TypeInv, PolicyInv
<1>6. c[1] \in DOMAIN evaluations'
  BY <1>3 DEF EvaluationsOf
<1>7. CASE /\ c[2] \in RequestsOf(c[1]) /\ c[3] \in ExecutionsOf(c[2])
           /\ execution[c[3]].status = "SUCCEEDED"
  <2>1. /\ c[2] \in RequestsOf(c[1])' /\ c[3] \in ExecutionsOf(c[2])'
        /\ execution'[c[3]].status = "SUCCEEDED"
    BY <1>7, LinksStay
  <2>2. c \in Joined(i)'
    BY <1>3, <1>4, <2>1 DEF Joined, OrNull
  <2>3. c[3] # NoRow
    BY <1>5, <1>7 DEF ExecutionsOf
  <2>4. Resolved(JoinedRow(inv, c))'
    BY <2>1, <2>3 DEF Resolved, JoinedRow
  <2>5. Columns(JoinedRow(inv, c))'
    BY <1>1, <2>2 DEF AllColumns
  <2> QED
    BY <2>2, <2>4, <2>5, ResolvedRows
<1>8. CASE /\ c[2] = NoRow /\ c[3] = NoRow
           /\ evaluations[c[1]].decision = "DENIED"
  <2>1. RequestsOf(c[1])' = {} /\ ExecutionsOf(c[2])' = {}
    BY <1>1, <1>3, <1>6, <1>8 DEF DeadEnds
  <2>2. c \in Joined(i)'
    BY <1>3, <1>4, <1>8, <2>1 DEF Joined, OrNull
  <2>3. Resolved(JoinedRow(inv, c))'
    BY <1>3, <1>5, <1>8 DEF Resolved, JoinedRow
  <2>4. Columns(JoinedRow(inv, c))'
    BY <1>1, <2>2 DEF AllColumns
  <2> QED
    BY <2>2, <2>3, <2>4, ResolvedRows
<1> QED
  BY <1>2, <1>7, <1>8

(* The list filters by the state that it shows, for every row of the join    *)
(* and every status of the investigation: the CASE expression that           *)
(* overall_state_sql builds and _determine_overall_state agree.              *)
THEOREM FilterAgrees == Spec => []FilterMatchesDisplay
<1>1. Inv => FilterMatchesDisplay
  BY JoinedColumns, SameState DEF Inv, FilterMatchesDisplay
<1> QED
  BY <1>1, Invariance, PTL

(* An exception that is shown as RESOLVED is shown as RESOLVED ever after,   *)
(* whatever late deciders, other executors and other evaluations do.         *)
THEOREM ResolvedStays == Spec => ResolvedIsStable
<1>1. Inv /\ Inv' /\ [Next]_vars =>
        [\A i \in Investigations, inv \in InvestigationStatuses :
           \A c \in Joined(i) :
             OverallState(JoinedRow(inv, c)) = "RESOLVED" =>
               /\ c \in Joined(i)'
               /\ OverallState(JoinedRow(inv, c))' = "RESOLVED"]_vars
  BY ResolvedStep
<1> QED
  BY <1>1, Invariance, PTL DEF Spec, ResolvedIsStable
=============================================================================
