--------------------------- MODULE ExceptionView ---------------------------
(***************************************************************************)
(* services/exceptions: the state of an exception is not stored.  It is    *)
(* derived from the tables of the governance chain, in Python and again as *)
(* a SQL CASE expression.  Nothing here writes: the view adds operators to *)
(* Governance and no variable.  An investigation stands for the            *)
(* discrepancy that it is about, which has no other.                       *)
(***************************************************************************)
EXTENDS Governance, FiniteSetsExt

InvestigationStatuses == {"PENDING", "COMPLETED", "FAILED", "UNAVAILABLE"}

OverallStates == {"OPEN", "INVESTIGATING", "AWAITING_APPROVAL", "APPROVED",
                  "EXECUTING", "RESOLVED", "FAILED", "UNKNOWN"}

(* NULL is neither.                                                          *)
ASSUME StatesAssumption == NoRow \notin InvestigationStatuses \cup OverallStates

-----------------------------------------------------------------------------
(* _determine_overall_state: what each status says of the exception, if it   *)
(* says anything; the last link of the chain that does decides.              *)
ExecState == [SUCCEEDED |-> "RESOLVED", FAILED |-> "FAILED",
              UNKNOWN |-> "UNKNOWN", PENDING |-> "EXECUTING",
              RUNNING |-> "EXECUTING"]
ReqState == [APPROVED |-> "APPROVED", PENDING_APPROVAL |-> "AWAITING_APPROVAL",
             REJECTED |-> "OPEN", CANCELLED |-> "OPEN"]
PolState == [DENIED |-> "RESOLVED", APPROVAL_REQUIRED |-> "AWAITING_APPROVAL"]
InvState == [PENDING |-> "INVESTIGATING", FAILED |-> "FAILED",
             UNAVAILABLE |-> "FAILED"]

FirstOf(first, second, third, fourth) ==
  IF first # NoRow THEN first
  ELSE IF second # NoRow THEN second
  ELSE IF third # NoRow THEN third
  ELSE IF fourth # NoRow THEN fourth
  ELSE "OPEN"

Lookup(table, status) ==
  IF status \in DOMAIN table THEN table[status] ELSE NoRow

(* Fault: the request outranks the execution.                               *)
OverallState_RequestFirst(row) ==
  FirstOf(Lookup(ReqState, row.req), Lookup(ExecState, row.exec),
          Lookup(PolState, row.pol), Lookup(InvState, row.inv))

(* A joined row: the statuses of one investigation, evaluation, request and  *)
(* execution, NoRow where the outer join found none.                         *)
OverallState(row) ==
  FirstOf(Lookup(ExecState, row.exec), Lookup(ReqState, row.req),
          Lookup(PolState, row.pol), Lookup(InvState, row.inv))

(* The arms of the SQL CASE, in order.  A comparison with NULL is not true.  *)
Arm(column, values, state) ==
  [column |-> column, values |-> values, state |-> state]

Arms == <<
  Arm("exec", {"SUCCEEDED"}, "RESOLVED"),
  Arm("exec", {"FAILED"}, "FAILED"),
  Arm("exec", {"UNKNOWN"}, "UNKNOWN"),
  Arm("exec", {"PENDING", "RUNNING"}, "EXECUTING"),
  Arm("req", {"APPROVED"}, "APPROVED"),
  Arm("req", {"PENDING_APPROVAL"}, "AWAITING_APPROVAL"),
  Arm("req", {"REJECTED", "CANCELLED"}, "OPEN"),
  Arm("pol", {"DENIED"}, "RESOLVED"),
  Arm("pol", {"APPROVAL_REQUIRED"}, "AWAITING_APPROVAL"),
  Arm("inv", {"PENDING"}, "INVESTIGATING"),
  Arm("inv", {"FAILED", "UNAVAILABLE"}, "FAILED") >>

SqlState(row) ==
  LET hits == {n \in DOMAIN Arms : row[Arms[n].column] \in Arms[n].values}
  IN IF hits = {} THEN "OPEN" ELSE Arms[Min(hits)].state

-----------------------------------------------------------------------------
(* list_exceptions: discrepancies LEFT JOIN the chain.  A row of the result  *)
(* is named by the ids it joins.                                             *)
EvaluationsOf(i) ==
  {n \in DOMAIN evaluations : evaluations[n].investigation = i}
RequestsOf(n) == {r \in Requests : request[r] # NoRow /\ request[r].evaluation = n}
(* Fault: the join asks for an approved request.                            *)
ExecutionsOf_Approved(r) ==
  {e \in Executions : /\ execution[e] # NoRow
                      /\ execution[e].request = r
                      /\ request[r].status = "APPROVED"}
ExecutionsOf(r) ==
  {e \in Executions : execution[e] # NoRow /\ execution[e].request = r}

OrNull(S) == IF S = {} THEN {NoRow} ELSE S

Joined(i) ==
  {c \in (Evaluations \cup {NoRow}) \X (Requests \cup {NoRow})
           \X (Executions \cup {NoRow}) :
     /\ c[1] \in OrNull(EvaluationsOf(i))
     /\ c[2] \in OrNull(RequestsOf(c[1]))
     /\ c[3] \in OrNull(ExecutionsOf(c[2]))}

JoinedRow(inv, chain) ==
  [inv  |-> inv,
   pol  |-> IF chain[1] = NoRow THEN NoRow ELSE evaluations[chain[1]].decision,
   req  |-> IF chain[2] = NoRow THEN NoRow ELSE request[chain[2]].status,
   exec |-> IF chain[3] = NoRow THEN NoRow ELSE execution[chain[3]].status]

-----------------------------------------------------------------------------
(* The filter of the list (SQL) and the state it shows (Python) agree on     *)
(* every row of the join, whatever the state of the investigation.           *)
FilterMatchesDisplay ==
  \A i \in Investigations, inv \in InvestigationStatuses \cup {NoRow} :
    \A c \in Joined(i) :
      SqlState(JoinedRow(inv, c)) = OverallState(JoinedRow(inv, c))

(* A row that is shown as RESOLVED is shown as RESOLVED ever after, even     *)
(* when a late decision changes the request it was executed for.             *)
ResolvedIsStable ==
  [][\A i \in Investigations, inv \in InvestigationStatuses :
       \A c \in Joined(i) :
         OverallState(JoinedRow(inv, c)) = "RESOLVED" =>
           /\ c \in Joined(i)'
           /\ OverallState(JoinedRow(inv, c))' = "RESOLVED"]_vars
=============================================================================
