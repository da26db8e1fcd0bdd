---------------------------- MODULE PolicyEngine ----------------------------
(***************************************************************************)
(* services/policy/engine: fixed rules decide whether an action on an      *)
(* investigation may proceed, and every decision is stored.  A request for *)
(* a decision that is already stored returns the stored one.               *)
(***************************************************************************)
EXTENDS Naturals, Sequences

CONSTANTS
  Investigations,
  Actions,        \* the actions that callers ask about
  Evaluators,     \* calls of PolicyEngine.evaluate in flight
  NoRow,
  MaxEvaluations  \* bound: rows the policy_evaluation table may get

VARIABLES
  evaluations,  \* the policy_evaluation table, in the order of created_at
  evaluator     \* what each call is doing

vars == <<evaluations, evaluator>>

-----------------------------------------------------------------------------
PolicyActions == {"REQUEST_MANUAL_REVIEW", "RETRY_INVESTIGATION",
                  "RESOLVE_DISCREPANCY", "REJECT_RECOMMENDATION", "ESCALATE"}

(* The deterministic policy rules.  Each has a rule code of its own, so that *)
(* the action names the code.                                                *)
Decision(action) ==
  CASE action \in {"REQUEST_MANUAL_REVIEW", "RETRY_INVESTIGATION"} -> "ALLOWED"
    [] action \in {"RESOLVE_DISCREPANCY", "REJECT_RECOMMENDATION",
                   "ESCALATE"} -> "APPROVAL_REQUIRED"
    [] OTHER -> "DENIED"

Evaluation(i, action) ==
  [investigation |-> i, action |-> action, decision |-> Decision(action)]

EvaluationRow == [investigation : Investigations, action : PolicyActions,
                  decision : {"ALLOWED", "DENIED", "APPROVAL_REQUIRED"}]

Activity == [pc            : {"idle", "insert"},
             investigation : Investigations \cup {NoRow},
             action        : PolicyActions \cup {NoRow}]

TypeOK ==
  /\ evaluations \in Seq(EvaluationRow)
  /\ evaluator \in [Evaluators -> Activity]

Idle == [pc |-> "idle", investigation |-> NoRow, action |-> NoRow]

Init ==
  /\ evaluations = << >>
  /\ evaluator = [v \in Evaluators |-> Idle]

-----------------------------------------------------------------------------
(* The newest stored evaluation of the action, if its decision is the one    *)
(* the rules give now.                                                       *)
Stored(i, action) ==
  LET same == {n \in DOMAIN evaluations :
                 /\ evaluations[n].investigation = i
                 /\ evaluations[n].action = action}
  IN \E n \in same : /\ \A m \in same : m <= n
                     /\ evaluations[n] = Evaluation(i, action)

(* Nothing is stored yet; when something is, it is returned.                 *)
Check(v, i, action) ==
  /\ evaluator[v].pc = "idle"
  /\ ~Stored(i, action)
  /\ evaluator' = [evaluator EXCEPT ![v] =
       [pc |-> "insert", investigation |-> i, action |-> action]]
  /\ UNCHANGED evaluations

(* The row is committed; no constraint relates it to any other row.          *)
Insert(v) ==
  /\ evaluator[v].pc = "insert"
  /\ Len(evaluations) < MaxEvaluations
  /\ evaluations' = Append(evaluations,
       Evaluation(evaluator[v].investigation, evaluator[v].action))
  /\ evaluator' = [evaluator EXCEPT ![v] = Idle]

Crash(v) ==
  /\ evaluator[v].pc # "idle"
  /\ evaluator' = [evaluator EXCEPT ![v] = Idle]
  /\ UNCHANGED evaluations

Next ==
  \E v \in Evaluators :
    \/ \E i \in Investigations, a \in Actions : Check(v, i, a)
    \/ Insert(v)
    \/ Crash(v)

Spec == Init /\ [][Next]_vars
=============================================================================
