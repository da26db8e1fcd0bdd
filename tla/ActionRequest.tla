--------------------------- MODULE ActionRequest ---------------------------
(***************************************************************************)
(* services/action_request: an action request is created from a policy     *)
(* evaluation that requires approval, and a human approves, rejects or     *)
(* cancels it.                                                             *)
(*                                                                         *)
(* A handler serves one HTTP request at a time, with a database session of *)
(* its own.  Every step below ends at an await: what a handler has read is *)
(* in its record, what it has committed is in the tables, and any other    *)
(* handler may run in between.                                             *)
(***************************************************************************)
EXTENDS Naturals, Sequences

CONSTANTS
  Requests,     \* ids of action_requests rows
  Evaluations,  \* ids of policy_evaluation rows
  Handlers,     \* requests in flight, each for a user of its own
  NoRow,        \* no such row, or a column that is NULL
  Mortal        \* the handlers that may die between two of their steps

ASSUME MortalAssumption == Mortal \subseteq Handlers

VARIABLES
  evaluations,  \* decision of each stored policy evaluation (read only here)
  request,      \* the action_requests table
  audit,        \* the action_request_audits of each request, oldest first
  announced,    \* security event and approver notifications, committed together
  handler       \* what each handler is doing

vars == <<evaluations, request, audit, announced, handler>>

-----------------------------------------------------------------------------
Decisions == {"ALLOWED", "DENIED", "APPROVAL_REQUIRED"}
Verdicts == {"APPROVED", "REJECTED", "CANCELLED"}
Statuses == Verdicts \cup {"PENDING_APPROVAL"}

Row == [evaluation : Evaluations,
        status     : Statuses,
        approvedBy : Handlers \cup {NoRow},
        reasonBy   : Handlers \cup {NoRow}]

ASSUME NoRowAssumption ==
  NoRow \notin Requests \cup Evaluations \cup Handlers \cup Row

AuditRow == [from : Statuses, to : Statuses, actor : Handlers]

Announcement == [request : Requests, what : {"CREATED"} \cup Verdicts]

Activity == [pc         : {"idle", "insert", "conflict", "created",
                           "transition", "record", "announce"},
             evaluation : Evaluations \cup {NoRow},
             request    : Requests \cup {NoRow},
             seen       : Statuses \cup {NoRow},
             verdict    : Verdicts \cup {NoRow}]

TypeOK ==
  /\ evaluations \in [Evaluations -> Decisions \cup {NoRow}]
  /\ request \in [Requests -> Row \cup {NoRow}]
  /\ audit \in [Requests -> Seq(AuditRow)]
  /\ announced \subseteq Announcement
  /\ handler \in [Handlers -> Activity]

-----------------------------------------------------------------------------
Exists(r) == request[r] # NoRow

RowsFor(e) == {r \in Requests : Exists(r) /\ request[r].evaluation = e}

Idle == [pc |-> "idle", evaluation |-> NoRow, request |-> NoRow,
         seen |-> NoRow, verdict |-> NoRow]

Init ==
  /\ evaluations \in [Evaluations -> Decisions \cup {NoRow}]
  /\ request = [r \in Requests |-> NoRow]
  /\ audit = [r \in Requests |-> << >>]
  /\ announced = {}
  /\ handler = [h \in Handlers |-> Idle]

(* The request is answered, or its task dies: the session is closed and     *)
(* whatever it had not committed is gone.                                   *)
Release(h) == handler' = [handler EXCEPT ![h] = Idle]

-----------------------------------------------------------------------------
(* create_from_evaluation *)

RequiresApproval(e) == evaluations[e] = "APPROVAL_REQUIRED"

(* The evaluation is loaded and no request refers to it yet.  When one does, *)
(* or the decision is another one, the handler answers without a change.     *)
StartCreate(h, e) ==
  /\ handler[h].pc = "idle"
  /\ RequiresApproval(e)
  /\ RowsFor(e) = {}
  /\ handler' = [handler EXCEPT ![h] = [Idle EXCEPT !.pc = "insert",
                                                    !.evaluation = e]]
  /\ UNCHANGED <<evaluations, request, audit, announced>>

(* The UNIQUE constraint on policy_evaluation_id.  An INSERT waits for an    *)
(* uncommitted duplicate, so that only a committed row makes it fail.        *)
UniqueEvaluation(e) == RowsFor(e) = {}

InsertRequest(h, r) ==
  LET e == handler[h].evaluation IN
  /\ handler[h].pc = "insert"
  /\ UniqueEvaluation(e)
  /\ ~Exists(r)
  /\ request' = [request EXCEPT ![r] =
       [evaluation |-> e, status |-> "PENDING_APPROVAL",
        approvedBy |-> NoRow, reasonBy |-> NoRow]]
  /\ handler' = [handler EXCEPT ![h].pc = "created", ![h].request = r]
  /\ UNCHANGED <<evaluations, audit, announced>>

InsertConflict(h) ==
  /\ handler[h].pc = "insert"
  /\ ~UniqueEvaluation(handler[h].evaluation)
  /\ handler' = [handler EXCEPT ![h].pc = "conflict"]
  /\ UNCHANGED <<evaluations, request, audit, announced>>

(* After the rollback the row of the concurrent winner is read and returned, *)
(* or an error is, when three reads do not find it.                          *)
ResolveConflict(h) ==
  /\ handler[h].pc = "conflict"
  /\ Release(h)
  /\ UNCHANGED <<evaluations, request, audit, announced>>

(* action_request_created and notify_approvers, in a second commit.          *)
AnnounceCreated(h) ==
  /\ handler[h].pc = "created"
  /\ announced' = announced \cup
       {[request |-> handler[h].request, what |-> "CREATED"]}
  /\ Release(h)
  /\ UNCHANGED <<evaluations, request, audit>>

-----------------------------------------------------------------------------
(* approve, reject and cancel *)

(* Fault: one decision may follow another.                                  *)
CanTransition_Reversible(from, to) == to \in Verdicts /\ from # to

CanTransition(from, to) == from = "PENDING_APPROVAL" /\ to \in Verdicts

(* _transition_state reads the row and validates the transition on what it   *)
(* read; an invalid one is refused without a change.                         *)
LoadRequest(h, r, v) ==
  /\ handler[h].pc = "idle"
  /\ Exists(r)
  /\ CanTransition(request[r].status, v)
  /\ handler' = [handler EXCEPT ![h] =
       [Idle EXCEPT !.pc = "transition", !.request = r,
                    !.seen = request[r].status, !.verdict = v]]
  /\ UNCHANGED <<evaluations, request, audit, announced>>

AuditEntry(h) == [from |-> handler[h].seen, to |-> handler[h].verdict,
                  actor |-> h]

(* Fault: the audit row comes in a commit of its own, first.                *)
CommitTransition_AuditsIntent(h) ==
  LET r == handler[h].request IN
  /\ handler[h].pc = "transition"
  /\ audit' = [audit EXCEPT ![r] = Append(@, AuditEntry(h))]
  /\ handler' = [handler EXCEPT ![h].pc = "record"]
  /\ UNCHANGED <<evaluations, request, announced>>

(* Fault: no audit row is added.                                            *)
CommitTransition_Unaudited(h) ==
  LET r == handler[h].request IN
  /\ handler[h].pc = "transition"
  /\ request' = [request EXCEPT ![r].status = handler[h].verdict]
  /\ handler' = [handler EXCEPT ![h].pc = "record"]
  /\ UNCHANGED <<evaluations, audit, announced>>

(* One commit: the new status (the UPDATE names the row by its id alone) and *)
(* the audit row.                                                            *)
CommitTransition(h) ==
  LET r == handler[h].request IN
  /\ handler[h].pc = "transition"
  /\ request' = [request EXCEPT ![r].status = handler[h].verdict]
  /\ audit' = [audit EXCEPT ![r] = Append(@, AuditEntry(h))]
  /\ handler' = [handler EXCEPT ![h].pc = "record"]
  /\ UNCHANGED <<evaluations, announced>>

(* The second commit: approved_by and approved_at, or rejection_reason;      *)
(* nothing when the request was cancelled.                                   *)
RecordVerdict(h) ==
  LET r == handler[h].request
      v == handler[h].verdict
  IN
  /\ handler[h].pc = "record"
  /\ request' = [request EXCEPT
       ![r].approvedBy = IF v = "APPROVED" THEN h ELSE @,
       ![r].reasonBy = IF v = "REJECTED" THEN h ELSE @]
  /\ handler' = [handler EXCEPT ![h].pc = "announce"]
  /\ UNCHANGED <<evaluations, audit, announced>>

(* Fault: the last commit is missing.                                       *)
AnnounceVerdict_Dropped(h) ==
  /\ handler[h].pc = "announce"
  /\ Release(h)
  /\ UNCHANGED <<evaluations, request, audit, announced>>

(* The third commit: the security event and the notifications.               *)
AnnounceVerdict(h) ==
  /\ handler[h].pc = "announce"
  /\ announced' = announced \cup
       {[request |-> handler[h].request, what |-> handler[h].verdict]}
  /\ Release(h)
  /\ UNCHANGED <<evaluations, request, audit>>

-----------------------------------------------------------------------------
(* The process stops, the client's task is cancelled or a commit fails:      *)
(* nothing resumes the work of the handler.                                  *)
Crash(h) ==
  /\ h \in Mortal
  /\ handler[h].pc # "idle"
  /\ Release(h)
  /\ UNCHANGED <<evaluations, request, audit, announced>>

Arrive(h) ==
  \/ \E e \in Evaluations : StartCreate(h, e)
  \/ \E r \in Requests, v \in Verdicts : LoadRequest(h, r, v)

Proceed(h) ==
  \/ \E r \in Requests : InsertRequest(h, r)
  \/ InsertConflict(h)
  \/ ResolveConflict(h)
  \/ AnnounceCreated(h)
  \/ CommitTransition(h)
  \/ RecordVerdict(h)
  \/ AnnounceVerdict(h)

Next == \E h \in Handlers : Arrive(h) \/ Proceed(h) \/ Crash(h)

Spec == Init /\ [][Next]_vars

(* asyncio resumes every task whose await has completed: a handler that has  *)
(* started always gets to its next step.  New requests need not come.        *)
FairSpec == Spec /\ \A h \in Handlers : WF_vars(Proceed(h))

-----------------------------------------------------------------------------
(* Two concurrent POST /action-requests for one evaluation never leave two   *)
(* requests behind: the check before the INSERT is not what guarantees it.   *)
OneRequestPerEvaluation ==
  \A r, s \in Requests :
    /\ Exists(r) /\ Exists(s)
    /\ request[r].evaluation = request[s].evaluation
    => r = s

(* The status column and the audit trail are written by one commit, so that  *)
(* they agree in every state, whichever of several deciders came last and    *)
(* wherever a handler died.                                                  *)
StatusIsLastAudited ==
  \A r \in Requests : Exists(r) =>
    request[r].status = IF audit[r] = << >> THEN "PENDING_APPROVAL"
                        ELSE audit[r][Len(audit[r])].to

AuditedBy(r, v, h) ==
  \E i \in 1..Len(audit[r]) : audit[r][i].to = v /\ audit[r][i].actor = h

(* approved_by, rejection_reason and the announcements come in later commits *)
(* than the decision: they never tell of a decision that the audit trail     *)
(* does not hold.                                                            *)
VerdictIsAudited ==
  /\ \A r \in Requests, h \in Handlers : Exists(r) =>
       /\ request[r].approvedBy = h => AuditedBy(r, "APPROVED", h)
       /\ request[r].reasonBy = h => AuditedBy(r, "REJECTED", h)
  /\ \A a \in announced : a.what \in Verdicts =>
       \E h \in Handlers : AuditedBy(a.request, a.what, h)

(* A creator whose INSERT was refused always finds the row that won: the     *)
(* error "could not be created or retrieved" is not reached.                 *)
ConflictHasWinner ==
  \A h \in Handlers :
    handler[h].pc = "conflict" => RowsFor(handler[h].evaluation) # {}

Deciders(r) == {h \in Handlers : handler[h].pc = "transition"
                                   /\ handler[h].request = r}

(* A decision is final once no other decider is in flight: from then on the  *)
(* state machine lets none in, and the status stays.                         *)
SettledIsFinal ==
  [][\A r \in Requests :
       Exists(r) /\ request[r].status \in Verdicts /\ Deciders(r) = {}
         => /\ request'[r].status = request[r].status
            /\ Deciders(r)' = {}]_vars

(* Unless its handler dies, a committed decision is announced to approvers   *)
(* and to the security log.                                                  *)
DecisionIsAnnounced ==
  \A r \in Requests, v \in Verdicts, h \in Handlers \ Mortal :
    AuditedBy(r, v, h) ~> [request |-> r, what |-> v] \in announced
=============================================================================
