---------------------------- MODULE PeriodClose ----------------------------
(***************************************************************************)
(* services/period: a financial period is closed by a human once seven     *)
(* controls, each a query of its own over the tables of the other          *)
(* components, find nothing that blocks it.  The period row is locked      *)
(* meanwhile; the rows that the controls count are not.                    *)
(*                                                                         *)
(* Here the other components are what they may do to the counts: a control *)
(* starts or stops to block a period.                                      *)
(***************************************************************************)
EXTENDS Naturals, Sequences

CONSTANTS
  Periods,
  Closers,         \* requests in flight, each for a user of its own
  NoRow,
  Active,          \* bound: the controls whose count is ever above zero
  Racing,          \* the controls that others may change during a reading
  MaxEvaluations,  \* bound: evaluations that are recorded for a period
  Mortal           \* the closers that may die between two of their steps

VARIABLES
  period,      \* the financial_periods table
  blocking,    \* the controls that would find something, per period
  evaluation,  \* the period_close_evaluations of each period, in order
  closeEvents, \* PERIOD_CLOSED security events of each period
  closer       \* what each request is doing

vars == <<period, blocking, evaluation, closeEvents, closer>>

-----------------------------------------------------------------------------
(* The controls in the order of their queries.                               *)
Controls == <<
  "UNRECONCILED_TRANSACTIONS", "UNRESOLVED_EXCEPTIONS",
  "PENDING_INVESTIGATIONS", "FAILED_INVESTIGATIONS",
  "PENDING_ACTION_REQUESTS", "RUNNING_EXECUTIONS", "UNKNOWN_EXECUTIONS" >>

ControlCodes == {Controls[n] : n \in DOMAIN Controls}

(* No code sets a payment to RECONCILED, and nothing settles an execution    *)
(* that is UNKNOWN: what these two controls find, they find for ever.        *)
Sticky == {"UNRECONCILED_TRANSACTIONS", "UNKNOWN_EXECUTIONS"}

(* An investigation is PENDING only inside the transaction of its run.       *)
NeverFound == {"PENDING_INVESTIGATIONS"}

ASSUME ActiveAssumption == Active \subseteq ControlCodes \ NeverFound
ASSUME RacingAssumption == Racing \subseteq ControlCodes
ASSUME MortalAssumption == Mortal \subseteq Closers
ASSUME BoundAssumption == MaxEvaluations \in Nat
Row == [status : {"OPEN", "CLOSED"}, closedBy : Closers \cup {NoRow}]

ASSUME NoRowAssumption == NoRow \notin Periods \cup Closers \cup Row

EvaluationRow == [by : Closers, ready : BOOLEAN]

Activity == [pc     : {"idle", "lock", "read", "notify"},
             aim    : {"close", "evaluate", NoRow},
             period : Periods \cup {NoRow},
             next   : 1..(Len(Controls) + 1),
             found  : SUBSET ControlCodes]

TypeOK ==
  /\ period \in [Periods -> Row \cup {NoRow}]
  /\ blocking \in [Periods -> SUBSET ControlCodes]
  /\ evaluation \in [Periods -> Seq(EvaluationRow)]
  /\ closeEvents \in [Periods -> Nat]
  /\ closer \in [Closers -> Activity]

-----------------------------------------------------------------------------
Exists(p) == period[p] # NoRow
IsClosed(p) == Exists(p) /\ period[p].status = "CLOSED"

Idle == [pc |-> "idle", aim |-> NoRow, period |-> NoRow, next |-> 1,
         found |-> {}]

Init ==
  /\ period = [p \in Periods |-> NoRow]
  /\ blocking \in [Periods -> SUBSET Active]
  /\ evaluation = [p \in Periods |-> << >>]
  /\ closeEvents = [p \in Periods |-> 0]
  /\ closer = [h \in Closers |-> Idle]

Release(h) == closer' = [closer EXCEPT ![h] = Idle]

(* SELECT ... FOR UPDATE holds the period row until the commit.              *)
Holds(h, p) == closer[h].pc = "read" /\ closer[h].aim = "close"
                 /\ closer[h].period = p
Locked(p) == \E h \in Closers : Holds(h, p)

-----------------------------------------------------------------------------
(* create_period                                                             *)
CreatePeriod(p) ==
  /\ ~Exists(p)
  /\ period' = [period EXCEPT ![p] = [status |-> "OPEN", closedBy |-> NoRow]]
  /\ UNCHANGED <<blocking, evaluation, closeEvents, closer>>

-----------------------------------------------------------------------------
(* close_period: a closed period is refused twice over, by what the route    *)
(* has read and by the query that locks the row.                             *)
RequestClose(h, p) ==
  /\ closer[h].pc = "idle"
  /\ Exists(p) /\ ~IsClosed(p)
  /\ Len(evaluation[p]) < MaxEvaluations
  /\ closer' = [closer EXCEPT ![h] =
       [Idle EXCEPT !.pc = "lock", !.aim = "close", !.period = p]]
  /\ UNCHANGED <<period, blocking, evaluation, closeEvents>>

(* Fault: the row is read without FOR UPDATE.                               *)
MayLock_NoForUpdate(p) == ~IsClosed(p)

MayLock(p) == ~Locked(p) /\ ~IsClosed(p)

LockPeriod(h) ==
  /\ closer[h].pc = "lock"
  /\ MayLock(closer[h].period)
  /\ closer' = [closer EXCEPT ![h].pc = "read"]
  /\ UNCHANGED <<period, blocking, evaluation, closeEvents>>

LockRefused(h) ==
  /\ closer[h].pc = "lock"
  /\ ~Locked(closer[h].period)
  /\ IsClosed(closer[h].period)
  /\ Release(h)
  /\ UNCHANGED <<period, blocking, evaluation, closeEvents>>

(* evaluate_close_readiness: one query after the other, in READ COMMITTED.   *)
ReadControl(h) ==
  LET n == closer[h].next IN
  /\ closer[h].pc = "read"
  /\ n <= Len(Controls)
  /\ closer' = [closer EXCEPT
       ![h].next = n + 1,
       ![h].found = @ \cup ({Controls[n]} \cap blocking[closer[h].period])]
  /\ UNCHANGED <<period, blocking, evaluation, closeEvents>>

(* Fault: the last control is left out.                                     *)
HasRead_AllButLast(h, aim) ==
  /\ closer[h].pc = "read"
  /\ closer[h].aim = aim
  /\ closer[h].next >= Len(Controls)

HasRead(h, aim) ==
  /\ closer[h].pc = "read"
  /\ closer[h].aim = aim
  /\ closer[h].next > Len(Controls)

Record(h, ready) ==
  evaluation' = [evaluation EXCEPT
    ![closer[h].period] = Append(@, [by |-> h, ready |-> ready])]

(* Fault: a blocked close is evaluated again and again.                     *)
RefuseBlocked_Retries(h) ==
  /\ HasRead(h, "close")
  /\ closer[h].found # {}
  /\ closer' = [closer EXCEPT ![h].next = 1, ![h].found = {}]
  /\ UNCHANGED <<period, blocking, evaluation, closeEvents>>

(* The blocked evaluation is committed, then the close is refused.           *)
RefuseBlocked(h) ==
  /\ HasRead(h, "close")
  /\ closer[h].found # {}
  /\ Record(h, FALSE)
  /\ Release(h)
  /\ UNCHANGED <<period, blocking, closeEvents>>

(* Fault: the evaluation is not recorded.                                   *)
ClosePeriod_Unexplained(h) ==
  LET p == closer[h].period IN
  /\ HasRead(h, "close")
  /\ closer[h].found = {}
  /\ period' = [period EXCEPT ![p] = [status |-> "CLOSED", closedBy |-> h]]
  /\ closeEvents' = [closeEvents EXCEPT ![p] = @ + 1]
  /\ Release(h)
  /\ UNCHANGED <<blocking, evaluation>>

(* One commit: the status, the evaluation and the PERIOD_CLOSED event.       *)
ClosePeriod(h) ==
  LET p == closer[h].period IN
  /\ HasRead(h, "close")
  /\ closer[h].found = {}
  /\ period' = [period EXCEPT ![p] = [status |-> "CLOSED", closedBy |-> h]]
  /\ closeEvents' = [closeEvents EXCEPT ![p] = @ + 1]
  /\ Record(h, TRUE)
  /\ Release(h)
  /\ UNCHANGED <<blocking>>

-----------------------------------------------------------------------------
(* api_evaluate_period_close: no lock, and whatever the status.              *)
RequestEvaluation(h, p) ==
  /\ closer[h].pc = "idle"
  /\ Exists(p)
  /\ Len(evaluation[p]) < MaxEvaluations
  /\ closer' = [closer EXCEPT ![h] =
       [Idle EXCEPT !.pc = "read", !.aim = "evaluate", !.period = p]]
  /\ UNCHANGED <<period, blocking, evaluation, closeEvents>>

(* The INSERT refers to the period row, and waits for whoever locked it.     *)
RecordEvaluation(h) ==
  LET ready == closer[h].found = {} IN
  /\ HasRead(h, "evaluate")
  /\ ~Locked(closer[h].period)
  /\ Record(h, ready)
  /\ closer' = [closer EXCEPT ![h] =
       IF ready THEN Idle ELSE [@ EXCEPT !.pc = "notify"]]
  /\ UNCHANGED <<period, blocking, closeEvents>>

(* The message of the notification is formatted with period.name, which a    *)
(* FinancialPeriod does not have: the request fails, and nobody is notified. *)
NotifyBlocked(h) ==
  /\ closer[h].pc = "notify"
  /\ Release(h)
  /\ UNCHANGED <<period, blocking, evaluation, closeEvents>>

-----------------------------------------------------------------------------
(* The other components: payments are ingested, discrepancies found and      *)
(* resolved, requests made and decided, executions claimed and settled.      *)
MayCommit(p, c) ==
  c \in Racing \/ \A h \in Closers : closer[h].pc = "read" => closer[h].period # p

Arises(p, c) ==
  /\ MayCommit(p, c)
  /\ c \notin blocking[p]
  /\ blocking' = [blocking EXCEPT ![p] = @ \cup {c}]
  /\ UNCHANGED <<period, evaluation, closeEvents, closer>>

Clears(p, c) ==
  /\ MayCommit(p, c)
  /\ c \in blocking[p] \ Sticky
  /\ blocking' = [blocking EXCEPT ![p] = @ \ {c}]
  /\ UNCHANGED <<period, evaluation, closeEvents, closer>>

Crash(h) ==
  /\ h \in Mortal
  /\ closer[h].pc # "idle"
  /\ Release(h)
  /\ UNCHANGED <<period, blocking, evaluation, closeEvents>>

Arrive(h) == \E p \in Periods : RequestClose(h, p) \/ RequestEvaluation(h, p)

Proceed(h) ==
  \/ LockPeriod(h)
  \/ LockRefused(h)
  \/ ReadControl(h)
  \/ RefuseBlocked(h)
  \/ ClosePeriod(h)
  \/ RecordEvaluation(h)
  \/ NotifyBlocked(h)

Others == \E p \in Periods, c \in Active : Arises(p, c) \/ Clears(p, c)

Next ==
  \/ \E p \in Periods : CreatePeriod(p)
  \/ \E h \in Closers : Arrive(h) \/ Proceed(h) \/ Crash(h)
  \/ Others

Spec == Init /\ [][Next]_vars

(* The event loop resumes a request whose await has completed.  PostgreSQL    *)
(* queues those who wait for a row lock: whoever waits gets it in the end,   *)
(* however many others take it and give it back.                             *)
FairSpec ==
  /\ Spec
  /\ \A h \in Closers : /\ WF_vars(Proceed(h))
                        /\ SF_vars(LockPeriod(h) \/ LockRefused(h))

-----------------------------------------------------------------------------
(* "SELECT ... FOR UPDATE" prevents "race conditions during concurrent close *)
(* attempts": a closed period was closed by one request, which one event     *)
(* tells of, however many passed the check of the route.                     *)
ClosedOnce ==
  \A p \in Periods : closeEvents[p] = IF IsClosed(p) THEN 1 ELSE 0

(* A closed period has, on record, an evaluation by whoever closed it that   *)
(* found it ready.                                                           *)
ClosedIsExplained ==
  \A p \in Periods : IsClosed(p) =>
    \E n \in 1..Len(evaluation[p]) :
      evaluation[p][n] = [by |-> period[p].closedBy, ready |-> TRUE]

(* A request for a close that waits for the lock is answered, however often  *)
(* others take the lock before it, and die with it.                          *)
CloseIsAnswered ==
  \A h \in Closers : closer[h].pc = "lock" ~> closer[h].pc = "idle"

(* What the lock and the repeated evaluation do ensure: a control that       *)
(* nobody changes during the reading does not block the period at the close. *)
QuietControlsHold ==
  [][\A p \in Periods :
       ~IsClosed(p) /\ IsClosed(p)' => blocking[p] \subseteq Racing]_vars
=============================================================================
