------------------------- MODULE PeriodCloseProofs -------------------------
(***************************************************************************)
(* Safety of PeriodClose, for any number of periods and closers, any       *)
(* controls that rise and fall, with or without crashes.                   *)
(***************************************************************************)
EXTENDS PeriodClose, SequenceTheorems, TLAPS

(* A request that is under way works on a period that exists, and one that   *)
(* waits for the lock means to close it.                                     *)
Aims(h) ==
  /\ closer[h].pc # "idle" => closer[h].period \in Periods /\ Exists(closer[h].period)
  /\ closer[h].pc = "lock" => closer[h].aim = "close"

TypeInv == TypeOK /\ \A h \in Closers : Aims(h)

-----------------------------------------------------------------------------
LEMMA SevenControls ==
  /\ Len(Controls) = 7
  /\ \A n \in 1..7 : Controls[n] \in ControlCodes
  /\ \A c \in ControlCodes : \E n \in 1..7 : c = Controls[n]
<1>1. Len(Controls) = 7 /\ DOMAIN Controls = 1..7
  BY DEF Controls
<1> QED
  BY <1>1 DEF ControlCodes

LEMMA IdleIsActivity ==
  /\ Idle \in Activity /\ Idle.pc = "idle" /\ Idle.aim = NoRow
  /\ Idle.next = 1 /\ Idle.found = {}
<1>1. Len(Controls) = 7
  BY SevenControls
<1> QED
  BY <1>1 DEF Idle, Activity

(* What a step makes of the request that takes it.                           *)
LEMMA Released ==
  ASSUME TypeOK, NEW h \in Closers, Release(h)
  PROVE  /\ closer' \in [Closers -> Activity]
         /\ closer'[h] = Idle
         /\ \A k \in Closers : k # h => closer'[k] = closer[k]
BY IdleIsActivity DEF TypeOK, Release

LEMMA Arrived ==
  ASSUME TypeOK, NEW h \in Closers, NEW p \in Periods,
         RequestClose(h, p) \/ RequestEvaluation(h, p)
  PROVE  /\ closer' \in [Closers -> Activity]
         /\ \/ closer'[h].pc = "lock" /\ closer'[h].aim = "close"
            \/ closer'[h].pc = "read" /\ closer'[h].aim = "evaluate"
         /\ closer'[h].period = p /\ closer'[h].next = 1
         /\ closer'[h].found = {}
         /\ \A k \in Closers : k # h => closer'[k] = closer[k]
<1>1. CASE RequestClose(h, p)
  <2> DEFINE act == [Idle EXCEPT !.pc = "lock", !.aim = "close", !.period = p]
  <2>1. act \in Activity /\ act.pc = "lock" /\ act.aim = "close"
        /\ act.period = p /\ act.next = 1 /\ act.found = {}
    BY SevenControls, IdleIsActivity DEF Idle, Activity
  <2>2. closer' = [closer EXCEPT ![h] = act]
    BY <1>1 DEF RequestClose
  <2> HIDE DEF act
  <2>3. /\ closer' \in [Closers -> Activity] /\ closer'[h] = act
        /\ \A k \in Closers : k # h => closer'[k] = closer[k]
    BY <2>1, <2>2 DEF TypeOK
  <2> QED
    BY <2>1, <2>3
<1>2. CASE RequestEvaluation(h, p)
  <2> DEFINE act == [Idle EXCEPT !.pc = "read", !.aim = "evaluate", !.period = p]
  <2>1. act \in Activity /\ act.pc = "read" /\ act.aim = "evaluate"
        /\ act.period = p /\ act.next = 1 /\ act.found = {}
    BY SevenControls, IdleIsActivity DEF Idle, Activity
  <2>2. closer' = [closer EXCEPT ![h] = act]
    BY <1>2 DEF RequestEvaluation
  <2> HIDE DEF act
  <2> QED
    BY <2>1, <2>2 DEF TypeOK
<1> QED
  BY <1>1, <1>2

LEMMA Moved ==
  ASSUME TypeOK, NEW h \in Closers, NEW pc \in {"read", "notify"},
         closer' = [closer EXCEPT ![h].pc = pc]
  PROVE  /\ closer' \in [Closers -> Activity]
         /\ closer'[h].pc = pc /\ closer'[h].aim = closer[h].aim
         /\ closer'[h].period = closer[h].period
         /\ closer'[h].next = closer[h].next
         /\ closer'[h].found = closer[h].found
         /\ \A k \in Closers : k # h => closer'[k] = closer[k]
<1> DEFINE act == [closer[h] EXCEPT !.pc = pc]
<1>1. act \in Activity /\ act.pc = pc /\ act.aim = closer[h].aim
      /\ act.period = closer[h].period /\ act.next = closer[h].next
      /\ act.found = closer[h].found
  BY DEF TypeOK, Activity
<1>2. closer' = [closer EXCEPT ![h] = act]
  OBVIOUS
<1> HIDE DEF act
<1> QED
  BY <1>1, <1>2 DEF TypeOK

LEMMA HasReadOne ==
  ASSUME TypeInv, NEW h \in Closers, ReadControl(h)
  PROVE  LET n == closer[h].next IN
         /\ n \in 1..7
         /\ closer' \in [Closers -> Activity]
         /\ closer'[h].pc = "read" /\ closer'[h].aim = closer[h].aim
         /\ closer'[h].period = closer[h].period
         /\ closer'[h].next = n + 1
         /\ closer'[h].found = closer[h].found
              \cup ({Controls[n]} \cap blocking[closer[h].period])
         /\ \A k \in Closers : k # h => closer'[k] = closer[k]
<1> DEFINE n == closer[h].next
           more == closer[h].found
                     \cup ({Controls[n]} \cap blocking[closer[h].period])
           act == [closer[h] EXCEPT !.next = n + 1, !.found = more]
<1>1. closer[h] \in Activity /\ n \in 1..7 /\ closer[h].pc = "read"
  BY SevenControls DEF ReadControl, TypeInv, TypeOK, Activity
<1>2. closer' = [closer EXCEPT ![h] = act]
  BY DEF ReadControl
<1>3. more \in SUBSET ControlCodes
  BY <1>1, SevenControls DEF Activity
<1>4. n + 1 \in 1..(Len(Controls) + 1)
  BY <1>1, SevenControls
<1> HIDE DEF more, n
<1>5. act \in Activity /\ act.pc = "read" /\ act.aim = closer[h].aim
      /\ act.period = closer[h].period /\ act.next = n + 1 /\ act.found = more
  BY <1>1, <1>3, <1>4 DEF Activity
<1> HIDE DEF act
<1>6. /\ closer' \in [Closers -> Activity] /\ closer'[h] = act
      /\ \A k \in Closers : k # h => closer'[k] = closer[k]
  BY <1>2, <1>5 DEF TypeInv, TypeOK
<1> QED
  BY <1>1, <1>5, <1>6 DEF more, n

LEMMA Recorded ==
  ASSUME TypeInv, NEW h \in Closers, closer[h].pc # "idle",
         NEW ready \in BOOLEAN, Record(h, ready)
  PROVE  LET p == closer[h].period IN
         /\ p \in Periods
         /\ evaluation' \in [Periods -> Seq(EvaluationRow)]
         /\ evaluation'[p]
              = Append(evaluation[p], [by |-> h, ready |-> ready])
         /\ \A q \in Periods : q # p => evaluation'[q] = evaluation[q]
<1> DEFINE p == closer[h].period
           row == [by |-> h, ready |-> ready]
<1>1. p \in Periods /\ evaluation \in [Periods -> Seq(EvaluationRow)]
  BY DEF TypeInv, TypeOK, Aims
<1>2. row \in EvaluationRow
  BY DEF EvaluationRow
<1>3. evaluation' = [evaluation EXCEPT ![p] = Append(evaluation[p], row)]
  BY <1>1 DEF Record
<1> HIDE DEF p, row
<1>4. Append(evaluation[p], row) \in Seq(EvaluationRow)
  BY <1>1, <1>2
<1>5. /\ evaluation' \in [Periods -> Seq(EvaluationRow)]
      /\ evaluation'[p] = Append(evaluation[p], row)
      /\ \A q \in Periods : q # p => evaluation'[q] = evaluation[q]
  BY <1>1, <1>3, <1>4
<1> QED
  BY <1>1, <1>5 DEF p, row

LEMMA RecordedEvaluation ==
  ASSUME TypeInv, NEW h \in Closers, RecordEvaluation(h)
  PROVE  /\ closer' \in [Closers -> Activity]
         /\ closer'[h].pc \in {"idle", "notify"}
         /\ closer'[h].period \in Periods \cup {NoRow}
         /\ closer'[h].pc = "notify" => closer'[h].period = closer[h].period
         /\ \A k \in Closers : k # h => closer'[k] = closer[k]
<1>1. CASE closer[h].found = {}
  <2>1. Release(h)
    BY <1>1 DEF RecordEvaluation, Release
  <2> QED
    BY <2>1, Released, IdleIsActivity DEF TypeInv, Idle
<1>2. CASE closer[h].found # {}
  <2>1. closer' = [closer EXCEPT ![h].pc = "notify"]
    BY <1>2 DEF RecordEvaluation
  <2> QED
    BY <2>1, Moved DEF TypeInv, TypeOK, Activity
<1> QED
  BY <1>1, <1>2

(* A period that is closed is not closed by a second write: its row, and the *)
(* event of the close, are written together.                                 *)
LEMMA Closed ==
  ASSUME TypeInv, NEW h \in Closers, ClosePeriod(h)
  PROVE  LET p == closer[h].period IN
         /\ p \in Periods /\ Holds(h, p)
         /\ period' \in [Periods -> Row \cup {NoRow}]
         /\ period'[p] # NoRow /\ period'[p].status = "CLOSED"
         /\ period'[p].closedBy = h
         /\ \A q \in Periods : q # p => period'[q] = period[q]
         /\ closeEvents' \in [Periods -> Nat]
         /\ closeEvents'[p] = closeEvents[p] + 1
         /\ \A q \in Periods : q # p => closeEvents'[q] = closeEvents[q]
<1> DEFINE p == closer[h].period
           row == [status |-> "CLOSED", closedBy |-> h]
<1>1. p \in Periods /\ Holds(h, p)
  BY DEF ClosePeriod, HasRead, TypeInv, Aims, Holds
<1>2. row \in Row /\ row.status = "CLOSED" /\ row.closedBy = h
  BY DEF Row
<1>3. period' = [period EXCEPT ![p] = row]
  BY DEF ClosePeriod
<1>4. closeEvents' = [closeEvents EXCEPT ![p] = closeEvents[p] + 1]
  BY <1>1 DEF ClosePeriod, TypeInv, TypeOK
<1> HIDE DEF p, row
<1>5. /\ period' \in [Periods -> Row \cup {NoRow}]
      /\ period'[p] = row
      /\ \A q \in Periods : q # p => period'[q] = period[q]
  BY <1>1, <1>2, <1>3 DEF TypeInv, TypeOK
<1>6. period'[p] # NoRow
  BY <1>2, <1>5, NoRowAssumption
<1>7. /\ closeEvents' \in [Periods -> Nat]
      /\ closeEvents'[p] = closeEvents[p] + 1
      /\ \A q \in Periods : q # p => closeEvents'[q] = closeEvents[q]
  BY <1>1, <1>4 DEF TypeInv, TypeOK
<1> QED
  BY <1>1, <1>2, <1>5, <1>6, <1>7 DEF p

LEMMA Created ==
  ASSUME TypeInv, NEW p \in Periods, CreatePeriod(p)
  PROVE  /\ period' \in [Periods -> Row \cup {NoRow}]
         /\ Exists(p)' /\ ~IsClosed(p)' /\ ~Exists(p)
         /\ \A q \in Periods : q # p => period'[q] = period[q]
<1> DEFINE row == [status |-> "OPEN", closedBy |-> NoRow]
<1>1. row \in Row /\ row.status = "OPEN"
  BY DEF Row
<1>2. period' = [period EXCEPT ![p] = row] /\ ~Exists(p)
  BY DEF CreatePeriod
<1> HIDE DEF row
<1>3. period' \in [Periods -> Row \cup {NoRow}] /\ period'[p] = row
      /\ \A q \in Periods : q # p => period'[q] = period[q]
  BY <1>1, <1>2 DEF TypeInv, TypeOK
<1> QED
  BY <1>1, <1>2, <1>3, NoRowAssumption DEF IsClosed, Exists

(* Period rows are inserted and updated, never deleted.                      *)
LEMMA PeriodsStay ==
  ASSUME TypeInv, [Next]_vars, NEW q \in Periods, Exists(q)
  PROVE  Exists(q)'
<1>1. ASSUME NEW p \in Periods, CreatePeriod(p) PROVE Exists(q)'
  BY <1>1, Created DEF Exists
<1>2. ASSUME NEW h \in Closers, ClosePeriod(h) PROVE Exists(q)'
  <2>1. CASE q = closer[h].period
    BY <1>2, <2>1, Closed DEF Exists
  <2>2. CASE q # closer[h].period
    BY <1>2, <2>2, Closed DEF Exists
  <2> QED
    BY <2>1, <2>2
<1>3. CASE UNCHANGED period
  BY <1>3 DEF Exists
<1> QED
  BY <1>1, <1>2, <1>3 DEF Next, vars, Arrive, Proceed, Others, RequestClose,
     RequestEvaluation, LockPeriod, LockRefused, ReadControl, RefuseBlocked,
     RecordEvaluation, NotifyBlocked, Crash, Arises, Clears

-----------------------------------------------------------------------------
LEMMA TypeInit == Init => TypeInv
<1> SUFFICES ASSUME Init PROVE TypeInv
  OBVIOUS
<1>1. \A h \in Closers : closer[h] = Idle
  BY DEF Init
<1>2. closer \in [Closers -> Activity]
  BY IdleIsActivity DEF Init
<1>3. blocking \in [Periods -> SUBSET ControlCodes]
  BY ActiveAssumption DEF Init
<1> QED
  BY <1>1, <1>2, <1>3, IdleIsActivity DEF Init, TypeInv, TypeOK, Aims

(* The step of one request keeps the others' work, and its own if it goes on *)
(* with it.                                                                  *)
LEMMA OthersAim ==
  ASSUME TypeInv, [Next]_vars, NEW h \in Closers,
         \A k \in Closers : k # h => closer'[k] = closer[k],
         closer' \in [Closers -> Activity],
         Aims(h)'
  PROVE  \A k \in Closers : Aims(k)'
<1> SUFFICES ASSUME NEW k \in Closers, k # h PROVE Aims(k)'
  OBVIOUS
<1> QED
  BY PeriodsStay DEF TypeInv, Aims

LEMMA TypeStep == TypeInv /\ [Next]_vars => TypeInv'
<1> SUFFICES ASSUME TypeInv, [Next]_vars PROVE TypeInv'
  OBVIOUS
<1>1. ASSUME NEW p \in Periods, CreatePeriod(p) PROVE TypeInv'
  BY <1>1, Created, PeriodsStay DEF CreatePeriod, TypeInv, TypeOK, Aims
<1>2. ASSUME NEW h \in Closers, Arrive(h) PROVE TypeInv'
  <2>1. PICK p \in Periods : RequestClose(h, p) \/ RequestEvaluation(h, p)
    BY <1>2 DEF Arrive
  <2>2. TypeOK /\ Exists(p)
    BY <2>1 DEF TypeInv, RequestClose, RequestEvaluation
  <2>3. /\ closer' \in [Closers -> Activity]
        /\ closer'[h].period = p
        /\ closer'[h].pc = "lock" => closer'[h].aim = "close"
        /\ \A k \in Closers : k # h => closer'[k] = closer[k]
    BY <2>1, <2>2, Arrived
  <2>4. Aims(h)'
    BY <2>2, <2>3, PeriodsStay DEF Aims
  <2>5. \A k \in Closers : Aims(k)'
    BY <2>3, <2>4, OthersAim
  <2> QED
    BY <2>1, <2>3, <2>5 DEF TypeInv, TypeOK, RequestClose, RequestEvaluation
<1>3. ASSUME NEW h \in Closers, LockPeriod(h) PROVE TypeInv'
  <2>1. closer' = [closer EXCEPT ![h].pc = "read"] /\ closer[h].pc = "lock"
    BY <1>3 DEF LockPeriod
  <2>2. /\ closer' \in [Closers -> Activity]
        /\ closer'[h].pc = "read" /\ closer'[h].period = closer[h].period
        /\ \A k \in Closers : k # h => closer'[k] = closer[k]
    BY <2>1, Moved DEF TypeInv
  <2>3. Aims(h)'
    BY <2>1, <2>2, PeriodsStay DEF TypeInv, Aims
  <2>4. \A k \in Closers : Aims(k)'
    BY <2>2, <2>3, OthersAim
  <2> QED
    BY <1>3, <2>2, <2>4 DEF LockPeriod, TypeInv, TypeOK
<1>4. ASSUME NEW h \in Closers, Release(h) PROVE
        /\ closer' \in [Closers -> Activity]
        /\ \A k \in Closers : Aims(k)'
  <2>1. /\ closer' \in [Closers -> Activity] /\ closer'[h] = Idle
        /\ \A k \in Closers : k # h => closer'[k] = closer[k]
    BY <1>4, Released DEF TypeInv
  <2>2. Aims(h)'
    BY <2>1, IdleIsActivity DEF Aims
  <2> QED
    BY <2>1, <2>2, OthersAim
<1>5. ASSUME NEW h \in Closers, LockRefused(h) \/ NotifyBlocked(h) \/ Crash(h)
      PROVE TypeInv'
  <2>1. Release(h) /\ UNCHANGED <<period, blocking, evaluation, closeEvents>>
    BY <1>5 DEF LockRefused, NotifyBlocked, Crash
  <2> QED
    BY <1>4, <2>1 DEF TypeInv, TypeOK
<1>6. ASSUME NEW h \in Closers, ReadControl(h) PROVE TypeInv'
  <2>1. /\ closer' \in [Closers -> Activity]
        /\ closer'[h].pc = "read" /\ closer'[h].period = closer[h].period
        /\ \A k \in Closers : k # h => closer'[k] = closer[k]
    BY <1>6, HasReadOne
  <2>2. closer[h].pc = "read"
    BY <1>6 DEF ReadControl
  <2>3. Aims(h)'
    BY <2>1, <2>2, PeriodsStay DEF TypeInv, Aims
  <2>4. \A k \in Closers : Aims(k)'
    BY <2>1, <2>3, OthersAim
  <2> QED
    BY <1>6, <2>1, <2>4 DEF ReadControl, TypeInv, TypeOK
<1>7. ASSUME NEW h \in Closers, RefuseBlocked(h) PROVE TypeInv'
  <2>1. Release(h) /\ Record(h, FALSE) /\ closer[h].pc # "idle"
        /\ UNCHANGED <<period, blocking, closeEvents>>
    BY <1>7 DEF RefuseBlocked, HasRead
  <2>2. evaluation' \in [Periods -> Seq(EvaluationRow)]
    BY <2>1, Recorded
  <2> QED
    BY <1>4, <2>1, <2>2 DEF TypeInv, TypeOK
<1>8. ASSUME NEW h \in Closers, ClosePeriod(h) PROVE TypeInv'
  <2>1. Release(h) /\ Record(h, TRUE) /\ closer[h].pc # "idle"
        /\ UNCHANGED <<blocking>>
    BY <1>8 DEF ClosePeriod, HasRead
  <2>2. evaluation' \in [Periods -> Seq(EvaluationRow)]
    BY <2>1, Recorded
  <2>3. period' \in [Periods -> Row \cup {NoRow}] /\ closeEvents' \in [Periods -> Nat]
    BY <1>8, Closed
  <2> QED
    BY <1>4, <2>1, <2>2, <2>3 DEF TypeInv, TypeOK
<1>9. ASSUME NEW h \in Closers, RecordEvaluation(h) PROVE TypeInv'
  <2> DEFINE ready == closer[h].found = {}
  <2>1. Record(h, ready) /\ closer[h].pc # "idle"
        /\ UNCHANGED <<period, blocking, closeEvents>>
    BY <1>9 DEF RecordEvaluation, HasRead
  <2>2. ready \in BOOLEAN
    OBVIOUS
  <2>3. evaluation' \in [Periods -> Seq(EvaluationRow)]
    BY <2>1, <2>2, Recorded
  <2>4. /\ closer' \in [Closers -> Activity]
        /\ closer'[h].pc \in {"idle", "notify"}
        /\ closer'[h].pc = "notify" => closer'[h].period = closer[h].period
        /\ \A k \in Closers : k # h => closer'[k] = closer[k]
    BY <1>9, RecordedEvaluation
  <2>5. Aims(h)'
    BY <2>1, <2>4, PeriodsStay DEF TypeInv, Aims
  <2>6. \A k \in Closers : Aims(k)'
    BY <2>4, <2>5, OthersAim
  <2> QED
    BY <2>1, <2>3, <2>4, <2>6 DEF TypeInv, TypeOK
<1>10. ASSUME Others PROVE TypeInv'
  <2>1. PICK p \in Periods, c \in Active : Arises(p, c) \/ Clears(p, c)
    BY <1>10 DEF Others
  <2>2. blocking' \in [Periods -> SUBSET ControlCodes]
    <3>1. PICK S \in SUBSET ControlCodes : blocking' = [blocking EXCEPT ![p] = S]
      <4>1. c \in ControlCodes /\ blocking[p] \in SUBSET ControlCodes
        BY ActiveAssumption DEF TypeInv, TypeOK
      <4>2. blocking' = [blocking EXCEPT ![p] = blocking[p] \cup {c}]
            \/ blocking' = [blocking EXCEPT ![p] = blocking[p] \ {c}]
        BY <2>1 DEF Arises, Clears, TypeInv, TypeOK
      <4> QED
        BY <4>1, <4>2
    <3> QED
      BY <3>1 DEF TypeInv, TypeOK
  <2>3. UNCHANGED <<period, evaluation, closeEvents, closer>>
    BY <2>1 DEF Arises, Clears
  <2> QED
    BY <2>2, <2>3 DEF TypeInv, TypeOK, Aims, Exists
<1>11. CASE UNCHANGED vars
  BY <1>11 DEF vars, TypeInv, TypeOK, Aims, Exists
<1> QED
  BY <1>1, <1>2, <1>3, <1>5, <1>6, <1>7, <1>8, <1>9, <1>10, <1>11
     DEF Next, Proceed

(* Every variable keeps its type, and a request that is under way works on a *)
(* period that exists.                                                       *)
THEOREM TypeInvariance == Spec => []TypeInv
BY TypeInit, TypeStep, PTL DEF Spec

-----------------------------------------------------------------------------
(* The row lock is exclusive, and nobody holds it on a closed period.        *)
LockInv ==
  /\ \A p \in Periods, h, k \in Closers : Holds(h, p) /\ Holds(k, p) => h = k
  /\ \A p \in Periods, h \in Closers : Holds(h, p) => ~IsClosed(p)

(* What a reader has passed and not found does not block, unless it races.   *)
HasSeen(h) ==
  /\ closer[h].pc = "lock" => closer[h].next = 1
  /\ closer[h].pc = "read" =>
       \A n \in 1..7 : n < closer[h].next
                         /\ Controls[n] \in blocking[closer[h].period]
                       => Controls[n] \in closer[h].found \cup Racing

ReadInv == \A h \in Closers : HasSeen(h)

Inv == TypeInv /\ LockInv /\ ClosedOnce /\ ClosedIsExplained /\ ReadInv

(* A lock is taken by LockPeriod only.                                       *)
LEMMA Holders ==
  ASSUME TypeInv, [Next]_vars, NEW k \in Closers, NEW p \in Periods, Holds(k, p)'
  PROVE  Holds(k, p) \/ (LockPeriod(k) /\ closer[k].period = p)
<1>1. ASSUME NEW h \in Closers, k # h => closer'[k] = closer[k],
             k = h => closer'[k].pc # "read"
      PROVE  Holds(k, p)
  BY <1>1 DEF Holds
<1>2. ASSUME NEW h \in Closers, Arrive(h) PROVE Holds(k, p)
  <2>1. PICK q \in Periods : RequestClose(h, q) \/ RequestEvaluation(h, q)
    BY <1>2 DEF Arrive
  <2>2. /\ closer'[h].pc = "lock" \/ closer'[h].aim = "evaluate"
        /\ k # h => closer'[k] = closer[k]
    BY <2>1, Arrived DEF TypeInv
  <2> QED
    BY <2>2 DEF Holds
<1>3. ASSUME NEW h \in Closers, LockPeriod(h)
      PROVE  Holds(k, p) \/ (LockPeriod(k) /\ closer[k].period = p)
  <2>1. closer' = [closer EXCEPT ![h].pc = "read"]
    BY <1>3 DEF LockPeriod
  <2>2. /\ closer'[h].period = closer[h].period
        /\ k # h => closer'[k] = closer[k]
    BY <2>1, Moved DEF TypeInv
  <2> QED
    BY <1>3, <2>2 DEF Holds
<1>4. ASSUME NEW h \in Closers, Release(h) PROVE Holds(k, p)
  <2>1. closer'[h] = Idle /\ (k # h => closer'[k] = closer[k])
    BY <1>4, Released DEF TypeInv
  <2> QED
    BY <1>1, <2>1, IdleIsActivity
<1>5. ASSUME NEW h \in Closers, ReadControl(h) PROVE Holds(k, p)
  <2>1. /\ closer'[h].aim = closer[h].aim /\ closer'[h].period = closer[h].period
        /\ k # h => closer'[k] = closer[k]
    BY <1>5, HasReadOne
  <2>2. closer[h].pc = "read"
    BY <1>5 DEF ReadControl
  <2> QED
    BY <2>1, <2>2 DEF Holds
<1>6. ASSUME NEW h \in Closers, RecordEvaluation(h) PROVE Holds(k, p)
  <2>1. /\ closer'[h].pc \in {"idle", "notify"}
        /\ k # h => closer'[k] = closer[k]
    BY <1>6, RecordedEvaluation
  <2> QED
    BY <1>1, <2>1
<1>7. CASE UNCHANGED closer
  BY <1>7 DEF Holds
<1> QED
  BY <1>2, <1>3, <1>4, <1>5, <1>6, <1>7 DEF Next, vars, Proceed, LockRefused,
     RefuseBlocked, ClosePeriod, NotifyBlocked, Crash, CreatePeriod, Others,
     Arises, Clears

(* What becomes of a period and of the events that tell of it.               *)
LEMMA PeriodKinds ==
  ASSUME TypeInv, [Next]_vars, NEW p \in Periods
  PROVE  \/ period'[p] = period[p] /\ closeEvents'[p] = closeEvents[p]
         \/ ~Exists(p) /\ ~IsClosed(p)' /\ closeEvents'[p] = closeEvents[p]
         \/ \E h \in Closers : ClosePeriod(h) /\ closer[h].period = p
<1>1. ASSUME NEW q \in Periods, CreatePeriod(q)
      PROVE  /\ closeEvents'[p] = closeEvents[p]
             /\ period'[p] = period[p] \/ (~Exists(p) /\ ~IsClosed(p)')
  <2>1. closeEvents' = closeEvents
    BY <1>1 DEF CreatePeriod
  <2>2. CASE p = q
    BY <1>1, <2>1, <2>2, Created
  <2>3. CASE p # q
    BY <1>1, <2>1, <2>3, Created
  <2> QED
    BY <2>2, <2>3
<1>2. ASSUME NEW h \in Closers, ClosePeriod(h), closer[h].period # p
      PROVE  period'[p] = period[p] /\ closeEvents'[p] = closeEvents[p]
  BY <1>2, Closed
<1>3. CASE UNCHANGED <<period, closeEvents>>
  BY <1>3
<1> QED
  BY <1>1, <1>2, <1>3 DEF Next, vars, Arrive, Proceed, Others, RequestClose,
     RequestEvaluation, LockPeriod, LockRefused, ReadControl, RefuseBlocked,
     RecordEvaluation, NotifyBlocked, Crash, Arises, Clears

(* Evaluations are appended, never changed.                                  *)
LEMMA EvaluationsStay ==
  ASSUME TypeInv, [Next]_vars, NEW p \in Periods,
         NEW n \in 1..Len(evaluation[p])
  PROVE  n \in 1..Len(evaluation'[p]) /\ evaluation'[p][n] = evaluation[p][n]
<1>1. ASSUME NEW h \in Closers, closer[h].pc # "idle",
             NEW ready \in BOOLEAN, Record(h, ready)
      PROVE  n \in 1..Len(evaluation'[p]) /\ evaluation'[p][n] = evaluation[p][n]
  <2> DEFINE row == [by |-> h, ready |-> ready]
  <2>1. \/ evaluation'[p] = evaluation[p]
        \/ evaluation'[p] = Append(evaluation[p], row)
    BY <1>1, Recorded
  <2>2. evaluation[p] \in Seq(EvaluationRow) /\ row \in EvaluationRow
    BY DEF TypeInv, TypeOK, EvaluationRow
  <2> HIDE DEF row
  <2> QED
    BY <2>1, <2>2
<1>2. ASSUME NEW h \in Closers,
             RefuseBlocked(h) \/ ClosePeriod(h) \/ RecordEvaluation(h)
      PROVE  n \in 1..Len(evaluation'[p]) /\ evaluation'[p][n] = evaluation[p][n]
  <2>1. /\ closer[h].pc # "idle"
        /\ \/ Record(h, FALSE) \/ Record(h, TRUE)
           \/ Record(h, closer[h].found = {})
    BY <1>2 DEF RefuseBlocked, ClosePeriod, RecordEvaluation, HasRead
  <2> QED
    BY <1>1, <2>1
<1>3. CASE UNCHANGED evaluation
  BY <1>3
<1> QED
  BY <1>2, <1>3 DEF Next, vars, Arrive, Proceed, Others, RequestClose,
     RequestEvaluation, LockPeriod, LockRefused, ReadControl, NotifyBlocked,
     Crash, Arises, Clears, CreatePeriod

-----------------------------------------------------------------------------
LEMMA SafetyInit == Init => Inv
<1> SUFFICES ASSUME Init PROVE Inv
  OBVIOUS
<1>1. TypeInv
  BY TypeInit
<1>2. \A h \in Closers : closer[h].pc = "idle"
  BY IdleIsActivity DEF Init
<1>3. \A p \in Periods : ~IsClosed(p) /\ closeEvents[p] = 0
  BY DEF Init, IsClosed, Exists
<1> QED
  BY <1>1, <1>2, <1>3 DEF Inv, LockInv, ReadInv, HasSeen, Holds, ClosedOnce,
     ClosedIsExplained

LEMMA LockStep == TypeInv /\ LockInv /\ [Next]_vars => LockInv'
<1> SUFFICES ASSUME TypeInv, LockInv, [Next]_vars PROVE LockInv'
  OBVIOUS
<1>1. ASSUME NEW p \in Periods, NEW h \in Closers, NEW k \in Closers,
             Holds(h, p)', Holds(k, p)'
      PROVE  h = k
  <2>1. Holds(h, p) \/ (LockPeriod(h) /\ closer[h].period = p)
    BY <1>1, Holders
  <2>2. Holds(k, p) \/ (LockPeriod(k) /\ closer[k].period = p)
    BY <1>1, Holders
  <2>3. CASE Holds(h, p) /\ Holds(k, p)
    BY <2>3 DEF LockInv
  <2>4. ASSUME NEW i \in Closers, LockPeriod(i), closer[i].period = p
        PROVE  \A j \in Closers : j # i => ~Holds(j, p)'
    <3>1. ~Locked(p) /\ closer' = [closer EXCEPT ![i].pc = "read"]
      BY <2>4 DEF LockPeriod, MayLock
    <3>2. \A j \in Closers : j # i => closer'[j] = closer[j]
      BY <3>1, Moved DEF TypeInv
    <3> QED
      BY <3>1, <3>2 DEF Locked, Holds
  <2> QED
    BY <1>1, <2>1, <2>2, <2>3, <2>4
<1>2. ASSUME NEW p \in Periods, NEW h \in Closers, Holds(h, p)'
      PROVE  ~IsClosed(p)'
  <2>1. Holds(h, p) \/ (LockPeriod(h) /\ closer[h].period = p)
    BY <1>2, Holders
  <2>2. ~IsClosed(p)
    BY <2>1 DEF LockInv, LockPeriod, MayLock
  <2>3. ASSUME NEW k \in Closers, ClosePeriod(k), closer[k].period = p PROVE FALSE
    <3>1. Holds(k, p) /\ Release(k)
      BY <2>3, Closed DEF ClosePeriod
    <3>2. closer'[k] = Idle /\ \A j \in Closers : j # k => closer'[j] = closer[j]
      BY <3>1, Released DEF TypeInv
    <3>3. h # k
      BY <1>2, <3>2, IdleIsActivity DEF Holds
    <3>4. Holds(h, p)
      BY <1>2, <3>2, <3>3 DEF Holds
    <3> QED
      BY <3>1, <3>3, <3>4 DEF LockInv
  <2> QED
    BY <2>2, <2>3, PeriodKinds DEF IsClosed, Exists
<1> QED
  BY <1>1, <1>2 DEF LockInv

(* Whoever closes a period holds its lock, so that it is open.               *)
LEMMA ClosesOpen ==
  ASSUME TypeInv, LockInv, NEW h \in Closers, ClosePeriod(h)
  PROVE  closer[h].period \in Periods /\ ~IsClosed(closer[h].period)
BY Closed DEF LockInv

LEMMA OnceStep == TypeInv /\ LockInv /\ ClosedOnce /\ [Next]_vars => ClosedOnce'
<1> SUFFICES ASSUME TypeInv, LockInv, ClosedOnce, [Next]_vars, NEW p \in Periods
             PROVE  closeEvents'[p] = IF IsClosed(p)' THEN 1 ELSE 0
  BY DEF ClosedOnce
<1>1. closeEvents[p] = IF IsClosed(p) THEN 1 ELSE 0
  BY DEF ClosedOnce
<1>2. CASE period'[p] = period[p] /\ closeEvents'[p] = closeEvents[p]
  BY <1>1, <1>2 DEF IsClosed, Exists
<1>3. CASE ~Exists(p) /\ ~IsClosed(p)' /\ closeEvents'[p] = closeEvents[p]
  BY <1>1, <1>3 DEF IsClosed
<1>4. ASSUME NEW h \in Closers, ClosePeriod(h), closer[h].period = p
      PROVE  closeEvents'[p] = IF IsClosed(p)' THEN 1 ELSE 0
  <2>1. ~IsClosed(p)
    BY <1>4, ClosesOpen
  <2>2. period'[p] # NoRow /\ period'[p].status = "CLOSED"
        /\ closeEvents'[p] = closeEvents[p] + 1
    BY <1>4, Closed
  <2> QED
    BY <1>1, <2>1, <2>2 DEF IsClosed, Exists
<1> QED
  BY <1>2, <1>3, <1>4, PeriodKinds

LEMMA ExplainedStep ==
  TypeInv /\ LockInv /\ ClosedIsExplained /\ [Next]_vars => ClosedIsExplained'
<1> SUFFICES ASSUME TypeInv, LockInv, ClosedIsExplained, [Next]_vars,
                    NEW p \in Periods, IsClosed(p)'
             PROVE  \E n \in 1..Len(evaluation'[p]) :
                      evaluation'[p][n]
                        = [by |-> period'[p].closedBy, ready |-> TRUE]
  BY DEF ClosedIsExplained
<1>1. CASE period'[p] = period[p]
  <2>1. IsClosed(p)
    BY <1>1 DEF IsClosed, Exists
  <2>2. PICK n \in 1..Len(evaluation[p]) :
          evaluation[p][n] = [by |-> period[p].closedBy, ready |-> TRUE]
    BY <2>1 DEF ClosedIsExplained
  <2>3. n \in 1..Len(evaluation'[p]) /\ evaluation'[p][n] = evaluation[p][n]
    BY EvaluationsStay
  <2> QED
    BY <1>1, <2>2, <2>3
<1>2. ASSUME NEW h \in Closers, ClosePeriod(h), closer[h].period = p
      PROVE  \E n \in 1..Len(evaluation'[p]) :
               evaluation'[p][n] = [by |-> period'[p].closedBy, ready |-> TRUE]
  <2> DEFINE row == [by |-> h, ready |-> TRUE]
             n == Len(evaluation[p]) + 1
  <2>1. Record(h, TRUE) /\ closer[h].pc # "idle"
    BY <1>2 DEF ClosePeriod, HasRead
  <2>2. evaluation'[p] = Append(evaluation[p], row) /\ period'[p].closedBy = h
    BY <1>2, <2>1, Recorded, Closed
  <2>3. evaluation[p] \in Seq(EvaluationRow)
    BY DEF TypeInv, TypeOK
  <2> HIDE DEF row
  <2>4. n \in 1..Len(evaluation'[p]) /\ evaluation'[p][n] = row
    BY <2>2, <2>3
  <2> QED
    BY <2>2, <2>4 DEF row
<1> QED
  BY <1>1, <1>2, PeriodKinds

(* While a period is read, only the controls that race start to block it.    *)
LEMMA BlockingStays ==
  ASSUME TypeInv, [Next]_vars, NEW p \in Periods, NEW h \in Closers,
         closer[h].pc = "read", closer[h].period = p
  PROVE  blocking'[p] \subseteq blocking[p] \cup Racing
<1>1. ASSUME NEW q \in Periods, NEW c \in Active, Arises(q, c) \/ Clears(q, c)
      PROVE  blocking'[p] \subseteq blocking[p] \cup Racing
  <2>1. CASE q = p
    <3>1. c \in Racing
      BY <1>1, <2>1 DEF Arises, Clears, MayCommit
    <3>2. blocking'[p] = blocking[p] \cup {c} \/ blocking'[p] = blocking[p] \ {c}
      BY <1>1, <2>1 DEF Arises, Clears, TypeInv, TypeOK
    <3> QED
      BY <3>1, <3>2
  <2>2. CASE q # p
    BY <1>1, <2>2 DEF Arises, Clears, TypeInv, TypeOK
  <2> QED
    BY <2>1, <2>2
<1>2. CASE UNCHANGED blocking
  BY <1>2
<1> QED
  BY <1>1, <1>2 DEF Next, vars, Arrive, Proceed, Others, RequestClose,
     RequestEvaluation, LockPeriod, LockRefused, ReadControl, RefuseBlocked,
     ClosePeriod, RecordEvaluation, NotifyBlocked, Crash, CreatePeriod

(* A request that another one's step leaves alone has seen what it had.      *)
LEMMA SeenStays ==
  ASSUME TypeInv, ReadInv, [Next]_vars, NEW k \in Closers, closer'[k] = closer[k]
  PROVE  HasSeen(k)'
<1>1. HasSeen(k)
  BY DEF ReadInv
<1>2. CASE closer[k].pc = "read"
  <2>1. closer[k].period \in Periods
    BY <1>2 DEF TypeInv, Aims
  <2>2. blocking'[closer[k].period] \subseteq blocking[closer[k].period] \cup Racing
    BY <1>2, <2>1, BlockingStays
  <2> QED
    BY <1>1, <1>2, <2>2 DEF HasSeen
<1>3. CASE closer[k].pc # "read"
  BY <1>1, <1>3 DEF HasSeen
<1> QED
  BY <1>2, <1>3

LEMMA ReadStep == TypeInv /\ ReadInv /\ [Next]_vars => ReadInv'
<1> SUFFICES ASSUME TypeInv, ReadInv, [Next]_vars, NEW k \in Closers
             PROVE  HasSeen(k)'
  BY DEF ReadInv
<1>1. ASSUME NEW h \in Closers, Arrive(h) PROVE HasSeen(k)'
  <2>1. PICK q \in Periods : RequestClose(h, q) \/ RequestEvaluation(h, q)
    BY <1>1 DEF Arrive
  <2>2. closer'[h].next = 1 /\ (k # h => closer'[k] = closer[k])
    BY <2>1, Arrived DEF TypeInv
  <2> QED
    BY <2>2, SeenStays DEF HasSeen
<1>2. ASSUME NEW h \in Closers, LockPeriod(h) PROVE HasSeen(k)'
  <2>1. closer' = [closer EXCEPT ![h].pc = "read"] /\ closer[h].next = 1
    BY <1>2 DEF LockPeriod, ReadInv, HasSeen
  <2>2. closer'[h].next = 1 /\ (k # h => closer'[k] = closer[k])
    BY <2>1, Moved DEF TypeInv
  <2>3. HasSeen(h)'
    BY <2>1, <2>2, Moved DEF HasSeen, TypeInv
  <2> QED
    BY <2>2, <2>3, SeenStays
<1>3. ASSUME NEW h \in Closers, Release(h) PROVE HasSeen(k)'
  <2>1. closer'[h] = Idle /\ (k # h => closer'[k] = closer[k])
    BY <1>3, Released DEF TypeInv
  <2> QED
    BY <2>1, SeenStays, IdleIsActivity DEF HasSeen
<1>4. ASSUME NEW h \in Closers, ReadControl(h) PROVE HasSeen(k)'
  <2> DEFINE n == closer[h].next
             p == closer[h].period
  <2>1. /\ n \in 1..7 /\ closer'[h].period = p /\ closer'[h].next = n + 1
        /\ closer'[h].pc = "read"
        /\ closer'[h].found = closer[h].found \cup ({Controls[n]} \cap blocking[p])
        /\ k # h => closer'[k] = closer[k]
    BY <1>4, HasReadOne
  <2>2. closer[h].pc = "read" /\ blocking' = blocking
    BY <1>4 DEF ReadControl
  <2>3. \A i \in 1..7 : i < n /\ Controls[i] \in blocking[p]
                          => Controls[i] \in closer[h].found \cup Racing
    BY <2>2 DEF ReadInv, HasSeen
  <2>4. ASSUME NEW i \in 1..7, i < n + 1, Controls[i] \in blocking[p]
        PROVE  Controls[i] \in closer'[h].found \cup Racing
    <3>1. i < n \/ i = n
      BY <2>1, <2>4
    <3> HIDE DEF n, p
    <3> QED
      BY <2>1, <2>3, <2>4, <3>1
  <2>5. HasSeen(h)'
    BY <2>1, <2>2, <2>4 DEF HasSeen
  <2> QED
    BY <2>1, <2>5, SeenStays
<1>5. ASSUME NEW h \in Closers, RecordEvaluation(h) PROVE HasSeen(k)'
  <2>1. /\ closer'[h].pc \in {"idle", "notify"}
        /\ k # h => closer'[k] = closer[k]
    BY <1>5, RecordedEvaluation
  <2> QED
    BY <2>1, SeenStays DEF HasSeen
<1>6. CASE UNCHANGED closer
  BY <1>6, SeenStays
<1> QED
  BY <1>1, <1>2, <1>3, <1>4, <1>5, <1>6 DEF Next, vars, Proceed, LockRefused,
     RefuseBlocked, ClosePeriod, NotifyBlocked, Crash, CreatePeriod, Others,
     Arises, Clears

LEMMA SafetyStep == Inv /\ [Next]_vars => Inv'
BY TypeStep, LockStep, OnceStep, ExplainedStep, ReadStep DEF Inv

LEMMA SafetyInvariance == Spec => []Inv
BY SafetyInit, SafetyStep, PTL DEF Spec

(* The close of a period finds all seven controls read, and none found.      *)
LEMMA QuietStep ==
  ASSUME Inv, [Next]_vars, NEW p \in Periods, ~IsClosed(p), IsClosed(p)'
  PROVE  blocking[p] \subseteq Racing
<1>1. PICK h \in Closers : ClosePeriod(h) /\ closer[h].period = p
  BY PeriodKinds DEF Inv, IsClosed, Exists
<1>2. /\ closer[h].pc = "read" /\ closer[h].next > 7 /\ closer[h].found = {}
  BY <1>1, SevenControls DEF ClosePeriod, HasRead
<1>3. \A n \in 1..7 : Controls[n] \in blocking[p] => Controls[n] \in Racing
  <2>1. \A n \in 1..7 : n < closer[h].next
    BY <1>2 DEF Inv, TypeInv, TypeOK, Activity
  <2> QED
    BY <1>1, <1>2, <2>1 DEF Inv, ReadInv, HasSeen
<1>4. blocking[p] \subseteq ControlCodes
  BY DEF Inv, TypeInv, TypeOK
<1> QED
  BY <1>3, <1>4, SevenControls

-----------------------------------------------------------------------------
(* However many requests pass the check of the route, a closed period was    *)
(* closed once, and one event tells of it.                                   *)
THEOREM PeriodsCloseOnce == Spec => []ClosedOnce
BY SafetyInvariance, PTL DEF Inv

(* Each closed period has an evaluation on record in which its closer found  *)
(* it ready.                                                                 *)
THEOREM ClosesAreExplained == Spec => []ClosedIsExplained
BY SafetyInvariance, PTL DEF Inv

(* What nobody changes while it is read does not block a period that is      *)
(* closed.                                                                   *)
THEOREM QuietControlsDoHold == Spec => QuietControlsHold
<1>1. Inv /\ [Next]_vars
      => [\A p \in Periods :
            ~IsClosed(p) /\ IsClosed(p)' => blocking[p] \subseteq Racing]_vars
  BY QuietStep
<1> QED
  BY <1>1, SafetyInvariance, PTL DEF Spec, QuietControlsHold
=============================================================================
