------------------------ MODULE ActionRequestProofs ------------------------
(***************************************************************************)
(* Safety of ActionRequest, for any number of requests, evaluations and    *)
(* handlers, with or without crashes.                                      *)
(***************************************************************************)
EXTENDS ActionRequest, SequenceTheorems, TLAPS

(* What a handler carries over its awaits is there when it uses it: the      *)
(* evaluation it creates a request for, the request it decides on.           *)
CarriesItsWork(h) ==
  /\ handler[h].pc \in {"insert", "conflict"} =>
       handler[h].evaluation \in Evaluations
  /\ handler[h].pc \in {"created", "transition", "record", "announce"} =>
       handler[h].request \in Requests /\ Exists(handler[h].request)
  /\ handler[h].pc \in {"transition", "record", "announce"} =>
       handler[h].verdict \in Verdicts
  /\ handler[h].pc = "transition" => handler[h].seen \in Statuses

TypeInv ==
  /\ TypeOK
  /\ \A h \in Handlers : CarriesItsWork(h)

-----------------------------------------------------------------------------
(* What the two commits of a decision write is a row of the table again, for *)
(* the evaluation that it was made for.                                      *)
LEMMA DecisionWritesRow ==
  ASSUME TypeInv, NEW h \in Handlers, CommitTransition(h)
  PROVE  LET r == handler[h].request IN
         /\ r \in Requests /\ Exists(r) /\ request'[r] # NoRow
         /\ request' \in [Requests -> Row \cup {NoRow}]
         /\ \A s \in Requests : s # r => request'[s] = request[s]
         /\ request'[r].evaluation = request[r].evaluation
         /\ request'[r].status = handler[h].verdict
         /\ request'[r].approvedBy = request[r].approvedBy
         /\ request'[r].reasonBy = request[r].reasonBy
<1> DEFINE r == handler[h].request
           v == handler[h].verdict
           row == [request[r] EXCEPT !.status = v]
<1>1. r \in Requests /\ Exists(r) /\ request[r] \in Row /\ v \in Statuses
  BY DEF CommitTransition, TypeInv, TypeOK, CarriesItsWork, Exists, Statuses
<1>2. request' = [request EXCEPT ![r] = row]
  BY DEF CommitTransition
<1> HIDE DEF r, v
<1>3. /\ row \in Row
      /\ row.status = v
      /\ row.evaluation = request[r].evaluation
      /\ row.approvedBy = request[r].approvedBy
      /\ row.reasonBy = request[r].reasonBy
  BY <1>1 DEF Row
<1> HIDE DEF row
<1>4. /\ request'[r] = row
      /\ \A s \in Requests : s # r => request'[s] = request[s]
      /\ request' \in [Requests -> Row \cup {NoRow}]
  BY <1>1, <1>2, <1>3 DEF TypeInv, TypeOK
<1>5. request'[r] # NoRow
  BY <1>3, <1>4, NoRowAssumption
<1> QED
  BY <1>1, <1>3, <1>4, <1>5 DEF r, v

LEMMA RecordWritesRow ==
  ASSUME TypeInv, NEW h \in Handlers, RecordVerdict(h)
  PROVE  LET r == handler[h].request
             v == handler[h].verdict
         IN
         /\ r \in Requests /\ Exists(r) /\ request'[r] # NoRow
         /\ request' \in [Requests -> Row \cup {NoRow}]
         /\ \A s \in Requests : s # r => request'[s] = request[s]
         /\ request'[r].evaluation = request[r].evaluation
         /\ request'[r].status = request[r].status
         /\ request'[r].approvedBy =
              IF v = "APPROVED" THEN h ELSE request[r].approvedBy
         /\ request'[r].reasonBy =
              IF v = "REJECTED" THEN h ELSE request[r].reasonBy
<1> DEFINE r == handler[h].request
           a == IF handler[h].verdict = "APPROVED" THEN h
                ELSE request[r].approvedBy
           b == IF handler[h].verdict = "REJECTED" THEN h
                ELSE request[r].reasonBy
           row == [request[r] EXCEPT !.approvedBy = a, !.reasonBy = b]
<1>1. r \in Requests /\ Exists(r) /\ request[r] \in Row
  BY DEF RecordVerdict, TypeInv, TypeOK, CarriesItsWork, Exists
<1>2. a \in Handlers \cup {NoRow} /\ b \in Handlers \cup {NoRow}
  BY <1>1 DEF Row
<1>3. request' = [request EXCEPT ![r] = row]
  BY <1>1 DEF RecordVerdict, TypeInv, TypeOK, Row
<1> HIDE DEF r, a, b
<1>4. row \in Row /\ row.evaluation = request[r].evaluation
      /\ row.status = request[r].status /\ row.approvedBy = a /\ row.reasonBy = b
  BY <1>1, <1>2 DEF Row
<1> HIDE DEF row
<1>5. /\ request'[r] = row
      /\ \A s \in Requests : s # r => request'[s] = request[s]
      /\ request' \in [Requests -> Row \cup {NoRow}]
  BY <1>1, <1>3, <1>4 DEF TypeInv, TypeOK
<1>6. request'[r] # NoRow
  BY <1>4, <1>5, NoRowAssumption
<1> QED
  BY <1>1, <1>4, <1>5, <1>6 DEF r, a, b

(* Rows are inserted and updated, never deleted, and keep the evaluation     *)
(* that they were made for.                                                  *)
LEMMA RowsPersist ==
  ASSUME TypeInv, [Next]_vars, NEW r \in Requests, Exists(r)
  PROVE  Exists(r)' /\ request'[r].evaluation = request[r].evaluation
<1>1. ASSUME NEW h \in Handlers, NEW s \in Requests, InsertRequest(h, s)
      PROVE  request'[r] = request[r]
  BY <1>1 DEF InsertRequest, TypeInv, TypeOK, Exists
<1>2. ASSUME NEW h \in Handlers, CommitTransition(h)
      PROVE  Exists(r)' /\ request'[r].evaluation = request[r].evaluation
  BY <1>2, DecisionWritesRow DEF Exists
<1>3. ASSUME NEW h \in Handlers, RecordVerdict(h)
      PROVE  Exists(r)' /\ request'[r].evaluation = request[r].evaluation
  BY <1>3, RecordWritesRow DEF Exists
<1> QED
  BY <1>1, <1>2, <1>3
  DEF Next, Arrive, Proceed, vars, StartCreate, InsertConflict, ResolveConflict,
      AnnounceCreated, LoadRequest, AnnounceVerdict, Crash, Exists

LEMMA TypeInit == Init => TypeInv
BY DEF Init, TypeInv, TypeOK, Idle, Activity, CarriesItsWork

LEMMA TypeStep == TypeInv /\ [Next]_vars => TypeInv'
<1> SUFFICES ASSUME TypeInv, [Next]_vars PROVE TypeInv'
  OBVIOUS
<1>0. \A r \in Requests : Exists(r) => Exists(r)'
  BY RowsPersist
<1>1. CASE UNCHANGED vars
  BY <1>1 DEF vars, TypeInv, TypeOK, CarriesItsWork, Exists
<1>2. ASSUME NEW h \in Handlers, NEW e \in Evaluations, StartCreate(h, e)
      PROVE  TypeInv'
  BY <1>0, <1>2
  DEF StartCreate, Idle, Activity, TypeInv, TypeOK, CarriesItsWork
<1>3. ASSUME NEW h \in Handlers, NEW r \in Requests, InsertRequest(h, r)
      PROVE  TypeInv'
  <2> DEFINE e == handler[h].evaluation
             row == [evaluation |-> e, status |-> "PENDING_APPROVAL",
                     approvedBy |-> NoRow, reasonBy |-> NoRow]
             act == [[handler[h] EXCEPT !.pc = "created"] EXCEPT !.request = r]
  <2>1. e \in Evaluations
    BY <1>3 DEF InsertRequest, TypeInv, CarriesItsWork
  <2>2. row \in Row
    BY <2>1 DEF Row, Statuses
  <2>3. handler[h] \in Activity
    BY DEF TypeInv, TypeOK
  <2>4. /\ act \in Activity
        /\ act.pc = "created" /\ act.request = r
    BY <2>3 DEF Activity
  <2>5. request' = [request EXCEPT ![r] = row]
    BY <1>3 DEF InsertRequest
  <2>6. handler' = [handler EXCEPT ![h] = act]
    BY <1>3, <2>3 DEF InsertRequest, TypeInv, TypeOK, Activity
  <2> HIDE DEF e, row, act
  <2>7. request' \in [Requests -> Row \cup {NoRow}]
    BY <2>2, <2>5 DEF TypeInv, TypeOK
  <2>8. handler' \in [Handlers -> Activity]
    BY <2>4, <2>6 DEF TypeInv, TypeOK
  <2>9. UNCHANGED <<evaluations, audit, announced>>
    BY <1>3 DEF InsertRequest
  <2>10. TypeOK'
    BY <2>7, <2>8, <2>9 DEF TypeInv, TypeOK
  <2>11. row # NoRow
    BY <2>2, NoRowAssumption
  <2>12. Exists(r)'
    BY <2>5, <2>11 DEF Exists, TypeInv, TypeOK
  <2>13. CarriesItsWork(h)'
    BY <2>4, <2>6, <2>12 DEF CarriesItsWork, TypeInv, TypeOK
  <2>14. ASSUME NEW g \in Handlers, g # h PROVE CarriesItsWork(g)'
    <3>1. handler'[g] = handler[g]
      BY <2>6, <2>14 DEF TypeInv, TypeOK
    <3> QED
      BY <1>0, <2>14, <3>1 DEF CarriesItsWork, TypeInv
  <2> QED
    BY <2>10, <2>13, <2>14 DEF TypeInv
<1>4. ASSUME NEW h \in Handlers, InsertConflict(h)
      PROVE  TypeInv'
  <2>1. /\ handler' = [handler EXCEPT ![h].pc = "conflict"]
        /\ handler[h].pc = "insert"
        /\ UNCHANGED <<evaluations, request, audit, announced>>
    BY <1>4 DEF InsertConflict
  <2>2. handler' \in [Handlers -> Activity]
    BY <2>1 DEF Activity, TypeInv, TypeOK
  <2>3. \A g \in Handlers : CarriesItsWork(g)'
    BY <1>0, <2>1 DEF TypeInv, TypeOK, CarriesItsWork, Activity
  <2> QED
    BY <2>1, <2>2, <2>3 DEF TypeInv, TypeOK
<1>5. ASSUME NEW h \in Handlers, Release(h),
             UNCHANGED <<evaluations, request, audit>>,
             announced' \subseteq Announcement
      PROVE  TypeInv'
  BY <1>0, <1>5 DEF Release, Idle, Activity, TypeInv, TypeOK, CarriesItsWork
<1>6. ASSUME NEW h \in Handlers, NEW r \in Requests, NEW v \in Verdicts,
             LoadRequest(h, r, v)
      PROVE  TypeInv'
  BY <1>0, <1>6
  DEF LoadRequest, Exists, Idle, Activity, Row, TypeInv, TypeOK, CarriesItsWork
<1>7. ASSUME NEW h \in Handlers, CommitTransition(h)
      PROVE  TypeInv'
  <2>1. request' \in [Requests -> Row \cup {NoRow}]
    BY <1>7, DecisionWritesRow DEF TypeInv, TypeOK
  <2>2. audit' \in [Requests -> Seq(AuditRow)]
    <3>1. handler[h].request \in Requests /\ AuditEntry(h) \in AuditRow
      BY <1>7 DEF CommitTransition, AuditEntry, AuditRow, Statuses, TypeInv,
                  CarriesItsWork
    <3>2. Append(audit[handler[h].request], AuditEntry(h)) \in Seq(AuditRow)
      BY <3>1, AppendProperties DEF TypeInv, TypeOK
    <3> QED
      BY <1>7, <3>1, <3>2 DEF CommitTransition, TypeInv, TypeOK
  <2>3. handler' = [handler EXCEPT ![h].pc = "record"]
        /\ handler' \in [Handlers -> Activity]
        /\ UNCHANGED <<evaluations, announced>>
    BY <1>7 DEF CommitTransition, Activity, TypeInv, TypeOK
  <2>4. \A g \in Handlers : CarriesItsWork(g)'
    BY <1>0, <1>7, <2>3 DEF CommitTransition, TypeInv, TypeOK, CarriesItsWork,
                            Activity
  <2> QED
    BY <2>1, <2>2, <2>3, <2>4 DEF TypeInv, TypeOK
<1>8. ASSUME NEW h \in Handlers, RecordVerdict(h)
      PROVE  TypeInv'
  <2>1. request' \in [Requests -> Row \cup {NoRow}]
    BY <1>8, RecordWritesRow DEF TypeInv, TypeOK
  <2>2. handler' = [handler EXCEPT ![h].pc = "announce"]
        /\ handler' \in [Handlers -> Activity]
        /\ UNCHANGED <<evaluations, audit, announced>>
    BY <1>8 DEF RecordVerdict, Activity, TypeInv, TypeOK
  <2>3. \A g \in Handlers : CarriesItsWork(g)'
    BY <1>0, <1>8, <2>2 DEF RecordVerdict, TypeInv, TypeOK, CarriesItsWork,
                            Activity
  <2> QED
    BY <2>1, <2>2, <2>3 DEF TypeInv, TypeOK
<1>9. ASSUME NEW h \in Handlers, AnnounceCreated(h) \/ AnnounceVerdict(h)
      PROVE  announced' \subseteq Announcement
  BY <1>9 DEF AnnounceCreated, AnnounceVerdict, Announcement, TypeInv, TypeOK,
              CarriesItsWork
<1>10. TypeInv => announced \subseteq Announcement
  BY DEF TypeInv, TypeOK
<1> QED
  BY <1>1, <1>2, <1>3, <1>4, <1>5, <1>6, <1>7, <1>8, <1>9, <1>10
  DEF Next, Arrive, Proceed, ResolveConflict, AnnounceCreated,
      AnnounceVerdict, Crash

(* The values of the variables: every row, audit entry and handler record    *)
(* that the code can produce is well formed.                                 *)
THEOREM TypeInvariance == Spec => []TypeInv
BY TypeInit, TypeStep, PTL DEF Spec

THEOREM TypeCorrect == Spec => []TypeOK
BY TypeInvariance, PTL DEF TypeInv

-----------------------------------------------------------------------------
(* The UNIQUE constraint, and not the check before the INSERT, keeps         *)
(* concurrent creators from leaving two requests for one evaluation.         *)
THEOREM NoSecondRequest == Spec => []OneRequestPerEvaluation
<1> DEFINE Inv == TypeInv /\ OneRequestPerEvaluation
<1>1. Init => OneRequestPerEvaluation
  BY DEF Init, OneRequestPerEvaluation, Exists
<1>2. Inv /\ [Next]_vars => OneRequestPerEvaluation'
  <2> SUFFICES ASSUME Inv, [Next]_vars PROVE OneRequestPerEvaluation'
    OBVIOUS
  <2>1. ASSUME NEW h \in Handlers, NEW r \in Requests, InsertRequest(h, r)
        PROVE  OneRequestPerEvaluation'
    <3>1. /\ request'[r].evaluation = handler[h].evaluation
          /\ \A s \in Requests : s # r => request'[s] = request[s]
      BY <2>1 DEF InsertRequest, TypeInv, TypeOK
    <3>2. \A s \in Requests : Exists(s) =>
            request[s].evaluation # handler[h].evaluation
      BY <2>1 DEF InsertRequest, UniqueEvaluation, RowsFor
    <3>3. \A s, t \in Requests :
            /\ request'[s] # NoRow /\ request'[t] # NoRow
            /\ request'[s].evaluation = request'[t].evaluation
            => s = t
      BY <3>1, <3>2 DEF OneRequestPerEvaluation, Exists
    <3> QED
      BY <3>3 DEF OneRequestPerEvaluation, Exists
  <2>2. ASSUME \A r \in Requests :
                 /\ Exists(r)' => Exists(r)
                 /\ Exists(r)' => request'[r].evaluation = request[r].evaluation
        PROVE  OneRequestPerEvaluation'
    BY <2>2 DEF OneRequestPerEvaluation
  <2>3. ASSUME UNCHANGED request PROVE OneRequestPerEvaluation'
    BY <2>2, <2>3 DEF Exists
  <2>4. ASSUME NEW h \in Handlers, CommitTransition(h) \/ RecordVerdict(h)
        PROVE  OneRequestPerEvaluation'
    <3>1. \A r \in Requests : Exists(r)' => Exists(r)
      BY <2>4, DecisionWritesRow, RecordWritesRow DEF Exists
    <3> QED
      BY <2>2, <3>1, RowsPersist
  <2> QED
    BY <2>1, <2>3, <2>4
    DEF Next, Arrive, Proceed, vars, StartCreate, InsertConflict, ResolveConflict,
        AnnounceCreated, LoadRequest, AnnounceVerdict, Crash
<1> QED
  BY <1>1, <1>2, TypeInvariance, PTL DEF Spec

(* A refused INSERT always finds the row that won: rows are never deleted.   *)
THEOREM WinnerIsThere == Spec => []ConflictHasWinner
<1> DEFINE Inv == TypeInv /\ ConflictHasWinner
<1>1. Init => ConflictHasWinner
  BY DEF Init, ConflictHasWinner, Idle
<1>2. Inv /\ [Next]_vars => ConflictHasWinner'
  <2> SUFFICES ASSUME Inv, [Next]_vars, NEW g \in Handlers,
                      handler'[g].pc = "conflict"
               PROVE  RowsFor(handler[g].evaluation)' # {}
    BY DEF ConflictHasWinner
  <2>1. CASE handler'[g] = handler[g]
    <3>1. PICK r \in Requests :
            Exists(r) /\ request[r].evaluation = handler[g].evaluation
      BY <2>1 DEF ConflictHasWinner, RowsFor
    <3> QED
      BY <2>1, <3>1, RowsPersist DEF RowsFor, Exists
  <2>2. CASE handler'[g] # handler[g]
    <3>1. InsertConflict(g)
      <4>1. PICK h \in Handlers : Arrive(h) \/ Proceed(h) \/ Crash(h)
        BY <2>2 DEF Next, vars
      <4>2. ASSUME NEW k \in Handlers, k # h PROVE handler'[k] = handler[k]
        BY <4>1, <4>2 DEF Arrive, Proceed, StartCreate, InsertRequest,
           InsertConflict, ResolveConflict, AnnounceCreated, LoadRequest,
           CommitTransition, RecordVerdict, AnnounceVerdict, Crash, Release,
           TypeInv, TypeOK
      <4>3. CASE InsertConflict(h)
        BY <2>2, <4>2, <4>3
      <4>4. CASE Release(h)
        BY <2>2, <4>2, <4>4 DEF Release, Idle, TypeInv, TypeOK
      <4>5. CASE /\ ~InsertConflict(h)
                 /\ ~Release(h)
        <5>1. handler'[h].pc # "conflict"
          <6>1. CASE Arrive(h)
            BY <6>1 DEF Arrive, StartCreate, LoadRequest, Idle, TypeInv, TypeOK
          <6>2. ASSUME NEW r \in Requests, InsertRequest(h, r)
                PROVE  handler'[h].pc # "conflict"
            BY <6>2 DEF InsertRequest, TypeInv, TypeOK, Activity
          <6>3. CASE CommitTransition(h) \/ RecordVerdict(h)
            BY <6>3 DEF CommitTransition, RecordVerdict, TypeInv, TypeOK, Activity
          <6> QED
            BY <4>1, <4>5, <6>1, <6>2, <6>3
            DEF Proceed, ResolveConflict, AnnounceCreated, AnnounceVerdict, Crash
        <5> QED
          BY <2>2, <4>2, <5>1
      <4> QED
        BY <4>3, <4>4, <4>5
    <3>2. PICK r \in Requests :
            Exists(r) /\ request[r].evaluation = handler[g].evaluation
      BY <3>1 DEF InsertConflict, UniqueEvaluation, RowsFor
    <3>3. handler'[g].evaluation = handler[g].evaluation
      BY <3>1 DEF InsertConflict, TypeInv, TypeOK, Activity
    <3> QED
      BY <3>2, <3>3, RowsPersist DEF RowsFor, Exists
  <2> QED
    BY <2>1, <2>2
<1> QED
  BY <1>1, <1>2, TypeInvariance, PTL DEF Spec

-----------------------------------------------------------------------------
(* A request that does not exist yet has no audit trail.                     *)
AuditInv ==
  /\ TypeInv
  /\ \A r \in Requests : ~Exists(r) => audit[r] = << >>
  /\ StatusIsLastAudited

LEMMA AuditInit == Init => AuditInv
BY TypeInit DEF Init, AuditInv, StatusIsLastAudited, Exists, TypeInv,
   TypeOK, CarriesItsWork, Idle, Activity

LEMMA AuditStep == AuditInv /\ TypeInv' /\ [Next]_vars => AuditInv'
<1> SUFFICES ASSUME AuditInv, TypeInv', [Next]_vars PROVE AuditInv'
  OBVIOUS
<1> USE DEF AuditInv
<1>1. ASSUME UNCHANGED <<request, audit>> PROVE AuditInv'
  BY <1>1 DEF StatusIsLastAudited, Exists
<1>2. ASSUME NEW h \in Handlers, NEW r \in Requests, InsertRequest(h, r)
      PROVE  AuditInv'
  <2>1. /\ request' = [request EXCEPT ![r] = request'[r]]
        /\ request'[r].status = "PENDING_APPROVAL"
        /\ request'[r] # NoRow
        /\ audit[r] = << >>
        /\ audit' = audit
    BY <1>2, NoRowAssumption
    DEF InsertRequest, TypeInv, TypeOK, Row, Statuses, CarriesItsWork
  <2> QED
    BY <2>1 DEF StatusIsLastAudited, Exists, TypeInv, TypeOK
<1>3. ASSUME NEW h \in Handlers, CommitTransition(h)
      PROVE  AuditInv'
  <2> DEFINE r == handler[h].request
             log == audit[r]
  <2>1. /\ r \in Requests
        /\ request'[r] # NoRow
        /\ \A s \in Requests : s # r => request'[s] = request[s]
        /\ request'[r].status = handler[h].verdict
    BY <1>3, DecisionWritesRow
  <2>2. audit' = [audit EXCEPT ![r] = Append(log, AuditEntry(h))]
    BY <1>3 DEF CommitTransition
  <2>3. AuditEntry(h) \in AuditRow /\ log \in Seq(AuditRow)
    BY <1>3, <2>1 DEF CommitTransition, AuditEntry, AuditRow, Statuses, TypeInv,
                      TypeOK, CarriesItsWork
  <2>4. /\ Len(Append(log, AuditEntry(h))) = Len(log) + 1
        /\ Append(log, AuditEntry(h))[Len(log) + 1] = AuditEntry(h)
        /\ Append(log, AuditEntry(h)) # << >>
    BY <2>3, AppendProperties
  <2>5. /\ audit'[r] # << >>
        /\ audit'[r][Len(audit'[r])].to = request'[r].status
    BY <2>1, <2>2, <2>4 DEF TypeInv, TypeOK, AuditEntry
  <2>6. ASSUME NEW s \in Requests, s # r
        PROVE  request'[s] = request[s] /\ audit'[s] = audit[s]
    BY <2>1, <2>2, <2>6 DEF TypeInv, TypeOK
  <2> HIDE DEF r
  <2> QED
    BY <2>1, <2>5, <2>6 DEF StatusIsLastAudited, Exists
<1>4. ASSUME NEW h \in Handlers, RecordVerdict(h)
      PROVE  AuditInv'
  <2>1. \A r \in Requests : /\ Exists(r)' <=> Exists(r)
                            /\ request'[r].status = request[r].status
    BY <1>4, RecordWritesRow DEF Exists
  <2>2. audit' = audit
    BY <1>4 DEF RecordVerdict
  <2> QED
    BY <2>1, <2>2 DEF StatusIsLastAudited
<1> QED
  BY <1>1, <1>2, <1>3, <1>4
  DEF Next, Arrive, Proceed, vars, StartCreate, InsertConflict, ResolveConflict,
      AnnounceCreated, LoadRequest, AnnounceVerdict, Crash

(* One commit writes the status and the audit row, so that the status column *)
(* is what the last audit row says, whichever deciders raced.                *)
THEOREM StatusFollowsAudit == Spec => []StatusIsLastAudited
BY AuditInit, AuditStep, TypeInvariance, PTL DEF Spec, AuditInv

-----------------------------------------------------------------------------
(* Between the commit of a decision and its announcement, the audit row that *)
(* the handler wrote stays.                                                  *)
VerdictInv ==
  /\ TypeInv
  /\ VerdictIsAudited
  /\ \A h \in Handlers :
       handler[h].pc \in {"record", "announce"} =>
         AuditedBy(handler[h].request, handler[h].verdict, h)

(* The audit trail is append-only.                                           *)
LEMMA AuditIsAppendOnly ==
  ASSUME TypeInv, [Next]_vars, NEW r \in Requests, NEW v, NEW g,
         AuditedBy(r, v, g)
  PROVE  AuditedBy(r, v, g)'
<1>1. ASSUME NEW h \in Handlers, CommitTransition(h), r = handler[h].request
      PROVE  AuditedBy(r, v, g)'
  <2>1. /\ audit'[r] = Append(audit[r], AuditEntry(h))
        /\ audit[r] \in Seq(AuditRow)
    BY <1>1 DEF CommitTransition, TypeInv, TypeOK
  <2>2. /\ Len(audit'[r]) = Len(audit[r]) + 1
        /\ \A i \in 1..Len(audit[r]) : audit'[r][i] = audit[r][i]
    BY <2>1
  <2> QED
    BY <2>1, <2>2 DEF AuditedBy
<1>2. ASSUME audit'[r] = audit[r] PROVE AuditedBy(r, v, g)'
  BY <1>2 DEF AuditedBy
<1>3. ASSUME NEW h \in Handlers, CommitTransition(h), r # handler[h].request
      PROVE  audit'[r] = audit[r]
  BY <1>3 DEF CommitTransition, TypeInv, TypeOK
<1> QED
  BY <1>1, <1>2, <1>3
  DEF Next, Arrive, Proceed, vars, StartCreate, InsertRequest, InsertConflict,
      ResolveConflict, AnnounceCreated, LoadRequest, RecordVerdict,
      AnnounceVerdict, Crash

(* Nothing says that a request was approved, rejected or cancelled by        *)
(* someone, in its row or in an announcement, that the audit trail does not. *)
THEOREM VerdictsAreAudited == Spec => []VerdictIsAudited
<1>1. Init => VerdictInv
  BY NoRowAssumption
  DEF Init, VerdictInv, VerdictIsAudited, Exists, TypeInv, TypeOK,
      CarriesItsWork, Idle, Activity
<1>2. VerdictInv /\ TypeInv' /\ [Next]_vars => VerdictInv'
  <2> SUFFICES ASSUME VerdictInv, TypeInv', [Next]_vars PROVE VerdictInv'
    OBVIOUS
  <2>0. \A r \in Requests, g \in Handlers, v \in Verdicts :
          AuditedBy(r, v, g) => AuditedBy(r, v, g)'
    BY AuditIsAppendOnly DEF VerdictInv
  <2>1. ASSUME NEW r \in Requests, NEW g \in Handlers, Exists(r)'
        PROVE  /\ request'[r].approvedBy = g => AuditedBy(r, "APPROVED", g)'
               /\ request'[r].reasonBy = g => AuditedBy(r, "REJECTED", g)'
    <3>1. CASE /\ Exists(r)
               /\ request'[r].approvedBy = request[r].approvedBy
               /\ request'[r].reasonBy = request[r].reasonBy
      BY <2>0, <3>1 DEF VerdictInv, VerdictIsAudited, Verdicts
    <3>2. ASSUME NEW h \in Handlers, NEW s \in Requests, InsertRequest(h, s)
          PROVE  \/ request'[r] = request[r]
                 \/ request'[r].approvedBy = NoRow /\ request'[r].reasonBy = NoRow
      BY <3>2 DEF InsertRequest, VerdictInv, TypeInv, TypeOK
    <3>3. ASSUME NEW h \in Handlers, CommitTransition(h)
          PROVE  /\ Exists(r)
                 /\ request'[r].approvedBy = request[r].approvedBy
                 /\ request'[r].reasonBy = request[r].reasonBy
      BY <2>1, <3>3, DecisionWritesRow DEF Exists, VerdictInv
    <3>4. ASSUME NEW h \in Handlers, RecordVerdict(h)
          PROVE  /\ request'[r].approvedBy = g => AuditedBy(r, "APPROVED", g)'
                 /\ request'[r].reasonBy = g => AuditedBy(r, "REJECTED", g)'
      <4>1. CASE r # handler[h].request
        BY <2>1, <3>1, <3>4, <4>1, RecordWritesRow DEF Exists, VerdictInv
      <4>2. CASE r = handler[h].request
        <5>1. AuditedBy(r, handler[h].verdict, h) /\ Exists(r)
          BY <3>4, <4>2 DEF RecordVerdict, VerdictInv, TypeInv, CarriesItsWork
        <5> QED
          BY <2>0, <3>4, <4>2, <5>1, RecordWritesRow
          DEF VerdictInv, VerdictIsAudited, Verdicts
      <4> QED
        BY <4>1, <4>2
    <3>5. ASSUME UNCHANGED request
          PROVE  /\ Exists(r)
                 /\ request'[r].approvedBy = request[r].approvedBy
                 /\ request'[r].reasonBy = request[r].reasonBy
      BY <2>1, <3>5 DEF Exists
    <3>6. ASSUME NEW h \in Handlers, NEW s \in Requests, InsertRequest(h, s)
          PROVE  /\ request'[r].approvedBy = g => AuditedBy(r, "APPROVED", g)'
                 /\ request'[r].reasonBy = g => AuditedBy(r, "REJECTED", g)'
      <4>1. CASE request'[r] = request[r]
        BY <2>1, <3>1, <4>1 DEF Exists
      <4> QED
        BY <3>2, <3>6, <4>1, NoRowAssumption
    <3>7. \/ UNCHANGED request
          \/ \E h \in Handlers : \/ \E s \in Requests : InsertRequest(h, s)
                                \/ CommitTransition(h)
                                \/ RecordVerdict(h)
      BY DEF Next, Arrive, Proceed, vars, StartCreate, InsertConflict,
         ResolveConflict, AnnounceCreated, LoadRequest, AnnounceVerdict, Crash
    <3> QED
      BY <3>1, <3>3, <3>4, <3>5, <3>6, <3>7
  <2>2. ASSUME NEW a \in announced', a.what \in Verdicts
        PROVE  \E h \in Handlers : AuditedBy(a.request, a.what, h)'
    <3>1. CASE a \in announced
      BY <2>0, <2>2, <3>1
      DEF VerdictInv, VerdictIsAudited, TypeInv, TypeOK, Announcement
    <3>2. CASE a \notin announced
      <4>1. PICK h \in Handlers :
              \/ AnnounceVerdict(h) /\ a = [request |-> handler[h].request,
                                           what |-> handler[h].verdict]
              \/ AnnounceCreated(h) /\ a = [request |-> handler[h].request,
                                           what |-> "CREATED"]
        BY <3>2 DEF Next, Arrive, Proceed, vars, StartCreate, InsertRequest,
           InsertConflict, ResolveConflict, AnnounceCreated, LoadRequest,
           CommitTransition, RecordVerdict, AnnounceVerdict, Crash
      <4>2. /\ AnnounceVerdict(h)
            /\ a.request = handler[h].request
            /\ a.what = handler[h].verdict
        BY <2>2, <4>1 DEF Verdicts
      <4>3. /\ AuditedBy(handler[h].request, handler[h].verdict, h)
            /\ handler[h].request \in Requests
            /\ handler[h].verdict \in Verdicts
        BY <4>2 DEF AnnounceVerdict, VerdictInv, TypeInv, CarriesItsWork
      <4> DEFINE r == a.request
                 v == a.what
      <4>4. AuditedBy(r, v, h) /\ r \in Requests /\ v \in Verdicts
        BY <4>2, <4>3
      <4> HIDE DEF r, v
      <4>5. AuditedBy(r, v, h)'
        BY <2>0, <4>4
      <4> QED
        BY <4>5 DEF r, v
    <3> QED
      BY <3>1, <3>2
  <2>3. ASSUME NEW g \in Handlers, handler'[g].pc \in {"record", "announce"}
        PROVE  AuditedBy(handler[g].request, handler[g].verdict, g)'
    <3> DEFINE r == handler[g].request
               v == handler[g].verdict
    <3>1. ASSUME handler[g].pc \in {"record", "announce"},
                 handler'[g].request = r, handler'[g].verdict = v
          PROVE  AuditedBy(handler[g].request, handler[g].verdict, g)'
      <4>1. AuditedBy(r, v, g) /\ r \in Requests /\ v \in Verdicts
        BY <3>1 DEF VerdictInv, TypeInv, CarriesItsWork
      <4>2. AuditedBy(r, v, g) => \E i \in 1..Len(audit'[r]) :
              audit'[r][i].to = v /\ audit'[r][i].actor = g
        BY <2>0, <4>1 DEF AuditedBy
      <4> QED
        BY <3>1, <4>1, <4>2 DEF AuditedBy
    <3>2. ASSUME CommitTransition(g)
          PROVE  AuditedBy(handler[g].request, handler[g].verdict, g)'
      <4>1. /\ r \in Requests
            /\ handler'[g].request = r
            /\ handler'[g].verdict = v
            /\ audit'[r] = Append(audit[r], AuditEntry(g))
            /\ audit[r] \in Seq(AuditRow)
        BY <3>2 DEF CommitTransition, VerdictInv, TypeInv, TypeOK, CarriesItsWork,
                    Activity
      <4>2. /\ Len(audit[r]) + 1 \in 1..Len(audit'[r])
            /\ audit'[r][Len(audit[r]) + 1] = AuditEntry(g)
        BY <4>1
      <4>3. AuditEntry(g).to = v /\ AuditEntry(g).actor = g
        BY DEF AuditEntry
      <4> QED
        BY <4>1, <4>2, <4>3 DEF AuditedBy
    <3>3. \/ CommitTransition(g)
          \/ /\ handler[g].pc \in {"record", "announce"}
             /\ handler'[g].request = r
             /\ handler'[g].verdict = v
      <4>1. CASE handler'[g] = handler[g]
        BY <2>3, <4>1
      <4>2. CASE handler'[g] # handler[g]
        <5>1. PICK h \in Handlers : Arrive(h) \/ Proceed(h) \/ Crash(h)
          BY <4>2 DEF Next, vars
        <5>2. h = g
          BY <4>2, <5>1 DEF Arrive, Proceed, StartCreate, InsertRequest,
             InsertConflict, ResolveConflict, AnnounceCreated, LoadRequest,
             CommitTransition, RecordVerdict, AnnounceVerdict, Crash, Release,
             VerdictInv, TypeInv, TypeOK
        <5>3. ASSUME RecordVerdict(g)
              PROVE  /\ handler[g].pc = "record"
                     /\ handler'[g].request = r
                     /\ handler'[g].verdict = v
          BY <5>3 DEF RecordVerdict, VerdictInv, TypeInv, TypeOK, Activity
        <5>4. ASSUME NEW s \in Requests, InsertRequest(g, s) PROVE FALSE
          BY <2>3, <5>4 DEF InsertRequest, VerdictInv, TypeInv, TypeOK, Activity
        <5>5. ~Release(g) /\ ~InsertConflict(g)
          BY <2>3 DEF Release, InsertConflict, Idle, VerdictInv, TypeInv, TypeOK,
                      Activity
        <5>6. ~Arrive(g)
          BY <2>3 DEF Arrive, StartCreate, LoadRequest, Idle, VerdictInv, TypeInv,
                      TypeOK
        <5> QED
          BY <5>1, <5>2, <5>3, <5>4, <5>5, <5>6
          DEF Proceed, ResolveConflict, AnnounceCreated, AnnounceVerdict, Crash
      <4> QED
        BY <4>1, <4>2
    <3> QED
      BY <3>1, <3>2, <3>3
  <2> QED
    BY <2>1, <2>2, <2>3 DEF VerdictInv, VerdictIsAudited
<1> QED
  BY <1>1, <1>2, TypeInvariance, PTL DEF Spec, VerdictInv

-----------------------------------------------------------------------------
(* A request comes from an evaluation that required an approval.             *)
AskedInv ==
  /\ \A r \in Requests : Exists(r) => RequiresApproval(request[r].evaluation)
  /\ \A h \in Handlers :
       handler[h].pc = "insert" => RequiresApproval(handler[h].evaluation)

LEMMA AskedInit == Init => AskedInv
BY DEF Init, AskedInv, Exists, Idle

LEMMA AskedStep == TypeInv /\ AskedInv /\ [Next]_vars => AskedInv'
<1> SUFFICES ASSUME TypeInv, AskedInv, [Next]_vars PROVE AskedInv'
  OBVIOUS
<1>1. \A e \in Evaluations : RequiresApproval(e) => RequiresApproval(e)'
  BY DEF Next, Arrive, Proceed, vars, StartCreate, InsertRequest, InsertConflict,
     ResolveConflict, AnnounceCreated, LoadRequest, CommitTransition,
     RecordVerdict, AnnounceVerdict, Crash, RequiresApproval
<1>2. ASSUME NEW r \in Requests, Exists(r)'
      PROVE  RequiresApproval(request[r].evaluation)'
  <2>1. CASE Exists(r)
    <3>1. PICK e \in Evaluations : e = request[r].evaluation
      BY <2>1 DEF TypeInv, TypeOK, Exists, Row
    <3>2. RequiresApproval(e)' /\ request'[r].evaluation = e
      BY <1>1, <2>1, <3>1, RowsPersist DEF AskedInv
    <3> QED
      BY <3>2 DEF RequiresApproval
  <2>2. CASE ~Exists(r)
    <3>1. PICK h \in Handlers : InsertRequest(h, r)
      <4>1. ASSUME NEW h \in Handlers, CommitTransition(h) \/ RecordVerdict(h)
            PROVE  request'[r] = request[r]
        BY <2>2, <4>1, DecisionWritesRow, RecordWritesRow
      <4>2. ASSUME NEW h \in Handlers, NEW s \in Requests, InsertRequest(h, s), s # r
            PROVE  request'[r] = request[r]
        BY <4>2 DEF InsertRequest, TypeInv, TypeOK
      <4> QED
        BY <1>2, <2>2, <4>1, <4>2 DEF Exists, Next, Arrive, Proceed, vars,
           StartCreate, InsertConflict, ResolveConflict, AnnounceCreated,
           LoadRequest, AnnounceVerdict, Crash
    <3>2. PICK e \in Evaluations : e = handler[h].evaluation
      BY <3>1 DEF InsertRequest, TypeInv, CarriesItsWork
    <3>3. RequiresApproval(e)' /\ request'[r].evaluation = e
      BY <1>1, <3>1, <3>2 DEF AskedInv, InsertRequest, TypeInv, TypeOK
    <3> QED
      BY <3>3 DEF RequiresApproval
  <2> QED
    BY <2>1, <2>2
<1>3. ASSUME NEW g \in Handlers, (handler[g].pc = "insert")'
      PROVE  RequiresApproval(handler[g].evaluation)'
  <2>1. CASE handler'[g] = handler[g]
    <3>1. PICK e \in Evaluations : e = handler[g].evaluation
      BY <1>3, <2>1 DEF TypeInv, CarriesItsWork
    <3>2. RequiresApproval(e)' /\ handler'[g].evaluation = e
      BY <1>1, <1>3, <2>1, <3>1 DEF AskedInv
    <3> QED
      BY <3>2 DEF RequiresApproval
  <2>2. CASE handler'[g] # handler[g]
    <3>1. PICK e \in Evaluations : StartCreate(g, e)
      <4>1. ASSUME Release(g) PROVE FALSE
        BY <1>3, <4>1 DEF Release, Idle, TypeInv, TypeOK
      <4>2. ASSUME NEW r \in Requests, NEW v \in Verdicts, LoadRequest(g, r, v)
            PROVE  FALSE
        BY <1>3, <4>2 DEF LoadRequest, Idle, TypeInv, TypeOK
      <4>3. ASSUME \/ \E r \in Requests : InsertRequest(g, r)
                   \/ InsertConflict(g) \/ CommitTransition(g) \/ RecordVerdict(g)
            PROVE  FALSE
        BY <1>3, <4>3 DEF InsertRequest, InsertConflict, CommitTransition,
           RecordVerdict, TypeInv, TypeOK, Activity
      <4>4. ASSUME NEW h \in Handlers, h # g, Arrive(h) \/ Proceed(h) \/ Crash(h)
            PROVE  handler'[g] = handler[g]
        BY <4>4 DEF Arrive, Proceed, Crash, Release, StartCreate, InsertRequest,
           InsertConflict, ResolveConflict, AnnounceCreated, LoadRequest,
           CommitTransition, RecordVerdict, AnnounceVerdict, TypeInv, TypeOK
      <4> QED
        BY <2>2, <4>1, <4>2, <4>3, <4>4 DEF Next, vars, Arrive, Proceed,
           ResolveConflict, AnnounceCreated, AnnounceVerdict, Crash
    <3>2. RequiresApproval(e)' /\ handler'[g].evaluation = e
      BY <1>1, <3>1 DEF StartCreate, TypeInv, TypeOK, Idle
    <3> QED
      BY <3>2 DEF RequiresApproval
  <2> QED
    BY <2>1, <2>2
<1> QED
  BY <1>2, <1>3 DEF AskedInv

-----------------------------------------------------------------------------
(* Once a decision is committed and no other decider has passed the check of *)
(* the state machine, none passes it any more and the status stays.          *)
THEOREM SettledStays == Spec => SettledIsFinal
<1> DEFINE Settled(r) == /\ Exists(r) /\ request[r].status \in Verdicts
                         /\ Deciders(r) = {}
<1>1. ASSUME TypeInv, [Next]_vars, NEW r \in Requests, Settled(r)
      PROVE  request'[r].status = request[r].status /\ Deciders(r)' = {}
  <2>1. ASSUME NEW h \in Handlers, CommitTransition(h) \/ RecordVerdict(h)
        PROVE  request'[r].status = request[r].status
    <3>1. CommitTransition(h) => handler[h].request # r
      BY <1>1 DEF CommitTransition, Deciders
    <3> QED
      BY <1>1, <2>1, <3>1, DecisionWritesRow, RecordWritesRow
  <2>2. ASSUME NEW h \in Handlers, NEW s \in Requests, InsertRequest(h, s)
        PROVE  request'[r].status = request[r].status
    BY <1>1, <2>2 DEF InsertRequest, TypeInv, TypeOK, Exists
  <2>3. request'[r].status = request[r].status
    BY <1>1, <2>1, <2>2 DEF Next, Arrive, Proceed, vars, StartCreate, InsertConflict,
       ResolveConflict, AnnounceCreated, LoadRequest, AnnounceVerdict, Crash
  <2>4. ASSUME NEW g \in Handlers, handler'[g].pc = "transition",
               handler'[g].request = r, handler'[g] # handler[g]
        PROVE  FALSE
    <3>1. PICK h \in Handlers : Arrive(h) \/ Proceed(h) \/ Crash(h)
      BY <1>1, <2>4 DEF Next, vars
    <3>2. ASSUME NEW s \in Requests, NEW v \in Verdicts, LoadRequest(h, s, v)
          PROVE  FALSE
      <4>1. handler'[g].request = s /\ h = g
        BY <1>1, <2>4, <3>2 DEF LoadRequest, TypeInv, TypeOK, Idle
      <4> QED
        BY <1>1, <2>4, <3>2, <4>1 DEF LoadRequest, CanTransition, Verdicts
    <3>3. ASSUME Release(h) PROVE FALSE
      BY <2>4, <3>3, <1>1 DEF Release, Idle, TypeInv, TypeOK
    <3>4. ASSUME NEW e \in Evaluations, StartCreate(h, e) PROVE FALSE
      BY <2>4, <3>4, <1>1 DEF StartCreate, Idle, TypeInv, TypeOK
    <3>5. ASSUME \/ InsertConflict(h) \/ CommitTransition(h) \/ RecordVerdict(h)
                 \/ \E s \in Requests : InsertRequest(h, s)
          PROVE  FALSE
      <4>1. PICK pc \in {"conflict", "record", "announce", "created"} :
              handler'[g].pc \in {handler[g].pc, pc} /\ (g # h \/ handler'[g].pc = pc)
        BY <1>1, <3>5 DEF InsertConflict, CommitTransition, RecordVerdict,
           InsertRequest, TypeInv, TypeOK, Activity
      <4>2. handler'[g] = handler[g] \/ g = h
        BY <1>1, <3>5 DEF InsertConflict, CommitTransition, RecordVerdict,
           InsertRequest, TypeInv, TypeOK
      <4> QED
        BY <2>4, <4>1, <4>2
    <3> QED
      BY <3>1, <3>2, <3>3, <3>4, <3>5 DEF Arrive, Proceed, ResolveConflict,
         AnnounceCreated, AnnounceVerdict, Crash
  <2>5. Deciders(r)' = {}
    BY <1>1, <2>4 DEF Deciders
  <2> QED
    BY <2>3, <2>5
<1>2. TypeInv /\ [Next]_vars =>
        [\A r \in Requests :
           Exists(r) /\ request[r].status \in Verdicts /\ Deciders(r) = {}
             => /\ request'[r].status = request[r].status
                /\ Deciders(r)' = {}]_vars
  BY <1>1
<1> QED
  BY <1>2, TypeInvariance, PTL DEF Spec, SettledIsFinal
=============================================================================
