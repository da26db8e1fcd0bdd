--------------------------- MODULE IngestionProofs ---------------------------
(***************************************************************************)
(* What the audit records of ingestion tell, for any rows, batches, runs   *)
(* and workers, whichever of them die or fail.                             *)
(***************************************************************************)
EXTENDS Ingestion, FiniteSetTheorems, SequenceTheorems, TLAPS

-----------------------------------------------------------------------------
(* A worker between the INSERT of its run and its commit.                    *)
Open(w) == worker[w].pc \in {"row", "resolve", "store", "raised"}

CarriesItsRun(w) ==
  /\ Open(w) => /\ worker[w].run \in Runs
                /\ Len(worker[w].outcomes) <= Len(worker[w].batch)
  /\ worker[w].pc \in {"resolve", "store", "raised"}
       => Len(worker[w].outcomes) < Len(worker[w].batch)
  /\ ~Open(w) => worker[w].own = {}
  /\ worker[w].pc \in {"idle", "insert"}
       => worker[w].run = NoRun /\ worker[w].outcomes = << >>

TypeInv ==
  /\ TypeOK
  /\ \A w \in Workers : CarriesItsRun(w)
  /\ \A r \in Runs : Exists(r) => Len(runs[r].outcomes) <= Len(runs[r].batch)

(* The rows that a retry takes up are rows of the run: as many numbers as    *)
(* failed rows, and each failed row has one of its own.                      *)
LEMMA FailedRowsType ==
  ASSUME NEW run \in Run, Len(run.outcomes) <= Len(run.batch)
  PROVE  FailedRows(run) \in Seq(Rows)
<1> DEFINE failed == {i \in DOMAIN run.outcomes : run.outcomes[i] = "FAILED"}
           upTo(i) == {j \in failed : j <= i}
           number == [i \in failed |-> Cardinality(upTo(i))]
           Nth(n) == CHOOSE i \in failed : Cardinality(upTo(i)) = n
           N == Cardinality(failed)
<1>1. /\ failed \in SUBSET (1 .. Len(run.batch)) /\ failed \in SUBSET Nat
      /\ IsFiniteSet(failed) /\ N \in Nat
  <2>1. run.outcomes \in Seq(Outcomes) /\ run.batch \in Seq(Rows)
    BY DEF Run
  <2>2. /\ DOMAIN run.outcomes = 1 .. Len(run.outcomes)
        /\ Len(run.outcomes) \in Nat /\ Len(run.batch) \in Nat
    BY <2>1
  <2>3. failed \in SUBSET (1 .. Len(run.batch)) /\ failed \in SUBSET Nat
    BY <2>2
  <2>4. IsFiniteSet(1 .. Len(run.batch))
    BY <2>2, FS_Interval
  <2> HIDE DEF failed
  <2> QED
    BY <2>3, <2>4, FS_Subset, FS_CardinalityType
<1>2. ASSUME NEW i \in failed
      PROVE  upTo(i) \in SUBSET failed /\ i \in upTo(i) /\ Cardinality(upTo(i)) \in 1 .. N
  <2>1. upTo(i) \in SUBSET failed /\ i \in upTo(i)
    BY <1>1
  <2> HIDE DEF failed, upTo
  <2>2. IsFiniteSet(upTo(i)) /\ Cardinality(upTo(i)) \in Nat /\ Cardinality(upTo(i)) <= N
    BY <1>1, <2>1, FS_Subset, FS_CardinalityType
  <2>3. Cardinality(upTo(i)) # 0
    BY <2>1, <2>2, FS_EmptySet
  <2> QED
    BY <1>1, <2>1, <2>2, <2>3
<1>3. ASSUME NEW i \in failed, NEW k \in failed, i < k
      PROVE  Cardinality(upTo(i)) < Cardinality(upTo(k))
  <2>1. upTo(i) \cup {k} \in SUBSET upTo(k) /\ k \notin upTo(i)
    BY <1>1, <1>3
  <2>2. /\ IsFiniteSet(upTo(i)) /\ IsFiniteSet(upTo(k))
        /\ Cardinality(upTo(i)) \in Nat /\ Cardinality(upTo(k)) \in Nat
    BY <1>1, <1>2, FS_Subset, FS_CardinalityType
  <2> HIDE DEF upTo
  <2>3. Cardinality(upTo(i) \cup {k}) = Cardinality(upTo(i)) + 1
    BY <2>1, <2>2, FS_AddElement
  <2>4. Cardinality(upTo(i) \cup {k}) <= Cardinality(upTo(k))
    BY <2>1, <2>2, FS_Subset
  <2> QED
    BY <2>2, <2>3, <2>4
<1>4. number \in [failed -> 1 .. N]
  BY <1>2
<1>5. ASSUME NEW i \in failed, NEW k \in failed, number[i] = number[k] PROVE i = k
  <2>1. number[i] = Cardinality(upTo(i)) /\ number[k] = Cardinality(upTo(k))
    OBVIOUS
  <2>2. i \in Nat /\ k \in Nat
    BY <1>1
  <2> HIDE DEF failed, upTo, number
  <2>3. Cardinality(upTo(i)) = Cardinality(upTo(k))
    BY <1>5, <2>1
  <2>4. Cardinality(upTo(i)) \in Nat
    BY <1>1, <1>2
  <2>5. ~(i < k) /\ ~(k < i)
    BY <1>3, <2>3, <2>4
  <2> QED
    BY <2>2, <2>5
<1>6. number \in Injection(failed, 1 .. N)
  BY <1>4, <1>5 DEF Injection, IsInjective
<1>7. IsFiniteSet(1 .. N) /\ Cardinality(1 .. N) = N
  <2>1. /\ IsFiniteSet(1 .. N)
        /\ Cardinality(1 .. N) = IF 1 > N THEN 0 ELSE N - 1 + 1
    <3> HIDE DEF N, failed
    <3> QED
      BY <1>1, FS_Interval
  <2> QED
    BY <1>1, <2>1
<1>8. number \in Surjection(failed, 1 .. N)
  <2> HIDE DEF number, failed
  <2> QED
    BY <1>6, <1>7, FS_Injection
<1>9. ASSUME NEW n \in 1 .. N PROVE Nth(n) \in failed
  <2>1. PICK i \in failed : number[i] = n
    BY <1>8 DEF Surjection
  <2>2. Cardinality(upTo(i)) = n
    BY <2>1
  <2> QED
    BY <2>2
<1>10. FailedRows(run) = [n \in 1 .. N |-> run.batch[Nth(n)]]
  BY DEF FailedRows
<1> HIDE DEF failed, Nth, N
<1>11. ASSUME NEW n \in 1 .. N PROVE run.batch[Nth(n)] \in Rows
  <2>1. run.batch \in Seq(Rows) /\ Nth(n) \in 1 .. Len(run.batch)
    BY <1>1, <1>9 DEF Run
  <2> QED
    BY <2>1, ElementOfSeq
<1> QED
  BY <1>1, <1>10, <1>11

-----------------------------------------------------------------------------
(* What a step of a worker can be, with the values it writes.                *)
Leaves(w, a) ==
  /\ a \in Activity /\ a.pc \in {"idle", "insert", "answer"} /\ a.own = {}
  /\ a.pc \in {"idle", "insert"} => a.run = NoRun /\ a.outcomes = << >>
  /\ worker' = [worker EXCEPT ![w] = a]

StaysOut(w) ==
  /\ \E a \in Activity : Leaves(w, a)
  /\ UNCHANGED <<runs, facts>>

Moves(w, pc) ==
  /\ Open(w) /\ Len(worker[w].outcomes) < Len(worker[w].batch)
  /\ pc = "store" => Materialized(Row(w), Seen(w)) = "stores"
  /\ worker' = [worker EXCEPT ![w].pc = pc]
  /\ UNCHANGED <<runs, facts>>

RecordsOther(w, o) ==
  /\ Open(w) /\ Len(worker[w].outcomes) < Len(worker[w].batch)
  /\ o = "DUPLICATE" => HasRecord(Row(w), Seen(w))
  /\ Record(w, o)
  /\ UNCHANGED <<runs, facts>>

Commits(w, run) ==
  /\ Open(w)
  /\ run.batch = worker[w].batch
  /\ run.outcomes \in {worker[w].outcomes, Append(worker[w].outcomes, "FAILED")}
  /\ Len(run.outcomes) <= Len(run.batch)
  /\ runs' = [runs EXCEPT ![worker[w].run] = run]
  /\ facts' = facts \cup worker[w].own
  /\ \E a \in Activity : Leaves(w, a)

LEMMA WorkerType ==
  ASSUME TypeInv, NEW w \in Workers
  PROVE  /\ worker[w] \in Activity /\ CarriesItsRun(w)
         /\ worker[w].batch \in Seq(Rows) /\ worker[w].outcomes \in Seq(Outcomes)
         /\ Len(worker[w].batch) \in Nat /\ Len(worker[w].outcomes) \in Nat
         /\ worker[w].own \in SUBSET Fact
BY DEF TypeInv, TypeOK, Activity

LEMMA IdleType ==
  /\ Idle \in Activity /\ Idle.pc = "idle" /\ Idle.own = {} /\ Idle.run = NoRun
  /\ Idle.outcomes = << >>
  /\ \A batch \in Seq(Rows), r \in Runs \cup {NoRun} :
       LET a == [Idle EXCEPT !.pc = "insert", !.batch = batch, !.origin = r] IN
       /\ a \in Activity /\ a.pc = "insert" /\ a.own = {} /\ a.run = NoRun
       /\ a.outcomes = << >>
BY EmptySeq DEF Idle, Activity

LEMMA CountType ==
  ASSUME NEW outcomes \in Seq(Outcomes), NEW o \in Outcomes
  PROVE  CountOf(outcomes, o) \in Nat
<1>1. DOMAIN outcomes = 1 .. Len(outcomes) /\ Len(outcomes) \in Nat
  OBVIOUS
<1>2. IsFiniteSet(1 .. Len(outcomes))
  BY <1>1, FS_Interval
<1>3. {i \in DOMAIN outcomes : outcomes[i] = o} \in SUBSET (1 .. Len(outcomes))
  BY <1>1
<1> QED
  BY <1>2, <1>3, FS_Subset, FS_CardinalityType DEF CountOf

LEMMA StepKinds ==
  ASSUME TypeInv, NEW w \in Workers, Arrive(w) \/ Proceed(w) \/ Crash(w)
  PROVE  \/ StaysOut(w)
         \/ \E r \in Runs : InsertRun(w, r)
         \/ \E pc \in {"resolve", "store", "raised"} : Moves(w, pc)
         \/ \E o \in Outcomes \ {"ACCEPTED"} : RecordsOther(w, o)
         \/ Store(w)
         \/ \E run \in Run : Commits(w, run)
<1>1. ASSUME Arrive(w) PROVE StaysOut(w)
  <2>1. ASSUME NEW batch \in Seq(Rows), NEW r \in Runs \cup {NoRun}, Begin(w, batch, r)
        PROVE  StaysOut(w)
    BY <2>1, IdleType DEF Begin, StaysOut, Leaves
  <2>2. ASSUME NEW batch \in Batches, Submit(w, batch) PROVE StaysOut(w)
    BY <2>1, <2>2, TableAssumption DEF Submit
  <2>3. ASSUME NEW r \in Runs, Retry(w, r) PROVE StaysOut(w)
    <3>1. runs[r] \in Run /\ Len(runs[r].outcomes) <= Len(runs[r].batch)
      BY <2>3 DEF Retry, Exists, TypeInv, TypeOK
    <3> QED
      BY <2>1, <2>3, <3>1, FailedRowsType DEF Retry
  <2> QED
    BY <1>1, <2>2, <2>3 DEF Arrive
<1>2. ASSUME Crash(w) PROVE StaysOut(w)
  BY <1>2, IdleType DEF Crash, StaysOut, Leaves
<1>3. ASSUME Answer(w) PROVE StaysOut(w)
  BY <1>3, IdleType DEF Answer, StaysOut, Leaves
<1>4. ASSUME InsertConflict(w) PROVE StaysOut(w)
  <2>1. PICK r \in Runs : worker' = [worker EXCEPT ![w].pc = "answer", ![w].run = r]
    BY <1>4 DEF InsertConflict, ExistingRuns
  <2> DEFINE a == [worker[w] EXCEPT !.pc = "answer", !.run = r]
  <2>2. a \in Activity /\ a.pc = "answer" /\ a.own = {}
    BY <1>4, WorkerType DEF InsertConflict, CarriesItsRun, Open, Activity
  <2>3. worker' = [worker EXCEPT ![w] = a]
    BY <2>1
  <2> HIDE DEF a
  <2> QED
    BY <1>4, <2>2, <2>3 DEF StaysOut, Leaves, InsertConflict
<1>5. ASSUME RejectInvalid(w) PROVE RecordsOther(w, "REJECTED")
  BY <1>5 DEF RejectInvalid, RecordsOther, RowAt, Open
<1>6. ASSUME SkipDuplicate(w) PROVE RecordsOther(w, "DUPLICATE")
  BY <1>6 DEF SkipDuplicate, RecordsOther, RowAt, Open
<1>7. ASSUME PassChecks(w) PROVE Moves(w, "resolve")
  BY <1>7 DEF PassChecks, Moves, RowAt, Open
<1>8. ASSUME Resolve(w)
      PROVE  \/ RecordsOther(w, "REJECTED")
             \/ Moves(w, "raised") \/ Moves(w, "store")
  <2>1. Materialized(Row(w), Seen(w)) \in {"REJECTED", "raises", "stores"}
    BY DEF Materialized
  <2> QED
    BY <1>8, <2>1 DEF Resolve, RecordsOther, Moves, RowAt, Open
<1>9. ASSUME StoreConflict(w)
      PROVE  RecordsOther(w, "DUPLICATE") \/ RecordsOther(w, "FAILED")
  BY <1>9 DEF StoreConflict, Conflicting, RecordsOther, RowAt, Open
<1>10. ASSUME StoreRaises(w) PROVE Moves(w, "raised")
  BY <1>10 DEF StoreRaises, Moves, RowAt, Open
<1>11. ASSUME Finish(w) PROVE \E run \in Run : Commits(w, run)
  <2> DEFINE outcomes == worker[w].outcomes
             counter == CountersOf(outcomes)
             status == StatusOf(counter)
             run == [batch |-> worker[w].batch, outcomes |-> outcomes,
                     status |-> status, counter |-> counter]
             a == [worker[w] EXCEPT !.pc = "answer", !.own = {}]
  <2>1. Open(w) /\ Len(run.outcomes) <= Len(run.batch)
    BY <1>11, WorkerType DEF Finish, Open
  <2>2. counter \in [Outcomes -> Nat] /\ status \in Statuses
    BY WorkerType, CountType DEF CountersOf, StatusOf, Statuses
  <2>3. /\ runs' = [runs EXCEPT ![worker[w].run] = run]
        /\ facts' = facts \cup worker[w].own
        /\ worker' = [worker EXCEPT ![w] = a]
    BY <1>11 DEF Finish, CommitRun
  <2>4. a \in Activity /\ a.pc = "answer" /\ a.own = {}
    BY WorkerType DEF Activity
  <2> HIDE DEF counter, status, a
  <2>5. run \in Run
    BY <2>2, WorkerType DEF Run
  <2>6. run.batch = worker[w].batch /\ run.outcomes = worker[w].outcomes
    OBVIOUS
  <2> HIDE DEF run, outcomes
  <2>7. \E act \in Activity : Leaves(w, act)
    BY <2>3, <2>4 DEF Leaves
  <2> QED
    BY <2>1, <2>3, <2>5, <2>6, <2>7 DEF Commits
<1>12. ASSUME FailRun(w) PROVE \E run \in Run : Commits(w, run)
  <2> DEFINE outcomes == Append(worker[w].outcomes, "FAILED")
             counter == [o \in Outcomes |->
                           IF o = "FAILED" THEN CountOf(outcomes, o) ELSE 0]
             run == [batch |-> worker[w].batch, outcomes |-> outcomes,
                     status |-> "FAILED", counter |-> counter]
  <2>1. Open(w) /\ Len(worker[w].outcomes) < Len(worker[w].batch)
    BY <1>12, WorkerType DEF FailRun, Open, CarriesItsRun
  <2>2. outcomes \in Seq(Outcomes) /\ Len(outcomes) <= Len(worker[w].batch)
    BY <2>1, WorkerType DEF Outcomes
  <2>3. /\ runs' = [runs EXCEPT ![worker[w].run] = run]
        /\ facts' = facts \cup worker[w].own
        /\ worker' = [worker EXCEPT ![w] = Idle]
    BY <1>12 DEF FailRun, CommitRun
  <2>4. outcomes = Append(worker[w].outcomes, "FAILED")
    OBVIOUS
  <2> HIDE DEF outcomes
  <2>5. counter \in [Outcomes -> Nat]
    BY <2>2, CountType
  <2> HIDE DEF counter
  <2>6. run \in Run
    BY <2>2, <2>5, WorkerType DEF Run, Statuses
  <2>7. run.batch = worker[w].batch /\ run.outcomes = outcomes
    OBVIOUS
  <2> HIDE DEF run
  <2>8. \E act \in Activity : Leaves(w, act)
    BY <2>3, IdleType DEF Leaves
  <2> QED
    BY <2>1, <2>2, <2>3, <2>4, <2>6, <2>7, <2>8 DEF Commits
<1> QED
  BY <1>1, <1>2, <1>3, <1>4, <1>5, <1>6, <1>7, <1>8, <1>9, <1>10, <1>11, <1>12
     DEF Proceed, Outcomes

-----------------------------------------------------------------------------
LEMMA TypeInit == Init => TypeInv
<1> SUFFICES ASSUME Init PROVE TypeInv
  OBVIOUS
<1>1. TypeOK
  BY IdleType DEF Init, TypeOK
<1>2. ASSUME NEW w \in Workers PROVE CarriesItsRun(w)
  BY IdleType DEF Init, CarriesItsRun, Open
<1> QED
  BY <1>1, <1>2 DEF TypeInv, Init, Exists

LEMMA OthersCarry ==
  ASSUME TypeInv, NEW w \in Workers, NEW v \in Workers, worker'[v] = worker[v]
  PROVE  CarriesItsRun(v)'
BY WorkerType DEF CarriesItsRun, Open

(* A step that leaves the tables alone keeps the types if the worker does.   *)
LEMMA WorkerSteps ==
  ASSUME TypeInv, NEW w \in Workers, NEW a \in Activity,
         worker' = [worker EXCEPT ![w] = a], UNCHANGED <<runs, facts>>,
         a.pc \in {"row", "resolve", "store", "raised"}
           => a.run \in Runs /\ Len(a.outcomes) <= Len(a.batch),
         a.pc \in {"resolve", "store", "raised"} => Len(a.outcomes) < Len(a.batch),
         a.pc \notin {"row", "resolve", "store", "raised"} => a.own = {},
         a.pc \in {"idle", "insert"} => a.run = NoRun /\ a.outcomes = << >>
  PROVE  TypeInv'
<1>1. worker \in [Workers -> Activity]
  BY DEF TypeInv, TypeOK
<1>2. worker'[w] = a /\ \A v \in Workers \ {w} : worker'[v] = worker[v]
  BY <1>1
<1>3. TypeOK'
  BY <1>1 DEF TypeInv, TypeOK
<1>4. CarriesItsRun(w)'
  BY <1>2 DEF CarriesItsRun, Open
<1>5. ASSUME NEW v \in Workers \ {w} PROVE CarriesItsRun(v)'
  BY <1>2, OthersCarry
<1> QED
  BY <1>3, <1>4, <1>5 DEF TypeInv, Exists

LEMMA TypeStep == TypeInv /\ [Next]_vars => TypeInv'
<1> SUFFICES ASSUME TypeInv, [Next]_vars PROVE TypeInv'
  OBVIOUS
<1>1. ASSUME NEW w \in Workers, StaysOut(w) PROVE TypeInv'
  <2>1. PICK a \in Activity : Leaves(w, a)
    BY <1>1 DEF StaysOut
  <2> QED
    BY <1>1, <2>1, WorkerSteps DEF StaysOut, Leaves
<1>2. ASSUME NEW w \in Workers, NEW r \in Runs, InsertRun(w, r) PROVE TypeInv'
  <2> DEFINE a == [worker[w] EXCEPT !.pc = "row", !.run = r]
  <2>1. worker' = [worker EXCEPT ![w] = a]
    BY <1>2 DEF InsertRun
  <2>2. /\ a \in Activity /\ a.pc = "row" /\ a.run \in Runs
        /\ a.outcomes = << >> /\ a.batch \in Seq(Rows)
    BY <1>2, WorkerType DEF InsertRun, CarriesItsRun, Activity
  <2>3. Len(a.outcomes) <= Len(a.batch)
    BY <2>2
  <2> HIDE DEF a
  <2> QED
    BY <1>2, <2>1, <2>2, <2>3, WorkerSteps DEF InsertRun
<1>3. ASSUME NEW w \in Workers, NEW pc \in {"resolve", "store", "raised"}, Moves(w, pc)
      PROVE  TypeInv'
  <2> DEFINE a == [worker[w] EXCEPT !.pc = pc]
  <2>1. worker' = [worker EXCEPT ![w] = a]
    BY <1>3 DEF Moves
  <2>2. /\ a \in Activity /\ a.pc = pc /\ a.run = worker[w].run
        /\ a.outcomes = worker[w].outcomes /\ a.batch = worker[w].batch
    BY WorkerType DEF Activity
  <2> HIDE DEF a
  <2> QED
    BY <1>3, <2>1, <2>2, WorkerType, WorkerSteps DEF Moves, CarriesItsRun
<1>4. ASSUME NEW w \in Workers, NEW o \in Outcomes, RecordsOther(w, o) PROVE TypeInv'
  <2> DEFINE a == [worker[w] EXCEPT !.pc = "row", !.outcomes = Append(@, o)]
  <2>1. worker' = [worker EXCEPT ![w] = a]
    BY <1>4 DEF RecordsOther, Record
  <2>2. /\ a \in Activity /\ a.pc = "row" /\ a.run = worker[w].run
        /\ a.outcomes = Append(worker[w].outcomes, o) /\ a.batch = worker[w].batch
    <3>1. Append(worker[w].outcomes, o) \in Seq(Outcomes)
      BY WorkerType
    <3> QED
      BY <3>1, WorkerType DEF Activity
  <2>3. Len(a.outcomes) <= Len(a.batch)
    BY <1>4, <2>2, WorkerType DEF RecordsOther
  <2> HIDE DEF a
  <2> QED
    BY <1>4, <2>1, <2>2, <2>3, WorkerType, WorkerSteps DEF RecordsOther, CarriesItsRun
<1>5. ASSUME NEW w \in Workers, Store(w) PROVE TypeInv'
  <2> DEFINE f == [row |-> Row(w), run |-> worker[w].run]
             a == [worker[w] EXCEPT !.pc = "row", !.outcomes = Append(@, "ACCEPTED"),
                                    !.own = @ \cup {f}]
  <2>1. /\ worker' = [worker EXCEPT ![w] = a] /\ UNCHANGED <<runs, facts>>
        /\ worker[w].pc = "store" /\ Len(worker[w].outcomes) < Len(worker[w].batch)
    BY <1>5 DEF Store, RowAt
  <2>2. Row(w) \in Rows
    BY <2>1, WorkerType, ElementOfSeq DEF Row
  <2>3. f \in Fact
    BY <2>1, <2>2, WorkerType DEF Fact, CarriesItsRun, Open
  <2> HIDE DEF f
  <2>4. /\ a \in Activity /\ a.pc = "row" /\ a.run = worker[w].run
        /\ a.outcomes = Append(worker[w].outcomes, "ACCEPTED") /\ a.batch = worker[w].batch
    <3>1. /\ Append(worker[w].outcomes, "ACCEPTED") \in Seq(Outcomes)
          /\ worker[w].own \cup {f} \in SUBSET Fact
      BY <2>3, WorkerType DEF Outcomes
    <3> QED
      BY <3>1, WorkerType DEF Activity
  <2>5. Len(a.outcomes) <= Len(a.batch) /\ a.run \in Runs
    BY <2>1, <2>4, WorkerType DEF CarriesItsRun, Open
  <2> HIDE DEF a
  <2> QED
    BY <2>1, <2>4, <2>5, WorkerSteps
<1>6. ASSUME NEW w \in Workers, NEW run \in Run, Commits(w, run) PROVE TypeInv'
  <2>1. PICK a \in Activity : Leaves(w, a)
    BY <1>6 DEF Commits
  <2>2. /\ worker' = [worker EXCEPT ![w] = a] /\ a.own = {} /\ a.pc \in {"idle", "insert", "answer"}
        /\ a.pc \in {"idle", "insert"} => a.run = NoRun /\ a.outcomes = << >>
    BY <2>1 DEF Leaves
  <2>3. worker' \in [Workers -> Activity] /\ worker'[w] = a
        /\ \A v \in Workers \ {w} : worker'[v] = worker[v]
    BY <2>2 DEF TypeInv, TypeOK
  <2>4. /\ runs' = [runs EXCEPT ![worker[w].run] = run] /\ Len(run.outcomes) <= Len(run.batch)
        /\ facts' = facts \cup worker[w].own
    BY <1>6 DEF Commits
  <2>5. TypeOK'
    <3>1. runs' \in [Runs -> Run \cup {NoRun}]
      BY <2>4 DEF TypeInv, TypeOK
    <3>2. \A f \in facts' : f \in Fact \cup Foreign
      BY <2>4, WorkerType DEF TypeInv, TypeOK
    <3> QED
      BY <2>3, <3>1, <3>2 DEF TypeOK
  <2>6. \A v \in Workers : CarriesItsRun(v)'
    <3>1. CarriesItsRun(w)'
      BY <2>2, <2>3 DEF CarriesItsRun, Open
    <3> QED
      BY <2>3, <3>1, OthersCarry
  <2>7. \A r \in Runs : Exists(r)' => (Len(runs[r].outcomes) <= Len(runs[r].batch))'
    BY <2>4 DEF TypeInv, TypeOK, Exists
  <2> QED
    BY <2>5, <2>6, <2>7 DEF TypeInv
<1>7. ASSUME UNCHANGED vars PROVE TypeInv'
  BY <1>7 DEF vars, TypeInv, TypeOK, CarriesItsRun, Open, Exists
<1>8. ASSUME NEW w \in Workers, Arrive(w) \/ Proceed(w) \/ Crash(w) PROVE TypeInv'
  BY <1>1, <1>2, <1>3, <1>4, <1>5, <1>6, <1>8, StepKinds
<1> QED
  BY <1>7, <1>8 DEF Next

(* Runs, audit records and facts keep their shape, and a worker between the  *)
(* INSERT of its run and its commit has a run and a row left where it needs  *)
(* one: what create_run and retry_run carry from statement to statement.     *)
THEOREM TypeInvariance == Spec => []TypeOK
<1>1. TypeInv => TypeOK
  BY DEF TypeInv
<1> QED
  BY <1>1, TypeInit, TypeStep, PTL DEF Spec

-----------------------------------------------------------------------------
(* What a step does to the run, the batch and the standing of each worker.   *)
LEMMA Others ==
  ASSUME TypeInv, NEW w \in Workers, NEW a, worker' = [worker EXCEPT ![w] = a]
  PROVE  worker'[w] = a /\ \A v \in Workers \ {w} : worker'[v] = worker[v]
BY DEF TypeInv, TypeOK

LEMMA OutOfWork ==
  ASSUME TypeInv, NEW w \in Workers, \E a \in Activity : Leaves(w, a)
  PROVE  /\ ~Open(w)' /\ worker'[w].own = {}
         /\ \A v \in Workers \ {w} : worker'[v] = worker[v]
<1>1. PICK a \in Activity : Leaves(w, a)
  OBVIOUS
<1>2. worker'[w] = a /\ \A v \in Workers \ {w} : worker'[v] = worker[v]
  BY <1>1, Others DEF Leaves
<1> QED
  BY <1>1, <1>2 DEF Leaves, Open

LEMMA Starts ==
  ASSUME TypeInv, NEW w \in Workers, NEW r \in Runs, InsertRun(w, r)
  PROVE  /\ ~Open(w) /\ Open(w)' /\ worker'[w].pc = "row"
         /\ worker'[w].run = r /\ worker'[w].batch = worker[w].batch
         /\ worker'[w].outcomes = << >> /\ worker'[w].own = {}
         /\ \A v \in Workers \ {w} : worker'[v] = worker[v]
<1> DEFINE a == [worker[w] EXCEPT !.pc = "row", !.run = r]
<1>1. worker' = [worker EXCEPT ![w] = a] /\ worker[w].pc = "insert"
  BY DEF InsertRun
<1>2. /\ a.pc = "row" /\ a.run = r /\ a.batch = worker[w].batch
      /\ a.outcomes = worker[w].outcomes /\ a.own = worker[w].own
  BY WorkerType DEF Activity
<1>3. worker[w].outcomes = << >> /\ worker[w].own = {}
  BY <1>1, WorkerType DEF CarriesItsRun, Open
<1> HIDE DEF a
<1> QED
  BY <1>1, <1>2, <1>3, Others DEF Open

(* The work of a worker that stays open with its run and its batch.          *)
Continues(w) ==
  /\ Open(w) /\ Open(w)'
  /\ worker'[w].run = worker[w].run /\ worker'[w].batch = worker[w].batch
  /\ \A v \in Workers \ {w} : worker'[v] = worker[v]
  /\ UNCHANGED <<runs, facts>>

LEMMA MovesOn ==
  ASSUME TypeInv, NEW w \in Workers, NEW pc \in {"resolve", "store", "raised"}, Moves(w, pc)
  PROVE  /\ Continues(w) /\ worker'[w].pc = pc
         /\ worker'[w].outcomes = worker[w].outcomes /\ worker'[w].own = worker[w].own
<1> DEFINE a == [worker[w] EXCEPT !.pc = pc]
<1>1. worker' = [worker EXCEPT ![w] = a]
  BY DEF Moves
<1>2. /\ a.pc = pc /\ a.run = worker[w].run /\ a.batch = worker[w].batch
      /\ a.outcomes = worker[w].outcomes /\ a.own = worker[w].own
  BY WorkerType DEF Activity
<1> HIDE DEF a
<1> QED
  BY <1>1, <1>2, Others DEF Moves, Open, Continues

LEMMA RecordsOn ==
  ASSUME TypeInv, NEW w \in Workers, NEW o, RecordsOther(w, o)
  PROVE  /\ Continues(w) /\ worker'[w].pc = "row"
         /\ worker'[w].outcomes = Append(worker[w].outcomes, o)
         /\ worker'[w].own = worker[w].own
<1> DEFINE a == [worker[w] EXCEPT !.pc = "row", !.outcomes = Append(@, o)]
<1>1. worker' = [worker EXCEPT ![w] = a]
  BY DEF RecordsOther, Record
<1>2. /\ a.pc = "row" /\ a.run = worker[w].run /\ a.batch = worker[w].batch
      /\ a.outcomes = Append(worker[w].outcomes, o) /\ a.own = worker[w].own
  BY WorkerType DEF Activity
<1> HIDE DEF a
<1> QED
  BY <1>1, <1>2, Others DEF RecordsOther, Open, Continues

LEMMA StoresOn ==
  ASSUME TypeInv, NEW w \in Workers, Store(w)
  PROVE  /\ Continues(w) /\ worker[w].pc = "store" /\ worker'[w].pc = "row"
         /\ worker'[w].outcomes = Append(worker[w].outcomes, "ACCEPTED")
         /\ worker'[w].own = worker[w].own \cup {[row |-> Row(w), run |-> worker[w].run]}
         /\ ~Taken(w) /\ Holders(w) = {}
<1> DEFINE f == [row |-> Row(w), run |-> worker[w].run]
           a == [worker[w] EXCEPT !.pc = "row", !.outcomes = Append(@, "ACCEPTED"),
                                  !.own = @ \cup {f}]
<1>1. worker' = [worker EXCEPT ![w] = a] /\ UNCHANGED <<runs, facts>>
  BY DEF Store
<1>2. /\ a.pc = "row" /\ a.run = worker[w].run /\ a.batch = worker[w].batch
      /\ a.outcomes = Append(worker[w].outcomes, "ACCEPTED")
      /\ a.own = worker[w].own \cup {f}
  BY WorkerType DEF Activity
<1>3. worker[w].pc = "store" /\ Open(w) /\ ~Taken(w) /\ Holders(w) = {}
  BY DEF Store, MayStore, RowAt, Open
<1> HIDE DEF a
<1> QED
  BY <1>1, <1>2, <1>3, Others DEF Open, Continues

-----------------------------------------------------------------------------
(* One run for a batch: the UNIQUE constraint also waits for runs that are   *)
(* not committed, so that no open run is that of a committed or open one.    *)
BatchInv ==
  /\ OneRunPerBatch
  /\ \A w \in Workers, r \in Runs :
       Open(w) /\ Exists(r)
         => Fingerprint(worker[w].batch) # Fingerprint(runs[r].batch)

LEMMA BatchStays ==
  ASSUME TypeInv, BatchInv, UNCHANGED runs,
         \A v \in Workers : Open(v)' => Open(v) /\ worker'[v].batch = worker[v].batch
  PROVE  BatchInv'
BY DEF BatchInv, OneRunPerBatch, SameBatch, Open, Exists

LEMMA BatchStep == TypeInv /\ BatchInv /\ [Next]_vars => BatchInv'
<1> SUFFICES ASSUME TypeInv, BatchInv, [Next]_vars PROVE BatchInv'
  OBVIOUS
<1>1. ASSUME NEW w \in Workers, StaysOut(w) PROVE BatchInv'
  BY <1>1, OutOfWork, BatchStays DEF StaysOut, Open
<1>2. ASSUME NEW w \in Workers, Continues(w) PROVE BatchInv'
  BY <1>2, BatchStays DEF Continues, Open
<1>3. ASSUME NEW w \in Workers, NEW r \in Runs, InsertRun(w, r) PROVE BatchInv'
  <2>1. UNCHANGED <<runs, facts>> /\ BatchIsNew(w)
    BY <1>3 DEF InsertRun
  <2>2. \A s \in Runs : Exists(s) => Fingerprint(worker[w].batch) # Fingerprint(runs[s].batch)
    BY <2>1 DEF BatchIsNew, ExistingRuns
  <2>3. \A v \in Workers :
          Open(v) => Fingerprint(worker[w].batch) # Fingerprint(worker[v].batch)
    BY <2>1, WorkerType, TableAssumption DEF BatchIsNew, SameBatch, CarriesItsRun, Open
  <2>4. /\ worker'[w].batch = worker[w].batch
        /\ \A v \in Workers \ {w} : worker'[v] = worker[v]
    BY <1>3, Starts
  <2> QED
    BY <2>1, <2>2, <2>3, <2>4 DEF BatchInv, OneRunPerBatch, SameBatch, Open, Exists
<1>4. ASSUME NEW w \in Workers, NEW run \in Run, Commits(w, run) PROVE BatchInv'
  <2>1. /\ ~Open(w)' /\ \A v \in Workers \ {w} : worker'[v] = worker[v]
    BY <1>4, OutOfWork DEF Commits
  <2>2. /\ Open(w) /\ runs' = [runs EXCEPT ![worker[w].run] = run]
        /\ run.batch = worker[w].batch
    BY <1>4 DEF Commits
  <2>3. worker[w].run \in Runs /\ DOMAIN runs = Runs
    BY <2>2, WorkerType DEF CarriesItsRun, TypeInv, TypeOK
  <2>4. \A s \in Runs : runs'[s] = IF s = worker[w].run THEN run ELSE runs[s]
    BY <2>2, <2>3
  <2> QED
    BY <2>1, <2>2, <2>3, <2>4 DEF BatchInv, OneRunPerBatch, SameBatch, Open, Exists
<1>5. ASSUME UNCHANGED vars PROVE BatchInv'
  BY <1>5, BatchStays DEF vars, Open
<1>6. ASSUME NEW w \in Workers, Arrive(w) \/ Proceed(w) \/ Crash(w) PROVE BatchInv'
  BY <1>1, <1>2, <1>3, <1>4, <1>6, StepKinds, MovesOn, RecordsOn, StoresOn
<1> QED
  BY <1>5, <1>6 DEF Next

(* One logical batch has one run, committed or open, however often and at    *)
(* whatever times it is submitted or retried (create_run's fingerprint).     *)
THEOREM OneRunForABatch == Spec => []OneRunPerBatch
<1>1. Init => BatchInv
  BY IdleType DEF Init, BatchInv, OneRunPerBatch, Open, Exists
<1>2. BatchInv => OneRunPerBatch
  BY DEF BatchInv
<1> QED
  BY <1>1, <1>2, TypeInit, TypeStep, BatchStep, PTL DEF Spec

-----------------------------------------------------------------------------
(* The facts that the accepted rows of a batch became.                       *)
Accepted(outcomes) == {i \in DOMAIN outcomes : outcomes[i] = "ACCEPTED"}

FactsOf(batch, outcomes, run) ==
  {[row |-> batch[i], run |-> run] : i \in Accepted(outcomes)}

(* Outcomes that tell which facts are stored, and why the others are not.    *)
Tells(batch, outcomes, run, stored, known) ==
  /\ stored = FactsOf(batch, outcomes, run)
  /\ \A i, j \in Accepted(outcomes) : Identity(batch[i]) = Identity(batch[j]) => i = j
  /\ \A i \in DOMAIN outcomes : outcomes[i] = "DUPLICATE" => HasRecord(batch[i], known)

LEMMA TellsNothing ==
  ASSUME NEW batch, NEW run, NEW known
  PROVE  Tells(batch, << >>, run, {}, known)
BY DEF Tells, FactsOf, Accepted

LEMMA TellsMore ==
  ASSUME NEW batch, NEW outcomes, NEW run, NEW stored, NEW known,
         NEW more, known \subseteq more, Tells(batch, outcomes, run, stored, known)
  PROVE  Tells(batch, outcomes, run, stored, more)
BY DEF Tells, HasRecord

LEMMA Appended ==
  ASSUME NEW outcomes \in Seq(Outcomes), NEW o
  PROVE  LET more == Append(outcomes, o)
             n == Len(outcomes) + 1 IN
         /\ DOMAIN more = DOMAIN outcomes \cup {n} /\ n \notin DOMAIN outcomes
         /\ more[n] = o /\ \A i \in DOMAIN outcomes : more[i] = outcomes[i]
OBVIOUS

LEMMA TellsOther ==
  ASSUME NEW batch, NEW outcomes \in Seq(Outcomes), NEW run, NEW stored, NEW known,
         NEW o, o # "ACCEPTED",
         o = "DUPLICATE" => HasRecord(batch[Len(outcomes) + 1], known),
         Tells(batch, outcomes, run, stored, known)
  PROVE  Tells(batch, Append(outcomes, o), run, stored, known)
<1> DEFINE more == Append(outcomes, o)
<1>1. Accepted(more) = Accepted(outcomes)
  BY Appended DEF Accepted
<1>2. \A i \in DOMAIN more : more[i] = "DUPLICATE" => HasRecord(batch[i], known)
  BY Appended DEF Tells
<1> HIDE DEF more
<1>3. Tells(batch, more, run, stored, known)
  BY <1>1, <1>2 DEF Tells, FactsOf
<1> QED
  BY <1>3 DEF more

LEMMA TellsAccepted ==
  ASSUME NEW batch, NEW outcomes \in Seq(Outcomes), NEW run, NEW stored, NEW known,
         \A g \in stored : Identity(g.row) # Identity(batch[Len(outcomes) + 1]),
         Tells(batch, outcomes, run, stored, known)
  PROVE  Tells(batch, Append(outcomes, "ACCEPTED"), run,
               stored \cup {[row |-> batch[Len(outcomes) + 1], run |-> run]}, known)
<1> DEFINE more == Append(outcomes, "ACCEPTED")
           n == Len(outcomes) + 1
           f == [row |-> batch[n], run |-> run]
<1>1. Accepted(more) = Accepted(outcomes) \cup {n} /\ n \notin Accepted(outcomes)
  BY Appended DEF Accepted
<1>2. \A i \in DOMAIN more : more[i] = "DUPLICATE" => HasRecord(batch[i], known)
  BY Appended DEF Tells
<1>3. ASSUME NEW i \in Accepted(outcomes) PROVE Identity(batch[i]) # Identity(batch[n])
  <2> DEFINE g == [row |-> batch[i], run |-> run]
  <2>1. g \in stored /\ g.row = batch[i]
    BY DEF Tells, FactsOf
  <2> HIDE DEF g
  <2> QED
    BY <2>1
<1> HIDE DEF more, n
<1>4. FactsOf(batch, more, run) = FactsOf(batch, outcomes, run) \cup {f}
  BY <1>1 DEF FactsOf
<1>5. \A i, j \in Accepted(more) : Identity(batch[i]) = Identity(batch[j]) => i = j
  BY <1>1, <1>3 DEF Tells
<1>6. Tells(batch, more, run, stored \cup {f}, known)
  BY <1>2, <1>4, <1>5 DEF Tells
<1> QED
  BY <1>6 DEF more, n

-----------------------------------------------------------------------------
(* Everything stored, committed or not; the facts of one run.                *)
Known == facts \cup UNION {worker[v].own : v \in Workers}

StoredBy(r) == {f \in facts : f.run = r}

(* A run id belongs to one run.                                              *)
RunInv ==
  /\ \A w \in Workers : Open(w) => ~Exists(worker[w].run)
  /\ \A v, w \in Workers :
       Open(v) /\ Open(w) /\ worker[v].run = worker[w].run => v = w

(* The UNIQUE identity, across committed and uncommitted facts; of what      *)
(* other code stored, only the payments are known to have one.               *)
UniqueInv ==
  \A f, g \in Known :
    /\ (f.run # NoRun /\ g.run # NoRun) \/ f.row.entity = "PAYMENT"
    /\ Identity(f.row) = Identity(g.row)
    => f = g

TellInv ==
  /\ \A w \in Workers :
       Open(w) => Tells(worker[w].batch, worker[w].outcomes, worker[w].run,
                        worker[w].own, Seen(w))
  /\ \A r \in Runs :
       /\ Exists(r) => Tells(runs[r].batch, runs[r].outcomes, r, StoredBy(r), facts)
       /\ ~Exists(r) => StoredBy(r) = {}

AuditInv == RunInv /\ UniqueInv /\ TellInv

LEMMA RunStays ==
  ASSUME TypeInv, RunInv, UNCHANGED runs,
         \A v \in Workers : Open(v)' => Open(v) /\ worker'[v].run = worker[v].run
  PROVE  RunInv'
BY DEF RunInv, Open, Exists

LEMMA RunStep == TypeInv /\ RunInv /\ [Next]_vars => RunInv'
<1> SUFFICES ASSUME TypeInv, RunInv, [Next]_vars PROVE RunInv'
  OBVIOUS
<1>1. ASSUME NEW w \in Workers, StaysOut(w) PROVE RunInv'
  BY <1>1, OutOfWork, RunStays DEF StaysOut, Open
<1>2. ASSUME NEW w \in Workers, Continues(w) PROVE RunInv'
  BY <1>2, RunStays DEF Continues, Open
<1>3. ASSUME NEW w \in Workers, NEW r \in Runs, InsertRun(w, r) PROVE RunInv'
  <2>1. UNCHANGED <<runs, facts>> /\ ~Exists(r) /\ Uncommitted(r) = {}
    BY <1>3 DEF InsertRun, Fresh
  <2>2. \A v \in Workers : Open(v) => worker[v].run # r
    BY <2>1 DEF Uncommitted, Open
  <2>3. worker'[w].run = r /\ \A v \in Workers \ {w} : worker'[v] = worker[v]
    BY <1>3, Starts
  <2> QED
    BY <2>1, <2>2, <2>3 DEF RunInv, Open, Exists
<1>4. ASSUME NEW w \in Workers, NEW run \in Run, Commits(w, run) PROVE RunInv'
  <2>1. ~Open(w)' /\ \A v \in Workers \ {w} : worker'[v] = worker[v]
    BY <1>4, OutOfWork DEF Commits
  <2>2. Open(w) /\ runs' = [runs EXCEPT ![worker[w].run] = run]
    BY <1>4 DEF Commits
  <2>3. \A s \in Runs : s # worker[w].run => runs'[s] = runs[s]
    BY <2>2 DEF TypeInv, TypeOK
  <2>4. ASSUME NEW v \in Workers, Open(v)'
        PROVE  /\ v # w /\ Open(v) /\ worker'[v].run = worker[v].run
               /\ worker[v].run # worker[w].run /\ ~Exists(worker[v].run)'
    <3>1. v # w /\ worker'[v] = worker[v] /\ Open(v)
      BY <2>1, <2>4 DEF Open
    <3>2. worker[v].run # worker[w].run /\ ~Exists(worker[v].run) /\ worker[v].run \in Runs
      BY <2>2, <3>1, WorkerType DEF RunInv, CarriesItsRun
    <3> QED
      BY <2>3, <3>1, <3>2 DEF Exists
  <2> QED
    BY <2>4 DEF RunInv, Exists
<1>5. ASSUME UNCHANGED vars PROVE RunInv'
  BY <1>5, RunStays DEF vars, Open
<1>6. ASSUME NEW w \in Workers, Arrive(w) \/ Proceed(w) \/ Crash(w) PROVE RunInv'
  BY <1>1, <1>2, <1>3, <1>4, <1>6, StepKinds, MovesOn, RecordsOn, StoresOn
<1> QED
  BY <1>5, <1>6 DEF Next

LEMMA UniqueStays ==
  ASSUME UniqueInv, Known' \subseteq Known
  PROVE  UniqueInv'
BY DEF UniqueInv

LEMMA UniqueStep == TypeInv /\ UniqueInv /\ [Next]_vars => UniqueInv'
<1> SUFFICES ASSUME TypeInv, UniqueInv, [Next]_vars PROVE UniqueInv'
  OBVIOUS
<1>1. ASSUME NEW w \in Workers, UNCHANGED facts, worker'[w].own \subseteq worker[w].own,
             \A v \in Workers \ {w} : worker'[v] = worker[v]
      PROVE  UniqueInv'
  BY <1>1, UniqueStays DEF Known
<1>2. ASSUME NEW w \in Workers, StaysOut(w) PROVE UniqueInv'
  BY <1>1, <1>2, OutOfWork DEF StaysOut
<1>3. ASSUME NEW w \in Workers, NEW r \in Runs, InsertRun(w, r) PROVE UniqueInv'
  BY <1>1, <1>3, Starts DEF InsertRun
<1>4. ASSUME NEW w \in Workers, Continues(w), worker'[w].own = worker[w].own PROVE UniqueInv'
  BY <1>1, <1>4 DEF Continues
<1>5. ASSUME NEW w \in Workers, Store(w) PROVE UniqueInv'
  <2> DEFINE f == [row |-> Row(w), run |-> worker[w].run]
  <2>1. Known' = Known \cup {f}
    BY <1>5, StoresOn DEF Known, Continues
  <2>2. \A g \in Known : Identity(g.row) # Identity(Row(w))
    BY <1>5, StoresOn DEF Known, Taken, Holders, Seen
  <2>3. f.row = Row(w)
    OBVIOUS
  <2> HIDE DEF f
  <2> QED
    BY <2>1, <2>2, <2>3 DEF UniqueInv
<1>6. ASSUME NEW w \in Workers, NEW run \in Run, Commits(w, run) PROVE UniqueInv'
  <2>1. /\ worker'[w].own = {} /\ facts' = facts \cup worker[w].own
        /\ \A v \in Workers \ {w} : worker'[v] = worker[v]
    BY <1>6, OutOfWork DEF Commits
  <2>2. Known' \subseteq Known
    BY <2>1 DEF Known
  <2> QED
    BY <2>2, UniqueStays
<1>7. ASSUME UNCHANGED vars PROVE UniqueInv'
  BY <1>7 DEF vars, UniqueInv, Known
<1>8. ASSUME NEW w \in Workers, Arrive(w) \/ Proceed(w) \/ Crash(w) PROVE UniqueInv'
  BY <1>2, <1>3, <1>4, <1>5, <1>6, <1>8, StepKinds, MovesOn, RecordsOn
<1> QED
  BY <1>7, <1>8 DEF Next

LEMMA TellStep == TypeInv /\ RunInv /\ TellInv /\ [Next]_vars => TellInv'
<1> SUFFICES ASSUME TypeInv, RunInv, TellInv, [Next]_vars PROVE TellInv'
  OBVIOUS
<1>1. ASSUME UNCHANGED <<runs, facts>>,
             NEW w \in Workers, \A v \in Workers \ {w} : worker'[v] = worker[v],
             Open(w)' => Tells(worker'[w].batch, worker'[w].outcomes, worker'[w].run,
                               worker'[w].own, facts \cup worker'[w].own)
      PROVE  TellInv'
  <2>1. ASSUME NEW v \in Workers, Open(v)'
        PROVE  Tells(worker'[v].batch, worker'[v].outcomes, worker'[v].run,
                     worker'[v].own, facts' \cup worker'[v].own)
    <3>1. CASE v = w
      BY <1>1, <2>1, <3>1
    <3>2. CASE v # w
      <4>1. worker'[v] = worker[v] /\ Open(v) /\ facts' = facts
        BY <1>1, <2>1, <3>2 DEF Open
      <4>2. Tells(worker[v].batch, worker[v].outcomes, worker[v].run, worker[v].own,
                  facts \cup worker[v].own)
        BY <4>1 DEF TellInv, Seen
      <4> QED
        BY <4>1, <4>2
    <3> QED
      BY <3>1, <3>2
  <2> QED
    BY <1>1, <2>1 DEF TellInv, Seen, StoredBy, Exists
<1>2. ASSUME NEW w \in Workers, StaysOut(w) PROVE TellInv'
  BY <1>1, <1>2, OutOfWork DEF StaysOut
<1>3. ASSUME NEW w \in Workers, NEW r \in Runs, InsertRun(w, r) PROVE TellInv'
  <2>1. /\ worker'[w].outcomes = << >> /\ worker'[w].own = {}
        /\ \A v \in Workers \ {w} : worker'[v] = worker[v]
    BY <1>3, Starts
  <2>2. Tells(worker'[w].batch, worker'[w].outcomes, worker'[w].run,
              worker'[w].own, facts \cup worker'[w].own)
    BY <2>1, TellsNothing
  <2> QED
    BY <1>1, <1>3, <2>1, <2>2 DEF InsertRun
<1>4. ASSUME NEW w \in Workers, Open(w)
      PROVE  Tells(worker[w].batch, worker[w].outcomes, worker[w].run,
                   worker[w].own, facts \cup worker[w].own)
  BY <1>4 DEF TellInv, Seen
<1>5. ASSUME NEW w \in Workers, NEW pc \in {"resolve", "store", "raised"}, Moves(w, pc)
      PROVE  TellInv'
  BY <1>1, <1>4, <1>5, MovesOn DEF Continues
<1>6. ASSUME NEW w \in Workers, NEW o \in Outcomes \ {"ACCEPTED"}, RecordsOther(w, o)
      PROVE  TellInv'
  <2>1. /\ Continues(w) /\ worker'[w].outcomes = Append(worker[w].outcomes, o)
        /\ worker'[w].own = worker[w].own
    BY <1>6, RecordsOn
  <2>2. Tells(worker[w].batch, worker[w].outcomes, worker[w].run,
              worker[w].own, facts \cup worker[w].own)
    BY <1>4, <2>1 DEF Continues
  <2>3. o = "DUPLICATE" => HasRecord(worker[w].batch[Len(worker[w].outcomes) + 1],
                                     facts \cup worker[w].own)
    BY <1>6 DEF RecordsOther, Row, Seen
  <2>4. Tells(worker[w].batch, Append(worker[w].outcomes, o), worker[w].run,
              worker[w].own, facts \cup worker[w].own)
    BY <1>6, <2>2, <2>3, WorkerType, TellsOther
  <2> QED
    BY <1>1, <2>1, <2>4 DEF Continues
<1>7. ASSUME NEW w \in Workers, Store(w) PROVE TellInv'
  <2> DEFINE batch == worker[w].batch
             outcomes == worker[w].outcomes
             run == worker[w].run
             own == worker[w].own
             f == [row |-> batch[Len(outcomes) + 1], run |-> run]
  <2>1. /\ Continues(w) /\ worker'[w].outcomes = Append(outcomes, "ACCEPTED")
        /\ worker'[w].own = own \cup {f} /\ ~Taken(w)
    BY <1>7, StoresOn DEF Row
  <2>2. worker'[w].batch = batch /\ worker'[w].run = run
    BY <2>1 DEF Continues
  <2>3. Tells(batch, outcomes, run, own, facts \cup (own \cup {f}))
    BY <1>4, <2>1, TellsMore DEF Continues
  <2>4. \A g \in own : Identity(g.row) # Identity(batch[Len(outcomes) + 1])
    BY <2>1 DEF Taken, Seen, Row
  <2>5. outcomes \in Seq(Outcomes)
    BY WorkerType
  <2> HIDE DEF batch, outcomes, run, own
  <2>6. Tells(batch, Append(outcomes, "ACCEPTED"), run, own \cup {f},
              facts \cup (own \cup {f}))
    BY <2>3, <2>4, <2>5, TellsAccepted
  <2> HIDE DEF f
  <2> QED
    BY <1>1, <2>1, <2>2, <2>6 DEF Continues
<1>8. ASSUME NEW w \in Workers, NEW run \in Run, Commits(w, run) PROVE TellInv'
  <2> DEFINE id == worker[w].run
             own == worker[w].own
             batch == worker[w].batch
             outcomes == worker[w].outcomes
  <2>1. /\ Open(w) /\ run.batch = batch
        /\ run.outcomes \in {outcomes, Append(outcomes, "FAILED")}
        /\ runs' = [runs EXCEPT ![id] = run] /\ facts' = facts \cup own
    BY <1>8 DEF Commits
  <2>2. /\ ~Open(w)' /\ \A v \in Workers \ {w} : worker'[v] = worker[v]
    BY <1>8, OutOfWork DEF Commits
  <2>3. id \in Runs /\ ~Exists(id) /\ StoredBy(id) = {}
    BY <2>1, WorkerType DEF CarriesItsRun, RunInv, TellInv
  <2>4. Tells(batch, outcomes, id, own, facts \cup own)
    BY <1>4, <2>1
  <2>5. Tells(batch, run.outcomes, id, own, facts \cup own)
    <3>1. outcomes \in Seq(Outcomes)
      BY WorkerType
    <3>2. Tells(batch, Append(outcomes, "FAILED"), id, own, facts \cup own)
      BY <2>4, <3>1, TellsOther
    <3> QED
      BY <2>1, <2>4, <3>2
  <2>6. \A f \in own : f.run = id
    BY <2>4 DEF Tells, FactsOf
  <2>7. runs'[id] = run /\ \A r \in Runs \ {id} : runs'[r] = runs[r]
    BY <2>1, <2>3 DEF TypeInv, TypeOK
  <2>8. run # NoRun
    BY TableAssumption
  <2> HIDE DEF id, own, batch, outcomes
  <2>9. /\ {f \in facts' : f.run = id} = own
        /\ \A r \in Runs \ {id} : {f \in facts' : f.run = r} = StoredBy(r)
    BY <2>1, <2>3, <2>6 DEF StoredBy
  <2>10. ASSUME NEW v \in Workers, Open(v)'
         PROVE  Tells(worker'[v].batch, worker'[v].outcomes, worker'[v].run,
                      worker'[v].own, facts' \cup worker'[v].own)
    <3>1. v # w /\ worker'[v] = worker[v] /\ Open(v)
      BY <2>2, <2>10 DEF Open
    <3>2. facts \cup worker[v].own \subseteq facts' \cup worker[v].own
      BY <2>1
    <3> QED
      BY <1>4, <3>1, <3>2, TellsMore
  <2>11. ASSUME NEW r \in Runs, runs'[r] # NoRun
         PROVE  Tells(runs'[r].batch, runs'[r].outcomes, r, {f \in facts' : f.run = r}, facts')
    <3>1. CASE r = id
      BY <2>1, <2>5, <2>7, <2>9, <3>1
    <3>2. CASE r # id
      <4>1. runs'[r] = runs[r] /\ {f \in facts' : f.run = r} = StoredBy(r) /\ Exists(r)
        BY <2>7, <2>9, <2>11, <3>2 DEF Exists
      <4>2. Tells(runs[r].batch, runs[r].outcomes, r, StoredBy(r), facts)
        BY <4>1 DEF TellInv
      <4> QED
        <5>1. facts \subseteq facts'
          BY <2>1
        <5>2. Tells(runs[r].batch, runs[r].outcomes, r, StoredBy(r), facts')
          BY <4>2, <5>1, TellsMore
        <5> QED
          BY <4>1, <5>2
    <3> QED
      BY <3>1, <3>2
  <2>12. ASSUME NEW r \in Runs, runs'[r] = NoRun PROVE {f \in facts' : f.run = r} = {}
    BY <2>7, <2>8, <2>9, <2>12 DEF TellInv, Exists, StoredBy
  <2> QED
    BY <2>10, <2>11, <2>12 DEF TellInv, Seen, StoredBy, Exists
<1>9. ASSUME UNCHANGED vars PROVE TellInv'
  BY <1>9 DEF vars, TellInv, Open, Exists, Seen, StoredBy
<1>10. ASSUME NEW w \in Workers, Arrive(w) \/ Proceed(w) \/ Crash(w) PROVE TellInv'
  BY <1>2, <1>3, <1>5, <1>6, <1>7, <1>8, <1>10, StepKinds
<1> QED
  BY <1>9, <1>10 DEF Next

-----------------------------------------------------------------------------
LEMMA AuditInit == Init => AuditInv
<1> SUFFICES ASSUME Init PROVE AuditInv
  OBVIOUS
<1>1. \A w \in Workers : ~Open(w) /\ worker[w].own = {}
  BY IdleType DEF Init, Open
<1>2. Known = Foreign
  BY <1>1 DEF Init, Known
<1>3. \A r \in Runs : ~Exists(r) /\ StoredBy(r) = {}
  BY TableAssumption DEF Init, Exists, StoredBy
<1> QED
  BY <1>1, <1>2, <1>3, TableAssumption, PaymentAssumption DEF AuditInv, RunInv, UniqueInv, TellInv

LEMMA Audited == Spec => [](TypeInv /\ AuditInv)
<1>1. Init => TypeInv /\ AuditInv
  BY TypeInit, AuditInit
<1>2. TypeInv /\ AuditInv /\ [Next]_vars => (TypeInv /\ AuditInv)'
  BY TypeStep, RunStep, UniqueStep, TellStep DEF AuditInv
<1> QED
  BY <1>1, <1>2, PTL DEF Spec

(* A fact is accepted by one row of one run, however batches overlap, repeat *)
(* each other's rows or are retried: _process_rows answers a taken identity  *)
(* with DUPLICATE or FAILED, also when the duplicate is not yet committed.   *)
THEOREM AcceptedByOne == Spec => []AcceptedOnce
<1>1. TypeInv /\ AuditInv => AcceptedOnce
  <2> SUFFICES ASSUME TypeInv, AuditInv,
                      NEW r \in Runs, NEW s \in Runs,
                      NEW i \in AcceptedIn(r), NEW j \in AcceptedIn(s),
                      Identity(runs[r].batch[i]) = Identity(runs[s].batch[j])
               PROVE  r = s /\ i = j
    BY DEF AcceptedOnce
  <2> DEFINE f == [row |-> runs[r].batch[i], run |-> r]
             g == [row |-> runs[s].batch[j], run |-> s]
  <2>1. /\ Exists(r) /\ i \in Accepted(runs[r].outcomes)
        /\ Exists(s) /\ j \in Accepted(runs[s].outcomes)
    BY DEF AcceptedIn, Accepted
  <2>2. f \in StoredBy(r) /\ g \in StoredBy(s)
    BY <2>1 DEF AuditInv, TellInv, Tells, FactsOf
  <2>3. f \in Known /\ g \in Known
    BY <2>2 DEF StoredBy, Known
  <2>4. f.run = r /\ g.run = s /\ Identity(f.row) = Identity(g.row)
    OBVIOUS
  <2> HIDE DEF f, g
  <2>5. f = g
    BY <2>3, <2>4, TableAssumption DEF AuditInv, UniqueInv
  <2>6. r = s
    BY <2>4, <2>5
  <2> QED
    BY <2>1, <2>6 DEF AuditInv, TellInv, Tells
<1> QED
  BY <1>1, Audited, PTL

(* The records of a run tell what its transaction stored, whether it ended   *)
(* in order, failed in the middle or was lost, and a duplicate has its fact. *)
THEOREM AuditsTellFacts == Spec => []AuditTellsFacts
<1>1. TypeInv /\ AuditInv => AuditTellsFacts
  <2> SUFFICES ASSUME TypeInv, AuditInv, NEW r \in Runs
               PROVE  /\ {f.row : f \in StoredBy(r)} = {runs[r].batch[i] : i \in AcceptedIn(r)}
                      /\ Exists(r) => \A i \in DOMAIN runs[r].outcomes :
                           runs[r].outcomes[i] = "DUPLICATE"
                             => HasRecord(runs[r].batch[i], facts)
    BY DEF AuditTellsFacts, StoredBy
  <2>1. CASE Exists(r)
    <3>1. Tells(runs[r].batch, runs[r].outcomes, r, StoredBy(r), facts)
      BY <2>1 DEF AuditInv, TellInv
    <3>2. AcceptedIn(r) = Accepted(runs[r].outcomes)
      BY <2>1 DEF AcceptedIn, Accepted
    <3>3. {f.row : f \in FactsOf(runs[r].batch, runs[r].outcomes, r)}
            = {runs[r].batch[i] : i \in Accepted(runs[r].outcomes)}
      <4> DEFINE batch == runs[r].batch
                 accepted == Accepted(runs[r].outcomes)
                 F == {[row |-> batch[i], run |-> r] : i \in accepted}
      <4>1. FactsOf(batch, runs[r].outcomes, r) = F
        BY DEF FactsOf
      <4> HIDE DEF batch, accepted
      <4>2. ASSUME NEW i \in accepted PROVE \E f \in F : f.row = batch[i]
        <5> DEFINE f == [row |-> batch[i], run |-> r]
        <5>1. f \in F /\ f.row = batch[i]
          OBVIOUS
        <5> QED
          BY <5>1
      <4>3. ASSUME NEW f \in F PROVE \E i \in accepted : f.row = batch[i]
        OBVIOUS
      <4> HIDE DEF F
      <4>4. {f.row : f \in F} = {batch[i] : i \in accepted}
        BY <4>2, <4>3
      <4> QED
        BY <4>1, <4>4 DEF batch, accepted
    <3> QED
      BY <3>1, <3>2, <3>3 DEF Tells
  <2>2. CASE ~Exists(r)
    BY <2>2 DEF AuditInv, TellInv, AcceptedIn
  <2> QED
    BY <2>1, <2>2
<1> QED
  BY <1>1, Audited, PTL

-----------------------------------------------------------------------------
(* What was found and checked at the savepoint stays so.  A parent does not  *)
(* go away, and of the rules only those of a refund look at the parents: its *)
(* payment is one and the same in whatever is stored later.                  *)
Fits(row, known) ==
  /\ \A i \in DOMAIN row.refs : Resolved(row, row.refs[i], known) # {}
  /\ MeetsRules(row, known)

OnePayment(known) ==
  \A f, g \in known :
    f.row.entity = "PAYMENT" /\ Identity(f.row) = Identity(g.row) => f = g

LEMMA ResolvedGrows ==
  ASSUME NEW row, NEW ref, NEW known, NEW more, known \subseteq more
  PROVE  Resolved(row, ref, known) \subseteq Resolved(row, ref, more)
BY DEF Resolved

LEMMA OneParent ==
  ASSUME NEW row \in Rows, row.entity = "REFUND", NEW i \in DOMAIN row.refs,
         NEW known, OnePayment(known),
         NEW p \in Resolved(row, row.refs[i], known),
         NEW q \in Resolved(row, row.refs[i], known)
  PROVE  p = q
<1> DEFINE ref == row.refs[i]
<1>1. ref.entity = "PAYMENT" /\ ScopedByProvider(row, ref)
  BY PaymentAssumption DEF ScopedByProvider
<1>2. /\ p \in known /\ p.row.entity = "PAYMENT" /\ p.row.name = ref.name
      /\ p.row.provider = IF ref.provider = Any THEN row.provider ELSE ref.provider
  BY <1>1 DEF Resolved
<1>3. /\ q \in known /\ q.row.entity = "PAYMENT" /\ q.row.name = ref.name
      /\ q.row.provider = IF ref.provider = Any THEN row.provider ELSE ref.provider
  BY <1>1 DEF Resolved
<1>4. Identity(p.row) = Identity(q.row)
  BY <1>2, <1>3 DEF Identity
<1> QED
  BY <1>2, <1>3, <1>4 DEF OnePayment

LEMMA FitsMore ==
  ASSUME NEW row \in Rows, NEW known, NEW more, known \subseteq more,
         OnePayment(more), Fits(row, known)
  PROVE  Fits(row, more)
<1>1. \A i \in DOMAIN row.refs : Resolved(row, row.refs[i], more) # {}
  BY ResolvedGrows DEF Fits
<1>2. CASE row.entity = "REFUND"
  <2>1. \A p \in Parents(row, known) :
          row.amount <= p.row.amount /\ row.currency = p.row.currency
    BY <1>2 DEF Fits, MeetsRules
  <2>2. ASSUME NEW p \in Parents(row, more) PROVE p \in Parents(row, known)
    <3>1. PICK i \in DOMAIN row.refs : p \in Resolved(row, row.refs[i], more)
      BY DEF Parents
    <3>2. PICK q : q \in Resolved(row, row.refs[i], known)
      BY DEF Fits
    <3>3. q \in Resolved(row, row.refs[i], more)
      BY <3>2, ResolvedGrows
    <3>4. p = q
      BY <1>2, <3>1, <3>3, OneParent
    <3> QED
      BY <3>2, <3>4 DEF Parents
  <2>3. MeetsRules(row, more)
    BY <1>2, <2>1, <2>2 DEF MeetsRules
  <2> QED
    BY <1>1, <2>3 DEF Fits
<1>3. CASE row.entity # "REFUND"
  BY <1>1, <1>3 DEF Fits, MeetsRules
<1> QED
  BY <1>2, <1>3

LEMMA StoresWhatFits ==
  ASSUME NEW row, NEW known, Materialized(row, known) = "stores"
  PROVE  Fits(row, known)
<1>1. Unresolved(row, known) = {} /\ MeetsRules(row, known)
  BY DEF Materialized
<1>2. ASSUME NEW i \in DOMAIN row.refs PROVE Resolved(row, row.refs[i], known) # {}
  BY <1>1, FS_EmptySet DEF Unresolved, Matches
<1> QED
  BY <1>1, <1>2 DEF Fits

WorkerFits(w) ==
  /\ worker[w].pc = "store" => Fits(Row(w), Seen(w))
  /\ \A f \in worker[w].own : Fits(f.row, Seen(w))

FitInv ==
  /\ \A w \in Workers : WorkerFits(w)
  /\ StoredFactsFit

LEMMA RowType ==
  ASSUME TypeInv, NEW w \in Workers
  PROVE  /\ worker[w].pc = "store" => Row(w) \in Rows
         /\ \A f \in worker[w].own : f.row \in Rows
         /\ \A f \in facts : f.run # NoRun => f.row \in Rows
<1>1. worker[w].pc = "store" => Len(worker[w].outcomes) + 1 \in 1 .. Len(worker[w].batch)
  BY WorkerType DEF CarriesItsRun
<1>2. \A f \in Fact : f.row \in Rows
  BY DEF Fact
<1>3. \A f \in facts : f \in Fact \cup Foreign
  BY DEF TypeInv, TypeOK
<1> QED
  BY <1>1, <1>2, <1>3, WorkerType, TableAssumption DEF Row

PaymentsDiffer ==
  OnePayment(facts) /\ \A w \in Workers : OnePayment(Seen(w))

LEMMA SeenIsKnown == UniqueInv => PaymentsDiffer
BY DEF UniqueInv, PaymentsDiffer, OnePayment, Known, Seen

LEMMA SeenIsKnownNext ==
  ASSUME UniqueInv'
  PROVE  OnePayment(facts') /\ \A w \in Workers : OnePayment(Seen(w)')
<1>1. PaymentsDiffer'
  BY SeenIsKnown, PTL
<1> QED
  BY <1>1 DEF PaymentsDiffer, OnePayment

(* Whoever does not move keeps what fits, whatever is committed meanwhile.   *)
LEMMA OthersFit ==
  ASSUME TypeInv, UniqueInv', NEW v \in Workers, WorkerFits(v),
         worker'[v] = worker[v], facts \subseteq facts'
  PROVE  WorkerFits(v)'
<1>1. Seen(v) \subseteq Seen(v)' /\ OnePayment(Seen(v)') /\ Row(v)' = Row(v)
  BY SeenIsKnownNext DEF Seen, Row
<1> QED
  BY <1>1, RowType, FitsMore DEF WorkerFits

LEMMA FitStep == TypeInv /\ UniqueInv' /\ FitInv /\ [Next]_vars => FitInv'
<1> SUFFICES ASSUME TypeInv, UniqueInv', FitInv, [Next]_vars PROVE FitInv'
  OBVIOUS
<1>1. ASSUME NEW w \in Workers, UNCHANGED facts, WorkerFits(w)',
             \A v \in Workers \ {w} : worker'[v] = worker[v]
      PROVE  FitInv'
  BY <1>1, OthersFit DEF FitInv, StoredFactsFit
<1>2. ASSUME NEW w \in Workers, StaysOut(w) PROVE FitInv'
  <2>1. WorkerFits(w)'
    BY <1>2, OutOfWork DEF StaysOut, WorkerFits, Open
  <2> QED
    BY <1>1, <1>2, <2>1, OutOfWork DEF StaysOut
<1>3. ASSUME NEW w \in Workers, NEW r \in Runs, InsertRun(w, r) PROVE FitInv'
  <2>1. WorkerFits(w)'
    BY <1>3, Starts DEF WorkerFits
  <2> QED
    BY <1>1, <1>3, <2>1, Starts DEF InsertRun
<1>4. ASSUME NEW w \in Workers, NEW pc \in {"resolve", "store", "raised"}, Moves(w, pc)
      PROVE  FitInv'
  <2>1. /\ Continues(w) /\ worker'[w].pc = pc
        /\ worker'[w].outcomes = worker[w].outcomes /\ worker'[w].own = worker[w].own
    BY <1>4, MovesOn
  <2>2. Row(w)' = Row(w) /\ Seen(w)' = Seen(w)
    BY <2>1 DEF Continues, Row, Seen
  <2>3. pc = "store" => Fits(Row(w), Seen(w))
    BY <1>4, StoresWhatFits DEF Moves
  <2>4. \A f \in worker[w].own : Fits(f.row, Seen(w))
    BY DEF FitInv, WorkerFits
  <2>5. WorkerFits(w)'
    BY <2>1, <2>2, <2>3, <2>4 DEF WorkerFits
  <2> QED
    BY <1>1, <2>1, <2>5 DEF Continues
<1>5. ASSUME NEW w \in Workers, NEW o \in Outcomes \ {"ACCEPTED"}, RecordsOther(w, o)
      PROVE  FitInv'
  <2>1. Continues(w) /\ worker'[w].pc = "row" /\ worker'[w].own = worker[w].own
    BY <1>5, RecordsOn
  <2>2. Seen(w)' = Seen(w)
    BY <2>1 DEF Continues, Seen
  <2>3. WorkerFits(w)'
    BY <2>1, <2>2 DEF WorkerFits, FitInv
  <2> QED
    BY <1>1, <2>1, <2>3 DEF Continues
<1>6. ASSUME NEW w \in Workers, Store(w) PROVE FitInv'
  <2> DEFINE f == [row |-> Row(w), run |-> worker[w].run]
  <2>1. /\ Continues(w) /\ worker[w].pc = "store" /\ worker'[w].pc = "row"
        /\ worker'[w].own = worker[w].own \cup {f}
    BY <1>6, StoresOn
  <2>2. Seen(w) \subseteq Seen(w)' /\ OnePayment(Seen(w)')
    BY <2>1, SeenIsKnownNext DEF Continues, Seen
  <2>3. \A g \in worker'[w].own : g.row \in Rows /\ Fits(g.row, Seen(w))
    <3>1. f.row = Row(w)
      OBVIOUS
    <3> HIDE DEF f
    <3> QED
      BY <2>1, <3>1, RowType DEF FitInv, WorkerFits
  <2>4. WorkerFits(w)'
    BY <2>1, <2>2, <2>3, FitsMore DEF WorkerFits
  <2> QED
    BY <1>1, <2>1, <2>4 DEF Continues
<1>7. ASSUME NEW w \in Workers, NEW run \in Run, Commits(w, run) PROVE FitInv'
  <2>1. /\ worker'[w].own = {} /\ worker'[w].pc # "store"
        /\ \A v \in Workers \ {w} : worker'[v] = worker[v]
    BY <1>7, OutOfWork DEF Commits, Open
  <2>2. facts' = Seen(w) /\ facts \subseteq facts' /\ OnePayment(facts')
    BY <1>7, SeenIsKnownNext DEF Commits, Seen
  <2>3. \A v \in Workers : WorkerFits(v)'
    BY <2>1, <2>2, OthersFit DEF FitInv, WorkerFits
  <2>4. ASSUME NEW f \in facts', f.run # NoRun PROVE Fits(f.row, facts')
    <3>1. CASE f \in facts
      <4>1. f.row \in Rows /\ Fits(f.row, facts)
        BY <2>4, <3>1, RowType DEF FitInv, StoredFactsFit, Fits
      <4> QED
        BY <2>2, <4>1, FitsMore
    <3>2. CASE f \in worker[w].own
      BY <2>2, <3>2 DEF FitInv, WorkerFits
    <3> QED
      BY <2>4, <3>1, <3>2, <2>2 DEF Seen
  <2> QED
    BY <2>3, <2>4 DEF FitInv, StoredFactsFit, Fits
<1>8. ASSUME UNCHANGED vars PROVE FitInv'
  BY <1>8 DEF vars, FitInv, WorkerFits, StoredFactsFit, Row, Seen
<1>9. ASSUME NEW w \in Workers, Arrive(w) \/ Proceed(w) \/ Crash(w) PROVE FitInv'
  BY <1>2, <1>3, <1>4, <1>5, <1>6, <1>7, <1>9, StepKinds
<1> QED
  BY <1>8, <1>9 DEF Next

(* What ingestion stored has its parents among what is stored and meets the  *)
(* rules against them, at all times: the savepoint checks it (materialize),  *)
(* and no later batch, whatever rows it holds, can undo it.                  *)
THEOREM StoredFactsDoFit == Spec => []StoredFactsFit
<1>1. Init => FitInv
  <2> SUFFICES ASSUME Init PROVE FitInv
    OBVIOUS
  <2>1. \A w \in Workers : worker[w].pc = "idle" /\ worker[w].own = {}
    BY IdleType DEF Init
  <2>2. \A f \in facts : f.run = NoRun
    BY TableAssumption DEF Init
  <2> QED
    BY <2>1, <2>2 DEF FitInv, WorkerFits, StoredFactsFit
<1>2. TypeInv /\ AuditInv => UniqueInv
  BY DEF AuditInv
<1>3. FitInv => StoredFactsFit
  BY DEF FitInv
<1> QED
  BY <1>1, <1>2, <1>3, Audited, TypeInit, TypeStep, FitStep, PTL DEF Spec

-----------------------------------------------------------------------------
(* The ledger of runs.  Only a commit moves it: the run was not there, its   *)
(* fingerprint is new because no committed run has it while one is open      *)
(* (BatchInv), its facts are new because no fact is stored twice (UniqueInv) *)
(* and are its own because they are its accepted rows (TellInv).             *)
Prints == {[run |-> r, key |-> Fingerprint(runs[r].batch)] : r \in {s \in Runs : Exists(s)}}

EntryOf(f) == [run |-> f.run, key |-> Identity(f.row)]

Entries == {EntryOf(f) : f \in {g \in facts : g.run # NoRun}}

LEMMA LedgerFields ==
  ASSUME NEW run, NEW key
  PROVE  [run |-> run, key |-> key].run = run /\ [run |-> run, key |-> key].key = key
OBVIOUS

LEMMA OwnFacts ==
  ASSUME TypeInv, AuditInv, NEW w \in Workers, Open(w), NEW f \in worker[w].own
  PROVE  f.run = worker[w].run /\ f.run # NoRun
<1>1. f \in FactsOf(worker[w].batch, worker[w].outcomes, worker[w].run)
  BY DEF AuditInv, TellInv, Tells
<1>2. f.run = worker[w].run
  BY <1>1 DEF FactsOf
<1> QED
  BY <1>2, WorkerType, TableAssumption DEF CarriesItsRun

LEMMA CommitPosts ==
  ASSUME TypeInv, AuditInv, BatchInv, NEW w \in Workers, NEW run \in Run, Commits(w, run),
         NEW r \in Runs, r = worker[w].run
  PROVE  Ledger!Post(r)
<1> DEFINE p == [run |-> r, key |-> Fingerprint(worker[w].batch)]
<1>1. /\ Open(w) /\ ~Exists(r) /\ DOMAIN runs = Runs
      /\ runs' = [runs EXCEPT ![r] = run] /\ run.batch = worker[w].batch /\ run # NoRun
      /\ facts' = facts \cup worker[w].own
  BY WorkerType, TableAssumption
     DEF Commits, AuditInv, RunInv, CarriesItsRun, TypeInv, TypeOK
<1>2. runs'[r] = run /\ \A s \in Runs \ {r} : runs'[s] = runs[s]
  BY <1>1
<1>3. Prints' = Prints \cup {p}
  <2>1. {s \in Runs : Exists(s)'} = {s \in Runs : Exists(s)} \cup {r}
    BY <1>1, <1>2 DEF Exists
  <2>2. \A s \in {t \in Runs : Exists(t)} : runs'[s] = runs[s]
    BY <1>1, <1>2 DEF Exists
  <2> QED
    BY <1>1, <1>2, <2>1, <2>2 DEF Prints
<1>4. p.run = r /\ \A d \in Prints : d.key # p.key
  BY <1>1 DEF Prints, BatchInv
<1>5. Entries' = Entries \cup {EntryOf(f) : f \in worker[w].own}
  <2>1. \A f \in worker[w].own : f.run # NoRun
    BY <1>1, OwnFacts
  <2> QED
    BY <1>1, <2>1 DEF Entries
<1>6. ASSUME NEW e \in {EntryOf(f) : f \in worker[w].own}, e \notin Entries
      PROVE  e.run = r /\ \A d \in Entries : d.key # e.key
  <2>1. PICK f \in worker[w].own : e = EntryOf(f)
    BY <1>6
  <2>2. f.run = r /\ f.run # NoRun /\ f \in Known
    BY <1>1, OwnFacts DEF Known
  <2>3. ASSUME NEW d \in Entries, d.key = e.key PROVE FALSE
    <3>1. PICK g \in facts : g.run # NoRun /\ d = EntryOf(g)
      BY DEF Entries
    <3>2. Identity(g.row) = Identity(f.row)
      BY <2>1, <2>3, <3>1 DEF EntryOf
    <3>3. g = f
      BY <2>2, <3>1, <3>2 DEF AuditInv, UniqueInv, Known
    <3> QED
      BY <1>6, <2>1, <3>1, <3>3
  <2> QED
    BY <2>1, <2>2, <2>3 DEF EntryOf
<1>7. p \in Prints' \ Prints /\ Prints' \ Prints = {p} /\ Ledger!IsNew(p, r, Prints)
  <2>1. p \notin Prints
    BY <1>4
  <2> QED
    BY <1>3, <1>4, <2>1 DEF Ledger!IsNew
<1>8. \A e \in Entries' \ Entries : Ledger!IsNew(e, r, Entries)
  BY <1>5, <1>6 DEF Ledger!IsNew
<1>9. Prints \subseteq Prints' /\ Entries \subseteq Entries'
  BY <1>3, <1>5
<1> HIDE DEF p
<1> QED
  BY <1>1, <1>2, <1>7, <1>8, <1>9 DEF Ledger!Post, Prints, Entries, EntryOf, Exists

(* Every step of a worker posts one whole run or leaves the ledger alone.    *)
THEOREM RunLedgerIsImplemented == Spec => ImplementsRunLedger
<1>1. Init => Ledger!Init
  BY TableAssumption DEF Init, Ledger!Init, Exists
<1>2. TypeInv /\ AuditInv /\ BatchInv /\ [Next]_vars => [Ledger!Next]_Ledger!vars
  <2> SUFFICES ASSUME TypeInv, AuditInv, BatchInv, [Next]_vars
               PROVE  [Ledger!Next]_Ledger!vars
    OBVIOUS
  <2>1. ASSUME UNCHANGED <<runs, facts>> PROVE UNCHANGED Ledger!vars
    BY <2>1 DEF Ledger!vars, Exists
  <2>2. ASSUME NEW w \in Workers, NEW run \in Run, Commits(w, run) PROVE Ledger!Next
    <3>1. PICK r \in Runs : r = worker[w].run
      BY <2>2, WorkerType DEF Commits, CarriesItsRun
    <3> QED
      BY <2>2, <3>1, CommitPosts DEF Ledger!Next
  <2>3. ASSUME NEW w \in Workers, Arrive(w) \/ Proceed(w) \/ Crash(w)
        PROVE  UNCHANGED <<runs, facts>> \/ \E run \in Run : Commits(w, run)
    BY <2>3, StepKinds DEF StaysOut, InsertRun, Moves, RecordsOther, Store
  <2> QED
    BY <2>1, <2>2, <2>3 DEF Next, vars
<1>3. Init => BatchInv
  BY IdleType DEF Init, BatchInv, OneRunPerBatch, Open, Exists
<1> QED
  BY <1>1, <1>2, <1>3, TypeInit, TypeStep, BatchStep, Audited, PTL
     DEF Spec, ImplementsRunLedger, Ledger!Spec
=============================================================================
