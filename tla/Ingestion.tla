------------------------------ MODULE Ingestion ------------------------------
(***************************************************************************)
(* services/ingestion/batch: one batch of source rows is one run and one   *)
(* transaction.  Each row gets an audit record with its outcome, and what  *)
(* is accepted becomes a fact of the financial domain inside a savepoint.  *)
(*                                                                         *)
(* A worker is one POST /ingestion/runs or /ingestion/runs/{id}/retry in   *)
(* flight.  What it has flushed is in its record and visible to itself     *)
(* only; a UNIQUE constraint makes an INSERT wait for an uncommitted       *)
(* duplicate of another transaction.                                       *)
(***************************************************************************)
EXTENDS SourceRow

CONSTANTS
  Runs,     \* ids of ingestion_runs rows
  Batches,  \* the batches that clients submit: sequences of source rows
  Foreign,  \* facts that other code stored, without an ingestion record
  Workers,  \* submissions and retries in flight
  NoRun,    \* no such run, or no run at all
  Mortal    \* the workers that may die between two of their steps

ASSUME MortalAssumption == Mortal \subseteq Workers

VARIABLES
  runs,    \* the ingestion_runs table, each row with its audit records
  facts,   \* the tables of the financial domain, with the run of each row
  worker   \* what each worker is doing

vars == <<runs, facts, worker>>

-----------------------------------------------------------------------------
Outcomes == {"ACCEPTED", "DUPLICATE", "REJECTED", "FAILED"}
Statuses == {"COMPLETED", "COMPLETED_WITH_ERRORS", "FAILED"}
Exists(r) == runs[r] # NoRun

Rows == UNION {{batch[i] : i \in DOMAIN batch} : batch \in Batches}

Run == [batch : Seq(Rows), outcomes : Seq(Outcomes), status : Statuses,
        counter : [Outcomes -> Nat]]

ASSUME TableAssumption ==
  /\ Batches \subseteq Seq(Rows)
  /\ NoRun \notin Runs /\ NoRun \notin Run
  /\ \A f \in Foreign : f.run = NoRun

(* A refund names its payment and nothing else, and the UNIQUE (provider,    *)
(* external_id) of the payments holds for those of other code too.           *)
ASSUME PaymentAssumption ==
  /\ \A row \in Rows : row.entity = "REFUND"
       => \A i \in DOMAIN row.refs : row.refs[i].entity = "PAYMENT"
  /\ \A f, g \in Foreign :
       f.row.entity = "PAYMENT" /\ Identity(f.row) = Identity(g.row) => f = g

Fact == [row : Rows, run : Runs]

Activity == [pc : {"idle", "insert", "row", "resolve", "store", "raised",
                   "answer"},
             batch    : Seq(Rows),
             origin   : Runs \cup {NoRun},
             run      : Runs \cup {NoRun},
             outcomes : Seq(Outcomes),
             own      : SUBSET Fact]

TypeOK ==
  /\ runs \in [Runs -> Run \cup {NoRun}]
  /\ \A f \in facts : f \in Fact \cup Foreign
  /\ worker \in [Workers -> Activity]

-----------------------------------------------------------------------------
Idle == [pc |-> "idle", batch |-> << >>, origin |-> NoRun, run |-> NoRun,
         outcomes |-> << >>, own |-> {}]

Init ==
  /\ runs = [r \in Runs |-> NoRun]
  /\ facts = Foreign
  /\ worker = [w \in Workers |-> Idle]

(* The batch fingerprint: the valid rows, in any order, as they are spelled. *)
Fingerprint(batch) ==
  LET valid == {i \in DOMAIN batch : Valid(batch[i])} IN
  [row \in {batch[i] : i \in valid} |->
     Cardinality({i \in valid : batch[i] = row})]

Uncommitted(r) == {w \in Workers : worker[w].run = r /\ worker[w].pc # "answer"}

Fresh(r) == ~Exists(r) /\ Uncommitted(r) = {}

(* The rows of a run that its retry takes up, in their order.                *)
FailedRows(run) ==
  LET failed == {i \in DOMAIN run.outcomes : run.outcomes[i] = "FAILED"}
      Nth(n) == CHOOSE i \in failed :
                  Cardinality({j \in failed : j <= i}) = n
  IN [n \in 1 .. Cardinality(failed) |-> run.batch[Nth(n)]]

Begin(w, batch, origin) ==
  /\ worker[w].pc = "idle"
  /\ worker' = [worker EXCEPT ![w] =
       [Idle EXCEPT !.pc = "insert", !.batch = batch, !.origin = origin]]
  /\ UNCHANGED <<runs, facts>>

Submit(w, batch) == Begin(w, batch, NoRun)

(* retry_run: without a failed row there is nothing to retry.                *)
Retry(w, r) ==
  /\ Exists(r)
  /\ FailedRows(runs[r]) # << >>
  /\ Begin(w, FailedRows(runs[r]), r)

-----------------------------------------------------------------------------
(* create_run.  The INSERT of the run meets the UNIQUE batch_fingerprint.    *)
SameBatch(w, v) ==
  Fingerprint(worker[w].batch) = Fingerprint(worker[v].batch)

ExistingRuns(batch) ==
  {r \in Runs : Exists(r) /\ Fingerprint(runs[r].batch) = Fingerprint(batch)}

(* Fault: batch_fingerprint is not UNIQUE.                                   *)
BatchIsNew_NoConstraint(w) == TRUE

BatchIsNew(w) ==
  /\ ExistingRuns(worker[w].batch) = {}
  /\ \A v \in Workers : worker[v].run # NoRun /\ worker[v].pc # "answer"
       => ~SameBatch(w, v)

InsertRun(w, r) ==
  /\ worker[w].pc = "insert"
  /\ BatchIsNew(w)
  /\ Fresh(r)
  /\ worker' = [worker EXCEPT ![w].pc = "row", ![w].run = r]
  /\ UNCHANGED <<runs, facts>>

(* The batch has a run already: rolled back and answered with that run.      *)
InsertConflict(w) ==
  /\ worker[w].pc = "insert"
  /\ \E r \in ExistingRuns(worker[w].batch) :
       worker' = [worker EXCEPT ![w].pc = "answer", ![w].run = r]
  /\ UNCHANGED <<runs, facts>>

-----------------------------------------------------------------------------
(* _process_rows, for the row at hand.                                       *)
Row(w) == worker[w].batch[Len(worker[w].outcomes) + 1]

RowAt(w, pc) ==
  worker[w].pc = pc /\ Len(worker[w].outcomes) < Len(worker[w].batch)

Record(w, outcome) ==
  worker' = [worker EXCEPT ![w].pc = "row",
                           ![w].outcomes = Append(@, outcome)]

(* Fault: what other transactions have not committed is seen too.            *)
Seen_Dirty(w) == facts \cup UNION {worker[v].own : v \in Workers}

(* What a statement of this transaction sees.                                *)
Seen(w) == facts \cup worker[w].own

HasRecord(row, known) ==
  \E f \in known : f.run # NoRun /\ Identity(f.row) = Identity(row)

RejectInvalid(w) ==
  /\ RowAt(w, "row")
  /\ ~Valid(Row(w))
  /\ Record(w, "REJECTED")
  /\ UNCHANGED <<runs, facts>>

SkipDuplicate(w) ==
  /\ RowAt(w, "row")
  /\ Valid(Row(w))
  /\ HasRecord(Row(w), Seen(w))
  /\ Record(w, "DUPLICATE")
  /\ UNCHANGED <<runs, facts>>

PassChecks(w) ==
  /\ RowAt(w, "row")
  /\ Valid(Row(w))
  /\ ~HasRecord(Row(w), Seen(w))
  /\ worker' = [worker EXCEPT ![w].pc = "resolve"]
  /\ UNCHANGED <<runs, facts>>

(* The savepoint: the references first ...                                   *)
Resolve(w) ==
  LET verdict == Materialized(Row(w), Seen(w)) IN
  /\ RowAt(w, "resolve")
  /\ CASE verdict = "REJECTED" -> Record(w, "REJECTED")
       [] verdict = "raises"   -> worker' = [worker EXCEPT ![w].pc = "raised"]
       [] verdict = "stores"   -> worker' = [worker EXCEPT ![w].pc = "store"]
  /\ UNCHANGED <<runs, facts>>

(* ... then the INSERT.  The UNIQUE identity is taken, by a committed fact   *)
(* or one of this run, or held by a transaction that is still open.          *)
Taken(w) == \E f \in Seen(w) : Identity(f.row) = Identity(Row(w))

Holders(w) ==
  {v \in Workers \ {w} :
     \E f \in worker[v].own : Identity(f.row) = Identity(Row(w))}

(* Fault: the identity of a fact is not UNIQUE.                              *)
MayStore_NoConstraint(w) == TRUE

MayStore(w) == ~Taken(w) /\ Holders(w) = {}

(* Fault: the end of the savepoint commits the fact.                         *)
Store_Commits(w) ==
  LET fact == [row |-> Row(w), run |-> worker[w].run] IN
  /\ RowAt(w, "store")
  /\ ~Overflows(Row(w))
  /\ ~LacksColumn(Row(w))
  /\ MayStore(w)
  /\ worker' = [worker EXCEPT
       ![w].pc = "row",
       ![w].outcomes = Append(@, "ACCEPTED"),
       ![w].own = @ \cup {fact}]
  /\ facts' = facts \cup {fact}
  /\ UNCHANGED runs

Store(w) ==
  /\ RowAt(w, "store")
  /\ ~Overflows(Row(w))
  /\ ~LacksColumn(Row(w))
  /\ MayStore(w)
  /\ worker' = [worker EXCEPT
       ![w].pc = "row",
       ![w].outcomes = Append(@, "ACCEPTED"),
       ![w].own = @ \cup {[row |-> Row(w), run |-> worker[w].run]}]
  /\ UNCHANGED <<runs, facts>>

(* An IntegrityError undoes the savepoint; the row is a duplicate if the     *)
(* fact has an ingestion record by now.                                      *)
Conflicting(w) == IF HasRecord(Row(w), Seen(w)) THEN "DUPLICATE" ELSE "FAILED"

StoreConflict(w) ==
  /\ RowAt(w, "store")
  /\ ~Overflows(Row(w))
  /\ LacksColumn(Row(w)) \/ Taken(w)
  /\ Record(w, Conflicting(w))
  /\ UNCHANGED <<runs, facts>>

(* Fault: two transactions wait for each other and nobody ends it.           *)
Deadlocked_Unnoticed(w) == FALSE

Deadlocked(w) ==
  \E v \in Holders(w) : RowAt(v, "store") /\ w \in Holders(v)

(* Any other error leaves the loop: a value out of range, or the database    *)
(* ends the wait of two transactions for each other.                         *)
StoreRaises(w) ==
  /\ RowAt(w, "store")
  /\ Overflows(Row(w)) \/ Deadlocked(w)
  /\ worker' = [worker EXCEPT ![w].pc = "raised"]
  /\ UNCHANGED <<runs, facts>>

-----------------------------------------------------------------------------
(* The run, its records and its facts are committed together.                *)
CountOf(outcomes, o) == Cardinality({i \in DOMAIN outcomes : outcomes[i] = o})

CountersOf(outcomes) == [o \in Outcomes |-> CountOf(outcomes, o)]

StatusOf(counter) ==
  IF counter["REJECTED"] + counter["FAILED"] = 0 THEN "COMPLETED"
  ELSE "COMPLETED_WITH_ERRORS"

CommitRun(w, outcomes, status, counter) ==
  /\ runs' = [runs EXCEPT ![worker[w].run] =
       [batch |-> worker[w].batch, outcomes |-> outcomes,
        status |-> status, counter |-> counter]]
  /\ facts' = facts \cup worker[w].own

Finish(w) ==
  LET counter == CountersOf(worker[w].outcomes) IN
  /\ worker[w].pc = "row"
  /\ Len(worker[w].outcomes) = Len(worker[w].batch)
  /\ CommitRun(w, worker[w].outcomes, StatusOf(counter), counter)
  /\ worker' = [worker EXCEPT ![w].pc = "answer", ![w].own = {}]

(* Fault: the facts of a failed run are dropped, its records are not.        *)
FailRun_DropsFacts(w) ==
  LET outcomes == Append(worker[w].outcomes, "FAILED") IN
  /\ worker[w].pc = "raised"
  /\ runs' = [runs EXCEPT ![worker[w].run] =
       [batch |-> worker[w].batch, outcomes |-> outcomes,
        status |-> "FAILED", counter |-> CountersOf(outcomes)]]
  /\ worker' = [worker EXCEPT ![w] = Idle]
  /\ UNCHANGED facts

(* The handler of create_run: what was accepted before the row that failed   *)
(* is kept, that row stays FAILED, the rows after it get no record, and of   *)
(* the counters only the failed rows are written.  Then the error goes on.   *)
FailRun(w) ==
  LET outcomes == Append(worker[w].outcomes, "FAILED") IN
  /\ worker[w].pc = "raised"
  /\ CommitRun(w, outcomes, "FAILED",
       [o \in Outcomes |-> IF o = "FAILED" THEN CountOf(outcomes, o) ELSE 0])
  /\ worker' = [worker EXCEPT ![w] = Idle]

Answer(w) ==
  /\ worker[w].pc = "answer"
  /\ worker' = [worker EXCEPT ![w] = Idle]
  /\ UNCHANGED <<runs, facts>>

(* The process ends, or a statement outside the savepoint fails: the whole   *)
(* transaction is rolled back.                                               *)
Crash(w) ==
  /\ w \in Mortal
  /\ worker[w].pc # "idle"
  /\ worker' = [worker EXCEPT ![w] = Idle]
  /\ UNCHANGED <<runs, facts>>

-----------------------------------------------------------------------------
(* Bound: as many submissions as there are run ids left.                     *)
RunsLeft ==
  Cardinality({r \in Runs : Exists(r)})
    + Cardinality({w \in Workers : worker[w].pc \notin {"idle", "answer"}})
    < Cardinality(Runs)

Arrive(w) ==
  /\ RunsLeft
  /\ \/ \E batch \in Batches : Submit(w, batch)
     \/ \E r \in Runs : Retry(w, r)

Proceed(w) ==
  \/ \E r \in Runs : InsertRun(w, r)
  \/ InsertConflict(w)
  \/ RejectInvalid(w)
  \/ SkipDuplicate(w)
  \/ PassChecks(w)
  \/ Resolve(w)
  \/ Store(w)
  \/ StoreConflict(w)
  \/ StoreRaises(w)
  \/ Finish(w)
  \/ FailRun(w)
  \/ Answer(w)

Next == \E w \in Workers : Arrive(w) \/ Proceed(w) \/ Crash(w)

Spec == Init /\ [][Next]_vars

(* The event loop resumes a worker whose statement has completed.  A waiting *)
(* INSERT is queued for the transaction it waits for and goes on when that   *)
(* ends, so that newcomers do not overtake it for ever.                      *)
FairSpec ==
  /\ Spec
  /\ \A w \in Workers :
       /\ WF_vars(Proceed(w))
       /\ SF_vars(\E r \in Runs : InsertRun(w, r))
       /\ SF_vars(Store(w))

-----------------------------------------------------------------------------
(* The same logical batch never has two runs, one of them still open or not. *)
OneRunPerBatch ==
  /\ \A r, s \in Runs :
       Exists(r) /\ Exists(s)
         /\ Fingerprint(runs[r].batch) = Fingerprint(runs[s].batch) => r = s
  /\ \A v, w \in Workers :
       /\ worker[v].pc \in {"row", "resolve", "store", "raised"}
       /\ worker[w].pc \in {"row", "resolve", "store", "raised"}
       /\ SameBatch(v, w)
       => v = w

AcceptedIn(r) ==
  IF Exists(r)
  THEN {i \in DOMAIN runs[r].outcomes : runs[r].outcomes[i] = "ACCEPTED"}
  ELSE {}

(* A source fact is accepted once, by one row of one run, whatever is        *)
(* submitted again, retried or submitted at the same time.                   *)
AcceptedOnce ==
  \A r, s \in Runs : \A i \in AcceptedIn(r), j \in AcceptedIn(s) :
    Identity(runs[r].batch[i]) = Identity(runs[s].batch[j])
      => r = s /\ i = j

(* The audit records tell what is in the domain tables: the facts of a run   *)
(* are its accepted rows, whether the run completed, failed or got lost, and *)
(* a duplicate is a row whose fact some run has stored.                      *)
AuditTellsFacts ==
  \A r \in Runs :
    /\ {f.row : f \in {g \in facts : g.run = r}}
         = {runs[r].batch[i] : i \in AcceptedIn(r)}
    /\ Exists(r) => \A i \in DOMAIN runs[r].outcomes :
         runs[r].outcomes[i] = "DUPLICATE" => HasRecord(runs[r].batch[i], facts)

(* Every fact that ingestion stored refers to facts that are stored, and     *)
(* meets the rules of its type against them, whatever is stored after it.    *)
StoredFactsFit ==
  \A f \in facts : f.run # NoRun =>
    /\ \A i \in DOMAIN f.row.refs :
         Resolved(f.row, f.row.refs[i], facts) # {}
    /\ MeetsRules(f.row, facts)

(* The ledger, read off the tables.  Its keys are the fingerprints of the    *)
(* runs and the identities of the facts that have a run.                     *)
Ledger == INSTANCE RunLedger WITH
  prints  <- {[run |-> r, key |-> Fingerprint(runs[r].batch)] :
                r \in {s \in Runs : Exists(s)}},
  entries <- {[run |-> f.run, key |-> Identity(f.row)] :
                f \in {g \in facts : g.run # NoRun}}

(* Workers keep a ledger of runs: nothing of a run can be seen before all of *)
(* it, a committed run and its facts stay as they are whatever is retried,   *)
(* and none repeats the batch or a fact of another.                          *)
ImplementsRunLedger == Ledger!Spec

(* Whoever submits or retries a batch gets an answer, an error or dies: two  *)
(* batches that want each other's facts do not wait for ever.                *)
SubmissionIsAnswered ==
  \A w \in Workers : worker[w].pc = "insert" ~> worker[w].pc \in {"idle", "answer"}

(* "Reprocess the FAILED rows of a run as a NEW run": the run that a retry   *)
(* answers is not the run that it retries.                                   *)
RetryIsNewRun ==
  \A w \in Workers :
    worker[w].pc = "answer" /\ worker[w].origin # NoRun
      => worker[w].run # worker[w].origin
=============================================================================
