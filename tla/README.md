# Verification of the Financial AI Operator backend

TLA+ models of the services under `services/` of this repository, TLC runs that
check them on small instances, and proofs, checked by TLAPS, of the safety
properties that hold, for every size. Paths below are relative to the repository's
root; the models are in this directory.

- [1 The system](#1-the-system): components, state, operations, interaction, hard behaviours
- [2 The modules](#2-the-modules): how they correspond to the code
- [3 The runs](#3-the-runs): what each shows, with which bounds
- [4 Fairness](#4-fairness)
- [5 The proofs](#5-the-proofs)
- [6 Where code and documentation disagree](#6-where-code-and-documentation-disagree)
- [7 What is not modelled](#7-what-is-not-modelled)
- [8 Plan](#8-plan)

## 1 The system

A FastAPI backend over one PostgreSQL database. Payments, settlements and bank
transactions are ingested and matched; what does not match is a *discrepancy*.
A language model investigates it, a policy engine decides which action is
allowed, a human approves the action, an adapter executes it, and a financial
period is closed when nothing is open any more.

**How it runs.** One event loop serves all HTTP requests. A request has one
`AsyncSession` (`database/connection.py:29-38`), which is closed without a commit
when the handler ends, however it ends. Control changes hands at every `await`,
so at every query and commit. Isolation is READ COMMITTED. Nothing runs in the
background: no worker, no queue, no recovery at start-up. A request whose
process dies is never taken up again.

**How the parts interact.** By shared tables only. A handler reads rows another
component wrote, and no component calls another one's handler, except that
services add security events and notifications to the session of the caller.

| Component | State | Operations | What makes it correct |
|---|---|---|---|
| Ingestion (`services/ingestion/`) | runs with a batch fingerprint, row audits, facts | submit a batch, retry failed rows | one run for a batch; a fact is accepted once; records and facts agree; stored facts have their parents |
| Reconciliation (`services/reconciliation/`) | relationships, discrepancies | run both matchers | a run explains all it loaded; what is stored is not stored again |
| Investigation (`services/investigation/`) | investigation with its active attempt, attempts | run, approve, reject | status and active attempt agree; COMPLETED only on a validated answer |
| Policy engine (`services/policy/`) | evaluations | evaluate | deterministic; one stored decision per action |
| Action requests (`services/action_request/`) | requests, audit rows | create from an evaluation, approve, reject, cancel | decisions are audited, announced, and stay |
| Action execution (`services/action_execution/`) | executions, attempts; the outside world | execute | a key has one effect; a request has one effect; what was done is recorded |
| Exception view (`services/exceptions.py`) | none, it reads the above | list, detail | display and filter agree; a page for each exception |
| Period close (`services/period.py`) | periods, evaluations | create, evaluate, close | closed once, by someone, on a recorded evaluation, when nothing blocks |
| Accounts (`services/admin/`, `services/auth/`, `apps/api/auth.py`) | users, roles, credential versions, revocations, two process locks | sign up, log in and out, activate, change roles, change and reset passwords | an ADMIN remains; old tokens are refused; a reset binds |
| Transactions workspace (`services/transactions/`) | none, it reads facts, relationships, discrepancies | list, detail, lineage | a walk misses nothing that was there; filter, list and detail agree |
| Reporting (`services/reporting.py`) | none | reports | the figures of one report add up |
| Security events, notifications | rows | written by the others | committed with what they tell of |
| MFA (`services/mfa/`) | factors, challenges, recovery codes | enrol, verify | not modelled |
| Web frontend | none in the database | a client of the API | asks for the pages it needs |

**Hard behaviours.** In the order of what can go wrong with money:

- *Check, await, act.* Nearly every guard is a SELECT, and the write that it
  guards is a later statement. Where a UNIQUE constraint or a row lock stands
  behind the guard (`policy_evaluation_id`, `idempotency_key`, `batch_fingerprint`,
  the identity of a fact, the pair of a relationship, the period row) the loser must
  be handled; where none does (decisions of a request, executions of a request
  under different keys, policy evaluations, discrepancies) two handlers get past it.
- *Several commits for one operation.* A decision takes three, an execution
  three and an outside call. A handler that dies leaves a prefix.
- *A call to the outside* between two commits: it has happened or not when the
  process dies, and it may raise after acting.
- *A transaction that stays open* while a language model answers, or while a batch
  or a matcher goes on row by row, holding uncommitted rows that others wait for:
  queues, and deadlocks that only the database ends.
- *ORM semantics*: an UPDATE of the changed columns only, keyed by primary key
  alone; objects expire on rollback, and otherwise are as old as their first load.
- *Several statements for one answer* in READ COMMITTED: counts, pages, decorations
  and figures each have a snapshot of their own.

`PROJECT.json` lists these hazards with their lines and the properties aimed at them.

## 2 The modules

| Module | Models | Composes |
|---|---|---|
| `ActionRequest` | `services/action_request/service.py`, `state_machine.py` | |
| `ActionExecution` | `services/action_execution/service.py`, the adapter | |
| `ExecutionLedger` | abstract: what executing under idempotency keys promises | implemented by `ActionExecution` |
| `PolicyEngine` | `services/policy/engine.py` | |
| `Governance` | the three services on one database | `PolicyEngine`, `ActionRequest`, `ActionExecution` |
| `ExceptionView` | `services/exceptions.py` as operators over the tables | extends `Governance` |
| `InvestigationTables` | `database/models/investigation.py`: the tables and what must hold of them | |
| `Investigation` | `services/investigation/agent.py`, the provider, the routes | extends `InvestigationTables` |
| `PeriodClose` | `services/period.py` and its routes | |
| `SourceRow` | `services/ingestion/validation.py`, `materialize.py`, the domain rules of `base.py`: operators on rows and facts | |
| `RunLedger` | abstract: what ingestion promises of its runs | implemented by `Ingestion` |
| `Ingestion` | `services/ingestion/batch.py` and its routes | extends `SourceRow` |
| `Reconciliation` | `services/reconciliation/engine.py`, both matchers, the route | |
| `Accounts` | `services/admin/user_management.py`, `services/auth/`, `apps/api/auth.py`, the routes | |
| `Workspace` | `services/transactions/workspace.py`, the reconciliation report of `services/reporting.py`, the paging of `apps/web/app/transactions/page.tsx` | |
| `MC...` | instances and symmetries for TLC | |
| `...Proofs` | theorems: of `ActionRequest`, `ActionExecution`, `Governance` with `ExceptionView`, `Reconciliation` and `Investigation` (together in `DiscrepancyProofs`), `PeriodClose`, `Ingestion`, `Accounts`, `Workspace` | |

Conventions, the same in every module:

- A **table** is a function from ids to rows or `NoRow`, or a set of rows where
  nothing is ever changed or looked up by id. Ids are model values, so that a bound
  on ids is the bound on rows.
- A **request in flight** (handler, executor, runner, closer, worker, reader) is a
  record: `pc` is the await at which it stands, the other fields are the local
  variables that it still uses. One action stands for the code between two awaits
  that matter; reads that nothing depends on later are folded into the next step.
- An **early return or a refusal** that changes nothing is no step: the guard of
  the action is the negation of the refusal's condition.
- **`Mortal`** is the set of requests that may die. `Crash` (`Fail` in `Accounts`) puts
  such a request back to idle; whatever its session had not committed is lost with its
  record. Immortal ones make liveness claims possible in the presence of mortal ones.
- A **transaction that stays open** keeps what it has flushed in the record of its
  request, where UNIQUE checks of others find it and their reads do not.
- **History** that no code reads is marked as such where it is declared: `epoch` and `lag`
  (`Accounts`), `known` and `kept` (`Reconciliation`), `asked`, `shown`, `late` and `sources`
  (`Workspace`).
- Operators that begin with a fault comment (`(* Fault: ... *)`) are not part of
  the model. Each is a defective variant of the definition after it, and the
  corresponding property fails when it takes that definition's place.

### ActionRequest

`create_from_evaluation` is `StartCreate` (evaluation loaded, no request found),
then `InsertRequest` or `InsertConflict`, decided by the UNIQUE constraint, then
`AnnounceCreated` in a second commit or `ResolveConflict`, which reads the
winner's row. A decision is `LoadRequest` (`_transition_state` up to the state
machine), `CommitTransition` (status and audit row), `RecordVerdict`
(`approved_by` or `rejection_reason`) and `AnnounceVerdict`, three commits. A
handler stands for a user of its own, so that `approvedBy` can be compared with
the actor of the audit row.

### ActionExecution and ExecutionLedger

`execute_action_request`, numbered as in the source: `Authorize` (the request is
APPROVED; the key is the client's or `exec_<id>`), the guard (`GuardReturns`,
`GuardRefuses`, `GuardPasses`), the claim (`Claim`, `ClaimConflict`,
`ResolveConflict`), `Start`, the adapter (`AdapterReports`, `AdapterRaises`), then
`Settle`, `Recover` or `RecoverFails`, and `Finish`. `calls` counts what the
adapter was asked to do per key: it is outside the database and no crash undoes
it. Security events are in `pending` while they are only added to the session and
in `events` once committed. `Recover` and `RecoverFails` are both possible: the
handler reads an attribute of an object that its rollback has expired, which
raises unless the object happens to be loaded. `requestStatus` is read only; its
initial value is arbitrary in `ActionExecution`, and in `Governance` it is what
`ActionRequest` has in its table.

`ExecutionLedger` knows of a key only which request owns it, how often it was
called, and its outcome: `Claim` once, `Call` at most once and only when owned,
`Settle` at most once and only after a call. `ActionExecution` implements it with
owner and outcome read off the row that holds the key (`ImplementsLedger`).

### PolicyEngine, Governance, ExceptionView

`Decision` is the rule table. `Check` finds no stored evaluation that is the newest of
its action and has today's decision; `Insert` commits a row. `Governance` instantiates
the three services with `evaluations` and `requestStatus` substituted by what the
others' tables hold; a step belongs to one service. `ExceptionView` derives, for each
row of the outer join of the list, the state that Python shows (`OverallState`) and
the state that the SQL `CASE` filters by (`SqlState`).

### Investigation

A run is `LoadInvestigation` or `FindNone`, `InsertInvestigation` (waits while
another transaction holds a duplicate) or `InsertRefused` (nobody catches the
IntegrityError), `StartAttempt`, `Answered`, `CommitRun`, `NotifyOutcome`. Nothing
is in the tables before `CommitRun`, but an uncommitted insert is seen by the
UNIQUE check of others (`HeldByOther`). `StatusWritten` models the ORM's rule to
write only the columns that differ from the loaded ones. Approval is
`ReadForApproval` and `Propose`, which hands `RESOLVE_DISCREPANCY` to the policy engine.

### PeriodClose

A close is `RequestClose`, `LockPeriod` (`SELECT ... FOR UPDATE`, which waits) or
`LockRefused`, one `ReadControl` for each of the seven counting queries, then
`ClosePeriod` or `RefuseBlocked`. An evaluation reads without a lock;
`RecordEvaluation` waits for the row lock, because the INSERT refers to the period.
The other components are `Arises` and `Clears`: a control starts or stops to find
something. Two controls never clear (`Sticky`: no code writes the status RECONCILED,
none settles an UNKNOWN execution), one is never found (`NeverFound`: PENDING
investigations exist inside transactions only). `Racing` is the set of controls that
others may change during a reading.

### SourceRow and Ingestion

`SourceRow` keeps of a row what the rules tell apart: identity, absent and malformed
fields, references, amounts. `Valid` is `normalize_row`; `Materialized` is the verdict of
a materializer: the first reference that does not lead to exactly one row decides, by a
rejection when it leads nowhere and an exception when it is ambiguous, then the rules do.

A worker of `Ingestion` is one submission or retry, one transaction. `InsertRun` waits
while an open transaction has the same fingerprint, `InsertConflict` answers the run that
is there. For each row: `RejectInvalid`, `SkipDuplicate`, or `PassChecks`, then, inside
the savepoint, `Resolve` and `Store`, `StoreConflict` (IntegrityError: undone, classified
by reading again) or `StoreRaises` (any other error leaves the loop). `Finish` commits the
run with its records and counters, `FailRun` commits what was accepted before the row that
raised. Errors outside the savepoint lose the run; that is `Crash`. `spelling` in a row
stands for the ways to write one amount, which the fingerprint tells apart.

`RunLedger` knows only what is committed: `Post` adds one run with its records and facts, whose
fingerprint and identities nobody has posted before; nothing else happens, and nothing posted changes.
`Ingestion` implements it with the fingerprints and identities read off its tables
(`ImplementsRunLedger`); all the rest of a worker's steps are stutters.

### Reconciliation

A runner is one POST, one transaction: `Start` loads the payments of the last 14 days with
the settlement items stored then, `StartSettlements` the settlements with their bank
transactions. Each source is judged by itself (`JudgeSource`: missing counterpart, fee
mismatch), then each of its links: a payment is related first and judged afterwards, a
settlement the other way round, as in the matchers. `Upserted` looks for a discrepancy of
the same source and rule and adds it when it sees none; two visible ones raise
(`Ambiguous`). A relationship is looked for (`FindRelationship`) and inserted under a UNIQUE
constraint (`InsertRelationship` waits for an open duplicate, `InsertRaises` loses the
transaction). `Commit` is the route's. `dates` says what the driver returns: with aware
timestamps the naive `now` raises at the first source without a link.

### Accounts

Two process locks with their queues; the head of a queue holds its lock
(`asyncio.Lock` hands over in order of arrival). `get_current_user` loads the account of
the one who asks before the lock, and the session keeps that object: a request carries the
`version` and `must` that it loaded, and `IsAdmin` answers for one's own account by the
object held. `CheckActive`, `CheckRoles` and `VerifyCurrent` are the reads under the lock,
`WriteActive`, `WriteRoles`, `WriteChange` and `Reset` the commits. `overtaken` records that
the role rows which a request loaded have been replaced since. `epoch` counts the passwords of a
user, `lag` by how much the versions that changes counted on from were behind. `LoginLoads` reads the
account, `LoginVerifies` the credential, and the token carries the version of the former.
`Acceptable` is what `get_current_user` accepts.

### Workspace

The reader is one client on the transactions page: `Ask` sets the filter, `NextPage` is the
Next button, which is enabled while `offset + limit < total`. An answer is `Count` for each
of the five tables, `SelectPage`, `DecorateReconciled`, `DecorateDisputed`: statements with a
snapshot each, between which `Ingest`, `Relate` and `Dispute` commit what the rest of the
program stores. `created_at` is set before the commit, so a late arrival may sort anywhere.
`Related`, `Lineage` and the derived states are the operators of the detail page. A report is
`StartReport`, `CountRelationships`, `CountUnreconciled`.

## 3 The runs

Twelve runs: nine pass, three show a disagreement (section 6). Deadlock is checked in
`workspace_pages`, where a client can always ask again. Elsewhere `CHECK_DEADLOCK` is
off: a system without requests is idle, and when all ids are used up no step is left.

**`request_decisions`** (`ActionRequest`): two ids of requests, one evaluation,
three handlers of which one may die. Two ids so that a second row *could* appear; three
handlers so that two overlapping decisions can meet a creator or a later
decider. `StatusIsLastAudited`, `VerdictIsAudited`: status, audit trail, approver, reason
and announcements agree, however deciders overlap and wherever they die.
`SettledIsFinal`: a decision stays once no decider is in flight. `DecisionIsAnnounced`: a
handler that lives announces what it decided.

**`execution_keys`** (`ActionExecution`): two requests, two executions, three keys (the
default keys of both requests, either of which a client may also submit for the
other request, and one more), two executors of which one may die.
`AttemptMirrorsExecution`: the two tables agree. `OutcomeIsFinal`. `EffectIsNotRepeated`: once
one execution of a request may have taken effect and nobody is between guard and settlement of
it any more, the request never gets a second one, whatever keys are tried later and wherever the
first was left by a crash; that two calls pass the guard together is what it leaves to
`execution_race`. `ImplementsLedger`: refinement, which contains one row and one outside call per key.
`ClaimIsSettled`: an executor that lives settles what it claimed unless the adapter raises.

**`exceptions_view`** (`ExceptionView` over `Governance`): one investigation, one
evaluator, up to three evaluations of two of the five actions (one allowed, one that needs
approval), one request id, two executions, two keys, two handlers, one executor; handlers
and executors may die. Symmetric in what is interchangeable: no liveness is checked here.
`ExecutedOnlyIfApproved`: whatever is claimed for execution has an approval in its audit
trail and an evaluation that asked for one. `FilterMatchesDisplay`, `ResolvedIsStable`: the
two derivations of the state agree on each reachable join row, and RESOLVED stays RESOLVED
even when a late decision overwrites the request.

**`investigation_runs`** (`Investigation`): one discrepancy, two ids for investigations, three
attempts, two requests of which one may die. Three attempts let a later run start
after two that overlapped. `CompletedHasValidAttempt`; `FreshRunRestoresAgreement`: a run
that commits on the status it loaded leaves status and active attempt in agreement, also
after an earlier race. `RequestIsAnswered`, `OutcomeIsTold`.

**`period_close`** (`PeriodClose`): one period, two closers of which one may die, three
controls that are ever above zero (one sticky, the last in the order of reading, and one that
races), two evaluations per period, after which no further request starts.
`ClosedOnce`, `ClosedIsExplained`; `QuietControlsHold`: what does not change during the
reading does not block a closed period. `CloseIsAnswered`: a closer waiting for the lock
gets an answer.

**`ingestion_batches`** (`MCIngestion`): three run ids, two workers of which one may die,
five batches around one payment. They share facts in opposite orders (a deadlock is
reachable), and hold a row for each way out: a missing field, a fact of other code without a
record, a wrong currency, a fee with two parents, unbalanced totals, an overflow, an
ambiguous settlement. `OneRunPerBatch`, `AcceptedOnce`; `AuditTellsFacts`: the facts of a run
are its accepted rows and each duplicate has its fact, also after a failure in the middle or
a crash; `StoredFactsFit`: a stored fact has its parents and meets its rules although they
were looked up before the INSERT. `ImplementsRunLedger`: nobody sees a part of a run, and a committed
run stays as it is under its retries. `SubmissionIsAnswered`: nobody waits for ever.

**`reconciliation_runs`** (`MCReconciliation`): a payment with items of two settlements, the
second one short, a settlement with a late bank transaction that arrives during the runs, two
runners of which one may die, both kinds of timestamps, sources that grow old.
`RepeatNeedsOverlap`: a run adds no discrepancy and inserts no relationship that was stored when
it began, so that only runs that overlap store a discrepancy twice or fail on an INSERT.
`RelationshipIsExplained`: one marked DISCREPANCY has its discrepancy. `CompletedRunExplains`:
a run that commits leaves no link unrelated and no broken rule without its discrepancy.
`RunIsAnswered`: no run waits for ever. The settled amount of the instance is zero, so that the fee
rule never fires in this run; the theorems hold for amounts that make it.

**`accounts`** (`MCAccounts`): the founding ADMIN and a user who signs up, two sessions
(symmetric: a login takes any unused one), two requests in flight that any exception may
end. Two requests fill a queue: a holder and one that waits with what it loaded; both may be
changes of one password. The founder's password stays, the other's is replaced
at most twice. `AnAdminRemains`; `ForcedUntilChosen`: a reset binds its user until a password
is chosen, whatever was queued; `SurvivalTakesStaleVersions`: a token outlives no more
replacements of its password than the versions that changes counted on from were behind, so that
a login that loads the account before the credential, or a reset between two of its statements,
never lets a session through on its own.

**`workspace_pages`** (`MCWorkspace`): six records, of which a payment and a bank transaction
come late, one between the others and one after them; pages of two, five filters, three
relationships and two discrepancies that may appear. `WalkMissesOnlyLate`: of the records that
matched when a walk began, it misses no more than came between the count and the selection of
its last page. This is for filters that records can only come to match (`Growing`): a filter
for *unreconciled* records drops records while one walks, and skips others. `PageMatchesFilter`:
the decoration, read later, shows a record as its filter found it. `ViewsAgree`: filter, list and
detail page agree on each record, and what the detail page relates is in the lineage.
`RepeatsArePushed`: a page shows no more records for a second time than have come into the list
since the walk began. `NoneCountedTwice`: no payment is counted as reconciled and as unreconciled
by the statements of one report, because the relationships are read first and stay; what is
reconciled in between is counted by neither.

Three runs expect a violation, each of one property that a line of the repository states and the code
does not keep (section 6). **`execution_race`** (`MCActionExecution`): one request, two keys, two
executors. **`ingestion_retry`** (`MCIngestion`): a batch of which every valid row fails,
one that succeeds, and their retries. **`accounts_changes`**
(`MCAccounts`): the instance of `accounts`.

Why small instances are enough here: rows and requests in flight are
interchangeable and every guard looks at one request, key, discrepancy, batch, fact, pair or
period, so that the races are between two actors over one such object; the third
actor or row is there to observe the result. For the safety properties that are proved
the question does not arise.

## 4 Fairness

Weak fairness of `Proceed` for each request in flight: the event loop resumes a task
whose await has completed. Arrivals, crashes and the steps of other
components have none. `Accounts` and `Workspace` state no fairness: only safety is
claimed of them. In particular:

- The **adapter** comes back: the only one in the repository sleeps 0.1 s
  (`services/action_execution/simulator.py`).
- The **model provider** has no timeout in the code that awaits it
  (`services/investigation/agent.py:67`), so that `Answered` has no fairness and
  `RequestIsAnswered` is conditional: *if* no request waits for the provider for
  ever, and requests do not crash without end.
- **Waiting for another transaction** has strong fairness: the row lock of a period
  (`PeriodClose`), the INSERT of a run or of a fact (`Ingestion`), the INSERT of a relationship
  (`Reconciliation`). PostgreSQL queues the waiters, so that a waiter is served although
  others take and release what it waits for again and again. A circle of waiters is
  not resolved by fairness: the actions `StoreRaises` and `InsertRaises` do that, as the
  database's deadlock detection does.

Liveness properties are stated for requests outside `Mortal`, or are about reaching
idle, which a crash does too.

## 5 The proofs

For every choice of the constants: any number of requests, evaluations, keys,
executions, periods, batches, rows, users, records and actors, any of which may die.
Assumptions, all named and evaluated by TLC on its instances: what stands for "no row" is
none of the ids and rows; the mortal are among the actors; `DefaultKey` maps different
requests to different keys (`exec_<id>`); a batch is a sequence of rows and what other code
stored has no ingestion record; a refund refers to its payment and nothing else (`_materialize_refund`), and no
two payments have one provider and external id, those of other code included
(`uq_payment_provider_ext_id`); each refund has its payment (`payment_id` is NOT NULL); the founder is a user, and the roles include ADMIN and
OPERATOR, and nobody chooses what `generate_temporary_password` makes; the runners of
reconciliation are finitely many; records are finitely many natural numbers, and references lead
to records; "no row" is none of the states of an investigation or exception.

**`ActionRequestProofs`**: the type invariant is strengthened by what a handler carries: a
handler between insert and announcement has an evaluation, one past the insert a request that
exists, one past the load a verdict. `WinnerIsThere` needs that rows are never
deleted and keep their evaluation. `VerdictsAreAudited` is not inductive by
itself: a handler at `record` or `announce` must have its audit row already, which
no later step removes; that is the added conjunct. `SettledStays` is an action property
and needs the types only: only a decider past the state machine writes a status,
and the state machine lets nobody past a status that is already a decision. `AskedInv`, a request comes from an evaluation that
asked for an approval, is for `GovernanceProofs`.

**`ActionExecutionProofs`**: the inductive invariant is `LedgerInv`. One call per key
does not survive `AdapterReports` alone: nothing says that the executor that calls is the
only one to call under its key. The invariant adds `OwnerInv` (an executor between
claim and settlement holds the key of its row; at `start` the row is PENDING, at
`call` it is RUNNING and the key uncalled, at `settle` and `recover` it was
called once) and `SoleOwner` (no two such executors share a row). With one row per key
they share no key either. Steps are sorted by what they write
(`StepKinds`): bystanders, claims, owners that write a status, and calls, so that
each conjunct is proved against four cases. The refinement follows from
`LedgerInv`: a claim is `Ledger!Claim`, a call `Ledger!Call`, a status that is an
outcome `Ledger!Settle`, everything else a stutter (`LedgerIsImplemented`). `EffectsAreNotRepeated`: a
request with one effect and nobody at work on it (`Sealed`) stays so, because an owner holds a row of
its own request, so that those of other requests write elsewhere (`OthersLeave`), and the guard
lets nobody in on a row that is RUNNING, SUCCEEDED or UNKNOWN.

**`GovernanceProofs`** takes over the invariants of both parts: it instantiates the modules
above with the tables of the composition, shows that the parts take the same steps there
(`SameRequestStep`, `SameExecutionStep`) and that a step of one is a step or a
stutter of the other's environment. `ApprovalPrecedesExecution` then goes from the execution
back: an executor past the authorization, and every execution, belongs to a request that
has an approval in its audit trail; the trail only grows, and a request that can be approved
comes from an evaluation that asked for it.

`FilterAgrees` is about operators: a CASE expression takes its first arm that holds (`ArmDecides`), the
Python function the first of its four lookups that finds something, and for every value of the
columns both come to the same state (`SameState`); the columns of a joined row have such values
because the tables keep their types (`JoinedColumns`). `ResolvedStays` says which chains show
RESOLVED (`ResolvedChains`: one whose execution succeeded, one that ends at a denial) and that
neither kind changes: links stay (`LinksStay`), an outcome is final, and nothing is requested
on a denied evaluation (`DenialEndsChain`). A late decider may still overwrite the request of such a chain;
the execution is asked first.

**`DiscrepancyProofs`**, first half, `Reconciliation`. A run works through what it loaded in an order
of its own, so that its invariant says of each loaded row that it waits for its source, waits in the
queue of links, is at hand, or is done (`EvidenceInv`), of the link at hand which of the
two things was done first (`Halfway`: payments are related before they are judged,
settlements the other way), and of each relationship marked as a discrepancy that its rules are
judged or will be by the next step (`RelInv`). `KnownInv` and `LossInv` (what was stored when the run
began is stored, and what a run inserts is not) give `RepeatsNeedOverlap`. What others commit meanwhile only adds to what a run sees
(`OthersKept`), so that what is done stays done. The commit then hands the run's view to everybody
(`CommitStores`), which is `CompletedRunsExplain`. The type invariant needs `Counted`: of one
discrepancy there are never more, stored and pending together, than runners.

Second half, `Investigation`: `CompletedIsBacked` needs `OwnAttempt`: the attempt that a request is about
to record is not stored yet and no other request's, so that no valid one is written over. `FreshRunsRestoreAgreement` is an
action property and needs the types only.

**`PeriodCloseProofs`**: `LockInv` (whoever has passed the lock holds it, and the period is not
closed) makes a close exclusive; `ReadInv` (`HasSeen`: what a closer has read as zero was
zero, and a control that nobody changes still is) carries the reading to the commit.

**`IngestionProofs`**: three invariants beside the types. `BatchInv` extends
`OneRunPerBatch` to pairs of an open and a committed run. `UniqueInv` says that no identity is stored
twice in everything that is stored, *committed or not*: an INSERT waits for holders of the same
identity. `TellInv` says of an open run what `AuditTellsFacts` says of a committed one: its
uncommitted facts are its accepted rows, with different identities. A commit then hands
both over; `RunInv`, a run id belongs to one run, keeps the facts of runs apart.

`StoredFactsDoFit` carries what the savepoint checked over everything that is stored after it
(`FitInv`: for a row between check and INSERT, for uncommitted facts, for committed ones). References
may come to match more facts than the one they led to: a settlement named without its provider is one
for the row that resolves it and may be two later. Only a refund's rules look at its parents, and a
payment is looked up in a provider, so that `UniqueInv` makes it one for good (`OneParent`, `FitsMore`).

The refinement (`RunLedgerIsImplemented`) follows from these invariants: only a commit changes the tables
(`StepKinds`), and it posts (`CommitPosts`) a new fingerprint by `BatchInv`, new identities by `UniqueInv`, all of
them its own by `TellInv`.

**`AccountsProofs`**: the type invariant includes that each request which asked for a
lock is in that lock's queue, once, and that whoever writes is at the head
(`HeadWrites`). `AdminInv` adds to `AnAdminRemains` that a request about to strip an
ADMIN (`WriteSafe`) still has another ADMIN; being the only writer, it has until it commits.
Only the head of the queue writes, so that the other ADMIN whom it counted cannot lose the
role in between. The stale object of one's own account does no harm: it makes `IsAdmin` true more often than the
table, never less.

`ForcedChanges` needs of each queued change (`Promise`) that whoever presents a generated password
loaded an account that was held to change it, so that its write clears the flag, and that a change
past its check presents the password that is stored: only the head of the queue replaces one.
"All existing sessions die" is refuted by `accounts_changes`. Two theorems say what is left of it.
`SurvivalIsCounted`, for all behaviours: the version of an account is the number of its passwords less
`lag`, to which a change adds what was replaced while it waited, and no token or request is ahead of
that number (`CountInv`). `SessionsDie`, for the behaviours
without such a change: no token is ahead of its account, one level with it was issued for
the present password (`Level`), and the same of the versions that queued changes loaded (`Loaded`,
`Fresh`); its hypothesis (`Unanticipated`) is that no queued change presents a password that another
queued change of the account is about to set, which is the counterexample and nothing else.

**`WorkspaceProofs`**: `ReportInv` says that what the report saw reconciled is still reconciled when it
looks for the rest, and that each source of a relationship is there, so that both are disjoint parts
of the payments (`ReportsCountOnce`). `PageInv`: a record that matched because of a relationship or a discrepancy is
shown with it, as neither is ever deleted. `WalkInv` follows a walk: the records that were asked for
still match; those not shown lie at or behind the next offset, because positions only grow when
records arrive; the count so far is at most what it counted. When the last page is selected,
the missing records sit at different positions between its end and the end of the list (`Room`,
an injection into an interval), and the end of the page is at least the counted total. For
`RepeatsAreBounded` the walk has shown no more records than there are places before the page
(`ShownInv`), and of a list that is long enough these places are all taken (`FirstPlaces`): each
shown record that comes again has left its place to one that was never shown, and such a record is
new by `WalkInv`.

`ViewsDoAgree`: the badge of the list, the predicate that filters it and the sections of the detail
page, three pieces of code, come to the same for every record (`StatesAgree`); type by type, what the
detail page names as related is in the lineage (`RelatedIsInLineage`), a refund's payment because
every refund has one.

**Only model-checked**: liveness (`DecisionIsAnnounced`, `ClaimIsSettled`,
`RequestIsAnswered`, `OutcomeIsTold`, `CloseIsAnswered`, `SubmissionIsAnswered`,
`RunIsAnswered`), which the prover cannot treat. Every invariant and action property of a passing run has
its theorem.

## 6 Where code and documentation disagree

Each of these has a run in which TLC finds the counterexample; `PROJECT.json` quotes the lines.

| Run | Property | What happens |
|---|---|---|
| `execution_race` | `OneEffectPerRequest` | Two keys for one request pass the guard before either is claimed; both reach the adapter. |
| `ingestion_retry` | `RetryIsNewRun` | A run whose valid rows all failed is answered as its own retry, and nothing is reprocessed. |
| `accounts_changes` | `OldSessionsDie` | Of two queued changes of one account, the second presenting the password that the first sets, both store the same version: a session issued between them survives the second. |

Disagreements and oddities that the models contain and no run is spent on:

*Requests and executions.* Two deciders read PENDING_APPROVAL; the later commit replaces the
earlier decision, which the state machine forbids (`services/action_request/service.py:100`,
`state_machine.py:13-15`). A key that another request holds is answered with that request's
execution (`services/action_execution/service.py:79`). The handler of an adapter's
exception fails on an object that its rollback expired, and the execution stays RUNNING
(`:133`). Events of an outcome are added after the last commit and lost
(`:124`). Two concurrent policy calls store two evaluations of one action
(`services/policy/engine.py:66`). A request that was executed twice is listed
twice with two states (`services/exceptions.py:103`). An investigation that is approved and then
rejected has two evaluations, on which `scalar_one_or_none` of the detail page raises for good (`:197`);
it takes two requests one after the other, and `ExceptionView` has the list only.

*Investigations and periods.* Of overlapping runs the later may write its attempt but not its
status (`services/investigation/agent.py:60`). A blocker that arises while the controls are read
does not stop the close (`services/period.py:358`). A blocked evaluation formats its
notification with `period.name`, which the model does not have
(`apps/api/routes/periods.py:127`): `NotifyBlocked` notifies nobody. No code writes the payment
status RECONCILED (`services/period.py:199`): a period with a payment is never READY.

*Ingestion.* Rows after one that raises get no record, although the failure path "must never
lose the audit trail" (`services/ingestion/batch.py:262`); its run keeps `successful_records`
at zero; a FAILED run answers every later submission of its batch. The fingerprint covers
spelling, so that `2` and `2.0` are two batches, and leaves invalid rows out, so that all batches
without a valid row are one; the comment at `services/ingestion/validation.py:212-215` says that "equal
logical rows always produce equal fingerprints even when the raw JSON spelling differs (e.g. '100.0' vs
'100.00')". The fingerprint also covers the source type, of which the instances have one. A refund rejected because its payment came later cannot be submitted
again as it was. An ambiguous settlement reference raises instead of rejecting the row.

*Reconciliation.* With timezone-aware timestamps the first source without a link raises
(`matchers/payment_settlement.py:45`). A discrepancy that overlapping runs stored twice makes every later run
fail. The status of a relationship is never updated, and a discrepancy of a missing
counterpart never resolved; a second item between the same two makes no relationship; a settled
amount of zero counts as not given (`settlement_bank.py:43`).

*Accounts.* A password change stores the successor of the `credential_version` that its request
loaded before it waited for the lock (`services/auth/password_management.py:136`, `:111`): see
`accounts_changes`, against "all existing sessions die" (`:99`). The authority of the actor is checked before the lock and not again. The locks belong to one process and
event loop: several workers would not exclude each other. A change of one's own roles deletes the rows
loaded before the lock.

*Workspace and reports.* `docs/m9_transactions_workspace.md:74` says "so pages never shift or repeat", but
an arrival that sorts before a page moves the records behind it by one place, and the next page repeats
the last record of this one: `RepeatsArePushed` and `WalkMissesOnlyLate` bound what arrivals can do, and
exclude nothing else. A payment that is reconciled between two statements of the report is in neither of its
counts (`services/reporting.py:399`). A record of a page that was filtered for *not reconciled* may be shown
as reconciled, as its badge is read later (`workspace.py:474`). The total that disables Next was counted before the page was selected, and
a filter for *not reconciled* or *without discrepancy* skips records as others drop out of it (which is
why `WalkMissesOnlyLate` excludes them). "Reconciled" means any relationship in the list, and
RECONCILED ones only in the report. The detail page names the settlement of a fee, the lineage
does not. Relationships of the report are not limited to its window, so that its rate may exceed
one; sums of amounts count joined rows (`services/reporting.py:488`, `:531`).

The positive counterparts, which hold, delimit these: `SettledIsFinal`, `EffectIsNotRepeated`,
`FreshRunRestoresAgreement`, `QuietControlsHold`, `RepeatNeedsOverlap`, `SurvivalTakesStaleVersions`,
`WalkMissesOnlyLate`, `RepeatsArePushed`, `NoneCountedTwice`.

## 7 What is not modelled

- **MFA**: enrolment, challenges and recovery codes are a protocol of their own around the
  login; `Accounts` takes the second factor as given, like signatures and expiry times of tokens.
- **Lists**: of runs, records, users, periods, events, notifications. The typed helpers of
  `services/ingestion/base.py` that no route calls. The run rows and statistics of
  reconciliation. Timelines and labels of the workspace. The other reports are single aggregates.
- **Events of user management** come in a second commit and may be lost; no property is about them.
- **Money** is compared as integers; prompts, evidence, descriptions and payloads of
  events are data that no property tells apart.
- **The frontend** is a client whose calls the models allow in any order; only its rule for
  the next page is modelled. The Previous button and failed requests are not.
- **Authorization by role** is taken as given outside `Accounts`: an actor that a
  model lets act is one that the route lets in.
- **The database** is taken to do what READ COMMITTED, UNIQUE constraints, row locks and
  its deadlock detection promise; a lost connection is a `Crash`. Migrations, seed data, health
  probes and wiring have no behaviour of their own.

## 8 Plan

The modules were built in the order in which money depends on them: requests and
executions with their ledger, policy, the composition and its view, investigations,
the period close; then ingestion, reconciliation, accounts, the workspace and reports.

What would add most next:

1. `Mfa`: challenges with their attempt counters, recovery codes used once, and the login of
   `Accounts` with its second factor. Property: a challenge or code is spent once, however
   verifications overlap.
2. The exceptions list with its page and total, in the manner of `Workspace`.
