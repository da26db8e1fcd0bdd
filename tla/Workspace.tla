------------------------------ MODULE Workspace ------------------------------
(***************************************************************************)
(* services/transactions/workspace and the reconciliation report of        *)
(* services/reporting: reads that take several statements, while ingestion *)
(* and reconciliation commit between any two of them.  A list request      *)
(* counts the records table by table, selects its page and then decorates  *)
(* it; the page of the web client asks for the next one as long as the     *)
(* total it was told goes on.  Records, relationships and discrepancies    *)
(* are only ever added.                                                    *)
(***************************************************************************)
EXTENDS Integers, Sequences, FiniteSets, SequencesExt

CONSTANTS
  Records,      \* ids, ordered as the database orders them
  Seeded,       \* the records that are there from the start
  Type,         \* record -> its table
  Status,       \* record -> its status column, Nothing for a fee
  Created,      \* record -> created_at, set by the writer before it commits
  PaymentOf,    \* refund, fee -> the payment it refers to, or Nothing
  SettlementOf, \* bank transaction, fee -> its settlement, or Nothing
  Items,        \* the settlement items: <<settlement, payment>>
  Pairs,        \* <<source, target>> that reconciliation may relate
  Disputes,     \* <<source, related>> that it may store a discrepancy for
  Filters,      \* the filters that are asked for
  Windows,      \* the payments that the dates of a report let in
  Limit,        \* records of a page
  Nothing

Tables == <<"PAYMENT", "REFUND", "FEE", "SETTLEMENT", "BANK_TRANSACTION">>
Outcomes == {"RECONCILED", "DISCREPANCY"}

ASSUME WorkspaceAssumption ==
  /\ Records \subseteq Nat /\ IsFiniteSet(Records) /\ Seeded \subseteq Records
  /\ Type \in [Records -> ToSet(Tables)]
  /\ Created \in [Records -> Nat]
  /\ PaymentOf \in [Records -> Records \cup {Nothing}]
  /\ SettlementOf \in [Records -> Records \cup {Nothing}]
  /\ Items \subseteq Seeded \X Seeded
  /\ Pairs \subseteq Records \X Records
  /\ Disputes \subseteq Records \X (Records \cup {Nothing})
  /\ \A w \in Windows : w \subseteq Records
  /\ Limit \in Nat \ {0}

(* Each refund has its payment: the column is NOT NULL.                      *)
ASSUME RefundAssumption ==
  \A r \in Records : Type[r] = "REFUND" => PaymentOf[r] # Nothing

VARIABLES
  present,   \* the committed records
  related,   \* the relationships: source, target and financial status
  disputed,  \* the discrepancies: <<source, related>>
  reader,    \* the list request of a page, and the walk that it belongs to
  report     \* the reconciliation report that is being put together

vars == <<present, related, disputed, reader, report>>
facts == <<present, related, disputed>>

Relationship == [source : Records, target : Records, status : Outcomes]

(* The answer of a page; late: how many more records the page was selected   *)
(* from than were counted.                                                   *)
Answer == [total : Nat, page : SUBSET Records, reconciled : SUBSET Records,
           disputed : SUBSET Records, late : Int]

Reader == [pc : {"idle", "count", "relate", "dispute", "answered"},
           filter : Filters \cup {Nothing}, offset : Nat,
           counted : 0..Len(Tables), answer : Answer,
           asked : SUBSET Records, shown : SUBSET Records]

Report == [pc : {"idle", "relationships", "unreconciled", "answered"},
           window : SUBSET Records, total : Nat, reconciled : Nat,
           unreconciled : Nat, sources : SUBSET Records]

(* Rows, answers and figures keep their shape; a page has no more records    *)
(* than were asked for.                                                      *)
TypeOK ==
  /\ present \subseteq Records
  /\ related \subseteq Relationship
  /\ disputed \subseteq Disputes
  /\ reader \in Reader
  /\ Cardinality(reader.answer.page) <= Limit
  /\ report \in Report

NoAnswer == [total |-> 0, page |-> {}, reconciled |-> {}, disputed |-> {},
             late |-> 0]

Init ==
  /\ present = Seeded /\ related = {} /\ disputed = {}
  /\ reader = [pc |-> "idle", filter |-> Nothing, offset |-> 0, counted |-> 0,
               answer |-> NoAnswer, asked |-> {}, shown |-> {}]
  /\ report = [pc |-> "idle", window |-> {}, total |-> 0, reconciled |-> 0,
               unreconciled |-> 0, sources |-> {}]

-----------------------------------------------------------------------------
(* What the rest of the program commits meanwhile.                           *)
Ingest(r) ==
  /\ r \in Records \ present
  /\ {PaymentOf[r], SettlementOf[r]} \subseteq present \cup {Nothing}
  /\ present' = present \cup {r}
  /\ UNCHANGED <<related, disputed, reader, report>>

Relate(s, t, status) ==
  /\ {s, t} \subseteq present
  /\ ~\E l \in related : l.source = s /\ l.target = t
  /\ related' = related \cup {[source |-> s, target |-> t, status |-> status]}
  /\ UNCHANGED <<present, disputed, reader, report>>

Dispute(s, other) ==
  /\ {s, other} \subseteq present \cup {Nothing}
  /\ <<s, other>> \notin disputed
  /\ disputed' = disputed \cup {<<s, other>>}
  /\ UNCHANGED <<present, related, reader, report>>

-----------------------------------------------------------------------------
(* The EXISTS subqueries: either end may be the record.                      *)
Reconciled(r) == \E l \in related : r = l.source \/ r = l.target
HasDiscrepancy(r) == \E d \in disputed : r = d[1] \/ r = d[2]

(* A filter names the tables it wants, a status or Nothing, the records that *)
(* its other column predicates let in (currency, merchant, dates, amount,    *)
(* search), and the derived states it accepts.  A fee has no status: a       *)
(* status filter leaves the whole table out.                                 *)
Wanted(f, t) == t \in f.tables /\ (f.status # Nothing => t # "FEE")

Matches(f, r) ==
  /\ r \in present /\ r \in f.columns
  /\ Wanted(f, Type[r])
  /\ f.status # Nothing => Status[r] = f.status
  /\ Reconciled(r) \in f.reconciled
  /\ HasDiscrepancy(r) \in f.disputed

Matching(f) == {r \in Records : Matches(f, r)}

(* ORDER BY created_at DESC, id DESC.                                        *)
Precedes(a, b) ==
  Created[a] > Created[b] \/ (Created[a] = Created[b] /\ a > b)
Position(S, r) == Cardinality({x \in S : Precedes(x, r)})

(* Fault: every page begins one record too late.                            *)
PageOf_OffByOne(S, offset) ==
  {r \in S : Position(S, r) > offset /\ Position(S, r) <= offset + Limit}

(* Fault: the page takes one record more, to see whether another follows.    *)
PageOf_OneMore(S, offset) ==
  {r \in S : Position(S, r) >= offset /\ Position(S, r) <= offset + Limit}

PageOf(S, offset) ==
  {r \in S : Position(S, r) >= offset /\ Position(S, r) < offset + Limit}

(* Fault: the target of a relationship is forgotten.                         *)
ShownReconciled_Source(page) == page \cap {l.source : l \in related}

(* The decoration of a page: the rows that touch it, and of each row both    *)
(* ends.                                                                     *)
ShownReconciled(page) ==
  page \cap UNION {{l.source, l.target} : l \in related}
ShownDisputed(page) == page \cap UNION {{d[1], d[2]} : d \in disputed}

-----------------------------------------------------------------------------
(* list_transactions.  Each step is one statement, with a snapshot of its    *)
(* own.  asked and shown are the history of the walk: the records that       *)
(* matched when its first page was asked for, and those it has shown.        *)
Begin(f, offset) ==
  [reader EXCEPT !.pc = "count", !.filter = f, !.offset = offset,
                 !.counted = 0, !.answer = NoAnswer]

Ask(f) ==
  /\ reader.pc \in {"idle", "answered"}
  /\ reader' = [Begin(f, 0) EXCEPT !.asked = Matching(f), !.shown = {}]
  /\ UNCHANGED <<facts, report>>

(* The next page, while the total that was told goes on.                     *)
NextPage ==
  /\ reader.pc = "answered"
  /\ reader.offset + Limit < reader.answer.total
  /\ reader' = Begin(reader.filter, reader.offset + Limit)
  /\ UNCHANGED <<facts, report>>

(* A table that the filter leaves out is not asked, which counts none.       *)
Count ==
  /\ reader.pc = "count" /\ reader.counted < Len(Tables)
  /\ reader' = [reader EXCEPT !.counted = @ + 1,
       !.answer.total = @ + Cardinality({r \in Matching(reader.filter) :
                                           Type[r] = Tables[reader.counted + 1]})]
  /\ UNCHANGED <<facts, report>>

SelectPage ==
  /\ reader.pc = "count" /\ reader.counted = Len(Tables)
  /\ LET S == Matching(reader.filter)
         page == PageOf(S, reader.offset)
     IN reader' = [reader EXCEPT
          !.pc = IF page = {} THEN "answered" ELSE "relate",
          !.answer.page = page,
          !.answer.late = Cardinality(S) - reader.answer.total,
          !.shown = @ \cup page]
  /\ UNCHANGED <<facts, report>>

DecorateReconciled ==
  /\ reader.pc = "relate"
  /\ reader' = [reader EXCEPT !.pc = "dispute",
       !.answer.reconciled = ShownReconciled(reader.answer.page)]
  /\ UNCHANGED <<facts, report>>

DecorateDisputed ==
  /\ reader.pc = "dispute"
  /\ reader' = [reader EXCEPT !.pc = "answered",
       !.answer.disputed = ShownDisputed(reader.answer.page)]
  /\ UNCHANGED <<facts, report>>

-----------------------------------------------------------------------------
(* get_transaction_detail: the related records that the page of one lists.   *)
Owned(r) == {x \in present : PaymentOf[x] = r}
Paid(s) == {b \in present : Type[b] = "BANK_TRANSACTION" /\ SettlementOf[b] = s}
Settles(s) == {i[2] : i \in {i \in Items : i[1] = s}}

Related(r) ==
  CASE Type[r] = "PAYMENT" -> Owned(r)
    [] Type[r] = "REFUND" -> {PaymentOf[r]}
    [] Type[r] = "SETTLEMENT" -> Settles(r) \cup Paid(r)
    [] Type[r] = "BANK_TRANSACTION" -> {SettlementOf[r]} \ {Nothing}
    [] Type[r] = "FEE" -> {PaymentOf[r], SettlementOf[r]} \ {Nothing}

(* Fault: the bank transactions of a settlement are left out.                *)
Lineage_NoBank(r) ==
  {r} \cup (CASE Type[r] = "PAYMENT" -> Owned(r)
              [] Type[r] = "SETTLEMENT" -> Settles(r)
              [] Type[r] = "BANK_TRANSACTION" -> {SettlementOf[r]} \ {Nothing}
              [] OTHER -> {PaymentOf[r]} \ {Nothing})

(* get_transaction_lineage: its SOURCE nodes.  A payment shows the whole way *)
(* to the bank; a fee shows its payment alone.                               *)
Lineage(r) ==
  {r} \cup (CASE Type[r] = "PAYMENT" ->
                   LET settlements == {i[1] : i \in {i \in Items : i[2] = r}}
                   IN Owned(r) \cup settlements
                        \cup UNION {Paid(s) : s \in settlements}
              [] Type[r] = "SETTLEMENT" -> Settles(r) \cup Paid(r)
              [] Type[r] = "BANK_TRANSACTION" -> {SettlementOf[r]} \ {Nothing}
              [] OTHER -> {PaymentOf[r]} \ {Nothing})

(* _derived_state: the relationships and discrepancies of one record.        *)
DerivedRelationships(r) == {l \in related : l.source = r \/ l.target = r}
DerivedDiscrepancies(r) == {d \in disputed : d[1] = r \/ d[2] = r}

-----------------------------------------------------------------------------
(* get_reconciliation_analytics: the payments of the window, then the        *)
(* RECONCILED relationships of all payments whenever they were made, then    *)
(* the payments of the window that are the source of none.  sources is the   *)
(* history of the report: the payments that the second statement saw         *)
(* reconciled.                                                               *)
Payments == {r \in present : Type[r] = "PAYMENT"}
ReconciledRelationships ==
  {l \in related : Type[l.source] = "PAYMENT" /\ l.status = "RECONCILED"}
ReconciledPayments == {l.source : l \in ReconciledRelationships}

StartReport(w) ==
  /\ report.pc \in {"idle", "answered"}
  /\ report' = [pc |-> "relationships", window |-> w,
                total |-> Cardinality(Payments \cap w), reconciled |-> 0,
                unreconciled |-> 0, sources |-> {}]
  /\ UNCHANGED <<facts, reader>>

CountRelationships ==
  /\ report.pc = "relationships"
  /\ report' = [report EXCEPT !.pc = "unreconciled",
                  !.reconciled = Cardinality(ReconciledRelationships),
                  !.sources = ReconciledPayments]
  /\ UNCHANGED <<facts, reader>>

(* Fault: the subquery selects the other end of the relationships.           *)
CountUnreconciled_OtherEnd ==
  /\ report.pc = "unreconciled"
  /\ report' = [report EXCEPT !.pc = "answered",
       !.unreconciled = Cardinality((Payments \cap report.window)
                          \ {l.target : l \in ReconciledRelationships})]
  /\ UNCHANGED <<facts, reader>>

CountUnreconciled ==
  /\ report.pc = "unreconciled"
  /\ report' = [report EXCEPT !.pc = "answered",
       !.unreconciled = Cardinality((Payments \cap report.window)
                                      \ ReconciledPayments)]
  /\ UNCHANGED <<facts, reader>>

Next ==
  \/ \E r \in Records : Ingest(r)
  \/ \E p \in Pairs, status \in Outcomes : Relate(p[1], p[2], status)
  \/ \E d \in Disputes : Dispute(d[1], d[2])
  \/ \E f \in Filters : Ask(f)
  \/ NextPage \/ Count \/ SelectPage \/ DecorateReconciled \/ DecorateDisputed
  \/ \E w \in Windows : StartReport(w)
  \/ CountRelationships \/ CountUnreconciled

Spec == Init /\ [][Next]_vars

-----------------------------------------------------------------------------
(* A filter that records can come to match and never cease to.               *)
Growing(f) == TRUE \in f.reconciled /\ TRUE \in f.disputed

(* A walk from the first page to the one whose Next is disabled shows every  *)
(* record that matched when it began, as long as records only come to match: *)
(* what arrives moves the others to later pages.  What it may miss is pushed *)
(* out of the last page by arrivals between its count and its selection,     *)
(* record for record.                                                        *)
WalkMissesOnlyLate ==
  /\ reader.pc = "answered"
  /\ reader.offset + Limit >= reader.answer.total
  /\ Growing(reader.filter)
  => Cardinality(reader.asked \ reader.shown) <= reader.answer.late

(* A record is shown again only where an arrival pushed it: a page holds no  *)
(* more records that this walk has shown already than records have come into *)
(* the list since the walk began.  With nothing committed in between, the    *)
(* pages never repeat a record.                                              *)
RepeatsArePushed ==
  [][SelectPage /\ Growing(reader.filter) =>
       Cardinality(reader'.answer.page \cap reader.shown)
         <= Cardinality(Matching(reader.filter) \ reader.asked)]_vars

(* A page that was filtered for reconciled records, or for records with a    *)
(* discrepancy, shows each of them as such: the decoration is read after the *)
(* page and finds at least what the filter found.                            *)
PageMatchesFilter ==
  reader.pc = "answered" =>
    /\ reader.filter.reconciled = {TRUE} =>
         reader.answer.reconciled = reader.answer.page
    /\ reader.filter.disputed = {TRUE} =>
         reader.answer.disputed = reader.answer.page

(* The badges of the list, the predicate that filters it and the sections of *)
(* the detail page are three pieces of code and say the same of a record;    *)
(* and whatever the detail page names as related is in the lineage, except   *)
(* the settlement of a fee, which only the detail page has.                  *)
ViewsAgree ==
  \A r \in present :
    /\ Reconciled(r) <=> r \in ShownReconciled(present)
    /\ Reconciled(r) <=> DerivedRelationships(r) # {}
    /\ HasDiscrepancy(r) <=> r \in ShownDisputed(present)
    /\ HasDiscrepancy(r) <=> DerivedDiscrepancies(r) # {}
    /\ \A x \in Related(r) \ Lineage(r) :
         Type[r] = "FEE" /\ x = SettlementOf[r]

(* No payment of the window is counted twice: those that are unreconciled    *)
(* and those that a counted relationship reconciles, seen by two statements, *)
(* are together no more than there are.  (A payment that is reconciled       *)
(* between the two statements is counted by neither.)                        *)
NoneCountedTwice ==
  report.pc = "answered" =>
    report.unreconciled + Cardinality(report.sources \cap report.window)
      <= Cardinality(Payments \cap report.window)
=============================================================================
