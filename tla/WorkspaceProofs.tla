--------------------------- MODULE WorkspaceProofs ---------------------------
(***************************************************************************)
(* What the statements of a walk and of a report add up to, for any        *)
(* records, filters, page sizes and commits between the statements.        *)
(***************************************************************************)
EXTENDS Workspace, FiniteSetTheorems, TLAPS

-----------------------------------------------------------------------------
(* Counting.                                                                 *)
LEMMA FiniteRecords ==
  ASSUME NEW S \in SUBSET Records
  PROVE  IsFiniteSet(S) /\ Cardinality(S) \in Nat
BY WorkspaceAssumption, FS_Subset, FS_CardinalityType

LEMMA Grows ==
  ASSUME NEW T \in SUBSET Records, NEW S \in SUBSET T
  PROVE  Cardinality(S) <= Cardinality(T)
BY FiniteRecords, FS_Subset

LEMMA AtMostBoth ==
  ASSUME NEW S \in SUBSET Records, NEW T \in SUBSET Records
  PROVE  Cardinality(S \cup T) <= Cardinality(S) + Cardinality(T)
<1>1. IsFiniteSet(S) /\ IsFiniteSet(T) /\ S \cap T \in SUBSET Records
  BY FiniteRecords
<1>2. Cardinality(S \cup T) = Cardinality(S) + Cardinality(T) - Cardinality(S \cap T)
  BY <1>1, FS_Union
<1> QED
  BY <1>1, <1>2, FiniteRecords

LEMMA Disjoint ==
  ASSUME NEW S \in SUBSET Records, NEW T \in SUBSET Records, S \cap T = {}
  PROVE  Cardinality(S \cup T) = Cardinality(S) + Cardinality(T)
<1>1. IsFiniteSet(S) /\ IsFiniteSet(T)
  BY FiniteRecords
<1>2. Cardinality(S \cup T) = Cardinality(S) + Cardinality(T) - Cardinality(S \cap T)
  BY <1>1, FS_Union
<1> QED
  BY <1>2, FiniteRecords, FS_EmptySet

-----------------------------------------------------------------------------
(* The order of the list.                                                    *)
LEMMA Ordered ==
  ASSUME NEW a \in Records, NEW b \in Records, NEW c \in Records
  PROVE  /\ ~Precedes(a, a)
         /\ a # b => Precedes(a, b) \/ Precedes(b, a)
         /\ Precedes(a, b) /\ Precedes(b, c) => Precedes(a, c)
<1>1. a \in Nat /\ b \in Nat /\ c \in Nat
  BY WorkspaceAssumption
<1>2. Created[a] \in Nat /\ Created[b] \in Nat /\ Created[c] \in Nat
  BY WorkspaceAssumption
<1> QED
  BY <1>1, <1>2 DEF Precedes

LEMMA PositionType ==
  ASSUME NEW S \in SUBSET Records, NEW r \in S
  PROVE  Position(S, r) \in Nat /\ Position(S, r) < Cardinality(S)
<1> DEFINE before == {x \in S : Precedes(x, r)}
<1>1. before \in SUBSET Records /\ before \cup {r} \in SUBSET S /\ r \notin before
  BY Ordered
<1>2. IsFiniteSet(before) /\ Cardinality(before) \in Nat
  BY <1>1, FiniteRecords
<1>3. Cardinality(before \cup {r}) = Cardinality(before) + 1
  BY <1>1, <1>2, FS_AddElement
<1>4. Cardinality(before \cup {r}) <= Cardinality(S) /\ Cardinality(S) \in Nat
  BY <1>1, Grows, FiniteRecords
<1>5. Position(S, r) = Cardinality(before)
  BY DEF Position
<1> HIDE DEF before
<1> QED
  BY <1>2, <1>3, <1>4, <1>5

LEMMA PositionOrders ==
  ASSUME NEW S \in SUBSET Records, NEW a \in S, NEW b \in S, Precedes(a, b)
  PROVE  Position(S, a) < Position(S, b)
<1> DEFINE A == {x \in S : Precedes(x, a)}
           B == {x \in S : Precedes(x, b)}
<1>1. A \in SUBSET Records /\ B \in SUBSET Records /\ a \in B /\ a \notin A /\ A \subseteq B
  BY Ordered
<1>2. Position(S, a) = Cardinality(A) /\ Position(S, b) = Cardinality(B)
  BY DEF Position
<1> HIDE DEF A, B
<1>3. Cardinality(A \cup {a}) = Cardinality(A) + 1
  BY <1>1, FiniteRecords, FS_AddElement
<1>4. Cardinality(A \cup {a}) <= Cardinality(B)
  BY <1>1, Grows
<1> QED
  BY <1>1, <1>2, <1>3, <1>4, FiniteRecords

(* Records between two positions are no more than there is room.             *)
LEMMA Room ==
  ASSUME NEW S \in SUBSET Records, NEW m \in Nat, NEW n \in Int, m <= n,
         NEW T \in SUBSET S, \A r \in T : m <= Position(S, r) /\ Position(S, r) < n
  PROVE  Cardinality(T) <= n - m
<1> DEFINE f == [r \in T |-> Position(S, r)]
           I == m..(n - 1)
<1>1. f \in [T -> I]
  <2>1. ASSUME NEW r \in T PROVE Position(S, r) \in m..(n - 1)
    <3>1. Position(S, r) \in Nat /\ m <= Position(S, r) /\ Position(S, r) < n
      BY PositionType
    <3> QED
      BY <3>1
  <2> QED
    BY <2>1
<1>2. ASSUME NEW a \in T, NEW b \in T, f[a] = f[b] PROVE a = b
  <2>1. Position(S, a) = Position(S, b) /\ Position(S, a) \in Nat /\ Position(S, b) \in Nat
    BY <1>2, PositionType
  <2>2. ~Precedes(a, b) /\ ~Precedes(b, a)
    BY <2>1, PositionOrders
  <2> QED
    BY <2>2, Ordered
<1>3. f \in Injection(T, I)
  BY <1>1, <1>2 DEF Injection, IsInjective
<1>4. IsFiniteSet(I) /\ Cardinality(I) = n - m
  <2>1. m \in Int /\ n - 1 \in Int
    OBVIOUS
  <2>2. /\ IsFiniteSet(m..(n - 1))
        /\ Cardinality(m..(n - 1)) = IF m > n - 1 THEN 0 ELSE (n - 1) - m + 1
    BY <2>1, FS_Interval
  <2> QED
    BY <2>1, <2>2
<1> HIDE DEF f, I
<1> QED
  BY <1>3, <1>4, FS_Injection

(* As records arrive, what was listed moves to later positions.              *)
LEMMA PositionGrows ==
  ASSUME NEW T \in SUBSET Records, NEW S \in SUBSET T, NEW r \in S
  PROVE  Position(S, r) <= Position(T, r)
<1>1. {x \in S : Precedes(x, r)} \subseteq {x \in T : Precedes(x, r)}
  OBVIOUS
<1>2. {x \in T : Precedes(x, r)} \in SUBSET Records
  OBVIOUS
<1> QED
  BY <1>1, <1>2, Grows DEF Position

(* A page has its limit.                                                     *)
LEMMA PageFits ==
  ASSUME NEW S \in SUBSET Records, NEW offset \in Nat
  PROVE  PageOf(S, offset) \in SUBSET S /\ Cardinality(PageOf(S, offset)) <= Limit
<1> DEFINE T == PageOf(S, offset)
           n == offset + Limit
<1>1. Limit \in Nat /\ n \in Int /\ offset <= n
  BY WorkspaceAssumption
<1>2. T \in SUBSET S /\ \A r \in T : offset <= Position(S, r) /\ Position(S, r) < n
  BY PositionType DEF PageOf
<1>3. n - offset = Limit
  BY <1>1
<1> HIDE DEF T, n
<1>4. Cardinality(T) <= n - offset
  BY <1>1, <1>2, Room
<1> QED
  BY <1>2, <1>3, <1>4 DEF T

-----------------------------------------------------------------------------
(* The relationships are finitely many: each comes with a step.              *)
TypeInv == TypeOK /\ IsFiniteSet(related)

LEMMA TableCount == Len(Tables) = 5 /\ 0..Len(Tables) = 0..5
BY DEF Tables

LEMMA Begins ==
  ASSUME TypeInv, NEW f \in Filters \cup {Nothing}, NEW offset \in Nat
  PROVE  LET next == Begin(f, offset) IN
         /\ next \in Reader /\ next.pc = "count" /\ next.filter = f
         /\ next.offset = offset /\ next.counted = 0 /\ next.answer = NoAnswer
         /\ next.asked = reader.asked /\ next.shown = reader.shown
<1>1. NoAnswer \in Answer
  BY DEF NoAnswer, Answer
<1>2. reader \in Reader
  BY DEF TypeInv, TypeOK
<1>3. 0 \in 0..Len(Tables)
  BY TableCount
<1> HIDE DEF NoAnswer
<1> QED
  BY <1>1, <1>2, <1>3 DEF Begin, Reader

LEMMA EmptyPage == NoAnswer \in Answer /\ Cardinality(NoAnswer.page) <= Limit
BY WorkspaceAssumption, FS_EmptySet DEF NoAnswer, Answer

LEMMA MatchingType == \A f : Matching(f) \in SUBSET Records
BY DEF Matching

LEMMA PaymentsType ==
  ASSUME TypeInv
  PROVE  /\ Payments \in SUBSET Records
         /\ ReconciledPayments \in SUBSET Records
BY DEF Payments, ReconciledPayments, ReconciledRelationships, Relationship,
       TypeInv, TypeOK

LEMMA TypeInit == Init => TypeInv
<1> SUFFICES ASSUME Init PROVE TypeInv
  OBVIOUS
<1>1. reader \in Reader /\ Cardinality(reader.answer.page) <= Limit
  BY EmptyPage, TableCount DEF Init, Reader
<1>2. report \in Report
  BY DEF Init, Report
<1> QED
  BY <1>1, <1>2, WorkspaceAssumption, FS_EmptySet DEF Init, TypeInv, TypeOK

LEMMA TypeStep == TypeInv /\ [Next]_vars => TypeInv'
<1> SUFFICES ASSUME TypeInv, [Next]_vars PROVE TypeInv'
  OBVIOUS
<1> USE DEF TypeInv, TypeOK
<1>1. ASSUME NEW r \in Records, Ingest(r) PROVE TypeInv'
  BY <1>1 DEF Ingest
<1>2. ASSUME NEW p \in Pairs, NEW status \in Outcomes, Relate(p[1], p[2], status)
      PROVE  TypeInv'
  <2> DEFINE l == [source |-> p[1], target |-> p[2], status |-> status]
  <2>1. related' = related \cup {l} /\ UNCHANGED <<present, disputed, reader, report>>
    BY <1>2 DEF Relate
  <2>2. l \in Relationship
    BY WorkspaceAssumption DEF Relationship
  <2> HIDE DEF l
  <2>3. IsFiniteSet(related')
    BY <2>1, FS_AddElement
  <2> QED
    BY <2>1, <2>2, <2>3
<1>3. ASSUME NEW d \in Disputes, Dispute(d[1], d[2]) PROVE TypeInv'
  <2>1. d = <<d[1], d[2]>>
    BY WorkspaceAssumption
  <2> QED
    BY <1>3, <2>1 DEF Dispute
<1>4. ASSUME NEW f \in Filters, Ask(f) PROVE TypeInv'
  <2> DEFINE next == Begin(f, 0)
  <2>1. /\ next \in Reader /\ next.answer = NoAnswer
    BY Begins
  <2>2. reader' = [next EXCEPT !.asked = Matching(f), !.shown = {}]
        /\ UNCHANGED <<facts, report>>
    BY <1>4 DEF Ask
  <2> HIDE DEF next
  <2>3. reader' \in Reader /\ reader'.answer = NoAnswer
    BY <2>1, <2>2, MatchingType DEF Reader
  <2> QED
    BY <2>2, <2>3, EmptyPage DEF facts
<1>5. CASE NextPage
  <2>1. reader.filter \in Filters \cup {Nothing} /\ reader.offset + Limit \in Nat
    BY WorkspaceAssumption DEF Reader
  <2>2. reader' \in Reader /\ reader'.answer = NoAnswer
    BY <1>5, <2>1, Begins DEF NextPage
  <2> QED
    BY <1>5, <2>2, EmptyPage DEF NextPage, facts
<1>6. CASE Count
  <2> DEFINE c == {r \in Matching(reader.filter) : Type[r] = Tables[reader.counted + 1]}
  <2>1. Cardinality(c) \in Nat
    BY MatchingType, FiniteRecords
  <2>2. /\ reader' = [reader EXCEPT !.counted = @ + 1, !.answer.total = @ + Cardinality(c)]
        /\ UNCHANGED <<facts, report>> /\ reader.counted < Len(Tables)
    BY <1>6 DEF Count
  <2> DEFINE n == reader.counted + 1
             total == reader.answer.total + Cardinality(c)
             answer == [reader.answer EXCEPT !.total = total]
  <2>3. n \in 0..Len(Tables) /\ total \in Nat
    BY <2>1, <2>2, TableCount DEF Reader, Answer
  <2>4. reader' = [reader EXCEPT !.counted = n, !.answer = answer]
    BY <2>2
  <2> HIDE DEF c, n, total
  <2>5. answer \in Answer /\ answer.page = reader.answer.page
    BY <2>3 DEF Reader, Answer
  <2> HIDE DEF answer
  <2>6. reader' \in Reader /\ reader'.answer.page = reader.answer.page
    BY <2>3, <2>4, <2>5 DEF Reader
  <2> QED
    BY <2>2, <2>6 DEF facts
<1>7. CASE SelectPage
  <2> DEFINE S == Matching(reader.filter)
             page == PageOf(S, reader.offset)
             late == Cardinality(S) - reader.answer.total
  <2>1. /\ page \in SUBSET Records /\ Cardinality(page) <= Limit
    BY MatchingType, PageFits DEF Reader
  <2>2. late \in Int
    BY MatchingType, FiniteRecords DEF Reader, Answer
  <2>3. /\ reader' = [reader EXCEPT
              !.pc = IF page = {} THEN "answered" ELSE "relate",
              !.answer.page = page, !.answer.late = late, !.shown = @ \cup page]
        /\ UNCHANGED <<facts, report>>
    BY <1>7 DEF SelectPage
  <2> HIDE DEF page, late
  <2>4. reader' \in Reader /\ reader'.answer.page = page
    BY <2>1, <2>2, <2>3 DEF Reader, Answer
  <2> QED
    BY <2>1, <2>3, <2>4 DEF facts
<1>8. CASE DecorateReconciled
  <2>1. ShownReconciled(reader.answer.page) \in SUBSET Records
    BY DEF ShownReconciled, Reader, Answer
  <2>2. reader' \in Reader /\ reader'.answer.page = reader.answer.page
    BY <1>8, <2>1 DEF DecorateReconciled, Reader, Answer
  <2> QED
    BY <1>8, <2>2 DEF DecorateReconciled, facts
<1>9. CASE DecorateDisputed
  <2>1. ShownDisputed(reader.answer.page) \in SUBSET Records
    BY DEF ShownDisputed, Reader, Answer
  <2>2. reader' \in Reader /\ reader'.answer.page = reader.answer.page
    BY <1>9, <2>1 DEF DecorateDisputed, Reader, Answer
  <2> QED
    BY <1>9, <2>2 DEF DecorateDisputed, facts
<1>10. ASSUME NEW w \in Windows, StartReport(w) PROVE TypeInv'
  <2>1. w \subseteq Records /\ Cardinality(Payments \cap w) \in Nat
    BY WorkspaceAssumption, FiniteRecords
  <2>2. report' \in Report
    BY <1>10, <2>1 DEF StartReport, Report
  <2> QED
    BY <1>10, <2>2 DEF StartReport, facts
<1>11. CASE CountRelationships
  <2>1. IsFiniteSet(ReconciledRelationships)
    BY FS_Subset DEF ReconciledRelationships
  <2>2. Cardinality(ReconciledRelationships) \in Nat
    BY <2>1, FS_CardinalityType
  <2>3. report' \in Report
    BY <1>11, <2>2, PaymentsType DEF CountRelationships, Report
  <2> QED
    BY <1>11, <2>3 DEF CountRelationships, facts
<1>12. CASE CountUnreconciled
  <2>1. Cardinality((Payments \cap report.window) \ ReconciledPayments) \in Nat
    BY PaymentsType, FiniteRecords
  <2>2. report' \in Report
    BY <1>12, <2>1, PaymentsType DEF CountUnreconciled, Report
  <2> QED
    BY <1>12, <2>2 DEF CountUnreconciled, facts
<1>13. CASE UNCHANGED vars
  BY <1>13 DEF vars
<1> QED
  BY <1>1, <1>2, <1>3, <1>4, <1>5, <1>6, <1>7, <1>8, <1>9, <1>10, <1>11, <1>12, <1>13
  DEF Next

(* Rows, answers and figures keep their shape, and no page is longer than    *)
(* its limit.                                                                *)
THEOREM TypeInvariance == Spec => []TypeOK
<1>1. Init => TypeInv
  BY TypeInit
<1>2. TypeInv /\ [Next]_vars => TypeInv'
  BY TypeStep
<1>3. TypeInv => TypeOK
  BY DEF TypeInv
<1> QED
  BY <1>1, <1>2, <1>3, PTL DEF Spec

-----------------------------------------------------------------------------
(* Nothing that is committed goes away.                                      *)
LEMMA FactsGrow ==
  ASSUME [Next]_vars
  PROVE  present \subseteq present' /\ related \subseteq related' /\ disputed \subseteq disputed'
BY DEF Next, vars, facts, Ingest, Relate, Dispute, Ask, NextPage, Count, SelectPage,
       DecorateReconciled, DecorateDisputed, StartReport, CountRelationships,
       CountUnreconciled

LEMMA ViewsGrow ==
  ASSUME [Next]_vars
  PROVE  /\ Payments \subseteq Payments'
         /\ ReconciledPayments \subseteq ReconciledPayments'
         /\ \A r : Reconciled(r) => Reconciled(r)'
         /\ \A r : HasDiscrepancy(r) => HasDiscrepancy(r)'
BY FactsGrow DEF Payments, ReconciledPayments, ReconciledRelationships, Reconciled,
                 HasDiscrepancy

-----------------------------------------------------------------------------
(* The report.  What it saw reconciled stays reconciled, and each source of a *)
(* relationship is a record that is there: the third statement looks for the *)
(* others among the same payments.                                           *)
ReportInv ==
  /\ \A l \in related : l.source \in present
  /\ report.pc = "unreconciled" => report.sources \subseteq ReconciledPayments
  /\ NoneCountedTwice

LEMMA ReportStep ==
  ASSUME TypeInv, TypeInv', ReportInv, [Next]_vars
  PROVE  ReportInv'
<1>1. \A l \in related' : l.source \in present'
  <2>1. ASSUME NEW p \in Pairs, NEW status \in Outcomes, Relate(p[1], p[2], status)
        PROVE  \A l \in related' : l.source \in present'
    BY <2>1 DEF ReportInv, Relate
  <2>2. ASSUME UNCHANGED related PROVE \A l \in related' : l.source \in present'
    BY <2>2, FactsGrow DEF ReportInv
  <2> QED
    BY <2>1, <2>2
    DEF Next, vars, facts, Ingest, Dispute, Ask, NextPage, Count, SelectPage,
        DecorateReconciled, DecorateDisputed, StartReport, CountRelationships,
        CountUnreconciled
<1>2. ASSUME UNCHANGED report PROVE ReportInv'
  <2> DEFINE w == report.window
  <2>1. w \in SUBSET Records
    BY DEF TypeInv, TypeOK, Report
  <2>2. Payments \cap w \subseteq Payments' \cap w /\ Payments' \cap w \in SUBSET Records
    BY <2>1, ViewsGrow, PaymentsType
  <2>3. Cardinality(Payments \cap w) <= Cardinality(Payments' \cap w)
    BY <2>2, Grows
  <2>4. /\ Cardinality(Payments \cap w) \in Nat /\ Cardinality(Payments' \cap w) \in Nat
        /\ report.unreconciled \in Nat /\ Cardinality(report.sources \cap w) \in Nat
    BY <2>1, FiniteRecords DEF TypeInv, TypeOK, Report
  <2>5. report.pc = "unreconciled" => report.sources \subseteq ReconciledPayments'
    BY ViewsGrow DEF ReportInv
  <2>6. report.pc = "answered" =>
          report.unreconciled + Cardinality(report.sources \cap w)
            <= Cardinality(Payments' \cap w)
    BY <2>3, <2>4 DEF ReportInv, NoneCountedTwice
  <2> QED
    BY <1>1, <1>2, <2>5, <2>6 DEF ReportInv, NoneCountedTwice
<1>3. ASSUME NEW w \in Windows, StartReport(w) PROVE ReportInv'
  <2>1. report'.pc = "relationships"
    BY <1>3 DEF StartReport
  <2> QED
    BY <1>1, <2>1 DEF ReportInv, NoneCountedTwice
<1>4. CASE CountRelationships
  <2>1. report' = [report EXCEPT !.pc = "unreconciled",
              !.reconciled = Cardinality(ReconciledRelationships),
              !.sources = ReconciledPayments]
        /\ UNCHANGED related
    BY <1>4 DEF CountRelationships, facts
  <2>2. report'.pc = "unreconciled" /\ report'.sources = ReconciledPayments
    BY <2>1 DEF TypeInv, TypeOK, Report
  <2>3. ReconciledPayments' = ReconciledPayments
    BY <2>1 DEF ReconciledPayments, ReconciledRelationships
  <2> QED
    BY <1>1, <2>2, <2>3 DEF ReportInv, NoneCountedTwice
<1>5. CASE CountUnreconciled
  <2> DEFINE w == report.window
             total == Payments \cap w
             left == total \ ReconciledPayments
             counted == report.sources \cap w
  <2>1. /\ report' = [report EXCEPT !.pc = "answered", !.unreconciled = Cardinality(left)]
        /\ report.pc = "unreconciled" /\ Payments' = Payments
    BY <1>5 DEF CountUnreconciled, facts, Payments
  <2>2. /\ report'.pc = "answered" /\ report'.unreconciled = Cardinality(left)
        /\ report'.window = w /\ report'.sources = report.sources
    BY <2>1 DEF TypeInv, TypeOK, Report
  <2>3. ReconciledPayments \subseteq Payments
    BY DEF ReportInv, ReconciledPayments, ReconciledRelationships, Payments
  <2>4. report.sources \subseteq ReconciledPayments
    BY <2>1 DEF ReportInv
  <2>5. total \in SUBSET Records
    BY PaymentsType
  <2>6. left \cup counted \in SUBSET total /\ left \cap counted = {}
    BY <2>3, <2>4
  <2> HIDE DEF total, left, counted
  <2>7. Cardinality(left \cup counted) <= Cardinality(total)
    BY <2>5, <2>6, Grows
  <2>8. Cardinality(left \cup counted) = Cardinality(left) + Cardinality(counted)
    BY <2>5, <2>6, Disjoint
  <2>9. Cardinality(left) + Cardinality(counted) <= Cardinality(total)
    BY <2>7, <2>8
  <2> QED
    BY <1>1, <2>1, <2>2, <2>9 DEF ReportInv, NoneCountedTwice, total, counted
<1> QED
  BY <1>2, <1>3, <1>4, <1>5
  DEF Next, vars, facts, Ingest, Relate, Dispute, Ask, NextPage, Count, SelectPage,
      DecorateReconciled, DecorateDisputed

(* No payment of the window is counted as reconciled and as unreconciled,    *)
(* whatever is committed between the three statements of the report.         *)
THEOREM ReportsCountOnce == Spec => []NoneCountedTwice
<1>1. Init => TypeInv
  BY TypeInit
<1>2. Init => ReportInv
  BY DEF Init, ReportInv, NoneCountedTwice
<1>3. TypeInv /\ [Next]_vars => TypeInv'
  BY TypeStep
<1>4. TypeInv /\ TypeInv' /\ ReportInv /\ [Next]_vars => ReportInv'
  BY ReportStep
<1>5. ReportInv => NoneCountedTwice
  BY DEF ReportInv
<1> QED
  BY <1>1, <1>2, <1>3, <1>4, <1>5, PTL DEF Spec

-----------------------------------------------------------------------------
(* What a step of the reader changes of it.                                  *)
LEMMA ReaderMoves ==
  ASSUME TypeInv, [Next]_vars
  PROVE  \/ reader' = reader
         \/ /\ UNCHANGED facts
            /\ reader'.pc = "count" /\ reader'.counted = 0 /\ reader'.answer = NoAnswer
            /\ \/ /\ \E f \in Filters : Ask(f) /\ reader'.filter = f
                     /\ reader'.asked = Matching(f)
                  /\ reader'.offset = 0 /\ reader'.shown = {}
               \/ /\ NextPage /\ reader'.filter = reader.filter
                  /\ reader'.offset = reader.offset + Limit
                  /\ reader'.asked = reader.asked /\ reader'.shown = reader.shown
         \/ UNCHANGED facts /\ (Count \/ SelectPage \/ DecorateReconciled \/ DecorateDisputed)
<1>1. ASSUME NEW f \in Filters, Ask(f)
      PROVE  /\ UNCHANGED facts
             /\ reader'.pc = "count" /\ reader'.counted = 0 /\ reader'.answer = NoAnswer
             /\ reader'.filter = f /\ reader'.asked = Matching(f)
             /\ reader'.offset = 0 /\ reader'.shown = {}
  <2> DEFINE next == Begin(f, 0)
  <2>1. /\ next \in Reader /\ next.pc = "count" /\ next.filter = f
        /\ next.offset = 0 /\ next.counted = 0 /\ next.answer = NoAnswer
    BY Begins
  <2>2. reader' = [next EXCEPT !.asked = Matching(f), !.shown = {}] /\ UNCHANGED facts
    BY <1>1 DEF Ask
  <2> HIDE DEF next
  <2> QED
    BY <2>1, <2>2 DEF Reader
<1>2. ASSUME NextPage
      PROVE  /\ UNCHANGED facts
             /\ reader'.pc = "count" /\ reader'.counted = 0 /\ reader'.answer = NoAnswer
             /\ reader'.filter = reader.filter
             /\ reader'.offset = reader.offset + Limit
             /\ reader'.asked = reader.asked /\ reader'.shown = reader.shown
  <2>1. reader.filter \in Filters \cup {Nothing} /\ reader.offset + Limit \in Nat
    BY WorkspaceAssumption DEF Reader, TypeInv, TypeOK
  <2> QED
    BY <1>2, <2>1, Begins DEF NextPage
<1>3. ASSUME Count \/ SelectPage \/ DecorateReconciled \/ DecorateDisputed
      PROVE  UNCHANGED facts
  BY <1>3 DEF Count, SelectPage, DecorateReconciled, DecorateDisputed
<1> QED
  BY <1>1, <1>2, <1>3
  DEF Next, vars, Ingest, Relate, Dispute, StartReport, CountRelationships, CountUnreconciled

(* The page that is selected, with what is kept of it.                       *)
LEMMA Selects ==
  ASSUME TypeInv, SelectPage
  PROVE  LET S == Matching(reader.filter)
             page == PageOf(S, reader.offset) IN
         /\ reader'.pc \in {"relate", "answered"}
         /\ reader'.pc = "answered" => page = {}
         /\ reader'.filter = reader.filter /\ reader'.offset = reader.offset
         /\ reader'.counted = reader.counted
         /\ reader'.answer.page = page /\ reader'.answer.total = reader.answer.total
         /\ reader'.answer.late = Cardinality(S) - reader.answer.total
         /\ reader'.answer.reconciled = reader.answer.reconciled
         /\ reader'.answer.disputed = reader.answer.disputed
         /\ reader'.asked = reader.asked /\ reader'.shown = reader.shown \cup page
<1> DEFINE page == PageOf(Matching(reader.filter), reader.offset)
           late == Cardinality(Matching(reader.filter)) - reader.answer.total
<1>1. reader' = [reader EXCEPT
            !.pc = IF page = {} THEN "answered" ELSE "relate",
            !.answer.page = page, !.answer.late = late, !.shown = @ \cup page]
  BY DEF SelectPage
<1> HIDE DEF page, late
<1>2. reader \in Reader /\ reader.answer \in Answer
  BY DEF TypeInv, TypeOK, Reader
<1>3. /\ reader'.pc \in {"relate", "answered"}
      /\ reader'.pc = "answered" => page = {}
      /\ reader'.filter = reader.filter /\ reader'.offset = reader.offset
      /\ reader'.counted = reader.counted
      /\ reader'.answer = [reader.answer EXCEPT !.page = page, !.late = late]
      /\ reader'.asked = reader.asked /\ reader'.shown = reader.shown \cup page
  BY <1>1, <1>2 DEF Reader
<1> QED
  BY <1>2, <1>3 DEF Answer, page, late

LEMMA Counts ==
  ASSUME TypeInv, Count
  PROVE  /\ reader'.pc = "count" /\ reader'.filter = reader.filter
         /\ reader'.offset = reader.offset
         /\ reader'.counted = reader.counted + 1
         /\ reader'.answer.page = reader.answer.page
         /\ reader'.answer.reconciled = reader.answer.reconciled
         /\ reader'.answer.disputed = reader.answer.disputed
         /\ reader'.answer.total = reader.answer.total
              + Cardinality({r \in Matching(reader.filter) :
                               Type[r] = Tables[reader.counted + 1]})
         /\ reader'.asked = reader.asked /\ reader'.shown = reader.shown
<1> DEFINE c == Cardinality({r \in Matching(reader.filter) :
                              Type[r] = Tables[reader.counted + 1]})
<1>1. /\ reader' = [reader EXCEPT !.counted = @ + 1, !.answer.total = @ + c]
      /\ reader.pc = "count"
  BY DEF Count
<1> HIDE DEF c
<1>2. reader \in Reader /\ reader.answer \in Answer
  BY DEF TypeInv, TypeOK, Reader
<1>3. /\ reader'.pc = "count" /\ reader'.filter = reader.filter
      /\ reader'.offset = reader.offset /\ reader'.counted = reader.counted + 1
      /\ reader'.answer = [reader.answer EXCEPT !.total = @ + c]
      /\ reader'.asked = reader.asked /\ reader'.shown = reader.shown
  BY <1>1, <1>2 DEF Reader
<1> QED
  BY <1>2, <1>3 DEF Answer, c

LEMMA Decorates ==
  ASSUME TypeInv, DecorateReconciled \/ DecorateDisputed
  PROVE  /\ reader'.filter = reader.filter /\ reader'.offset = reader.offset
         /\ reader'.asked = reader.asked /\ reader'.shown = reader.shown
         /\ reader'.answer.page = reader.answer.page
         /\ reader'.answer.total = reader.answer.total
         /\ reader'.answer.late = reader.answer.late
         /\ DecorateReconciled =>
              /\ reader.pc = "relate" /\ reader'.pc = "dispute"
              /\ reader'.answer.reconciled = ShownReconciled(reader.answer.page)
         /\ DecorateDisputed =>
              /\ reader.pc = "dispute" /\ reader'.pc = "answered"
              /\ reader'.answer.reconciled = reader.answer.reconciled
              /\ reader'.answer.disputed = ShownDisputed(reader.answer.page)
<1>1. reader \in Reader /\ reader.answer \in Answer
  BY DEF TypeInv, TypeOK, Reader
<1>2. ASSUME DecorateReconciled
      PROVE  /\ reader'.filter = reader.filter /\ reader'.offset = reader.offset
             /\ reader'.asked = reader.asked /\ reader'.shown = reader.shown
             /\ reader.pc = "relate" /\ reader'.pc = "dispute"
             /\ reader'.answer = [reader.answer EXCEPT
                  !.reconciled = ShownReconciled(reader.answer.page)]
  BY <1>1, <1>2 DEF Reader, DecorateReconciled
<1>3. ASSUME DecorateDisputed
      PROVE  /\ reader'.filter = reader.filter /\ reader'.offset = reader.offset
             /\ reader'.asked = reader.asked /\ reader'.shown = reader.shown
             /\ reader.pc = "dispute" /\ reader'.pc = "answered"
             /\ reader'.answer = [reader.answer EXCEPT
                  !.disputed = ShownDisputed(reader.answer.page)]
  BY <1>1, <1>3 DEF Reader, DecorateDisputed
<1> QED
  BY <1>1, <1>2, <1>3 DEF Answer

-----------------------------------------------------------------------------
(* What the filter found of each record of the page is still found when the  *)
(* page is decorated.                                                        *)
PageInv ==
  /\ reader.pc = "count" =>
       reader.answer.page = {} /\ reader.answer.reconciled = {} /\ reader.answer.disputed = {}
  /\ reader.pc \in {"relate", "dispute", "answered"} =>
       /\ reader.filter.reconciled = {TRUE} =>
            \A r \in reader.answer.page : Reconciled(r)
       /\ reader.filter.disputed = {TRUE} =>
            \A r \in reader.answer.page : HasDiscrepancy(r)
  /\ reader.pc \in {"dispute", "answered"} =>
       (reader.filter.reconciled = {TRUE} => reader.answer.reconciled = reader.answer.page)
  /\ PageMatchesFilter

LEMMA AllShown ==
  ASSUME NEW page
  PROVE  /\ (\A r \in page : Reconciled(r)) => ShownReconciled(page) = page
         /\ (\A r \in page : HasDiscrepancy(r)) => ShownDisputed(page) = page
BY DEF Reconciled, HasDiscrepancy, ShownReconciled, ShownDisputed

LEMMA PageStep ==
  ASSUME TypeInv, PageInv, [Next]_vars
  PROVE  PageInv'
<1>1. CASE reader' = reader
  BY <1>1, ViewsGrow DEF PageInv, PageMatchesFilter
<1>2. CASE reader'.pc = "count" /\ reader'.answer = NoAnswer
  BY <1>2 DEF PageInv, PageMatchesFilter, NoAnswer
<1>3. CASE Count
  <2>1. reader.pc = "count" /\ reader'.pc = "count"
    BY <1>3, Counts DEF Count
  <2> QED
    BY <1>3, <2>1, Counts DEF PageInv, PageMatchesFilter
<1>4. CASE SelectPage
  <2> DEFINE S == Matching(reader.filter)
             page == PageOf(S, reader.offset)
  <2>1. /\ reader'.pc \in {"relate", "answered"}
        /\ reader'.pc = "answered" => page = {}
        /\ reader'.filter = reader.filter /\ reader'.answer.page = page
        /\ reader'.answer.reconciled = {} /\ reader'.answer.disputed = {}
    BY <1>4, Selects DEF PageInv, SelectPage
  <2>2. \A r \in page : Matches(reader.filter, r)
    BY DEF PageOf, Matching
  <2>3. /\ reader.filter.reconciled = {TRUE} => \A r \in page : Reconciled(r)
        /\ reader.filter.disputed = {TRUE} => \A r \in page : HasDiscrepancy(r)
    BY <2>2 DEF Matches
  <2>4. \A r \in page : /\ Reconciled(r) => Reconciled(r)'
                        /\ HasDiscrepancy(r) => HasDiscrepancy(r)'
    BY ViewsGrow
  <2> HIDE DEF page
  <2> QED
    BY <2>1, <2>3, <2>4 DEF PageInv, PageMatchesFilter
<1>5. CASE DecorateReconciled
  BY <1>5, Decorates, AllShown, ViewsGrow DEF PageInv, PageMatchesFilter
<1>6. CASE DecorateDisputed
  BY <1>6, Decorates, AllShown, ViewsGrow DEF PageInv, PageMatchesFilter
<1> QED
  BY <1>1, <1>2, <1>3, <1>4, <1>5, <1>6, ReaderMoves

(* "reconciled" and "has_discrepancy" filter and badge agree on each page,   *)
(* although the badge is read statements after the page was filtered.        *)
THEOREM PagesMatchTheirFilter == Spec => []PageMatchesFilter
<1>1. Init => TypeInv
  BY TypeInit
<1>2. Init => PageInv
  BY DEF Init, PageInv, PageMatchesFilter
<1>3. TypeInv /\ [Next]_vars => TypeInv'
  BY TypeStep
<1>4. TypeInv /\ PageInv /\ [Next]_vars => PageInv'
  BY PageStep
<1>5. PageInv => PageMatchesFilter
  BY DEF PageInv
<1> QED
  BY <1>1, <1>2, <1>3, <1>4, <1>5, PTL DEF Spec

-----------------------------------------------------------------------------
(* The walk.  Records that match keep matching, so that those that matched   *)
(* when it began and were not shown yet lie behind the page that is at hand. *)
Behind == IF reader.pc = "count" THEN reader.offset ELSE reader.offset + Limit

Counted(f) ==
  {r \in Matching(f) : \E i \in 1..reader.counted : Type[r] = Tables[i]}

Walks(f) ==
  /\ reader.asked \subseteq Matching(f)
  /\ \A r \in reader.asked \ reader.shown : Position(Matching(f), r) >= Behind
  /\ reader.pc = "count" => reader.answer.total <= Cardinality(Counted(f))
  /\ /\ reader.pc # "count"
     /\ reader.offset + Limit >= reader.answer.total
     => Cardinality(reader.asked \ reader.shown) <= reader.answer.late

WalkInv ==
  reader.pc # "idle" =>
    /\ reader.filter \in Filters
    /\ \A f \in Filters : f = reader.filter /\ Growing(f) => Walks(f)

LEMMA MatchingGrows ==
  ASSUME [Next]_vars, NEW f, Growing(f)
  PROVE  Matching(f) \subseteq Matching(f)'
<1> SUFFICES ASSUME NEW r \in Records, Matches(f, r) PROVE Matches(f, r)'
  BY DEF Matching
<1>1. r \in present'
  BY FactsGrow DEF Matches
<1>2. Reconciled(r)' \in f.reconciled
  BY ViewsGrow DEF Matches, Growing, Reconciled
<1>3. HasDiscrepancy(r)' \in f.disputed
  BY ViewsGrow DEF Matches, Growing, HasDiscrepancy
<1> QED
  BY <1>1, <1>2, <1>3 DEF Matches

LEMMA ReaderFacts ==
  ASSUME TypeInv
  PROVE  /\ reader.offset \in Nat /\ Limit \in Nat /\ reader.answer.total \in Nat
         /\ reader.counted \in 0..5 /\ reader.answer.late \in Int
         /\ reader.asked \in SUBSET Records /\ reader.shown \in SUBSET Records
BY WorkspaceAssumption, TableCount DEF TypeInv, TypeOK, Reader, Answer

(* The facts grow while the reader stands.                                   *)
LEMMA Standing ==
  ASSUME TypeInv, [Next]_vars, reader' = reader, NEW f \in Filters, Growing(f), Walks(f)
  PROVE  Walks(f)'
<1> DEFINE S == Matching(f)
           T == Matching(f)'
<1>1. S \in SUBSET T /\ T \in SUBSET Records
  <2>1. T \in SUBSET Records
    BY DEF Matching
  <2> QED
    BY <2>1, MatchingGrows
<1>2. \A r \in reader.asked \ reader.shown : Position(T, r) >= Behind
  <2> SUFFICES ASSUME NEW r \in reader.asked \ reader.shown PROVE Position(T, r) >= Behind
    OBVIOUS
  <2>1. r \in S /\ Position(S, r) >= Behind
    BY DEF Walks
  <2>2. Position(S, r) <= Position(T, r)
    BY <1>1, <2>1, PositionGrows
  <2>3. Position(S, r) \in Nat /\ Position(T, r) \in Nat /\ Behind \in Nat
    BY <1>1, <2>1, PositionType, ReaderFacts DEF Behind
  <2> QED
    BY <2>1, <2>2, <2>3
<1>3. reader.pc = "count" => reader.answer.total <= Cardinality(Counted(f)')
  <2>1. Counted(f) \in SUBSET Counted(f)' /\ Counted(f)' \in SUBSET Records
    BY <1>1 DEF Counted
  <2>2. Cardinality(Counted(f)) <= Cardinality(Counted(f)')
    BY <2>1, Grows
  <2>3. Cardinality(Counted(f)) \in Nat /\ Cardinality(Counted(f)') \in Nat
    BY <2>1, FiniteRecords
  <2> QED
    BY <2>2, <2>3, ReaderFacts DEF Walks
<1>4. \A r : Position(Matching(f), r)' = Position(T, r)
  BY DEF Position, Precedes
<1>5. Behind' = Behind
  BY DEF Behind
<1>6. reader.asked \subseteq T
  BY <1>1 DEF Walks
<1>7. reader.pc # "count" /\ reader.offset + Limit >= reader.answer.total
        => Cardinality(reader.asked \ reader.shown) <= reader.answer.late
  BY DEF Walks
<1>8. T = Matching(f)'
  OBVIOUS
<1> HIDE DEF S, T
<1> QED
  BY <1>2, <1>3, <1>4, <1>5, <1>6, <1>7, <1>8 DEF Walks

LEMMA SameFacts ==
  ASSUME UNCHANGED facts
  PROVE  /\ \A f : Matching(f)' = Matching(f)
         /\ \A f, r : Position(Matching(f), r)' = Position(Matching(f), r)
<1>1. UNCHANGED <<present, related, disputed>>
  BY DEF facts
<1>2. \A f : Matching(f)' = Matching(f)
  BY <1>1 DEF Matching, Matches, Reconciled, HasDiscrepancy
<1> QED
  BY <1>2 DEF Position, Precedes

LEMMA WalkBegins ==
  ASSUME TypeInv, TypeInv', UNCHANGED facts, NEW f \in Filters,
         reader'.pc = "count", reader'.counted = 0, reader'.answer = NoAnswer,
         \/ /\ reader'.asked = Matching(f) /\ reader'.shown = {}
            /\ reader'.offset = 0
         \/ /\ reader.pc = "answered" /\ Walks(f)
            /\ reader'.offset = reader.offset + Limit
            /\ reader'.asked = reader.asked /\ reader'.shown = reader.shown
  PROVE  Walks(f)'
<1>1. reader'.asked \subseteq Matching(f)'
  BY SameFacts DEF Walks
<1>2. ASSUME NEW r \in reader'.asked \ reader'.shown
      PROVE  Position(Matching(f), r)' >= reader'.offset
  <2>1. Position(Matching(f), r)' = Position(Matching(f), r)
    BY SameFacts
  <2>2. Position(Matching(f), r) \in Nat
    BY <1>1, <1>2, SameFacts, MatchingType, PositionType
  <2>3. CASE reader'.offset = 0
    BY <2>1, <2>2, <2>3
  <2>4. CASE /\ reader.pc = "answered" /\ Walks(f)
             /\ reader'.offset = reader.offset + Limit
             /\ reader'.asked = reader.asked /\ reader'.shown = reader.shown
    BY <1>2, <2>1, <2>4 DEF Walks, Behind
  <2> QED
    BY <2>3, <2>4
<1>3. reader'.answer.total <= Cardinality(Counted(f)')
  <2>1. Counted(f)' \in SUBSET Records
    BY DEF Counted, Matching
  <2>2. Cardinality(Counted(f)') \in Nat
    BY <2>1, FiniteRecords
  <2> QED
    BY <2>2 DEF NoAnswer
<1>4. Behind' = reader'.offset
  BY DEF Behind
<1> QED
  BY <1>1, <1>2, <1>3, <1>4 DEF Walks

LEMMA WalkCounts ==
  ASSUME TypeInv, NEW f \in Filters, f = reader.filter, Walks(f), Count
  PROVE  Walks(f)'
<1> DEFINE n == reader.counted
           c == {r \in Matching(f) : Type[r] = Tables[n + 1]}
<1>1. /\ UNCHANGED facts /\ reader.pc = "count" /\ reader'.pc = "count" /\ n < 5
      /\ reader'.offset = reader.offset /\ reader'.counted = n + 1
      /\ reader'.answer.total = reader.answer.total + Cardinality(c)
      /\ reader'.asked = reader.asked /\ reader'.shown = reader.shown
  BY Counts, TableCount DEF Count
<1>2. n \in 0..4
  BY <1>1, ReaderFacts
<1>3. \A i \in 1..n : Tables[i] # Tables[n + 1]
  BY <1>2 DEF Tables
<1>4. Counted(f)' = Counted(f) \cup c
  <2>1. 1..(n + 1) = 1..n \cup {n + 1}
    BY <1>2
  <2>2. Matching(f)' = Matching(f)
    BY <1>1, SameFacts
  <2> QED
    BY <1>1, <2>1, <2>2 DEF Counted
<1>5. Counted(f) \in SUBSET Records /\ c \in SUBSET Records /\ Counted(f) \cap c = {}
  BY <1>3, MatchingType DEF Counted
<1> HIDE DEF n, c
<1>6. Cardinality(Counted(f) \cup c) = Cardinality(Counted(f)) + Cardinality(c)
  BY <1>5, Disjoint
<1>7. reader'.answer.total <= Cardinality(Counted(f)')
  <2>1. reader.answer.total <= Cardinality(Counted(f))
    BY <1>1 DEF Walks
  <2> QED
    BY <1>1, <1>4, <1>5, <1>6, <2>1, ReaderFacts, FiniteRecords
<1>8. Behind' = Behind
  BY <1>1 DEF Behind
<1> QED
  BY <1>1, <1>7, <1>8, SameFacts DEF Walks

LEMMA WalkSelects ==
  ASSUME TypeInv, NEW f \in Filters, f = reader.filter, Walks(f), SelectPage
  PROVE  Walks(f)'
<1> DEFINE S == Matching(f)
           page == PageOf(S, reader.offset)
           missing == reader.asked \ (reader.shown \cup page)
           end == reader.offset + Limit
           total == reader.answer.total
<1>1. /\ UNCHANGED facts /\ reader.pc = "count" /\ reader'.pc # "count"
      /\ reader.counted = 5
      /\ reader'.offset = reader.offset /\ reader'.answer.total = total
      /\ reader'.answer.late = Cardinality(S) - total
      /\ reader'.asked = reader.asked /\ reader'.shown = reader.shown \cup page
  BY Selects, TableCount DEF SelectPage
<1>2. S \in SUBSET Records /\ Cardinality(S) \in Nat /\ end \in Nat /\ total \in Nat
  BY MatchingType, FiniteRecords, ReaderFacts
<1>3. missing \in SUBSET S
  BY DEF Walks
<1>4. \A r \in missing : end <= Position(S, r) /\ Position(S, r) < Cardinality(S)
  <2> SUFFICES ASSUME NEW r \in missing
               PROVE  end <= Position(S, r) /\ Position(S, r) < Cardinality(S)
    OBVIOUS
  <2>1. reader.offset <= Position(S, r) /\ r \in S
    BY <1>1, <1>3 DEF Walks, Behind
  <2>2. Position(S, r) \in Nat /\ Position(S, r) < Cardinality(S)
    BY <1>2, <2>1, PositionType
  <2>3. ~(Position(S, r) < end)
    BY <2>1, <2>2 DEF PageOf
  <2> QED
    BY <1>2, <2>2, <2>3
<1>5. total <= Cardinality(S)
  <2>1. Counted(f) \in SUBSET S
    BY DEF Counted
  <2>2. Cardinality(Counted(f)) <= Cardinality(S) /\ Cardinality(Counted(f)) \in Nat
    BY <1>2, <2>1, Grows, FiniteRecords
  <2>3. total <= Cardinality(Counted(f))
    BY <1>1 DEF Walks
  <2> QED
    BY <1>2, <2>2, <2>3
<1>6. end >= total => Cardinality(missing) <= Cardinality(S) - total
  <2>1. /\ Cardinality(S) \in Int /\ missing \in SUBSET Records
        /\ \A r \in missing : Position(S, r) \in Nat
    BY <1>2, <1>3, PositionType
  <2>2. Cardinality(missing) \in Nat
    BY <2>1, FiniteRecords
  <2> HIDE DEF S, page, missing, end, total
  <2>3. CASE end <= Cardinality(S)
    <3>1. Cardinality(missing) <= Cardinality(S) - end
      BY <1>2, <1>3, <1>4, <2>1, <2>3, Room
    <3> QED
      BY <1>2, <2>2, <3>1
  <2>4. CASE end > Cardinality(S)
    <3>1. ASSUME NEW r \in missing PROVE FALSE
      BY <1>2, <1>4, <2>1, <2>4
    <3>2. missing = {}
      BY <3>1
    <3>3. Cardinality(missing) = 0
      BY <3>2, FS_EmptySet
    <3> QED
      BY <1>2, <1>5, <3>3
  <2> QED
    BY <1>2, <2>3, <2>4
<1>7. Behind' = end
  BY <1>1 DEF Behind
<1>8. reader'.asked \ reader'.shown = missing
  BY <1>1
<1>9. \A r : Position(Matching(f), r)' = Position(S, r)
  BY <1>1, SameFacts
<1>10. reader'.asked \subseteq Matching(f)'
  BY <1>1, SameFacts DEF Walks
<1>11. \A r \in missing : Position(S, r) >= end
  BY <1>2, <1>3, <1>4, PositionType
<1> HIDE DEF S, missing, page
<1> QED
  BY <1>1, <1>6, <1>7, <1>8, <1>9, <1>10, <1>11 DEF Walks

LEMMA WalkStep ==
  ASSUME TypeInv, TypeInv', WalkInv, [Next]_vars
  PROVE  WalkInv'
<1> SUFFICES ASSUME reader'.pc # "idle"
             PROVE  /\ reader'.filter \in Filters
                    /\ \A f \in Filters : f = reader'.filter /\ Growing(f) => Walks(f)'
  BY DEF WalkInv
<1>1. CASE reader' = reader
  BY <1>1, Standing DEF WalkInv
<1>2. ASSUME NEW f \in Filters, UNCHANGED facts, reader'.filter = f,
             reader'.pc = "count", reader'.counted = 0, reader'.answer = NoAnswer,
             reader'.asked = Matching(f), reader'.offset = 0, reader'.shown = {}
      PROVE  /\ reader'.filter \in Filters
             /\ \A g \in Filters : g = reader'.filter /\ Growing(g) => Walks(g)'
  BY <1>2, WalkBegins
<1>3. ASSUME UNCHANGED facts, NextPage, reader'.filter = reader.filter,
             reader'.pc = "count", reader'.counted = 0, reader'.answer = NoAnswer,
             reader'.offset = reader.offset + Limit,
             reader'.asked = reader.asked, reader'.shown = reader.shown
      PROVE  /\ reader'.filter \in Filters
             /\ \A g \in Filters : g = reader'.filter /\ Growing(g) => Walks(g)'
  <2>1. reader.pc = "answered"
    BY <1>3 DEF NextPage
  <2> QED
    BY <1>3, <2>1, WalkBegins DEF WalkInv
<1>4. CASE Count
  <2>1. reader.pc # "idle" /\ reader'.filter = reader.filter
    BY <1>4, Counts DEF Count
  <2> QED
    BY <1>4, <2>1, WalkCounts DEF WalkInv
<1>5. CASE SelectPage
  <2>1. reader.pc # "idle" /\ reader'.filter = reader.filter
    BY <1>5, Selects DEF SelectPage
  <2> QED
    BY <1>5, <2>1, WalkSelects DEF WalkInv
<1>6. CASE UNCHANGED facts /\ (DecorateReconciled \/ DecorateDisputed)
  <2>1. /\ reader.pc \in {"relate", "dispute"} /\ reader'.pc \in {"dispute", "answered"}
        /\ reader'.filter = reader.filter /\ reader'.offset = reader.offset
        /\ reader'.asked = reader.asked /\ reader'.shown = reader.shown
        /\ reader'.answer.total = reader.answer.total
        /\ reader'.answer.late = reader.answer.late
    BY <1>6, Decorates
  <2>2. Behind' = Behind
    BY <2>1 DEF Behind
  <2>3. \A f \in Filters : Walks(f) => Walks(f)'
    BY <1>6, <2>1, <2>2, SameFacts DEF Walks
  <2> QED
    BY <2>1, <2>3 DEF WalkInv
<1> QED
  BY <1>1, <1>2, <1>3, <1>4, <1>5, <1>6, ReaderMoves

(* Whatever is committed between the statements of a walk: what it misses of *)
(* the records that matched when it began is no more than what came between  *)
(* the count and the selection of its last page.                             *)
THEOREM WalksMissOnlyLate == Spec => []WalkMissesOnlyLate
<1>1. Init => TypeInv
  BY TypeInit
<1>2. Init => WalkInv
  BY DEF Init, WalkInv
<1>3. TypeInv /\ [Next]_vars => TypeInv'
  BY TypeStep
<1>4. TypeInv /\ TypeInv' /\ WalkInv /\ [Next]_vars => WalkInv'
  BY WalkStep
<1>5. WalkInv => WalkMissesOnlyLate
  BY DEF WalkInv, Walks, WalkMissesOnlyLate
<1> QED
  BY <1>1, <1>2, <1>3, <1>4, <1>5, PTL DEF Spec

-----------------------------------------------------------------------------
(* What a page repeats.  A walk has shown no more records than there are     *)
(* places before the page that is at hand, so that each of them that comes   *)
(* again has left its place to a record that was never shown.                *)
ShownInv == Cardinality(reader.shown) <= Behind

LEMMA ShownStep ==
  ASSUME TypeInv, ShownInv, [Next]_vars
  PROVE  ShownInv'
<1>1. CASE reader' = reader
  BY <1>1 DEF ShownInv, Behind
<1>2. CASE reader'.pc = "count" /\ reader'.offset = 0 /\ reader'.shown = {}
  BY <1>2, FS_EmptySet DEF ShownInv, Behind
<1>3. CASE /\ NextPage /\ reader'.pc = "count"
           /\ reader'.offset = reader.offset + Limit /\ reader'.shown = reader.shown
  BY <1>3 DEF ShownInv, Behind, NextPage
<1>4. CASE Count
  BY <1>4, Counts DEF ShownInv, Behind, Count
<1>5. CASE SelectPage
  <2> DEFINE page == PageOf(Matching(reader.filter), reader.offset)
  <2>1. /\ reader.pc = "count" /\ reader'.pc # "count"
        /\ reader'.offset = reader.offset /\ reader'.shown = reader.shown \cup page
    BY <1>5, Selects DEF SelectPage
  <2>2. page \in SUBSET Records /\ Cardinality(page) <= Limit
    BY MatchingType, ReaderFacts, PageFits
  <2> HIDE DEF page
  <2>3. Cardinality(reader.shown \cup page) <= Cardinality(reader.shown) + Cardinality(page)
    BY <2>2, ReaderFacts, AtMostBoth
  <2>4. /\ Cardinality(reader.shown \cup page) \in Nat
        /\ Cardinality(reader.shown) \in Nat /\ Cardinality(page) \in Nat
    BY <2>2, ReaderFacts, FiniteRecords
  <2>5. Cardinality(reader.shown) <= reader.offset
    BY <2>1 DEF ShownInv, Behind
  <2>6. Cardinality(reader.shown \cup page) <= reader.offset + Limit
    BY <2>2, <2>3, <2>4, <2>5, ReaderFacts
  <2> QED
    BY <2>1, <2>6 DEF ShownInv, Behind
<1>6. CASE DecorateReconciled \/ DecorateDisputed
  BY <1>6, Decorates DEF ShownInv, Behind
<1> QED
  BY <1>1, <1>2, <1>3, <1>4, <1>5, <1>6, ReaderMoves

(* Of a list that is long enough, the first places are all taken.            *)
LEMMA FirstPlaces ==
  ASSUME NEW S \in SUBSET Records, NEW n \in Nat, n <= Cardinality(S)
  PROVE  n <= Cardinality({x \in S : Position(S, x) < n})
<1> DEFINE first == {x \in S : Position(S, x) < n}
           rest == S \ first
           c == Cardinality(S)
<1>1. /\ first \in SUBSET Records /\ rest \in SUBSET S /\ first \cap rest = {}
      /\ first \cup rest = S
  OBVIOUS
<1>2. c \in Nat /\ Cardinality(first) \in Nat /\ Cardinality(rest) \in Nat
  BY FiniteRecords
<1>3. \A r \in rest : n <= Position(S, r) /\ Position(S, r) < c
  BY PositionType
<1>4. c = Cardinality(first) + Cardinality(rest)
  <2>1. Cardinality(first \cup rest) = Cardinality(first) + Cardinality(rest)
    BY <1>1, Disjoint
  <2> QED
    BY <1>1, <2>1
<1>5. Cardinality(rest) <= c - n
  <2> HIDE DEF rest, c
  <2> QED
    BY <1>1, <1>2, <1>3, Room DEF c
<1> HIDE DEF first, rest, c
<1>6. n <= Cardinality(first)
  BY <1>2, <1>4, <1>5
<1> QED
  BY <1>6 DEF first

LEMMA RepeatStep ==
  ASSUME TypeInv, WalkInv, ShownInv, SelectPage, Growing(reader.filter)
  PROVE  Cardinality(reader'.answer.page \cap reader.shown)
           <= Cardinality(Matching(reader.filter) \ reader.asked)
<1> DEFINE S == Matching(reader.filter)
           n == reader.offset
           shown == reader.shown
           first == {x \in S : Position(S, x) < n}
           repeats == PageOf(S, n) \cap shown
           kept == first \cap shown
           pushed == first \ shown
           new == S \ reader.asked
<1>1. reader'.answer.page = PageOf(S, n)
  BY Selects
<1>2. reader.pc = "count" /\ reader.filter \in Filters /\ Walks(reader.filter)
  BY DEF SelectPage, WalkInv
<1>3. S \in SUBSET Records /\ shown \in SUBSET Records /\ n \in Nat
  BY MatchingType, ReaderFacts
<1>4. \A r \in S : Position(S, r) \in Nat /\ Position(S, r) < Cardinality(S)
  BY <1>3, PositionType
<1>5. \A r \in reader.asked \ shown : Position(S, r) >= n
  BY <1>2 DEF Walks, Behind
<1>6. Cardinality(shown) <= n
  BY <1>2 DEF ShownInv, Behind
<1>7. /\ repeats \in SUBSET Records /\ kept \in SUBSET Records /\ pushed \in SUBSET Records
      /\ new \in SUBSET Records /\ first \in SUBSET Records
  BY <1>3 DEF PageOf
<1>8. /\ Cardinality(repeats) \in Nat /\ Cardinality(kept) \in Nat
      /\ Cardinality(pushed) \in Nat /\ Cardinality(new) \in Nat
      /\ Cardinality(first) \in Nat /\ Cardinality(shown) \in Nat
      /\ Cardinality(S) \in Nat
  BY <1>3, <1>7, FiniteRecords
<1>9. CASE repeats = {}
  <2>1. Cardinality(repeats) = 0
    BY <1>9, FS_EmptySet
  <2>2. Cardinality(repeats) <= Cardinality(new)
    BY <1>8, <2>1
  <2> QED
    BY <1>1, <2>2
<1>10. CASE repeats # {}
  <2>1. n <= Cardinality(S)
    <3>1. PICK r \in S : n <= Position(S, r)
      BY <1>3, <1>4, <1>10 DEF PageOf
    <3> QED
      BY <1>3, <1>4, <1>8, <3>1
  <2>2. n <= Cardinality(first)
    BY <1>3, <2>1, FirstPlaces
  <2>3. kept \cup repeats \in SUBSET shown /\ kept \cap repeats = {}
    BY <1>3, <1>4 DEF PageOf
  <2>4. kept \cup pushed = first /\ kept \cap pushed = {}
    OBVIOUS
  <2>5. pushed \in SUBSET new
    BY <1>3, <1>4, <1>5
  <2> HIDE DEF S, n, shown, first, repeats, kept, pushed, new
  <2>6. Cardinality(kept) + Cardinality(repeats) <= Cardinality(shown)
    <3>1. Cardinality(kept \cup repeats) = Cardinality(kept) + Cardinality(repeats)
      BY <1>7, <2>3, Disjoint
    <3>2. Cardinality(kept \cup repeats) <= Cardinality(shown)
      BY <1>3, <2>3, Grows
    <3> QED
      BY <3>1, <3>2
  <2>7. Cardinality(first) = Cardinality(kept) + Cardinality(pushed)
    BY <1>7, <2>4, Disjoint
  <2>8. Cardinality(pushed) <= Cardinality(new)
    BY <1>7, <2>5, Grows
  <2>9. Cardinality(repeats) <= Cardinality(new)
    BY <1>3, <1>6, <1>8, <2>2, <2>6, <2>7, <2>8
  <2> QED
    BY <1>1, <2>9 DEF S, n, shown, repeats, new
<1> QED
  BY <1>9, <1>10

(* Whatever is committed between the statements of a walk: a page repeats no *)
(* more records than have come into the list since the walk began.           *)
THEOREM RepeatsAreBounded == Spec => RepeatsArePushed
<1>1. Init => TypeInv
  BY TypeInit
<1>2. Init => WalkInv /\ ShownInv
  <2> SUFFICES ASSUME Init PROVE WalkInv /\ ShownInv
    OBVIOUS
  <2>1. WalkInv
    BY DEF Init, WalkInv
  <2>2. Cardinality({}) = 0 /\ Limit \in Nat
    BY FS_EmptySet, WorkspaceAssumption
  <2> QED
    BY <2>1, <2>2 DEF Init, ShownInv, Behind
<1>3. TypeInv /\ [Next]_vars => TypeInv'
  BY TypeStep
<1>4. TypeInv /\ TypeInv' /\ WalkInv /\ [Next]_vars => WalkInv'
  BY WalkStep
<1>5. TypeInv /\ ShownInv /\ [Next]_vars => ShownInv'
  BY ShownStep
<1>6. TypeInv /\ WalkInv /\ ShownInv =>
        [SelectPage /\ Growing(reader.filter) =>
           Cardinality(reader'.answer.page \cap reader.shown)
             <= Cardinality(Matching(reader.filter) \ reader.asked)]_vars
  BY RepeatStep
<1> QED
  BY <1>1, <1>2, <1>3, <1>4, <1>5, <1>6, PTL DEF Spec, RepeatsArePushed

-----------------------------------------------------------------------------
(* The badge of the list and the sections of the detail page look for the    *)
(* same rows.                                                                *)
LEMMA StatesAgree ==
  ASSUME TypeInv, NEW r \in present
  PROVE  /\ Reconciled(r) <=> r \in ShownReconciled(present)
         /\ Reconciled(r) <=> DerivedRelationships(r) # {}
         /\ HasDiscrepancy(r) <=> r \in ShownDisputed(present)
         /\ HasDiscrepancy(r) <=> DerivedDiscrepancies(r) # {}
<1>1. Reconciled(r) <=> r \in ShownReconciled(present)
  BY DEF Reconciled, ShownReconciled
<1>2. Reconciled(r) <=> DerivedRelationships(r) # {}
  BY DEF Reconciled, DerivedRelationships
<1>3. HasDiscrepancy(r) <=> r \in ShownDisputed(present)
  BY DEF HasDiscrepancy, ShownDisputed
<1>4. HasDiscrepancy(r) <=> DerivedDiscrepancies(r) # {}
  BY DEF HasDiscrepancy, DerivedDiscrepancies
<1> QED
  BY <1>1, <1>2, <1>3, <1>4

LEMMA TypeNames ==
  ASSUME NEW r \in Records
  PROVE  Type[r] \in {"PAYMENT", "REFUND", "FEE", "SETTLEMENT", "BANK_TRANSACTION"}
<1>1. ToSet(Tables) = {Tables[i] : i \in DOMAIN Tables}
  BY DEF ToSet
<1>2. DOMAIN Tables = 1..5
  BY DEF Tables
<1>3. \A i \in 1..5 :
        Tables[i] \in {"PAYMENT", "REFUND", "FEE", "SETTLEMENT", "BANK_TRANSACTION"}
  BY DEF Tables
<1> QED
  BY <1>1, <1>2, <1>3, WorkspaceAssumption

(* Type by type: what the detail page names is in the lineage.               *)
LEMMA RelatedIsInLineage ==
  ASSUME NEW r \in Records, NEW x \in Related(r), x \notin Lineage(r)
  PROVE  Type[r] = "FEE" /\ x = SettlementOf[r]
<1>1. CASE Type[r] = "PAYMENT"
  BY <1>1 DEF Related, Lineage
<1>2. CASE Type[r] = "REFUND"
  BY <1>2, RefundAssumption DEF Related, Lineage
<1>3. CASE Type[r] = "SETTLEMENT"
  BY <1>3 DEF Related, Lineage
<1>4. CASE Type[r] = "BANK_TRANSACTION"
  BY <1>4 DEF Related, Lineage
<1>5. CASE Type[r] = "FEE"
  BY <1>5 DEF Related, Lineage
<1> QED
  BY <1>1, <1>2, <1>3, <1>4, <1>5, TypeNames

(* Whatever is stored: the badges of the list, the predicates that filter it *)
(* and the detail page say the same of a record, and what the detail page    *)
(* names as related is in the lineage, but for the settlement of a fee.      *)
THEOREM ViewsDoAgree == Spec => []ViewsAgree
<1>1. TypeInv => ViewsAgree
  <2> SUFFICES ASSUME TypeInv, NEW r \in present
               PROVE  /\ Reconciled(r) <=> r \in ShownReconciled(present)
                      /\ Reconciled(r) <=> DerivedRelationships(r) # {}
                      /\ HasDiscrepancy(r) <=> r \in ShownDisputed(present)
                      /\ HasDiscrepancy(r) <=> DerivedDiscrepancies(r) # {}
                      /\ \A x \in Related(r) \ Lineage(r) :
                           Type[r] = "FEE" /\ x = SettlementOf[r]
    BY DEF ViewsAgree
  <2>1. r \in Records
    BY DEF TypeInv, TypeOK
  <2> QED
    BY <2>1, StatesAgree, RelatedIsInLineage
<1>2. Init => TypeInv
  BY TypeInit
<1>3. TypeInv /\ [Next]_vars => TypeInv'
  BY TypeStep
<1> QED
  BY <1>1, <1>2, <1>3, PTL DEF Spec
=============================================================================
