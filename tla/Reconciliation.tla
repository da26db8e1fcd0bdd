--------------------------- MODULE Reconciliation ---------------------------
(***************************************************************************)
(* services/reconciliation: a run matches payments with settlement items   *)
(* and settlements with bank transactions, and stores relationships and    *)
(* discrepancies.  The whole run is one transaction, which the route that  *)
(* triggers it commits; a run that raises leaves nothing.                  *)
(*                                                                         *)
(* A runner is one POST /reconciliation/run in flight.  A source is a      *)
(* payment or a settlement; a link is a settlement item or a bank          *)
(* transaction, which names its source and what it relates it to.          *)
(***************************************************************************)
EXTENDS Integers, FiniteSets

CONSTANTS
  Payments,     \* ids of payments rows (dated ones: no run loads the others)
  Settlements,  \* ids of settlements rows
  Money,        \* the amounts and the currency of each source
  Links,        \* ids of settlement_items and bank_transactions rows
  Link,         \* source, target, amount, currency and lateness of each link
  Runners,      \* requests in flight
  Nothing,      \* no source, no link, or an amount that is NULL
  Early,        \* the links that are stored before the first run
  Mortal        \* the runners that may die between two of their steps

Sources == Payments \cup Settlements

ASSUME RunnersAssumption == IsFiniteSet(Runners)

ASSUME MortalAssumption == Mortal \subseteq Runners

ASSUME LinkAssumption == \A l \in Links : Link[l].source \in Sources

ASSUME EarlyAssumption == Early \subseteq Links

ASSUME NothingAssumption == Nothing \notin Links \cup Sources

VARIABLES
  dates,          \* what the driver returns: naive or aware timestamps
  age,            \* of each source: young, old (3 days), past (14 days)
  present,        \* the links that are stored (written elsewhere)
  relationships,  \* the reconciliation_relationships table
  discrepancies,  \* the discrepancies table: how many rows for each key
  runner          \* what each runner is doing

ledger == <<dates, age, present>>
tables == <<relationships, discrepancies>>
vars == <<ledger, tables, runner>>

-----------------------------------------------------------------------------
Rules == {"PAYMENT_SETTLEMENT_AMOUNT_001", "PAYMENT_SETTLEMENT_CURRENCY_001",
          "PAYMENT_MISSING_SETTLEMENT_001", "SETTLEMENT_FEE_MISMATCH_001",
          "SETTLEMENT_MISSING_BANK_TX_001", "SETTLEMENT_BANK_AMOUNT_001",
          "SETTLEMENT_TIMING_001", "SETTLEMENT_BANK_CURRENCY_001"}

(* What a discrepancy is looked up by.                                       *)
Keys == [source : Sources, rule : Rules]

Relationship == [source : Sources, target : {Link[l].target : l \in Links},
                 status : {"RECONCILED", "DISCREPANCY"}]

(* What a run has loaded: each source once by itself, and with each link.    *)
Evidence == [source : Sources, link : Links \cup {Nothing}, old : BOOLEAN]

(* known and kept, the keys and the relationships that were stored when the  *)
(* run began, tell its story; no code reads them.                            *)
Activity == [pc     : {"idle", "scan", "insert", "judge", "relate"},
             phase  : {"payments", "settlements"},
             loaded : SUBSET Evidence,
             todo   : SUBSET Sources,
             rest   : SUBSET Links,
             link   : Links \cup {Nothing},
             rel    : SUBSET Relationship,
             disc   : SUBSET Keys,
             known  : SUBSET Keys,
             kept   : SUBSET Relationship]

TypeOK ==
  /\ dates \in {"naive", "aware"}
  /\ age \in [Sources -> {"young", "old", "past"}]
  /\ present \subseteq Links
  /\ relationships \subseteq Relationship
  /\ discrepancies \in [Keys -> 0 .. Cardinality(Runners)]
  /\ runner \in [Runners -> Activity]
  /\ \A w \in Runners :
       runner[w].pc \in {"insert", "judge", "relate"} <=> runner[w].link \in Links

-----------------------------------------------------------------------------
Idle == [pc |-> "idle", phase |-> "payments", loaded |-> {}, todo |-> {},
         rest |-> {}, link |-> Nothing, rel |-> {}, disc |-> {}, known |-> {},
         kept |-> {}]

Init ==
  /\ dates \in {"naive", "aware"}
  /\ age = [s \in Sources |-> "young"]
  /\ present = Early
  /\ relationships = {}
  /\ discrepancies = [k \in Keys |-> 0]
  /\ runner = [w \in Runners |-> Idle]

(* The rest of the system: a link is stored, days go by.                     *)
LinkArrives(l) ==
  /\ l \notin present
  /\ present' = present \cup {l}
  /\ UNCHANGED <<dates, age, tables, runner>>

DaysPass ==
  /\ \E s \in Sources : age[s] # "past"
  /\ age' = [s \in Sources |-> IF age[s] = "young" THEN "old" ELSE "past"]
  /\ UNCHANGED <<dates, present, tables, runner>>

-----------------------------------------------------------------------------
(* What the matchers conclude.                                               *)
Net(s) == Money[s].gross - Money[s].fee + Money[s].adjustment

(* A settled amount of zero counts as not given: it is falsy.                *)
Given(s) == Money[s].settled \notin {Nothing, 0}

ToMatch(s) ==
  IF s \in Payments THEN Money[s].amount
  ELSE IF Given(s) THEN Money[s].settled ELSE Net(s)

(* The rule that a link breaks, if any: of several the first.                *)
PaymentVerdict(l) ==
  LET p == Link[l].source IN
  CASE Link[l].amount # ToMatch(p)           -> {"PAYMENT_SETTLEMENT_AMOUNT_001"}
    [] /\ Link[l].amount = ToMatch(p)
       /\ Link[l].currency # Money[p].currency
                                             -> {"PAYMENT_SETTLEMENT_CURRENCY_001"}
    [] OTHER                                 -> {}

SettlementVerdict(l) ==
  LET s == Link[l].source IN
  CASE Link[l].amount # ToMatch(s)           -> {"SETTLEMENT_BANK_AMOUNT_001"}
    [] Link[l].amount = ToMatch(s) /\ Link[l].late
                                             -> {"SETTLEMENT_TIMING_001"}
    [] /\ Link[l].amount = ToMatch(s) /\ ~Link[l].late
       /\ Link[l].currency # Money[s].currency
                                             -> {"SETTLEMENT_BANK_CURRENCY_001"}
    [] OTHER                                 -> {}

Verdict(l) ==
  IF Link[l].source \in Payments THEN PaymentVerdict(l) ELSE SettlementVerdict(l)

FeeRule(s) ==
  IF s \in Settlements /\ Given(s) /\ Net(s) # Money[s].settled
  THEN {"SETTLEMENT_FEE_MISMATCH_001"} ELSE {}

MissingRule(s) ==
  {IF s \in Payments THEN "PAYMENT_MISSING_SETTLEMENT_001"
   ELSE "SETTLEMENT_MISSING_BANK_TX_001"}

-----------------------------------------------------------------------------
(* The candidates of a phase: the sources of the last 14 days with the links *)
(* that are stored at this moment.                                           *)
InWindow(sources) == {s \in sources : age[s] # "past"}

Loaded(sources) ==
  UNION {{[source |-> s, link |-> l, old |-> age[s] = "old"] :
            l \in {Nothing} \cup {k \in present : Link[k].source = s}} :
         s \in InWindow(sources)}

LoadedLinks(w, s) ==
  {e.link : e \in {d \in runner[w].loaded : d.source = s}} \ {Nothing}

Start(w) ==
  /\ runner[w].pc = "idle"
  /\ runner' = [runner EXCEPT ![w] =
       [Idle EXCEPT !.pc = "scan",
                    !.loaded = Loaded(Payments),
                    !.todo = InWindow(Payments),
                    !.known = {k \in Keys : discrepancies[k] > 0},
                    !.kept = relationships]]
  /\ UNCHANGED <<ledger, tables>>

StartSettlements(w) ==
  /\ runner[w].pc = "scan"
  /\ runner[w].phase = "payments"
  /\ runner[w].todo = {} /\ runner[w].rest = {}
  /\ runner' = [runner EXCEPT ![w].phase = "settlements",
                              ![w].loaded = @ \cup Loaded(Settlements),
                              ![w].todo = InWindow(Settlements)]
  /\ UNCHANGED <<ledger, tables>>

(* The transaction is rolled back: an exception reaches get_async_db.        *)
Lose(w) ==
  /\ runner' = [runner EXCEPT ![w] = Idle]
  /\ UNCHANGED <<ledger, tables>>

-----------------------------------------------------------------------------
(* _upsert_discrepancy: one discrepancy for a source and a rule, by a look   *)
(* at what is visible, without a constraint.  Two visible ones raise.        *)
Seen(w, k) ==
  discrepancies[k] + (IF k \in runner[w].disc THEN 1 ELSE 0)

KeysOf(s, rules) == {[source |-> s, rule |-> rule] : rule \in rules}

Ambiguous(w, s, rules) == \E k \in KeysOf(s, rules) : Seen(w, k) > 1

(* Fault: the look forgets the rule: one discrepancy for a source.           *)
Upserted_AnyRule(w, s, rules) ==
  runner[w].disc \cup
    {k \in KeysOf(s, rules) : \A r \in Rules : Seen(w, [k EXCEPT !.rule = r]) = 0}

Upserted(w, s, rules) ==
  runner[w].disc \cup {k \in KeysOf(s, rules) : Seen(w, k) = 0}

(* The outer loop: a source is judged by itself; the links it was loaded     *)
(* with are next.                                                            *)
OwnRules(w, s) ==
  FeeRule(s) \cup
    (IF LoadedLinks(w, s) = {} /\ age[s] # "young" THEN MissingRule(s) ELSE {})

(* A source without a link is aged by now - processed_at, which raises when  *)
(* the driver returns aware timestamps: "now" is a naive one.                *)
AgeRaises(w, s) == LoadedLinks(w, s) = {} /\ dates = "aware"

JudgeSource(w, s) ==
  /\ runner[w].pc = "scan"
  /\ runner[w].rest = {}
  /\ s \in runner[w].todo
  /\ ~AgeRaises(w, s)
  /\ ~Ambiguous(w, s, OwnRules(w, s))
  /\ runner' = [runner EXCEPT ![w].todo = @ \ {s},
                              ![w].rest = LoadedLinks(w, s),
                              ![w].disc = Upserted(w, s, OwnRules(w, s))]
  /\ UNCHANGED <<ledger, tables>>

JudgeSourceRaises(w, s) ==
  /\ runner[w].pc = "scan"
  /\ runner[w].rest = {}
  /\ s \in runner[w].todo
  /\ AgeRaises(w, s) \/ Ambiguous(w, s, OwnRules(w, s))
  /\ Lose(w)

(* The inner loop.  A payment is related to its item and judged then, a      *)
(* settlement is judged by its bank transaction first.                       *)
TakeLink(w, l) ==
  /\ runner[w].pc = "scan"
  /\ l \in runner[w].rest
  /\ runner' = [runner EXCEPT
       ![w].rest = @ \ {l}, ![w].link = l,
       ![w].pc = IF Link[l].source \in Payments THEN "relate" ELSE "judge"]
  /\ UNCHANGED <<ledger, tables>>

AfterJudging(l) == IF Link[l].source \in Payments THEN "scan" ELSE "relate"

AfterRelating(l) == IF Link[l].source \in Payments THEN "judge" ELSE "scan"

Following(link, pc) == IF pc = "scan" THEN Nothing ELSE link

JudgeLink(w) ==
  LET l == runner[w].link IN
  /\ runner[w].pc = "judge"
  /\ ~Ambiguous(w, Link[l].source, Verdict(l))
  /\ runner' = [runner EXCEPT
       ![w].disc = Upserted(w, Link[l].source, Verdict(l)),
       ![w].pc = AfterJudging(l), ![w].link = Following(@, AfterJudging(l))]
  /\ UNCHANGED <<ledger, tables>>

JudgeLinkRaises(w) ==
  LET l == runner[w].link IN
  /\ runner[w].pc = "judge"
  /\ Ambiguous(w, Link[l].source, Verdict(l))
  /\ Lose(w)

-----------------------------------------------------------------------------
(* _upsert_relationship: one for a source and a target, looked for and then  *)
(* inserted under a UNIQUE constraint.                                       *)
Related(l, rows) ==
  \E q \in rows : q.source = Link[l].source /\ q.target = Link[l].target

(* Fault: each run looks for its own relationships only.                     *)
FindRelationship_OfRun(w) ==
  LET l    == runner[w].link
      next == IF Related(l, runner[w].rel) THEN AfterRelating(l) ELSE "insert" IN
  /\ runner[w].pc = "relate"
  /\ runner' = [runner EXCEPT ![w].pc = next, ![w].link = Following(@, next)]
  /\ UNCHANGED <<ledger, tables>>

FindRelationship(w) ==
  LET l    == runner[w].link
      next == IF Related(l, relationships \cup runner[w].rel)
              THEN AfterRelating(l) ELSE "insert" IN
  /\ runner[w].pc = "relate"
  /\ runner' = [runner EXCEPT ![w].pc = next, ![w].link = Following(@, next)]
  /\ UNCHANGED <<ledger, tables>>

(* The runners whose open transaction has inserted the same relationship.    *)
Holders(w) ==
  {v \in Runners \ {w} : Related(runner[w].link, runner[v].rel)}

(* The status is that of the first link between the two; nothing updates it. *)
NewRelationship(l) ==
  [source |-> Link[l].source, target |-> Link[l].target,
   status |-> IF Verdict(l) = {} THEN "RECONCILED" ELSE "DISCREPANCY"]

(* Fault: each relationship is committed as it is inserted.                  *)
InsertRelationship_Committed(w) ==
  LET l == runner[w].link IN
  /\ runner[w].pc = "insert"
  /\ ~Related(l, relationships)
  /\ relationships' = relationships \cup {NewRelationship(l)}
  /\ runner' = [runner EXCEPT
       ![w].pc = AfterRelating(l), ![w].link = Following(@, AfterRelating(l))]
  /\ UNCHANGED <<ledger, discrepancies>>

InsertRelationship(w) ==
  LET l == runner[w].link IN
  /\ runner[w].pc = "insert"
  /\ ~Related(l, relationships)
  /\ Holders(w) = {}
  /\ runner' = [runner EXCEPT
       ![w].pc = AfterRelating(l), ![w].link = Following(@, AfterRelating(l)),
       ![w].rel = @ \cup {NewRelationship(l)}]
  /\ UNCHANGED <<ledger, tables>>

(* Fault: the database notices no deadlock.                                  *)
Deadlocked_Unnoticed(w) == FALSE

(* Two runs that wait for each other's insert: the database ends one.        *)
Deadlocked(w) ==
  \E v \in Holders(w) : runner[v].pc = "insert" /\ w \in Holders(v)

InsertRaises(w) ==
  /\ runner[w].pc = "insert"
  /\ Related(runner[w].link, relationships) \/ Deadlocked(w)
  /\ Lose(w)

-----------------------------------------------------------------------------
(* The route commits: the run and all it has stored appear together.         *)
Commit(w) ==
  /\ runner[w].pc = "scan"
  /\ runner[w].phase = "settlements"
  /\ runner[w].todo = {} /\ runner[w].rest = {}
  /\ relationships' = relationships \cup runner[w].rel
  /\ discrepancies' = [k \in Keys |-> Seen(w, k)]
  /\ runner' = [runner EXCEPT ![w] = Idle]
  /\ UNCHANGED ledger

Crash(w) ==
  /\ w \in Mortal
  /\ runner[w].pc # "idle"
  /\ Lose(w)

-----------------------------------------------------------------------------
Proceed(w) ==
  \/ \E s \in runner[w].todo : JudgeSource(w, s) \/ JudgeSourceRaises(w, s)
  \/ \E l \in runner[w].rest : TakeLink(w, l)
  \/ StartSettlements(w)
  \/ JudgeLink(w)
  \/ JudgeLinkRaises(w)
  \/ FindRelationship(w)
  \/ InsertRelationship(w)
  \/ InsertRaises(w)
  \/ Commit(w)

Next ==
  \/ \E l \in Links : LinkArrives(l)
  \/ DaysPass
  \/ \E w \in Runners : Start(w) \/ Proceed(w) \/ Crash(w)

Spec == Init /\ [][Next]_vars

(* The event loop resumes a runner whose statement has completed; a waiting  *)
(* INSERT goes on when the transaction it is queued for has ended.           *)
FairSpec ==
  /\ Spec
  /\ \A w \in Runners : WF_vars(Proceed(w)) /\ SF_vars(InsertRelationship(w))

-----------------------------------------------------------------------------
(* "Ensure idempotency across runs": a run adds no discrepancy and inserts no *)
(* relationship that was stored when it began.  Only runs that overlap store *)
(* a discrepancy twice, and only they make each other's INSERT fail.         *)
RepeatNeedsOverlap ==
  \A w \in Runners :
    /\ runner[w].disc \cap runner[w].known = {}
    /\ runner[w].pc = "insert" => ~Related(runner[w].link, runner[w].kept)

Stored(s, rules) == \A k \in KeysOf(s, rules) : discrepancies[k] > 0

(* A relationship that is marked as a discrepancy never appears without the  *)
(* discrepancy of its source that explains it.                               *)
RelationshipIsExplained ==
  \A q \in relationships : q.status = "DISCREPANCY" =>
    \E l \in Links :
      /\ Link[l].source = q.source /\ Link[l].target = q.target
      /\ Verdict(l) # {} /\ Stored(q.source, Verdict(l))

Explained(e, loaded) ==
  LET lonely == \A d \in loaded : d.source = e.source => d.link = Nothing IN
  IF e.link = Nothing
  THEN /\ Stored(e.source, FeeRule(e.source))
       /\ lonely /\ e.old => Stored(e.source, MissingRule(e.source))
  ELSE /\ Related(e.link, relationships)
       /\ Stored(e.source, Verdict(e.link))

(* A run that commits leaves nothing it has loaded unexplained: every link   *)
(* is related and every broken rule has its discrepancy, whatever other runs *)
(* have stored or lost meanwhile.                                            *)
CompletedRunExplains ==
  [][\A w \in Runners : Commit(w) =>
       \A loaded \in {runner[w].loaded} :
         \A e \in loaded : Explained(e, loaded)']_vars

(* A triggered run commits, fails or dies; two runs do not wait for each     *)
(* other for ever.                                                           *)
RunIsAnswered ==
  \A w \in Runners : runner[w].pc # "idle" ~> runner[w].pc = "idle"
=============================================================================
