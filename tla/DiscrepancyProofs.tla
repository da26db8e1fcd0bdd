-------------------------- MODULE DiscrepancyProofs --------------------------
(***************************************************************************)
(* Safety of the two components that own the discrepancies: Reconciliation *)
(* stores them, Investigation asks what explains them.                     *)
(*                                                                         *)
(* First half: Reconciliation, for any payments, settlements and links and *)
(* any finite number of runners, whichever may die.  Second half, under I: *)
(* Investigation, for any number of discrepancies, attempts and requests,  *)
(* whichever may die and whatever the provider answers.  The halves share  *)
(* nothing but the module.                                                 *)
(***************************************************************************)
EXTENDS Reconciliation, InvestigationTables, FiniteSetTheorems, TLAPS

CONSTANT MortalRequests  \* what Investigation calls Mortal

I == INSTANCE Investigation WITH Mortal <- MortalRequests

-----------------------------------------------------------------------------
(* The operators of the matchers.                                            *)
LEMMA VerdictsAreRules ==
  ASSUME NEW l \in Links
  PROVE  Verdict(l) \subseteq Rules
<1>1. PaymentVerdict(l) \subseteq Rules
  <2> DEFINE p == Link[l].source
             a == Link[l].amount = ToMatch(p)
             c == Link[l].currency = Money[p].currency
  <2>1. CASE ~a
    <3>1. PaymentVerdict(l) = {"PAYMENT_SETTLEMENT_AMOUNT_001"}
      BY <2>1 DEF PaymentVerdict
    <3> QED
      BY <3>1 DEF Rules
  <2>2. CASE a /\ ~c
    <3>1. PaymentVerdict(l) = {"PAYMENT_SETTLEMENT_CURRENCY_001"}
      BY <2>2 DEF PaymentVerdict
    <3> QED
      BY <3>1 DEF Rules
  <2>3. CASE a /\ c
    BY <2>3 DEF PaymentVerdict
  <2> QED
    BY <2>1, <2>2, <2>3
<1>2. SettlementVerdict(l) \subseteq Rules
  <2> DEFINE s == Link[l].source
             a == Link[l].amount = ToMatch(s)
             c == Link[l].currency = Money[s].currency
  <2>1. CASE ~a
    <3>1. SettlementVerdict(l) = {"SETTLEMENT_BANK_AMOUNT_001"}
      BY <2>1 DEF SettlementVerdict
    <3> QED
      BY <3>1 DEF Rules
  <2>2. CASE a /\ Link[l].late
    <3>1. SettlementVerdict(l) = {"SETTLEMENT_TIMING_001"}
      BY <2>2 DEF SettlementVerdict
    <3> QED
      BY <3>1 DEF Rules
  <2>3. CASE a /\ ~Link[l].late /\ ~c
    <3>1. SettlementVerdict(l) = {"SETTLEMENT_BANK_CURRENCY_001"}
      BY <2>3 DEF SettlementVerdict
    <3> QED
      BY <3>1 DEF Rules
  <2>4. CASE a /\ ~Link[l].late /\ c
    BY <2>4 DEF SettlementVerdict
  <2> QED
    BY <2>1, <2>2, <2>3, <2>4
<1> QED
  BY <1>1, <1>2 DEF Verdict

LEMMA OwnRulesAreRules ==
  ASSUME NEW w, NEW s
  PROVE  OwnRules(w, s) \subseteq Rules
BY DEF OwnRules, FeeRule, MissingRule, Rules

(* Whoever is loaded with a source names it; what is loaded is stored.       *)
LEMMA LoadedIsEvidence ==
  ASSUME TypeOK, NEW sources, sources \subseteq Sources
  PROVE  /\ Loaded(sources) \subseteq Evidence
         /\ InWindow(sources) \subseteq Sources
         /\ \A e \in Loaded(sources) :
              /\ e.link # Nothing => e.link \in Links /\ Link[e.link].source = e.source
              /\ e.old => age[e.source] = "old"
              /\ e.source \in InWindow(sources)
<1>1. \A e \in Loaded(sources) :
        \E s \in InWindow(sources) :
          \E l \in {Nothing} \cup {k \in present : Link[k].source = s} :
            e = [source |-> s, link |-> l, old |-> age[s] = "old"]
  BY DEF Loaded
<1>2. \A s \in InWindow(sources) : s \in Sources
  BY DEF InWindow
<1>3. present \subseteq Links
  BY DEF TypeOK
<1>4. ASSUME NEW e \in Loaded(sources)
      PROVE  /\ e \in Evidence
             /\ e.link # Nothing => e.link \in Links /\ Link[e.link].source = e.source
             /\ e.old => age[e.source] = "old"
             /\ e.source \in InWindow(sources)
  <2>1. PICK s \in InWindow(sources) :
          \E l \in {Nothing} \cup {k \in present : Link[k].source = s} :
            e = [source |-> s, link |-> l, old |-> age[s] = "old"]
    BY <1>1
  <2>0. PICK l \in {Nothing} \cup {k \in present : Link[k].source = s} :
          e = [source |-> s, link |-> l, old |-> age[s] = "old"]
    BY <2>1
  <2>2. e.source = s /\ e.link = l /\ e.old = (age[s] = "old")
    BY <2>0
  <2> QED
    BY <2>0, <2>2, <1>2, <1>3 DEF Evidence
<1> QED
  BY <1>2, <1>4

LEMMA LoadedLinksAreLinks ==
  ASSUME TypeOK, NEW w \in Runners, NEW s
  PROVE  /\ LoadedLinks(w, s) \subseteq Links
         /\ \A e \in runner[w].loaded :
              e.source = s /\ e.link # Nothing => e.link \in LoadedLinks(w, s)
<1>1. runner[w].loaded \subseteq Evidence
  BY DEF TypeOK, Activity
<1>2. \A e \in runner[w].loaded : e.link \in Links \cup {Nothing}
  BY <1>1 DEF Evidence
<1> QED
  BY <1>2 DEF LoadedLinks

LEMMA KeysOfAreKeys ==
  ASSUME NEW s \in Sources, NEW rules, rules \subseteq Rules
  PROVE  KeysOf(s, rules) \subseteq Keys
BY DEF KeysOf, Keys

-----------------------------------------------------------------------------
(* One runner moves, the others stay where they are.                         *)
Moves(w) ==
  /\ runner' \in [Runners -> Activity]
  /\ \A v \in Runners \ {w} : runner'[v] = runner[v]

LEMMA Replaced ==
  ASSUME TypeOK, NEW w \in Runners, NEW act \in Activity,
         runner' = [runner EXCEPT ![w] = act]
  PROVE  Moves(w) /\ runner'[w] = act
BY DEF TypeOK, Moves

LEMMA RunnerTyped ==
  TypeOK => /\ runner \in [Runners -> Activity]
            /\ \A w \in Runners : runner[w] \in Activity
BY DEF TypeOK

LEMMA IdleIsActivity == Idle \in Activity
BY DEF Idle, Activity

LEMMA JudgesSource ==
  ASSUME TypeOK, NEW w \in Runners, NEW s \in runner[w].todo, JudgeSource(w, s)
  PROVE  /\ Moves(w)
         /\ runner'[w] = [runner[w] EXCEPT !.todo = runner[w].todo \ {s},
                                           !.rest = LoadedLinks(w, s),
                                           !.disc = Upserted(w, s, OwnRules(w, s))]
<1> DEFINE act == [runner[w] EXCEPT !.todo = runner[w].todo \ {s},
                                    !.rest = LoadedLinks(w, s),
                                    !.disc = Upserted(w, s, OwnRules(w, s))]
<1>1. s \in Sources /\ runner[w].disc \subseteq Keys
  BY DEF TypeOK, Activity
<1>2. Upserted(w, s, OwnRules(w, s)) \subseteq Keys
  BY <1>1, OwnRulesAreRules, KeysOfAreKeys DEF Upserted
<1>3. act \in Activity
  <2>1. LoadedLinks(w, s) \subseteq Links
    BY LoadedLinksAreLinks
  <2>2. runner[w] \in Activity /\ runner[w].todo \ {s} \subseteq Sources
    BY RunnerTyped DEF Activity
  <2> QED
    BY <1>2, <2>1, <2>2 DEF Activity
<1>4. runner' = [runner EXCEPT ![w] = act]
  BY RunnerTyped DEF JudgeSource
<1> QED
  BY <1>3, <1>4, Replaced

LEMMA TakesLink ==
  ASSUME TypeOK, NEW w \in Runners, NEW l \in runner[w].rest, TakeLink(w, l)
  PROVE  /\ Moves(w)
         /\ l \in Links
         /\ runner'[w] = [runner[w] EXCEPT
              !.rest = runner[w].rest \ {l}, !.link = l,
              !.pc = IF Link[l].source \in Payments THEN "relate" ELSE "judge"]
<1> DEFINE act == [runner[w] EXCEPT
              !.rest = runner[w].rest \ {l}, !.link = l,
              !.pc = IF Link[l].source \in Payments THEN "relate" ELSE "judge"]
<1>1. l \in Links /\ act \in Activity
  <2>1. runner[w] \in Activity /\ runner[w].rest \subseteq Links
    BY RunnerTyped DEF Activity
  <2> QED
    BY <2>1 DEF Activity
<1>2. runner' = [runner EXCEPT ![w] = act]
  BY RunnerTyped DEF TakeLink
<1> QED
  BY <1>1, <1>2, Replaced

LEMMA JudgesLink ==
  ASSUME TypeOK, NEW w \in Runners, NEW l \in Links, l = runner[w].link, JudgeLink(w)
  PROVE  /\ Moves(w)
         /\ runner'[w] = [runner[w] EXCEPT
              !.disc = Upserted(w, Link[l].source, Verdict(l)),
              !.pc = AfterJudging(l), !.link = Following(l, AfterJudging(l))]
<1> DEFINE act == [runner[w] EXCEPT
              !.disc = Upserted(w, Link[l].source, Verdict(l)),
              !.pc = AfterJudging(l), !.link = Following(l, AfterJudging(l))]
<1>1. runner[w].disc \subseteq Keys
  BY DEF TypeOK, Activity
<1>2. Upserted(w, Link[l].source, Verdict(l)) \subseteq Keys
  BY <1>1, LinkAssumption, VerdictsAreRules, KeysOfAreKeys DEF Upserted
<1>3. /\ AfterJudging(l) \in {"scan", "relate"}
      /\ Following(l, AfterJudging(l)) \in Links \cup {Nothing}
  BY DEF AfterJudging, Following
<1>4. act \in Activity
  <2> DEFINE disc == Upserted(w, Link[l].source, Verdict(l))
             next == AfterJudging(l)
             link == Following(l, AfterJudging(l))
  <2>1. disc \subseteq Keys /\ next \in {"scan", "relate"} /\ link \in Links \cup {Nothing}
    BY <1>2, <1>3
  <2>2. act = [runner[w] EXCEPT !.disc = disc, !.pc = next, !.link = link]
    OBVIOUS
  <2>3. runner[w] \in Activity
    BY RunnerTyped
  <2> HIDE DEF act, disc, next, link
  <2> QED
    BY <2>1, <2>2, <2>3 DEF Activity
<1>5. runner' = [runner EXCEPT ![w] = act]
  BY RunnerTyped DEF JudgeLink
<1> QED
  BY <1>4, <1>5, Replaced

LEMMA FindsRelationship ==
  ASSUME TypeOK, NEW w \in Runners, NEW l \in Links, l = runner[w].link,
         FindRelationship(w)
  PROVE  /\ Moves(w)
         /\ \E next \in {"insert", AfterRelating(l)} :
              /\ next # "insert" <=> Related(l, relationships \cup runner[w].rel)
              /\ runner'[w] = [runner[w] EXCEPT !.pc = next,
                                                !.link = Following(l, next)]
<1>1. PICK next \in {"insert", AfterRelating(l)} :
        /\ next = IF Related(l, relationships \cup runner[w].rel)
                  THEN AfterRelating(l) ELSE "insert"
        /\ next # "insert" <=> Related(l, relationships \cup runner[w].rel)
  BY DEF AfterRelating
<1> DEFINE act == [runner[w] EXCEPT !.pc = next, !.link = Following(l, next)]
<1>2. /\ next \in {"scan", "judge", "insert"}
      /\ Following(l, next) \in Links \cup {Nothing}
  BY DEF AfterRelating, Following
<1>3. act \in Activity
  <2>1. PICK link \in Links \cup {Nothing} : link = Following(l, next)
    BY <1>2
  <2>2. act = [runner[w] EXCEPT !.pc = next, !.link = link] /\ runner[w] \in Activity
    BY <2>1, RunnerTyped
  <2> HIDE DEF act
  <2> QED
    BY <1>2, <2>2 DEF Activity
<1>4. runner' = [runner EXCEPT ![w] = act]
  BY <1>1, RunnerTyped DEF FindRelationship
<1> QED
  BY <1>1, <1>3, <1>4, Replaced

LEMMA InsertsRelationship ==
  ASSUME TypeOK, NEW w \in Runners, NEW l \in Links, l = runner[w].link,
         InsertRelationship(w)
  PROVE  /\ Moves(w)
         /\ runner'[w] = [runner[w] EXCEPT
              !.pc = AfterRelating(l), !.link = Following(l, AfterRelating(l)),
              !.rel = runner[w].rel \cup {NewRelationship(l)}]
<1> DEFINE act == [runner[w] EXCEPT
              !.pc = AfterRelating(l), !.link = Following(l, AfterRelating(l)),
              !.rel = runner[w].rel \cup {NewRelationship(l)}]
<1>1. /\ AfterRelating(l) \in {"scan", "judge"}
      /\ Following(l, AfterRelating(l)) \in Links \cup {Nothing}
  BY DEF AfterRelating, Following
<1>2. NewRelationship(l) \in Relationship
  BY LinkAssumption DEF NewRelationship, Relationship
<1>3. act \in Activity
  <2>1. runner[w] \in Activity /\ runner[w].rel \cup {NewRelationship(l)} \subseteq Relationship
    BY <1>2, RunnerTyped DEF Activity
  <2> QED
    BY <1>1, <2>1 DEF Activity
<1>4. runner' = [runner EXCEPT ![w] = act]
  BY RunnerTyped DEF InsertRelationship
<1> QED
  BY <1>3, <1>4, Replaced

LEMMA Starts ==
  ASSUME TypeOK, NEW w \in Runners, Start(w)
  PROVE  /\ Moves(w)
         /\ runner'[w] = [Idle EXCEPT !.pc = "scan",
                                      !.loaded = Loaded(Payments),
                                      !.todo = InWindow(Payments),
                                      !.known = {k \in Keys : discrepancies[k] > 0},
                                      !.kept = relationships]
<1> DEFINE act == [Idle EXCEPT !.pc = "scan",
                               !.loaded = Loaded(Payments),
                               !.todo = InWindow(Payments),
                               !.known = {k \in Keys : discrepancies[k] > 0},
                               !.kept = relationships]
<1>1. Payments \subseteq Sources
  BY DEF Sources
<1>2. act \in Activity
  <2>1. relationships \in SUBSET Relationship
    BY DEF TypeOK
  <2> QED
    BY <1>1, <2>1, LoadedIsEvidence, IdleIsActivity DEF Activity
<1>3. runner' = [runner EXCEPT ![w] = act]
  BY DEF Start
<1> QED
  BY <1>2, <1>3, Replaced

LEMMA StartsSettlements ==
  ASSUME TypeOK, NEW w \in Runners, StartSettlements(w)
  PROVE  /\ Moves(w)
         /\ runner'[w] = [runner[w] EXCEPT
              !.phase = "settlements",
              !.loaded = runner[w].loaded \cup Loaded(Settlements),
              !.todo = InWindow(Settlements)]
<1> DEFINE act == [runner[w] EXCEPT
              !.phase = "settlements",
              !.loaded = runner[w].loaded \cup Loaded(Settlements),
              !.todo = InWindow(Settlements)]
<1>1. Settlements \subseteq Sources
  BY DEF Sources
<1>2. act \in Activity
  <2>1. /\ runner[w] \in Activity
        /\ runner[w].loaded \cup Loaded(Settlements) \subseteq Evidence
        /\ InWindow(Settlements) \subseteq Sources
    BY <1>1, LoadedIsEvidence, RunnerTyped DEF Activity
  <2> QED
    BY <2>1 DEF Activity
<1>3. runner' = [runner EXCEPT ![w] = act]
  BY RunnerTyped DEF StartSettlements
<1> QED
  BY <1>2, <1>3, Replaced

LEMMA Ends ==
  ASSUME TypeOK, NEW w \in Runners, Lose(w) \/ Commit(w)
  PROVE  Moves(w) /\ runner'[w] = Idle
<1>1. runner' = [runner EXCEPT ![w] = Idle]
  BY DEF Lose, Commit
<1> QED
  BY <1>1, IdleIsActivity, Replaced
-----------------------------------------------------------------------------
(* The steps a run goes on with, and what none of them does.                 *)
Works(w) ==
  \/ \E s \in runner[w].todo : JudgeSource(w, s)
  \/ \E l \in runner[w].rest : TakeLink(w, l)
  \/ StartSettlements(w)
  \/ JudgeLink(w)
  \/ FindRelationship(w)
  \/ InsertRelationship(w)

HasLink(act) == act.pc \in {"insert", "judge", "relate"} <=> act.link \in Links

(* A run adds to what it has found, and no discrepancy that is stored.       *)
Adds(w) ==
  /\ HasLink(runner'[w])
  /\ runner'[w].known = runner[w].known /\ runner'[w].kept = runner[w].kept
  /\ runner[w].loaded \subseteq runner'[w].loaded
  /\ runner[w].rel \subseteq runner'[w].rel
  /\ runner[w].disc \subseteq runner'[w].disc
  /\ \A k \in runner'[w].disc \ runner[w].disc : discrepancies[k] = 0

LEMMA Counts == \A k \in Keys : TypeOK => discrepancies[k] \in Nat
BY RunnersAssumption, FS_CardinalityType DEF TypeOK

LEMMA UpsertAddsUnseen ==
  ASSUME TypeOK, NEW w \in Runners, NEW s \in Sources, NEW rules, rules \subseteq Rules
  PROVE  /\ runner[w].disc \subseteq Upserted(w, s, rules)
         /\ \A k \in Upserted(w, s, rules) \ runner[w].disc : discrepancies[k] = 0
BY Counts, KeysOfAreKeys DEF Upserted, Seen

LEMMA WorkAdds ==
  ASSUME TypeOK, NEW w \in Runners, Works(w)
  PROVE  /\ Moves(w) /\ UNCHANGED <<ledger, tables>>
         /\ runner[w].pc # "idle"
         /\ Adds(w)
<1>0. runner[w] \in Activity /\ HasLink(runner[w])
  BY DEF TypeOK, HasLink
<1>1. ASSUME NEW s \in runner[w].todo, JudgeSource(w, s)
      PROVE  /\ Moves(w) /\ UNCHANGED <<ledger, tables>>
             /\ runner[w].pc # "idle" /\ Adds(w)
  <2>1. s \in Sources
    BY DEF TypeOK, Activity
  <2>2. runner[w].pc # "idle" /\ UNCHANGED <<ledger, tables>>
    BY <1>1 DEF JudgeSource
  <2>3. /\ Moves(w)
        /\ runner'[w] = [runner[w] EXCEPT !.todo = runner[w].todo \ {s},
                                          !.rest = LoadedLinks(w, s),
                                          !.disc = Upserted(w, s, OwnRules(w, s))]
    BY <1>1, JudgesSource
  <2>4. /\ runner[w].disc \subseteq Upserted(w, s, OwnRules(w, s))
        /\ \A k \in Upserted(w, s, OwnRules(w, s)) \ runner[w].disc :
             discrepancies[k] = 0
    BY <2>1, UpsertAddsUnseen, OwnRulesAreRules
  <2>5. Adds(w)
    BY <1>0, <2>3, <2>4 DEF Adds, HasLink, Activity
  <2> QED
    BY <2>2, <2>3, <2>5
<1>2. ASSUME NEW l \in runner[w].rest, TakeLink(w, l)
      PROVE  /\ Moves(w) /\ UNCHANGED <<ledger, tables>>
             /\ runner[w].pc # "idle" /\ Adds(w)
  <2>1. runner[w].pc # "idle" /\ UNCHANGED <<ledger, tables>>
    BY <1>2 DEF TakeLink
  <2>2. /\ Moves(w)
        /\ l \in Links
        /\ runner'[w] = [runner[w] EXCEPT
             !.rest = runner[w].rest \ {l}, !.link = l,
             !.pc = IF Link[l].source \in Payments THEN "relate" ELSE "judge"]
    BY <1>2, TakesLink
  <2>3. Adds(w)
    BY <1>0, <2>2 DEF Adds, HasLink, Activity
  <2> QED
    BY <2>1, <2>2, <2>3
<1>3. ASSUME StartSettlements(w)
      PROVE  /\ Moves(w) /\ UNCHANGED <<ledger, tables>>
             /\ runner[w].pc # "idle" /\ Adds(w)
  <2>1. runner[w].pc # "idle" /\ UNCHANGED <<ledger, tables>>
    BY <1>3 DEF StartSettlements
  <2>2. /\ Moves(w)
        /\ runner'[w] = [runner[w] EXCEPT
             !.phase = "settlements",
             !.loaded = runner[w].loaded \cup Loaded(Settlements),
             !.todo = InWindow(Settlements)]
    BY <1>3, StartsSettlements
  <2>3. Adds(w)
    BY <1>0, <2>2 DEF Adds, HasLink, Activity
  <2> QED
    BY <2>1, <2>2, <2>3
<1>4. ASSUME JudgeLink(w)
      PROVE  /\ Moves(w) /\ UNCHANGED <<ledger, tables>>
             /\ runner[w].pc # "idle" /\ Adds(w)
  <2>1. runner[w].pc = "judge" /\ UNCHANGED <<ledger, tables>>
    BY <1>4 DEF JudgeLink
  <2>2. PICK l \in Links : l = runner[w].link
    BY <1>0, <2>1 DEF HasLink
  <2>3. Following(l, AfterJudging(l)) \in Links <=> AfterJudging(l) # "scan"
    BY NothingAssumption DEF Following
  <2>4. AfterJudging(l) \in {"scan", "relate"}
    BY DEF AfterJudging
  <2>5. /\ Moves(w)
        /\ runner'[w] = [runner[w] EXCEPT
             !.disc = Upserted(w, Link[l].source, Verdict(l)),
             !.pc = AfterJudging(l), !.link = Following(l, AfterJudging(l))]
    BY <1>4, <2>2, JudgesLink
  <2>6. /\ runner[w].disc \subseteq Upserted(w, Link[l].source, Verdict(l))
        /\ \A k \in Upserted(w, Link[l].source, Verdict(l)) \ runner[w].disc :
             discrepancies[k] = 0
    BY UpsertAddsUnseen, VerdictsAreRules, LinkAssumption
  <2>7. Adds(w)
    BY <1>0, <2>3, <2>4, <2>5, <2>6 DEF Adds, HasLink, Activity
  <2> QED
    BY <2>1, <2>5, <2>7
<1>5. ASSUME FindRelationship(w)
      PROVE  /\ Moves(w) /\ UNCHANGED <<ledger, tables>>
             /\ runner[w].pc # "idle" /\ Adds(w)
  <2>1. runner[w].pc = "relate" /\ UNCHANGED <<ledger, tables>>
    BY <1>5 DEF FindRelationship
  <2>2. PICK l \in Links : l = runner[w].link
    BY <1>0, <2>1 DEF HasLink
  <2>3. AfterRelating(l) \in {"scan", "judge"}
    BY DEF AfterRelating
  <2>4. \A next : Following(l, next) \in Links <=> next # "scan"
    BY NothingAssumption DEF Following
  <2>5. /\ Moves(w)
        /\ \E next \in {"insert", AfterRelating(l)} :
             runner'[w] = [runner[w] EXCEPT !.pc = next,
                                            !.link = Following(l, next)]
    BY <1>5, <2>2, FindsRelationship
  <2>6. Adds(w)
    BY <1>0, <2>3, <2>4, <2>5 DEF Adds, HasLink, Activity
  <2> QED
    BY <2>1, <2>5, <2>6
<1>6. ASSUME InsertRelationship(w)
      PROVE  /\ Moves(w) /\ UNCHANGED <<ledger, tables>>
             /\ runner[w].pc # "idle" /\ Adds(w)
  <2>1. runner[w].pc = "insert" /\ UNCHANGED <<ledger, tables>>
    BY <1>6 DEF InsertRelationship
  <2>2. PICK l \in Links : l = runner[w].link
    BY <1>0, <2>1 DEF HasLink
  <2>3. AfterRelating(l) \in {"scan", "judge"}
    BY DEF AfterRelating
  <2>4. \A next : Following(l, next) \in Links <=> next # "scan"
    BY NothingAssumption DEF Following
  <2>5. /\ Moves(w)
        /\ runner'[w] = [runner[w] EXCEPT
             !.pc = AfterRelating(l), !.link = Following(l, AfterRelating(l)),
             !.rel = runner[w].rel \cup {NewRelationship(l)}]
    BY <1>6, <2>2, InsertsRelationship
  <2>6. Adds(w)
    BY <1>0, <2>3, <2>4, <2>5 DEF Adds, HasLink, Activity
  <2> QED
    BY <2>1, <2>5, <2>6
<1> QED
  BY <1>1, <1>2, <1>3, <1>4, <1>5, <1>6 DEF Works

(* The rest of the system: days pass and links arrive.                       *)
World == DaysPass \/ \E l \in Links : LinkArrives(l)

LEMMA WorldAges ==
  ASSUME TypeOK, World
  PROVE  /\ UNCHANGED <<tables, runner, dates>>
         /\ present' \subseteq Links
         /\ age' \in [Sources -> {"young", "old", "past"}]
         /\ \A s \in Sources : age[s] # "young" => age'[s] # "young"
BY DEF World, DaysPass, LinkArrives, TypeOK

LEMMA StepKinds ==
  ASSUME Next
  PROVE  \/ World
         \/ \E w \in Runners : Start(w) \/ Works(w) \/ Lose(w) \/ Commit(w)
BY DEF Next, World, Proceed, Works, JudgeSourceRaises, JudgeLinkRaises, InsertRaises,
       Crash

-----------------------------------------------------------------------------
(* How many rows a discrepancy has: those that are stored, and those that    *)
(* runs in flight may still add, one each.                                   *)
Holding(k) == {w \in Runners : k \in runner[w].disc}

Counted ==
  \A k \in Keys : discrepancies[k] + Cardinality(Holding(k)) <= Cardinality(Runners)

TypeInv == TypeOK /\ Counted

LEMMA HoldingSize ==
  ASSUME NEW S, S \subseteq Runners
  PROVE  Cardinality(S) \in Nat /\ Cardinality(S) <= Cardinality(Runners)
         /\ Cardinality(Runners) \in Nat
BY RunnersAssumption, FS_Subset, FS_CardinalityType

LEMMA FewerHold ==
  ASSUME NEW S, NEW T, T \subseteq Runners, S \subseteq T
  PROVE  Cardinality(S) <= Cardinality(T)
BY RunnersAssumption, FS_Subset

LEMMA TypeInit == Init => TypeInv
<1> SUFFICES ASSUME Init PROVE TypeInv
  OBVIOUS
<1>1. Cardinality(Runners) \in Nat
  BY RunnersAssumption, FS_CardinalityType
<1>2. TypeOK
  BY <1>1, IdleIsActivity, EarlyAssumption, NothingAssumption DEF Init, TypeOK, Idle
<1>3. \A k \in Keys : discrepancies[k] = 0 /\ Holding(k) = {}
  BY DEF Init, Idle, Holding
<1>4. Cardinality({}) = 0
  BY FS_EmptySet
<1>5. Counted
  BY <1>1, <1>3, <1>4 DEF Counted
<1> QED
  BY <1>2, <1>5 DEF TypeInv

LEMMA WorkKeepsTypes ==
  ASSUME TypeInv, NEW w \in Runners, Works(w)
  PROVE  TypeInv'
<1>1. Moves(w) /\ UNCHANGED <<ledger, tables>> /\ Adds(w) /\ TypeOK
  BY WorkAdds DEF TypeInv
<1>2. TypeOK'
  BY <1>1 DEF TypeOK, Moves, Adds, HasLink, ledger, tables
<1>3. ASSUME NEW k \in Keys
      PROVE  discrepancies'[k] + Cardinality(Holding(k)') <= Cardinality(Runners)
  <2>1. CASE Holding(k)' \subseteq Holding(k)
    <3>1. Cardinality(Holding(k)') <= Cardinality(Holding(k))
      BY <2>1, FewerHold DEF Holding
    <3>2. Cardinality(Holding(k)') \in Nat /\ Cardinality(Holding(k)) \in Nat
          /\ Cardinality(Runners) \in Nat
      BY HoldingSize DEF Holding
    <3> QED
      BY <1>1, <3>1, <3>2, Counts DEF TypeInv, Counted, tables
  <2>2. CASE ~(Holding(k)' \subseteq Holding(k))
    <3>1. k \in runner'[w].disc \ runner[w].disc
      BY <1>1, <2>2 DEF Holding, Moves
    <3>2. discrepancies'[k] = 0
      BY <1>1, <3>1 DEF Adds, tables
    <3> QED
      BY <3>2, HoldingSize DEF Holding
  <2> QED
    BY <2>1, <2>2
<1> QED
  BY <1>2, <1>3 DEF TypeInv, Counted

LEMMA EndKeepsTypes ==
  ASSUME TypeInv, NEW w \in Runners, Lose(w) \/ Start(w)
  PROVE  TypeInv'
<1>1. TypeOK /\ UNCHANGED <<ledger, tables>>
  BY DEF TypeInv, Lose, Start
<1>2. Moves(w) /\ HasLink(runner'[w]) /\ runner'[w].disc = {}
  <2>1. CASE Lose(w)
    BY <1>1, <2>1, Ends, NothingAssumption DEF Idle, HasLink
  <2>2. CASE Start(w)
    <3>1. /\ Moves(w)
          /\ runner'[w] = [Idle EXCEPT !.pc = "scan",
                                       !.loaded = Loaded(Payments),
                                       !.todo = InWindow(Payments),
                                       !.known = {k \in Keys : discrepancies[k] > 0},
                                       !.kept = relationships]
      BY <1>1, <2>2, Starts
    <3>2. /\ runner'[w].pc = "scan" /\ runner'[w].link = Nothing
          /\ runner'[w].disc = {}
      BY <3>1 DEF Idle
    <3> QED
      BY <3>1, <3>2, NothingAssumption DEF HasLink
  <2> QED
    BY <2>1, <2>2
<1>3. TypeOK'
  <2>1. \A v \in Runners : HasLink(runner'[v])
    BY <1>1, <1>2 DEF TypeOK, Moves, HasLink
  <2>2. UNCHANGED <<dates, age, present, relationships, discrepancies>>
    BY <1>1 DEF ledger, tables
  <2>3. runner' \in [Runners -> Activity]
    BY <1>2 DEF Moves
  <2> QED
    BY <1>1, <2>1, <2>2, <2>3 DEF TypeOK, HasLink
<1>4. ASSUME NEW k \in Keys
      PROVE  discrepancies'[k] + Cardinality(Holding(k)') <= Cardinality(Runners)
  <2>1. Holding(k)' \subseteq Holding(k)
    BY <1>2 DEF Holding, Moves
  <2>2. Cardinality(Holding(k)') <= Cardinality(Holding(k))
    BY <2>1, FewerHold DEF Holding
  <2>3. Cardinality(Holding(k)') \in Nat /\ Cardinality(Holding(k)) \in Nat
        /\ Cardinality(Runners) \in Nat
    BY HoldingSize DEF Holding
  <2> QED
    BY <1>1, <2>2, <2>3, Counts DEF TypeInv, Counted, tables
<1> QED
  BY <1>3, <1>4 DEF TypeInv, Counted

LEMMA CommitKeepsTypes ==
  ASSUME TypeInv, NEW w \in Runners, Commit(w)
  PROVE  TypeInv'
<1>1. TypeOK /\ Moves(w) /\ runner'[w] = Idle
  BY Ends DEF TypeInv
<1>2. /\ relationships' = relationships \cup runner[w].rel
      /\ discrepancies' = [k \in Keys |-> Seen(w, k)]
      /\ UNCHANGED ledger
  BY DEF Commit
<1>3. ASSUME NEW k \in Keys
      PROVE  /\ discrepancies'[k] \in 0 .. Cardinality(Runners)
             /\ discrepancies'[k] + Cardinality(Holding(k)') <= Cardinality(Runners)
  <2>1. /\ Cardinality(Holding(k)') \in Nat /\ Cardinality(Holding(k)) \in Nat
        /\ Cardinality(Runners) \in Nat /\ discrepancies[k] \in Nat
    BY <1>1, HoldingSize, Counts DEF Holding
  <2>2. discrepancies[k] + Cardinality(Holding(k)) <= Cardinality(Runners)
    BY DEF TypeInv, Counted
  <2>3. CASE k \in runner[w].disc
    <3>1. discrepancies'[k] = discrepancies[k] + 1
      BY <1>2, <2>3 DEF Seen
    <3>2. Holding(k)' = Holding(k) \ {w} /\ w \in Holding(k)
      BY <1>1, <2>3 DEF Holding, Moves, Idle
    <3>3. IsFiniteSet(Holding(k))
      BY RunnersAssumption, FS_Subset DEF Holding
    <3>4. Cardinality(Holding(k)') = Cardinality(Holding(k)) - 1
      BY <3>2, <3>3, FS_RemoveElement
    <3> QED
      BY <2>1, <2>2, <3>1, <3>4
  <2>4. CASE k \notin runner[w].disc
    <3>1. discrepancies'[k] = discrepancies[k]
      BY <1>2, <2>1, <2>4 DEF Seen
    <3>2. Holding(k)' = Holding(k)
      BY <1>1, <2>4 DEF Holding, Moves, Idle
    <3> QED
      BY <2>1, <2>2, <3>1, <3>2
  <2> QED
    BY <2>3, <2>4
<1>4. TypeOK'
  <2>1. discrepancies' \in [Keys -> 0 .. Cardinality(Runners)]
    BY <1>2, <1>3
  <2>2. relationships' \subseteq Relationship
    BY <1>1, <1>2 DEF TypeOK, Activity
  <2> QED
    BY <1>1, <1>2, <2>1, <2>2, NothingAssumption DEF TypeOK, Moves, Idle, ledger
<1> QED
  BY <1>3, <1>4 DEF TypeInv, Counted

LEMMA TypeStep == TypeInv /\ [Next]_vars => TypeInv'
<1>1. ASSUME TypeInv, World PROVE TypeInv'
  BY <1>1, WorldAges DEF TypeInv, TypeOK, Counted, Holding, tables
<1>2. ASSUME TypeInv, UNCHANGED vars PROVE TypeInv'
  BY <1>2 DEF vars, ledger, tables, TypeInv, TypeOK, Counted, Holding
<1> QED
  BY <1>1, <1>2, StepKinds, WorkKeepsTypes, EndKeepsTypes, CommitKeepsTypes

-----------------------------------------------------------------------------
(* What a run has done, as far as it has come.                               *)
Judged(w, s, rules) == \A k \in KeysOf(s, rules) : Seen(w, k) > 0

JudgedLink(w, l) == Judged(w, Link[l].source, Verdict(l))

Linked(w, l) == Related(l, relationships \cup runner[w].rel)

(* Of the two things done with a link, the first one is done.                *)
Halfway(w) ==
  \A l \in Links : l = runner[w].link =>
    /\ Link[l].source \in Payments /\ runner[w].pc = "judge" => Linked(w, l)
    /\ Link[l].source \notin Payments /\ runner[w].pc \in {"relate", "insert"}
         => JudgedLink(w, l)

(* What is loaded waits for its source, waits itself, is at hand or done.    *)
SourceDone(w, e) ==
  /\ Judged(w, e.source, FeeRule(e.source))
  /\ LoadedLinks(w, e.source) = {} /\ e.old
       => Judged(w, e.source, MissingRule(e.source))

LinkDone(w, l) ==
  \/ l \in runner[w].rest
  \/ l = runner[w].link
  \/ (Linked(w, l) /\ JudgedLink(w, l))

EvidenceInv(w) ==
  \A e \in runner[w].loaded :
    /\ e.link # Nothing => Link[e.link].source = e.source
    /\ e.old => age[e.source] # "young"
    /\ \/ e.source \in runner[w].todo
       \/ IF e.link = Nothing THEN SourceDone(w, e) ELSE LinkDone(w, e.link)

(* A relationship marked as a discrepancy has its explanation, or gets it    *)
(* in the next step.                                                         *)
Explains(w, l, q) ==
  /\ Link[l].source = q.source /\ Link[l].target = q.target
  /\ Verdict(l) # {}
  /\ JudgedLink(w, l) \/ (runner[w].pc = "judge" /\ runner[w].link = l)

RelInv(w) ==
  \A q \in runner[w].rel : q.status = "DISCREPANCY" =>
    \E l \in Links : Explains(w, l, q)

KnownInv(w) == \A k \in runner[w].known : discrepancies[k] > 0

RunInv(w) == Halfway(w) /\ EvidenceInv(w) /\ RelInv(w) /\ KnownInv(w)

NoneRepeated == \A w \in Runners : runner[w].disc \cap runner[w].known = {}

Inv ==
  /\ TypeInv
  /\ NoneRepeated
  /\ RelationshipIsExplained
  /\ \A w \in Runners : RunInv(w)

-----------------------------------------------------------------------------
(* What is stored stays; what a run has done stays done.                     *)
Keeps(w) ==
  /\ relationships \subseteq relationships'
  /\ \A k \in Keys : discrepancies[k] <= discrepancies'[k]
  /\ runner[w].disc \subseteq runner'[w].disc
  /\ runner[w].rel \subseteq runner'[w].rel

LEMMA JudgedStays ==
  ASSUME TypeOK, TypeOK', NEW w \in Runners, Keeps(w), NEW s \in Sources,
         NEW rules, rules \subseteq Rules, Judged(w, s, rules)
  PROVE  Judged(w, s, rules)'
<1>1. ASSUME NEW k \in KeysOf(s, rules)
      PROVE  Seen(w, k)' > 0
  <2>1. k \in Keys
    BY KeysOfAreKeys
  <2>2. discrepancies[k] \in Nat /\ discrepancies'[k] \in Nat
    <3>1. Cardinality(Runners) \in Nat
      BY RunnersAssumption, FS_CardinalityType
    <3> QED
      BY <2>1, <3>1 DEF TypeOK
  <2>3. Seen(w, k) > 0
    BY DEF Judged
  <2> QED
    BY <2>1, <2>2, <2>3 DEF Seen, Keeps
<1> QED
  BY <1>1 DEF Judged, KeysOf

LEMMA JudgedLinkStays ==
  ASSUME TypeOK, TypeOK', NEW w \in Runners, Keeps(w), NEW l \in Links,
         JudgedLink(w, l)
  PROVE  JudgedLink(w, l)'
BY JudgedStays, LinkAssumption, VerdictsAreRules DEF JudgedLink

LEMMA LinkedStays ==
  ASSUME NEW w \in Runners, Keeps(w), NEW l, Linked(w, l)
  PROVE  Linked(w, l)'
BY DEF Linked, Related, Keeps

LEMMA UpsertJudges ==
  ASSUME TypeOK, NEW w \in Runners, NEW s \in Sources, NEW rules, rules \subseteq Rules,
         UNCHANGED discrepancies, runner'[w].disc = Upserted(w, s, rules)
  PROVE  Judged(w, s, rules)'
<1>1. ASSUME NEW k \in KeysOf(s, rules)
      PROVE  Seen(w, k)' > 0
  <2>1. k \in Keys /\ discrepancies[k] \in Nat
    BY KeysOfAreKeys, Counts
  <2> QED
    BY <1>1, <2>1 DEF Upserted, Seen
<1> QED
  BY <1>1 DEF Judged, KeysOf

LEMMA RulesOfSource ==
  ASSUME NEW s
  PROVE  FeeRule(s) \subseteq Rules /\ MissingRule(s) \subseteq Rules
BY DEF FeeRule, MissingRule, Rules

(* A run that does nothing itself is where it was.                           *)
LEMMA OthersKept ==
  ASSUME TypeOK, TypeOK', NEW w \in Runners, RunInv(w), runner'[w] = runner[w],
         relationships \subseteq relationships',
         \A k \in Keys : discrepancies[k] <= discrepancies'[k],
         \A s \in Sources : age[s] # "young" => age'[s] # "young"
  PROVE  RunInv(w)'
<1>1. Keeps(w)
  BY DEF Keeps
<1>2. runner[w] \in Activity
  BY DEF TypeOK
<1>3. Halfway(w)'
  BY <1>1, JudgedLinkStays, LinkedStays DEF RunInv, Halfway
<1>4. EvidenceInv(w)'
  <2>1. ASSUME NEW e \in runner[w].loaded
        PROVE  /\ e.link # Nothing => Link[e.link].source = e.source
               /\ e.old => age'[e.source] # "young"
               /\ \/ e.source \in runner[w].todo
                  \/ IF e.link = Nothing THEN SourceDone(w, e)' ELSE LinkDone(w, e.link)'
    <3>1. e.source \in Sources /\ e.link \in Links \cup {Nothing}
      BY <1>2 DEF Activity, Evidence
    <3>2. LoadedLinks(w, e.source)' = LoadedLinks(w, e.source)
      BY DEF LoadedLinks
    <3>3. SourceDone(w, e) => SourceDone(w, e)'
      BY <1>1, <3>1, <3>2, JudgedStays, RulesOfSource DEF SourceDone
    <3>4. e.link # Nothing /\ LinkDone(w, e.link) => LinkDone(w, e.link)'
      BY <1>1, <3>1, JudgedLinkStays, LinkedStays DEF LinkDone
    <3> QED
      BY <3>1, <3>3, <3>4 DEF RunInv, EvidenceInv
  <2> QED
    BY <2>1 DEF EvidenceInv
<1>5. RelInv(w)'
  BY <1>1, JudgedLinkStays DEF RunInv, RelInv, Explains
<1>6. KnownInv(w)'
  <2>1. \A k \in runner[w].known : k \in Keys
    BY <1>2 DEF Activity
  <2>2. Cardinality(Runners) \in Nat
    BY RunnersAssumption, FS_CardinalityType
  <2>3. \A k \in Keys : discrepancies[k] \in Nat /\ discrepancies'[k] \in Nat
    BY <2>2 DEF TypeOK
  <2> QED
    BY <2>1, <2>3 DEF RunInv, KnownInv
<1> QED
  BY <1>3, <1>4, <1>5, <1>6 DEF RunInv
-----------------------------------------------------------------------------
(* A run that goes on.  First what all its steps have in common: what was    *)
(* done stays done.                                                          *)
LEMMA WorkKeeps ==
  ASSUME TypeInv, NEW w \in Runners, Works(w)
  PROVE  /\ TypeOK /\ TypeOK' /\ runner[w] \in Activity /\ HasLink(runner[w])
         /\ Moves(w) /\ UNCHANGED <<ledger, tables>> /\ Adds(w) /\ Keeps(w)
<1>1. TypeOK /\ TypeOK' /\ runner[w] \in Activity /\ HasLink(runner[w])
  BY WorkKeepsTypes DEF TypeInv, TypeOK, HasLink
<1>2. Moves(w) /\ UNCHANGED <<ledger, tables>> /\ Adds(w)
  BY <1>1, WorkAdds
<1>3. Keeps(w)
  BY <1>1, <1>2, Counts DEF Adds, Keeps, tables
<1> QED
  BY <1>1, <1>2, <1>3

(* Between two links a run has none at hand.                                 *)
LEMMA NoneAtHand ==
  ASSUME NEW w, HasLink(runner[w]), runner[w].pc = "scan"
  PROVE  runner[w].link \notin Links
BY DEF HasLink

LEMMA SourceStaysDone ==
  ASSUME TypeOK, TypeOK', NEW w \in Runners, Keeps(w), NEW e \in runner[w].loaded,
         runner[w].loaded \subseteq runner'[w].loaded, SourceDone(w, e)
  PROVE  SourceDone(w, e)'
<1>1. e.source \in Sources
  BY DEF TypeOK, Activity, Evidence
<1>2. LoadedLinks(w, e.source) \subseteq LoadedLinks(w, e.source)'
  BY DEF LoadedLinks
<1> QED
  BY <1>1, <1>2, JudgedStays, RulesOfSource DEF SourceDone

LEMMA RelationshipsStay ==
  ASSUME TypeOK, TypeOK', NEW w \in Runners, Keeps(w), RelInv(w),
         runner[w].pc # "judge", NEW q \in runner[w].rel, q.status = "DISCREPANCY"
  PROVE  \E l \in Links : Explains(w, l, q)'
BY JudgedLinkStays DEF RelInv, Explains

LEMMA KnownStays ==
  ASSUME NEW w \in Runners, KnownInv(w), UNCHANGED discrepancies,
         runner'[w].known = runner[w].known
  PROVE  KnownInv(w)'
BY DEF KnownInv

LEMMA JudgeSourceKeepsRun ==
  ASSUME TypeInv, NEW w \in Runners, RunInv(w),
         NEW s \in runner[w].todo, JudgeSource(w, s)
  PROVE  RunInv(w)'
<1>1. Works(w)
  BY DEF Works
<1>2. /\ TypeOK /\ TypeOK' /\ runner[w] \in Activity /\ HasLink(runner[w])
      /\ Moves(w) /\ UNCHANGED <<ledger, tables>> /\ Adds(w) /\ Keeps(w)
  BY <1>1, WorkKeeps
<1>3. runner'[w] = [runner[w] EXCEPT !.todo = runner[w].todo \ {s},
                                     !.rest = LoadedLinks(w, s),
                                     !.disc = Upserted(w, s, OwnRules(w, s))]
  BY <1>2, JudgesSource
<1>11. runner[w].pc = "scan" /\ runner[w].rest = {} /\ s \in Sources
  BY <1>2 DEF JudgeSource, Activity
<1>4. /\ runner'[w].todo = runner[w].todo \ {s}
      /\ runner'[w].rest = LoadedLinks(w, s)
      /\ runner'[w].disc = Upserted(w, s, OwnRules(w, s))
      /\ runner'[w].pc = "scan" /\ runner[w].pc = "scan"
      /\ runner'[w].link = runner[w].link
      /\ runner'[w].loaded = runner[w].loaded
      /\ runner'[w].rel = runner[w].rel
      /\ runner'[w].known = runner[w].known
      /\ runner[w].rest = {} /\ s \in Sources
  BY <1>2, <1>3, <1>11 DEF Activity
<1>5. runner[w].link \notin Links
  BY <1>2, <1>4, NoneAtHand
<1>6. Judged(w, s, OwnRules(w, s))'
  <2>1. PICK rules : rules = OwnRules(w, s)
    OBVIOUS
  <2>2. Judged(w, s, rules)'
    BY <1>2, <1>4, <2>1, UpsertJudges, OwnRulesAreRules DEF tables
  <2> QED
    BY <1>2, <1>4, <2>1, <2>2 DEF OwnRules, LoadedLinks, ledger
<1>7. Halfway(w)'
  BY <1>4, <1>5 DEF Halfway
<1>8. EvidenceInv(w)'
  <2>1. ASSUME NEW e \in runner[w].loaded
        PROVE  /\ e.link # Nothing => Link[e.link].source = e.source
               /\ e.old => age'[e.source] # "young"
               /\ \/ e.source \in runner'[w].todo
                  \/ IF e.link = Nothing THEN SourceDone(w, e)' ELSE LinkDone(w, e.link)'
    <3>1. e.source \in Sources /\ e.link \in Links \cup {Nothing}
      BY <1>2 DEF Activity, Evidence
    <3>2. /\ e.link # Nothing => Link[e.link].source = e.source
          /\ e.old => age'[e.source] # "young" /\ age[e.source] # "young"
      BY <1>2 DEF RunInv, EvidenceInv, ledger
    <3>3. CASE e.source = s /\ e.link = Nothing
      <4>1. LoadedLinks(w, s)' = LoadedLinks(w, s)
        BY <1>4 DEF LoadedLinks
      <4>2. Judged(w, s, FeeRule(s))'
        BY <1>6 DEF Judged, OwnRules, KeysOf
      <4>3. LoadedLinks(w, s) = {} /\ e.old => Judged(w, s, MissingRule(s))'
        BY <1>6, <3>2, <3>3, <4>1 DEF Judged, OwnRules, KeysOf
      <4> QED
        BY <3>2, <3>3, <4>1, <4>2, <4>3 DEF SourceDone
    <3>4. CASE e.source = s /\ e.link # Nothing
      BY <1>2, <1>4, <3>2, <3>4, LoadedLinksAreLinks DEF LinkDone
    <3>5. CASE e.source # s /\ e.link = Nothing
      BY <1>2, <1>4, <3>2, <3>5, SourceStaysDone DEF RunInv, EvidenceInv
    <3>6. CASE e.source # s /\ e.link # Nothing
      <4>1. e.source \in runner[w].todo \/ (Linked(w, e.link) /\ JudgedLink(w, e.link))
        BY <1>4, <1>5, <3>1, <3>6 DEF RunInv, EvidenceInv, LinkDone
      <4> QED
        BY <1>2, <1>4, <3>1, <3>2, <3>6, <4>1, LinkedStays, JudgedLinkStays DEF LinkDone
    <3> QED
      BY <3>3, <3>4, <3>5, <3>6
  <2> QED
    BY <1>4, <2>1 DEF EvidenceInv
<1>9. RelInv(w)'
  BY <1>2, <1>4, RelationshipsStay DEF RunInv, RelInv
<1>10. KnownInv(w)'
  BY <1>2, <1>4, KnownStays DEF RunInv, tables
<1> QED
  BY <1>7, <1>8, <1>9, <1>10 DEF RunInv

LEMMA TakeLinkKeepsRun ==
  ASSUME TypeInv, NEW w \in Runners, RunInv(w),
         NEW l \in runner[w].rest, TakeLink(w, l)
  PROVE  RunInv(w)'
<1>1. Works(w)
  BY DEF Works
<1>2. /\ TypeOK /\ TypeOK' /\ runner[w] \in Activity /\ HasLink(runner[w])
      /\ Moves(w) /\ UNCHANGED <<ledger, tables>> /\ Adds(w) /\ Keeps(w)
  BY <1>1, WorkKeeps
<1>3. runner'[w] = [runner[w] EXCEPT
        !.rest = runner[w].rest \ {l}, !.link = l,
        !.pc = IF Link[l].source \in Payments THEN "relate" ELSE "judge"]
  BY <1>2, TakesLink
<1>11. runner[w].pc = "scan"
  BY DEF TakeLink
<1>4. /\ runner'[w].todo = runner[w].todo
      /\ runner'[w].rest = runner[w].rest \ {l}
      /\ runner[w].pc = "scan"
      /\ runner'[w].pc = IF Link[l].source \in Payments THEN "relate" ELSE "judge"
      /\ runner'[w].link = l
      /\ runner'[w].loaded = runner[w].loaded
      /\ runner'[w].rel = runner[w].rel
      /\ runner'[w].known = runner[w].known
  BY <1>2, <1>3, <1>11 DEF Activity
<1>5. runner[w].link \notin Links
  BY <1>2, <1>4, NoneAtHand
<1>7. Halfway(w)'
  BY <1>4 DEF Halfway
<1>8. EvidenceInv(w)'
  <2>1. ASSUME NEW e \in runner[w].loaded
        PROVE  /\ e.link # Nothing => Link[e.link].source = e.source
               /\ e.old => age'[e.source] # "young"
               /\ \/ e.source \in runner'[w].todo
                  \/ IF e.link = Nothing THEN SourceDone(w, e)' ELSE LinkDone(w, e.link)'
    <3>1. e.source \in Sources /\ e.link \in Links \cup {Nothing}
      BY <1>2 DEF Activity, Evidence
    <3>2. /\ e.link # Nothing => Link[e.link].source = e.source
          /\ e.old => age'[e.source] # "young"
      BY <1>2 DEF RunInv, EvidenceInv, ledger
    <3>5. CASE e.link = Nothing
      BY <1>2, <1>4, <3>2, <3>5, SourceStaysDone DEF RunInv, EvidenceInv
    <3>6. CASE e.link # Nothing
      <4>1. \/ e.source \in runner[w].todo
            \/ e.link \in runner[w].rest
            \/ (Linked(w, e.link) /\ JudgedLink(w, e.link))
        BY <1>4, <1>5, <3>1, <3>6 DEF RunInv, EvidenceInv, LinkDone
      <4> QED
        BY <1>2, <1>4, <3>1, <3>2, <3>6, <4>1, LinkedStays, JudgedLinkStays DEF LinkDone
    <3> QED
      BY <3>5, <3>6
  <2> QED
    BY <1>4, <2>1 DEF EvidenceInv
<1>9. RelInv(w)'
  BY <1>2, <1>4, RelationshipsStay DEF RunInv, RelInv
<1>10. KnownInv(w)'
  BY <1>2, <1>4, KnownStays DEF RunInv, tables
<1> QED
  BY <1>7, <1>8, <1>9, <1>10 DEF RunInv

LEMMA StartSettlementsKeepsRun ==
  ASSUME TypeInv, NEW w \in Runners, RunInv(w), StartSettlements(w)
  PROVE  RunInv(w)'
<1>1. Works(w)
  BY DEF Works
<1>2. /\ TypeOK /\ TypeOK' /\ runner[w] \in Activity /\ HasLink(runner[w])
      /\ Moves(w) /\ UNCHANGED <<ledger, tables>> /\ Adds(w) /\ Keeps(w)
  BY <1>1, WorkKeeps
<1>3. runner'[w] = [runner[w] EXCEPT
        !.phase = "settlements",
        !.loaded = runner[w].loaded \cup Loaded(Settlements),
        !.todo = InWindow(Settlements)]
  BY <1>2, StartsSettlements
<1>11. runner[w].pc = "scan" /\ runner[w].todo = {} /\ runner[w].rest = {}
  BY DEF StartSettlements
<1>4. /\ runner[w].todo = {} /\ runner[w].rest = {}
      /\ runner'[w].todo = InWindow(Settlements)
      /\ runner'[w].rest = {}
      /\ runner[w].pc = "scan" /\ runner'[w].pc = "scan"
      /\ runner'[w].link = runner[w].link
      /\ runner'[w].loaded = runner[w].loaded \cup Loaded(Settlements)
      /\ runner'[w].rel = runner[w].rel
      /\ runner'[w].known = runner[w].known
  BY <1>2, <1>3, <1>11 DEF Activity
<1>5. runner[w].link \notin Links
  BY <1>2, <1>4, NoneAtHand
<1>7. Halfway(w)'
  BY <1>4 DEF Halfway
<1>8. EvidenceInv(w)'
  <2>1. ASSUME NEW e \in runner[w].loaded
        PROVE  /\ e.link # Nothing => Link[e.link].source = e.source
               /\ e.old => age'[e.source] # "young"
               /\ IF e.link = Nothing THEN SourceDone(w, e)' ELSE LinkDone(w, e.link)'
    <3>1. e.source \in Sources /\ e.link \in Links \cup {Nothing}
      BY <1>2 DEF Activity, Evidence
    <3>2. /\ e.link # Nothing => Link[e.link].source = e.source
          /\ e.old => age'[e.source] # "young"
      BY <1>2 DEF RunInv, EvidenceInv, ledger
    <3>5. CASE e.link = Nothing
      BY <1>2, <1>4, <3>2, <3>5, SourceStaysDone DEF RunInv, EvidenceInv
    <3>6. CASE e.link # Nothing
      <4>1. Linked(w, e.link) /\ JudgedLink(w, e.link)
        BY <1>4, <1>5, <3>1, <3>6 DEF RunInv, EvidenceInv, LinkDone
      <4> QED
        BY <1>2, <1>4, <3>1, <3>2, <3>6, <4>1, LinkedStays, JudgedLinkStays DEF LinkDone
    <3> QED
      BY <3>5, <3>6
  <2>2. \A e \in Loaded(Settlements) :
          /\ e.link # Nothing => Link[e.link].source = e.source
          /\ e.old => age'[e.source] # "young"
          /\ e.source \in runner'[w].todo
    BY <1>2, <1>4, LoadedIsEvidence DEF Sources, ledger
  <2> QED
    BY <1>4, <2>1, <2>2 DEF EvidenceInv
<1>9. RelInv(w)'
  BY <1>2, <1>4, RelationshipsStay DEF RunInv, RelInv
<1>10. KnownInv(w)'
  BY <1>2, <1>4, KnownStays DEF RunInv, tables
<1> QED
  BY <1>7, <1>8, <1>9, <1>10 DEF RunInv

(* The link at hand stays at hand, or both things have been done with it.    *)
LEMMA JudgeLinkKeepsRun ==
  ASSUME TypeInv, NEW w \in Runners, RunInv(w), JudgeLink(w)
  PROVE  RunInv(w)'
<1>1. Works(w)
  BY DEF Works
<1>2. /\ TypeOK /\ TypeOK' /\ runner[w] \in Activity /\ HasLink(runner[w])
      /\ Moves(w) /\ UNCHANGED <<ledger, tables>> /\ Adds(w) /\ Keeps(w)
  BY <1>1, WorkKeeps
<1>11. runner[w].pc = "judge"
  BY DEF JudgeLink
<1>3. PICK l \in Links : l = runner[w].link
  BY <1>2, <1>11 DEF HasLink
<1>12. runner'[w] = [runner[w] EXCEPT
        !.disc = Upserted(w, Link[l].source, Verdict(l)),
        !.pc = AfterJudging(l), !.link = Following(l, AfterJudging(l))]
  BY <1>2, <1>3, JudgesLink
<1>4. /\ runner'[w].todo = runner[w].todo
      /\ runner'[w].rest = runner[w].rest
      /\ runner'[w].disc = Upserted(w, Link[l].source, Verdict(l))
      /\ runner'[w].pc = AfterJudging(l)
      /\ runner'[w].link = Following(l, AfterJudging(l))
      /\ runner'[w].loaded = runner[w].loaded
      /\ runner'[w].rel = runner[w].rel
      /\ runner'[w].known = runner[w].known
  BY <1>2, <1>12 DEF Activity
<1>6. JudgedLink(w, l)'
  BY <1>2, <1>4, UpsertJudges, VerdictsAreRules, LinkAssumption DEF JudgedLink, tables
<1>5. runner'[w].link = l \/ (Linked(w, l)' /\ JudgedLink(w, l)')
  <2>1. CASE Link[l].source \in Payments
    BY <1>2, <1>3, <1>6, <1>11, <2>1, LinkedStays DEF RunInv, Halfway
  <2>2. CASE Link[l].source \notin Payments
    BY <1>4, <2>2 DEF AfterJudging, Following
  <2> QED
    BY <2>1, <2>2
<1>7. Halfway(w)'
  <2>1. CASE Link[l].source \in Payments
    BY <1>4, <2>1, NothingAssumption DEF Halfway, AfterJudging, Following
  <2>2. CASE Link[l].source \notin Payments
    BY <1>4, <1>6, <2>2 DEF Halfway, AfterJudging, Following
  <2> QED
    BY <2>1, <2>2
<1>8. EvidenceInv(w)'
  <2>1. ASSUME NEW e \in runner[w].loaded
        PROVE  /\ e.link # Nothing => Link[e.link].source = e.source
               /\ e.old => age'[e.source] # "young"
               /\ \/ e.source \in runner'[w].todo
                  \/ IF e.link = Nothing THEN SourceDone(w, e)' ELSE LinkDone(w, e.link)'
    <3>1. e.source \in Sources /\ e.link \in Links \cup {Nothing}
      BY <1>2 DEF Activity, Evidence
    <3>2. /\ e.link # Nothing => Link[e.link].source = e.source
          /\ e.old => age'[e.source] # "young"
      BY <1>2 DEF RunInv, EvidenceInv, ledger
    <3>3. CASE e.link = Nothing
      BY <1>2, <1>4, <3>2, <3>3, SourceStaysDone DEF RunInv, EvidenceInv
    <3>4. CASE e.link = l
      BY <1>4, <1>5, <3>2, <3>4, NothingAssumption DEF LinkDone
    <3>5. CASE e.link \notin {Nothing, l}
      <4>1. \/ e.source \in runner[w].todo
            \/ e.link \in runner[w].rest
            \/ (Linked(w, e.link) /\ JudgedLink(w, e.link))
        BY <1>3, <3>1, <3>5 DEF RunInv, EvidenceInv, LinkDone
      <4> QED
        BY <1>2, <1>4, <3>1, <3>2, <3>5, <4>1, LinkedStays, JudgedLinkStays DEF LinkDone
    <3> QED
      BY <3>3, <3>4, <3>5
  <2> QED
    BY <1>4, <2>1 DEF EvidenceInv
<1>9. RelInv(w)'
  <2>1. ASSUME NEW q \in runner[w].rel, q.status = "DISCREPANCY"
        PROVE  \E m \in Links : Explains(w, m, q)'
    <3>1. PICK m \in Links : Explains(w, m, q)
      BY <2>1 DEF RunInv, RelInv
    <3>2. JudgedLink(w, m)'
      BY <1>2, <1>3, <1>6, <3>1, JudgedLinkStays DEF Explains
    <3> QED
      BY <3>1, <3>2 DEF Explains
  <2> QED
    BY <1>4, <2>1 DEF RelInv
<1>10. KnownInv(w)'
  BY <1>2, <1>4, KnownStays DEF RunInv, tables
<1> QED
  BY <1>7, <1>8, <1>9, <1>10 DEF RunInv

LEMMA FindRelationshipKeepsRun ==
  ASSUME TypeInv, NEW w \in Runners, RunInv(w), FindRelationship(w)
  PROVE  RunInv(w)'
<1>1. Works(w)
  BY DEF Works
<1>2. /\ TypeOK /\ TypeOK' /\ runner[w] \in Activity /\ HasLink(runner[w])
      /\ Moves(w) /\ UNCHANGED <<ledger, tables>> /\ Adds(w) /\ Keeps(w)
  BY <1>1, WorkKeeps
<1>11. runner[w].pc = "relate"
  BY DEF FindRelationship
<1>3. PICK l \in Links : l = runner[w].link
  BY <1>2, <1>11 DEF HasLink
<1>12. PICK next \in {"insert", AfterRelating(l)} :
        /\ next # "insert" => Related(l, relationships \cup runner[w].rel)
        /\ runner'[w] = [runner[w] EXCEPT !.pc = next, !.link = Following(l, next)]
  BY <1>2, <1>3, FindsRelationship
<1>4. /\ runner'[w].todo = runner[w].todo
      /\ runner'[w].rest = runner[w].rest
      /\ runner'[w].pc = next
      /\ runner'[w].link = Following(l, next)
      /\ runner'[w].loaded = runner[w].loaded
      /\ runner'[w].rel = runner[w].rel
      /\ runner'[w].known = runner[w].known
  BY <1>2, <1>12 DEF Activity
<1>6. /\ Link[l].source \notin Payments => JudgedLink(w, l)'
      /\ next # "insert" => Linked(w, l)'
  <2>1. Link[l].source \notin Payments => JudgedLink(w, l)
    BY <1>3, <1>11 DEF RunInv, Halfway
  <2>2. next # "insert" => Linked(w, l)
    BY <1>12 DEF Linked
  <2> QED
    BY <1>2, <2>1, <2>2, LinkedStays, JudgedLinkStays
<1>5. runner'[w].link = l \/ (Linked(w, l)' /\ JudgedLink(w, l)')
  BY <1>4, <1>6, <1>12 DEF AfterRelating, Following
<1>7. Halfway(w)'
  BY <1>4, <1>6, <1>12, NothingAssumption DEF Halfway, AfterRelating, Following
<1>8. EvidenceInv(w)'
  <2>1. ASSUME NEW e \in runner[w].loaded
        PROVE  /\ e.link # Nothing => Link[e.link].source = e.source
               /\ e.old => age'[e.source] # "young"
               /\ \/ e.source \in runner'[w].todo
                  \/ IF e.link = Nothing THEN SourceDone(w, e)' ELSE LinkDone(w, e.link)'
    <3>1. e.source \in Sources /\ e.link \in Links \cup {Nothing}
      BY <1>2 DEF Activity, Evidence
    <3>2. /\ e.link # Nothing => Link[e.link].source = e.source
          /\ e.old => age'[e.source] # "young"
      BY <1>2 DEF RunInv, EvidenceInv, ledger
    <3>3. CASE e.link = Nothing
      BY <1>2, <1>4, <3>2, <3>3, SourceStaysDone DEF RunInv, EvidenceInv
    <3>4. CASE e.link = l
      BY <1>4, <1>5, <3>2, <3>4, NothingAssumption DEF LinkDone
    <3>5. CASE e.link \notin {Nothing, l}
      <4>1. \/ e.source \in runner[w].todo
            \/ e.link \in runner[w].rest
            \/ (Linked(w, e.link) /\ JudgedLink(w, e.link))
        BY <1>3, <3>1, <3>5 DEF RunInv, EvidenceInv, LinkDone
      <4> QED
        BY <1>2, <1>4, <3>1, <3>2, <3>5, <4>1, LinkedStays, JudgedLinkStays DEF LinkDone
    <3> QED
      BY <3>3, <3>4, <3>5
  <2> QED
    BY <1>4, <2>1 DEF EvidenceInv
<1>9. RelInv(w)'
  BY <1>2, <1>4, <1>11, RelationshipsStay DEF RunInv, RelInv
<1>10. KnownInv(w)'
  BY <1>2, <1>4, KnownStays DEF RunInv, tables
<1> QED
  BY <1>7, <1>8, <1>9, <1>10 DEF RunInv

LEMMA InsertKeepsRun ==
  ASSUME TypeInv, NEW w \in Runners, RunInv(w), InsertRelationship(w)
  PROVE  RunInv(w)'
<1>1. Works(w)
  BY DEF Works
<1>2. /\ TypeOK /\ TypeOK' /\ runner[w] \in Activity /\ HasLink(runner[w])
      /\ Moves(w) /\ UNCHANGED <<ledger, tables>> /\ Adds(w) /\ Keeps(w)
  BY <1>1, WorkKeeps
<1>11. runner[w].pc = "insert"
  BY DEF InsertRelationship
<1>3. PICK l \in Links : l = runner[w].link
  BY <1>2, <1>11 DEF HasLink
<1>12. runner'[w] = [runner[w] EXCEPT
        !.pc = AfterRelating(l), !.link = Following(l, AfterRelating(l)),
        !.rel = runner[w].rel \cup {NewRelationship(l)}]
  BY <1>2, <1>3, InsertsRelationship
<1>4. /\ runner'[w].todo = runner[w].todo
      /\ runner'[w].rest = runner[w].rest
      /\ runner'[w].pc = AfterRelating(l)
      /\ runner'[w].link = Following(l, AfterRelating(l))
      /\ runner'[w].loaded = runner[w].loaded
      /\ runner'[w].rel = runner[w].rel \cup {NewRelationship(l)}
      /\ runner'[w].known = runner[w].known
  BY <1>2, <1>12 DEF Activity
<1>6. /\ Link[l].source \notin Payments => JudgedLink(w, l)'
      /\ Linked(w, l)'
  <2>1. Link[l].source \notin Payments => JudgedLink(w, l)
    BY <1>3, <1>11 DEF RunInv, Halfway
  <2>2. Linked(w, l)'
    <3>1. /\ NewRelationship(l).source = Link[l].source
          /\ NewRelationship(l).target = Link[l].target
          /\ NewRelationship(l) \in (relationships \cup runner[w].rel)'
      BY <1>4 DEF NewRelationship
    <3> QED
      BY <3>1 DEF Linked, Related
  <2> QED
    BY <1>2, <2>1, <2>2, JudgedLinkStays
<1>5. runner'[w].link = l \/ (Linked(w, l)' /\ JudgedLink(w, l)')
  BY <1>4, <1>6 DEF AfterRelating, Following
<1>7. Halfway(w)'
  BY <1>4, <1>6, NothingAssumption DEF Halfway, AfterRelating, Following
<1>8. EvidenceInv(w)'
  <2>1. ASSUME NEW e \in runner[w].loaded
        PROVE  /\ e.link # Nothing => Link[e.link].source = e.source
               /\ e.old => age'[e.source] # "young"
               /\ \/ e.source \in runner'[w].todo
                  \/ IF e.link = Nothing THEN SourceDone(w, e)' ELSE LinkDone(w, e.link)'
    <3>1. e.source \in Sources /\ e.link \in Links \cup {Nothing}
      BY <1>2 DEF Activity, Evidence
    <3>2. /\ e.link # Nothing => Link[e.link].source = e.source
          /\ e.old => age'[e.source] # "young"
      BY <1>2 DEF RunInv, EvidenceInv, ledger
    <3>3. CASE e.link = Nothing
      BY <1>2, <1>4, <3>2, <3>3, SourceStaysDone DEF RunInv, EvidenceInv
    <3>4. CASE e.link = l
      BY <1>4, <1>5, <3>2, <3>4, NothingAssumption DEF LinkDone
    <3>5. CASE e.link \notin {Nothing, l}
      <4>1. \/ e.source \in runner[w].todo
            \/ e.link \in runner[w].rest
            \/ (Linked(w, e.link) /\ JudgedLink(w, e.link))
        BY <1>3, <3>1, <3>5 DEF RunInv, EvidenceInv, LinkDone
      <4> QED
        BY <1>2, <1>4, <3>1, <3>2, <3>5, <4>1, LinkedStays, JudgedLinkStays DEF LinkDone
    <3> QED
      BY <3>3, <3>4, <3>5
  <2> QED
    BY <1>4, <2>1 DEF EvidenceInv
<1>9. RelInv(w)'
  <2>1. NewRelationship(l).status = "DISCREPANCY" => Explains(w, l, NewRelationship(l))'
    BY <1>4, <1>6 DEF NewRelationship, Explains, AfterRelating, Following
  <2> QED
    BY <1>2, <1>3, <1>4, <1>11, <2>1, RelationshipsStay DEF RunInv, RelInv
<1>10. KnownInv(w)'
  BY <1>2, <1>4, KnownStays DEF RunInv, tables
<1> QED
  BY <1>7, <1>8, <1>9, <1>10 DEF RunInv

LEMMA WorkKeepsRun ==
  ASSUME TypeInv, NEW w \in Runners, RunInv(w), Works(w)
  PROVE  RunInv(w)'
BY JudgeSourceKeepsRun, TakeLinkKeepsRun, StartSettlementsKeepsRun, JudgeLinkKeepsRun,
   FindRelationshipKeepsRun, InsertKeepsRun DEF Works

-----------------------------------------------------------------------------
LEMMA IdleRun ==
  ASSUME NEW w \in Runners, runner[w] = Idle
  PROVE  RunInv(w)
BY NothingAssumption DEF RunInv, Halfway, EvidenceInv, RelInv, KnownInv, Idle

LEMMA InvInit == Init => Inv
<1> SUFFICES ASSUME Init PROVE Inv
  OBVIOUS
<1>1. relationships = {} /\ \A w \in Runners : runner[w] = Idle
  BY DEF Init
<1>2. NoneRepeated /\ RelationshipIsExplained
  BY <1>1 DEF NoneRepeated, RelationshipIsExplained, Idle
<1> QED
  BY <1>1, <1>2, IdleRun, TypeInit DEF Inv

(* An explanation that is stored stays stored.                               *)
LEMMA ExplainedStays ==
  ASSUME TypeOK, TypeOK', RelationshipIsExplained,
         relationships' = relationships,
         \A k \in Keys : discrepancies[k] <= discrepancies'[k]
  PROVE  RelationshipIsExplained'
<1>1. \A k \in Keys : discrepancies[k] \in Nat /\ discrepancies'[k] \in Nat
  <2>1. Cardinality(Runners) \in Nat
    BY RunnersAssumption, FS_CardinalityType
  <2> QED
    BY <2>1 DEF TypeOK
<1>2. ASSUME NEW l \in Links, Stored(Link[l].source, Verdict(l))
      PROVE  Stored(Link[l].source, Verdict(l))'
  BY <1>1, <1>2, LinkAssumption, VerdictsAreRules, KeysOfAreKeys DEF Stored
<1> QED
  BY <1>2 DEF RelationshipIsExplained

LEMMA WorldStep ==
  ASSUME Inv, World
  PROVE  Inv'
<1>1. TypeInv' /\ TypeOK /\ TypeOK'
  BY TypeStep, StepKinds DEF Inv, TypeInv, Next, World
<1>2. /\ UNCHANGED <<tables, runner>>
      /\ \A s \in Sources : age[s] # "young" => age'[s] # "young"
  BY <1>1, WorldAges
<1>3. \A k \in Keys : discrepancies[k] <= discrepancies'[k]
  BY <1>1, <1>2, Counts DEF tables
<1>4. \A w \in Runners : RunInv(w)'
  BY <1>1, <1>2, <1>3, OthersKept DEF Inv, tables
<1>5. RelationshipIsExplained' /\ NoneRepeated'
  BY <1>1, <1>2, <1>3, ExplainedStays DEF Inv, tables, NoneRepeated
<1> QED
  BY <1>1, <1>4, <1>5 DEF Inv

(* A step of a runner that leaves the tables alone.                          *)
LEMMA RunnerStep ==
  ASSUME Inv, TypeInv', NEW w \in Runners, Moves(w), UNCHANGED <<ledger, tables>>,
         RunInv(w)', runner'[w].disc \cap runner'[w].known = {}
  PROVE  Inv'
<1>1. TypeOK /\ TypeOK'
  BY DEF Inv, TypeInv
<1>2. \A k \in Keys : discrepancies[k] <= discrepancies'[k]
  BY <1>1, Counts DEF tables
<1>3. \A v \in Runners : RunInv(v)'
  BY <1>1, <1>2, OthersKept DEF Inv, Moves, tables, ledger
<1>4. RelationshipIsExplained'
  BY <1>1, <1>2, ExplainedStays DEF Inv, tables
<1>5. NoneRepeated'
  BY DEF Inv, NoneRepeated, Moves
<1> QED
  BY <1>3, <1>4, <1>5 DEF Inv

LEMMA WorkStep ==
  ASSUME Inv, NEW w \in Runners, Works(w)
  PROVE  Inv'
<1>1. TypeInv' /\ TypeInv /\ RunInv(w)
  BY WorkKeepsTypes DEF Inv
<1>2. /\ Moves(w) /\ UNCHANGED <<ledger, tables>> /\ Adds(w) /\ RunInv(w)'
      /\ runner[w] \in Activity /\ TypeOK
  BY <1>1, WorkKeeps, WorkKeepsRun
<1>3. runner'[w].disc \cap runner'[w].known = {}
  <2>1. ASSUME NEW k \in runner'[w].disc, k \in runner[w].known
        PROVE  FALSE
    <3>1. discrepancies[k] > 0 /\ k \in Keys
      BY <1>1, <1>2, <2>1 DEF RunInv, KnownInv, Activity
    <3>2. CASE k \in runner[w].disc
      BY <2>1, <3>2 DEF Inv, NoneRepeated
    <3>3. CASE k \notin runner[w].disc
      BY <1>2, <2>1, <3>1, <3>3 DEF Adds
    <3> QED
      BY <3>2, <3>3
  <2> QED
    BY <1>2, <2>1 DEF Adds
<1> QED
  BY <1>1, <1>2, <1>3, RunnerStep

LEMMA LoseStep ==
  ASSUME Inv, NEW w \in Runners, Lose(w)
  PROVE  Inv'
<1>1. TypeInv' /\ TypeOK
  BY EndKeepsTypes DEF Inv, TypeInv
<1>2. Moves(w) /\ runner'[w] = Idle
  BY <1>1, Ends
<1>3. RunInv(w)' /\ runner'[w].disc \cap runner'[w].known = {}
  BY <1>2, NothingAssumption
     DEF RunInv, Halfway, EvidenceInv, RelInv, KnownInv, Idle
<1> QED
  BY <1>1, <1>2, <1>3, RunnerStep DEF Lose

LEMMA BeginStep ==
  ASSUME Inv, NEW w \in Runners, Start(w)
  PROVE  Inv'
<1>1. TypeInv' /\ TypeOK /\ UNCHANGED <<ledger, tables>>
  BY EndKeepsTypes DEF Inv, TypeInv, Start
<1>2. /\ Moves(w)
      /\ runner'[w] = [Idle EXCEPT !.pc = "scan",
                                   !.loaded = Loaded(Payments),
                                   !.todo = InWindow(Payments),
                                   !.known = {k \in Keys : discrepancies[k] > 0},
                                   !.kept = relationships]
  BY <1>1, Starts
<1>3. /\ runner'[w].pc = "scan" /\ runner'[w].link = Nothing
      /\ runner'[w].loaded = Loaded(Payments)
      /\ runner'[w].todo = InWindow(Payments)
      /\ runner'[w].rel = {} /\ runner'[w].disc = {}
      /\ runner'[w].known = {k \in Keys : discrepancies[k] > 0}
  BY <1>2 DEF Idle
<1>4. EvidenceInv(w)'
  <2>1. \A e \in Loaded(Payments) :
          /\ e.link # Nothing => Link[e.link].source = e.source
          /\ e.old => age'[e.source] # "young"
          /\ e.source \in runner'[w].todo
    BY <1>1, <1>3, LoadedIsEvidence DEF Sources, ledger
  <2> QED
    BY <1>3, <2>1 DEF EvidenceInv
<1>5. Halfway(w)' /\ RelInv(w)' /\ KnownInv(w)'
  BY <1>1, <1>3, NothingAssumption DEF Halfway, RelInv, KnownInv, tables
<1> QED
  BY <1>1, <1>2, <1>3, <1>4, <1>5, RunnerStep DEF RunInv

(* A commit makes what the run has seen to be stored, visible to all.        *)
LEMMA CommitStores ==
  ASSUME TypeInv, NEW w \in Runners, Commit(w)
  PROVE  /\ TypeOK /\ TypeOK' /\ TypeInv'
         /\ runner[w] \in Activity /\ runner[w].link \notin Links
         /\ relationships' = relationships \cup runner[w].rel
         /\ \A k \in Keys : discrepancies'[k] = Seen(w, k)
         /\ \A k \in Keys : discrepancies[k] <= discrepancies'[k]
<1>1. TypeOK /\ TypeOK' /\ TypeInv' /\ runner[w] \in Activity /\ HasLink(runner[w])
  BY CommitKeepsTypes DEF TypeInv, TypeOK, HasLink
<1>2. /\ relationships' = relationships \cup runner[w].rel
      /\ discrepancies' = [k \in Keys |-> Seen(w, k)]
      /\ runner[w].pc = "scan"
  BY DEF Commit
<1> QED
  BY <1>1, <1>2, Counts, NoneAtHand DEF Seen

LEMMA JudgedIsStored ==
  ASSUME TypeInv, NEW w \in Runners, Commit(w), NEW s \in Sources,
         NEW rules, rules \subseteq Rules, Judged(w, s, rules)
  PROVE  Stored(s, rules)'
BY CommitStores, KeysOfAreKeys DEF Judged, Stored

LEMMA CommitStep ==
  ASSUME Inv, NEW w \in Runners, Commit(w)
  PROVE  Inv'
<1>1. /\ TypeOK /\ TypeOK' /\ TypeInv' /\ TypeInv /\ RunInv(w)
      /\ runner[w] \in Activity /\ runner[w].link \notin Links
      /\ relationships' = relationships \cup runner[w].rel
      /\ \A k \in Keys : discrepancies[k] <= discrepancies'[k]
  BY CommitStores DEF Inv
<1>2. Moves(w) /\ runner'[w] = Idle /\ UNCHANGED ledger
  BY <1>1, Ends DEF Commit
<1>3. \A v \in Runners : RunInv(v)'
  <2>1. RunInv(w)'
    BY <1>2, NothingAssumption DEF RunInv, Halfway, EvidenceInv, RelInv, KnownInv, Idle
  <2> QED
    BY <1>1, <1>2, <2>1, OthersKept DEF Inv, Moves, ledger
<1>4. RelationshipIsExplained'
  <2>1. ASSUME NEW l \in Links, JudgedLink(w, l)
        PROVE  Stored(Link[l].source, Verdict(l))'
    BY <1>1, <2>1, JudgedIsStored, LinkAssumption, VerdictsAreRules DEF JudgedLink
  <2>2. ASSUME NEW q \in runner[w].rel, q.status = "DISCREPANCY"
        PROVE  \E l \in Links :
                 /\ Link[l].source = q.source /\ Link[l].target = q.target
                 /\ Verdict(l) # {} /\ Stored(q.source, Verdict(l))'
    <3>1. PICK l \in Links : Explains(w, l, q)
      BY <1>1, <2>2 DEF RunInv, RelInv
    <3>2. JudgedLink(w, l)
      BY <1>1, <3>1 DEF Explains
    <3> QED
      BY <2>1, <3>1, <3>2 DEF Explains
  <2>3. \A k \in Keys : discrepancies[k] \in Nat /\ discrepancies'[k] \in Nat
    <3>1. Cardinality(Runners) \in Nat
      BY RunnersAssumption, FS_CardinalityType
    <3> QED
      BY <1>1, <3>1 DEF TypeOK
  <2>4. ASSUME NEW l \in Links, Stored(Link[l].source, Verdict(l))
        PROVE  Stored(Link[l].source, Verdict(l))'
    BY <1>1, <2>3, <2>4, LinkAssumption, VerdictsAreRules, KeysOfAreKeys DEF Stored
  <2> QED
    BY <1>1, <2>2, <2>4 DEF Inv, RelationshipIsExplained
<1>5. NoneRepeated'
  BY <1>2 DEF Inv, NoneRepeated, Moves, Idle
<1> QED
  BY <1>1, <1>3, <1>4, <1>5 DEF Inv

LEMMA InvStep == Inv /\ [Next]_vars => Inv'
<1>1. ASSUME Inv, UNCHANGED vars PROVE Inv'
  <2>1. UNCHANGED <<age, relationships, discrepancies, runner>>
    BY <1>1 DEF vars, ledger, tables
  <2>2. TypeInv' /\ TypeOK /\ TypeOK'
    BY <1>1, TypeStep DEF Inv, TypeInv
  <2>3. \A k \in Keys : discrepancies[k] <= discrepancies'[k]
    BY <2>1, <2>2, Counts
  <2>4. \A w \in Runners : RunInv(w)'
    BY <1>1, <2>1, <2>2, <2>3, OthersKept DEF Inv
  <2>5. RelationshipIsExplained' /\ NoneRepeated'
    BY <1>1, <2>1, <2>2, <2>3, ExplainedStays DEF Inv, NoneRepeated
  <2> QED
    BY <2>2, <2>4, <2>5 DEF Inv
<1> QED
  BY <1>1, StepKinds, WorldStep, BeginStep, WorkStep, LoseStep, CommitStep

LEMMA Invariance == Spec => []Inv
BY InvInit, InvStep, PTL DEF Spec

-----------------------------------------------------------------------------
(* The tables and the runners keep to their types; a row of discrepancies is *)
(* stored at most once by each runner of an overlap.                         *)
THEOREM TypeInvariance == Spec => []TypeOK
<1>1. Inv => TypeOK
  BY DEF Inv, TypeInv
<1> QED
  BY <1>1, Invariance, PTL

(* Where a relationship is stored as a discrepancy, the discrepancy that     *)
(* explains it is stored too, by whichever runs and with whatever deaths.    *)
THEOREM RelationshipsAreExplained == Spec => []RelationshipIsExplained
<1>1. Inv => RelationshipIsExplained
  BY DEF Inv
<1> QED
  BY <1>1, Invariance, PTL

LEMMA CommitExplains ==
  ASSUME Inv, NEW w \in Runners, Commit(w), NEW loaded \in {runner[w].loaded},
         NEW e \in loaded
  PROVE  Explained(e, loaded)'
<1>1. /\ TypeInv /\ RunInv(w) /\ runner[w] \in Activity
      /\ runner[w].link \notin Links
      /\ relationships' = relationships \cup runner[w].rel
  BY CommitStores DEF Inv
<1>2. runner[w].todo = {} /\ runner[w].rest = {}
  BY DEF Commit
<1>3. e.source \in Sources /\ e.link \in Links \cup {Nothing} /\ e \in runner[w].loaded
  BY <1>1 DEF Activity, Evidence
<1>4. CASE e.link = Nothing
  <2>1. SourceDone(w, e)
    BY <1>1, <1>2, <1>3, <1>4 DEF RunInv, EvidenceInv
  <2>2. Stored(e.source, FeeRule(e.source))'
    BY <1>1, <1>3, <2>1, JudgedIsStored, RulesOfSource DEF SourceDone
  <2>3. (\A d \in loaded : d.source = e.source => d.link = Nothing) /\ e.old
          => Stored(e.source, MissingRule(e.source))'
    <3>1. (\A d \in loaded : d.source = e.source => d.link = Nothing)
            => LoadedLinks(w, e.source) = {}
      BY DEF LoadedLinks
    <3> QED
      BY <1>1, <1>3, <2>1, <3>1, JudgedIsStored, RulesOfSource DEF SourceDone
  <2> QED
    BY <1>4, <2>2, <2>3 DEF Explained
<1>5. CASE e.link # Nothing
  <2>1. Linked(w, e.link) /\ JudgedLink(w, e.link) /\ Link[e.link].source = e.source
    BY <1>1, <1>2, <1>3, <1>5 DEF RunInv, EvidenceInv, LinkDone
  <2>2. Stored(e.source, Verdict(e.link))'
    BY <1>1, <1>3, <1>5, <2>1, JudgedIsStored, VerdictsAreRules DEF JudgedLink
  <2>3. Related(e.link, relationships)'
    BY <1>1, <2>1 DEF Linked, Related
  <2> QED
    BY <1>5, <2>2, <2>3 DEF Explained
<1> QED
  BY <1>4, <1>5

(* The commit of a run leaves nothing that it loaded unexplained: each       *)
(* source and each link has its relationship or its discrepancies, also when *)
(* other runs committed while it was working.                                *)
THEOREM CompletedRunsExplain == Spec => CompletedRunExplains
<1>1. Inv /\ [Next]_vars =>
        [\A w \in Runners : Commit(w) =>
           \A loaded \in {runner[w].loaded} :
             \A e \in loaded : Explained(e, loaded)']_vars
  BY CommitExplains
<1> QED
  BY <1>1, Invariance, PTL DEF Spec, CompletedRunExplains

-----------------------------------------------------------------------------
(* The relationships that were stored when a run began are still there, and  *)
(* it inserts none of them: what it looks for before, it looks for among all *)
(* that are stored.                                                          *)
LossInv(w) ==
  /\ runner[w].kept \subseteq relationships
  /\ runner[w].pc = "insert" => ~Related(runner[w].link, runner[w].kept)

(* Only the look that finds nothing leads to an INSERT.                      *)
LEMMA InsertsUnrelated ==
  ASSUME TypeOK, NEW w \in Runners, Works(w), runner'[w].pc = "insert"
  PROVE  ~Related(runner'[w].link, relationships)
<1>1. runner[w] \in Activity
  BY RunnerTyped
<1>2. ASSUME NEW s \in runner[w].todo, JudgeSource(w, s) PROVE FALSE
  <2>1. runner[w].pc = "scan"
    BY <1>2 DEF JudgeSource
  <2>2. runner'[w] = [runner[w] EXCEPT !.todo = runner[w].todo \ {s},
                                       !.rest = LoadedLinks(w, s),
                                       !.disc = Upserted(w, s, OwnRules(w, s))]
    BY <1>2, JudgesSource
  <2>3. runner'[w].pc = "scan"
    BY <1>1, <2>1, <2>2 DEF Activity
  <2> QED
    BY <2>3
<1>3. ASSUME NEW l \in runner[w].rest, TakeLink(w, l) PROVE FALSE
  <2>1. runner'[w] = [runner[w] EXCEPT
          !.rest = runner[w].rest \ {l}, !.link = l,
          !.pc = IF Link[l].source \in Payments THEN "relate" ELSE "judge"]
    BY <1>3, TakesLink
  <2>2. runner'[w].pc \in {"relate", "judge"}
    BY <1>1, <2>1 DEF Activity
  <2> QED
    BY <2>2
<1>4. ASSUME StartSettlements(w) PROVE FALSE
  <2>1. runner[w].pc = "scan"
    BY <1>4 DEF StartSettlements
  <2>2. runner'[w] = [runner[w] EXCEPT
          !.phase = "settlements",
          !.loaded = runner[w].loaded \cup Loaded(Settlements),
          !.todo = InWindow(Settlements)]
    BY <1>4, StartsSettlements
  <2>3. runner'[w].pc = "scan"
    BY <1>1, <2>1, <2>2 DEF Activity
  <2> QED
    BY <2>3
<1>5. ASSUME JudgeLink(w) PROVE FALSE
  <2>1. PICK l \in Links : l = runner[w].link
    BY <1>5 DEF JudgeLink, TypeOK
  <2>2. runner'[w] = [runner[w] EXCEPT
          !.disc = Upserted(w, Link[l].source, Verdict(l)),
          !.pc = AfterJudging(l), !.link = Following(l, AfterJudging(l))]
    BY <1>5, <2>1, JudgesLink
  <2>3. runner'[w].pc = AfterJudging(l)
    BY <1>1, <2>2 DEF Activity
  <2> QED
    BY <2>3 DEF AfterJudging
<1>6. ASSUME InsertRelationship(w) PROVE FALSE
  <2>1. PICK l \in Links : l = runner[w].link
    BY <1>6 DEF InsertRelationship, TypeOK
  <2>2. runner'[w] = [runner[w] EXCEPT
          !.pc = AfterRelating(l), !.link = Following(l, AfterRelating(l)),
          !.rel = runner[w].rel \cup {NewRelationship(l)}]
    BY <1>6, <2>1, InsertsRelationship
  <2>3. runner'[w].pc = AfterRelating(l)
    BY <1>1, <2>2 DEF Activity
  <2> QED
    BY <2>3 DEF AfterRelating
<1>7. ASSUME FindRelationship(w) PROVE ~Related(runner'[w].link, relationships)
  <2>1. PICK l \in Links : l = runner[w].link
    BY <1>7 DEF FindRelationship, TypeOK
  <2>2. PICK next \in {"insert", AfterRelating(l)} :
          /\ next # "insert" <=> Related(l, relationships \cup runner[w].rel)
          /\ runner'[w] = [runner[w] EXCEPT !.pc = next, !.link = Following(l, next)]
    BY <1>7, <2>1, FindsRelationship
  <2>3. runner'[w].pc = next /\ runner'[w].link = Following(l, next)
    BY <1>1, <2>2 DEF Activity
  <2> QED
    BY <2>2, <2>3 DEF Following, Related
<1> QED
  BY <1>2, <1>3, <1>4, <1>5, <1>6, <1>7 DEF Works

LEMMA LossStays ==
  ASSUME NEW w \in Runners, LossInv(w), runner'[w] = runner[w],
         relationships \subseteq relationships'
  PROVE  LossInv(w)'
BY DEF LossInv, Related

LEMMA LossStep ==
  ASSUME Inv, \A w \in Runners : LossInv(w), [Next]_vars
  PROVE  \A w \in Runners : LossInv(w)'
<1>1. TypeInv /\ TypeOK
  BY DEF Inv, TypeInv
<1>2. ASSUME World \/ UNCHANGED vars PROVE \A w \in Runners : LossInv(w)'
  <2>1. UNCHANGED <<tables, runner>>
    BY <1>1, <1>2, WorldAges DEF vars
  <2> QED
    BY <2>1, LossStays DEF tables
<1>3. ASSUME NEW w \in Runners, Moves(w), LossInv(w)', relationships \subseteq relationships'
      PROVE  \A v \in Runners : LossInv(v)'
  BY <1>3, LossStays DEF Moves
<1>4. ASSUME NEW w \in Runners, Start(w) PROVE \A v \in Runners : LossInv(v)'
  <2>1. /\ Moves(w) /\ UNCHANGED <<ledger, tables>>
        /\ runner'[w].pc = "scan" /\ runner'[w].kept = relationships
    <3>1. /\ Moves(w)
          /\ runner'[w] = [Idle EXCEPT !.pc = "scan",
                                       !.loaded = Loaded(Payments),
                                       !.todo = InWindow(Payments),
                                       !.known = {k \in Keys : discrepancies[k] > 0},
                                       !.kept = relationships]
      BY <1>1, <1>4, Starts
    <3>2. UNCHANGED <<ledger, tables>>
      BY <1>4 DEF Start
    <3> QED
      BY <3>1, <3>2 DEF Idle
  <2> QED
    BY <1>3, <2>1 DEF LossInv, tables
<1>5. ASSUME NEW w \in Runners, Works(w) PROVE \A v \in Runners : LossInv(v)'
  <2>1. Moves(w) /\ UNCHANGED <<ledger, tables>> /\ runner'[w].kept = runner[w].kept
    BY <1>1, <1>5, WorkAdds DEF Adds
  <2>2. runner'[w].pc = "insert" => ~Related(runner'[w].link, relationships)
    BY <1>1, <1>5, InsertsUnrelated
  <2>3. LossInv(w)'
    BY <2>1, <2>2 DEF LossInv, Related, tables
  <2> QED
    BY <1>3, <2>1, <2>3 DEF tables
<1>6. ASSUME NEW w \in Runners, Lose(w) \/ Commit(w) PROVE \A v \in Runners : LossInv(v)'
  <2>1. Moves(w) /\ runner'[w] = Idle
    BY <1>1, <1>6, Ends
  <2>2. relationships \subseteq relationships'
    BY <1>6 DEF Lose, Commit, tables
  <2>3. LossInv(w)'
    BY <2>1 DEF LossInv, Idle
  <2> QED
    BY <1>3, <2>1, <2>2, <2>3
<1> QED
  BY <1>2, <1>4, <1>5, <1>6, StepKinds

(* A run that finds a discrepancy or a relationship stored when it begins    *)
(* never adds it again: that a discrepancy repeats, or that an INSERT fails, *)
(* needs runs that overlap.                                                  *)
THEOREM RepeatsNeedOverlap == Spec => []RepeatNeedsOverlap
<1>1. Init => \A w \in Runners : LossInv(w)
  BY DEF Init, Idle, LossInv
<1>2. Inv /\ (\A w \in Runners : LossInv(w)) /\ [Next]_vars
        => (\A w \in Runners : LossInv(w))'
  BY LossStep
<1>3. Inv /\ (\A w \in Runners : LossInv(w)) => RepeatNeedsOverlap
  BY DEF Inv, NoneRepeated, LossInv, RepeatNeedsOverlap
<1> QED
  BY <1>1, <1>2, <1>3, Invariance, PTL DEF Spec

-----------------------------------------------------------------------------
(* Investigation. *)


Running == {"attempt", "ask", "commit"}

Recording(x) == request[x].pc \in {"ask", "commit"}

(* What a runner carries over its awaits.                                    *)
Carries(x) ==
  /\ request[x].pc \in {"insert"} \cup Running
       => request[x].discrepancy \in Discrepancies
  /\ request[x].pc = "insert" => request[x].loaded = NoRow
  /\ request[x].pc \in Running =>
       /\ request[x].investigation \in Investigations
       /\ request[x].loaded # NoRow => I!Exists(request[x].investigation)
  /\ request[x].pc \in {"ask", "commit", "notify"}
       => request[x].attempt \in Attempts
  /\ request[x].pc \in {"commit", "notify"} => request[x].outcome \in I!Outcomes
  /\ request[x].pc = "propose" => request[x].investigation \in Investigations

WorkInv == I!TypeOK /\ \A x \in Requests : Carries(x)

(* A runner records its attempt in a row of its own.                         *)
OwnAttempt ==
  /\ \A x \in Requests : Recording(x) => attempt[request[x].attempt] = NoRow
  /\ \A x, y \in Requests :
       Recording(x) /\ Recording(y) /\ request[x].attempt = request[y].attempt
         => x = y

BackedInv == WorkInv /\ OwnAttempt /\ I!CompletedHasValidAttempt

-----------------------------------------------------------------------------
LEMMA NoRows == I!NoRowAssumption
BY NoRowAssumption DEF I!NoRowAssumption, I!Statuses, I!Outcomes, I!Row, I!AttemptRow,
   Statuses, Outcomes, Row, AttemptRow

LEMMA IdleInvestigator == I!Idle \in I!Activity /\ I!Idle.pc = "idle" /\ I!Idle.attempt = NoRow
BY DEF I!Idle, I!Activity

(* The step of a runner leaves the others' work alone.                       *)
LEMMA Released ==
  ASSUME I!TypeOK, NEW x \in Requests, I!Release(x)
  PROVE  /\ request' \in [Requests -> I!Activity]
         /\ request'[x] = I!Idle
         /\ \A y \in Requests : y # x => request'[y] = request[y]
BY IdleInvestigator DEF I!TypeOK, I!Release

LEMMA InvestigatorMoves ==
  ASSUME I!TypeOK, NEW x \in Requests, NEW act \in I!Activity,
         request' = [request EXCEPT ![x] = act]
  PROVE  /\ request' \in [Requests -> I!Activity]
         /\ request'[x] = act
         /\ \A y \in Requests : y # x => request'[y] = request[y]
BY DEF I!TypeOK

(* What each step makes of the runner that takes it, where it goes on.       *)
LEMMA Loads ==
  ASSUME WorkInv, NEW x \in Requests, NEW d \in Discrepancies, I!LoadInvestigation(x, d)
  PROVE  /\ request' \in [Requests -> I!Activity]
         /\ request'[x].pc = "attempt" /\ request'[x].discrepancy = d
         /\ request'[x].investigation \in Investigations
         /\ I!Exists(request'[x].investigation)
         /\ \A y \in Requests : y # x => request'[y] = request[y]
<1>1. PICK i \in I!About(d) :
        request' = [request EXCEPT ![x] =
          [I!Idle EXCEPT !.pc = "attempt", !.discrepancy = d,
                       !.investigation = i, !.loaded = investigation[i].status]]
  BY DEF I!LoadInvestigation
<1> DEFINE act == [I!Idle EXCEPT !.pc = "attempt", !.discrepancy = d,
                     !.investigation = i, !.loaded = investigation[i].status]
<1>2. i \in Investigations /\ I!Exists(i) /\ investigation[i].status \in I!Statuses
  BY DEF I!About, WorkInv, I!TypeOK, I!Exists, I!Row
<1>3. /\ act \in I!Activity /\ act.pc = "attempt" /\ act.discrepancy = d
      /\ act.investigation = i
  BY <1>2 DEF I!Idle, I!Activity
<1> HIDE DEF act
<1>4. /\ request' \in [Requests -> I!Activity] /\ request'[x] = act
      /\ \A y \in Requests : y # x => request'[y] = request[y]
  BY <1>1, <1>3, InvestigatorMoves DEF WorkInv, act
<1> QED
  BY <1>2, <1>3, <1>4

LEMMA FindsNone ==
  ASSUME WorkInv, NEW x \in Requests, NEW d \in Discrepancies, I!FindNone(x, d)
  PROVE  /\ request' \in [Requests -> I!Activity]
         /\ request'[x].pc = "insert" /\ request'[x].discrepancy = d
         /\ request'[x].loaded = NoRow
         /\ \A y \in Requests : y # x => request'[y] = request[y]
<1> DEFINE act == [I!Idle EXCEPT !.pc = "insert", !.discrepancy = d]
<1>1. /\ act \in I!Activity /\ act.pc = "insert" /\ act.discrepancy = d
      /\ act.loaded = NoRow
  BY DEF I!Idle, I!Activity
<1>2. request' = [request EXCEPT ![x] = act]
  BY DEF I!FindNone
<1> HIDE DEF act
<1> QED
  BY <1>1, <1>2, InvestigatorMoves DEF WorkInv

LEMMA Inserts ==
  ASSUME WorkInv, NEW x \in Requests, NEW i \in Investigations, I!InsertInvestigation(x, i)
  PROVE  /\ request' \in [Requests -> I!Activity]
         /\ request'[x].pc = "attempt" /\ request'[x].investigation = i
         /\ request'[x].discrepancy = request[x].discrepancy
         /\ request'[x].loaded = request[x].loaded
         /\ \A y \in Requests : y # x => request'[y] = request[y]
<1> DEFINE act == [request[x] EXCEPT !.pc = "attempt", !.investigation = i]
<1>1. /\ act \in I!Activity /\ act.pc = "attempt" /\ act.investigation = i
      /\ act.discrepancy = request[x].discrepancy /\ act.loaded = request[x].loaded
  BY DEF WorkInv, I!TypeOK, I!Activity
<1>2. request' = [request EXCEPT ![x] = act]
  BY DEF I!InsertInvestigation
<1> HIDE DEF act
<1> QED
  BY <1>1, <1>2, InvestigatorMoves DEF WorkInv

LEMMA StartsAttempt ==
  ASSUME WorkInv, NEW x \in Requests, NEW a \in Attempts, I!StartAttempt(x, a)
  PROVE  /\ request' \in [Requests -> I!Activity]
         /\ request'[x].pc = "ask" /\ request'[x].attempt = a
         /\ request'[x].discrepancy = request[x].discrepancy
         /\ request'[x].investigation = request[x].investigation
         /\ request'[x].loaded = request[x].loaded
         /\ \A y \in Requests : y # x => request'[y] = request[y]
<1> DEFINE act == [request[x] EXCEPT !.pc = "ask", !.attempt = a]
<1>1. /\ act \in I!Activity /\ act.pc = "ask" /\ act.attempt = a
      /\ act.discrepancy = request[x].discrepancy /\ act.loaded = request[x].loaded
      /\ act.investigation = request[x].investigation
  BY DEF WorkInv, I!TypeOK, I!Activity
<1>2. request' = [request EXCEPT ![x] = act]
  BY DEF I!StartAttempt
<1> HIDE DEF act
<1> QED
  BY <1>1, <1>2, InvestigatorMoves DEF WorkInv

LEMMA Answers ==
  ASSUME WorkInv, NEW x \in Requests, NEW o \in I!Outcomes, I!Answered(x, o)
  PROVE  /\ request' \in [Requests -> I!Activity]
         /\ request'[x].pc = "commit" /\ request'[x].outcome = o
         /\ request'[x].discrepancy = request[x].discrepancy
         /\ request'[x].investigation = request[x].investigation
         /\ request'[x].attempt = request[x].attempt
         /\ request'[x].loaded = request[x].loaded
         /\ \A y \in Requests : y # x => request'[y] = request[y]
<1> DEFINE act == [request[x] EXCEPT !.pc = "commit", !.outcome = o]
<1>1. /\ act \in I!Activity /\ act.pc = "commit" /\ act.outcome = o
      /\ act.discrepancy = request[x].discrepancy /\ act.loaded = request[x].loaded
      /\ act.investigation = request[x].investigation
      /\ act.attempt = request[x].attempt
  BY DEF WorkInv, I!TypeOK, I!Activity
<1>2. request' = [request EXCEPT ![x] = act]
  BY DEF I!Answered
<1> HIDE DEF act
<1> QED
  BY <1>1, <1>2, InvestigatorMoves DEF WorkInv

LEMMA ReadsForApproval ==
  ASSUME WorkInv, NEW x \in Requests, NEW i \in Investigations, I!ReadForApproval(x, i)
  PROVE  /\ request' \in [Requests -> I!Activity]
         /\ request'[x].pc = "propose" /\ request'[x].investigation = i
         /\ \A y \in Requests : y # x => request'[y] = request[y]
<1> DEFINE act == [I!Idle EXCEPT !.pc = "propose", !.investigation = i,
                     !.attempt = investigation[i].active]
<1>1. investigation[i].active \in Attempts \cup {NoRow}
  BY DEF I!ReadForApproval, I!Approvable, I!Exists, WorkInv, I!TypeOK, I!Row
<1>2. act \in I!Activity /\ act.pc = "propose" /\ act.investigation = i
  BY <1>1 DEF I!Idle, I!Activity
<1>3. request' = [request EXCEPT ![x] = act]
  BY DEF I!ReadForApproval
<1> HIDE DEF act
<1> QED
  BY <1>2, <1>3, InvestigatorMoves DEF WorkInv

(* A run commits its attempt and the row of its investigation together.      *)
LEMMA Commits ==
  ASSUME WorkInv, NEW x \in Requests, I!CommitRun(x)
  PROVE  LET i == request[x].investigation
             a == request[x].attempt
         IN /\ i \in Investigations /\ a \in Attempts
            /\ attempt' \in [Attempts -> I!AttemptRow \cup {NoRow}]
            /\ attempt'[a] # NoRow /\ attempt'[a].investigation = i
            /\ attempt'[a].valid = (request[x].outcome = "COMPLETED")
            /\ \A b \in Attempts : b # a => attempt'[b] = attempt[b]
            /\ investigation' \in [Investigations -> I!Row \cup {NoRow}]
            /\ investigation'[i] # NoRow
            /\ investigation'[i].status = I!StatusWritten(x)
            /\ investigation'[i].active = a
            /\ \A j \in Investigations : j # i => investigation'[j] = investigation[j]
            /\ request' \in [Requests -> I!Activity]
            /\ request'[x].pc = "notify" /\ request'[x].attempt = a
            /\ request'[x].investigation = i
            /\ request'[x].outcome = request[x].outcome
            /\ \A y \in Requests : y # x => request'[y] = request[y]
<1> DEFINE i == request[x].investigation
           a == request[x].attempt
           made == [investigation |-> i, valid |-> request[x].outcome = "COMPLETED"]
           row == [discrepancy |-> request[x].discrepancy,
                   status |-> I!StatusWritten(x), active |-> I!ActiveWritten(x)]
           act == [request[x] EXCEPT !.pc = "notify"]
<1>1. /\ i \in Investigations /\ a \in Attempts
      /\ request[x].discrepancy \in Discrepancies /\ request[x].outcome \in I!Outcomes
      /\ ~I!Inserted(x) => I!Exists(i)
  BY DEF I!CommitRun, WorkInv, Carries, Running, I!Inserted
<1>2. I!StatusWritten(x) \in I!Statuses
  BY <1>1 DEF I!StatusWritten, I!Statuses, WorkInv, I!TypeOK, I!Exists, I!Row
<1>3. /\ made \in I!AttemptRow /\ made # NoRow /\ made.investigation = i
      /\ made.valid = (request[x].outcome = "COMPLETED")
  <2>1. made \in I!AttemptRow
    BY <1>1 DEF I!AttemptRow
  <2>2. made.valid = (request[x].outcome = "COMPLETED") /\ made.investigation = i
    BY Zenon
  <2> QED
    BY <2>1, <2>2, NoRows
<1>4. /\ row \in I!Row /\ row # NoRow
      /\ row.status = I!StatusWritten(x) /\ row.active = a
  BY <1>1, <1>2, NoRows DEF I!Row, I!ActiveWritten
<1>5. /\ act \in I!Activity /\ act.pc = "notify" /\ act.attempt = a
      /\ act.investigation = i /\ act.outcome = request[x].outcome
  BY DEF WorkInv, I!TypeOK, I!Activity
<1>6. /\ attempt' = [attempt EXCEPT ![a] = made]
      /\ investigation' = [investigation EXCEPT ![i] = row]
      /\ request' = [request EXCEPT ![x] = act]
  BY DEF I!CommitRun
<1> HIDE DEF made, row, act
<1>7. /\ request' \in [Requests -> I!Activity] /\ request'[x] = act
      /\ \A y \in Requests : y # x => request'[y] = request[y]
  BY <1>5, <1>6, InvestigatorMoves DEF WorkInv
<1>8. /\ attempt' \in [Attempts -> I!AttemptRow \cup {NoRow}] /\ attempt'[a] = made
      /\ \A b \in Attempts : b # a => attempt'[b] = attempt[b]
  BY <1>1, <1>3, <1>6 DEF WorkInv, I!TypeOK
<1>9. /\ investigation' \in [Investigations -> I!Row \cup {NoRow}]
      /\ investigation'[i] = row
      /\ \A j \in Investigations : j # i => investigation'[j] = investigation[j]
  BY <1>1, <1>4, <1>6 DEF WorkInv, I!TypeOK
<1> QED
  BY <1>1, <1>3, <1>4, <1>5, <1>7, <1>8, <1>9

-----------------------------------------------------------------------------
(* A step that keeps the tables, as every step but CommitRun does.           *)
KeepsTables == UNCHANGED <<investigation, attempt>>

LEMMA OthersCarry ==
  ASSUME NEW x \in Requests, \A y \in Requests : Carries(y),
         \A i \in Investigations : I!Exists(i) => I!Exists(i)',
         \A y \in Requests : y # x => request'[y] = request[y],
         Carries(x)'
  PROVE  \A y \in Requests : Carries(y)'
<1> SUFFICES ASSUME NEW y \in Requests, y # x PROVE Carries(y)'
  OBVIOUS
<1>1. Carries(y) /\ request'[y] = request[y]
  OBVIOUS
<1> QED
  BY <1>1 DEF Carries, Running

LEMMA WorkInvInit == I!Init => WorkInv
<1> SUFFICES ASSUME I!Init PROVE WorkInv
  OBVIOUS
<1>1. I!TypeOK
  BY IdleInvestigator DEF I!Init, I!TypeOK
<1>2. \A x \in Requests : Carries(x)
  BY IdleInvestigator DEF I!Init, Carries, Running
<1> QED
  BY <1>1, <1>2 DEF WorkInv

LEMMA WorkInvStep == WorkInv /\ [I!Next]_I!investigationVars => WorkInv'
<1> SUFFICES ASSUME WorkInv, [I!Next]_I!investigationVars PROVE WorkInv'
  OBVIOUS
<1> USE DEF WorkInv
<1>1. CASE UNCHANGED I!investigationVars
  BY <1>1 DEF I!investigationVars, I!TypeOK, Carries, I!Exists
<1>2. ASSUME NEW x \in Requests, KeepsTables,
             notified' \subseteq [attempt : Attempts, valid : BOOLEAN],
             proposed' \subseteq [investigation : Investigations,
                                  active : Attempts \cup {NoRow}],
             request' \in [Requests -> I!Activity],
             \A y \in Requests : y # x => request'[y] = request[y],
             Carries(x)'
      PROVE  WorkInv'
  <2>1. I!TypeOK'
    BY <1>2 DEF I!TypeOK, KeepsTables
  <2>2. \A i \in Investigations : I!Exists(i) => I!Exists(i)'
    BY <1>2 DEF KeepsTables, I!Exists
  <2> QED
    BY <1>2, <2>1, <2>2, OthersCarry
<1>3. ASSUME NEW x \in Requests, KeepsTables, I!Release(x),
             notified' \subseteq [attempt : Attempts, valid : BOOLEAN],
             proposed' \subseteq [investigation : Investigations,
                                  active : Attempts \cup {NoRow}]
      PROVE  WorkInv'
  <2>1. Carries(x)'
    BY <1>3, Released, IdleInvestigator DEF Carries, Running
  <2> QED
    BY <1>2, <1>3, <2>1, Released
<1>4. ASSUME NEW x \in Requests, NEW d \in Discrepancies, I!LoadInvestigation(x, d)
      PROVE  WorkInv'
  <2>1. KeepsTables /\ UNCHANGED <<notified, proposed>>
    BY <1>4 DEF I!LoadInvestigation, KeepsTables
  <2>2. Carries(x)'
    BY <1>4, <2>1, Loads DEF Carries, Running, I!Exists, KeepsTables
  <2> QED
    BY <1>2, <1>4, <2>1, <2>2, Loads DEF I!TypeOK
<1>5. ASSUME NEW x \in Requests, NEW d \in Discrepancies, I!FindNone(x, d)
      PROVE  WorkInv'
  <2>1. KeepsTables /\ UNCHANGED <<notified, proposed>>
    BY <1>5 DEF I!FindNone, KeepsTables
  <2>2. Carries(x)'
    BY <1>5, FindsNone DEF Carries, Running
  <2> QED
    BY <1>2, <1>5, <2>1, <2>2, FindsNone DEF I!TypeOK
<1>6. ASSUME NEW x \in Requests, NEW i \in Investigations, I!ReadForApproval(x, i)
      PROVE  WorkInv'
  <2>1. KeepsTables /\ UNCHANGED <<notified, proposed>>
    BY <1>6 DEF I!ReadForApproval, KeepsTables
  <2>2. Carries(x)'
    BY <1>6, ReadsForApproval DEF Carries, Running
  <2> QED
    BY <1>2, <1>6, <2>1, <2>2, ReadsForApproval DEF I!TypeOK
<1>7. ASSUME NEW x \in Requests, NEW i \in Investigations, I!InsertInvestigation(x, i)
      PROVE  WorkInv'
  <2>1. KeepsTables /\ UNCHANGED <<notified, proposed>> /\ request[x].pc = "insert"
    BY <1>7 DEF I!InsertInvestigation, KeepsTables
  <2>2. Carries(x)'
    BY <1>7, <2>1, Inserts DEF Carries, Running
  <2> QED
    BY <1>2, <1>7, <2>1, <2>2, Inserts DEF I!TypeOK
<1>8. ASSUME NEW x \in Requests, NEW a \in Attempts, I!StartAttempt(x, a)
      PROVE  WorkInv'
  <2>1. KeepsTables /\ UNCHANGED <<notified, proposed>> /\ request[x].pc = "attempt"
    BY <1>8 DEF I!StartAttempt, KeepsTables
  <2>2. Carries(x)'
    BY <1>8, <2>1, StartsAttempt DEF Carries, Running, KeepsTables, I!Exists
  <2> QED
    BY <1>2, <1>8, <2>1, <2>2, StartsAttempt DEF I!TypeOK
<1>9. ASSUME NEW x \in Requests, NEW o \in I!Outcomes, I!Answered(x, o)
      PROVE  WorkInv'
  <2>1. KeepsTables /\ UNCHANGED <<notified, proposed>> /\ request[x].pc = "ask"
    BY <1>9 DEF I!Answered, KeepsTables
  <2>2. Carries(x)'
    BY <1>9, <2>1, Answers DEF Carries, Running, KeepsTables, I!Exists
  <2> QED
    BY <1>2, <1>9, <2>1, <2>2, Answers DEF I!TypeOK
<1>10. ASSUME NEW x \in Requests, I!CommitRun(x)
       PROVE  WorkInv'
  <2>1. I!TypeOK'
    BY <1>10, Commits DEF I!TypeOK, I!CommitRun
  <2>2. \A i \in Investigations : I!Exists(i) => I!Exists(i)'
    BY <1>10, Commits DEF I!Exists
  <2>3. Carries(x)'
    <3>1. Carries(x) /\ request[x].pc = "commit"
      BY <1>10 DEF I!CommitRun
    <3> QED
      BY <1>10, <3>1, Commits DEF Carries, Running
  <2> QED
    BY <1>10, <2>1, <2>2, <2>3, Commits, OthersCarry
<1>11. ASSUME NEW x \in Requests, I!InsertRefused(x) \/ I!Crash(x)
       PROVE  WorkInv'
  BY <1>3, <1>11 DEF I!InsertRefused, I!Crash, KeepsTables, I!TypeOK
<1>12. ASSUME NEW x \in Requests, I!NotifyOutcome(x)
       PROVE  WorkInv'
  <2>1. Carries(x) /\ request[x].pc = "notify"
    BY <1>12 DEF I!NotifyOutcome
  <2>2. [attempt |-> request[x].attempt, valid |-> request[x].outcome = "COMPLETED"]
          \in [attempt : Attempts, valid : BOOLEAN]
    BY <2>1 DEF Carries
  <2> QED
    BY <1>3, <1>12, <2>2 DEF I!NotifyOutcome, KeepsTables, I!TypeOK
<1>13. ASSUME NEW x \in Requests, I!Propose(x)
       PROVE  WorkInv'
  <2>1. /\ Carries(x) /\ request[x].pc = "propose"
        /\ request[x].attempt \in Attempts \cup {NoRow}
    BY <1>13 DEF I!Propose, I!TypeOK, I!Activity
  <2>2. [investigation |-> request[x].investigation, active |-> request[x].attempt]
          \in [investigation : Investigations, active : Attempts \cup {NoRow}]
    BY <2>1 DEF Carries
  <2> QED
    BY <1>3, <1>13, <2>2 DEF I!Propose, KeepsTables, I!TypeOK
<1> QED
  BY <1>1, <1>4, <1>5, <1>6, <1>7, <1>8, <1>9, <1>10, <1>11, <1>12, <1>13
     DEF I!Next, I!Arrive, I!Proceed, I!ProviderAnswers

-----------------------------------------------------------------------------
LEMMA OwnKept ==
  ASSUME OwnAttempt, NEW x \in Requests, UNCHANGED attempt,
         \A y \in Requests : y # x => request'[y] = request[y],
         Recording(x)' => Recording(x) /\ request'[x].attempt = request[x].attempt
  PROVE  OwnAttempt'
BY DEF OwnAttempt, Recording

LEMMA OwnAttemptStep == WorkInv /\ OwnAttempt /\ [I!Next]_I!investigationVars => OwnAttempt'
<1> SUFFICES ASSUME WorkInv, OwnAttempt, [I!Next]_I!investigationVars PROVE OwnAttempt'
  OBVIOUS
<1>1. CASE UNCHANGED I!investigationVars
  BY <1>1 DEF I!investigationVars, OwnAttempt, Recording
<1>2. ASSUME NEW x \in Requests, UNCHANGED attempt, I!Release(x) PROVE OwnAttempt'
  <2>1. ~Recording(x)'
    BY <1>2, Released, IdleInvestigator DEF Recording, WorkInv
  <2> QED
    BY <1>2, <2>1, Released, OwnKept DEF WorkInv
<1>3. ASSUME NEW x \in Requests, I!Arrive(x) PROVE OwnAttempt'
  <2>1. ASSUME NEW d \in Discrepancies, I!LoadInvestigation(x, d) PROVE OwnAttempt'
    <3>1. ~Recording(x)' /\ UNCHANGED attempt
      BY <2>1, Loads DEF Recording, I!LoadInvestigation
    <3> QED
      BY <2>1, <3>1, Loads, OwnKept
  <2>2. ASSUME NEW d \in Discrepancies, I!FindNone(x, d) PROVE OwnAttempt'
    <3>1. ~Recording(x)' /\ UNCHANGED attempt
      BY <2>2, FindsNone DEF Recording, I!FindNone
    <3> QED
      BY <2>2, <3>1, FindsNone, OwnKept
  <2>3. ASSUME NEW i \in Investigations, I!ReadForApproval(x, i) PROVE OwnAttempt'
    <3>1. ~Recording(x)' /\ UNCHANGED attempt
      BY <2>3, ReadsForApproval DEF Recording, I!ReadForApproval
    <3> QED
      BY <2>3, <3>1, ReadsForApproval, OwnKept
  <2> QED
    BY <1>3, <2>1, <2>2, <2>3 DEF I!Arrive
<1>4. ASSUME NEW x \in Requests, NEW i \in Investigations, I!InsertInvestigation(x, i)
      PROVE  OwnAttempt'
  <2>1. ~Recording(x)' /\ UNCHANGED attempt
    BY <1>4, Inserts DEF Recording, I!InsertInvestigation
  <2> QED
    BY <1>4, <2>1, Inserts, OwnKept
<1>5. ASSUME NEW x \in Requests, NEW a \in Attempts, I!StartAttempt(x, a)
      PROVE  OwnAttempt'
  <2>1. I!FreeAttempt(a) /\ UNCHANGED attempt
    BY <1>5 DEF I!StartAttempt
  <2> QED
    BY <1>5, <2>1, StartsAttempt DEF OwnAttempt, Recording, I!FreeAttempt
<1>6. ASSUME NEW x \in Requests, NEW o \in I!Outcomes, I!Answered(x, o)
      PROVE  OwnAttempt'
  <2>1. Recording(x) /\ UNCHANGED attempt
    BY <1>6 DEF I!Answered, Recording
  <2> QED
    BY <1>6, <2>1, Answers, OwnKept
<1>7. ASSUME NEW x \in Requests, I!CommitRun(x) PROVE OwnAttempt'
  <2>1. Recording(x) /\ ~Recording(x)'
    BY <1>7, Commits DEF Recording, I!CommitRun
  <2>2. \A y \in Requests : Recording(y) => request[y].attempt \in Attempts
    BY DEF WorkInv, Carries, Recording
  <2> QED
    BY <1>7, <2>1, <2>2, Commits DEF OwnAttempt, Recording
<1> QED
  <2>1. ASSUME NEW x \in Requests,
               I!InsertRefused(x) \/ I!NotifyOutcome(x) \/ I!Propose(x) \/ I!Crash(x)
        PROVE  OwnAttempt'
    BY <1>2, <2>1 DEF I!InsertRefused, I!NotifyOutcome, I!Propose, I!Crash
  <2> QED
    BY <1>1, <1>3, <1>4, <1>5, <1>6, <1>7, <2>1 DEF I!Next, I!Proceed, I!ProviderAnswers

(* The row of the attempt may only be new, so that a valid one stays.  Where *)
(* the commit of a run leaves COMPLETED standing, a run before it wrote it.  *)
LEMMA ValidAttemptStep ==
  WorkInv /\ OwnAttempt /\ I!CompletedHasValidAttempt /\ [I!Next]_I!investigationVars
    => I!CompletedHasValidAttempt'
<1> SUFFICES ASSUME WorkInv, OwnAttempt, I!CompletedHasValidAttempt, [I!Next]_I!investigationVars
             PROVE  I!CompletedHasValidAttempt'
  OBVIOUS
<1>1. ASSUME NEW x \in Requests, I!CommitRun(x) PROVE I!CompletedHasValidAttempt'
  <2>0. PICK i \in Investigations, a \in Attempts :
          i = request[x].investigation /\ a = request[x].attempt
    BY <1>1, Commits
  <2>1. request[x].pc = "commit" /\ Carries(x) /\ attempt[a] = NoRow
    BY <1>1, <2>0 DEF OwnAttempt, Recording, I!CommitRun, WorkInv
  <2>2. ASSUME NEW j \in Investigations, I!ValidAttempts(j) # {}
        PROVE  I!ValidAttempts(j)' # {}
    <3>1. PICK b \in Attempts : attempt[b] # NoRow /\ attempt[b].investigation = j
                                /\ attempt[b].valid
      BY <2>2 DEF I!ValidAttempts
    <3>2. attempt'[b] = attempt[b]
      BY <1>1, <2>0, <2>1, <3>1, Commits
    <3> QED
      BY <3>1, <3>2 DEF I!ValidAttempts
  <2>3. ASSUME I!Approvable(i)' PROVE I!ValidAttempts(i)' # {}
    <3>1. I!StatusWritten(x) = "COMPLETED"
      BY <1>1, <2>0, <2>3, Commits DEF I!Approvable
    <3>2. CASE request[x].outcome = "COMPLETED"
      <4>1. attempt'[a] # NoRow /\ attempt'[a].investigation = i /\ attempt'[a].valid
        BY <1>1, <2>0, <3>2, Commits
      <4> QED
        BY <2>1, <4>1 DEF I!ValidAttempts
    <3>3. CASE request[x].outcome # "COMPLETED"
      <4>1. ~I!Inserted(x) /\ investigation[i].status = "COMPLETED"
        BY <2>0, <3>1, <3>3 DEF I!StatusWritten
      <4>2. I!Exists(i)
        BY <2>0, <2>1, <4>1 DEF I!Inserted, Carries, Running
      <4> QED
        BY <2>1, <2>2, <4>1, <4>2 DEF I!CompletedHasValidAttempt, I!Approvable
    <3> QED
      BY <3>2, <3>3
  <2>4. ASSUME NEW j \in Investigations, j # i, I!Approvable(j)'
        PROVE  I!ValidAttempts(j)' # {}
    <3>1. I!Approvable(j)
      BY <1>1, <2>0, <2>4, Commits DEF I!Approvable, I!Exists
    <3> QED
      BY <2>2, <3>1 DEF I!CompletedHasValidAttempt
  <2> QED
    BY <2>3, <2>4 DEF I!CompletedHasValidAttempt
<1>2. CASE KeepsTables
  BY <1>2 DEF KeepsTables, I!CompletedHasValidAttempt, I!Approvable, I!Exists, I!ValidAttempts
<1> QED
  <2>1. ASSUME NEW x \in Requests, I!Arrive(x) \/ I!Proceed(x), ~I!CommitRun(x)
        PROVE  KeepsTables
    BY <2>1 DEF I!Arrive, I!Proceed, KeepsTables, I!LoadInvestigation, I!FindNone,
       I!ReadForApproval, I!InsertInvestigation, I!InsertRefused, I!StartAttempt,
       I!NotifyOutcome, I!Propose
  <2>2. ASSUME NEW x \in Requests, I!ProviderAnswers(x) \/ I!Crash(x) PROVE KeepsTables
    BY <2>2 DEF I!ProviderAnswers, I!Answered, I!Crash, KeepsTables
  <2>3. ASSUME UNCHANGED I!investigationVars PROVE KeepsTables
    BY <2>3 DEF I!investigationVars, KeepsTables
  <2> QED
    BY <1>1, <1>2, <2>1, <2>2, <2>3 DEF I!Next

LEMMA BackedInit == I!Init => BackedInv
<1> SUFFICES ASSUME I!Init PROVE BackedInv
  OBVIOUS
<1>1. OwnAttempt
  BY IdleInvestigator DEF I!Init, OwnAttempt, Recording
<1>2. I!CompletedHasValidAttempt
  BY DEF I!Init, I!CompletedHasValidAttempt, I!Approvable, I!Exists
<1> QED
  BY <1>1, <1>2, WorkInvInit DEF BackedInv

LEMMA BackedStep == BackedInv /\ [I!Next]_I!investigationVars => BackedInv'
BY WorkInvStep, OwnAttemptStep, ValidAttemptStep DEF BackedInv

LEMMA BackedInvariance == I!Spec => []BackedInv
BY BackedInit, BackedStep, PTL DEF I!Spec

-----------------------------------------------------------------------------
(* The tables and the runners keep to their types.                           *)
THEOREM InvestigationTypes == I!Spec => []I!TypeOK
<1>1. BackedInv => I!TypeOK
  BY DEF BackedInv, WorkInv
<1> QED
  BY <1>1, BackedInvariance, PTL

(* However the runs of a discrepancy overlap, fail or die, no investigation  *)
(* is COMPLETED unless an answer of the provider passed the validation.      *)
THEOREM CompletedIsBacked == I!Spec => []CompletedHasValidAttempt
<1>1. BackedInv => CompletedHasValidAttempt
  BY DEF BackedInv, I!CompletedHasValidAttempt, I!Approvable, I!Exists, I!ValidAttempts,
     CompletedHasValidAttempt, Approvable, Exists, ValidAttempts
<1> QED
  BY <1>1, BackedInvariance, PTL

(* What a run writes over the status it loaded is its own outcome, as its    *)
(* attempt has it.                                                           *)
LEMMA FreshRunAgrees ==
  ASSUME WorkInv, NEW x \in Requests, I!CommitRun(x), ~I!Stale(x)
  PROVE  \A i \in Investigations :
           i = request[x].investigation =>
             I!StatusAgrees(i)' /\ request'[x].investigation = i
<1> SUFFICES ASSUME NEW i \in Investigations, i = request[x].investigation
             PROVE  I!StatusAgrees(i)' /\ request'[x].investigation = i
  OBVIOUS
<1>1. I!StatusWritten(x) = request[x].outcome
  BY DEF I!Stale, I!StatusWritten
<1>2. PICK a \in Attempts : a = request[x].attempt
  BY Commits
<1>3. /\ investigation'[i].status = request[x].outcome
      /\ investigation'[i].active = a
      /\ attempt'[a].valid = (request[x].outcome = "COMPLETED")
      /\ request'[x].investigation = i
  BY <1>1, <1>2, Commits
<1> QED
  BY <1>3 DEF I!StatusAgrees

(* The commit of the run is the only step from its answer to its notice.     *)
LEMMA OnlyCommits ==
  ASSUME WorkInv, [I!Next]_I!investigationVars, NEW x \in Requests,
         request[x].pc = "commit", request'[x].pc = "notify"
  PROVE  I!CommitRun(x)
<1>1. request' # request
  OBVIOUS
<1>2. PICK y \in Requests : I!Arrive(y) \/ I!Proceed(y) \/ I!ProviderAnswers(y) \/ I!Crash(y)
  BY <1>1 DEF I!Next, I!investigationVars
<1>3. ASSUME I!Release(y) PROVE FALSE
  BY <1>3, Released, IdleInvestigator DEF WorkInv
<1>4. ~I!Arrive(y)
  BY Loads, FindsNone, ReadsForApproval DEF I!Arrive
<1>5. ~I!ProviderAnswers(y)
  BY Answers DEF I!ProviderAnswers
<1>6. I!CommitRun(y)
  BY <1>2, <1>3, <1>4, <1>5, Inserts, StartsAttempt
     DEF I!Proceed, I!InsertRefused, I!NotifyOutcome, I!Propose, I!Crash
<1> QED
  BY <1>6, Commits

(* A run whose investigation still has the status that it loaded leaves that *)
(* status and the active attempt in agreement when it commits.               *)
THEOREM FreshRunsRestoreAgreement == I!Spec => FreshRunRestoresAgreement
<1> DEFINE Agrees == \A x \in Requests :
             request[x].pc = "commit" /\ request'[x].pc = "notify" /\ ~Stale(x)
               => StatusAgrees(request[x].investigation)'
<1>1. ASSUME WorkInv, [I!Next]_I!investigationVars PROVE [Agrees]_investigationVars
  <2> SUFFICES ASSUME NEW x \in Requests, request[x].pc = "commit",
                      request'[x].pc = "notify", ~Stale(x)
               PROVE  StatusAgrees(request[x].investigation)'
    OBVIOUS
  <2>1. I!CommitRun(x)
    BY <1>1, OnlyCommits
  <2>2. PICK i \in Investigations : i = request[x].investigation
    BY <1>1, <2>1, Commits
  <2>3. I!StatusAgrees(i)' /\ request'[x].investigation = i
    BY <1>1, <2>1, <2>2, FreshRunAgrees DEF I!Stale, I!Inserted, Stale, Inserted
  <2> QED
    BY <2>3 DEF I!StatusAgrees, StatusAgrees
<1> QED
  BY <1>1, BackedInvariance, PTL DEF BackedInv, I!Spec, FreshRunRestoresAgreement
=============================================================================
