------------------------------ MODULE SourceRow ------------------------------
(***************************************************************************)
(* services/ingestion/validation and services/ingestion/materialize: what  *)
(* makes a source row valid, what it refers to, and which rules it has to  *)
(* meet before it becomes a financial fact.  Pure operators; the state is  *)
(* in Ingestion.                                                           *)
(*                                                                         *)
(* A row keeps what the rules tell apart: its identity, the fields that    *)
(* are absent or malformed, its references in the order they are resolved, *)
(* and its money.  "spelling" stands for the ways to write one amount.     *)
(***************************************************************************)
EXTENDS Naturals, Sequences, FiniteSets, FiniteSetsExt

CONSTANTS
  MaxAmount,  \* the largest amount that a Numeric(18, 4) column holds
  Any         \* a reference by external id, which names no provider

-----------------------------------------------------------------------------
(* The fields that a normalizer demands, besides the identity.               *)
Required ==
  [PAYMENT          |-> {"merchant", "order", "amount", "currency", "status"},
   REFUND           |-> {"payment", "amount", "currency", "status"},
   FEE              |-> {"merchant", "fee_type", "amount", "currency"},
   SETTLEMENT       |-> {"merchant", "gross_amount", "currency",
                         "settlement_date", "status"},
   BANK_TRANSACTION |-> {"merchant", "amount", "currency", "transaction_type",
                         "transaction_date", "status"}]

(* The columns of the domain tables that are NOT NULL and are filled from    *)
(* the payload; the others are filled from the parent or have a default.     *)
NotNull ==
  [PAYMENT          |-> {"merchant", "order", "amount", "currency", "status"},
   REFUND           |-> {"amount", "currency", "status"},
   FEE              |-> {"merchant", "fee_type", "amount", "currency"},
   SETTLEMENT       |-> {"merchant", "gross_amount", "currency",
                         "settlement_date", "status"},
   BANK_TRANSACTION |-> {"merchant", "amount", "currency", "transaction_type",
                         "transaction_date", "status"}]

Supported(row) == row.entity \in DOMAIN Required

Complete(row) == row.absent \cap Required[row.entity] = {}

(* Amounts that are no decimal of four places, unknown currencies, statuses  *)
(* and dates, a reference both by id and by external id, blank strings.      *)
WellFormed(row) == row.malformed = {}

(* normalize_row; of several flaws only the first is told.                   *)
Valid(row) == Supported(row) /\ Complete(row) /\ WellFormed(row)

Identity(row) == <<row.entity, row.provider, row.name>>

(* A reference of a row: by external id in the provider of the row, by       *)
(* external id whatever the provider, or by the id of the referred row.      *)
ScopedByProvider(row, ref) ==
  row.entity \in {"REFUND", "FEE"} /\ ref.entity \in {"PAYMENT", "SETTLEMENT"}

Resolved(row, ref, facts) ==
  {f \in facts :
     /\ f.row.entity = ref.entity
     /\ f.row.name = ref.name
     /\ ref.provider # Any => f.row.provider = ref.provider
     /\ ref.provider = Any /\ ScopedByProvider(row, ref)
          => f.row.provider = row.provider}

Parents(row, facts) ==
  UNION {Resolved(row, row.refs[i], facts) : i \in DOMAIN row.refs}

(* The domain rules: a refund fits its payment, a fee belongs to a payment   *)
(* or to a settlement, and the net amount that a settlement states adds up.  *)
MeetsRules(row, facts) ==
  CASE row.entity = "REFUND" ->
         \A p \in Parents(row, facts) :
           row.amount <= p.row.amount /\ row.currency = p.row.currency
    [] row.entity = "FEE" ->
         {"PAYMENT", "SETTLEMENT"} \ {row.refs[i].entity : i \in DOMAIN row.refs}
           # {}
    [] row.entity = "SETTLEMENT" ->
         row.net = Any \/ row.net + row.fee = row.amount + row.adjustment
    [] OTHER -> TRUE

(* The references of a row that do not lead to exactly one row.              *)
Matches(row, i, facts) == Cardinality(Resolved(row, row.refs[i], facts))

Unresolved(row, facts) == {i \in DOMAIN row.refs : Matches(row, i, facts) # 1}

(* The verdict of a materializer: the first unresolved reference decides, by *)
(* a rejection when it leads nowhere and by an exception when it is          *)
(* ambiguous; then the rules do.                                             *)
Materialized(row, facts) ==
  LET unresolved == Unresolved(row, facts)
      Ambiguous == Matches(row, Min(unresolved), facts) > 1
  IN
  CASE unresolved # {} /\ Ambiguous                -> "raises"
    [] unresolved # {} /\ ~Ambiguous               -> "REJECTED"
    [] unresolved = {} /\ ~MeetsRules(row, facts)  -> "REJECTED"
    [] unresolved = {} /\ MeetsRules(row, facts)   -> "stores"

(* What the INSERT of the domain row can raise by itself.                    *)
Overflows(row) == row.amount > MaxAmount
LacksColumn(row) == row.absent \cap NotNull[row.entity] # {}
=============================================================================
