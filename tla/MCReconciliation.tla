-------------------------- MODULE MCReconciliation --------------------------
(* One payment with items of two settlements, the second one short, and one  *)
(* settlement with a late bank transaction.  The items are there before the  *)
(* first run, the bank transaction arrives while runs are under way; the     *)
(* second settlement is too old to be loaded.                                *)
EXTENDS Reconciliation

CONSTANTS payment, settlement, oldSettlement, item, shortItem, bankTx

MCMoney ==
  [x \in {payment, settlement} |->
     IF x = payment THEN [amount |-> 2, currency |-> "EUR"]
     ELSE [gross |-> 3, fee |-> 1, adjustment |-> 0, settled |-> 0,
           currency |-> "EUR"]]

Item(amount, target) ==
  [source |-> payment, target |-> target, amount |-> amount, currency |-> "EUR",
   late |-> FALSE]

MCLink ==
  [x \in {item, shortItem, bankTx} |->
     CASE x = item      -> Item(2, settlement)
       [] x = shortItem -> Item(1, oldSettlement)
       [] x = bankTx    -> [source |-> settlement, target |-> bankTx,
                            amount |-> 2, currency |-> "USD", late |-> TRUE]]
=============================================================================
