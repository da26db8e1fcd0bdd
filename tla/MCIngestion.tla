----------------------------- MODULE MCIngestion -----------------------------
(* Rows of two providers around one payment, and the batches made of them.   *)
EXTENDS Ingestion

Ref(entity, name, provider) ==
  [entity |-> entity, name |-> name, provider |-> provider]

Fields(entity, provider, name, refs, amount) ==
  [entity |-> entity, provider |-> provider, name |-> name, refs |-> refs,
   amount |-> amount, currency |-> "EUR", spelling |-> "plain",
   absent |-> {}, malformed |-> {}, fee |-> 0, adjustment |-> 0, net |-> Any]

Shop == <<Ref("MERCHANT", "m", Any)>>

Payment    == Fields("PAYMENT", "stripe", "p1", Shop, 2)
Respelled  == [Payment EXCEPT !.spelling = "with zeros"]
Huge       == Fields("PAYMENT", "stripe", "p2", Shop, MaxAmount + 1)
Known      == Fields("PAYMENT", "stripe", "p0", Shop, 2)
Refund     == Fields("REFUND", "stripe", "r1", <<Ref("PAYMENT", "p1", Any)>>, 1)
Foreigner  == [Refund EXCEPT !.currency = "USD", !.name = "r2"]
Nameless   == [Refund EXCEPT !.absent = {"amount"}]
Settlement == [Fields("SETTLEMENT", "stripe", "s1", Shop, 3)
                 EXCEPT !.fee = 1, !.net = 2]
Twin       == [Settlement EXCEPT !.provider = "adyen", !.net = Any]
Unbalanced == [Settlement EXCEPT !.name = "s2", !.net = 3]
Bank       == Fields("BANK_TRANSACTION", "bank", "b1",
                     <<Ref("SETTLEMENT", "s1", Any)>>, 2)
Fee        == Fields("FEE", "stripe", "f1", Shop \o
                     <<Ref("PAYMENT", "p1", Any), Ref("SETTLEMENT", "s1", Any)>>, 1)

MCForeign ==
  {[row |-> Fields("MERCHANT", "shop", "m", << >>, 0), run |-> NoRun],
   [row |-> Known, run |-> NoRun]}

MCBatches ==
  {<<Payment, Settlement>>, <<Settlement, Payment, Refund>>,
   <<Nameless, Known>>, <<Twin, Bank, Huge>>, <<Foreigner, Fee, Unbalanced>>}

RetriedBatches == {<<Huge>>, <<Payment, Respelled>>}
=============================================================================
