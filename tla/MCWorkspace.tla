----------------------------- MODULE MCWorkspace -----------------------------
(* Two payments of the same moment, a fee and a refund of the first one, its *)
(* settlement and the bank transaction of that.  The second payment and the  *)
(* bank transaction come late, one between the others and one after them.    *)
EXTENDS Workspace

MCRecords == 1..6
MCSeeded == {1, 3, 4, 6}
MCType == <<"PAYMENT", "PAYMENT", "FEE", "SETTLEMENT", "BANK_TRANSACTION",
            "REFUND">>
MCStatus == <<"PROCESSED", "PROCESSED", Nothing, "PROCESSED", "POSTED",
              "FAILED">>
MCCreated == <<1, 1, 2, 3, 0, 2>>
MCPaymentOf == <<Nothing, Nothing, 1, Nothing, Nothing, 1>>
MCSettlementOf == <<Nothing, Nothing, 4, Nothing, 4, Nothing>>
MCItems == {<<4, 1>>}
MCPairs == {<<1, 4>>, <<2, 4>>, <<4, 5>>}
MCDisputes == {<<1, 4>>, <<2, Nothing>>}

Filter(status, columns, reconciled, discrepancy) ==
  [tables |-> ToSet(Tables), status |-> status, columns |-> columns,
   reconciled |-> reconciled, disputed |-> discrepancy]

MCFilters ==
  { Filter(Nothing, MCRecords, BOOLEAN, BOOLEAN),
    Filter("PROCESSED", MCRecords, BOOLEAN, BOOLEAN),
    Filter(Nothing, MCRecords \ {3}, {TRUE}, BOOLEAN),
    Filter(Nothing, MCRecords, BOOLEAN, {TRUE}),
    [Filter(Nothing, MCRecords, {FALSE}, BOOLEAN)
       EXCEPT !.tables = {"PAYMENT"}] }

MCWindows == {{1}, {1, 2}}
=============================================================================
