SPECIFICATION Spec
CONSTANTS
  Records <- MCRecords
  Seeded <- MCSeeded
  Type <- MCType
  Status <- MCStatus
  Created <- MCCreated
  PaymentOf <- MCPaymentOf
  SettlementOf <- MCSettlementOf
  Items <- MCItems
  Pairs <- MCPairs
  Disputes <- MCDisputes
  Filters <- MCFilters
  Windows <- MCWindows
  Limit = 2
  Nothing = Nothing
INVARIANTS
  TypeOK
  WalkMissesOnlyLate
  PageMatchesFilter
  ViewsAgree
  NoneCountedTwice
PROPERTIES
  RepeatsArePushed
