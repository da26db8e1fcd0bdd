SPECIFICATION FairSpec
CONSTANTS
  payment = payment
  settlement = settlement
  oldSettlement = oldSettlement
  item = item
  shortItem = shortItem
  bankTx = bankTx
  Payments = {payment}
  Settlements = {settlement}
  Money <- MCMoney
  Links = {item, shortItem, bankTx}
  Early = {item, shortItem}
  Link <- MCLink
  Runners = {w1, w2}
  Nothing = Nothing
  Mortal = {w1}
CHECK_DEADLOCK FALSE
INVARIANTS
  RepeatNeedsOverlap
  RelationshipIsExplained
PROPERTIES
  CompletedRunExplains
  RunIsAnswered
