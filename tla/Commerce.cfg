SPECIFICATION FairSpec
CONSTANTS
  u1 = u1  g1 = g1  g2 = g2  c1 = c1  c2 = c2  c3 = c3  k1 = k1  k2 = k2
  Members = {u1}
  Refs = {c1, c2, c3, k1, k2}
  NoRef = NoRef
  OpeningBalance <- MCOpeningBalance
  Commerce = {g1, g2}
  OpeningSettlement <- MCOpeningSettlement
  OpeningLimit <- MCOpeningLimit
  Codes = {c1, c2, c3}
  Holder <- MCHolder
  CodeAmount <- MCCodeAmount
  PointChoices = {0, 2}
  ActiveCap = 2
  Credits = {k1, k2}
  CreditTo <- MCCreditTo
  CreditAmount <- MCCreditAmount
  CommerceFee <- MCFee
  Tiers <- MCTiers
  NoOne = NoOne
INVARIANTS
  ConsumedOnce
  MoneyConserved
PROPERTIES
  EveryCodeEnds
CHECK_DEADLOCK FALSE
