SPECIFICATION Spec
CONSTANTS
  m1 = m1  m2 = m2  f1 = f1  f2 = f2  w1 = w1  w2 = w2  w3 = w3
  Members = {m1, m2}
  Finance = {f1}
  Refs = {w1, w2, w3}
  NoRef = NoRef
  OpeningBalance <- MCOpeningBalance
  OpeningPool <- MCOpeningPool
  Overdraft <- MCOverdraft
  Withdrawals = {w1, w2, w3}
  Owner <- MCOwner
  Amount <- MCAmount
  WithdrawFee <- MCFee
  NoMerchant = NoMerchant
  OpeningPoints <- MCOpeningPoints
  CooldownThreshold = 1
  MaxPush = 2
INVARIANTS
  TypeOK
  OneOpenPerMember
  ReservedMatchesOpen
  DebitedOnce
  PenaltiesApplied
  CashPoolLogged
  PoolWithinOverdraft
  PushedAtMostOnce
PROPERTIES
  FinalizedIsFinal
  ImplementsHold
CHECK_DEADLOCK FALSE
