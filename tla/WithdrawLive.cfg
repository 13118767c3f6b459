SPECIFICATION FairSpec
CONSTANTS
  m1 = m1  m2 = m2  f1 = f1  f2 = f2  w1 = w1  w2 = w2  w3 = w3
  Members = {m1, m2}
  Finance = {f1, f2}
  Refs = {w1, w2}
  NoRef = NoRef
  OpeningBalance <- MCOpeningBalance
  OpeningPool <- TwoOpeningPool
  Overdraft <- TwoOverdraft
  Withdrawals = {w1, w2}
  Owner <- TwoOwner
  Amount <- TwoAmount
  WithdrawFee <- TwoFee
  NoMerchant = NoMerchant
  OpeningPoints <- MCOpeningPoints
  CooldownThreshold = 1
  MaxPush = 1
PROPERTY
  EveryWithdrawalEnds
CHECK_DEADLOCK FALSE
