SPECIFICATION Spec
CONSTANTS
  u1 = u1  f1 = f1  t1 = t1  t2 = t2  x1 = x1  x2 = x2
  Members = {u1}
  Finance = {f1}
  Refs = {t1, t2, x1, x2}
  NoRef = NoRef
  OpeningBalance <- MCOpeningBalance
  OpeningPool <- MCOpeningPool
  Overdraft <- MCOverdraft
  Topups = {t1, t2}
  Depositor <- MCDepositor
  Asked <- MCAsked
  ProviderAmounts = {7, 10}
  TopupFee <- MCTopupFee
  TxId <- MCTxId
  NoTopupMerchant = NoTopupMerchant
PROPERTY
  SettledIsFinal
CHECK_DEADLOCK FALSE
