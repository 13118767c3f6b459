SPECIFICATION Spec
CONSTANTS
  u1 = u1  f1 = f1  g1 = g1  w1 = w1  t1 = t1  x1 = x1  p1 = p1  p2 = p2  k1 = k1
  c1 = c1  c2 = c2  c3 = c3  c4 = c4  key1 = key1
  Members = {u1}
  Finance = {f1}
  Commerce = {g1}
  Refs = {w1, t1, x1, p1, p2, k1}
  NoRef = NoRef
  OpeningBalance <- MCOpeningBalance
  OpeningPool <- MCOpeningPool
  Overdraft <- MCOverdraft
  OpeningSettlement <- MCOpeningSettlement
  OpeningLimit <- MCOpeningLimit
  Withdrawals = {w1}
  Owner <- MCOwner
  Amount <- MCAmount
  WithdrawFee <- MCWithdrawFee
  NoMerchant = NoMerchant
  OpeningPoints <- MCOpeningPoints
  CooldownThreshold = 1
  MaxPush = 0
  Topups = {}
  Depositor <- MCDepositor
  Asked <- MCAsked
  ProviderAmounts = {10}
  TopupFee <- MCTopupFee
  TxId <- MCTxId
  NoTopupMerchant = NoTopupMerchant
  Codes = {p1}
  Holder <- MCHolder
  CodeAmount <- MCCodeAmount
  PointChoices = {2}
  ActiveCap = 2
  Credits = {k1}
  CreditTo <- MCCreditTo
  CreditAmount <- MCCreditAmount
  CommerceFee <- MCCommerceFee
  Tiers <- MCTiers
  NoOne = NoOne
  Calls = {c1, c2, c3, c4}
  Keys = {key1}
  NoKey = NoKey
  KeyOf <- DebitKey
  Task <- MixedTask
INVARIANTS
  AuditExplained
  CachedIsDone
PROPERTY
  ImplementsHold
CHECK_DEADLOCK FALSE
