SPECIFICATION Spec
CONSTANTS
  r1 = r1  r2 = r2  r3 = r3  k1 = k1  b1 = b1  b2 = b2
  g1 = g1  o1 = o1  o2 = o2  o3 = o3  s1 = s1  s2 = s2  ps1 = ps1  ps2 = ps2  ps3 = ps3
  tw1 = tw1  tw2 = tw2  tt = tt  ta = ta  tk = tk  u1 = u1  rt1 = rt1
  Requests = {r1, r2, r3}
  MerchantRefs = {k1}
  Payloads = {b1, b2}
  RefOf <- MCRefOf
  PayloadOf <- MCPayloadOf
  OncePayloads = {b2}
  Slots = {x1, x2}
  Mails = {m1, m2}
  Addressed = {m1}
  MaxAttempts = 2
  MaxFaults = 2
  NoSlot = NoSlot
  NoMail = NoMail
  MaxTokens = 3
  Tabs = {tab1, tab2}
  Calls = {call1, call2}
  Locking = TRUE
  MaxLosses = 1
  Retries = 1
  NoTab = NoTab
  NoCall = NoCall
  Attempts = {a1, a2, a3}
  Threshold = 3
  MaxGuesses = 7
  Challenges = {c1, c2}
  MaxStep = 3
  BackupCodes = {code1, code2}
  Refs = {s1, s2}
  NoRef = NoRef
  Commerce = {g1}
  OpeningSettlement <- MCOpeningSettlement
  OpeningLimit <- MCOpeningLimit
  Cashouts = {o1, o2, o3}
  CashoutOf <- MCCashoutOf
  TotalOf <- MCTotalOf
  Move <- MCMove
  Campaigns = {ps1, ps2, ps3}
  PoolOf <- MCPoolOf
  Turnovers <- MCTurnovers
  SharePct = 50
  Payouts = {pay1}
  Referrals = {ref1}
  Visits = {v1, v2, v3, v4}
  CampaignVisits = {v1, v2}
  NoVisit = NoVisit
  MaxConnections = 2
  Transactions = {tw1, tw2, tt, ta, tk}
  Doubles = {tw1, tw2, tt}
  RowWanted <- MCRowWanted
INVARIANT CallbackSettles
CHECK_DEADLOCK FALSE
