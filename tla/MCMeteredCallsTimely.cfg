\* Two timely calls, a stale job and an administrator who switches between
\* period types that overlap without nesting.
SPECIFICATION CallsSpec
CONSTANTS
  c1 = c1
  c2 = c2
  r1 = r1
  a1 = a1
  Calls = {c1, c2}
  Recoverers = {r1}
  Admins = {a1}
  Tx = {c1, c2, r1, a1}
  Budgets = {3}
  PeriodTypes <- MCTypes
  PeriodStart <- MCStart
  PeriodEnd <- MCEnd
  PeriodLength <- WeeksAndMonths
  MaxTime = 3
  MaxAsk = 2
  MaxRequests = 2
  MaxTokens = 0
  MeteringModes = {"requests"}
  AskedRequests = 2
  AskedTokens = 1
  StepTokens = {0}
  CallTimeout = 1
  StaleAge = 2
  HearTime = 0
  SettleTime = 1
  Timely = TRUE
INVARIANTS StampInPeriod FullCharge NoEarlyRecovery RequestsStayInBudget
CHECK_DEADLOCK FALSE
