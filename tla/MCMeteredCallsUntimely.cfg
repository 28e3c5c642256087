\* One call, the two jobs and an administrator, under fairness.
SPECIFICATION FairCallsSpec
CONSTANTS
  c1 = c1
  r1 = r1
  a1 = a1
  Calls = {c1}
  Recoverers = {r1}
  Admins = {a1}
  Tx = {c1, r1, a1}
  Budgets = {1, 2}
  PeriodTypes <- MCTypes
  PeriodStart <- MCStart
  PeriodEnd <- MCEnd
  PeriodLength <- Weeks
  MaxTime = 3
  MaxAsk = 2
  MaxRequests = 1
  MaxTokens = 1
  MeteringModes = {"tokens","requests"}
  AskedRequests = 1
  AskedTokens = 1
  StepTokens = {1}
  CallTimeout = 0
  StaleAge = 1
  HearTime = 1
  SettleTime = 0
  Timely = FALSE
INVARIANTS ChargeIsFaithful
PROPERTIES EveryReservationEnds PeriodCatchesUp
CHECK_DEADLOCK FALSE
