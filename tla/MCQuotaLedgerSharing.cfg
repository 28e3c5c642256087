\* Two calls share a ledger over three periods; tokens weigh nothing here.
SPECIFICATION Spec
CONSTANTS
  c1 = c1
  c2 = c2
  t1 = t1
  t2 = t2
  Calls = {c1, c2}
  Tx = {t1, t2}
  Budgets = {1, 2}
  PeriodTypes <- MCTypes
  PeriodStart <- MCStart
  PeriodEnd <- MCEnd
  MaxTime = 2
  MaxAsk = 1
  MaxRequests = 2
  MaxTokens = 0
SYMMETRY Interchangeable
INVARIANTS BudgetCurrent LedgerReconciles NoLockCycle
PROPERTIES ReservationsEndOnce ImplementsAccount
CHECK_DEADLOCK FALSE
