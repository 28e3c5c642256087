\* One worker that may be late, two that keep the deadline.
SPECIFICATION FairOutboxSpec
CONSTANTS
  k1 = k1
  k2 = k2
  w1 = w1
  w2 = w2
  w3 = w3
  MaxRows = 2
  Keys = {k1, k2}
  Unreadable = {2}
  Workers = {w1, w2, w3}
  Late = {w3}
  MaxAttempts = 3
  Lease = 3
  Deadline = 2
  MaxDelay = 2
  Retention = 1
INVARIANTS SentWasDelivered GivenUpAfterAllAttempts NoSecondSender
PROPERTIES MailsEndForGood EveryMailEnds
CHECK_DEADLOCK FALSE
