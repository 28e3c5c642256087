\* Three requests that overlap, three replies, two things that go wrong.
SPECIFICATION Spec
CONSTANTS
  Turns = {t1, t2, t3}
  MaxReplies = 3
  MaxCalls = 2
  MaxFaults = 2
  MayOverrun = TRUE
SYMMETRY Interchangeable
INVARIANTS OneAtATime ApprovedRunsOnce EndedIsSettled
PROPERTIES AnswersStay
\* Everything may be settled, the replies and calls used up.
CHECK_DEADLOCK FALSE
