\* Two failed links of one asset are embedded again.
SPECIFICATION Spec
CONSTANTS
  Repos = {r1, r2}
  Runs = {u1, u2}
  Workers = {w1}
  Requests = {q1}
  NoRun = NoRun
  NoRepo = NoRepo
  FirstEmbedding = 1
  LastEmbedding = 1
  MaxGeneration = 2
  MaxAttempt = 5
  MaxSaved = 5
  RetryLimit = 0
  MayLose = FALSE
  Describes = FALSE
SYMMETRY Interchangeable
PROPERTIES
  FailedLinksAreRetried
\* Everything may be settled, the runs used up and nothing left to ask.
CHECK_DEADLOCK FALSE
