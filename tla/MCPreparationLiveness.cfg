\* Embeddings are set up late, jobs may vanish, and a completion whose run is gone
\* cannot record the metadata it asks for.
SPECIFICATION FairSpec
CONSTANTS
  Repos = {r1}
  Runs = {u1}
  Workers = {w1}
  Requests = {q1}
  NoRun = NoRun
  NoRepo = NoRepo
  FirstEmbedding = 0
  LastEmbedding = 1
  MaxGeneration = 2
  MaxAttempt = 1
  MaxSaved = 1
  RetryLimit = 0
  MayLose = TRUE
  Describes = TRUE
PROPERTIES
  StagesEnd
\* Everything may be settled, the runs used up and nothing left to ask.
CHECK_DEADLOCK FALSE
