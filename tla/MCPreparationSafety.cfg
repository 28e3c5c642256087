\* Two runs and a request on one asset and one repository, a worker that may be
\* slow or dead.
SPECIFICATION Spec
CONSTANTS
  Repos = {r1}
  Runs = {u1, u2}
  Workers = {w1}
  Requests = {q1}
  NoRun = NoRun
  NoRepo = NoRepo
  FirstEmbedding = 1
  LastEmbedding = 1
  MaxGeneration = 2
  MaxAttempt = 3
  MaxSaved = 2
  RetryLimit = 0
  MayLose = FALSE
  Describes = TRUE
SYMMETRY Interchangeable
INVARIANTS
  LinksFollowTheFile
  RunsAgreeWithWork
  NewLinksAreAdmitted
  UnfinishedHasAJob
PROPERTIES
  DeletedStaysEmpty
  EndedStaysEnded
  ProcessingIsStageWork
\* Everything may be settled, the runs used up and nothing left to ask.
CHECK_DEADLOCK FALSE
