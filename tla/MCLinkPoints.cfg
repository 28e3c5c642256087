\* Two chunks, two workers at work at once.
SPECIFICATION Spec
CONSTANTS
  Chunks = {k1, k2}
  Workers = {w1, w2}
  LastEmbedding = 2
  MaxAttempt = 2
  MaxFaults = 2
  MayLose = TRUE
SYMMETRY Interchangeable
INVARIANTS
  IndexedIsServed
  IndexedStaysFound
  NothingIsLeftBehind
PROPERTIES
  WritesStayInGeneration
\* Nothing may be left to do, and no attempt to draw.
CHECK_DEADLOCK FALSE
