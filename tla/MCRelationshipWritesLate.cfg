\* The same two writes and a deliverer that gives one request up.
SPECIFICATION MCSpec
CONSTANTS
  r1 = r1
  r2 = r2
  MaxOrganization = 2
  Resources = {r1, r2}
  Home <- MCHome
  Writers = {w1, w2}
  BatchSize = 2
  MaxWrites = 2
  MaxFaults = 1
INVARIANTS
  WrittenInSeqOrder
CHECK_DEADLOCK FALSE
