\* Two writes overlap, and a deliverer that may fail or die twice.
SPECIFICATION MCSpec
CONSTANTS
  r1 = r1
  r2 = r2
  MaxOrganization = 2
  Resources = {r1, r2}
  Home <- MCHome
  Writers = {w1, w2}
  BatchSize = 2
  MaxWrites = 2
  MaxFaults = 2
INVARIANTS
  SpiceDbMirrors
  DeliveredStays
  GrantsInScope
  TokensCoverOlder
PROPERTIES
  EventsDelivered
  WritesEnd
\* All the writes may be over and delivered.
CHECK_DEADLOCK FALSE
