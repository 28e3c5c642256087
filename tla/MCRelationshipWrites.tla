------------------------ MODULE MCRelationshipWrites ------------------------
(***************************************************************************)
(* Two organisations, each home to one resource.  The first resource       *)
(* starts out in its home's scope only, granted by nobody, the second      *)
(* added by the other organisation and granted by both.                    *)
(***************************************************************************)
EXTENDS RelationshipWrites

CONSTANTS r1, r2

MCHome == [r \in Resources |-> IF r = r1 THEN 1 ELSE 2]

MCInit ==
  /\ Init
  /\ scope[r1] = {1} /\ grants[r1] = {}
  /\ scope[r2] = Organizations /\ grants[r2] = Organizations
MCSpec == MCInit /\ [][Next]_vars /\ Fairness
=============================================================================
