--------------------------- MODULE MCPreparation ---------------------------
(***************************************************************************)
(* Instances of Preparation: interchangeable runs, workers, repositories   *)
(* and requests.                                                           *)
(***************************************************************************)
EXTENDS Preparation, TLC

Interchangeable == Permutations(Runs) \cup Permutations(Workers)
                     \cup Permutations(Repos) \cup Permutations(Requests)
=============================================================================
