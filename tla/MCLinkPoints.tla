---------------------------- MODULE MCLinkPoints ----------------------------
(***************************************************************************)
(* Instances of LinkPoints: interchangeable workers and chunks.            *)
(***************************************************************************)
EXTENDS LinkPoints, TLC

Interchangeable == Permutations(Workers) \cup Permutations(Chunks)
=============================================================================
