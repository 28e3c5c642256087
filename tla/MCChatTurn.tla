----------------------------- MODULE MCChatTurn -----------------------------
(***************************************************************************)
(* Instances of ChatTurn: interchangeable turns.                           *)
(***************************************************************************)
EXTENDS ChatTurn, TLC

Interchangeable == Permutations(Turns)
=============================================================================
