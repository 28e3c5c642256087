---------------------------- MODULE MCQuotaLedger ----------------------------
(***************************************************************************)
(* A small instance of QuotaLedger.  Weeks last one instant.               *)
(***************************************************************************)
EXTENDS QuotaLedgerInv, TLC

MCTypes == {"weekly"}
MCStart == [type \in MCTypes |-> [at \in 0..MaxTime |-> at]]
MCEnd   == [type \in MCTypes |-> [at \in 0..MaxTime |-> at + 1]]

Interchangeable == Permutations(Calls) \cup Permutations(Tx)
=============================================================================
