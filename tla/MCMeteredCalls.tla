--------------------------- MODULE MCMeteredCalls ---------------------------
(***************************************************************************)
(* Small instances of MeteredCalls.  A period type is a length: weeks of   *)
(* two instants and months of three overlap without nesting.               *)
(***************************************************************************)
EXTENDS MeteredCalls, QuotaLedgerInv

CONSTANT PeriodLength

MCTypes == DOMAIN PeriodLength
MCStart == [type \in MCTypes |->
              [at \in 0..MaxTime |-> at - (at % PeriodLength[type])]]
MCEnd == [type \in MCTypes |->
            [at \in 0..MaxTime |-> at - (at % PeriodLength[type]) + PeriodLength[type]]]

Weeks == [weekly |-> 2]
WeeksAndMonths == [weekly |-> 2, monthly |-> 3]
=============================================================================
