---------------------------- MODULE QuotaAccount ----------------------------
(***************************************************************************)
(* What a quota pool promises, without rows, locks or transactions: each   *)
(* call holds some units of one period, then gives them back for a charge  *)
(* or for nothing, and units are only granted while the period has them.   *)
(* There are no running totals here: what a period has left is computed    *)
(* from the calls each time.                                                *)
(***************************************************************************)
EXTENDS Integers, Sequences, FiniteSets

CONSTANTS
  Calls,     \* metered calls
  Budgets,   \* budgets an administrator may set
  MaxHold,   \* bound on the units one call holds
  MaxCharge  \* bound on the units one call is charged

VARIABLES
  budget,   \* the pool's budget, that of the periods opened from now on
  limit,    \* limit[p]: the budget of period p; the last period is the open one
  hold      \* hold[c]: the units c holds of a period, or was charged on it

account == <<budget, limit, hold>>

NoHold == [state |-> "none", period |-> 0, units |-> 0]

Units(c) == {c} \X (1..hold[c].units)
Taken(p) ==
  UNION {Units(c) :
    c \in {d \in Calls : hold[d].state \in {"held", "charged"} /\ hold[d].period = p}}

\* The limits once n more periods are open; two when a wait outlasts the first.
Opened(n) == limit \o [i \in 1..n |-> budget]

Open ==
  /\ \E n \in 1..2 : limit' = Opened(n)
  /\ UNCHANGED <<budget, hold>>

\* Units are granted on the period that is open then, never more than it has.
Grant(c, n, units) ==
  LET p == Len(limit) + n IN
  /\ hold[c].state = "none"
  /\ Cardinality(Taken(p)) + units <= Opened(n)[p]
  /\ limit' = Opened(n)
  /\ hold' = [hold EXCEPT ![c] = [state |-> "held", period |-> p, units |-> units]]
  /\ UNCHANGED budget

\* A hold ends once; the charge is what the call used, more or less than held.
Charge(c, units) ==
  /\ hold[c].state = "held"
  /\ hold' = [hold EXCEPT ![c].state = "charged", ![c].units = units]
  /\ UNCHANGED <<budget, limit>>

Release(c) ==
  /\ hold[c].state = "held"
  /\ hold' = [hold EXCEPT ![c].state = "released", ![c].units = 0]
  /\ UNCHANGED <<budget, limit>>

\* A new budget holds for the open period at once, for closed ones never.
SetBudget(amount, n) ==
  /\ budget' = amount
  /\ limit' = [Opened(n) EXCEPT ![Len(limit) + n] = amount]
  /\ UNCHANGED hold

AccountInit ==
  /\ budget \in Budgets
  /\ limit = <<budget>>
  /\ hold = [c \in Calls |-> NoHold]

AccountNext ==
  \/ Open
  \/ \E c \in Calls, n \in 0..2, units \in 1..MaxHold : Grant(c, n, units)
  \/ \E c \in Calls, units \in 0..MaxCharge : Charge(c, units)
  \/ \E c \in Calls : Release(c)
  \/ \E amount \in Budgets, n \in 0..1 : SetBudget(amount, n)

AccountSpec == AccountInit /\ [][AccountNext]_account
=============================================================================
