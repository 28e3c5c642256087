--------------------------- MODULE QuotaLedgerInv ---------------------------
(***************************************************************************)
(* Why the properties of QuotaLedger hold: the inductive invariant behind  *)
(* them, in parts.  Locks make the rows a transaction has read stay as     *)
(* they were until it commits; the rest follows from that.                 *)
(***************************************************************************)
EXTENDS QuotaLedger

\* Reservations and budget edits open periods, under the pool's lock.
OnPool(t) == tx[t].kind \in {"reserve", "budget"}
Settles(t) == tx[t].kind = "settle"

\* Every period a transaction or an event names is there.
PeriodsExist ==
  /\ \A t \in Tx : OnPool(t) => tx[t].period \in 1..(Len(ledger) + Len(tx[t].opened))
  /\ \A t \in Tx : Settles(t) => tx[t].period \in 1..Len(ledger)
  /\ \A c \in Calls : event[c].state # "none" => event[c].period \in 1..Len(ledger)

\* A transaction holds the locks of the rows it has read.
HoldsItsLocks(t) ==
  /\ tx[t] = Idle => held[t] = {}
  /\ OnPool(t) => Lock(PoolRow, PoolLockMode) \in held[t]
  /\ Settles(t) => Lock(EventRow(tx[t].call), "update") \in held[t]
  /\ tx[t].step = "commit" => Lock(LedgerRow(tx[t].period), "update") \in held[t]

LocksHeld == \A t \in Tx : HoldsItsLocks(t)

\* No two transactions hold conflicting locks on a row.
LocksExclude ==
  \A t, u \in Tx :
    t # u => \A l \in held[t], k \in held[u] :
               l.row = k.row => ~Conflicts(l.mode, k.mode)

\* Only these locks are ever taken, and ledger rows only by transactions that
\* are about to commit or that have moved on to a period of their own.
TakesOnly(t) ==
  \A l \in held[t] :
    \/ l.row = PoolRow /\ l.mode = PoolLockMode /\ OnPool(t)
    \/ l.row = EventRow(tx[t].call) /\ Settles(t)
    \/ /\ l.row[1] = "ledger"
       /\ \/ tx[t].step = "commit"
          \/ OnPool(t) /\ tx[t].opened # <<>>

LocksTaken == \A t \in Tx : TakesOnly(t)

\* A transaction on the pool works on its newest period, and the periods it
\* opened are untouched and have the pool's budget.
DraftCurrent(t) ==
  /\ tx[t].period = Len(ledger) + Len(tx[t].opened)
  /\ \A i \in 1..Len(tx[t].opened) :
       LET row == tx[t].opened[i] IN
       /\ row.budget = pool.budget /\ row.remaining = pool.budget
       /\ row.reserved = 0 /\ row.consumed = 0

DraftsCurrent == \A t \in Tx : OnPool(t) => DraftCurrent(t)

\* A reservation key is new to its transaction, and open to the one ending it.
CallsOwned ==
  /\ \A t \in Tx : tx[t].kind = "reserve" =>
       /\ event[tx[t].call].state = "none"
       /\ \A u \in Tx \ {t} : tx[u].kind = "reserve" => tx[u].call # tx[t].call
  /\ \A t \in Tx : Settles(t) =>
       /\ event[tx[t].call].state = "reserved"
       /\ event[tx[t].call].period = tx[t].period

\* What is about to be reserved is still there.
GrantCovered(t) == tx[t].grant > 0 /\ tx[t].grant <= RowOf(t).remaining

GrantsCovered ==
  \A t \in Tx : tx[t].kind = "reserve" /\ tx[t].step = "commit" => GrantCovered(t)

AddsUp(row) ==
  row.remaining = AtLeast0(row.budget - row.reserved - row.consumed)

RemainingAddsUp == \A p \in 1..Len(ledger) : AddsUp(ledger[p])

\* Transactions find the rows they have read as they read them, and the rows
\* they are about to write add up.
LedgerInv ==
  /\ PeriodsExist
  /\ LocksHeld /\ LocksExclude /\ LocksTaken
  /\ DraftsCurrent /\ CallsOwned /\ GrantsCovered
  /\ RemainingAddsUp /\ BudgetCurrent

\* A row's running totals count the units held and charged on its period, which
\* are finitely many.
Counts(row, units, charges) ==
  /\ IsFiniteSet(units) /\ row.reserved = Cardinality(units)
  /\ IsFiniteSet(charges) /\ row.consumed = Cardinality(charges)

RowCounts(p) == Counts(ledger[p], HeldUnits(p), ChargedUnits(p))
RowsCount == \A p \in 1..Len(ledger) : RowCounts(p)

\* A wait that outlasts a period adds one period to those a reservation opens,
\* once; what it is granted is no more than it asked for.
AsksBounded(t) ==
  /\ tx[t].kind = "reserve" =>
       /\ tx[t].ask \in 1..MaxAsk
       /\ Len(tx[t].opened) <= IF tx[t].retried THEN 2 ELSE 1
       /\ tx[t].step = "commit" => tx[t].grant <= tx[t].ask
  /\ tx[t].kind = "budget" =>
       /\ tx[t].pool.budget \in Budgets
       /\ Len(tx[t].opened) <= 1

AllAsksBounded == \A t \in Tx : AsksBounded(t)
=============================================================================
