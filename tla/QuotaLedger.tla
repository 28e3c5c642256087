----------------------------- MODULE QuotaLedger -----------------------------
(***************************************************************************)
(* The budget of one quota pool: its periods, the ledger of each period,   *)
(* the reservations calls hold on it, and the database transactions that   *)
(* write them (packages/quota/src/ledger.ts, period.ts and the pool edits  *)
(* of pool-management.ts).                                                  *)
(*                                                                         *)
(* Every row and every lock belongs to one pool, so one pool is enough.    *)
(* Any session may run any operation at any time: who calls what, and in   *)
(* which order, is the business of MeteredCalls.                           *)
(*                                                                         *)
(* A transaction works on rows it has locked, so its writes are gathered   *)
(* in tx[t] and shown to the others in its last step.  It has one step per *)
(* statement that can wait for a lock.                                     *)
(***************************************************************************)
EXTENDS Integers, Sequences, FiniteSets, RowLocks

CONSTANTS
  Calls,        \* metered calls, each with a reservation key of its own
  Tx,           \* database sessions, each running one transaction at a time
  Budgets,      \* budgets an administrator may set
  PeriodTypes,  \* weekly, monthly, yearly
  PeriodStart,  \* PeriodStart[type][at]: start of the period `at` lies in
  PeriodEnd,    \* PeriodEnd[type][at]: its end, which belongs to the next
  MaxTime,      \* bound on the clock
  MaxAsk,       \* bound on what one call asks to reserve
  MaxRequests,  \* bound on the provider requests of one call
  MaxTokens     \* bound on the tokens of one call

Time == 0..MaxTime

ASSUME BoundsAssumption ==
  /\ MaxTime \in Nat
  /\ MaxAsk \in Nat
  /\ MaxRequests \in Nat
  /\ MaxTokens \in Nat

ASSUME BudgetsAssumption == Budgets \subseteq Nat

\* getUtcPeriodBounds: the period of an instant holds that instant.
ASSUME PeriodAssumption ==
  \A type \in PeriodTypes, at \in Time :
    /\ PeriodStart[type][at] \in Nat
    /\ PeriodEnd[type][at] \in Nat
    /\ PeriodStart[type][at] <= at
    /\ at < PeriodEnd[type][at]

VARIABLES
  now,     \* the clock every process reads
  pool,    \* the pool row: active, budget, type
  ledger,  \* one row per period, oldest first; the last period is the open one
  event,   \* event[c]: c's usage event rows, by how far its reservation got
  tx,      \* tx[t]: what t's transaction has read and is about to write
  held     \* held[t]: the row locks t's transaction holds

vars == <<now, pool, ledger, event, tx, held>>

Modes == {"tokens", "requests"}

\* The steps of a call, summed: how many provider requests, how many tokens.
Tallies == [requests : 0..MaxRequests, tokens : 0..MaxTokens]
NoSteps == [requests |-> 0, tokens |-> 0]

Pools == [active : BOOLEAN, budget : Nat, type : PeriodTypes]

LedgerRows == [starts : Nat, ends : Nat, budget : Nat,
               reserved : Nat, consumed : Nat, remaining : Nat]

\* stored: the tally kept with the reservation; actual: what was charged.
Events == [state : {"none", "reserved", "finalized", "released"},
           mode : Modes, period : Nat, amount : Nat, at : Time,
           stored : Tallies, actual : Nat]

NoEvent == [state |-> "none", mode |-> "tokens", period |-> 0, amount |-> 0,
            at |-> 0, stored |-> NoSteps, actual |-> 0]

Idle == [kind |-> "idle", step |-> "none"]

\* opened: the periods the transaction opened and has not committed yet.
ReserveTx == [kind : {"reserve"}, step : {"ledger", "commit"}, call : Calls,
              mode : Modes, ask : Nat, period : Nat, opened : Seq(LedgerRows),
              retried : BOOLEAN, grant : Nat, at : Time]
SettleTx  == [kind : {"settle"}, step : {"ledger", "commit"}, call : Calls,
              period : Nat, tally : Tallies]
BudgetTx  == [kind : {"budget"}, step : {"ledger"}, pool : Pools, period : Nat,
              opened : Seq(LedgerRows)]

PoolRow      == <<"pool">>
LedgerRow(p) == <<"ledger", p>>
EventRow(c)  == <<"event", c>>
Rows == {PoolRow} \cup ({"ledger"} \X Nat) \cup ({"event"} \X Calls)

TypeOK ==
  /\ now \in Time
  /\ pool \in Pools
  /\ ledger \in Seq(LedgerRows) /\ ledger # <<>>
  /\ event \in [Calls -> Events]
  /\ tx \in [Tx -> {Idle} \cup ReserveTx \cup SettleTx \cup BudgetTx]
  /\ held \in [Tx -> SUBSET [row : Rows, mode : LockModes]]
-----------------------------------------------------------------------------
\* greatest(0, ...) of the ledger updates.
AtLeast0(n) == IF n < 0 THEN 0 ELSE n
Least(m, n) == IF m < n THEN m ELSE n

\* The ledger row with its three amounts set and the remaining one recomputed.
Booked(row, budget, reserved, consumed) ==
  [starts |-> row.starts, ends |-> row.ends,
   budget |-> budget, reserved |-> reserved, consumed |-> consumed,
   remaining |-> AtLeast0(budget - reserved - consumed)]

\* A period opened at `now` with an untouched ledger of the pool's budget.
NewPeriod ==
  [starts |-> PeriodStart[pool.type][now], ends |-> PeriodEnd[pool.type][now],
   budget |-> pool.budget, reserved |-> 0, consumed |-> 0,
   remaining |-> pool.budget]

\* Slips: the pool row locked in full, or no more than a foreign key does.
PoolLockedInFull == "update"
PoolHardlyLocked == "key share"

\* The pool row is locked so that usage events may keep referencing it.
PoolLockMode == "no key update"

\* openQuotaPeriod on periods `rows`: what it adds when the open one has ended.
Opening(rows) ==
  IF now < rows[Len(rows)].ends THEN <<>> ELSE <<NewPeriod>>

\* The least worth reserving: a request, or all of the tokens.
MinimumAmount(mode, ask) == IF mode = "requests" THEN 1 ELSE ask

\* The units of the mode a tally is charged in.
ChargeOf(mode, tally) ==
  IF mode = "requests" THEN tally.requests ELSE tally.tokens

Finish(t) ==
  /\ tx' = [tx EXCEPT ![t] = Idle]
  /\ held' = [held EXCEPT ![t] = {}]
-----------------------------------------------------------------------------
(* reserveQuotaLedger                                                      *)

\* Locks the pool, finds or opens its current period; stops if it is inactive,
\* which is then no more than a RollOver.
BeginReserve(t, c, mode, ask) ==
  /\ tx[t] = Idle
  /\ event[c].state = "none"
  /\ \A u \in Tx : tx[u].kind = "reserve" => tx[u].call # c
  /\ CanLock(held, t, PoolRow, PoolLockMode)
  /\ pool.active
  /\ LET opened == Opening(ledger) IN
       tx' = [tx EXCEPT ![t] =
                [kind |-> "reserve", step |-> "ledger", call |-> c,
                 mode |-> mode, ask |-> ask,
                 period |-> Len(ledger) + Len(opened), opened |-> opened,
                 retried |-> FALSE, grant |-> 0, at |-> 0]]
  /\ held' = [held EXCEPT ![t] = {Lock(PoolRow, PoolLockMode)}]
  /\ UNCHANGED <<now, pool, ledger, event>>

\* The ledger row of the transaction's period, as the transaction sees it.
RowOf(t) == (ledger \o tx[t].opened)[tx[t].period]

\* A slip: the clock is not read again after the wait.
NeverEnded(t) == FALSE

Ended(t) == now >= RowOf(t).ends

\* The wait for the ledger row is over.
AtLedger(t, kind) ==
  /\ tx[t].kind = kind
  /\ tx[t].step = "ledger"
  /\ CanLock(held, t, LedgerRow(tx[t].period), "update")

HoldLedger(t) ==
  held' = [held EXCEPT ![t] = @ \cup {Lock(LedgerRow(tx[t].period), "update")}]

GrantFor(t) == Least(tx[t].ask, RowOf(t).remaining)
Worthwhile(t) == /\ GrantFor(t) >= MinimumAmount(tx[t].mode, tx[t].ask)
                 /\ GrantFor(t) > 0

\* The wait outlasted the period: the next one opens, once.
ReopenPeriod(t) ==
  /\ AtLedger(t, "reserve") /\ Ended(t) /\ ~tx[t].retried
  /\ tx' = [tx EXCEPT ![t].opened = Append(@, NewPeriod),
                      ![t].period = @ + 1,
                      ![t].retried = TRUE]
  /\ HoldLedger(t)
  /\ UNCHANGED <<now, pool, ledger, event>>

\* "kept rolling over": the reservation fails and nothing is kept.
GiveUpReserve(t) ==
  /\ AtLedger(t, "reserve") /\ Ended(t) /\ tx[t].retried
  /\ Finish(t)
  /\ UNCHANGED <<now, pool, ledger, event>>

\* Less remains than is worth reserving: only opened periods are kept.
RefuseReserve(t) ==
  /\ AtLedger(t, "reserve") /\ ~Ended(t) /\ ~Worthwhile(t)
  /\ ledger' = ledger \o tx[t].opened
  /\ Finish(t)
  /\ UNCHANGED <<now, pool, event>>

GrantReserve(t) ==
  /\ AtLedger(t, "reserve") /\ ~Ended(t) /\ Worthwhile(t)
  /\ tx' = [tx EXCEPT ![t].step = "commit", ![t].grant = GrantFor(t),
                      ![t].at = now]
  /\ HoldLedger(t)
  /\ UNCHANGED <<now, pool, ledger, event>>

\* The ledger row with the transaction's grant added to what is reserved.
Reserving(t) ==
  LET row == RowOf(t) IN
  Booked(row, row.budget, row.reserved + tx[t].grant, row.consumed)

Reservation(t) ==
  [state |-> "reserved", mode |-> tx[t].mode, period |-> tx[t].period,
   amount |-> tx[t].grant, at |-> tx[t].at, stored |-> NoSteps, actual |-> 0]

CommitReserve(t) ==
  /\ tx[t].kind = "reserve" /\ tx[t].step = "commit"
  /\ ledger' = [ledger \o tx[t].opened EXCEPT ![tx[t].period] = Reserving(t)]
  /\ event' = [event EXCEPT ![tx[t].call] = Reservation(t)]
  /\ Finish(t)
  /\ UNCHANGED <<now, pool>>
-----------------------------------------------------------------------------
(* openQuotaPeriod on its own: the rollover job, or a call on an inactive  *)
(* pool.                                                                   *)
RollOver ==
  /\ Unlocked(held, PoolRow, PoolLockMode)
  /\ Opening(ledger) # <<>>
  /\ ledger' = ledger \o Opening(ledger)
  /\ UNCHANGED <<now, pool, event, tx, held>>

-----------------------------------------------------------------------------
(* recordQuotaUsage: only a tally of more requests replaces the stored one. *)
RecordUsage(c, tally) ==
  /\ Unlocked(held, EventRow(c), "update")
  /\ event[c].state = "reserved"
  /\ event[c].stored.requests < tally.requests
  /\ event' = [event EXCEPT ![c].stored = tally]
  /\ UNCHANGED <<now, pool, ledger, tx, held>>
-----------------------------------------------------------------------------
(* settleQuotaReservation                                                  *)

\* A slip: the caller's steps alone are charged.
ToChargeAsSaid(c, tally) == tally

\* The longer of what the caller reports and what is stored.  A caller without
\* steps (the stale job) reports NoSteps: the stored ones count.
ToCharge(c, tally) ==
  IF tally.requests >= event[c].stored.requests THEN tally ELSE event[c].stored

\* A slip: the reservation is read without locking its row.
BeginSettleUnlocked(t, c, tally) ==
  /\ tx[t] = Idle
  /\ event[c].state = "reserved"
  /\ tx' = [tx EXCEPT ![t] =
              [kind |-> "settle", step |-> "ledger", call |-> c,
               period |-> event[c].period, tally |-> ToCharge(c, tally)]]
  /\ UNCHANGED <<now, pool, ledger, event, held>>

BeginSettle(t, c, tally) ==
  /\ tx[t] = Idle
  /\ CanLock(held, t, EventRow(c), "update")
  /\ event[c].state = "reserved"
  /\ tx' = [tx EXCEPT ![t] =
              [kind |-> "settle", step |-> "ledger", call |-> c,
               period |-> event[c].period, tally |-> ToCharge(c, tally)]]
  /\ held' = [held EXCEPT ![t] = {Lock(EventRow(c), "update")}]
  /\ UNCHANGED <<now, pool, ledger, event>>

LockLedgerToSettle(t) ==
  /\ AtLedger(t, "settle")
  /\ tx' = [tx EXCEPT ![t].step = "commit"]
  /\ HoldLedger(t)
  /\ UNCHANGED <<now, pool, ledger, event>>

\* Inserting the terminal event locks the pool row it references.
AtTerminalEvent(t) ==
  /\ tx[t].kind = "settle" /\ tx[t].step = "commit"
  /\ CanLock(held, t, PoolRow, "key share")

\* A slip: what was charged is freed, not what was reserved.
SettlingByCharge(c, charge) ==
  LET row == ledger[event[c].period] IN
  Booked(row, row.budget, AtLeast0(row.reserved - charge), row.consumed + charge)

\* The ledger row with call c's reservation freed and `charge` consumed.
Settling(c, charge) ==
  LET row == ledger[event[c].period] IN
  Booked(row, row.budget, AtLeast0(row.reserved - event[c].amount),
         row.consumed + charge)

CommitCharge(t) ==
  /\ AtTerminalEvent(t)
  /\ tx[t].tally.requests > 0
  /\ LET c == tx[t].call
         charge == ChargeOf(event[c].mode, tx[t].tally) IN
       /\ ledger' = [ledger EXCEPT ![tx[t].period] = Settling(c, charge)]
       /\ event' = [event EXCEPT ![c].state = "finalized",
                                 ![c].actual = charge]
  /\ Finish(t)
  /\ UNCHANGED <<now, pool>>

CommitRelease(t) ==
  /\ AtTerminalEvent(t)
  /\ tx[t].tally.requests = 0
  /\ LET c == tx[t].call IN
       /\ ledger' = [ledger EXCEPT ![tx[t].period] = Settling(c, 0)]
       /\ event' = [event EXCEPT ![c].state = "released"]
  /\ Finish(t)
  /\ UNCHANGED <<now, pool>>
-----------------------------------------------------------------------------
(* updateQuotaPool and deactivateQuotaPool                                 *)

\* A new budget: updateQuotaPoolBudget inside the edit, with the other fields.
BeginBudgetEdit(t, edited) ==
  /\ tx[t] = Idle
  /\ CanLock(held, t, PoolRow, PoolLockMode)
  /\ edited.budget # pool.budget
  /\ LET opened == Opening(ledger) IN
       tx' = [tx EXCEPT ![t] =
                [kind |-> "budget", step |-> "ledger", pool |-> edited,
                 period |-> Len(ledger) + Len(opened), opened |-> opened]]
  /\ held' = [held EXCEPT ![t] = {Lock(PoolRow, PoolLockMode)}]
  /\ UNCHANGED <<now, pool, ledger, event>>

Rebudgeting(t) ==
  LET row == RowOf(t) IN
  Booked(row, tx[t].pool.budget, row.reserved, row.consumed)

CommitBudgetEdit(t) ==
  /\ AtLedger(t, "budget")
  /\ pool' = tx[t].pool
  /\ ledger' = [ledger \o tx[t].opened EXCEPT ![tx[t].period] = Rebudgeting(t)]
  /\ Finish(t)
  /\ UNCHANGED <<now, event>>

\* An edit that leaves the budget alone touches the pool row only.
PatchPool(edited) ==
  /\ Unlocked(held, PoolRow, PoolLockMode)
  /\ edited # pool /\ edited.budget = pool.budget
  /\ pool' = edited
  /\ UNCHANGED <<now, ledger, event, tx, held>>
-----------------------------------------------------------------------------
\* An error, a deadlock victim or a lost connection: the transaction is undone.
Rollback(t) ==
  /\ tx[t] # Idle
  /\ Finish(t)
  /\ UNCHANGED <<now, pool, ledger, event>>

Tick ==
  /\ now < MaxTime
  /\ now' = now + 1
  /\ UNCHANGED <<pool, ledger, event, tx, held>>

Editable == [active : BOOLEAN, budget : Budgets, type : PeriodTypes]

Init ==
  /\ now = 0
  /\ pool \in {p \in Editable : p.active}
  /\ ledger = <<NewPeriod>>
  /\ event = [c \in Calls |-> NoEvent]
  /\ tx = [t \in Tx |-> Idle]
  /\ held = [t \in Tx |-> {}]

ReserveStep(t) ==
  \/ \E c \in Calls, mode \in Modes, ask \in 1..MaxAsk :
       BeginReserve(t, c, mode, ask)
  \/ ReopenPeriod(t)
  \/ GiveUpReserve(t)
  \/ RefuseReserve(t)
  \/ GrantReserve(t)
  \/ CommitReserve(t)

SettleStep(t) ==
  \/ \E c \in Calls, tally \in Tallies : BeginSettle(t, c, tally)
  \/ LockLedgerToSettle(t)
  \/ CommitCharge(t)
  \/ CommitRelease(t)

BudgetStep(t) ==
  \/ \E edited \in Editable : BeginBudgetEdit(t, edited)
  \/ CommitBudgetEdit(t)

Next ==
  \/ \E t \in Tx : ReserveStep(t) \/ SettleStep(t) \/ BudgetStep(t) \/ Rollback(t)
  \/ RollOver
  \/ \E c \in Calls, tally \in Tallies : RecordUsage(c, tally)
  \/ \E edited \in Editable : PatchPool(edited)
  \/ Tick

Spec == Init /\ [][Next]_vars
-----------------------------------------------------------------------------
(* Properties                                                              *)

\* One element per unit that calls in `state` on period p hold or used.
UnitsOf(c, amount) == {c} \X (1..amount)
HeldUnits(p) ==
  UNION {UnitsOf(c, event[c].amount) :
           c \in {d \in Calls : event[d].state = "reserved" /\ event[d].period = p}}
ChargedUnits(p) ==
  UNION {UnitsOf(c, event[c].actual) :
           c \in {d \in Calls : event[d].state = "finalized" /\ event[d].period = p}}

\* The running totals of every ledger row are the sums of the usage events
\* they stand for, whatever was interleaved, rolled back or moved to another
\* period in between: a lost or repeated update would break it, and would
\* leave the pool short or overdrawn for good.
LedgerReconciles ==
  \A p \in DOMAIN ledger :
    /\ ledger[p].reserved = Cardinality(HeldUnits(p))
    /\ ledger[p].consumed = Cardinality(ChargedUnits(p))
    /\ ledger[p].remaining =
         AtLeast0(ledger[p].budget - ledger[p].reserved - ledger[p].consumed)

\* The period calls reserve on has the budget the pool has now, though budget
\* edits, roll-overs and reservations that open periods all race.
BudgetCurrent == ledger[Len(ledger)].budget = pool.budget

\* A reservation is stamped inside the period it is booked on, although its
\* transaction may have waited past a period's end for the ledger row.
StampInPeriod ==
  \A c \in Calls :
    event[c].state # "none" =>
      /\ event[c].period \in DOMAIN ledger
      /\ ledger[event[c].period].starts <= event[c].at
      /\ event[c].at < ledger[event[c].period].ends

\* What t's next statement waits for, among the locks it takes while it
\* already holds others.
Wants(t, row, mode) ==
  \/ /\ tx[t] # Idle /\ tx[t].step = "ledger"
     /\ row = LedgerRow(tx[t].period) /\ mode = "update"
  \/ /\ tx[t].kind = "settle" /\ tx[t].step = "commit"
     /\ row = PoolRow /\ mode = "key share"

WaitsFor(t, u) ==
  /\ t # u
  /\ \/ Wants(t, LedgerRow(tx[t].period), "update")
        /\ Blocks(held, u, LedgerRow(tx[t].period), "update")
     \/ Wants(t, PoolRow, "key share") /\ Blocks(held, u, PoolRow, "key share")

\* Whatever transactions are under way, one of them waits for none of the
\* others: reservations take the pool and then the ledger, settlements the
\* ledger and then (by foreign key) the pool, and still nobody deadlocks.
NoLockCycle ==
  \A S \in SUBSET Tx :
    S # {} => \E t \in S : \A u \in S : ~WaitsFor(t, u)

\* A grant never takes more than was left: whenever a row's reserved amount
\* rises, what is reserved and consumed on it stays within its budget.
GrantWithinBudget ==
  \A p \in DOMAIN ledger :
    ledger'[p].reserved > ledger[p].reserved =>
      ledger'[p].reserved + ledger'[p].consumed <= ledger'[p].budget

\* A reservation ends once and for good, and a period that has been closed
\* takes no new reservations.
EndsOnce ==
  /\ \A c \in Calls :
       event[c].state \in {"finalized", "released"} => event'[c] = event[c]
  /\ \A p \in DOMAIN ledger \ {Len(ledger)} :
       ledger'[p].reserved <= ledger[p].reserved

GrantsStayWithinBudget == [][GrantWithinBudget]_vars
ReservationsEndOnce == [][EndsOnce]_vars
-----------------------------------------------------------------------------
(* What the ledger is for: an account in which every operation is one step. *)

AccountHold(c) ==
  CASE event[c].state = "reserved" ->
         [state |-> "held", period |-> event[c].period, units |-> event[c].amount]
    [] event[c].state = "finalized" ->
         [state |-> "charged", period |-> event[c].period, units |-> event[c].actual]
    [] event[c].state = "released" ->
         [state |-> "released", period |-> event[c].period, units |-> 0]
    [] OTHER -> [state |-> "none", period |-> 0, units |-> 0]

Account == INSTANCE QuotaAccount WITH
  MaxHold <- MaxAsk,
  MaxCharge <- MaxRequests + MaxTokens,
  budget <- pool.budget,
  limit <- [p \in 1..Len(ledger) |-> ledger[p].budget],
  hold <- [c \in Calls |-> AccountHold(c)]

\* The pool's transactions, interleaved and rolled back at will, do nothing an
\* account of atomic operations could not do: no grant is made of units that
\* another call holds or used, and every hold ends exactly once.
ImplementsAccount == Account!AccountSpec
=============================================================================
