--------------------------- MODULE QuotaLedgerProofs --------------------------
(***************************************************************************)
(* Proofs about QuotaLedger, for any number of calls and sessions, any     *)
(* budgets, calendar and bounds: first the types, then the locks, then the *)
(* rows and the theorems about them.                                       *)
(*                                                                         *)
(* LockInv is inductive; with it, one transaction at a time works on the   *)
(* pool, on a reservation and on a ledger row, so that the reservation a   *)
(* transaction ends is still open and the periods it drafts are still      *)
(* current when it commits.  LedgerInv adds what that means for the rows.  *)
(***************************************************************************)
EXTENDS QuotaLedgerInv, SequenceTheorems, TLAPS

USE DEF Modes, Time, NoSteps, NoEvent, Idle

AllTx == {Idle} \cup ReserveTx \cup SettleTx \cup BudgetTx
TypeInv == TypeOK /\ PeriodsExist

-----------------------------------------------------------------------------
(* Types                                                                   *)

\* Booking amounts on a ledger row gives a ledger row.
LEMMA BookedType ==
  ASSUME NEW row \in LedgerRows, NEW b \in Nat, NEW r \in Nat, NEW u \in Nat
  PROVE  Booked(row, b, r, u) \in LedgerRows
BY DEF Booked, LedgerRows, AtLeast0

\* A period opened now is a ledger row without reservations.
LEMMA NewPeriodType ==
  ASSUME TypeOK
  PROVE  /\ NewPeriod \in LedgerRows
         /\ Opening(ledger) \in Seq(LedgerRows)
         /\ NewPeriod.budget = pool.budget /\ NewPeriod.remaining = pool.budget
         /\ NewPeriod.reserved = 0 /\ NewPeriod.consumed = 0
<1>1. /\ pool.type \in PeriodTypes /\ now \in Time /\ pool.budget \in Nat
  BY DEF TypeOK, Pools
<1>2. /\ PeriodStart[pool.type][now] \in Nat
      /\ PeriodEnd[pool.type][now] \in Nat
  BY <1>1, PeriodAssumption
<1>3. NewPeriod \in LedgerRows
  BY <1>1, <1>2 DEF NewPeriod, LedgerRows
<1>4. Opening(ledger) \in Seq(LedgerRows)
  BY <1>3 DEF Opening
<1> QED
  BY <1>3, <1>4 DEF NewPeriod

\* A transaction on the pool sees the ledger with its own periods at the end.
LEMMA RowOfType ==
  ASSUME TypeInv, NEW t \in Tx, OnPool(t)
  PROVE  /\ tx[t].opened \in Seq(LedgerRows)
         /\ ledger \o tx[t].opened \in Seq(LedgerRows)
         /\ Len(ledger \o tx[t].opened) = Len(ledger) + Len(tx[t].opened)
         /\ \A i \in 1..Len(ledger) + Len(tx[t].opened) :
              (ledger \o tx[t].opened)[i] =
                 IF i <= Len(ledger) THEN ledger[i]
                                     ELSE tx[t].opened[i - Len(ledger)]
         /\ tx[t].period \in 1..Len(ledger \o tx[t].opened)
         /\ RowOf(t) \in LedgerRows
<1>1. tx[t] \in ReserveTx \cup BudgetTx
  BY DEF TypeInv, TypeOK, OnPool, ReserveTx, SettleTx, BudgetTx
<1>2. tx[t].opened \in Seq(LedgerRows)
  BY <1>1 DEF ReserveTx, BudgetTx
<1>3. ledger \in Seq(LedgerRows)
  BY DEF TypeInv, TypeOK
<1>4. tx[t].period \in 1..(Len(ledger) + Len(tx[t].opened))
  BY DEF TypeInv, PeriodsExist
<1> QED
  BY <1>2, <1>3, <1>4, ConcatProperties, ElementOfSeq DEF RowOf

\* The locks that transactions take are locks on rows.
LEMMA LockTypes ==
  /\ Lock(PoolRow, PoolLockMode) \in [row : Rows, mode : LockModes]
  /\ \A p \in Nat : Lock(LedgerRow(p), "update") \in [row : Rows, mode : LockModes]
  /\ \A c \in Calls : Lock(EventRow(c), "update") \in [row : Rows, mode : LockModes]
BY DEF Lock, Rows, LockModes, PoolRow, LedgerRow, EventRow, PoolLockMode

\* What a step that only moves transaction t on has to show.
LEMMA TxStepType ==
  ASSUME TypeInv, NEW t \in Tx, NEW w \in AllTx,
         NEW h \in SUBSET [row : Rows, mode : LockModes],
         tx' = [tx EXCEPT ![t] = w], held' = [held EXCEPT ![t] = h],
         w.kind \in {"reserve", "budget"} =>
           w.period \in 1..(Len(ledger) + Len(w.opened)),
         w.kind = "settle" => w.period \in 1..Len(ledger),
         UNCHANGED <<now, pool, ledger, event>>
  PROVE  TypeInv'
<1>1. TypeOK'
  BY DEF TypeInv, TypeOK, AllTx
<1>2. \A u \in Tx : tx'[u] = IF u = t THEN w ELSE tx[u]
  BY DEF TypeInv, TypeOK
<1>3. PeriodsExist'
  BY <1>2 DEF TypeInv, PeriodsExist, OnPool, Settles
<1> QED
  BY <1>1, <1>3 DEF TypeInv

\* What a step that ends transaction t, or none, has to show.
LEMMA RowStepType ==
  ASSUME TypeInv,
         tx' \in [Tx -> AllTx], \A u \in Tx : tx'[u] = tx[u] \/ tx'[u] = Idle,
         held' \in [Tx -> SUBSET [row : Rows, mode : LockModes]],
         now' \in Time, pool' \in Pools,
         ledger' \in Seq(LedgerRows), Len(ledger') >= Len(ledger),
         event' \in [Calls -> Events],
         \A c \in Calls : event'[c].state # "none" =>
           \/ event'[c].period \in 1..Len(ledger')
           \/ event[c].state # "none" /\ event'[c].period = event[c].period
  PROVE  TypeInv'
<1>1. Len(ledger) \in Nat /\ Len(ledger') \in Nat /\ Len(ledger) # 0
  BY LenProperties, EmptySeq DEF TypeInv, TypeOK
<1>2. ledger' # <<>>
  BY <1>1
<1>3. TypeOK'
  BY <1>2 DEF TypeInv, TypeOK, AllTx
<1>4. 1..Len(ledger) \subseteq 1..Len(ledger')
  BY <1>1
<1>5. ASSUME NEW u \in Tx, OnPool(u)'
      PROVE  tx'[u].period \in 1..(Len(ledger') + Len(tx'[u].opened))
  <2>1. tx'[u] = tx[u] /\ OnPool(u)
    BY <1>5 DEF OnPool
  <2>2. tx[u].period \in 1..(Len(ledger) + Len(tx[u].opened))
    BY <2>1 DEF TypeInv, PeriodsExist
  <2>3. Len(tx[u].opened) \in Nat
    BY <2>1, RowOfType, LenProperties
  <2> QED
    BY <1>1, <2>1, <2>2, <2>3
<1>6. ASSUME NEW u \in Tx, Settles(u)'
      PROVE  tx'[u].period \in 1..Len(ledger')
  BY <1>4, <1>6 DEF TypeInv, PeriodsExist, Settles
<1>7. PeriodsExist'
  BY <1>4, <1>5, <1>6 DEF TypeInv, PeriodsExist
<1> QED
  BY <1>3, <1>7 DEF TypeInv

\* Ending a transaction leaves the others alone.
LEMMA FinishType ==
  ASSUME TypeInv, NEW t \in Tx, Finish(t)
  PROVE  /\ tx' \in [Tx -> AllTx]
         /\ tx'[t] = Idle /\ held'[t] = {}
         /\ \A u \in Tx \ {t} : tx'[u] = tx[u] /\ held'[u] = held[u]
         /\ held' \in [Tx -> SUBSET [row : Rows, mode : LockModes]]
BY DEF Finish, TypeInv, TypeOK, AllTx

\* The three kinds of transaction, told apart by their kind.
LEMMA TxKinds ==
  ASSUME TypeOK, NEW t \in Tx
  PROVE  /\ tx[t] = Idle <=> tx[t].kind = "idle"
         /\ tx[t].kind = "reserve" => tx[t] \in ReserveTx
         /\ tx[t].kind = "settle" => tx[t] \in SettleTx
         /\ tx[t].kind = "budget" => tx[t] \in BudgetTx
         /\ tx[t].kind \in {"idle", "reserve", "settle", "budget"}
BY DEF TypeOK, ReserveTx, SettleTx, BudgetTx

\* Lengths and indexes of the ledger.
LEMMA LedgerType ==
  ASSUME TypeOK
  PROVE  /\ ledger \in Seq(LedgerRows) /\ Len(ledger) \in Nat \ {0}
         /\ \A p \in 1..Len(ledger) : ledger[p] \in LedgerRows
         /\ DOMAIN ledger = 1..Len(ledger)
BY LenProperties, EmptySeq, ElementOfSeq DEF TypeOK

\* What openQuotaPeriod adds is at most one row, and the ledger stays a ledger.
LEMMA OpeningType ==
  ASSUME TypeOK
  PROVE  /\ Opening(ledger) \in Seq(LedgerRows)
         /\ Len(Opening(ledger)) \in {0, 1}
         /\ Opening(ledger) # <<>> => Opening(ledger) = <<NewPeriod>>
         /\ ledger \o Opening(ledger) \in Seq(LedgerRows)
         /\ Len(ledger \o Opening(ledger)) = Len(ledger) + Len(Opening(ledger))
BY NewPeriodType, LedgerType, ConcatProperties DEF Opening

\* Locking the ledger row adds a lock on a row.
LEMMA HeldAdds ==
  ASSUME TypeInv, NEW t \in Tx, tx[t] # Idle
  PROVE  held[t] \cup {Lock(LedgerRow(tx[t].period), "update")}
           \in SUBSET [row : Rows, mode : LockModes]
<1>1. tx[t].period \in Nat
  BY TxKinds DEF TypeInv, ReserveTx, SettleTx, BudgetTx
<1> QED
  BY <1>1, LockTypes DEF TypeInv, TypeOK

\* A reservation starts on a period that exists or that it drafts.
LEMMA BeginReserveType ==
  ASSUME TypeInv, NEW t \in Tx, NEW c \in Calls, NEW mode \in Modes,
         NEW ask \in 1..MaxAsk, BeginReserve(t, c, mode, ask)
  PROVE  TypeInv'
<1> DEFINE opened == Opening(ledger)
           w == [kind |-> "reserve", step |-> "ledger", call |-> c,
                 mode |-> mode, ask |-> ask,
                 period |-> Len(ledger) + Len(opened), opened |-> opened,
                 retried |-> FALSE, grant |-> 0, at |-> 0]
<1>1. /\ opened \in Seq(LedgerRows) /\ Len(opened) \in Nat
      /\ Len(ledger) \in Nat \ {0}
  BY OpeningType, LedgerType DEF TypeInv
<1>2. ask \in Nat /\ 0 \in Time
  BY BoundsAssumption
<1>3. w \in AllTx
  BY <1>1, <1>2 DEF AllTx, ReserveTx
<1>4. w.period \in 1..(Len(ledger) + Len(w.opened))
  BY <1>1
<1>5. {Lock(PoolRow, PoolLockMode)} \in SUBSET [row : Rows, mode : LockModes]
  BY LockTypes
<1> QED
  BY <1>3, <1>4, <1>5, TxStepType DEF BeginReserve

\* Another drafted period keeps the types.
LEMMA ReopenPeriodType ==
  ASSUME TypeInv, NEW t \in Tx, ReopenPeriod(t)
  PROVE  TypeInv'
<1> DEFINE w == [tx[t] EXCEPT !.opened = Append(tx[t].opened, NewPeriod),
                              !.period = tx[t].period + 1,
                              !.retried = TRUE]
<1>1. tx[t] \in ReserveTx /\ OnPool(t) /\ tx[t] # Idle
  BY TxKinds DEF TypeInv, ReopenPeriod, AtLedger, OnPool
<1>2. /\ NewPeriod \in LedgerRows
      /\ tx[t].opened \in Seq(LedgerRows) /\ Len(tx[t].opened) \in Nat
      /\ tx[t].period \in 1..(Len(ledger) + Len(tx[t].opened))
      /\ Len(ledger) \in Nat
  BY <1>1, RowOfType, NewPeriodType, LedgerType, LenProperties
     DEF TypeInv, PeriodsExist
<1>3. /\ Append(tx[t].opened, NewPeriod) \in Seq(LedgerRows)
      /\ Len(Append(tx[t].opened, NewPeriod)) = Len(tx[t].opened) + 1
  BY <1>2
<1>4. w \in AllTx /\ w.kind = "reserve"
  <2>1. tx[t].period + 1 \in Nat
    BY <1>2
  <2>2. \A o \in Seq(LedgerRows), p \in Nat :
          [tx[t] EXCEPT !.opened = o, !.period = p, !.retried = TRUE] \in ReserveTx
    BY <1>1 DEF ReserveTx
  <2> QED
    BY <1>1, <1>3, <2>1, <2>2 DEF AllTx, ReserveTx
<1>5. w.period \in 1..(Len(ledger) + Len(w.opened))
  BY <1>1, <1>2, <1>3 DEF ReserveTx
<1>6. tx' = [tx EXCEPT ![t] = w]
  BY DEF ReopenPeriod
<1> HIDE DEF w
<1> QED
  BY <1>1, <1>4, <1>5, <1>6, HeldAdds, TxStepType DEF ReopenPeriod, HoldLedger

\* A grant is an amount.
LEMMA GrantReserveType ==
  ASSUME TypeInv, NEW t \in Tx, GrantReserve(t)
  PROVE  TypeInv'
<1> DEFINE w == [tx[t] EXCEPT !.step = "commit", !.grant = GrantFor(t), !.at = now]
<1>1. tx[t] \in ReserveTx /\ OnPool(t) /\ tx[t] # Idle
  BY TxKinds DEF TypeInv, GrantReserve, AtLedger, OnPool
<1>2. GrantFor(t) \in Nat /\ now \in Time
  BY <1>1, RowOfType DEF GrantFor, Least, LedgerRows, ReserveTx, TypeInv, TypeOK
<1>3. w \in AllTx /\ w.kind = "reserve"
  BY <1>1, <1>2 DEF AllTx, ReserveTx
<1>4. w.period \in 1..(Len(ledger) + Len(w.opened))
  BY <1>1 DEF ReserveTx, TypeInv, PeriodsExist
<1>5. tx' = [tx EXCEPT ![t] = w]
  BY DEF GrantReserve
<1> HIDE DEF w
<1> QED
  BY <1>1, <1>3, <1>4, <1>5, HeldAdds, TxStepType DEF GrantReserve, HoldLedger

\* Keeping only the drafted periods keeps the types.
LEMMA RefuseReserveType ==
  ASSUME TypeInv, NEW t \in Tx, RefuseReserve(t)
  PROVE  TypeInv'
<1>1. OnPool(t)
  BY DEF RefuseReserve, AtLedger, OnPool
<1>2. /\ ledger' \in Seq(LedgerRows) /\ Len(ledger') >= Len(ledger)
  BY <1>1, RowOfType, LedgerType, LenProperties DEF RefuseReserve, TypeInv
<1> QED
  BY <1>2, FinishType, RowStepType
     DEF RefuseReserve, TypeInv, TypeOK, PeriodsExist

\* The ledger with a row booked anew at transaction t's period.
LEMMA BookedLedger ==
  ASSUME TypeInv, NEW t \in Tx, OnPool(t), NEW row \in LedgerRows,
         ledger' = [ledger \o tx[t].opened EXCEPT ![tx[t].period] = row]
  PROVE  /\ ledger' \in Seq(LedgerRows)
         /\ Len(ledger') = Len(ledger) + Len(tx[t].opened)
         /\ Len(ledger') >= Len(ledger)
         /\ tx[t].period \in 1..Len(ledger')
         /\ \A i \in 1..Len(ledger') :
              ledger'[i] = IF i = tx[t].period THEN row
                           ELSE IF i <= Len(ledger) THEN ledger[i]
                           ELSE tx[t].opened[i - Len(ledger)]
<1>1. Len(ledger) \in Nat /\ Len(tx[t].opened) \in Nat
  BY RowOfType, LedgerType, LenProperties DEF TypeInv
<1> DEFINE seen == ledger \o tx[t].opened
           p == tx[t].period
<1>2. /\ seen \in Seq(LedgerRows) /\ tx[t].period \in 1..Len(seen)
      /\ Len(seen) = Len(ledger) + Len(tx[t].opened)
      /\ \A i \in 1..Len(seen) :
           seen[i] = IF i <= Len(ledger) THEN ledger[i]
                                        ELSE tx[t].opened[i - Len(ledger)]
  BY RowOfType
<1>3. ledger' = [seen EXCEPT ![p] = row] /\ p \in 1..Len(seen)
  BY <1>2
<1> HIDE DEF seen, p
<1>4. /\ ledger' \in Seq(LedgerRows) /\ Len(ledger') = Len(seen)
      /\ \A i \in 1..Len(seen) : ledger'[i] = IF i = p THEN row ELSE seen[i]
  <2>1. /\ [seen EXCEPT ![p] = row] \in Seq(LedgerRows)
        /\ Len([seen EXCEPT ![p] = row]) = Len(seen)
        /\ \A i \in 1..Len(seen) :
             [seen EXCEPT ![p] = row][i] = IF i = p THEN row ELSE seen[i]
    BY <1>2, <1>3, ExceptSeq
  <2> QED
    BY ONLY <1>3, <2>1
<1>5. \A i \in 1..Len(ledger') :
        ledger'[i] = IF i = tx[t].period THEN row
                     ELSE IF i <= Len(ledger) THEN ledger[i]
                     ELSE tx[t].opened[i - Len(ledger)]
  <2> SUFFICES ASSUME NEW i \in 1..Len(ledger')
               PROVE  ledger'[i] = IF i = tx[t].period THEN row
                                   ELSE IF i <= Len(ledger) THEN ledger[i]
                                   ELSE tx[t].opened[i - Len(ledger)]
    OBVIOUS
  <2>1. i \in 1..Len(seen)
    BY <1>4
  <2>2. ledger'[i] = IF i = p THEN row ELSE seen[i]
    BY <1>4, <2>1
  <2> QED
    BY <1>2, <2>1, <2>2 DEF p
<1>6. Len(ledger') = Len(ledger) + Len(tx[t].opened) /\ Len(ledger') >= Len(ledger)
  BY <1>1, <1>2, <1>4
<1>7. tx[t].period \in 1..Len(ledger')
  BY <1>2, <1>4
<1> QED
  BY <1>4, <1>5, <1>6, <1>7

\* Committing a reservation books it on a row that exists.
LEMMA CommitReserveType ==
  ASSUME TypeInv, NEW t \in Tx, CommitReserve(t)
  PROVE  TypeInv'
<1>1. OnPool(t) /\ tx[t] \in ReserveTx
  BY TxKinds DEF CommitReserve, OnPool, TypeInv
<1>2. RowOf(t).reserved + tx[t].grant \in Nat
  BY <1>1, RowOfType DEF LedgerRows, ReserveTx
<1>3. Reserving(t) \in LedgerRows
  BY <1>1, <1>2, RowOfType, BookedType DEF Reserving, LedgerRows
<1>4. /\ ledger' \in Seq(LedgerRows) /\ Len(ledger') >= Len(ledger)
      /\ tx[t].period \in 1..Len(ledger')
  BY <1>1, <1>3, BookedLedger DEF CommitReserve
<1>5. /\ Reservation(t) \in Events /\ Reservation(t).period = tx[t].period
      /\ tx[t].call \in Calls
  BY <1>1, BoundsAssumption DEF Reservation, ReserveTx, Events, Tallies
<1>6. event' = [event EXCEPT ![tx[t].call] = Reservation(t)]
  BY DEF CommitReserve
<1>7. /\ event' \in [Calls -> Events]
      /\ \A c \in Calls : event'[c].state # "none" =>
           \/ event'[c].period \in 1..Len(ledger')
           \/ event[c].state # "none" /\ event'[c].period = event[c].period
  BY <1>4, <1>5, <1>6 DEF TypeInv, TypeOK
<1> QED
  BY <1>4, <1>7, FinishType, RowStepType DEF CommitReserve, TypeInv, TypeOK

\* A roll-over adds one row.
LEMMA RollOverType ==
  ASSUME TypeInv, RollOver
  PROVE  TypeInv'
<1>1. /\ ledger' \in Seq(LedgerRows) /\ Len(ledger') >= Len(ledger)
  BY OpeningType, LedgerType DEF RollOver, TypeInv
<1>2. tx' = tx /\ tx \in [Tx -> AllTx]
  BY DEF RollOver, TypeInv, TypeOK, AllTx
<1> QED
  BY <1>1, <1>2, RowStepType DEF RollOver, TypeInv, TypeOK

\* Storing a tally keeps the event's period.
LEMMA RecordUsageType ==
  ASSUME TypeInv, NEW c \in Calls, NEW tally \in Tallies, RecordUsage(c, tally)
  PROVE  TypeInv'
<1>1. /\ event' \in [Calls -> Events]
      /\ \A d \in Calls : /\ event'[d].state = event[d].state
                          /\ event'[d].period = event[d].period
  BY DEF RecordUsage, TypeInv, TypeOK, Events
<1>2. tx' = tx /\ tx \in [Tx -> AllTx]
  BY DEF RecordUsage, TypeInv, TypeOK, AllTx
<1>3. Len(ledger) \in Nat
  BY LedgerType DEF TypeInv
<1> QED
  BY <1>1, <1>2, <1>3, RowStepType DEF RecordUsage, TypeInv, TypeOK

\* A settlement starts on the period of its reservation.
LEMMA BeginSettleType ==
  ASSUME TypeInv, NEW t \in Tx, NEW c \in Calls, NEW tally \in Tallies,
         BeginSettle(t, c, tally)
  PROVE  TypeInv'
<1> DEFINE w == [kind |-> "settle", step |-> "ledger", call |-> c,
                 period |-> event[c].period, tally |-> ToCharge(c, tally)]
<1>1. event[c] \in Events /\ event[c].period \in 1..Len(ledger)
  BY DEF BeginSettle, TypeInv, TypeOK, PeriodsExist
<1>2. ToCharge(c, tally) \in Tallies
  BY <1>1 DEF ToCharge, Events
<1>3. w \in AllTx
  BY <1>1, <1>2 DEF AllTx, SettleTx, Events
<1>4. {Lock(EventRow(c), "update")} \in SUBSET [row : Rows, mode : LockModes]
  BY LockTypes
<1> QED
  BY <1>1, <1>3, <1>4, TxStepType DEF BeginSettle

\* Getting the ledger row moves the settlement on.
LEMMA LockLedgerToSettleType ==
  ASSUME TypeInv, NEW t \in Tx, LockLedgerToSettle(t)
  PROVE  TypeInv'
<1> DEFINE w == [tx[t] EXCEPT !.step = "commit"]
<1>1. tx[t] \in SettleTx /\ Settles(t) /\ tx[t] # Idle
  BY TxKinds DEF TypeInv, LockLedgerToSettle, AtLedger, Settles
<1>2. w \in AllTx /\ w.kind = "settle"
  BY <1>1 DEF AllTx, SettleTx
<1>3. w.period \in 1..Len(ledger)
  BY <1>1 DEF SettleTx, TypeInv, PeriodsExist
<1>4. tx' = [tx EXCEPT ![t] = w]
  BY DEF LockLedgerToSettle
<1> HIDE DEF w
<1> QED
  BY <1>1, <1>2, <1>3, <1>4, HeldAdds, TxStepType DEF LockLedgerToSettle, HoldLedger

\* The ledger when call c of transaction t is settled for `charge`.
LEMMA SettledLedger ==
  ASSUME TypeInv, NEW t \in Tx, Settles(t), NEW charge \in Nat,
         event[tx[t].call].period = tx[t].period,
         ledger' = [ledger EXCEPT ![tx[t].period] = Settling(tx[t].call, charge)]
  PROVE  /\ tx[t].period \in 1..Len(ledger)
         /\ Settling(tx[t].call, charge) \in LedgerRows
         /\ ledger' \in Seq(LedgerRows) /\ Len(ledger') = Len(ledger)
         /\ \A i \in 1..Len(ledger) :
              ledger'[i] = IF i = tx[t].period THEN Settling(tx[t].call, charge)
                                               ELSE ledger[i]
<1> DEFINE p == tx[t].period
           row == Settling(tx[t].call, charge)
<1>1. p \in 1..Len(ledger) /\ tx[t].call \in Calls
  BY TxKinds DEF TypeInv, PeriodsExist, Settles, SettleTx
<1>2. ledger \in Seq(LedgerRows) /\ ledger[p] \in LedgerRows
  BY <1>1, LedgerType DEF TypeInv
<1>3. event[tx[t].call].amount \in Nat
  BY <1>1 DEF TypeInv, TypeOK, Events
<1>4. /\ AtLeast0(ledger[p].reserved - event[tx[t].call].amount) \in Nat
      /\ ledger[p].consumed + charge \in Nat /\ ledger[p].budget \in Nat
  <2>1. /\ ledger[p].reserved \in Nat /\ ledger[p].consumed \in Nat
        /\ ledger[p].budget \in Nat
    BY <1>2 DEF LedgerRows
  <2> HIDE DEF p
  <2> QED
    BY <1>3, <2>1 DEF AtLeast0
<1>5. row \in LedgerRows
  BY <1>2, <1>4, BookedType DEF Settling
<1>6. ledger' = [ledger EXCEPT ![p] = row]
  OBVIOUS
<1> HIDE DEF p, row
<1>7. /\ [ledger EXCEPT ![p] = row] \in Seq(LedgerRows)
      /\ Len([ledger EXCEPT ![p] = row]) = Len(ledger)
      /\ \A i \in 1..Len(ledger) :
           [ledger EXCEPT ![p] = row][i] = IF i = p THEN row ELSE ledger[i]
  BY <1>1, <1>2, <1>5, ExceptSeq
<1> QED
  BY <1>1, <1>5, <1>6, <1>7 DEF p, row

\* Committing a settlement books it on the row it has locked.
LEMMA CommitSettleType ==
  ASSUME TypeInv, CallsOwned, NEW t \in Tx, CommitCharge(t) \/ CommitRelease(t)
  PROVE  TypeInv'
<1>1. Settles(t) /\ tx[t] \in SettleTx
  BY TxKinds DEF CommitCharge, CommitRelease, AtTerminalEvent, Settles, TypeInv
<1>2. /\ event[tx[t].call].period = tx[t].period
      /\ event[tx[t].call].state = "reserved"
  BY <1>1 DEF CallsOwned
<1>3. ChargeOf(event[tx[t].call].mode, tx[t].tally) \in Nat /\ 0 \in Nat
  BY <1>1, BoundsAssumption DEF ChargeOf, SettleTx, Tallies
<1>4. Len(ledger) \in Nat
  BY LedgerType DEF TypeInv
<1>5. /\ ledger' \in Seq(LedgerRows) /\ Len(ledger') >= Len(ledger)
  <2>1. PICK charge \in Nat :
          ledger' = [ledger EXCEPT ![tx[t].period] = Settling(tx[t].call, charge)]
    BY <1>3 DEF CommitCharge, CommitRelease
  <2>2. ledger' \in Seq(LedgerRows) /\ Len(ledger') = Len(ledger)
    BY <1>1, <1>2, <2>1, SettledLedger
  <2> QED
    BY <1>4, <2>2
<1>6. /\ event' \in [Calls -> Events]
      /\ \A c \in Calls : event'[c].state # "none" =>
           event[c].state # "none" /\ event'[c].period = event[c].period
  <2>1. event[tx[t].call] \in Events /\ tx[t].call \in Calls /\ event \in [Calls -> Events]
    BY <1>1 DEF SettleTx, TypeInv, TypeOK
  <2> QED
    BY <1>2, <1>3, <2>1 DEF CommitCharge, CommitRelease, Events
<1> QED
  BY <1>5, <1>6, FinishType, RowStepType
     DEF CommitCharge, CommitRelease, TypeInv, TypeOK

\* A budget edit starts on a period that exists or that it drafts.
LEMMA BeginBudgetEditType ==
  ASSUME TypeInv, NEW t \in Tx, NEW edited \in Editable, BeginBudgetEdit(t, edited)
  PROVE  TypeInv'
<1> DEFINE opened == Opening(ledger)
           w == [kind |-> "budget", step |-> "ledger", pool |-> edited,
                 period |-> Len(ledger) + Len(opened), opened |-> opened]
<1>1. /\ opened \in Seq(LedgerRows) /\ Len(opened) \in Nat
      /\ Len(ledger) \in Nat \ {0}
  BY OpeningType, LedgerType DEF TypeInv
<1>2. edited \in Pools
  BY BudgetsAssumption DEF Editable, Pools
<1>3. w \in AllTx
  BY <1>1, <1>2 DEF AllTx, BudgetTx
<1>4. w.period \in 1..(Len(ledger) + Len(w.opened))
  BY <1>1
<1>5. {Lock(PoolRow, PoolLockMode)} \in SUBSET [row : Rows, mode : LockModes]
  BY LockTypes
<1> QED
  BY <1>3, <1>4, <1>5, TxStepType DEF BeginBudgetEdit

\* Committing a budget edit books it on the newest row.
LEMMA CommitBudgetEditType ==
  ASSUME TypeInv, NEW t \in Tx, CommitBudgetEdit(t)
  PROVE  TypeInv'
<1>1. OnPool(t) /\ tx[t] \in BudgetTx
  BY TxKinds DEF CommitBudgetEdit, AtLedger, OnPool, TypeInv
<1>2. tx[t].pool \in Pools /\ tx[t].pool.budget \in Nat
  BY <1>1 DEF BudgetTx, Pools
<1>3. Rebudgeting(t) \in LedgerRows
  BY <1>1, <1>2, RowOfType, BookedType DEF Rebudgeting, LedgerRows
<1>4. /\ ledger' \in Seq(LedgerRows) /\ Len(ledger') >= Len(ledger)
  BY <1>1, <1>3, BookedLedger DEF CommitBudgetEdit
<1> QED
  BY <1>2, <1>4, FinishType, RowStepType
     DEF CommitBudgetEdit, TypeInv, TypeOK, PeriodsExist

\* The remaining actions leave the ledger and the events as they are.
LEMMA QuietStepType ==
  ASSUME TypeInv,
         \/ \E t \in Tx : GiveUpReserve(t) \/ Rollback(t)
         \/ \E edited \in Editable : PatchPool(edited)
         \/ Tick
         \/ UNCHANGED vars
  PROVE  TypeInv'
<1>1. Len(ledger) \in Nat
  BY LedgerType DEF TypeInv
<1>2. tx \in [Tx -> AllTx]
  BY DEF TypeInv, TypeOK, AllTx
<1>3. ASSUME NEW t \in Tx, GiveUpReserve(t) \/ Rollback(t)
      PROVE  TypeInv'
  BY <1>1, <1>3, FinishType, RowStepType
     DEF GiveUpReserve, Rollback, TypeInv, TypeOK
<1>4. ASSUME NEW edited \in Editable, PatchPool(edited)
      PROVE  TypeInv'
  <2>1. edited \in Pools
    BY BudgetsAssumption DEF Editable, Pools
  <2> QED
    BY <1>1, <1>2, <1>4, <2>1, RowStepType DEF PatchPool, TypeInv, TypeOK
<1>5. CASE Tick
  <2>1. now' \in Time
    BY <1>5, BoundsAssumption DEF Tick, TypeInv, TypeOK
  <2> QED
    BY <1>1, <1>2, <1>5, <2>1, RowStepType DEF Tick, TypeInv, TypeOK
<1>6. CASE UNCHANGED vars
  BY <1>6 DEF vars, TypeInv, TypeOK, PeriodsExist, OnPool, Settles
<1> QED
  BY <1>3, <1>4, <1>5, <1>6

-----------------------------------------------------------------------------
(* What the locks are good for                                             *)

LockInv == LocksHeld /\ LocksExclude /\ LocksTaken

-----------------------------------------------------------------------------
(* Locks                                                                   *)

\* The entries of the conflict table the ledger relies on.
LEMMA ConflictTable ==
  /\ Conflicts(PoolLockMode, PoolLockMode)
  /\ Conflicts("update", "update")
  /\ ~Conflicts(PoolLockMode, "key share")
  /\ \A m, n : Conflicts(m, n) <=> Conflicts(n, m)
<1>1. {"no key update", "no key update"} = {"no key update"} /\ {"update", "update"} = {"update"}
  OBVIOUS
<1>2. Conflicts(PoolLockMode, PoolLockMode) /\ Conflicts("update", "update")
  BY <1>1 DEF Conflicts, ConflictingPairs, PoolLockMode
<1>3. \A x \in ConflictingPairs : "key share" \in x => "update" \in x
  <2> SUFFICES ASSUME NEW x \in ConflictingPairs, "update" \notin x
               PROVE  "key share" \notin x
    OBVIOUS
  <2>1. \/ x = {"share", "no key update"} \/ x = {"no key update"}
    BY Zenon DEF ConflictingPairs
  <2>2. "key share" \notin {"share", "no key update"} /\ "key share" \notin {"no key update"}
    OBVIOUS
  <2> QED
    BY <2>1, <2>2, Zenon
<1>4. ~Conflicts(PoolLockMode, "key share")
  <2>1. "update" \notin {"no key update", "key share"}
    OBVIOUS
  <2> QED
    BY <1>3, <2>1 DEF Conflicts, PoolLockMode
<1>5. \A m, n : {m, n} = {n, m}
  OBVIOUS
<1> QED
  BY <1>2, <1>4, <1>5 DEF Conflicts

\* Locking rows nobody else holds conflicting locks on keeps the locks apart.
LEMMA LocksStep ==
  ASSUME LockInv, NEW t \in Tx,
         \A u \in Tx \ {t} : tx'[u] = tx[u] /\ held'[u] = held[u],
         HoldsItsLocks(t)', TakesOnly(t)',
         \A l \in held'[t] :
           \/ l \in held[t]
           \/ \A u \in Tx \ {t} : \A k \in held[u] :
                k.row = l.row => ~Conflicts(k.mode, l.mode)
  PROVE  LockInv'
<1>1. LocksHeld'
  BY DEF LockInv, LocksHeld, HoldsItsLocks, OnPool, Settles
<1>2. LocksTaken'
  BY DEF LockInv, LocksTaken, TakesOnly, OnPool, Settles
<1>3. \A l \in held'[t] : \A u \in Tx \ {t} : \A k \in held[u] :
        k.row = l.row => ~Conflicts(k.mode, l.mode)
  BY DEF LockInv, LocksExclude
<1>4. LocksExclude'
  BY <1>3, ConflictTable DEF LockInv, LocksExclude
<1> QED
  BY <1>1, <1>2, <1>4 DEF LockInv

\* A lock that can be had conflicts with none that others hold.
LEMMA LockFree ==
  ASSUME TypeOK, NEW t \in Tx, NEW row, NEW mode, CanLock(held, t, row, mode)
  PROVE  \A u \in Tx \ {t} : \A k \in held[u] :
           k.row = Lock(row, mode).row => ~Conflicts(k.mode, Lock(row, mode).mode)
BY DEF CanLock, Blocks, Lock, TypeOK

\* Ending a transaction, and leaving all of them alone, keeps the locks apart.
LEMMA LocksFinish ==
  ASSUME TypeInv, LockInv, NEW t \in Tx, Finish(t)
  PROVE  LockInv'
<1>1. tx'[t] = Idle /\ held'[t] = {}
  BY FinishType
<1>2. /\ tx'[t].kind = "idle" /\ tx'[t].step = "none"
  BY <1>1
<1>3. HoldsItsLocks(t)' /\ TakesOnly(t)'
  BY <1>1, <1>2 DEF HoldsItsLocks, TakesOnly, OnPool, Settles
<1> QED
  BY <1>1, <1>3, FinishType, LocksStep

\* Steps that touch neither transactions nor locks.
LEMMA LocksIdle ==
  ASSUME LockInv, UNCHANGED <<tx, held>>
  PROVE  LockInv'
BY DEF LockInv, LocksHeld, LocksExclude, LocksTaken, HoldsItsLocks, TakesOnly,
       OnPool, Settles

\* Reservations and budget edits start with the pool's lock.
LEMMA LocksBegin ==
  ASSUME TypeInv, LockInv, NEW t \in Tx, NEW w, NEW row, NEW mode,
         CanLock(held, t, row, mode),
         tx' = [tx EXCEPT ![t] = w],
         held' = [held EXCEPT ![t] = {Lock(row, mode)}],
         w.step = "ledger", w # Idle,
         \/ /\ w.kind \in {"reserve", "budget"}
            /\ row = PoolRow /\ mode = PoolLockMode
         \/ /\ w.kind = "settle"
            /\ row = EventRow(w.call) /\ mode = "update"
  PROVE  LockInv'
<1>1. tx'[t] = w /\ held'[t] = {Lock(row, mode)}
  BY DEF TypeInv, TypeOK
<1>2. \A u \in Tx \ {t} : tx'[u] = tx[u] /\ held'[u] = held[u]
  BY DEF TypeInv, TypeOK
<1>3. HoldsItsLocks(t)' /\ TakesOnly(t)'
  BY <1>1 DEF HoldsItsLocks, TakesOnly, OnPool, Settles, Lock
<1> QED
  BY <1>1, <1>2, <1>3, LockFree, LocksStep DEF TypeInv

\* The wait for the ledger row ends with its lock.
LEMMA LocksAtLedger ==
  ASSUME TypeInv, LockInv, NEW t \in Tx, NEW kind, NEW w,
         AtLedger(t, kind), HoldLedger(t),
         kind \in {"reserve", "settle"},
         tx' = [tx EXCEPT ![t] = w], w.kind = kind,
         kind = "settle" => w.call = tx[t].call,
         \/ w.step = "commit" /\ w.period = tx[t].period
         \/ w.step = "ledger" /\ kind = "reserve" /\ w.opened # <<>>
  PROVE  LockInv'
<1> DEFINE new == Lock(LedgerRow(tx[t].period), "update")
<1>1. tx'[t] = w /\ held'[t] = held[t] \cup {new}
  BY DEF TypeInv, TypeOK, HoldLedger
<1>2. \A u \in Tx \ {t} : tx'[u] = tx[u] /\ held'[u] = held[u]
  BY DEF TypeInv, TypeOK, HoldLedger
<1>3. HoldsItsLocks(t) /\ TakesOnly(t) /\ tx[t].step = "ledger" /\ tx[t].kind = kind
  BY DEF LockInv, LocksHeld, LocksTaken, AtLedger
<1>4. HoldsItsLocks(t)'
  <2>1. tx'[t].kind = kind /\ tx'[t] # Idle
    BY <1>1
  <2>2. OnPool(t)' => Lock(PoolRow, PoolLockMode) \in held'[t]
    BY <1>1, <1>3, <2>1 DEF HoldsItsLocks, OnPool
  <2>3. Settles(t)' => Lock(EventRow(tx'[t].call), "update") \in held'[t]
    BY <1>1, <1>3, <2>1 DEF HoldsItsLocks, Settles
  <2>4. tx'[t].step = "commit" => Lock(LedgerRow(tx'[t].period), "update") \in held'[t]
    BY <1>1
  <2> QED
    BY <2>1, <2>2, <2>3, <2>4 DEF HoldsItsLocks
<1>5. new.row[1] = "ledger"
  BY DEF Lock, LedgerRow
<1>6. TakesOnly(t)'
  <2> SUFFICES ASSUME NEW l \in held'[t]
               PROVE  \/ l.row = PoolRow /\ l.mode = PoolLockMode /\ OnPool(t)'
                      \/ l.row = EventRow(tx'[t].call) /\ Settles(t)'
                      \/ /\ l.row[1] = "ledger"
                         /\ \/ tx'[t].step = "commit"
                            \/ OnPool(t)' /\ tx'[t].opened # <<>>
    BY DEF TakesOnly
  <2>1. \/ w.step = "commit"
        \/ OnPool(t)' /\ w.opened # <<>>
    BY <1>1 DEF OnPool
  <2>2. CASE l = new
    BY <1>1, <1>5, <2>1, <2>2
  <2>3. CASE l \in held[t]
    BY <1>1, <1>3, <2>1, <2>3 DEF TakesOnly, OnPool, Settles
  <2> QED
    BY <1>1, <2>2, <2>3
<1>7. \A u \in Tx \ {t} : \A k \in held[u] :
        k.row = new.row => ~Conflicts(k.mode, new.mode)
  BY LockFree DEF AtLedger, TypeInv
<1> HIDE DEF new
<1> QED
  BY <1>1, <1>2, <1>4, <1>6, <1>7, LocksStep

\* Every step keeps the locks apart and leaves them with their takers.
LEMMA LocksNext ==
  ASSUME TypeInv, LockInv, [Next]_vars
  PROVE  LockInv'
<1>1. ASSUME NEW t \in Tx, ReserveStep(t)
      PROVE  LockInv'
  <2>1. ASSUME NEW c \in Calls, NEW mode \in Modes, NEW ask \in 1..MaxAsk,
               BeginReserve(t, c, mode, ask)
        PROVE  LockInv'
    <3> DEFINE w == [kind |-> "reserve", step |-> "ledger", call |-> c,
                     mode |-> mode, ask |-> ask,
                     period |-> Len(ledger) + Len(Opening(ledger)),
                     opened |-> Opening(ledger),
                     retried |-> FALSE, grant |-> 0, at |-> 0]
    <3>1. w # Idle /\ w.step = "ledger" /\ w.kind = "reserve"
      OBVIOUS
    <3>2. tx' = [tx EXCEPT ![t] = w]
      BY <2>1 DEF BeginReserve
    <3> HIDE DEF w
    <3> QED
      BY <2>1, <3>1, <3>2, LocksBegin DEF BeginReserve
  <2>2. CASE ReopenPeriod(t)
    <3> DEFINE w == [tx[t] EXCEPT !.opened = Append(tx[t].opened, NewPeriod),
                                  !.period = tx[t].period + 1,
                                  !.retried = TRUE]
    <3>1. tx[t] \in ReserveTx /\ OnPool(t) /\ tx[t].step = "ledger"
      BY <2>2, TxKinds DEF ReopenPeriod, AtLedger, OnPool, TypeInv
    <3>2. tx[t].opened \in Seq(LedgerRows)
      BY <3>1 DEF ReserveTx
    <3>3. Append(tx[t].opened, NewPeriod) # <<>>
      <4>1. NewPeriod \in LedgerRows /\ Len(tx[t].opened) \in Nat
        BY <3>2, NewPeriodType, LenProperties DEF TypeInv
      <4>2. /\ Append(tx[t].opened, NewPeriod) \in Seq(LedgerRows)
            /\ Len(Append(tx[t].opened, NewPeriod)) = Len(tx[t].opened) + 1
        BY <3>2, <4>1
      <4> QED
        BY <4>1, <4>2, EmptySeq
    <3>4. /\ w.step = "ledger" /\ w.kind = "reserve" /\ w.call = tx[t].call
          /\ w.opened # <<>>
      BY <3>1, <3>3 DEF ReserveTx
    <3>5. tx' = [tx EXCEPT ![t] = w]
      BY <2>2 DEF ReopenPeriod
    <3> HIDE DEF w
    <3> QED
      BY <2>2, <3>4, <3>5, LocksAtLedger DEF ReopenPeriod
  <2>3. CASE GrantReserve(t)
    <3> DEFINE w == [tx[t] EXCEPT !.step = "commit", !.grant = GrantFor(t),
                                  !.at = now]
    <3>1. tx[t] \in ReserveTx
      BY <2>3, TxKinds DEF GrantReserve, AtLedger, TypeInv
    <3>2. w.step = "commit" /\ w.kind = "reserve" /\ w.period = tx[t].period
      BY <3>1 DEF ReserveTx
    <3>3. tx' = [tx EXCEPT ![t] = w]
      BY <2>3 DEF GrantReserve
    <3> HIDE DEF w
    <3> QED
      BY <2>3, <3>2, <3>3, LocksAtLedger DEF GrantReserve
  <2>4. CASE GiveUpReserve(t) \/ RefuseReserve(t) \/ CommitReserve(t)
    BY <2>4, LocksFinish DEF GiveUpReserve, RefuseReserve, CommitReserve
  <2> QED
    BY <1>1, <2>1, <2>2, <2>3, <2>4 DEF ReserveStep
<1>2. ASSUME NEW t \in Tx, SettleStep(t)
      PROVE  LockInv'
  <2>1. ASSUME NEW c \in Calls, NEW tally \in Tallies, BeginSettle(t, c, tally)
        PROVE  LockInv'
    <3> DEFINE w == [kind |-> "settle", step |-> "ledger", call |-> c,
                     period |-> event[c].period, tally |-> ToCharge(c, tally)]
    <3>1. w # Idle /\ w.step = "ledger" /\ w.kind = "settle" /\ w.call = c
      OBVIOUS
    <3>2. tx' = [tx EXCEPT ![t] = w]
      BY <2>1 DEF BeginSettle
    <3> HIDE DEF w
    <3> QED
      BY <2>1, <3>1, <3>2, LocksBegin DEF BeginSettle
  <2>2. CASE LockLedgerToSettle(t)
    <3> DEFINE w == [tx[t] EXCEPT !.step = "commit"]
    <3>1. tx[t] \in SettleTx
      BY <2>2, TxKinds DEF LockLedgerToSettle, AtLedger, TypeInv
    <3>2. /\ w.step = "commit" /\ w.kind = "settle" /\ w.period = tx[t].period
          /\ w.call = tx[t].call
      BY <3>1 DEF SettleTx
    <3>3. tx' = [tx EXCEPT ![t] = w]
      BY <2>2 DEF LockLedgerToSettle
    <3> HIDE DEF w
    <3> QED
      BY <2>2, <3>2, <3>3, LocksAtLedger DEF LockLedgerToSettle
  <2>3. CASE CommitCharge(t) \/ CommitRelease(t)
    BY <2>3, LocksFinish DEF CommitCharge, CommitRelease
  <2> QED
    BY <1>2, <2>1, <2>2, <2>3 DEF SettleStep
<1>3. ASSUME NEW t \in Tx, BudgetStep(t)
      PROVE  LockInv'
  <2>1. ASSUME NEW edited \in Editable, BeginBudgetEdit(t, edited)
        PROVE  LockInv'
    <3> DEFINE w == [kind |-> "budget", step |-> "ledger", pool |-> edited,
                     period |-> Len(ledger) + Len(Opening(ledger)),
                     opened |-> Opening(ledger)]
    <3>1. w # Idle /\ w.step = "ledger" /\ w.kind = "budget"
      OBVIOUS
    <3>2. tx' = [tx EXCEPT ![t] = w]
      BY <2>1 DEF BeginBudgetEdit
    <3> HIDE DEF w
    <3> QED
      BY <2>1, <3>1, <3>2, LocksBegin DEF BeginBudgetEdit
  <2>2. CASE CommitBudgetEdit(t)
    BY <2>2, LocksFinish DEF CommitBudgetEdit
  <2> QED
    BY <1>3, <2>1, <2>2 DEF BudgetStep
<1>4. ASSUME NEW t \in Tx, Rollback(t)
      PROVE  LockInv'
  BY <1>4, LocksFinish DEF Rollback
<1>5. CASE \/ RollOver \/ Tick \/ UNCHANGED vars
           \/ \E c \in Calls, tally \in Tallies : RecordUsage(c, tally)
           \/ \E edited \in Editable : PatchPool(edited)
  BY <1>5, LocksIdle DEF RollOver, Tick, vars, RecordUsage, PatchPool
<1> QED
  BY <1>1, <1>2, <1>3, <1>4, <1>5 DEF Next
-----------------------------------------------------------------------------
(* What the locks are good for                                             *)

\* No two transactions share a lock that conflicts with itself.
LEMMA OneHolder ==
  ASSUME LockInv, NEW t \in Tx, NEW u \in Tx, NEW row, NEW mode,
         Lock(row, mode) \in held[t], Lock(row, mode) \in held[u],
         Conflicts(mode, mode)
  PROVE  t = u
<1>1. Lock(row, mode).mode = mode
  BY DEF Lock
<1> QED
  BY <1>1 DEF LockInv, LocksExclude

\* At most one transaction works on the pool.
LEMMA OnePool ==
  ASSUME LockInv, NEW t \in Tx, NEW u \in Tx, OnPool(t), OnPool(u)
  PROVE  t = u
BY ConflictTable, OneHolder DEF LockInv, LocksHeld, HoldsItsLocks

\* None does while the pool row is free.
LEMMA PoolFree ==
  ASSUME TypeOK, LockInv, Unlocked(held, PoolRow, PoolLockMode), NEW u \in Tx
  PROVE  ~OnPool(u)
<1> SUFFICES ASSUME OnPool(u)
             PROVE  FALSE
  OBVIOUS
<1> DEFINE l == Lock(PoolRow, PoolLockMode)
<1>1. l \in held[u] /\ DOMAIN held = Tx
  BY DEF LockInv, LocksHeld, HoldsItsLocks, TypeOK
<1>2. l.row = PoolRow /\ l.mode = PoolLockMode
  BY DEF Lock
<1> HIDE DEF l
<1> QED
  BY <1>1, <1>2, ConflictTable DEF Unlocked, Blocks

\* At most one transaction ends a reservation.
LEMMA OneSettler ==
  ASSUME LockInv, NEW t \in Tx, NEW u \in Tx, Settles(t), Settles(u),
         tx[t].call = tx[u].call
  PROVE  t = u
BY ConflictTable, OneHolder DEF LockInv, LocksHeld, HoldsItsLocks

\* At most one transaction is about to write a ledger row.
LEMMA OneWriter ==
  ASSUME LockInv, NEW t \in Tx, NEW u \in Tx,
         tx[t].step = "commit", tx[u].step = "commit",
         tx[t].period = tx[u].period
  PROVE  t = u
BY ConflictTable, OneHolder DEF LockInv, LocksHeld, HoldsItsLocks
-----------------------------------------------------------------------------
(* Calls                                                                   *)

\* Steps that neither begin a transaction nor decide a reservation.
LEMMA OwnedKept ==
  ASSUME TypeInv, CallsOwned,
         \A u \in Tx :
           \/ tx'[u].kind \notin {"reserve", "settle"}
           \/ /\ tx'[u].kind = tx[u].kind /\ tx'[u].call = tx[u].call
              /\ tx[u].kind = "settle" => tx'[u].period = tx[u].period,
         \A c \in Calls : /\ event'[c].state = event[c].state
                          /\ event'[c].period = event[c].period
  PROVE  CallsOwned'
<1>1. \A u \in Tx : tx[u].kind \in {"reserve", "settle"} => tx[u].call \in Calls
  BY TxKinds DEF TypeInv, ReserveTx, SettleTx
<1> QED
  BY <1>1 DEF CallsOwned, Settles

\* The end of a transaction whose call no other transaction works on.
LEMMA OwnedEnd ==
  ASSUME TypeInv, CallsOwned, NEW t \in Tx, Finish(t),
         \A u \in Tx \ {t} : tx[u].kind \in {"reserve", "settle"} =>
           event'[tx[u].call] = event[tx[u].call]
  PROVE  CallsOwned'
<1>1. tx'[t].kind = "idle" /\ \A u \in Tx \ {t} : tx'[u] = tx[u]
  BY FinishType
<1> QED
  BY <1>1 DEF CallsOwned, Settles

\* Committing a reservation or a settlement touches no other's call.
LEMMA OwnedCommit ==
  ASSUME TypeInv, LockInv, CallsOwned, NEW t \in Tx,
         CommitReserve(t) \/ CommitCharge(t) \/ CommitRelease(t)
  PROVE  /\ CallsOwned'
         /\ tx[t].call \in Calls
         /\ \A c \in Calls \ {tx[t].call} : event'[c] = event[c]
<1>1. tx[t].kind \in {"reserve", "settle"} /\ tx[t].call \in Calls
  BY TxKinds DEF TypeInv, ReserveTx, SettleTx, CommitReserve, CommitCharge,
                 CommitRelease, AtTerminalEvent
<1>2. \A c \in Calls \ {tx[t].call} : event'[c] = event[c]
  BY <1>1 DEF TypeInv, TypeOK, CommitReserve, CommitCharge, CommitRelease
<1>3. ASSUME NEW u \in Tx \ {t}, tx[u].kind \in {"reserve", "settle"}
      PROVE  tx[u].call # tx[t].call
  BY <1>1, <1>3, OneSettler DEF CallsOwned, Settles
<1>4. \A u \in Tx : tx[u].kind \in {"reserve", "settle"} => tx[u].call \in Calls
  BY TxKinds DEF TypeInv, ReserveTx, SettleTx
<1>5. Finish(t)
  BY DEF CommitReserve, CommitCharge, CommitRelease
<1>6. CallsOwned'
  BY <1>2, <1>3, <1>4, <1>5, OwnedEnd
<1> QED
  BY <1>1, <1>2, <1>6

\* No step reserves or ends what another transaction is about to.
LEMMA OwnedNext ==
  ASSUME TypeInv, LockInv, CallsOwned, [Next]_vars
  PROVE  CallsOwned'
<1>1. ASSUME NEW t \in Tx, ReserveStep(t)
      PROVE  CallsOwned'
  <2>1. ASSUME NEW c \in Calls, NEW mode \in Modes, NEW ask \in 1..MaxAsk,
               BeginReserve(t, c, mode, ask)
        PROVE  CallsOwned'
    <3>1. /\ tx'[t].kind = "reserve" /\ tx'[t].call = c
          /\ \A u \in Tx \ {t} : tx'[u] = tx[u]
          /\ event' = event
      BY <2>1 DEF BeginReserve, TypeInv, TypeOK
    <3>2. /\ event[c].state = "none"
          /\ \A u \in Tx : tx[u].kind = "reserve" => tx[u].call # c
      BY <2>1 DEF BeginReserve
    <3> QED
      BY <3>1, <3>2 DEF CallsOwned, Settles
  <2>2. CASE ReopenPeriod(t) \/ GrantReserve(t)
    <3>1. tx[t] \in ReserveTx
      BY <2>2, TxKinds DEF ReopenPeriod, GrantReserve, AtLedger, TypeInv
    <3>2. /\ \A u \in Tx \ {t} : tx'[u] = tx[u]
          /\ tx'[t].kind = tx[t].kind /\ tx'[t].call = tx[t].call
          /\ tx[t].kind = "reserve" /\ event' = event
      BY <2>2, <3>1
         DEF ReopenPeriod, GrantReserve, ReserveTx, TypeInv, TypeOK
    <3> QED
      BY <3>2, OwnedKept
  <2>3. CASE GiveUpReserve(t) \/ RefuseReserve(t)
    BY <2>3, OwnedEnd DEF GiveUpReserve, RefuseReserve
  <2> QED
    BY <1>1, <2>1, <2>2, <2>3, OwnedCommit DEF ReserveStep
<1>2. ASSUME NEW t \in Tx, SettleStep(t)
      PROVE  CallsOwned'
  <2>1. ASSUME NEW c \in Calls, NEW tally \in Tallies, BeginSettle(t, c, tally)
        PROVE  CallsOwned'
    <3>1. /\ tx'[t].kind = "settle" /\ tx'[t].call = c
          /\ tx'[t].period = event[c].period /\ event[c].state = "reserved"
          /\ \A u \in Tx \ {t} : tx'[u] = tx[u]
          /\ event' = event
      BY <2>1 DEF BeginSettle, TypeInv, TypeOK
    <3> QED
      BY <3>1 DEF CallsOwned, Settles
  <2>2. CASE LockLedgerToSettle(t)
    <3>1. tx[t] \in SettleTx
      BY <2>2, TxKinds DEF LockLedgerToSettle, AtLedger, TypeInv
    <3>2. /\ \A u \in Tx \ {t} : tx'[u] = tx[u]
          /\ tx'[t].kind = tx[t].kind /\ tx'[t].call = tx[t].call
          /\ tx'[t].period = tx[t].period /\ event' = event
      BY <2>2, <3>1 DEF LockLedgerToSettle, SettleTx, TypeInv, TypeOK
    <3> QED
      BY <3>2, OwnedKept
  <2> QED
    BY <1>2, <2>1, <2>2, OwnedCommit DEF SettleStep
<1>3. ASSUME NEW t \in Tx, BudgetStep(t)
      PROVE  CallsOwned'
  <2>1. ASSUME NEW edited \in Editable, BeginBudgetEdit(t, edited)
        PROVE  CallsOwned'
    <3>1. /\ tx'[t].kind = "budget" /\ \A u \in Tx \ {t} : tx'[u] = tx[u]
          /\ event' = event
      BY <2>1 DEF BeginBudgetEdit, TypeInv, TypeOK
    <3> QED
      BY <3>1, OwnedKept
  <2>2. CASE CommitBudgetEdit(t)
    BY <2>2, OwnedEnd DEF CommitBudgetEdit
  <2> QED
    BY <1>3, <2>1, <2>2 DEF BudgetStep
<1>4. ASSUME NEW t \in Tx, Rollback(t)
      PROVE  CallsOwned'
  BY <1>4, OwnedEnd DEF Rollback
<1>5. ASSUME NEW c \in Calls, NEW tally \in Tallies, RecordUsage(c, tally)
      PROVE  CallsOwned'
  <2>1. /\ tx' = tx
        /\ \A d \in Calls : /\ event'[d].state = event[d].state
                            /\ event'[d].period = event[d].period
    BY <1>5 DEF RecordUsage, TypeInv, TypeOK, Events
  <2> QED
    BY <2>1, OwnedKept
<1>6. CASE \/ RollOver \/ Tick \/ UNCHANGED vars
           \/ \E edited \in Editable : PatchPool(edited)
  <2>1. tx' = tx /\ event' = event
    BY <1>6 DEF RollOver, Tick, vars, PatchPool
  <2> QED
    BY <2>1, OwnedKept
<1> QED
  BY <1>1, <1>2, <1>3, <1>4, <1>5, <1>6 DEF Next
-----------------------------------------------------------------------------
(* Types, again                                                            *)

\* Every step keeps the types, given that settlements own their reservations.
LEMMA TypeNext ==
  ASSUME TypeInv, CallsOwned, [Next]_vars
  PROVE  TypeInv'
<1>1. ASSUME NEW t \in Tx, ReserveStep(t)
      PROVE  TypeInv'
  BY <1>1, BeginReserveType, ReopenPeriodType, QuietStepType, RefuseReserveType,
     GrantReserveType, CommitReserveType DEF ReserveStep
<1>2. ASSUME NEW t \in Tx, SettleStep(t)
      PROVE  TypeInv'
  BY <1>2, BeginSettleType, LockLedgerToSettleType, CommitSettleType DEF SettleStep
<1>3. ASSUME NEW t \in Tx, BudgetStep(t)
      PROVE  TypeInv'
  BY <1>3, BeginBudgetEditType, CommitBudgetEditType DEF BudgetStep
<1> QED
  BY <1>1, <1>2, <1>3, RollOverType, RecordUsageType, QuietStepType DEF Next
-----------------------------------------------------------------------------
(* Periods                                                                 *)

\* Transactions are undisturbed while the periods and the budget are.
LEMMA DraftsKept ==
  ASSUME DraftsCurrent,
         \A u \in Tx : OnPool(u)' =>
           OnPool(u) /\ tx'[u].period = tx[u].period /\ tx'[u].opened = tx[u].opened,
         Len(ledger') = Len(ledger), pool'.budget = pool.budget
  PROVE  DraftsCurrent'
BY DEF DraftsCurrent, DraftCurrent

\* The one transaction on the pool ends.
LEMMA DraftsEnd ==
  ASSUME TypeInv, LockInv, NEW t \in Tx, OnPool(t), Finish(t)
  PROVE  DraftsCurrent'
<1>1. tx'[t].kind = "idle" /\ \A u \in Tx \ {t} : tx'[u] = tx[u]
  BY FinishType
<1>2. \A u \in Tx : ~OnPool(u)'
  BY <1>1, OnePool DEF OnPool
<1> QED
  BY <1>2 DEF DraftsCurrent

\* A transaction on the pool starts with its current period.
LEMMA DraftsBegin ==
  ASSUME TypeInv, LockInv, DraftsCurrent, NEW t \in Tx, NEW w,
         tx' = [tx EXCEPT ![t] = w], UNCHANGED <<pool, ledger>>,
         w.opened = Opening(ledger),
         w.period = Len(ledger) + Len(w.opened)
  PROVE  DraftsCurrent'
<1>1. tx'[t] = w /\ \A u \in Tx \ {t} : tx'[u] = tx[u]
  BY DEF TypeInv, TypeOK
<1>2. \/ w.opened = <<>> /\ Len(w.opened) = 0
      \/ w.opened = <<NewPeriod>> /\ Len(w.opened) = 1
  BY DEF Opening
<1>3. \A i \in 1..Len(w.opened) : w.opened[i] = NewPeriod
  BY <1>2
<1>4. DraftCurrent(t)'
  BY <1>1, <1>3, NewPeriodType DEF DraftCurrent, TypeInv
<1>5. ASSUME NEW u \in Tx \ {t}, OnPool(u)'
      PROVE  DraftCurrent(u)'
  BY <1>1, <1>5 DEF DraftsCurrent, DraftCurrent, OnPool
<1> QED
  BY <1>4, <1>5 DEF DraftsCurrent

\* Another period is drafted when the wait outlasted one.
LEMMA DraftsReopen ==
  ASSUME TypeInv, DraftsCurrent, NEW t \in Tx, ReopenPeriod(t)
  PROVE  DraftsCurrent'
<1>1. tx[t] \in ReserveTx /\ OnPool(t)
  BY TxKinds DEF ReopenPeriod, AtLedger, OnPool, TypeInv
<1>2. DraftCurrent(t) /\ Len(ledger) \in Nat
  BY <1>1, LedgerType DEF DraftsCurrent, TypeInv
<1>3. /\ tx[t].opened \in Seq(LedgerRows) /\ Len(tx[t].opened) \in Nat
      /\ NewPeriod \in LedgerRows
  BY <1>1, NewPeriodType, LenProperties DEF ReserveTx, TypeInv
<1> DEFINE o == tx[t].opened
           r == NewPeriod
<1>4. tx'[t].opened = Append(o, r) /\ tx'[t].period = tx[t].period + 1
  BY <1>1 DEF ReopenPeriod, ReserveTx, TypeInv, TypeOK
<1>5. /\ \A u \in Tx \ {t} : tx'[u] = tx[u]
      /\ ledger' = ledger /\ pool' = pool
  BY DEF ReopenPeriod, TypeInv, TypeOK
<1>6. /\ r.budget = pool.budget /\ r.remaining = pool.budget
      /\ r.reserved = 0 /\ r.consumed = 0
  BY NewPeriodType DEF TypeInv
<1>7. /\ tx[t].period = Len(ledger) + Len(o)
      /\ \A i \in 1..Len(o) : /\ o[i].budget = pool.budget
                              /\ o[i].remaining = pool.budget
                              /\ o[i].reserved = 0 /\ o[i].consumed = 0
  BY <1>2 DEF DraftCurrent
<1>8. o \in Seq(LedgerRows) /\ r \in LedgerRows /\ Len(o) \in Nat
  BY <1>3
<1> HIDE DEF o, r
<1>9. /\ Len(Append(o, r)) = Len(o) + 1
      /\ \A i \in 1..Len(o) + 1 :
           Append(o, r)[i] = IF i <= Len(o) THEN o[i] ELSE r
  BY <1>8
<1>10. DraftCurrent(t)'
  <2>1. tx'[t].period = Len(ledger') + Len(tx'[t].opened)
    BY <1>2, <1>4, <1>5, <1>7, <1>8, <1>9
  <2>2. ASSUME NEW i \in 1..Len(o) + 1
        PROVE  /\ Append(o, r)[i].budget = pool.budget
               /\ Append(o, r)[i].remaining = pool.budget
               /\ Append(o, r)[i].reserved = 0 /\ Append(o, r)[i].consumed = 0
    <3>1. CASE i <= Len(o)
      BY <1>7, <1>8, <1>9, <3>1
    <3>2. CASE ~(i <= Len(o))
      BY <1>6, <1>9, <3>2
    <3> QED
      BY <3>1, <3>2
  <2> QED
    BY <1>4, <1>5, <1>9, <2>1, <2>2 DEF DraftCurrent
<1>11. ASSUME NEW u \in Tx \ {t}, OnPool(u)'
       PROVE  DraftCurrent(u)'
  <2>1. tx'[u] = tx[u] /\ ledger' = ledger /\ pool' = pool
    BY <1>5
  <2>2. DraftCurrent(u)
    BY <1>11, <2>1 DEF DraftsCurrent, OnPool
  <2> QED
    BY <2>1, <2>2 DEF DraftCurrent
<1> QED
  BY <1>10, <1>11 DEF DraftsCurrent

\* Drafts stay current, for every step.
LEMMA DraftsNext ==
  ASSUME TypeInv, LockInv, DraftsCurrent, [Next]_vars
  PROVE  DraftsCurrent'
<1>1. ASSUME NEW t \in Tx, ReserveStep(t)
      PROVE  DraftsCurrent'
  <2>1. ASSUME NEW c \in Calls, NEW mode \in Modes, NEW ask \in 1..MaxAsk,
               BeginReserve(t, c, mode, ask)
        PROVE  DraftsCurrent'
    <3> DEFINE w == [kind |-> "reserve", step |-> "ledger", call |-> c,
                     mode |-> mode, ask |-> ask,
                     period |-> Len(ledger) + Len(Opening(ledger)),
                     opened |-> Opening(ledger),
                     retried |-> FALSE, grant |-> 0, at |-> 0]
    <3>1. w.opened = Opening(ledger) /\ w.period = Len(ledger) + Len(w.opened)
      OBVIOUS
    <3>2. tx' = [tx EXCEPT ![t] = w] /\ UNCHANGED <<pool, ledger>>
      BY <2>1 DEF BeginReserve
    <3> HIDE DEF w
    <3> QED
      BY <3>1, <3>2, DraftsBegin
  <2>2. CASE GrantReserve(t)
    <3>1. tx[t] \in ReserveTx /\ OnPool(t)
      BY <2>2, TxKinds DEF GrantReserve, AtLedger, OnPool, TypeInv
    <3>2. /\ tx'[t].period = tx[t].period /\ tx'[t].opened = tx[t].opened
          /\ \A u \in Tx \ {t} : tx'[u] = tx[u]
          /\ ledger' = ledger /\ pool' = pool
      BY <2>2, <3>1 DEF GrantReserve, ReserveTx, TypeInv, TypeOK
    <3>3. \A u \in Tx : OnPool(u)' =>
            OnPool(u) /\ tx'[u].period = tx[u].period /\ tx'[u].opened = tx[u].opened
      BY <3>1, <3>2 DEF OnPool
    <3> QED
      BY <3>2, <3>3, DraftsKept
  <2>3. CASE GiveUpReserve(t) \/ RefuseReserve(t) \/ CommitReserve(t)
    <3>1. OnPool(t) /\ Finish(t)
      BY <2>3 DEF GiveUpReserve, RefuseReserve, CommitReserve, AtLedger, OnPool
    <3> QED
      BY <3>1, DraftsEnd
  <2> QED
    BY <1>1, <2>1, <2>2, <2>3, DraftsReopen DEF ReserveStep
<1>2. ASSUME NEW t \in Tx, SettleStep(t)
      PROVE  DraftsCurrent'
  <2>1. \A u \in Tx : OnPool(u)' => tx'[u] = tx[u]
    <3>1. ASSUME NEW c \in Calls, NEW tally \in Tallies, BeginSettle(t, c, tally)
          PROVE  \A u \in Tx : OnPool(u)' => tx'[u] = tx[u]
      BY <3>1 DEF BeginSettle, OnPool, TypeInv, TypeOK
    <3>2. CASE LockLedgerToSettle(t)
      <4>1. tx[t] \in SettleTx
        BY <3>2, TxKinds DEF LockLedgerToSettle, AtLedger, TypeInv
      <4> QED
        BY <3>2, <4>1 DEF LockLedgerToSettle, SettleTx, OnPool, TypeInv, TypeOK
    <3>3. CASE CommitCharge(t) \/ CommitRelease(t)
      BY <3>3, FinishType DEF CommitCharge, CommitRelease, OnPool
    <3> QED
      BY <1>2, <3>1, <3>2, <3>3 DEF SettleStep
  <2>2. Len(ledger') = Len(ledger) /\ pool' = pool
    BY <1>2 DEF SettleStep, BeginSettle, LockLedgerToSettle, CommitCharge, CommitRelease
  <2> QED
    BY <2>1, <2>2, DraftsKept DEF OnPool
<1>3. ASSUME NEW t \in Tx, BudgetStep(t)
      PROVE  DraftsCurrent'
  <2>1. ASSUME NEW edited \in Editable, BeginBudgetEdit(t, edited)
        PROVE  DraftsCurrent'
    <3> DEFINE w == [kind |-> "budget", step |-> "ledger", pool |-> edited,
                     period |-> Len(ledger) + Len(Opening(ledger)),
                     opened |-> Opening(ledger)]
    <3>1. w.opened = Opening(ledger) /\ w.period = Len(ledger) + Len(w.opened)
      OBVIOUS
    <3>2. tx' = [tx EXCEPT ![t] = w] /\ UNCHANGED <<pool, ledger>>
      BY <2>1 DEF BeginBudgetEdit
    <3> HIDE DEF w
    <3> QED
      BY <3>1, <3>2, DraftsBegin
  <2>2. CASE CommitBudgetEdit(t)
    <3>1. OnPool(t) /\ Finish(t)
      BY <2>2 DEF CommitBudgetEdit, AtLedger, OnPool
    <3> QED
      BY <3>1, DraftsEnd
  <2> QED
    BY <1>3, <2>1, <2>2 DEF BudgetStep
<1>4. ASSUME NEW t \in Tx, Rollback(t)
      PROVE  DraftsCurrent'
  <2>1. \A u \in Tx : OnPool(u)' => tx'[u] = tx[u]
    BY <1>4, FinishType DEF Rollback, OnPool
  <2>2. ledger' = ledger /\ pool' = pool
    BY <1>4 DEF Rollback
  <2> QED
    BY <2>1, <2>2, DraftsKept DEF OnPool
<1>5. CASE RollOver \/ \E edited \in Editable : PatchPool(edited)
  <2>1. \A u \in Tx : ~OnPool(u) /\ tx'[u] = tx[u]
    BY <1>5, PoolFree DEF RollOver, PatchPool, TypeInv
  <2> QED
    BY <2>1 DEF DraftsCurrent, OnPool
<1>6. CASE \/ Tick \/ UNCHANGED vars
           \/ \E c \in Calls, tally \in Tallies : RecordUsage(c, tally)
  <2>1. tx' = tx /\ ledger' = ledger /\ pool' = pool
    BY <1>6 DEF Tick, vars, RecordUsage
  <2> QED
    BY <2>1, DraftsKept DEF OnPool
<1> QED
  BY <1>1, <1>2, <1>3, <1>4, <1>5, <1>6 DEF Next

-----------------------------------------------------------------------------
(* The rows                                                                *)

IInv == TypeOK /\ LedgerInv

-----------------------------------------------------------------------------
(* Ledger rows                                                             *)

\* Rows that are booked, and periods that are opened, add up.
LEMMA BookedAddsUp ==
  ASSUME NEW row \in LedgerRows, NEW b \in Nat, NEW r \in Nat, NEW u \in Nat
  PROVE  AddsUp(Booked(row, b, r, u))
BY DEF Booked, AddsUp

\* A row without reservations or charges adds up.
LEMMA UntouchedAddsUp ==
  ASSUME NEW row, NEW b \in Nat, row.budget = b, row.remaining = b,
         row.reserved = 0, row.consumed = 0
  PROVE  AddsUp(row)
BY DEF AddsUp, AtLeast0

\* The rows a transaction on the pool sees add up and end with the budget.
LEMMA SeenRows ==
  ASSUME TypeInv, DraftsCurrent, RemainingAddsUp, BudgetCurrent,
         NEW t \in Tx, OnPool(t)
  PROVE  /\ \A i \in 1..Len(tx[t].opened) : AddsUp(tx[t].opened[i])
         /\ RowOf(t).budget = pool.budget
         /\ tx[t].period = Len(ledger) + Len(tx[t].opened)
         /\ Len(ledger) \in Nat \ {0} /\ Len(tx[t].opened) \in Nat
<1>1. Len(ledger) \in Nat \ {0} /\ Len(tx[t].opened) \in Nat /\ pool.budget \in Nat
  BY RowOfType, LedgerType, LenProperties DEF TypeInv, TypeOK, Pools
<1>2. DraftCurrent(t)
  BY DEF DraftsCurrent
<1>3. tx[t].period = Len(ledger) + Len(tx[t].opened)
  BY <1>2 DEF DraftCurrent
<1>4. \A i \in 1..Len(tx[t].opened) : AddsUp(tx[t].opened[i])
  BY <1>1, <1>2, UntouchedAddsUp DEF DraftCurrent
<1>5. CASE Len(tx[t].opened) = 0
  <2>1. RowOf(t) = ledger[Len(ledger)]
    BY <1>1, <1>3, <1>5, RowOfType DEF RowOf
  <2> QED
    BY <1>1, <1>3, <1>4, <2>1 DEF BudgetCurrent
<1>6. CASE Len(tx[t].opened) # 0
  <2>1. RowOf(t) = tx[t].opened[Len(tx[t].opened)]
    BY <1>1, <1>3, <1>6, RowOfType DEF RowOf
  <2>2. tx[t].opened[Len(tx[t].opened)].budget = pool.budget
    BY <1>1, <1>2, <1>6 DEF DraftCurrent
  <2> QED
    BY <1>1, <1>3, <1>4, <2>1, <2>2
<1> QED
  BY <1>5, <1>6

\* A transaction on the pool that books a row that adds up on its period.
LEMMA BookedOnPool ==
  ASSUME TypeInv, DraftsCurrent, RemainingAddsUp, BudgetCurrent,
         NEW t \in Tx, OnPool(t), NEW row \in LedgerRows, AddsUp(row),
         ledger' = [ledger \o tx[t].opened EXCEPT ![tx[t].period] = row],
         row.budget = pool'.budget
  PROVE  RemainingAddsUp' /\ BudgetCurrent'
<1>1. /\ Len(ledger') = Len(ledger) + Len(tx[t].opened)
      /\ \A i \in 1..Len(ledger') :
              ledger'[i] = IF i = tx[t].period THEN row
                           ELSE IF i <= Len(ledger) THEN ledger[i]
                           ELSE tx[t].opened[i - Len(ledger)]
  BY BookedLedger
<1>2. /\ \A i \in 1..Len(tx[t].opened) : AddsUp(tx[t].opened[i])
      /\ tx[t].period = Len(ledger) + Len(tx[t].opened)
      /\ Len(ledger) \in Nat \ {0} /\ Len(tx[t].opened) \in Nat
  BY SeenRows
<1>3. ASSUME NEW i \in 1..Len(ledger')
      PROVE  AddsUp(ledger'[i])
  <2>1. CASE i = tx[t].period
    BY <1>1, <2>1
  <2>2. CASE i # tx[t].period /\ i <= Len(ledger)
    BY <1>1, <1>2, <2>2 DEF RemainingAddsUp
  <2>3. CASE i # tx[t].period /\ ~(i <= Len(ledger))
    <3>1. i - Len(ledger) \in 1..Len(tx[t].opened)
      BY <1>1, <1>2, <2>3
    <3> QED
      BY <1>1, <1>2, <2>3, <3>1
  <2> QED
    BY <2>1, <2>2, <2>3
<1>4. RemainingAddsUp'
  BY <1>3 DEF RemainingAddsUp, AddsUp
<1>5. BudgetCurrent'
  BY <1>1, <1>2 DEF BudgetCurrent
<1> QED
  BY <1>4, <1>5

\* A ledger to which untouched rows of the pool's budget are added.
LEMMA Lengthened ==
  ASSUME TypeInv, RemainingAddsUp, BudgetCurrent, NEW o \in Seq(LedgerRows),
         ledger' = ledger \o o, pool' = pool,
         \A i \in 1..Len(o) : o[i].budget = pool.budget /\ AddsUp(o[i])
  PROVE  RemainingAddsUp' /\ BudgetCurrent'
<1>1. /\ ledger \in Seq(LedgerRows) /\ Len(ledger) \in Nat \ {0} /\ Len(o) \in Nat
  BY LedgerType, LenProperties DEF TypeInv
<1>2. /\ Len(ledger') = Len(ledger) + Len(o)
      /\ \A i \in 1..Len(ledger') :
           ledger'[i] = IF i <= Len(ledger) THEN ledger[i] ELSE o[i - Len(ledger)]
  BY <1>1, ConcatProperties
<1>3. ASSUME NEW i \in 1..Len(ledger')
      PROVE  AddsUp(ledger'[i])
  <2>1. CASE i <= Len(ledger)
    BY <1>1, <1>2, <2>1 DEF RemainingAddsUp
  <2>2. CASE ~(i <= Len(ledger))
    <3>1. i - Len(ledger) \in 1..Len(o)
      BY <1>1, <1>2, <2>2
    <3> QED
      BY <1>1, <1>2, <2>2, <3>1
  <2> QED
    BY <2>1, <2>2
<1>4. ledger'[Len(ledger')].budget = pool.budget
  <2>1. CASE Len(o) = 0
    BY <1>1, <1>2, <2>1 DEF BudgetCurrent
  <2>2. CASE Len(o) # 0
    <3>1. /\ Len(ledger') \in 1..Len(ledger') /\ ~(Len(ledger') <= Len(ledger))
          /\ Len(ledger') - Len(ledger) = Len(o) /\ Len(o) \in 1..Len(o)
      BY <1>1, <1>2, <2>2
    <3> QED
      BY <1>2, <3>1
  <2> QED
    BY <2>1, <2>2
<1> QED
  BY <1>3, <1>4 DEF RemainingAddsUp, AddsUp, BudgetCurrent

\* What settling call c of transaction t does to its ledger row, and no other.
LEMMA SettledRow ==
  ASSUME TypeInv, CallsOwned, NEW t \in Tx, CommitCharge(t) \/ CommitRelease(t)
  PROVE  /\ Settles(t) /\ tx[t].step = "commit"
         /\ tx[t].period \in 1..Len(ledger)
         /\ ledger' \in Seq(LedgerRows) /\ Len(ledger') = Len(ledger)
         /\ \A i \in 1..Len(ledger) : i # tx[t].period => ledger'[i] = ledger[i]
         /\ LET row == ledger'[tx[t].period]
                old == ledger[tx[t].period] IN
            /\ AddsUp(row)
            /\ row.budget = old.budget
            /\ row.starts = old.starts /\ row.ends = old.ends
            /\ row.reserved <= old.reserved
<1>1. Settles(t) /\ tx[t] \in SettleTx /\ tx[t].step = "commit"
  BY TxKinds DEF CommitCharge, CommitRelease, AtTerminalEvent, Settles, TypeInv
<1>2. event[tx[t].call].period = tx[t].period
  BY <1>1 DEF CallsOwned
<1>3. ChargeOf(event[tx[t].call].mode, tx[t].tally) \in Nat /\ 0 \in Nat
  BY <1>1, BoundsAssumption DEF ChargeOf, SettleTx, Tallies
<1>4. PICK charge \in Nat :
        ledger' = [ledger EXCEPT ![tx[t].period] = Settling(tx[t].call, charge)]
  BY <1>3 DEF CommitCharge, CommitRelease
<1>5. /\ tx[t].period \in 1..Len(ledger)
      /\ ledger' \in Seq(LedgerRows) /\ Len(ledger') = Len(ledger)
      /\ \A i \in 1..Len(ledger) :
           ledger'[i] = IF i = tx[t].period THEN Settling(tx[t].call, charge)
                                            ELSE ledger[i]
  BY <1>1, <1>2, <1>4, SettledLedger
<1> DEFINE old == ledger[tx[t].period]
           freed == AtLeast0(old.reserved - event[tx[t].call].amount)
<1>6. old \in LedgerRows /\ event[tx[t].call].amount \in Nat
  BY <1>1, <1>5, LedgerType DEF TypeInv, TypeOK, SettleTx, Events
<1>7. /\ old.reserved \in Nat /\ old.consumed + charge \in Nat /\ old.budget \in Nat
  BY <1>6 DEF LedgerRows
<1>8. Settling(tx[t].call, charge) = Booked(old, old.budget, freed, old.consumed + charge)
  BY <1>2 DEF Settling
<1> HIDE DEF old
<1>9. freed \in Nat /\ freed <= old.reserved
  BY <1>6, <1>7 DEF AtLeast0
<1> HIDE DEF freed
<1>10. LET row == Settling(tx[t].call, charge) IN
       /\ AddsUp(row)
       /\ row.budget = old.budget
       /\ row.starts = old.starts /\ row.ends = old.ends
       /\ row.reserved <= old.reserved
  <2> DEFINE used == old.consumed + charge
             row == Booked(old, old.budget, freed, used)
  <2>1. used \in Nat
    BY <1>7
  <2> HIDE DEF used
  <2>2. AddsUp(row)
    BY <1>6, <1>7, <1>9, <2>1, BookedAddsUp
  <2>3. /\ row.budget = old.budget /\ row.reserved = freed
        /\ row.starts = old.starts /\ row.ends = old.ends
    BY DEF Booked
  <2>4. Settling(tx[t].call, charge) = row
    BY <1>8 DEF used
  <2> HIDE DEF row
  <2> QED
    BY <1>9, <2>2, <2>3, <2>4
<1> QED
  BY <1>1, <1>5, <1>10 DEF old

\* What the ledger rows of a transaction on the pool become when it commits.
LEMMA ReservedRow ==
  ASSUME TypeInv, NEW t \in Tx, CommitReserve(t)
  PROVE  /\ OnPool(t) /\ tx[t] \in ReserveTx /\ tx[t].step = "commit"
         /\ RowOf(t) \in LedgerRows
         /\ Reserving(t) \in LedgerRows /\ AddsUp(Reserving(t))
         /\ Reserving(t).budget = RowOf(t).budget
         /\ Reserving(t).consumed = RowOf(t).consumed
         /\ Reserving(t).reserved = RowOf(t).reserved + tx[t].grant
         /\ Reserving(t).starts = RowOf(t).starts
         /\ Reserving(t).ends = RowOf(t).ends
<1>1. OnPool(t) /\ tx[t] \in ReserveTx /\ tx[t].step = "commit"
  BY TxKinds DEF CommitReserve, OnPool, TypeInv
<1>2. RowOf(t) \in LedgerRows
  BY <1>1, RowOfType
<1> DEFINE row == RowOf(t)
           sum == row.reserved + tx[t].grant
<1>3. sum \in Nat /\ row.budget \in Nat /\ row.consumed \in Nat
  BY <1>1, <1>2 DEF LedgerRows, ReserveTx
<1>4. Reserving(t) = Booked(row, row.budget, sum, row.consumed)
  BY DEF Reserving
<1> HIDE DEF row, sum
<1>5. AddsUp(Reserving(t))
  BY <1>2, <1>3, <1>4, BookedAddsUp DEF row
<1>6. Reserving(t) \in LedgerRows
  BY <1>2, <1>3, <1>4, BookedType DEF row
<1>7. /\ Reserving(t).budget = row.budget
      /\ Reserving(t).consumed = row.consumed
      /\ Reserving(t).reserved = sum
      /\ Reserving(t).starts = row.starts /\ Reserving(t).ends = row.ends
  BY <1>4 DEF Booked
<1> QED
  BY <1>1, <1>2, <1>5, <1>6, <1>7 DEF row, sum

\* The row of a budget edit when it commits.
LEMMA RebudgetedRow ==
  ASSUME TypeInv, NEW t \in Tx, CommitBudgetEdit(t)
  PROVE  /\ OnPool(t) /\ RowOf(t) \in LedgerRows
         /\ Rebudgeting(t) \in LedgerRows /\ AddsUp(Rebudgeting(t))
         /\ Rebudgeting(t).budget = tx[t].pool.budget
         /\ Rebudgeting(t).reserved = RowOf(t).reserved
         /\ Rebudgeting(t).starts = RowOf(t).starts
         /\ Rebudgeting(t).ends = RowOf(t).ends
<1>1. OnPool(t) /\ tx[t] \in BudgetTx
  BY TxKinds DEF CommitBudgetEdit, AtLedger, OnPool, TypeInv
<1>2. RowOf(t) \in LedgerRows /\ tx[t].pool.budget \in Nat
  BY <1>1, RowOfType DEF BudgetTx, Pools
<1>3. RowOf(t).reserved \in Nat /\ RowOf(t).consumed \in Nat
  BY <1>2 DEF LedgerRows
<1>4. Rebudgeting(t) \in LedgerRows /\ AddsUp(Rebudgeting(t))
  BY <1>2, <1>3, BookedType, BookedAddsUp DEF Rebudgeting
<1>5. /\ Rebudgeting(t).budget = tx[t].pool.budget
      /\ Rebudgeting(t).reserved = RowOf(t).reserved
      /\ Rebudgeting(t).starts = RowOf(t).starts
      /\ Rebudgeting(t).ends = RowOf(t).ends
  BY DEF Rebudgeting, Booked
<1> QED
  BY <1>1, <1>2, <1>4, <1>5

\* Every step keeps the rows adding up and the open one on the pool's budget.
LEMMA RowsNext ==
  ASSUME TypeInv, LockInv, CallsOwned, DraftsCurrent, RemainingAddsUp,
         BudgetCurrent, [Next]_vars
  PROVE  RemainingAddsUp' /\ BudgetCurrent'
<1>1. CASE ledger' = ledger /\ pool'.budget = pool.budget
  BY <1>1 DEF RemainingAddsUp, AddsUp, BudgetCurrent
<1>2. ASSUME NEW t \in Tx, CommitReserve(t)
      PROVE  RemainingAddsUp' /\ BudgetCurrent'
  <2>1. RowOf(t).budget = pool.budget /\ pool' = pool
    BY <1>2, ReservedRow, SeenRows DEF CommitReserve
  <2> QED
    BY <1>2, <2>1, ReservedRow, BookedOnPool DEF CommitReserve
<1>3. ASSUME NEW t \in Tx, CommitBudgetEdit(t)
      PROVE  RemainingAddsUp' /\ BudgetCurrent'
  BY <1>3, RebudgetedRow, BookedOnPool DEF CommitBudgetEdit
<1>4. ASSUME NEW t \in Tx, RefuseReserve(t)
      PROVE  RemainingAddsUp' /\ BudgetCurrent'
  <2>1. OnPool(t)
    BY <1>4 DEF RefuseReserve, AtLedger, OnPool
  <2>2. \A i \in 1..Len(tx[t].opened) :
          tx[t].opened[i].budget = pool.budget /\ AddsUp(tx[t].opened[i])
    BY <2>1, SeenRows DEF DraftsCurrent, DraftCurrent
  <2> QED
    BY <1>4, <2>1, <2>2, RowOfType, Lengthened DEF RefuseReserve
<1>5. CASE RollOver
  <2>1. /\ NewPeriod \in LedgerRows /\ NewPeriod.budget = pool.budget
        /\ AddsUp(NewPeriod)
    BY NewPeriodType, UntouchedAddsUp DEF TypeInv, TypeOK, Pools
  <2>2. Opening(ledger) = <<NewPeriod>>
    BY <1>5 DEF RollOver, Opening
  <2>3. /\ <<NewPeriod>> \in Seq(LedgerRows)
        /\ \A i \in 1..Len(<<NewPeriod>>) :
             <<NewPeriod>>[i].budget = pool.budget /\ AddsUp(<<NewPeriod>>[i])
    BY <2>1
  <2> QED
    BY <1>5, <2>2, <2>3, Lengthened DEF RollOver
<1>6. ASSUME NEW t \in Tx, CommitCharge(t) \/ CommitRelease(t)
      PROVE  RemainingAddsUp' /\ BudgetCurrent'
  <2>1. /\ Len(ledger') = Len(ledger) /\ pool' = pool /\ Len(ledger) \in Nat \ {0}
    BY <1>6, SettledRow, LedgerType DEF CommitCharge, CommitRelease, TypeInv
  <2>2. \A i \in 1..Len(ledger) : /\ AddsUp(ledger'[i])
                                  /\ ledger'[i].budget = ledger[i].budget
    BY <1>6, SettledRow DEF RemainingAddsUp
  <2> QED
    BY <2>1, <2>2 DEF RemainingAddsUp, AddsUp, BudgetCurrent
<1>7. ASSUME NEW t \in Tx, ReserveStep(t)
      PROVE  RemainingAddsUp' /\ BudgetCurrent'
  BY <1>1, <1>2, <1>4, <1>7
     DEF ReserveStep, BeginReserve, ReopenPeriod, GiveUpReserve, GrantReserve
<1>8. ASSUME NEW t \in Tx, SettleStep(t)
      PROVE  RemainingAddsUp' /\ BudgetCurrent'
  BY <1>1, <1>6, <1>8 DEF SettleStep, BeginSettle, LockLedgerToSettle
<1>9. ASSUME NEW t \in Tx, BudgetStep(t)
      PROVE  RemainingAddsUp' /\ BudgetCurrent'
  BY <1>1, <1>3, <1>9 DEF BudgetStep, BeginBudgetEdit
<1>10. CASE \/ \E t \in Tx : Rollback(t)
            \/ Tick \/ UNCHANGED vars
            \/ \E c \in Calls, tally \in Tallies : RecordUsage(c, tally)
            \/ \E edited \in Editable : PatchPool(edited)
  BY <1>1, <1>10 DEF Rollback, Tick, vars, RecordUsage, PatchPool
<1> QED
  BY <1>5, <1>7, <1>8, <1>9, <1>10 DEF Next
-----------------------------------------------------------------------------
(* Grants                                                                  *)

AboutToGrant(u) == tx[u].kind = "reserve" /\ tx[u].step = "commit"

\* The row a transaction is about to book on stays as it is in the ledger.
LEMMA RowKept ==
  ASSUME TypeInv, NEW u \in Tx, AboutToGrant(u),
         tx'[u] = tx[u], ledger' \in Seq(LedgerRows), Len(ledger') = Len(ledger),
         \A i \in 1..Len(ledger) : i = tx[u].period => ledger'[i] = ledger[i]
  PROVE  RowOf(u)' = RowOf(u)
<1>1. OnPool(u)
  BY DEF AboutToGrant, OnPool
<1>2. /\ tx[u].opened \in Seq(LedgerRows)
      /\ tx[u].period \in 1..Len(ledger) + Len(tx[u].opened)
      /\ ledger \in Seq(LedgerRows)
      /\ Len(ledger) \in Nat /\ Len(tx[u].opened) \in Nat
  BY <1>1, RowOfType, LedgerType, LenProperties DEF TypeInv
<1> DEFINE o == tx[u].opened
           p == tx[u].period
<1>3. RowOf(u) = (ledger \o o)[p] /\ RowOf(u)' = (ledger' \o o)[p]
  BY DEF RowOf
<1>4. o \in Seq(LedgerRows) /\ p \in 1..Len(ledger) + Len(o) /\ Len(o) \in Nat
  BY <1>2
<1>5. \A i \in 1..Len(ledger) : i = p => ledger'[i] = ledger[i]
  OBVIOUS
<1> HIDE DEF o, p
<1>6. /\ (ledger \o o)[p] = IF p <= Len(ledger) THEN ledger[p] ELSE o[p - Len(ledger)]
      /\ (ledger' \o o)[p] = IF p <= Len(ledger) THEN ledger'[p] ELSE o[p - Len(ledger)]
  BY <1>2, <1>4, ConcatProperties
<1> QED
  BY <1>2, <1>3, <1>4, <1>5, <1>6

\* Only GrantReserve prepares a grant.
LEMMA GrantSource ==
  ASSUME TypeInv, [Next]_vars, NEW u \in Tx, AboutToGrant(u)'
  PROVE  GrantReserve(u) \/ tx'[u] = tx[u]
<1>1. ASSUME NEW t \in Tx, ReserveStep(t)
      PROVE  GrantReserve(u) \/ tx'[u] = tx[u]
  <2>1. ASSUME NEW c \in Calls, NEW mode \in Modes, NEW ask \in 1..MaxAsk,
               BeginReserve(t, c, mode, ask)
        PROVE  tx'[u] = tx[u]
    BY <2>1 DEF BeginReserve, AboutToGrant, TypeInv, TypeOK
  <2>2. CASE ReopenPeriod(t)
    <3>1. tx[t] \in ReserveTx /\ tx[t].step = "ledger"
      BY <2>2, TxKinds DEF ReopenPeriod, AtLedger, TypeInv
    <3>2. tx'[t].step = "ledger" /\ \A v \in Tx \ {t} : tx'[v] = tx[v]
      BY <2>2, <3>1 DEF ReopenPeriod, ReserveTx, TypeInv, TypeOK
    <3> QED
      BY <3>2 DEF AboutToGrant
  <2>3. CASE GrantReserve(t)
    BY <2>3 DEF GrantReserve, TypeInv, TypeOK
  <2>4. CASE GiveUpReserve(t) \/ RefuseReserve(t) \/ CommitReserve(t)
    BY <2>4, FinishType DEF GiveUpReserve, RefuseReserve, CommitReserve, AboutToGrant
  <2> QED
    BY <1>1, <2>1, <2>2, <2>3, <2>4 DEF ReserveStep
<1>2. ASSUME NEW t \in Tx, SettleStep(t)
      PROVE  tx'[u] = tx[u]
  <2>1. ASSUME NEW c \in Calls, NEW tally \in Tallies, BeginSettle(t, c, tally)
        PROVE  tx'[u] = tx[u]
    BY <2>1 DEF BeginSettle, AboutToGrant, TypeInv, TypeOK
  <2>2. CASE LockLedgerToSettle(t)
    <3>1. tx[t] \in SettleTx
      BY <2>2, TxKinds DEF LockLedgerToSettle, AtLedger, TypeInv
    <3> QED
      BY <2>2, <3>1 DEF LockLedgerToSettle, SettleTx, AboutToGrant, TypeInv, TypeOK
  <2>3. CASE CommitCharge(t) \/ CommitRelease(t)
    BY <2>3, FinishType DEF CommitCharge, CommitRelease, AboutToGrant
  <2> QED
    BY <1>2, <2>1, <2>2, <2>3 DEF SettleStep
<1>3. ASSUME NEW t \in Tx, BudgetStep(t) \/ Rollback(t)
      PROVE  tx'[u] = tx[u]
  <2>1. ASSUME NEW edited \in Editable, BeginBudgetEdit(t, edited)
        PROVE  tx'[u] = tx[u]
    BY <2>1 DEF BeginBudgetEdit, AboutToGrant, TypeInv, TypeOK
  <2>2. CASE CommitBudgetEdit(t) \/ Rollback(t)
    BY <2>2, FinishType DEF CommitBudgetEdit, Rollback, AboutToGrant
  <2> QED
    BY <1>3, <2>1, <2>2 DEF BudgetStep
<1>4. CASE \/ RollOver \/ Tick \/ UNCHANGED vars
           \/ \E c \in Calls, tally \in Tallies : RecordUsage(c, tally)
           \/ \E edited \in Editable : PatchPool(edited)
  BY <1>4 DEF RollOver, Tick, vars, RecordUsage, PatchPool
<1> QED
  BY <1>1, <1>2, <1>3, <1>4 DEF Next

\* The ledger changes under a transaction on the pool only by settlements.
LEMMA LedgerChange ==
  ASSUME TypeInv, LockInv, [Next]_vars,
         NEW u \in Tx, OnPool(u), tx'[u] = tx[u], ledger' # ledger
  PROVE  \E t \in Tx \ {u} : CommitCharge(t) \/ CommitRelease(t)
<1>1. tx[u].kind # "idle"
  BY DEF OnPool
<1>2. ASSUME NEW t \in Tx,
             CommitReserve(t) \/ RefuseReserve(t) \/ CommitBudgetEdit(t)
      PROVE  FALSE
  <2>1. OnPool(t) /\ Finish(t)
    BY <1>2 DEF CommitReserve, RefuseReserve, CommitBudgetEdit, AtLedger, OnPool
  <2>2. tx'[u] = Idle
    BY <2>1, OnePool, FinishType
  <2> QED
    BY <1>1, <2>2
<1>3. CASE RollOver
  BY <1>3, PoolFree DEF RollOver, TypeInv
<1>4. ASSUME NEW t \in Tx, CommitCharge(t) \/ CommitRelease(t)
      PROVE  t # u
  BY <1>4 DEF CommitCharge, CommitRelease, AtTerminalEvent, OnPool
<1>5. ASSUME NEW t \in Tx, ReserveStep(t) \/ BudgetStep(t) \/ Rollback(t)
      PROVE  FALSE
  BY <1>2, <1>5 DEF ReserveStep, BudgetStep, Rollback, BeginReserve, ReopenPeriod,
     GiveUpReserve, GrantReserve, BeginBudgetEdit
<1>6. ASSUME NEW t \in Tx, SettleStep(t)
      PROVE  CommitCharge(t) \/ CommitRelease(t)
  BY <1>6 DEF SettleStep, BeginSettle, LockLedgerToSettle
<1> QED
  BY <1>3, <1>4, <1>5, <1>6 DEF Next, Tick, vars, RecordUsage, PatchPool

\* Nobody else writes the row a transaction is about to book on.
LEMMA AwaitedRow ==
  ASSUME TypeInv, LockInv, CallsOwned, [Next]_vars,
         NEW u \in Tx, AboutToGrant(u), tx'[u] = tx[u]
  PROVE  RowOf(u)' = RowOf(u)
<1>1. CASE ledger' = ledger
  BY <1>1 DEF RowOf
<1>2. CASE ledger' # ledger
  <2>1. OnPool(u)
    BY DEF AboutToGrant, OnPool
  <2>2. PICK t \in Tx \ {u} : CommitCharge(t) \/ CommitRelease(t)
    BY <1>2, <2>1, LedgerChange
  <2>3. tx[u].period # tx[t].period
    BY <2>2, SettledRow, OneWriter DEF AboutToGrant
  <2>4. /\ ledger' \in Seq(LedgerRows) /\ Len(ledger') = Len(ledger)
        /\ \A i \in 1..Len(ledger) : i # tx[t].period => ledger'[i] = ledger[i]
    BY <2>2, SettledRow
  <2> QED
    BY <2>3, <2>4, RowKept
<1> QED
  BY <1>1, <1>2

\* Grants stay covered until they are committed.
LEMMA GrantsNext ==
  ASSUME TypeInv, LockInv, CallsOwned, GrantsCovered, [Next]_vars
  PROVE  GrantsCovered'
<1> SUFFICES ASSUME NEW u \in Tx, AboutToGrant(u)'
             PROVE  GrantCovered(u)'
  BY DEF GrantsCovered, AboutToGrant
<1>1. CASE GrantReserve(u)
  <2>1. tx[u] \in ReserveTx /\ OnPool(u)
    BY <1>1, TxKinds DEF GrantReserve, AtLedger, OnPool, TypeInv
  <2>2. /\ tx'[u].grant = GrantFor(u) /\ tx'[u].opened = tx[u].opened
        /\ tx'[u].period = tx[u].period /\ ledger' = ledger
    BY <1>1, <2>1 DEF GrantReserve, ReserveTx, TypeInv, TypeOK
  <2>3. RowOf(u)' = RowOf(u)
    BY <2>2 DEF RowOf
  <2>4. tx[u].ask \in Nat /\ RowOf(u).remaining \in Nat
    BY <2>1, RowOfType DEF ReserveTx, LedgerRows
  <2>5. GrantFor(u) > 0 /\ GrantFor(u) <= RowOf(u).remaining
    BY <1>1, <2>4 DEF GrantReserve, Worthwhile, GrantFor, Least
  <2> QED
    BY <2>2, <2>3, <2>5 DEF GrantCovered
<1>2. CASE tx'[u] = tx[u]
  <2>1. AboutToGrant(u) /\ GrantCovered(u)
    BY <1>2 DEF GrantsCovered, AboutToGrant
  <2> QED
    BY <1>2, <2>1, AwaitedRow DEF GrantCovered
<1> QED
  BY <1>1, <1>2, GrantSource
-----------------------------------------------------------------------------
(* The invariant and what follows from it                                  *)

\* The pool starts with one untouched period and no transactions.
LEMMA InitInv == Init => IInv
<1> SUFFICES ASSUME Init
             PROVE  IInv
  OBVIOUS
<1>1. /\ now = 0 /\ now \in Time /\ pool \in Pools
      /\ pool.type \in PeriodTypes /\ pool.budget \in Nat
  <2>1. now = 0 /\ pool \in Editable
    BY DEF Init
  <2>2. pool \in Pools
    BY <2>1, BudgetsAssumption DEF Editable, Pools
  <2> QED
    BY <2>1, <2>2, BoundsAssumption DEF Pools
<1>2. NewPeriod \in LedgerRows
  BY <1>1, PeriodAssumption DEF NewPeriod, LedgerRows
<1>3. /\ ledger = <<NewPeriod>> /\ ledger \in Seq(LedgerRows)
      /\ Len(ledger) = 1 /\ ledger # <<>> /\ ledger[1] = NewPeriod
  BY <1>2 DEF Init
<1>4. /\ NewPeriod.budget = pool.budget /\ NewPeriod.remaining = pool.budget
      /\ NewPeriod.reserved = 0 /\ NewPeriod.consumed = 0
  BY DEF NewPeriod
<1>5. /\ \A t \in Tx : tx[t] = Idle /\ tx[t].kind = "idle" /\ tx[t].step = "none"
      /\ \A t \in Tx : held[t] = {}
      /\ \A c \in Calls : event[c] = NoEvent /\ event[c].state = "none"
  BY DEF Init
<1>6. TypeOK
  <2>1. NoEvent \in Events
    BY BoundsAssumption DEF Events, Tallies
  <2> QED
    BY <1>1, <1>3, <2>1 DEF Init, TypeOK
<1>7. LocksHeld /\ LocksExclude /\ LocksTaken
  BY <1>5 DEF LocksHeld, LocksExclude, LocksTaken, HoldsItsLocks, TakesOnly,
              OnPool, Settles
<1>8. PeriodsExist /\ DraftsCurrent /\ CallsOwned /\ GrantsCovered
  BY <1>5 DEF PeriodsExist, DraftsCurrent, CallsOwned, GrantsCovered, OnPool, Settles
<1>9. RemainingAddsUp /\ BudgetCurrent
  BY <1>1, <1>3, <1>4, UntouchedAddsUp DEF RemainingAddsUp, BudgetCurrent
<1> QED
  BY <1>6, <1>7, <1>8, <1>9 DEF IInv, LedgerInv

\* Every step keeps the invariant.
LEMMA NextInv == IInv /\ [Next]_vars => IInv'
<1> SUFFICES ASSUME IInv, [Next]_vars
             PROVE  IInv'
  OBVIOUS
<1>1. /\ TypeInv /\ LockInv /\ CallsOwned /\ DraftsCurrent /\ GrantsCovered
      /\ RemainingAddsUp /\ BudgetCurrent
  BY DEF IInv, LedgerInv, TypeInv, LockInv
<1>2. TypeInv' /\ LockInv'
  BY <1>1, TypeNext, LocksNext
<1>3. CallsOwned' /\ DraftsCurrent' /\ GrantsCovered'
  BY <1>1, OwnedNext, DraftsNext, GrantsNext
<1>4. RemainingAddsUp' /\ BudgetCurrent'
  BY <1>1, RowsNext
<1> QED
  BY <1>2, <1>3, <1>4 DEF IInv, LedgerInv, TypeInv, LockInv

\* Every reachable state has the types and the inductive invariant.
THEOREM Invariant == Spec => []IInv
BY InitInv, NextInv, PTL DEF Spec

\* Every row, event, transaction and lock is of its type: amounts never go
\* below zero, and every period that is named exists.
THEOREM TypeCorrect == Spec => []TypeOK
<1>1. IInv => TypeOK
  BY DEF IInv
<1> QED
  BY <1>1, Invariant, PTL

\* Reservations are always made on a period with the pool's present budget.
THEOREM BudgetStaysCurrent == Spec => []BudgetCurrent
<1>1. IInv => BudgetCurrent
  BY DEF IInv, LedgerInv
<1> QED
  BY <1>1, Invariant, PTL

\* A transaction about to settle can always take its last lock.
LEMMA NobodyBlocksTerminalEvent ==
  ASSUME IInv, NEW t \in Tx, NEW u \in Tx
  PROVE  ~Blocks(held, u, PoolRow, "key share")
<1> SUFFICES ASSUME NEW l \in held[u], l.row = PoolRow
             PROVE  ~Conflicts(l.mode, "key share")
  BY DEF Blocks
<1>1. \/ l.row = PoolRow /\ l.mode = PoolLockMode
      \/ l.row = EventRow(tx[u].call)
      \/ l.row[1] = "ledger"
  BY DEF IInv, LedgerInv, LocksTaken, TakesOnly
<1>2. PoolRow # EventRow(tx[u].call) /\ PoolRow[1] # "ledger"
  BY DEF PoolRow, EventRow
<1> QED
  BY <1>1, <1>2, ConflictTable

\* A ledger row is locked by those about to commit or working on the pool.
LEMMA LedgerBlockers ==
  ASSUME IInv, NEW u \in Tx, NEW p, Blocks(held, u, LedgerRow(p), "update")
  PROVE  tx[u].step = "commit" \/ OnPool(u)
<1>1. PICK l \in held[u] : l.row = LedgerRow(p)
  BY DEF Blocks
<1>2. \/ l.row = PoolRow
      \/ l.row = EventRow(tx[u].call)
      \/ tx[u].step = "commit" \/ OnPool(u)
  BY DEF IInv, LedgerInv, LocksTaken, TakesOnly
<1>3. LedgerRow(p) # PoolRow /\ LedgerRow(p) # EventRow(tx[u].call)
  BY DEF LedgerRow, PoolRow, EventRow
<1> QED
  BY <1>1, <1>2, <1>3

\* A transaction that is about to commit waits for nobody.
LEMMA CommitWaitsForNobody ==
  ASSUME IInv, NEW t \in Tx, NEW u \in Tx, tx[t].step # "ledger"
  PROVE  ~WaitsFor(t, u)
BY NobodyBlocksTerminalEvent DEF WaitsFor, Wants

\* Others wait for those about to commit or, unless they are on the pool
\* themselves, for the one that is.
LEMMA WaitersWait ==
  ASSUME IInv, NEW t \in Tx, NEW u \in Tx, WaitsFor(t, u)
  PROVE  tx[u].step = "commit" \/ (OnPool(u) /\ ~OnPool(t))
<1>1. LockInv /\ t # u
  BY DEF IInv, LedgerInv, LockInv, WaitsFor
<1>2. tx[u].step = "commit" \/ OnPool(u)
  BY NobodyBlocksTerminalEvent, LedgerBlockers DEF WaitsFor
<1> QED
  BY <1>1, <1>2, OnePool

\* The transactions of a pool never deadlock: among any of them, one waits for
\* none of the others.
THEOREM NoDeadlock == Spec => []NoLockCycle
<1>1. IInv => NoLockCycle
  <2> SUFFICES ASSUME IInv, NEW S \in SUBSET Tx, S # {}
               PROVE  \E t \in S : \A u \in S : ~WaitsFor(t, u)
    BY DEF NoLockCycle
  <2>1. CASE \E t \in S : tx[t].step = "commit"
    <3>1. PICK t \in S : tx[t].step = "commit"
      BY <2>1
    <3> QED
      BY <3>1, CommitWaitsForNobody
  <2>2. CASE /\ \A t \in S : tx[t].step # "commit"
             /\ \E t \in S : OnPool(t)
    BY <2>2, WaitersWait
  <2>3. CASE \A t \in S : tx[t].step # "commit" /\ ~OnPool(t)
    BY <2>3, WaitersWait
  <2> QED
    BY <2>1, <2>2, <2>3
<1> QED
  BY <1>1, Invariant, PTL

-----------------------------------------------------------------------------
(* Stamps                                                                  *)

\* No period, in the ledger or about to be added to it, starts in the future.
RowsStarted == \A p \in 1..Len(ledger) : ledger[p].starts <= now

DraftStarted(t) == \A i \in 1..Len(tx[t].opened) : tx[t].opened[i].starts <= now
DraftsStarted == \A t \in Tx : OnPool(t) => DraftStarted(t)

\* A grant was stamped inside the period it is about to be booked on.
GrantTimely(t) == RowOf(t).starts <= tx[t].at /\ tx[t].at < RowOf(t).ends
GrantsTimely == \A t \in Tx : AboutToGrant(t) => GrantTimely(t)

StampInv == RowsStarted /\ DraftsStarted /\ GrantsTimely /\ StampInPeriod

\* The ledger grows, and the periods in it keep their bounds.
PeriodsKept ==
  /\ Len(ledger') >= Len(ledger)
  /\ \A p \in 1..Len(ledger) : /\ ledger'[p].starts = ledger[p].starts
                               /\ ledger'[p].ends = ledger[p].ends

\* A period opened now has started.
LEMMA NewStarted ==
  ASSUME TypeOK
  PROVE  /\ NewPeriod \in LedgerRows /\ NewPeriod.starts <= now
         /\ now \in Nat
<1>1. pool.type \in PeriodTypes /\ now \in Time
  BY DEF TypeOK, Pools
<1>2. PeriodStart[pool.type][now] <= now
  BY <1>1, PeriodAssumption
<1> QED
  BY <1>1, <1>2, NewPeriodType, BoundsAssumption DEF NewPeriod

\* The clock never goes back.
LEMMA ClockGoesOn ==
  ASSUME TypeOK, [Next]_vars
  PROVE  now' \in Nat /\ now \in Nat /\ now <= now'
<1>1. now \in Nat
  BY BoundsAssumption DEF TypeOK
<1>2. now' = now \/ now' = now + 1
  BY DEF Next, vars, ReserveStep, SettleStep, BudgetStep, Rollback, RollOver,
     RecordUsage, PatchPool, Tick, BeginReserve, ReopenPeriod, GiveUpReserve,
     RefuseReserve, GrantReserve, CommitReserve, BeginSettle, LockLedgerToSettle,
     CommitCharge, CommitRelease, BeginBudgetEdit, CommitBudgetEdit
<1> QED
  BY <1>1, <1>2

\* A transaction on the pool that books a row of its period's bounds.
LEMMA BookedStarted ==
  ASSUME TypeInv, RowsStarted, DraftsStarted, NEW t \in Tx, OnPool(t),
         NEW row \in LedgerRows,
         row.starts = RowOf(t).starts, row.ends = RowOf(t).ends,
         ledger' = [ledger \o tx[t].opened EXCEPT ![tx[t].period] = row]
  PROVE  /\ PeriodsKept
         /\ \A p \in 1..Len(ledger') : ledger'[p].starts <= now
<1>1. /\ Len(ledger') = Len(ledger) + Len(tx[t].opened)
      /\ Len(ledger') >= Len(ledger)
      /\ \A i \in 1..Len(ledger') :
              ledger'[i] = IF i = tx[t].period THEN row
                           ELSE IF i <= Len(ledger) THEN ledger[i]
                           ELSE tx[t].opened[i - Len(ledger)]
  BY BookedLedger
<1>2. /\ Len(ledger) \in Nat /\ Len(tx[t].opened) \in Nat
      /\ \A i \in 1..Len(ledger) + Len(tx[t].opened) :
           (ledger \o tx[t].opened)[i] =
              IF i <= Len(ledger) THEN ledger[i]
                                  ELSE tx[t].opened[i - Len(ledger)]
  BY RowOfType, LedgerType, LenProperties DEF TypeInv
<1> DEFINE seen == ledger \o tx[t].opened
<1>3. ASSUME NEW i \in 1..Len(ledger')
      PROVE  seen[i].starts <= now
  <2>1. CASE i <= Len(ledger)
    BY <1>1, <1>2, <1>3, <2>1 DEF RowsStarted
  <2>2. CASE ~(i <= Len(ledger))
    <3>1. i - Len(ledger) \in 1..Len(tx[t].opened)
      BY <1>1, <1>2, <1>3, <2>2
    <3> QED
      BY <1>1, <1>2, <2>2, <3>1 DEF DraftsStarted, DraftStarted
  <2> QED
    BY <2>1, <2>2
<1>4. ASSUME NEW i \in 1..Len(ledger')
      PROVE  ledger'[i].starts = seen[i].starts /\ ledger'[i].ends = seen[i].ends
  <2>1. seen[i] = IF i <= Len(ledger) THEN ledger[i]
                                      ELSE tx[t].opened[i - Len(ledger)]
    BY <1>1, <1>2
  <2>2. RowOf(t) = seen[tx[t].period]
    BY DEF RowOf
  <2> HIDE DEF seen
  <2> QED
    BY <1>1, <2>1, <2>2
<1>5. ASSUME NEW i \in 1..Len(ledger)
      PROVE  i \in 1..Len(ledger') /\ seen[i] = ledger[i]
  BY <1>1, <1>2
<1> HIDE DEF seen
<1> QED
  BY <1>1, <1>3, <1>4, <1>5 DEF PeriodsKept

\* A ledger to which periods are added that have started.
LEMMA LengthenedStarted ==
  ASSUME TypeInv, RowsStarted, NEW o \in Seq(LedgerRows), ledger' = ledger \o o,
         \A i \in 1..Len(o) : o[i].starts <= now
  PROVE  /\ PeriodsKept
         /\ \A p \in 1..Len(ledger') : ledger'[p].starts <= now
<1>1. /\ ledger \in Seq(LedgerRows) /\ Len(ledger) \in Nat /\ Len(o) \in Nat
  BY LedgerType, LenProperties DEF TypeInv
<1>2. /\ Len(ledger') = Len(ledger) + Len(o)
      /\ \A i \in 1..Len(ledger') :
           ledger'[i] = IF i <= Len(ledger) THEN ledger[i] ELSE o[i - Len(ledger)]
  BY <1>1, ConcatProperties
<1>3. ASSUME NEW i \in 1..Len(ledger'), ~(i <= Len(ledger))
      PROVE  ledger'[i].starts <= now
  <2>1. i - Len(ledger) \in 1..Len(o)
    BY <1>1, <1>2, <1>3
  <2> QED
    BY <1>2, <1>3, <2>1
<1>4. ASSUME NEW i \in 1..Len(ledger)
      PROVE  i \in 1..Len(ledger') /\ ledger'[i] = ledger[i]
  BY <1>1, <1>2
<1>5. \A i \in 1..Len(ledger') : i <= Len(ledger) => i \in 1..Len(ledger)
  BY <1>1
<1> QED
  BY <1>1, <1>2, <1>3, <1>4, <1>5 DEF PeriodsKept, RowsStarted

\* Every step keeps the bounds of the periods, and adds none of the future.
LEMMA PeriodsNext ==
  ASSUME TypeInv, CallsOwned, RowsStarted, DraftsStarted, [Next]_vars
  PROVE  /\ PeriodsKept
         /\ \A p \in 1..Len(ledger') : ledger'[p].starts <= now
<1> DEFINE Goal == /\ PeriodsKept
                   /\ \A p \in 1..Len(ledger') : ledger'[p].starts <= now
<1>0. Len(ledger) \in Nat
  BY LedgerType DEF TypeInv
<1>1. CASE ledger' = ledger
  BY <1>0, <1>1 DEF PeriodsKept, RowsStarted
<1>2. ASSUME NEW t \in Tx, CommitReserve(t)
      PROVE  Goal
  BY <1>2, ReservedRow, BookedStarted DEF CommitReserve
<1>3. ASSUME NEW t \in Tx, CommitBudgetEdit(t)
      PROVE  Goal
  BY <1>3, RebudgetedRow, BookedStarted DEF CommitBudgetEdit
<1>4. ASSUME NEW t \in Tx, RefuseReserve(t)
      PROVE  Goal
  <2>1. OnPool(t)
    BY <1>4 DEF RefuseReserve, AtLedger, OnPool
  <2>2. \A i \in 1..Len(tx[t].opened) : tx[t].opened[i].starts <= now
    BY <2>1 DEF DraftsStarted, DraftStarted
  <2> QED
    BY <1>4, <2>1, <2>2, RowOfType, LengthenedStarted DEF RefuseReserve
<1>5. CASE RollOver
  <2>1. NewPeriod \in LedgerRows /\ NewPeriod.starts <= now
    BY NewStarted DEF TypeInv
  <2>2. Opening(ledger) = <<NewPeriod>>
    BY <1>5 DEF RollOver, Opening
  <2>3. /\ <<NewPeriod>> \in Seq(LedgerRows)
        /\ \A i \in 1..Len(<<NewPeriod>>) : <<NewPeriod>>[i].starts <= now
    BY <2>1
  <2> QED
    BY <1>5, <2>2, <2>3, LengthenedStarted DEF RollOver
<1>6. ASSUME NEW t \in Tx, CommitCharge(t) \/ CommitRelease(t)
      PROVE  Goal
  <2>1. Len(ledger') = Len(ledger)
    BY <1>6, SettledRow
  <2>2. \A i \in 1..Len(ledger) : /\ ledger'[i].starts = ledger[i].starts
                                  /\ ledger'[i].ends = ledger[i].ends
    BY <1>6, SettledRow
  <2> QED
    BY <1>0, <2>1, <2>2 DEF PeriodsKept, RowsStarted
<1>7. ASSUME NEW t \in Tx, ReserveStep(t)
      PROVE  Goal
  BY <1>1, <1>2, <1>4, <1>7
     DEF ReserveStep, BeginReserve, ReopenPeriod, GiveUpReserve, GrantReserve
<1>8. ASSUME NEW t \in Tx, SettleStep(t) \/ BudgetStep(t) \/ Rollback(t)
      PROVE  Goal
  BY <1>1, <1>3, <1>6, <1>8
     DEF SettleStep, BeginSettle, LockLedgerToSettle, BudgetStep, BeginBudgetEdit,
         Rollback
<1>9. CASE \/ Tick \/ UNCHANGED vars
           \/ \E c \in Calls, tally \in Tallies : RecordUsage(c, tally)
           \/ \E edited \in Editable : PatchPool(edited)
  BY <1>1, <1>9 DEF Tick, vars, RecordUsage, PatchPool
<1> QED
  BY <1>5, <1>7, <1>8, <1>9 DEF Next
\* Where the periods a transaction opened come from.
LEMMA DraftSource ==
  ASSUME TypeInv, [Next]_vars, NEW u \in Tx, OnPool(u)'
  PROVE  \/ OnPool(u) /\ tx'[u].opened = tx[u].opened
         \/ OnPool(u) /\ tx'[u].opened = Append(tx[u].opened, NewPeriod)
         \/ tx'[u].opened = Opening(ledger)
<1> DEFINE Goal == \/ OnPool(u) /\ tx'[u].opened = tx[u].opened
                   \/ OnPool(u) /\ tx'[u].opened = Append(tx[u].opened, NewPeriod)
                   \/ tx'[u].opened = Opening(ledger)
<1>1. CASE tx'[u] = tx[u]
  BY <1>1 DEF OnPool
<1>2. ASSUME NEW t \in Tx, Finish(t)
      PROVE  Goal
  <2>1. tx'[u] = Idle \/ tx'[u] = tx[u]
    BY <1>2, FinishType
  <2> QED
    BY <1>1, <2>1 DEF OnPool
<1>3. ASSUME NEW t \in Tx, ReserveStep(t)
      PROVE  Goal
  <2>1. ASSUME NEW c \in Calls, NEW mode \in Modes, NEW ask \in 1..MaxAsk,
               BeginReserve(t, c, mode, ask)
        PROVE  Goal
    BY <1>1, <2>1 DEF BeginReserve, TypeInv, TypeOK
  <2>2. CASE ReopenPeriod(t) \/ GrantReserve(t)
    <3>1. tx[t] \in ReserveTx /\ OnPool(t)
      BY <2>2, TxKinds DEF ReopenPeriod, GrantReserve, AtLedger, OnPool, TypeInv
    <3>2. /\ u # t => tx'[u] = tx[u]
          /\ \/ tx'[t].opened = tx[t].opened
             \/ tx'[t].opened = Append(tx[t].opened, NewPeriod)
      BY <2>2, <3>1 DEF ReopenPeriod, GrantReserve, ReserveTx, TypeInv, TypeOK
    <3> QED
      BY <1>1, <3>1, <3>2
  <2>3. CASE GiveUpReserve(t) \/ RefuseReserve(t) \/ CommitReserve(t)
    BY <1>2, <2>3 DEF GiveUpReserve, RefuseReserve, CommitReserve
  <2> QED
    BY <1>3, <2>1, <2>2, <2>3 DEF ReserveStep
<1>4. ASSUME NEW t \in Tx, SettleStep(t)
      PROVE  Goal
  <2>1. ASSUME NEW c \in Calls, NEW tally \in Tallies, BeginSettle(t, c, tally)
        PROVE  Goal
    BY <1>1, <2>1 DEF BeginSettle, OnPool, TypeInv, TypeOK
  <2>2. CASE LockLedgerToSettle(t)
    <3>1. tx[t] \in SettleTx
      BY <2>2, TxKinds DEF LockLedgerToSettle, AtLedger, TypeInv
    <3> QED
      BY <1>1, <2>2, <3>1 DEF LockLedgerToSettle, SettleTx, OnPool, TypeInv, TypeOK
  <2>3. CASE CommitCharge(t) \/ CommitRelease(t)
    BY <1>2, <2>3 DEF CommitCharge, CommitRelease
  <2> QED
    BY <1>4, <2>1, <2>2, <2>3 DEF SettleStep
<1>5. ASSUME NEW t \in Tx, BudgetStep(t) \/ Rollback(t)
      PROVE  Goal
  <2>1. ASSUME NEW edited \in Editable, BeginBudgetEdit(t, edited)
        PROVE  Goal
    BY <1>1, <2>1 DEF BeginBudgetEdit, TypeInv, TypeOK
  <2> QED
    BY <1>2, <1>5, <2>1 DEF BudgetStep, CommitBudgetEdit, Rollback
<1>6. CASE \/ RollOver \/ Tick \/ UNCHANGED vars
           \/ \E c \in Calls, tally \in Tallies : RecordUsage(c, tally)
           \/ \E edited \in Editable : PatchPool(edited)
  BY <1>1, <1>6 DEF RollOver, Tick, vars, RecordUsage, PatchPool
<1> QED
  BY <1>3, <1>4, <1>5, <1>6 DEF Next

\* Periods are opened for the present, which does not become the future.
LEMMA DraftsStartedNext ==
  ASSUME TypeInv, DraftsStarted, [Next]_vars
  PROVE  DraftsStarted'
<1> SUFFICES ASSUME NEW u \in Tx, OnPool(u)'
             PROVE  DraftStarted(u)'
  BY DEF DraftsStarted, OnPool
<1>1. /\ now' \in Nat /\ now \in Nat /\ now <= now'
      /\ NewPeriod \in LedgerRows /\ NewPeriod.starts <= now
  BY ClockGoesOn, NewStarted DEF TypeInv
<1>2. ASSUME OnPool(u)
      PROVE  /\ tx[u].opened \in Seq(LedgerRows) /\ Len(tx[u].opened) \in Nat
             /\ \A i \in 1..Len(tx[u].opened) :
                  tx[u].opened[i].starts \in Nat /\ tx[u].opened[i].starts <= now
  <2>1. tx[u].opened \in Seq(LedgerRows) /\ Len(tx[u].opened) \in Nat
    BY <1>2, RowOfType, LenProperties
  <2>2. \A i \in 1..Len(tx[u].opened) : tx[u].opened[i] \in LedgerRows
    BY <2>1, ElementOfSeq
  <2> QED
    BY <1>2, <2>1, <2>2 DEF DraftsStarted, DraftStarted, LedgerRows
<1>3. NewPeriod.starts \in Nat
  BY <1>1 DEF LedgerRows
<1>4. CASE OnPool(u) /\ tx'[u].opened = tx[u].opened
  BY <1>1, <1>2, <1>4 DEF DraftStarted
<1>5. CASE OnPool(u) /\ tx'[u].opened = Append(tx[u].opened, NewPeriod)
  <2> DEFINE o == tx[u].opened
             r == NewPeriod
  <2>1. o \in Seq(LedgerRows) /\ Len(o) \in Nat /\ r \in LedgerRows
    BY <1>1, <1>2, <1>5
  <2>2. \A i \in 1..Len(o) : o[i].starts \in Nat /\ o[i].starts <= now
    BY <1>2, <1>5
  <2>3. r.starts \in Nat /\ r.starts <= now
    BY <1>1, <1>3
  <2>4. tx'[u].opened = Append(o, r)
    BY <1>5
  <2> HIDE DEF o, r
  <2>5. /\ Len(Append(o, r)) = Len(o) + 1
        /\ \A i \in 1..Len(o) + 1 :
             Append(o, r)[i] = IF i <= Len(o) THEN o[i] ELSE r
    BY <2>1
  <2>6. ASSUME NEW i \in 1..Len(o) + 1
        PROVE  Append(o, r)[i].starts <= now'
    <3>1. CASE i <= Len(o)
      BY <1>1, <2>1, <2>2, <2>5, <3>1
    <3>2. CASE ~(i <= Len(o))
      BY <1>1, <2>3, <2>5, <3>2
    <3> QED
      BY <3>1, <3>2
  <2> QED
    BY <2>4, <2>5, <2>6 DEF DraftStarted
<1>6. CASE tx'[u].opened = Opening(ledger)
  <2>1. CASE Opening(ledger) = <<>>
    BY <1>6, <2>1 DEF DraftStarted
  <2>2. CASE Opening(ledger) = <<NewPeriod>>
    <3> DEFINE r == NewPeriod
    <3>1. tx'[u].opened = <<r>> /\ r.starts <= now'
      BY <1>1, <1>3, <1>6, <2>2
    <3> HIDE DEF r
    <3>2. \A i \in 1..Len(<<r>>) : <<r>>[i] = r
      OBVIOUS
    <3> QED
      BY <3>1, <3>2 DEF DraftStarted
  <2> QED
    BY <2>1, <2>2 DEF Opening
<1> QED
  BY <1>4, <1>5, <1>6, DraftSource

\* A grant is stamped before its period ends, and that period has started.
LEMMA GrantsTimelyNext ==
  ASSUME TypeInv, LockInv, CallsOwned, RowsStarted, DraftsStarted, GrantsTimely,
         [Next]_vars
  PROVE  GrantsTimely'
<1> SUFFICES ASSUME NEW u \in Tx, AboutToGrant(u)'
             PROVE  GrantTimely(u)'
  BY DEF GrantsTimely, AboutToGrant
<1>1. CASE GrantReserve(u)
  <2>1. tx[u] \in ReserveTx /\ OnPool(u)
    BY <1>1, TxKinds DEF GrantReserve, AtLedger, OnPool, TypeInv
  <2>2. /\ tx'[u].at = now /\ tx'[u].opened = tx[u].opened
        /\ tx'[u].period = tx[u].period /\ ledger' = ledger
    BY <1>1, <2>1 DEF GrantReserve, ReserveTx, TypeInv, TypeOK
  <2>3. RowOf(u)' = RowOf(u)
    BY <2>2 DEF RowOf
  <2>4. now < RowOf(u).ends
    <3>1. RowOf(u).ends \in Nat /\ now \in Nat
      BY <2>1, RowOfType, NewStarted DEF LedgerRows, TypeInv
    <3> QED
      BY <1>1, <3>1 DEF GrantReserve, Ended
  <2>5. RowOf(u).starts <= now
    <3>1. /\ Len(ledger) \in Nat /\ Len(tx[u].opened) \in Nat
          /\ tx[u].period \in 1..Len(ledger) + Len(tx[u].opened)
          /\ RowOf(u) = IF tx[u].period <= Len(ledger) THEN ledger[tx[u].period]
                        ELSE tx[u].opened[tx[u].period - Len(ledger)]
      BY <2>1, RowOfType, LedgerType, LenProperties DEF RowOf, TypeInv
    <3>2. \/ tx[u].period \in 1..Len(ledger) /\ tx[u].period <= Len(ledger)
          \/ /\ ~(tx[u].period <= Len(ledger))
             /\ tx[u].period - Len(ledger) \in 1..Len(tx[u].opened)
      BY <3>1
    <3> QED
      BY <2>1, <3>1, <3>2 DEF RowsStarted, DraftsStarted, DraftStarted
  <2> QED
    BY <2>2, <2>3, <2>4, <2>5 DEF GrantTimely
<1>2. CASE tx'[u] = tx[u]
  <2>1. AboutToGrant(u) /\ GrantTimely(u)
    BY <1>2 DEF GrantsTimely, AboutToGrant
  <2> QED
    BY <1>2, <2>1, AwaitedRow DEF GrantTimely
<1> QED
  BY <1>1, <1>2, GrantSource

\* Only a reservation that commits sets the period and the stamp of a call.
LEMMA StampSource ==
  ASSUME TypeInv, LockInv, CallsOwned, [Next]_vars,
         NEW c \in Calls, event'[c].state # "none"
  PROVE  \/ /\ event[c].state # "none"
            /\ event'[c].period = event[c].period /\ event'[c].at = event[c].at
         \/ \E t \in Tx : CommitReserve(t) /\ tx[t].call = c
<1> DEFINE Kept == /\ event[c].state # "none"
                   /\ event'[c].period = event[c].period
                   /\ event'[c].at = event[c].at
<1>1. CASE event'[c] = event[c]
  BY <1>1
<1>2. ASSUME NEW t \in Tx, CommitCharge(t) \/ CommitRelease(t)
      PROVE  Kept
  <2>1. CASE tx[t].call = c
    <3>1. event[c].state = "reserved"
      BY <1>2, <2>1 DEF CommitCharge, CommitRelease, AtTerminalEvent, CallsOwned, Settles
    <3>2. event[c] \in Events /\ event \in [Calls -> Events]
      BY DEF TypeInv, TypeOK
    <3>3. event'[c].period = event[c].period /\ event'[c].at = event[c].at
      BY <1>2, <2>1, <3>2 DEF CommitCharge, CommitRelease, Events
    <3> QED
      BY <3>1, <3>3
  <2>2. CASE tx[t].call # c
    BY <1>1, <1>2, <2>2, OwnedCommit
  <2> QED
    BY <2>1, <2>2
<1>3. ASSUME NEW t \in Tx, CommitReserve(t)
      PROVE  Kept \/ \E u \in Tx : CommitReserve(u) /\ tx[u].call = c
  BY <1>1, <1>3, OwnedCommit
<1>4. ASSUME NEW d \in Calls, NEW tally \in Tallies, RecordUsage(d, tally)
      PROVE  Kept
  <2>1. event[c] \in Events /\ event \in [Calls -> Events]
    BY DEF TypeInv, TypeOK
  <2> QED
    BY <1>4, <2>1 DEF RecordUsage, Events
<1>5. ASSUME NEW t \in Tx, ReserveStep(t) \/ SettleStep(t) \/ BudgetStep(t) \/ Rollback(t)
      PROVE  Kept \/ \E u \in Tx : CommitReserve(u) /\ tx[u].call = c
  BY <1>1, <1>2, <1>3, <1>5
     DEF ReserveStep, SettleStep, BudgetStep, Rollback, BeginReserve,
         ReopenPeriod, GiveUpReserve, GrantReserve, RefuseReserve, BeginSettle,
         LockLedgerToSettle, BeginBudgetEdit, CommitBudgetEdit
<1>6. CASE \/ RollOver \/ Tick \/ UNCHANGED vars
           \/ \E edited \in Editable : PatchPool(edited)
  BY <1>1, <1>6 DEF RollOver, Tick, vars, PatchPool
<1> QED
  BY <1>4, <1>5, <1>6 DEF Next

\* Every step keeps the stamps within their periods.
LEMMA StampsNext ==
  ASSUME TypeInv, LockInv, CallsOwned, GrantsTimely, StampInPeriod, PeriodsKept,
         [Next]_vars
  PROVE  StampInPeriod'
<1> SUFFICES ASSUME NEW c \in Calls, event'[c].state # "none"
             PROVE  /\ event'[c].period \in DOMAIN ledger'
                    /\ ledger'[event'[c].period].starts <= event'[c].at
                    /\ event'[c].at < ledger'[event'[c].period].ends
  BY DEF StampInPeriod
<1>1. /\ DOMAIN ledger = 1..Len(ledger) /\ Len(ledger) \in Nat
      /\ DOMAIN ledger' = 1..Len(ledger') /\ Len(ledger') \in Nat
  <2>1. TypeInv'
    BY TypeNext
  <2>2. ledger' \in Seq(LedgerRows)
    BY <2>1 DEF TypeInv, TypeOK
  <2> QED
    BY <2>2, LedgerType, LenProperties DEF TypeInv
<1>2. CASE /\ event[c].state # "none"
           /\ event'[c].period = event[c].period /\ event'[c].at = event[c].at
  BY <1>1, <1>2 DEF StampInPeriod, PeriodsKept
<1>3. ASSUME NEW t \in Tx, CommitReserve(t), tx[t].call = c
      PROVE  /\ event'[c].period \in DOMAIN ledger'
             /\ ledger'[event'[c].period].starts <= event'[c].at
             /\ event'[c].at < ledger'[event'[c].period].ends
  <2>1. /\ OnPool(t) /\ Reserving(t) \in LedgerRows
        /\ Reserving(t).starts = RowOf(t).starts
        /\ Reserving(t).ends = RowOf(t).ends
    BY <1>3, ReservedRow
  <2>2. tx[t].period \in 1..Len(ledger') /\ ledger'[tx[t].period] = Reserving(t)
    BY <1>3, <2>1, BookedLedger DEF CommitReserve
  <2>3. event'[c].period = tx[t].period /\ event'[c].at = tx[t].at
    BY <1>3 DEF CommitReserve, Reservation, TypeInv, TypeOK
  <2>4. GrantTimely(t)
    BY <1>3 DEF GrantsTimely, AboutToGrant, CommitReserve
  <2> QED
    BY <1>1, <2>1, <2>2, <2>3, <2>4 DEF GrantTimely
<1> QED
  BY <1>2, <1>3, StampSource

\* A reservation is stamped inside the period it is booked on, however long its
\* transaction waited: it reads the clock again once it holds the ledger row,
\* and the row keeps its bounds until the commit.
THEOREM StampsFit == Spec => []StampInPeriod
<1>1. Init => StampInv
  <2> SUFFICES ASSUME Init
               PROVE  StampInv
    OBVIOUS
  <2>1. TypeOK
    BY InitInv DEF IInv
  <2>2. ledger = <<NewPeriod>> /\ NewPeriod.starts <= now
    BY <2>1, NewStarted DEF Init
  <2>3. RowsStarted
    <3> DEFINE r == NewPeriod
    <3>1. ledger = <<r>> /\ r.starts <= now
      BY <2>2
    <3> HIDE DEF r
    <3> QED
      BY <3>1 DEF RowsStarted
  <2>4. /\ \A t \in Tx : tx[t].kind = "idle"
        /\ \A c \in Calls : event[c].state = "none"
    BY DEF Init
  <2> QED
    BY <2>3, <2>4 DEF StampInv, DraftsStarted, GrantsTimely, StampInPeriod, OnPool,
                      AboutToGrant
<1>2. IInv /\ StampInv /\ [Next]_vars => StampInv'
  <2> SUFFICES ASSUME IInv, StampInv, [Next]_vars
               PROVE  StampInv'
    OBVIOUS
  <2>1. /\ TypeInv /\ LockInv /\ CallsOwned
        /\ RowsStarted /\ DraftsStarted /\ GrantsTimely /\ StampInPeriod
    BY DEF IInv, LedgerInv, TypeInv, LockInv, StampInv
  <2>2. PeriodsKept /\ \A p \in 1..Len(ledger') : ledger'[p].starts <= now
    BY <2>1, PeriodsNext
  <2>3. RowsStarted'
    <3>1. now' \in Nat /\ now \in Nat /\ now <= now' /\ TypeInv'
      BY <2>1, ClockGoesOn, TypeNext DEF TypeInv
    <3>2. \A p \in 1..Len(ledger') : ledger'[p] \in LedgerRows
      BY <3>1, ElementOfSeq DEF TypeInv, TypeOK
    <3>3. \A p \in 1..Len(ledger') : ledger'[p].starts \in Nat
      BY <3>2 DEF LedgerRows
    <3> QED
      BY <2>2, <3>1, <3>3 DEF RowsStarted
  <2> QED
    BY <2>1, <2>2, <2>3, DraftsStartedNext, GrantsTimelyNext, StampsNext DEF StampInv
<1>3. StampInv => StampInPeriod
  BY DEF StampInv
<1> QED
  BY <1>1, <1>2, <1>3, Invariant, PTL DEF Spec

-----------------------------------------------------------------------------
(* Steps                                                                   *)

\* A grant is made of what was left of its period.
THEOREM GrantsCorrect == Spec => GrantsStayWithinBudget
<1>1. IInv /\ [Next]_vars => [GrantWithinBudget]_vars
  <2> SUFFICES ASSUME IInv, [Next]_vars, NEW p \in DOMAIN ledger,
                      ledger'[p].reserved > ledger[p].reserved
               PROVE  ledger'[p].reserved + ledger'[p].consumed <= ledger'[p].budget
    BY DEF GrantWithinBudget
  <2>1. /\ TypeInv /\ LockInv /\ CallsOwned /\ DraftsCurrent /\ GrantsCovered
        /\ RemainingAddsUp /\ BudgetCurrent
    BY DEF IInv, LedgerInv, TypeInv, LockInv
  <2>2. p \in 1..Len(ledger) /\ ledger[p] \in LedgerRows /\ Len(ledger) \in Nat
    BY <2>1, LedgerType DEF TypeInv
  <2>3. ledger[p].reserved \in Nat
    BY <2>2 DEF LedgerRows
  <2>4. ASSUME NEW t \in Tx, CommitReserve(t)
        PROVE  ledger'[p].reserved + ledger'[p].consumed <= ledger'[p].budget
    <3>1. /\ OnPool(t) /\ tx[t] \in ReserveTx /\ tx[t].step = "commit"
          /\ Reserving(t) \in LedgerRows /\ RowOf(t) \in LedgerRows
          /\ Reserving(t).budget = RowOf(t).budget
          /\ Reserving(t).consumed = RowOf(t).consumed
          /\ Reserving(t).reserved = RowOf(t).reserved + tx[t].grant
      BY <2>1, <2>4, ReservedRow
    <3>2. /\ Len(ledger') >= Len(ledger)
          /\ \A i \in 1..Len(ledger') :
               ledger'[i] = IF i = tx[t].period THEN Reserving(t)
                            ELSE IF i <= Len(ledger) THEN ledger[i]
                            ELSE tx[t].opened[i - Len(ledger)]
          /\ Len(ledger') \in Nat
      BY <2>1, <2>4, <3>1, BookedLedger, LenProperties DEF CommitReserve
    <3>3. p = tx[t].period
      BY <2>2, <2>3, <3>2
    <3>4. ledger'[p] = Reserving(t) /\ RowOf(t) = ledger[p]
      BY <2>1, <2>2, <3>1, <3>2, <3>3, RowOfType DEF RowOf
    <3>5. /\ AddsUp(RowOf(t)) /\ GrantCovered(t)
      BY <2>1, <2>2, <2>4, <3>1, <3>4
         DEF RemainingAddsUp, GrantsCovered, CommitReserve
    <3>6. /\ tx[t].grant \in Nat /\ tx[t].grant > 0
          /\ tx[t].grant <= AtLeast0(RowOf(t).budget - RowOf(t).reserved - RowOf(t).consumed)
          /\ RowOf(t).budget \in Nat /\ RowOf(t).reserved \in Nat
          /\ RowOf(t).consumed \in Nat
      BY <3>1, <3>5 DEF AddsUp, GrantCovered, ReserveTx, LedgerRows
    <3>7. RowOf(t).reserved + tx[t].grant + RowOf(t).consumed <= RowOf(t).budget
      BY <3>6 DEF AtLeast0
    <3> QED
      BY <3>1, <3>4, <3>7
  <2>5. ASSUME NEW t \in Tx, CommitBudgetEdit(t)
        PROVE  FALSE
    <3>1. /\ OnPool(t) /\ Rebudgeting(t) \in LedgerRows
          /\ Rebudgeting(t).reserved = RowOf(t).reserved
      BY <2>1, <2>5, RebudgetedRow
    <3>2. /\ Len(ledger') >= Len(ledger) /\ Len(ledger') \in Nat
          /\ \A i \in 1..Len(ledger') :
               ledger'[i] = IF i = tx[t].period THEN Rebudgeting(t)
                            ELSE IF i <= Len(ledger) THEN ledger[i]
                            ELSE tx[t].opened[i - Len(ledger)]
      BY <2>1, <2>5, <3>1, BookedLedger, LenProperties DEF CommitBudgetEdit
    <3>3. p = tx[t].period
      BY <2>2, <2>3, <3>2
    <3>4. ledger'[p] = Rebudgeting(t) /\ RowOf(t) = ledger[p]
      BY <2>1, <2>2, <3>1, <3>2, <3>3, RowOfType DEF RowOf
    <3> QED
      BY <2>3, <3>1, <3>4
  <2>6. ASSUME NEW t \in Tx, CommitCharge(t) \/ CommitRelease(t)
        PROVE  FALSE
    <3>1. ledger'[p].reserved <= ledger[p].reserved
      BY <2>1, <2>2, <2>3, <2>6, SettledRow
    <3>2. ledger'[p].reserved \in Nat
      <4>1. ledger' \in Seq(LedgerRows) /\ Len(ledger') = Len(ledger)
        BY <2>1, <2>6, SettledRow
      <4>2. ledger'[p] \in LedgerRows
        BY <2>2, <4>1, ElementOfSeq
      <4> QED
        BY <4>2 DEF LedgerRows
    <3> QED
      BY <2>3, <3>1, <3>2
  <2>7. ASSUME NEW o \in Seq(LedgerRows), ledger' = ledger \o o
        PROVE  FALSE
    <3>1. ledger'[p] = ledger[p]
      BY <2>1, <2>2, <2>7, LedgerType, ConcatProperties, LenProperties DEF TypeInv
    <3> QED
      BY <2>3, <3>1
  <2>8. ASSUME NEW t \in Tx, RefuseReserve(t)
        PROVE  FALSE
    <3>1. OnPool(t)
      BY <2>8 DEF RefuseReserve, AtLedger, OnPool
    <3> QED
      BY <2>1, <2>7, <2>8, <3>1, RowOfType DEF RefuseReserve
  <2>9. CASE RollOver
    BY <2>1, <2>7, <2>9, OpeningType DEF RollOver, TypeInv
  <2>10. CASE ledger' = ledger
    BY <2>3, <2>10
  <2>11. ASSUME NEW t \in Tx,
                ReserveStep(t) \/ SettleStep(t) \/ BudgetStep(t) \/ Rollback(t)
         PROVE  ledger'[p].reserved + ledger'[p].consumed <= ledger'[p].budget
    BY <2>4, <2>5, <2>6, <2>8, <2>10, <2>11
       DEF ReserveStep, SettleStep, BudgetStep, Rollback, BeginReserve,
           ReopenPeriod, GiveUpReserve, GrantReserve, BeginSettle,
           LockLedgerToSettle, BeginBudgetEdit
  <2> QED
    BY <2>9, <2>10, <2>11 DEF Next, Tick, vars, RecordUsage, PatchPool
<1> QED
  BY <1>1, Invariant, PTL DEF Spec, GrantsStayWithinBudget

\* Reservations that have ended do not change, and what is reserved on a period
\* that has been closed only shrinks.
THEOREM EndsCorrect == Spec => ReservationsEndOnce
<1>1. IInv /\ [Next]_vars => [EndsOnce]_vars
  <2> SUFFICES ASSUME IInv, [Next]_vars
               PROVE  EndsOnce
    OBVIOUS
  <2>1. /\ TypeInv /\ LockInv /\ CallsOwned /\ DraftsCurrent
    BY DEF IInv, LedgerInv, TypeInv, LockInv
  <2>2. ASSUME NEW c \in Calls, event[c].state \in {"finalized", "released"}
        PROVE  event'[c] = event[c]
    <3>1. ASSUME NEW t \in Tx,
                 CommitReserve(t) \/ CommitCharge(t) \/ CommitRelease(t)
          PROVE  event'[c] = event[c]
      <4>1. tx[t].kind = "reserve" \/ Settles(t)
        BY <3>1 DEF CommitReserve, CommitCharge, CommitRelease, AtTerminalEvent, Settles
      <4>2. tx[t].call # c
        BY <2>1, <2>2, <4>1 DEF CallsOwned
      <4> QED
        BY <2>1, <3>1, <4>2, OwnedCommit
    <3>2. ASSUME NEW d \in Calls, NEW tally \in Tallies, RecordUsage(d, tally)
          PROVE  event'[c] = event[c]
      BY <2>2, <3>2 DEF RecordUsage, IInv, TypeOK
    <3>3. ASSUME NEW t \in Tx,
                 ReserveStep(t) \/ SettleStep(t) \/ BudgetStep(t) \/ Rollback(t)
          PROVE  event'[c] = event[c]
      BY <3>1, <3>3
         DEF ReserveStep, SettleStep, BudgetStep, Rollback, BeginReserve,
             ReopenPeriod, GiveUpReserve, GrantReserve, RefuseReserve, BeginSettle,
             LockLedgerToSettle, BeginBudgetEdit, CommitBudgetEdit
    <3> QED
      BY <3>2, <3>3 DEF Next, Tick, vars, RollOver, PatchPool
  <2>3. ASSUME NEW p \in DOMAIN ledger \ {Len(ledger)}
        PROVE  ledger'[p].reserved <= ledger[p].reserved
    <3>1. /\ p \in 1..Len(ledger) /\ p # Len(ledger) /\ ledger[p] \in LedgerRows
          /\ Len(ledger) \in Nat
      BY <2>1, LedgerType DEF TypeInv
    <3>2. ledger[p].reserved \in Nat
      BY <3>1 DEF LedgerRows
    <3>3. CASE ledger'[p] = ledger[p]
      BY <3>2, <3>3
    <3>4. ASSUME NEW t \in Tx, OnPool(t), NEW row \in LedgerRows,
                 ledger' = [ledger \o tx[t].opened EXCEPT ![tx[t].period] = row]
          PROVE  ledger'[p] = ledger[p]
      <4>1. tx[t].period = Len(ledger) + Len(tx[t].opened)
        BY <2>1, <3>4 DEF DraftsCurrent, DraftCurrent
      <4>2. /\ Len(ledger') >= Len(ledger) /\ Len(ledger') \in Nat
            /\ Len(tx[t].opened) \in Nat
            /\ \A i \in 1..Len(ledger') :
                 ledger'[i] = IF i = tx[t].period THEN row
                              ELSE IF i <= Len(ledger) THEN ledger[i]
                              ELSE tx[t].opened[i - Len(ledger)]
        BY <2>1, <3>4, BookedLedger, RowOfType, LenProperties
      <4> QED
        BY <3>1, <4>1, <4>2
    <3>5. ASSUME NEW o \in Seq(LedgerRows), ledger' = ledger \o o
          PROVE  ledger'[p] = ledger[p]
      BY <2>1, <3>1, <3>5, LedgerType, ConcatProperties, LenProperties DEF TypeInv
    <3>6. ASSUME NEW t \in Tx, CommitCharge(t) \/ CommitRelease(t)
          PROVE  ledger'[p].reserved <= ledger[p].reserved
      BY <2>1, <3>1, <3>3, <3>6, SettledRow
    <3>7. ASSUME NEW t \in Tx, CommitReserve(t) \/ CommitBudgetEdit(t)
          PROVE  ledger'[p] = ledger[p]
      BY <2>1, <3>4, <3>7, ReservedRow, RebudgetedRow
         DEF CommitReserve, CommitBudgetEdit
    <3>8. ASSUME NEW t \in Tx, RefuseReserve(t)
          PROVE  ledger'[p] = ledger[p]
      <4>1. OnPool(t)
        BY <3>8 DEF RefuseReserve, AtLedger, OnPool
      <4> QED
        BY <2>1, <3>5, <3>8, <4>1, RowOfType DEF RefuseReserve
    <3>9. CASE RollOver
      BY <2>1, <3>3, <3>5, <3>9, OpeningType DEF RollOver, TypeInv
    <3>10. ASSUME NEW t \in Tx,
                  ReserveStep(t) \/ SettleStep(t) \/ BudgetStep(t) \/ Rollback(t)
           PROVE  ledger'[p].reserved <= ledger[p].reserved
      BY <3>3, <3>6, <3>7, <3>8, <3>10
         DEF ReserveStep, SettleStep, BudgetStep, Rollback, BeginReserve,
             ReopenPeriod, GiveUpReserve, GrantReserve, BeginSettle,
             LockLedgerToSettle, BeginBudgetEdit
    <3> QED
      BY <3>3, <3>9, <3>10 DEF Next, Tick, vars, RecordUsage, PatchPool
  <2> QED
    BY <2>2, <2>3 DEF EndsOnce
<1> QED
  BY <1>1, Invariant, PTL DEF Spec, ReservationsEndOnce
=============================================================================
