-------------------------- MODULE QuotaAccountProofs --------------------------
(***************************************************************************)
(* The running totals of QuotaLedger are the sums of the usage events they *)
(* stand for, and its transactions are steps of QuotaAccount: both for     *)
(* every value of the constants.                                           *)
(***************************************************************************)
EXTENDS QuotaLedgerProofs, FiniteSetTheorems

USE DEF Modes, Time, NoSteps, NoEvent, Idle

-----------------------------------------------------------------------------
(* Counting units                                                          *)

\* An amount has that many units.
LEMMA UnitsCount ==
  ASSUME NEW c, NEW n \in Nat
  PROVE  IsFiniteSet(UnitsOf(c, n)) /\ Cardinality(UnitsOf(c, n)) = n
<1> DEFINE f == [i \in 1..n |-> <<c, i>>]
<1>1. IsFiniteSet(1..n) /\ Cardinality(1..n) = n
  BY FS_Interval
<1>2. f \in Bijection(1..n, UnitsOf(c, n))
  <2>1. f \in [1..n -> UnitsOf(c, n)]
    BY DEF UnitsOf
  <2>2. \A i, j \in 1..n : f[i] = f[j] => i = j
    OBVIOUS
  <2>3. \A x \in UnitsOf(c, n) : \E i \in 1..n : f[i] = x
    BY DEF UnitsOf
  <2> QED
    BY <2>1, <2>2, <2>3 DEF Bijection, Injection, Surjection, IsInjective
<1>3. ExistsBijection(1..n, UnitsOf(c, n))
  BY <1>2 DEF ExistsBijection
<1> QED
  BY <1>1, <1>3, FS_Bijection

\* Units of a call that has none yet add up.
LEMMA UnitsAdded ==
  ASSUME NEW S, IsFiniteSet(S), NEW c, NEW n \in Nat, S \cap UnitsOf(c, n) = {}
  PROVE  /\ IsFiniteSet(S \cup UnitsOf(c, n))
         /\ Cardinality(S \cup UnitsOf(c, n)) = Cardinality(S) + n
<1>1. IsFiniteSet(UnitsOf(c, n)) /\ Cardinality(UnitsOf(c, n)) = n
  BY UnitsCount
<1>2. Cardinality(S) \in Nat /\ Cardinality({}) = 0
  BY FS_CardinalityType, FS_EmptySet
<1> HIDE DEF UnitsOf
<1> QED
  BY <1>1, <1>2, FS_Union

\* Units that are taken away are fewer than there were.
LEMMA UnitsRemoved ==
  ASSUME NEW S, IsFiniteSet(S), NEW c, NEW n \in Nat, UnitsOf(c, n) \subseteq S
  PROVE  /\ IsFiniteSet(S \ UnitsOf(c, n))
         /\ n <= Cardinality(S)
         /\ Cardinality(S \ UnitsOf(c, n)) = Cardinality(S) - n
<1>1. IsFiniteSet(UnitsOf(c, n)) /\ Cardinality(UnitsOf(c, n)) = n
  BY UnitsCount
<1>2. n <= Cardinality(S)
  BY <1>1, FS_Subset
<1>3. S \cap UnitsOf(c, n) = UnitsOf(c, n)
  BY DEF UnitsOf
<1> DEFINE U == UnitsOf(c, n)
<1> HIDE DEF U
<1>4. IsFiniteSet(S \ U) /\ Cardinality(S \ U) = Cardinality(S) - Cardinality(S \cap U)
  BY FS_Difference
<1> QED
  BY <1>1, <1>2, <1>3, <1>4 DEF U

\* The units that events ev hold of period p, and those charged on it.
HoldsIn(ev, c, p) == ev[c].state = "reserved" /\ ev[c].period = p
ChargedIn(ev, c, p) == ev[c].state = "finalized" /\ ev[c].period = p
HeldIn(ev, p) ==
  UNION {UnitsOf(c, ev[c].amount) : c \in {d \in Calls : HoldsIn(ev, d, p)}}
ChargedUnitsIn(ev, p) ==
  UNION {UnitsOf(c, ev[c].actual) : c \in {d \in Calls : ChargedIn(ev, d, p)}}

LEMMA UnitsNow ==
  ASSUME NEW p
  PROVE  /\ HeldUnits(p) = HeldIn(event, p) /\ HeldUnits(p)' = HeldIn(event', p)
         /\ ChargedUnits(p) = ChargedUnitsIn(event, p)
         /\ ChargedUnits(p)' = ChargedUnitsIn(event', p)
BY DEF HeldUnits, ChargedUnits, HeldIn, ChargedUnitsIn, HoldsIn, ChargedIn

\* Units belong to one call.
LEMMA UnitsApart ==
  ASSUME NEW c, NEW d, c # d, NEW m, NEW n
  PROVE  UnitsOf(c, m) \cap UnitsOf(d, n) = {}
BY DEF UnitsOf

\* x is a unit that c holds of period p, or was charged on it.
HasUnit(ev, c, p, x) == HoldsIn(ev, c, p) /\ x \in UnitsOf(c, ev[c].amount)
PaysUnit(ev, c, p, x) == ChargedIn(ev, c, p) /\ x \in UnitsOf(c, ev[c].actual)

\* Whose units they are: those of the calls with a reservation on the period.
LEMMA UnitsByCall ==
  ASSUME NEW ev, NEW p
  PROVE  /\ \A x : x \in HeldIn(ev, p) <=> \E c \in Calls : HasUnit(ev, c, p, x)
         /\ \A x : x \in ChargedUnitsIn(ev, p) <=> \E c \in Calls : PaysUnit(ev, c, p, x)
BY DEF HeldIn, ChargedUnitsIn, HasUnit, PaysUnit

\* A call has no units of a period it has no reservation on.
LEMMA NoUnitsOf ==
  ASSUME NEW ev, NEW p, NEW c, NEW n
  PROVE  /\ ~HoldsIn(ev, c, p) => HeldIn(ev, p) \cap UnitsOf(c, n) = {}
         /\ ~ChargedIn(ev, c, p) => ChargedUnitsIn(ev, p) \cap UnitsOf(c, n) = {}
BY UnitsByCall, UnitsApart DEF HasUnit, PaysUnit

\* Units do not change while no event changes in what counts.
LEMMA UnitsKept ==
  ASSUME NEW ev, NEW fv, NEW p,
         \A d \in Calls : /\ fv[d].state = ev[d].state /\ fv[d].period = ev[d].period
                          /\ fv[d].amount = ev[d].amount /\ fv[d].actual = ev[d].actual
  PROVE  HeldIn(fv, p) = HeldIn(ev, p) /\ ChargedUnitsIn(fv, p) = ChargedUnitsIn(ev, p)
BY DEF HeldIn, ChargedUnitsIn, HoldsIn, ChargedIn

\* Events that differ in call c only.
Elsewhere(ev, fv, c) == \A d \in Calls \ {c} : fv[d] = ev[d]

\* The other calls have the same units as before.
LEMMA OthersKept ==
  ASSUME NEW ev, NEW fv, NEW c, NEW p, Elsewhere(ev, fv, c)
  PROVE  \A d \in Calls \ {c} : \A x :
           /\ HasUnit(fv, d, p, x) <=> HasUnit(ev, d, p, x)
           /\ PaysUnit(fv, d, p, x) <=> PaysUnit(ev, d, p, x)
BY DEF Elsewhere, HasUnit, PaysUnit, HoldsIn, ChargedIn

\* What one call's event adds to a period's units and takes from them.
LEMMA HeldChange ==
  ASSUME NEW ev, NEW fv, NEW c \in Calls, NEW p, Elsewhere(ev, fv, c)
  PROVE  /\ HoldsIn(fv, c, p) /\ ~HoldsIn(ev, c, p) =>
              HeldIn(fv, p) = HeldIn(ev, p) \cup UnitsOf(c, fv[c].amount)
         /\ ~HoldsIn(fv, c, p) /\ HoldsIn(ev, c, p) =>
              /\ HeldIn(fv, p) = HeldIn(ev, p) \ UnitsOf(c, ev[c].amount)
              /\ UnitsOf(c, ev[c].amount) \subseteq HeldIn(ev, p)
         /\ ~HoldsIn(fv, c, p) /\ ~HoldsIn(ev, c, p) => HeldIn(fv, p) = HeldIn(ev, p)
<1>1. CASE HoldsIn(fv, c, p) /\ ~HoldsIn(ev, c, p)
  <2>1. ASSUME NEW x
        PROVE  x \in HeldIn(fv, p) <=>
                 x \in HeldIn(ev, p) \cup UnitsOf(c, fv[c].amount)
    <3>1. \A y : /\ HasUnit(fv, c, p, y) <=> y \in UnitsOf(c, fv[c].amount)
                 /\ ~HasUnit(ev, c, p, y)
      BY <1>1 DEF HasUnit
    <3> QED
      BY <3>1, UnitsByCall, OthersKept
  <2>2. HeldIn(fv, p) = HeldIn(ev, p) \cup UnitsOf(c, fv[c].amount)
    BY <2>1
  <2> QED
    BY <1>1, <2>2
<1>2. CASE ~HoldsIn(fv, c, p) /\ HoldsIn(ev, c, p)
  <2>1. \A d \in Calls \ {c} : \A x : HasUnit(ev, d, p, x) => ~HasUnit(ev, c, p, x)
    BY UnitsApart DEF HasUnit
  <2>2. ASSUME NEW x
        PROVE  x \in HeldIn(fv, p) <=>
                 x \in HeldIn(ev, p) \ UnitsOf(c, ev[c].amount)
    <3>1. \A y : /\ HasUnit(ev, c, p, y) <=> y \in UnitsOf(c, ev[c].amount)
                 /\ ~HasUnit(fv, c, p, y)
      BY <1>2 DEF HasUnit
    <3> QED
      BY <2>1, <3>1, UnitsByCall, OthersKept
  <2>3. HeldIn(fv, p) = HeldIn(ev, p) \ UnitsOf(c, ev[c].amount)
    BY <2>2
  <2>4. UnitsOf(c, ev[c].amount) \subseteq HeldIn(ev, p)
    BY <1>2, UnitsByCall DEF HasUnit
  <2> QED
    BY <1>2, <2>3, <2>4
<1>3. CASE ~HoldsIn(fv, c, p) /\ ~HoldsIn(ev, c, p)
  <2>1. ASSUME NEW x
        PROVE  x \in HeldIn(fv, p) <=> x \in HeldIn(ev, p)
    <3>1. \A y : ~HasUnit(ev, c, p, y) /\ ~HasUnit(fv, c, p, y)
      BY <1>3 DEF HasUnit
    <3> QED
      BY <3>1, UnitsByCall, OthersKept
  <2>2. HeldIn(fv, p) = HeldIn(ev, p)
    BY <2>1
  <2> QED
    BY <1>3, <2>2
<1> QED
  BY <1>1, <1>2, <1>3

\* What one call's event adds to what is charged on a period.
LEMMA ChargedChange ==
  ASSUME NEW ev, NEW fv, NEW c \in Calls, NEW p, Elsewhere(ev, fv, c),
         ~ChargedIn(ev, c, p)
  PROVE  /\ ChargedIn(fv, c, p) =>
              ChargedUnitsIn(fv, p) = ChargedUnitsIn(ev, p) \cup UnitsOf(c, fv[c].actual)
         /\ ~ChargedIn(fv, c, p) => ChargedUnitsIn(fv, p) = ChargedUnitsIn(ev, p)
<1>1. CASE ChargedIn(fv, c, p)
  <2>1. ASSUME NEW x
        PROVE  x \in ChargedUnitsIn(fv, p) <=>
                 x \in ChargedUnitsIn(ev, p) \cup UnitsOf(c, fv[c].actual)
    <3>1. \A y : /\ PaysUnit(fv, c, p, y) <=> y \in UnitsOf(c, fv[c].actual)
                 /\ ~PaysUnit(ev, c, p, y)
      BY <1>1 DEF PaysUnit
    <3> QED
      BY <3>1, UnitsByCall, OthersKept
  <2>2. ChargedUnitsIn(fv, p) = ChargedUnitsIn(ev, p) \cup UnitsOf(c, fv[c].actual)
    BY <2>1
  <2> QED
    BY <1>1, <2>2
<1>2. CASE ~ChargedIn(fv, c, p)
  <2>1. ASSUME NEW x
        PROVE  x \in ChargedUnitsIn(fv, p) <=> x \in ChargedUnitsIn(ev, p)
    <3>1. \A y : ~PaysUnit(ev, c, p, y) /\ ~PaysUnit(fv, c, p, y)
      BY <1>2 DEF PaysUnit
    <3>2. \A d \in Calls \ {c} : PaysUnit(fv, d, p, x) <=> PaysUnit(ev, d, p, x)
      BY OthersKept
    <3> QED
      BY <3>1, <3>2, UnitsByCall
  <2>2. ChargedUnitsIn(fv, p) = ChargedUnitsIn(ev, p)
    BY <2>1
  <2> QED
    BY <1>2, <2>2
<1> QED
  BY <1>1, <1>2
-----------------------------------------------------------------------------
(* The running totals                                                      *)

\* A period that is not there yet has no units.
LEMMA NoUnitsYet ==
  ASSUME TypeInv, NEW p \in Nat, p > Len(ledger)
  PROVE  HeldUnits(p) = {} /\ ChargedUnits(p) = {}
<1>1. \A c \in Calls : event[c].state # "none" => event[c].period # p
  BY LedgerType DEF TypeInv, PeriodsExist
<1>2. \A c \in Calls : ~HoldsIn(event, c, p) /\ ~ChargedIn(event, c, p)
  BY <1>1 DEF HoldsIn, ChargedIn
<1>3. HeldIn(event, p) = {} /\ ChargedUnitsIn(event, p) = {}
  BY <1>2 DEF HeldIn, ChargedUnitsIn
<1> QED
  BY <1>3, UnitsNow

\* An untouched row counts no units.
LEMMA UntouchedCounts ==
  ASSUME NEW row, row.reserved = 0, row.consumed = 0
  PROVE  Counts(row, {}, {})
BY FS_EmptySet DEF Counts

\* The rows a transaction on the pool sees count the units of their periods.
LEMMA SeenCounts ==
  ASSUME TypeInv, DraftsCurrent, RowsCount, NEW t \in Tx, OnPool(t),
         NEW i \in 1..Len(ledger) + Len(tx[t].opened)
  PROVE  Counts((ledger \o tx[t].opened)[i], HeldUnits(i), ChargedUnits(i))
<1>1. Len(ledger) \in Nat /\ Len(tx[t].opened) \in Nat
  BY RowOfType, LedgerType, LenProperties DEF TypeInv
<1>2. CASE i <= Len(ledger)
  BY <1>1, <1>2, RowOfType DEF RowsCount, RowCounts
<1>3. CASE i > Len(ledger)
  <2> DEFINE row == tx[t].opened[i - Len(ledger)]
  <2>1. i - Len(ledger) \in 1..Len(tx[t].opened)
    BY <1>1, <1>3
  <2>2. (ledger \o tx[t].opened)[i] = row
    BY <1>1, <1>3, RowOfType
  <2>3. row.reserved = 0 /\ row.consumed = 0
    BY <2>1 DEF DraftsCurrent, DraftCurrent
  <2>4. HeldUnits(i) = {} /\ ChargedUnits(i) = {}
    BY <1>1, <1>3, NoUnitsYet
  <2> HIDE DEF row
  <2> QED
    BY <2>2, <2>3, <2>4, UntouchedCounts
<1> QED
  BY <1>1, <1>2, <1>3

\* What a reservation that commits does to its period's units.
LEMMA ReserveUnits ==
  ASSUME TypeInv, LockInv, CallsOwned, NEW t \in Tx, CommitReserve(t), NEW i
  PROVE  /\ tx[t].grant \in Nat
         /\ i = tx[t].period =>
              /\ HeldUnits(i)' = HeldUnits(i) \cup UnitsOf(tx[t].call, tx[t].grant)
              /\ HeldUnits(i) \cap UnitsOf(tx[t].call, tx[t].grant) = {}
         /\ i # tx[t].period => HeldUnits(i)' = HeldUnits(i)
         /\ ChargedUnits(i)' = ChargedUnits(i)
<1> DEFINE c == tx[t].call
<1>1. tx[t] \in ReserveTx /\ c \in Calls /\ tx[t].grant \in Nat
  BY TxKinds DEF CommitReserve, TypeInv, ReserveTx
<1>2. Elsewhere(event, event', c)
  BY OwnedCommit DEF Elsewhere
<1>3. event[c].state = "none"
  BY DEF CallsOwned, CommitReserve
<1>4. event'[c] = Reservation(t)
  BY <1>1 DEF CommitReserve, TypeInv, TypeOK
<1>5. /\ event'[c].state = "reserved" /\ event'[c].period = tx[t].period
      /\ event'[c].amount = tx[t].grant
  BY <1>4 DEF Reservation
<1> HIDE DEF c
<1>6. /\ ~HoldsIn(event, c, i) /\ ~ChargedIn(event, c, i) /\ ~ChargedIn(event', c, i)
  BY <1>3, <1>5 DEF HoldsIn, ChargedIn
<1>7. ChargedUnitsIn(event', i) = ChargedUnitsIn(event, i)
  BY <1>1, <1>2, <1>6, ChargedChange
<1>8. CASE i = tx[t].period
  <2>1. HoldsIn(event', c, i)
    BY <1>5, <1>8 DEF HoldsIn
  <2>2. HeldIn(event', i) = HeldIn(event, i) \cup UnitsOf(c, tx[t].grant)
    BY <1>1, <1>2, <1>5, <1>6, <2>1, HeldChange
  <2> QED
    BY <1>1, <1>6, <1>7, <1>8, <2>2, UnitsNow, NoUnitsOf DEF c
<1>9. CASE i # tx[t].period
  <2>1. ~HoldsIn(event', c, i)
    BY <1>5, <1>9 DEF HoldsIn
  <2>2. HeldIn(event', i) = HeldIn(event, i)
    BY <1>1, <1>2, <1>6, <2>1, HeldChange
  <2> QED
    BY <1>1, <1>7, <1>9, <2>2, UnitsNow
<1> QED
  BY <1>8, <1>9

\* What a settlement charges.
Charged(t) ==
  IF tx[t].tally.requests > 0
    THEN ChargeOf(event[tx[t].call].mode, tx[t].tally) ELSE 0

\* What a settlement that commits does to its event and its ledger row.
LEMMA SettledAmounts ==
  ASSUME TypeInv, CallsOwned, NEW t \in Tx, CommitCharge(t) \/ CommitRelease(t)
  PROVE  /\ tx[t] \in SettleTx /\ Settles(t)
         /\ event[tx[t].call].state = "reserved"
         /\ event[tx[t].call].period = tx[t].period
         /\ event[tx[t].call].amount \in Nat
         /\ Charged(t) \in Nat
         /\ event'[tx[t].call].period = tx[t].period
         /\ \/ event'[tx[t].call].state = "released" /\ Charged(t) = 0
            \/ /\ event'[tx[t].call].state = "finalized"
               /\ event'[tx[t].call].actual = Charged(t)
         /\ ledger' = [ledger EXCEPT ![tx[t].period] = Settling(tx[t].call, Charged(t))]
<1> DEFINE c == tx[t].call
<1>1. Settles(t) /\ tx[t] \in SettleTx
  BY TxKinds DEF CommitCharge, CommitRelease, AtTerminalEvent, Settles, TypeInv
<1>2. event[c].state = "reserved" /\ event[c].period = tx[t].period
  BY <1>1 DEF CallsOwned
<1>3. c \in Calls /\ event[c] \in Events /\ event \in [Calls -> Events]
  BY <1>1 DEF SettleTx, TypeInv, TypeOK
<1>4. /\ tx[t].tally.requests \in Nat /\ Charged(t) \in Nat
  BY <1>1, BoundsAssumption DEF Charged, ChargeOf, SettleTx, Tallies
<1>5. CASE CommitCharge(t)
  <2>1. Charged(t) = ChargeOf(event[c].mode, tx[t].tally)
    BY <1>5 DEF CommitCharge, Charged
  <2>2. /\ ledger' = [ledger EXCEPT ![tx[t].period] = Settling(c, Charged(t))]
        /\ event' = [event EXCEPT ![c].state = "finalized", ![c].actual = Charged(t)]
    BY <1>5, <2>1 DEF CommitCharge
  <2>3. /\ event'[c].state = "finalized" /\ event'[c].actual = Charged(t)
        /\ event'[c].period = event[c].period
    BY <1>3, <2>2 DEF Events
  <2> QED
    BY <1>1, <1>2, <1>3, <1>4, <2>2, <2>3 DEF Events
<1>6. CASE CommitRelease(t)
  <2>1. Charged(t) = 0
    BY <1>6 DEF CommitRelease, Charged
  <2>2. /\ ledger' = [ledger EXCEPT ![tx[t].period] = Settling(c, Charged(t))]
        /\ event' = [event EXCEPT ![c].state = "released"]
    BY <1>6, <2>1 DEF CommitRelease
  <2>3. event'[c].state = "released" /\ event'[c].period = event[c].period
    BY <1>3, <2>2 DEF Events
  <2> QED
    BY <1>1, <1>2, <1>3, <1>4, <2>1, <2>2, <2>3 DEF Events
<1> QED
  BY <1>5, <1>6

\* What a settlement that commits does to its period's units.
LEMMA SettleUnits ==
  ASSUME TypeInv, LockInv, CallsOwned, NEW t \in Tx,
         CommitCharge(t) \/ CommitRelease(t), NEW i
  PROVE  LET c == tx[t].call
             amount == event[tx[t].call].amount IN
         /\ i = tx[t].period =>
              /\ HeldUnits(i)' = HeldUnits(i) \ UnitsOf(c, amount)
              /\ UnitsOf(c, amount) \subseteq HeldUnits(i)
              /\ ChargedUnits(i)' = ChargedUnits(i) \cup UnitsOf(c, Charged(t))
              /\ ChargedUnits(i) \cap UnitsOf(c, Charged(t)) = {}
         /\ i # tx[t].period =>
              HeldUnits(i)' = HeldUnits(i) /\ ChargedUnits(i)' = ChargedUnits(i)
<1> DEFINE c == tx[t].call
           amount == event[c].amount
<1>1. /\ tx[t] \in SettleTx /\ event[c].state = "reserved"
      /\ event[c].period = tx[t].period /\ event'[c].period = tx[t].period
      /\ \/ event'[c].state = "released" /\ Charged(t) = 0
         \/ event'[c].state = "finalized" /\ event'[c].actual = Charged(t)
  BY SettledAmounts
<1>2. Elsewhere(event, event', c) /\ c \in Calls
  BY OwnedCommit DEF Elsewhere
<1> HIDE DEF c
<1>3. ~ChargedIn(event, c, i) /\ ~HoldsIn(event', c, i)
  BY <1>1 DEF HoldsIn, ChargedIn
<1>4. CASE i = tx[t].period
  <2>1. HoldsIn(event, c, i)
    BY <1>1, <1>4 DEF HoldsIn
  <2>2. /\ HeldIn(event', i) = HeldIn(event, i) \ UnitsOf(c, event[c].amount)
        /\ UnitsOf(c, event[c].amount) \subseteq HeldIn(event, i)
    BY <1>2, <1>3, <2>1, HeldChange
  <2>3. ChargedUnitsIn(event', i) = ChargedUnitsIn(event, i) \cup UnitsOf(c, Charged(t))
    <3>1. CASE event'[c].state = "finalized" /\ event'[c].actual = Charged(t)
      <4>1. ChargedIn(event', c, i)
        BY <1>1, <1>4, <3>1 DEF ChargedIn
      <4> QED
        BY <1>2, <1>3, <3>1, <4>1, ChargedChange
    <3>2. CASE event'[c].state = "released" /\ Charged(t) = 0
      <4>1. ~ChargedIn(event', c, i)
        BY <3>2 DEF ChargedIn
      <4>2. UnitsOf(c, Charged(t)) = {}
        BY <3>2 DEF UnitsOf
      <4>3. ChargedUnitsIn(event', i) = ChargedUnitsIn(event, i)
        BY <1>2, <1>3, <4>1, ChargedChange
      <4> QED
        BY <4>2, <4>3
    <3> QED
      BY <1>1, <3>1, <3>2
  <2>4. ChargedUnitsIn(event, i) \cap UnitsOf(c, Charged(t)) = {}
    BY <1>3, NoUnitsOf
  <2> QED
    BY <1>4, <2>2, <2>3, <2>4, UnitsNow DEF c
<1>5. CASE i # tx[t].period
  <2>1. ~HoldsIn(event, c, i) /\ ~ChargedIn(event', c, i)
    BY <1>1, <1>5 DEF HoldsIn, ChargedIn
  <2>2. HeldIn(event', i) = HeldIn(event, i) /\ ChargedUnitsIn(event', i) = ChargedUnitsIn(event, i)
    BY <1>2, <1>3, <2>1, HeldChange, ChargedChange
  <2> QED
    BY <1>5, <2>2, UnitsNow
<1> QED
  BY <1>4, <1>5

\* Rows without a change in them or in their units.
LEMMA CountsSame ==
  ASSUME RowsCount, ledger' = ledger,
         \A i \in 1..Len(ledger) :
           HeldUnits(i)' = HeldUnits(i) /\ ChargedUnits(i)' = ChargedUnits(i)
  PROVE  RowsCount'
BY DEF RowsCount, RowCounts, Counts

\* A reservation adds to its row what it adds to its period's units.
LEMMA ReserveCounts ==
  ASSUME TypeInv, LockInv, CallsOwned, DraftsCurrent, RowsCount,
         NEW t \in Tx, CommitReserve(t)
  PROVE  RowsCount'
<1>1. /\ OnPool(t) /\ tx[t] \in ReserveTx
      /\ Reserving(t) \in LedgerRows
      /\ Reserving(t).consumed = RowOf(t).consumed
      /\ Reserving(t).reserved = RowOf(t).reserved + tx[t].grant
  BY ReservedRow
<1>2. /\ Len(ledger') = Len(ledger) + Len(tx[t].opened)
      /\ tx[t].period \in 1..Len(ledger')
      /\ \A i \in 1..Len(ledger') :
           ledger'[i] = IF i = tx[t].period THEN Reserving(t)
                        ELSE IF i <= Len(ledger) THEN ledger[i]
                        ELSE tx[t].opened[i - Len(ledger)]
  BY <1>1, BookedLedger DEF CommitReserve
<1>3. \A i \in 1..Len(ledger') :
        Counts((ledger \o tx[t].opened)[i], HeldUnits(i), ChargedUnits(i))
  BY <1>1, <1>2, SeenCounts
<1>4. ASSUME NEW i \in 1..Len(ledger'), i # tx[t].period
      PROVE  Counts(ledger'[i], HeldUnits(i)', ChargedUnits(i)')
  <2>1. ledger'[i] = (ledger \o tx[t].opened)[i]
    BY <1>1, <1>2, <1>4, RowOfType
  <2>2. HeldUnits(i)' = HeldUnits(i) /\ ChargedUnits(i)' = ChargedUnits(i)
    BY <1>4, ReserveUnits
  <2> QED
    BY <1>3, <2>1, <2>2
<1>5. ASSUME NEW p \in 1..Len(ledger'), p = tx[t].period
      PROVE  Counts(ledger'[p], HeldUnits(p)', ChargedUnits(p)')
  <2> DEFINE c == tx[t].call
             n == tx[t].grant
  <2>1. Counts(RowOf(t), HeldUnits(p), ChargedUnits(p))
    BY <1>3, <1>5 DEF RowOf
  <2>2. ledger'[p] = Reserving(t)
    BY <1>2, <1>5
  <2>3. /\ n \in Nat
        /\ HeldUnits(p)' = HeldUnits(p) \cup UnitsOf(c, n)
        /\ HeldUnits(p) \cap UnitsOf(c, n) = {}
        /\ ChargedUnits(p)' = ChargedUnits(p)
    BY <1>5, ReserveUnits
  <2> HIDE DEF c, n
  <2>4. /\ IsFiniteSet(HeldUnits(p)')
        /\ Cardinality(HeldUnits(p)') = RowOf(t).reserved + n
    BY <2>1, <2>3, UnitsAdded DEF Counts
  <2>5. Reserving(t).reserved = RowOf(t).reserved + n
    BY <1>1 DEF n
  <2> QED
    BY <1>1, <2>1, <2>2, <2>3, <2>4, <2>5 DEF Counts
<1> QED
  BY <1>4, <1>5 DEF RowsCount, RowCounts

\* A settlement takes from its row what it takes from its period's units, and
\* adds what it charges.
LEMMA SettleCounts ==
  ASSUME TypeInv, LockInv, CallsOwned, RowsCount,
         NEW t \in Tx, CommitCharge(t) \/ CommitRelease(t)
  PROVE  RowsCount'
<1> DEFINE c == tx[t].call
           n == event[c].amount
<1>1. /\ Settles(t) /\ Charged(t) \in Nat /\ n \in Nat /\ event[c].period = tx[t].period
      /\ ledger' = [ledger EXCEPT ![tx[t].period] = Settling(c, Charged(t))]
  BY SettledAmounts
<1>2. /\ tx[t].period \in 1..Len(ledger) /\ Len(ledger') = Len(ledger)
      /\ \A i \in 1..Len(ledger) :
           ledger'[i] = IF i = tx[t].period THEN Settling(c, Charged(t)) ELSE ledger[i]
  BY <1>1, SettledLedger
<1>3. ASSUME NEW i \in 1..Len(ledger'), i # tx[t].period
      PROVE  Counts(ledger'[i], HeldUnits(i)', ChargedUnits(i)')
  <2>1. ledger'[i] = ledger[i] /\ i \in 1..Len(ledger)
    BY <1>2, <1>3
  <2>2. HeldUnits(i)' = HeldUnits(i) /\ ChargedUnits(i)' = ChargedUnits(i)
    BY <1>3, SettleUnits
  <2> QED
    BY <2>1, <2>2 DEF RowsCount, RowCounts
<1>4. ASSUME NEW p \in 1..Len(ledger'), p = tx[t].period
      PROVE  Counts(ledger'[p], HeldUnits(p)', ChargedUnits(p)')
  <2> DEFINE row == ledger[p]
             H == HeldUnits(p)
             C == ChargedUnits(p)
  <2>1. Counts(row, H, C)
    BY <1>2 DEF RowsCount, RowCounts
  <2>2. /\ H' = H \ UnitsOf(c, n) /\ UnitsOf(c, n) \subseteq H
        /\ C' = C \cup UnitsOf(c, Charged(t)) /\ C \cap UnitsOf(c, Charged(t)) = {}
    BY <1>4, SettleUnits
  <2>3. /\ Settling(c, Charged(t)).reserved = AtLeast0(row.reserved - n)
        /\ Settling(c, Charged(t)).consumed = row.consumed + Charged(t)
    BY <1>1, <1>4 DEF Settling, Booked
  <2> HIDE DEF row, H, C, n, c
  <2>4. /\ IsFiniteSet(H \ UnitsOf(c, n))
        /\ Cardinality(H \ UnitsOf(c, n)) = Cardinality(H) - n
        /\ n <= Cardinality(H) /\ Cardinality(H) \in Nat
    BY <1>1, <2>1, <2>2, UnitsRemoved, FS_CardinalityType DEF Counts
  <2>5. /\ IsFiniteSet(C \cup UnitsOf(c, Charged(t)))
        /\ Cardinality(C \cup UnitsOf(c, Charged(t))) = Cardinality(C) + Charged(t)
    BY <1>1, <2>1, <2>2, UnitsAdded DEF Counts
  <2>6. AtLeast0(row.reserved - n) = Cardinality(H) - n
    BY <1>1, <2>1, <2>4 DEF Counts, AtLeast0
  <2>7. ledger'[p] = Settling(c, Charged(t))
    BY <1>2, <1>4
  <2>8. Counts(ledger'[p], H \ UnitsOf(c, n), C \cup UnitsOf(c, Charged(t)))
    BY <2>1, <2>3, <2>4, <2>5, <2>6, <2>7 DEF Counts
  <2> QED
    BY <2>2, <2>8 DEF H, C
<1> QED
  BY <1>3, <1>4 DEF RowsCount, RowCounts

\* A budget edit leaves the totals of the row it books as they were.
LEMMA BudgetCounts ==
  ASSUME TypeInv, DraftsCurrent, RowsCount, NEW t \in Tx, CommitBudgetEdit(t)
  PROVE  RowsCount'
<1>1. /\ OnPool(t) /\ Rebudgeting(t) \in LedgerRows
      /\ Rebudgeting(t).consumed = RowOf(t).consumed
      /\ Rebudgeting(t).reserved = RowOf(t).reserved
  BY RebudgetedRow DEF Rebudgeting, Booked
<1>2. /\ Len(ledger') = Len(ledger) + Len(tx[t].opened)
      /\ \A i \in 1..Len(ledger') :
           ledger'[i] = IF i = tx[t].period THEN Rebudgeting(t)
                        ELSE IF i <= Len(ledger) THEN ledger[i]
                        ELSE tx[t].opened[i - Len(ledger)]
  BY <1>1, BookedLedger DEF CommitBudgetEdit
<1>3. \A i : HeldUnits(i)' = HeldUnits(i) /\ ChargedUnits(i)' = ChargedUnits(i)
  BY DEF CommitBudgetEdit, HeldUnits, ChargedUnits
<1>4. ASSUME NEW i \in 1..Len(ledger')
      PROVE  Counts(ledger'[i], HeldUnits(i), ChargedUnits(i))
  <2>1. Counts((ledger \o tx[t].opened)[i], HeldUnits(i), ChargedUnits(i))
    BY <1>1, <1>2, SeenCounts
  <2>2. CASE i = tx[t].period
    BY <1>1, <1>2, <2>1, <2>2 DEF RowOf, Counts
  <2>3. CASE i # tx[t].period
    <3>1. ledger'[i] = (ledger \o tx[t].opened)[i]
      BY <1>1, <1>2, <2>3, RowOfType
    <3> QED
      BY <2>1, <3>1
  <2> QED
    BY <2>2, <2>3
<1> QED
  BY <1>3, <1>4 DEF RowsCount, RowCounts

\* A period that opens on its own counts nothing yet.
LEMMA LengthenedCounts ==
  ASSUME TypeInv, RowsCount, NEW o \in Seq(LedgerRows), ledger' = ledger \o o,
         \A i \in 1..Len(o) : o[i].reserved = 0 /\ o[i].consumed = 0,
         event' = event
  PROVE  RowsCount'
<1>1. /\ ledger \in Seq(LedgerRows) /\ Len(ledger) \in Nat \ {0} /\ Len(o) \in Nat
  BY LedgerType, LenProperties DEF TypeInv
<1>2. /\ Len(ledger') = Len(ledger) + Len(o)
      /\ \A i \in 1..Len(ledger') :
           ledger'[i] = IF i <= Len(ledger) THEN ledger[i] ELSE o[i - Len(ledger)]
  BY <1>1, ConcatProperties
<1>3. \A i : HeldUnits(i)' = HeldUnits(i) /\ ChargedUnits(i)' = ChargedUnits(i)
  BY DEF HeldUnits, ChargedUnits
<1>4. ASSUME NEW i \in 1..Len(ledger')
      PROVE  Counts(ledger'[i], HeldUnits(i), ChargedUnits(i))
  <2>1. CASE i <= Len(ledger)
    BY <1>1, <1>2, <2>1 DEF RowsCount, RowCounts
  <2>2. CASE i > Len(ledger)
    <3>1. i - Len(ledger) \in 1..Len(o) /\ i \in Nat
      BY <1>1, <1>2, <2>2
    <3>2. ledger'[i] = o[i - Len(ledger)]
      BY <1>1, <1>2, <2>2
    <3>3. ledger'[i].reserved = 0 /\ ledger'[i].consumed = 0
      BY <3>1, <3>2
    <3> QED
      BY <2>2, <3>1, <3>3, NoUnitsYet, UntouchedCounts
  <2> QED
    BY <1>1, <1>2, <2>1, <2>2
<1> QED
  BY <1>3, <1>4 DEF RowsCount, RowCounts

\* Every step keeps the totals in line with the units.
LEMMA CountsNext ==
  ASSUME TypeInv, LockInv, CallsOwned, DraftsCurrent, RowsCount, [Next]_vars
  PROVE  RowsCount'
<1>1. CASE ledger' = ledger /\ event' = event
  BY <1>1, CountsSame DEF HeldUnits, ChargedUnits
<1>2. ASSUME NEW t \in Tx, RefuseReserve(t)
      PROVE  RowsCount'
  <2>1. OnPool(t)
    BY <1>2 DEF RefuseReserve, AtLedger, OnPool
  <2>2. \A i \in 1..Len(tx[t].opened) :
          tx[t].opened[i].reserved = 0 /\ tx[t].opened[i].consumed = 0
    BY <2>1 DEF DraftsCurrent, DraftCurrent
  <2> QED
    BY <1>2, <2>1, <2>2, RowOfType, LengthenedCounts DEF RefuseReserve
<1>3. CASE RollOver
  <2> DEFINE row == NewPeriod
  <2>1. Opening(ledger) = <<row>> /\ row \in LedgerRows
    BY <1>3, OpeningType, NewPeriodType DEF RollOver, TypeInv
  <2>2. row.reserved = 0 /\ row.consumed = 0
    BY NewPeriodType DEF TypeInv
  <2>3. ledger' = ledger \o <<row>> /\ event' = event
    BY <1>3, <2>1 DEF RollOver
  <2> HIDE DEF row
  <2>4. <<row>> \in Seq(LedgerRows) /\ \A i \in 1..Len(<<row>>) : <<row>>[i] = row
    BY <2>1
  <2> QED
    BY <2>2, <2>3, <2>4, LengthenedCounts
<1>4. ASSUME NEW c \in Calls, NEW tally \in Tallies, RecordUsage(c, tally)
      PROVE  RowsCount'
  <2>1. \A d \in Calls : /\ event'[d].state = event[d].state
                         /\ event'[d].period = event[d].period
                         /\ event'[d].amount = event[d].amount
                         /\ event'[d].actual = event[d].actual
    BY <1>4 DEF RecordUsage, TypeInv, TypeOK, Events
  <2>2. \A i : HeldUnits(i)' = HeldUnits(i) /\ ChargedUnits(i)' = ChargedUnits(i)
    BY <2>1, UnitsKept, UnitsNow
  <2> QED
    BY <1>4, <2>2, CountsSame DEF RecordUsage
<1>5. ASSUME NEW t \in Tx, ReserveStep(t) \/ SettleStep(t) \/ BudgetStep(t) \/ Rollback(t)
      PROVE  RowsCount'
  BY <1>1, <1>2, <1>5, ReserveCounts, SettleCounts, BudgetCounts
     DEF ReserveStep, SettleStep, BudgetStep, Rollback, BeginReserve, ReopenPeriod,
         GiveUpReserve, GrantReserve, BeginSettle, LockLedgerToSettle, BeginBudgetEdit
<1>6. CASE \/ Tick \/ UNCHANGED vars \/ \E edited \in Editable : PatchPool(edited)
  BY <1>1, <1>6 DEF Tick, vars, PatchPool
<1> QED
  BY <1>3, <1>4, <1>5, <1>6 DEF Next

\* The pool starts without units.
LEMMA CountsInit == Init => RowsCount
<1> SUFFICES ASSUME Init
             PROVE  RowsCount
  OBVIOUS
<1>1. Len(ledger) = 1 /\ ledger[1] = NewPeriod
  BY DEF Init
<1>2. ledger[1].reserved = 0 /\ ledger[1].consumed = 0
  BY <1>1 DEF NewPeriod
<1>3. \A c \in Calls, p \in Nat : ~HoldsIn(event, c, p) /\ ~ChargedIn(event, c, p)
  BY DEF Init, HoldsIn, ChargedIn
<1>4. \A p \in Nat : HeldIn(event, p) = {} /\ ChargedUnitsIn(event, p) = {}
  BY <1>3 DEF HeldIn, ChargedUnitsIn
<1>5. HeldUnits(1) = {} /\ ChargedUnits(1) = {}
  BY <1>4, UnitsNow
<1> QED
  BY <1>1, <1>2, <1>5, UntouchedCounts DEF RowsCount, RowCounts

\* The running totals of every ledger row are the sums of the usage events they
\* stand for, whatever was interleaved, rolled back or moved to another period.
THEOREM TotalsReconcile == Spec => []LedgerReconciles
<1>1. IInv /\ RowsCount /\ [Next]_vars => RowsCount'
  BY CountsNext DEF IInv, LedgerInv, TypeInv, LockInv
<1>2. IInv /\ RowsCount => LedgerReconciles
  BY LedgerType DEF IInv, LedgerInv, RemainingAddsUp, AddsUp, RowsCount, RowCounts,
                    Counts, LedgerReconciles
<1> QED
  BY <1>1, <1>2, CountsInit, Invariant, PTL DEF Spec
-----------------------------------------------------------------------------
(* What transactions ask for                                               *)

\* Every step keeps what is asked, opened and granted within bounds.
LEMMA AsksNext ==
  ASSUME TypeInv, AllAsksBounded, [Next]_vars
  PROVE  AllAsksBounded'
<1> SUFFICES ASSUME NEW u \in Tx
             PROVE  AsksBounded(u)'
  BY DEF AllAsksBounded
<1>1. AsksBounded(u) /\ tx \in [Tx -> AllTx]
  BY DEF AllAsksBounded, TypeInv, TypeOK, AllTx
<1>2. CASE tx'[u] = tx[u]
  BY <1>1, <1>2 DEF AsksBounded
<1>3. CASE tx'[u] = Idle \/ tx'[u].kind = "settle"
  BY <1>3 DEF AsksBounded
<1>4. Len(Opening(ledger)) <= 1
  <2>1. TypeOK
    BY DEF TypeInv
  <2>2. Len(Opening(ledger)) \in {0, 1}
    BY <2>1, OpeningType
  <2> QED
    BY <2>2
<1>5. ASSUME NEW t \in Tx, ReserveStep(t)
      PROVE  AsksBounded(u)'
  <2>1. ASSUME NEW c \in Calls, NEW mode \in Modes, NEW ask \in 1..MaxAsk,
               BeginReserve(t, c, mode, ask), t = u
        PROVE  AsksBounded(u)'
    <3>1. /\ tx'[u].kind = "reserve" /\ tx'[u].ask = ask /\ tx'[u].opened = Opening(ledger)
          /\ ~tx'[u].retried /\ tx'[u].step = "ledger"
      BY <1>1, <2>1 DEF BeginReserve
    <3> QED
      BY <1>4, <3>1 DEF AsksBounded
  <2>2. CASE ReopenPeriod(t) /\ t = u
    <3> DEFINE row == NewPeriod
    <3>1. /\ tx[u] \in ReserveTx /\ ~tx[u].retried /\ row \in LedgerRows
          /\ tx[u].step = "ledger" /\ tx[u].opened \in Seq(LedgerRows)
      BY <2>2, TxKinds, NewPeriodType DEF ReopenPeriod, AtLedger, TypeInv, ReserveTx
    <3>2. tx' = [tx EXCEPT ![u].opened = Append(@, row), ![u].period = @ + 1,
                           ![u].retried = TRUE]
      BY <2>2 DEF ReopenPeriod
    <3> HIDE DEF row
    <3>3. /\ tx'[u].kind = "reserve" /\ tx'[u].ask = tx[u].ask
          /\ tx'[u].opened = Append(tx[u].opened, row)
          /\ tx'[u].retried /\ tx'[u].step = "ledger"
      BY <1>1, <3>1, <3>2 DEF ReserveTx
    <3>4. Len(tx'[u].opened) = Len(tx[u].opened) + 1 /\ Len(tx[u].opened) \in Nat
      BY <3>1, <3>3
    <3>5. Len(tx[u].opened) <= 1 /\ tx[u].ask \in 1..MaxAsk
      BY <1>1, <3>1 DEF AsksBounded, ReserveTx
    <3> QED
      BY <3>3, <3>4, <3>5 DEF AsksBounded
  <2>3. CASE GrantReserve(t) /\ t = u
    <3>1. tx[u] \in ReserveTx
      BY <2>3, TxKinds DEF GrantReserve, AtLedger, TypeInv
    <3>2. /\ tx'[u].kind = "reserve" /\ tx'[u].ask = tx[u].ask
          /\ tx'[u].opened = tx[u].opened /\ tx'[u].retried = tx[u].retried
          /\ tx'[u].grant = GrantFor(u)
      BY <1>1, <2>3, <3>1 DEF GrantReserve, ReserveTx
    <3>3. RowOf(u).remaining \in Nat /\ tx[u].ask \in Nat
      BY <3>1, RowOfType DEF OnPool, ReserveTx, LedgerRows
    <3>4. GrantFor(u) <= tx[u].ask
      BY <3>3 DEF GrantFor, Least
    <3>5. /\ tx[u].ask \in 1..MaxAsk
          /\ Len(tx[u].opened) <= IF tx[u].retried THEN 2 ELSE 1
      BY <1>1, <3>1 DEF AsksBounded, ReserveTx
    <3> QED
      BY <3>2, <3>4, <3>5 DEF AsksBounded
  <2>4. CASE GiveUpReserve(t) \/ RefuseReserve(t) \/ CommitReserve(t)
    BY <1>2, <1>3, <2>4, FinishType DEF GiveUpReserve, RefuseReserve, CommitReserve
  <2>5. CASE t # u
    BY <1>1, <1>2, <1>5, <2>4, <2>5
       DEF ReserveStep, BeginReserve, ReopenPeriod, GrantReserve
  <2> QED
    BY <1>5, <2>1, <2>2, <2>3, <2>4, <2>5 DEF ReserveStep
<1>6. ASSUME NEW t \in Tx, SettleStep(t)
      PROVE  AsksBounded(u)'
  <2>1. ASSUME NEW c \in Calls, NEW tally \in Tallies, BeginSettle(t, c, tally)
        PROVE  AsksBounded(u)'
    <3>1. tx'[u].kind = "settle" \/ tx'[u] = tx[u]
      BY <1>1, <2>1 DEF BeginSettle
    <3> QED
      BY <1>2, <1>3, <3>1
  <2>2. CASE LockLedgerToSettle(t)
    <3>1. tx[t] \in SettleTx
      BY <2>2, TxKinds DEF LockLedgerToSettle, AtLedger, TypeInv
    <3>2. tx'[u].kind = "settle" \/ tx'[u] = tx[u]
      BY <1>1, <2>2, <3>1 DEF LockLedgerToSettle, SettleTx
    <3> QED
      BY <1>2, <1>3, <3>2
  <2>3. CASE CommitCharge(t) \/ CommitRelease(t)
    BY <1>2, <1>3, <2>3, FinishType DEF CommitCharge, CommitRelease
  <2> QED
    BY <1>6, <2>1, <2>2, <2>3 DEF SettleStep
<1>7. ASSUME NEW t \in Tx, BudgetStep(t) \/ Rollback(t)
      PROVE  AsksBounded(u)'
  <2>1. ASSUME NEW edited \in Editable, BeginBudgetEdit(t, edited)
        PROVE  AsksBounded(u)'
    <3>1. CASE t = u
      <4>1. /\ tx'[u].kind = "budget" /\ tx'[u].pool = edited
            /\ tx'[u].opened = Opening(ledger)
        BY <1>1, <2>1, <3>1 DEF BeginBudgetEdit
      <4>2. edited.budget \in Budgets
        BY DEF Editable
      <4> QED
        BY <1>4, <4>1, <4>2 DEF AsksBounded
    <3>2. CASE t # u
      BY <1>1, <1>2, <2>1, <3>2 DEF BeginBudgetEdit
    <3> QED
      BY <3>1, <3>2
  <2>2. CASE CommitBudgetEdit(t) \/ Rollback(t)
    BY <1>2, <1>3, <2>2, FinishType DEF CommitBudgetEdit, Rollback
  <2> QED
    BY <1>7, <2>1, <2>2 DEF BudgetStep
<1>8. CASE tx' = tx
  BY <1>2, <1>8
<1> QED
  BY <1>5, <1>6, <1>7, <1>8 DEF Next, RollOver, Tick, vars, RecordUsage, PatchPool
-----------------------------------------------------------------------------
(* The account                                                             *)

\* The limits of the account are the budgets of the rows.
Limits(rows) == [p \in 1..Len(rows) |-> rows[p].budget]

LEMMA LimitsType ==
  ASSUME NEW rows \in Seq(LedgerRows)
  PROVE  Limits(rows) \in Seq(Nat) /\ Len(Limits(rows)) = Len(rows)
<1>1. Len(rows) \in Nat /\ \A p \in 1..Len(rows) : rows[p] \in LedgerRows
  BY LenProperties, ElementOfSeq
<1>2. \A p \in 1..Len(rows) : rows[p].budget \in Nat
  BY <1>1 DEF LedgerRows
<1>3. Limits(rows) \in [1..Len(rows) -> Nat]
  BY <1>2 DEF Limits
<1> QED
  BY <1>1, <1>3, SeqDef

\* As many limits of one budget as there are rows of it.
LEMMA SameLimits ==
  ASSUME NEW o \in Seq(LedgerRows), NEW b \in Nat, \A i \in 1..Len(o) : o[i].budget = b
  PROVE  [i \in 1..Len(o) |-> b] = Limits(o)
BY DEF Limits

\* The limits of a longer ledger are those of its parts.
LEMMA LimitsConcat ==
  ASSUME NEW rows \in Seq(LedgerRows), NEW o \in Seq(LedgerRows)
  PROVE  Limits(rows) \o Limits(o) = Limits(rows \o o)
<1> DEFINE l == Limits(rows) \o Limits(o)
           r == Limits(rows \o o)
<1>1. /\ rows \o o \in Seq(LedgerRows) /\ Len(rows \o o) = Len(rows) + Len(o)
      /\ Len(rows) \in Nat /\ Len(o) \in Nat
      /\ \A i \in 1..Len(rows) + Len(o) :
           (rows \o o)[i] = IF i <= Len(rows) THEN rows[i] ELSE o[i - Len(rows)]
  BY ConcatProperties, LenProperties
<1>2. r \in Seq(Nat) /\ Len(r) = Len(rows) + Len(o)
  BY <1>1, LimitsType
<1>3. /\ l \in Seq(Nat) /\ Len(l) = Len(rows) + Len(o)
      /\ \A i \in 1..Len(rows) + Len(o) :
           l[i] = IF i <= Len(rows) THEN Limits(rows)[i] ELSE Limits(o)[i - Len(rows)]
  <2> DEFINE m == Limits(rows)
             n == Limits(o)
  <2>1. /\ m \in Seq(Nat) /\ Len(m) = Len(rows)
        /\ n \in Seq(Nat) /\ Len(n) = Len(o)
    BY LimitsType
  <2> HIDE DEF m, n
  <2>2. /\ m \o n \in Seq(Nat) /\ Len(m \o n) = Len(m) + Len(n)
        /\ \A i \in 1..Len(m) + Len(n) :
             (m \o n)[i] = IF i <= Len(m) THEN m[i] ELSE n[i - Len(m)]
    BY <2>1, ConcatProperties
  <2> QED
    BY <2>1, <2>2 DEF m, n
<1>4. ASSUME NEW i \in 1..Len(l)
      PROVE  l[i] = r[i]
  <2>1. r[i] = (rows \o o)[i].budget
    BY <1>1, <1>3 DEF Limits
  <2>2. CASE i <= Len(rows)
    <3>1. l[i] = rows[i].budget
      BY <1>1, <1>3, <2>2 DEF Limits
    <3> QED
      BY <1>1, <1>3, <2>1, <2>2, <3>1
  <2>3. CASE i > Len(rows)
    <3>1. i - Len(rows) \in 1..Len(o)
      BY <1>1, <1>3, <2>3
    <3>2. l[i] = o[i - Len(rows)].budget
      BY <1>1, <1>3, <2>3, <3>1 DEF Limits
    <3> QED
      BY <1>1, <1>3, <2>1, <2>3, <3>2
  <2> QED
    BY <1>1, <1>3, <2>2, <2>3
<1> HIDE DEF l, r
<1>5. l = r
  BY <1>2, <1>3, <1>4, SeqEqual
<1> QED
  BY <1>5 DEF l, r

\* The account counts as this module does.
LEMMA SameCount ==
  ASSUME NEW S
  PROVE  Account!Cardinality(S) = Cardinality(S)
BY DEF Account!Cardinality, Cardinality

\* The account as the ledger shows it: its variables, in this module's terms.
Holds == [c \in Calls |-> AccountHold(c)]

LEMMA AccountNow ==
  /\ Account!account = <<pool.budget, Limits(ledger), Holds>>
  /\ Account!account' = <<pool'.budget, Limits(ledger'), Holds'>>
BY DEF Account!account, Limits, Holds

\* A hold depends on its call's event only.
LEMMA HoldKept ==
  ASSUME NEW c \in Calls, event'[c].state = event[c].state,
         event'[c].period = event[c].period, event'[c].amount = event[c].amount,
         event'[c].actual = event[c].actual
  PROVE  AccountHold(c)' = AccountHold(c)
BY DEF AccountHold

LEMMA HoldsKept ==
  ASSUME \A c \in Calls : /\ event'[c].state = event[c].state
                          /\ event'[c].period = event[c].period
                          /\ event'[c].amount = event[c].amount
                          /\ event'[c].actual = event[c].actual
  PROVE  Holds' = Holds
BY HoldKept DEF Holds

\* What the account finds taken of a period: the units held and charged on it.
LEMMA TakenUnits ==
  ASSUME TypeInv, NEW p
  PROVE  Account!Taken(p) = HeldUnits(p) \cup ChargedUnits(p)
<1>1. \A c \in Calls :
        /\ Account!Units(c) = UnitsOf(c, AccountHold(c).units)
        /\ AccountHold(c).state = "held" <=> event[c].state = "reserved"
        /\ AccountHold(c).state = "charged" <=> event[c].state = "finalized"
        /\ event[c].state = "reserved" =>
             AccountHold(c).period = event[c].period /\ AccountHold(c).units = event[c].amount
        /\ event[c].state = "finalized" =>
             AccountHold(c).period = event[c].period /\ AccountHold(c).units = event[c].actual
  BY DEF Account!Units, UnitsOf, AccountHold
<1>2. ASSUME NEW x
      PROVE  x \in Account!Taken(p) <=> x \in HeldUnits(p) \/ x \in ChargedUnits(p)
  <2>1. x \in Account!Taken(p) <=>
          \E c \in Calls : /\ AccountHold(c).state \in {"held", "charged"}
                           /\ AccountHold(c).period = p
                           /\ x \in Account!Units(c)
    BY DEF Account!Taken
  <2>2. x \in Account!Taken(p) <=> \E c \in Calls : HasUnit(event, c, p, x) \/ PaysUnit(event, c, p, x)
    BY <1>1, <2>1 DEF HasUnit, PaysUnit, HoldsIn, ChargedIn
  <2> QED
    BY <2>2, UnitsByCall, UnitsNow
<1> QED
  BY <1>2

\* No unit is both held and charged, so what is taken is what the row counts.
LEMMA TakenCount ==
  ASSUME TypeInv, NEW p, NEW row, Counts(row, HeldUnits(p), ChargedUnits(p))
  PROVE  Cardinality(Account!Taken(p)) = row.reserved + row.consumed
<1>1. HeldUnits(p) \cap ChargedUnits(p) = {}
  <2>1. ASSUME NEW x, NEW c \in Calls, NEW d \in Calls,
               HasUnit(event, c, p, x), PaysUnit(event, d, p, x)
        PROVE  FALSE
    <3>1. c = d
      BY <2>1, UnitsApart DEF HasUnit, PaysUnit
    <3> QED
      BY <2>1, <3>1 DEF HasUnit, PaysUnit, HoldsIn, ChargedIn
  <2> QED
    BY <2>1, UnitsByCall, UnitsNow
<1>2. /\ IsFiniteSet(HeldUnits(p)) /\ IsFiniteSet(ChargedUnits(p))
      /\ Cardinality(HeldUnits(p)) = row.reserved
      /\ Cardinality(ChargedUnits(p)) = row.consumed
  BY DEF Counts
<1>3. /\ Cardinality(HeldUnits(p) \cap ChargedUnits(p)) = 0
      /\ Cardinality(HeldUnits(p)) \in Nat /\ Cardinality(ChargedUnits(p)) \in Nat
  BY <1>1, <1>2, FS_EmptySet, FS_CardinalityType
<1>4. Cardinality(HeldUnits(p) \cup ChargedUnits(p)) =
        Cardinality(HeldUnits(p)) + Cardinality(ChargedUnits(p))
  <2> DEFINE H == HeldUnits(p)
             C == ChargedUnits(p)
  <2>1. /\ IsFiniteSet(H) /\ IsFiniteSet(C) /\ Cardinality(H \cap C) = 0
        /\ Cardinality(H) \in Nat /\ Cardinality(C) \in Nat
    BY <1>2, <1>3
  <2> HIDE DEF H, C
  <2>2. Cardinality(H \cup C) = Cardinality(H) + Cardinality(C) - Cardinality(H \cap C)
    BY <2>1, FS_Union
  <2> QED
    BY <2>1, <2>2 DEF H, C
<1> QED
  BY <1>2, <1>4, TakenUnits

\* The limits a transaction on the pool leaves behind: those of the account once
\* the periods it opened are open there.
LEMMA OpenedLimits ==
  ASSUME TypeInv, DraftsCurrent, NEW t \in Tx, OnPool(t)
  PROVE  /\ Account!Opened(Len(tx[t].opened)) = Limits(ledger \o tx[t].opened)
         /\ Len(ledger) + Len(tx[t].opened) = tx[t].period
         /\ tx[t].period \in 1..Len(ledger \o tx[t].opened)
         /\ Limits(ledger \o tx[t].opened)[tx[t].period] = RowOf(t).budget
         /\ Len(tx[t].opened) \in Nat
<1> DEFINE o == tx[t].opened
           b == pool.budget
<1>1. /\ o \in Seq(LedgerRows) /\ Len(o) \in Nat /\ b \in Nat
      /\ ledger \in Seq(LedgerRows)
      /\ tx[t].period \in 1..Len(ledger \o o)
  BY RowOfType, LedgerType, LenProperties DEF TypeInv, TypeOK, Pools
<1>2. /\ \A i \in 1..Len(o) : o[i].budget = b
      /\ Len(ledger) + Len(o) = tx[t].period
  BY DEF DraftsCurrent, DraftCurrent
<1>3. Account!Opened(Len(o)) = Limits(ledger) \o [i \in 1..Len(o) |-> b]
  BY DEF Account!Opened, Limits
<1>4. Limits(ledger \o o)[tx[t].period] = RowOf(t).budget
  BY <1>1 DEF Limits, RowOf
<1> HIDE DEF o, b
<1>5. Account!Opened(Len(o)) = Limits(ledger \o o)
  BY <1>1, <1>2, <1>3, SameLimits, LimitsConcat
<1> QED
  BY <1>1, <1>2, <1>4, <1>5 DEF o

\* Booking a row on a period changes the limits there, to its budget.
LEMMA LimitsBooked ==
  ASSUME NEW rows \in Seq(LedgerRows), NEW p \in 1..Len(rows), NEW row \in LedgerRows
  PROVE  Limits([rows EXCEPT ![p] = row]) = [Limits(rows) EXCEPT ![p] = row.budget]
<1> DEFINE booked == [rows EXCEPT ![p] = row]
<1>1. /\ Len(booked) = Len(rows)
      /\ \A j \in 1..Len(rows) : booked[j] = IF j = p THEN row ELSE rows[j]
  BY ExceptSeq
<1> HIDE DEF booked
<1>2. Limits(booked) = [j \in 1..Len(rows) |-> (IF j = p THEN row ELSE rows[j]).budget]
  BY <1>1 DEF Limits
<1>3. [Limits(rows) EXCEPT ![p] = row.budget] =
        [j \in 1..Len(rows) |-> IF j = p THEN row.budget ELSE rows[j].budget]
  BY DEF Limits
<1>4. \A j \in 1..Len(rows) :
        (IF j = p THEN row ELSE rows[j]).budget = IF j = p THEN row.budget ELSE rows[j].budget
  OBVIOUS
<1>5. Limits(booked) = [Limits(rows) EXCEPT ![p] = row.budget]
  BY <1>2, <1>3, <1>4
<1> QED
  BY <1>5 DEF booked

AccountStep == Account!AccountNext \/ UNCHANGED Account!account

\* What every step of the simulation starts from.
Ready ==
  /\ TypeInv /\ LockInv /\ CallsOwned /\ DraftsCurrent /\ GrantsCovered
  /\ RemainingAddsUp /\ RowsCount /\ AllAsksBounded

\* A step that leaves the budgets and what counts of the events alone.
LEMMA StutterStep ==
  ASSUME ledger' = ledger, pool'.budget = pool.budget,
         \A c \in Calls : /\ event'[c].state = event[c].state
                          /\ event'[c].period = event[c].period
                          /\ event'[c].amount = event[c].amount
                          /\ event'[c].actual = event[c].actual
  PROVE  AccountStep
<1>1. Holds' = Holds
  BY HoldsKept
<1> QED
  BY <1>1, AccountNow DEF AccountStep, Limits

\* Opening periods is a step of the account.
LEMMA OpenStep ==
  ASSUME NEW n \in 1..2, Limits(ledger') = Account!Opened(n), pool' = pool, event' = event
  PROVE  AccountStep
<1>1. Account!Open
  BY DEF Account!Open, Limits, AccountHold
<1> QED
  BY <1>1 DEF AccountStep, Account!AccountNext

\* A refused reservation keeps the periods it opened, if any.
LEMMA RefuseStep ==
  ASSUME Ready, NEW t \in Tx, RefuseReserve(t)
  PROVE  AccountStep
<1>1. OnPool(t) /\ tx[t].kind = "reserve"
  BY DEF RefuseReserve, AtLedger, OnPool
<1>2. /\ Account!Opened(Len(tx[t].opened)) = Limits(ledger')
      /\ Len(tx[t].opened) \in Nat
  BY <1>1, OpenedLimits DEF Ready, RefuseReserve
<1>3. Len(tx[t].opened) <= 2
  BY <1>1, <1>2 DEF Ready, AllAsksBounded, AsksBounded
<1>4. pool' = pool /\ event' = event
  BY DEF RefuseReserve
<1>5. CASE Len(tx[t].opened) = 0
  <2>1. tx[t].opened \in Seq(LedgerRows) /\ ledger \in Seq(LedgerRows)
    BY <1>1, RowOfType, LedgerType DEF Ready, TypeInv
  <2>2. tx[t].opened = <<>>
    BY <1>5, <2>1
  <2>3. ledger' = ledger
    BY <2>1, <2>2, ConcatEmptySeq DEF RefuseReserve
  <2> QED
    BY <1>4, <2>3, StutterStep
<1>6. CASE Len(tx[t].opened) \in 1..2
  BY <1>2, <1>4, <1>6, OpenStep
<1>7. Len(tx[t].opened) = 0 \/ Len(tx[t].opened) \in 1..2
  <2> DEFINE n == Len(tx[t].opened)
  <2>1. n \in Nat /\ n <= 2
    BY <1>2, <1>3
  <2> HIDE DEF n
  <2>2. n = 0 \/ n \in 1..2
    BY <2>1
  <2> QED
    BY <2>2 DEF n
<1> QED
  BY <1>5, <1>6, <1>7

\* The rollover job opens one period.
LEMMA RollOverStep ==
  ASSUME Ready, RollOver
  PROVE  AccountStep
<1> DEFINE row == NewPeriod
           b == pool.budget
<1>1. /\ Opening(ledger) = <<row>> /\ row \in LedgerRows /\ row.budget = b /\ b \in Nat
      /\ ledger \in Seq(LedgerRows)
  BY OpeningType, NewPeriodType, LedgerType DEF Ready, RollOver, TypeInv, TypeOK, Pools
<1>2. ledger' = ledger \o <<row>> /\ pool' = pool /\ event' = event
  BY <1>1 DEF RollOver
<1>3. Account!Opened(1) = Limits(ledger) \o [i \in 1..1 |-> b]
  BY DEF Account!Opened, Limits
<1> HIDE DEF row, b
<1>4. /\ <<row>> \in Seq(LedgerRows) /\ Len(<<row>>) = 1
      /\ \A i \in 1..Len(<<row>>) : <<row>>[i].budget = b
  BY <1>1
<1>5. [i \in 1..1 |-> b] = Limits(<<row>>)
  BY <1>1, <1>4, SameLimits
<1>6. Account!Opened(1) = Limits(ledger')
  BY <1>1, <1>2, <1>3, <1>4, <1>5, LimitsConcat
<1> QED
  BY <1>2, <1>6, OpenStep

\* A natural number up to m.
LEMMA UpTo ==
  ASSUME NEW m \in Nat, NEW n \in Nat, n <= m
  PROVE  n \in 0..m
OBVIOUS

\* One call's hold changes; the others stay.
LEMMA HoldChange ==
  ASSUME NEW c \in Calls, Elsewhere(event, event', c)
  PROVE  Holds' = [Holds EXCEPT ![c] = AccountHold(c)']
<1>1. \A d \in Calls \ {c} : AccountHold(d)' = AccountHold(d)
  BY HoldKept DEF Elsewhere
<1> QED
  BY <1>1 DEF Holds

\* A reservation commits what the account grants: units of the open period that
\* no other call holds or used.
LEMMA GrantStep ==
  ASSUME Ready, NEW t \in Tx, CommitReserve(t),
         NEW c, c = tx[t].call, NEW p, p = tx[t].period, NEW g, g = tx[t].grant,
         NEW o, o = tx[t].opened, NEW n, n = Len(o)
  PROVE  AccountStep
<1>1. /\ OnPool(t) /\ tx[t] \in ReserveTx /\ RowOf(t) \in LedgerRows
      /\ Reserving(t) \in LedgerRows /\ Reserving(t).budget = RowOf(t).budget
  BY ReservedRow DEF Ready
<1>2. /\ Account!Opened(n) = Limits(ledger \o o) /\ Len(ledger) + n = p
      /\ p \in 1..Len(ledger \o o) /\ n \in Nat
      /\ Limits(ledger \o o)[p] = RowOf(t).budget
  BY <1>1, OpenedLimits DEF Ready
<1>3. /\ ledger \o o \in Seq(LedgerRows) /\ Limits(ledger \o o) \in Seq(Nat)
      /\ Len(Limits(ledger \o o)) = Len(ledger \o o)
  BY <1>1, RowOfType, LimitsType DEF Ready
<1>4. Limits(ledger') = Limits(ledger \o o)
  <2>1. ledger' = [ledger \o o EXCEPT ![p] = Reserving(t)]
    BY DEF CommitReserve
  <2> DEFINE rows == ledger \o o
             l == Limits(rows)
             row == Reserving(t)
  <2>2. /\ rows \in Seq(LedgerRows) /\ p \in 1..Len(rows) /\ row \in LedgerRows
        /\ ledger' = [rows EXCEPT ![p] = row] /\ row.budget = l[p]
    BY <1>1, <1>2, <1>3, <2>1
  <2> HIDE DEF rows, row
  <2>3. Limits(ledger') = [l EXCEPT ![p] = l[p]]
    <3>1. Limits([rows EXCEPT ![p] = row]) = [Limits(rows) EXCEPT ![p] = row.budget]
      BY <2>2, LimitsBooked
    <3> QED
      BY <2>2, <3>1
  <2>4. [l EXCEPT ![p] = l[p]] = l
    BY DEF Limits
  <2> QED
    BY <2>3, <2>4 DEF rows
<1>5. tx[t].kind = "reserve" /\ tx[t].step = "commit"
  BY DEF CommitReserve
<1>6. n \in 0..2 /\ g \in 1..MaxAsk
  <2>1. /\ tx[t].ask \in 1..MaxAsk /\ n <= (IF tx[t].retried THEN 2 ELSE 1)
        /\ g <= tx[t].ask
    BY <1>5 DEF Ready, AllAsksBounded, AsksBounded
  <2>2. g \in Nat /\ g > 0
    BY <1>1, <1>5 DEF Ready, GrantsCovered, GrantCovered, ReserveTx
  <2> QED
    <3>1. n <= 2
      BY <1>2, <2>1
    <3>2. g \in 1..MaxAsk
      BY <2>1, <2>2, BoundsAssumption
    <3>3. n \in Nat
      BY <1>2
    <3>4. n \in 0..2
      BY <3>1, <3>3, UpTo
    <3> QED
      BY <3>2, <3>4
<1>7. Account!Cardinality(Account!Taken(p)) + g <= Account!Opened(n)[p]
  <2>1. Counts(RowOf(t), HeldUnits(p), ChargedUnits(p))
    BY <1>1, <1>2, RowOfType, SeenCounts DEF Ready, RowOf
  <2>2. Account!Cardinality(Account!Taken(p)) = RowOf(t).reserved + RowOf(t).consumed
    BY <2>1, TakenCount, SameCount DEF Ready
  <2>3. AddsUp(RowOf(t))
    <3>1. Ready
      OBVIOUS
    <3>2. CASE p <= Len(ledger)
      <4>1. RowOf(t) = ledger[p] /\ p \in 1..Len(ledger)
        BY <1>1, <1>2, <3>2, RowOfType DEF Ready, RowOf
      <4> QED
        BY <4>1 DEF Ready, RemainingAddsUp
    <3>3. CASE p > Len(ledger)
      <4> DEFINE row == o[p - Len(ledger)]
      <4>1. Len(ledger) \in Nat /\ p - Len(ledger) \in 1..n
        BY <1>2, <3>3, LedgerType DEF Ready, TypeInv
      <4>2. RowOf(t) = row
        BY <1>1, <1>2, <3>3, <4>1, RowOfType DEF Ready, RowOf
      <4>3. /\ row.budget = pool.budget /\ row.remaining = pool.budget
            /\ row.reserved = 0 /\ row.consumed = 0
        BY <1>1, <4>1 DEF Ready, DraftsCurrent, DraftCurrent
      <4>4. pool.budget \in Nat
        BY DEF Ready, TypeInv, TypeOK, Pools
      <4> HIDE DEF row
      <4> QED
        BY <4>2, <4>3, <4>4, UntouchedAddsUp
    <3> QED
      BY <1>2, <3>2, <3>3, LedgerType DEF Ready, TypeInv
  <2>4. g \in Nat /\ g > 0 /\ g <= RowOf(t).remaining
    BY <1>1, <1>5 DEF Ready, GrantsCovered, GrantCovered, ReserveTx
  <2>5. /\ RowOf(t).reserved \in Nat /\ RowOf(t).consumed \in Nat
        /\ RowOf(t).budget \in Nat
    BY <1>1 DEF LedgerRows
  <2>6. g <= AtLeast0(RowOf(t).budget - RowOf(t).reserved - RowOf(t).consumed)
    BY <2>3, <2>4 DEF AddsUp
  <2>7. RowOf(t).reserved + RowOf(t).consumed + g <= RowOf(t).budget
    BY <2>4, <2>5, <2>6 DEF AtLeast0
  <2> QED
    BY <1>2, <2>2, <2>7
<1>8. c \in Calls /\ event[c].state = "none" /\ Elsewhere(event, event', c)
  BY <1>1, OwnedCommit DEF Ready, CallsOwned, CommitReserve, Elsewhere, ReserveTx
<1>9. event'[c] = Reservation(t)
  BY <1>8 DEF CommitReserve, Ready, TypeInv, TypeOK
<1>10. AccountHold(c)' = [state |-> "held", period |-> p, units |-> g]
  <2>1. /\ event'[c].state = "reserved" /\ event'[c].period = p /\ event'[c].amount = g
    BY <1>9 DEF Reservation
  <2> QED
    BY <1>8, <2>1 DEF AccountHold
<1>11. Holds' = [Holds EXCEPT ![c] = [state |-> "held", period |-> p, units |-> g]]
  BY <1>8, <1>10, HoldChange
<1>12. Holds[c].state = "none"
  BY <1>8 DEF Holds, AccountHold
<1>13. Len(Limits(ledger)) = Len(ledger)
  BY LimitsType, LedgerType DEF Ready, TypeInv
<1>14. pool' = pool
  BY DEF CommitReserve
<1>15. Limits(ledger') = Account!Opened(n) /\ Len(Limits(ledger)) + n = p
  BY <1>2, <1>4, <1>13
<1>16. Account!Grant(c, n, g)
  BY <1>7, <1>11, <1>12, <1>14, <1>15 DEF Account!Grant, Limits, Holds
<1> QED
  BY <1>6, <1>8, <1>16 DEF AccountStep, Account!AccountNext

\* The budgets of the rows a settlement leaves behind are those it found.
LEMMA SettledLimits ==
  ASSUME Ready, NEW t \in Tx, CommitCharge(t) \/ CommitRelease(t)
  PROVE  Limits(ledger') = Limits(ledger) /\ pool' = pool
<1>1. /\ Len(ledger') = Len(ledger)
      /\ \A i \in 1..Len(ledger) : ledger'[i].budget = ledger[i].budget
  BY SettledRow DEF Ready
<1> QED
  BY <1>1 DEF Limits, CommitCharge, CommitRelease

\* A settlement that commits is a charge or a release of the account.
LEMMA SettleStepSim ==
  ASSUME Ready, NEW t \in Tx, CommitCharge(t) \/ CommitRelease(t),
         NEW c, c = tx[t].call, NEW charge, charge = Charged(t)
  PROVE  AccountStep
<1>1. /\ tx[t] \in SettleTx /\ event[c].state = "reserved"
      /\ event[c].period = tx[t].period /\ event'[c].period = tx[t].period
      /\ \/ event'[c].state = "released" /\ charge = 0
         \/ event'[c].state = "finalized" /\ event'[c].actual = charge
  BY SettledAmounts DEF Ready
<1>2. c \in Calls /\ Elsewhere(event, event', c)
  BY OwnedCommit DEF Ready, Elsewhere
<1>3. Limits(ledger') = Limits(ledger) /\ pool' = pool
  BY SettledLimits
<1>4. charge \in 0..(MaxRequests + MaxTokens)
  <2>1. tx[t].tally.requests \in 0..MaxRequests /\ tx[t].tally.tokens \in 0..MaxTokens
    BY <1>1 DEF SettleTx, Tallies
  <2>2. charge \in {tx[t].tally.requests, tx[t].tally.tokens, 0}
    BY DEF Charged, ChargeOf
  <2> QED
    BY <2>1, <2>2, BoundsAssumption
<1>5. /\ Holds[c] = AccountHold(c)
      /\ AccountHold(c) = [state |-> "held", period |-> event[c].period,
                           units |-> event[c].amount]
  BY <1>1, <1>2 DEF Holds, AccountHold
<1>8. ASSUME NEW state, NEW units
      PROVE  [Holds EXCEPT ![c].state = state, ![c].units = units]
               = [Holds EXCEPT ![c] = [state |-> state, period |-> event[c].period,
                                       units |-> units]]
  <2>1. Holds = [d \in Calls |-> Holds[d]]
    BY DEF Holds
  <2>2. Holds[c] = [state |-> "held", period |-> event[c].period,
                    units |-> event[c].amount]
    BY <1>5
  <2> DEFINE f == Holds
             y == event[c].period
             z == event[c].amount
             h == [state |-> state, period |-> y, units |-> units]
             k == [f[c] EXCEPT !.state = state]
  <2>3. f = [d \in Calls |-> f[d]] /\ f[c] = [state |-> "held", period |-> y, units |-> z]
    BY <2>1, <2>2
  <2> HIDE DEF f, y, z
  <2>4. [f EXCEPT ![c].state = state, ![c].units = units]
          = [d \in Calls |-> IF d = c THEN [k EXCEPT !.units = units] ELSE f[d]]
    BY <1>2, <2>3
  <2>5. k = [state |-> state, period |-> y, units |-> z]
    BY <2>3
  <2> HIDE DEF k
  <2>6. [k EXCEPT !.units = units] = h
    BY <2>5
  <2>7. [f EXCEPT ![c] = h] = [d \in Calls |-> IF d = c THEN h ELSE f[d]]
    BY <1>2, <2>3
  <2>8. [f EXCEPT ![c].state = state, ![c].units = units] = [f EXCEPT ![c] = h]
    BY <2>4, <2>6, <2>7
  <2> QED
    BY <2>8 DEF f, y
<1>6. CASE event'[c].state = "finalized" /\ event'[c].actual = charge
  <2>1. AccountHold(c)' =
          [state |-> "charged", period |-> event[c].period, units |-> charge]
    BY <1>1, <1>6 DEF AccountHold
  <2>2. Holds' = [Holds EXCEPT ![c] =
                    [state |-> "charged", period |-> event[c].period, units |-> charge]]
    BY <1>2, <2>1, HoldChange
  <2>3. Holds' = [Holds EXCEPT ![c].state = "charged", ![c].units = charge]
    BY <1>8, <2>2
  <2>4. Account!Charge(c, charge)
    BY <1>3, <1>5, <2>3 DEF Account!Charge, Limits, Holds
  <2> QED
    BY <1>2, <1>4, <2>4 DEF AccountStep, Account!AccountNext
<1>7. CASE event'[c].state = "released"
  <2>1. AccountHold(c)' =
          [state |-> "released", period |-> event[c].period, units |-> 0]
    BY <1>1, <1>7 DEF AccountHold
  <2>2. Holds' = [Holds EXCEPT ![c] =
                    [state |-> "released", period |-> event[c].period, units |-> 0]]
    BY <1>2, <2>1, HoldChange
  <2>3. Holds' = [Holds EXCEPT ![c].state = "released", ![c].units = 0]
    BY <1>8, <2>2
  <2>4. Account!Release(c)
    BY <1>3, <1>5, <2>3 DEF Account!Release, Limits, Holds
  <2> QED
    BY <1>2, <2>4 DEF AccountStep, Account!AccountNext
<1> QED
  BY <1>1, <1>6, <1>7

\* A budget edit that commits sets the budget of the account and of its open
\* period.
LEMMA BudgetStepSim ==
  ASSUME Ready, NEW t \in Tx, CommitBudgetEdit(t),
         NEW o, o = tx[t].opened, NEW n, n = Len(o), NEW p, p = tx[t].period,
         NEW b, b = tx[t].pool.budget
  PROVE  AccountStep
<1>1. /\ OnPool(t) /\ Rebudgeting(t) \in LedgerRows /\ Rebudgeting(t).budget = b
  BY RebudgetedRow DEF Ready
<1>2. /\ Account!Opened(n) = Limits(ledger \o o) /\ Len(ledger) + n = p
      /\ p \in 1..Len(ledger \o o) /\ n \in Nat
  BY <1>1, OpenedLimits DEF Ready
<1>3. ledger \o o \in Seq(LedgerRows)
  BY <1>1, RowOfType DEF Ready
<1>4. Limits(ledger') = [Account!Opened(n) EXCEPT ![p] = b]
  <2> DEFINE rows == ledger \o o
             row == Rebudgeting(t)
  <2>1. /\ rows \in Seq(LedgerRows) /\ p \in 1..Len(rows) /\ row \in LedgerRows
        /\ ledger' = [rows EXCEPT ![p] = row] /\ row.budget = b
        /\ Account!Opened(n) = Limits(rows)
    BY <1>1, <1>2, <1>3 DEF CommitBudgetEdit
  <2> HIDE DEF rows, row
  <2>2. Limits([rows EXCEPT ![p] = row]) = [Limits(rows) EXCEPT ![p] = row.budget]
    BY <2>1, LimitsBooked
  <2> QED
    BY <2>1, <2>2
<1>5. n \in 0..1 /\ b \in Budgets
  <2>1. tx[t].kind = "budget"
    BY DEF CommitBudgetEdit, AtLedger
  <2>2. n <= 1 /\ b \in Budgets
    BY <2>1 DEF Ready, AllAsksBounded, AsksBounded
  <2>3. n \in Nat
    BY <1>2
  <2>4. n \in 0..1
    BY <2>2, <2>3, UpTo
  <2> QED
    BY <2>2, <2>4
<1>6. Holds' = Holds /\ pool'.budget = b
  BY HoldsKept DEF CommitBudgetEdit
<1>7. Len(Limits(ledger)) = Len(ledger)
  BY LimitsType, LedgerType DEF Ready, TypeInv
<1>8. Len(Limits(ledger)) + n = p
  BY <1>2, <1>7
<1>9. Account!SetBudget(b, n)
  BY <1>4, <1>6, <1>8 DEF Account!SetBudget, Limits, Holds
<1> QED
  BY <1>5, <1>9 DEF AccountStep, Account!AccountNext

\* Every step of the ledger is a step of the account, or leaves it alone.
LEMMA AccountNextStep ==
  ASSUME Ready, [Next]_vars
  PROVE  AccountStep
<1>1. CASE ledger' = ledger /\ pool'.budget = pool.budget /\ event' = event
  BY <1>1, StutterStep
<1>2. ASSUME NEW c \in Calls, NEW tally \in Tallies, RecordUsage(c, tally)
      PROVE  AccountStep
  <2>1. \A d \in Calls : /\ event'[d].state = event[d].state
                         /\ event'[d].period = event[d].period
                         /\ event'[d].amount = event[d].amount
                         /\ event'[d].actual = event[d].actual
    BY <1>2 DEF RecordUsage, Ready, TypeInv, TypeOK, Events
  <2>2. ledger' = ledger /\ pool' = pool
    BY <1>2 DEF RecordUsage
  <2> QED
    BY <2>1, <2>2, StutterStep
<1>3. ASSUME NEW t \in Tx, ReserveStep(t) \/ SettleStep(t) \/ BudgetStep(t) \/ Rollback(t)
      PROVE  AccountStep
  <2>1. CASE CommitReserve(t)
    BY <2>1, GrantStep
  <2>2. CASE CommitCharge(t) \/ CommitRelease(t)
    BY <2>2, SettleStepSim
  <2>3. CASE CommitBudgetEdit(t)
    BY <2>3, BudgetStepSim
  <2> QED
    BY <1>1, <1>3, <2>1, <2>2, <2>3, RefuseStep
       DEF ReserveStep, SettleStep, BudgetStep, Rollback, BeginReserve, ReopenPeriod,
           GiveUpReserve, GrantReserve, BeginSettle, LockLedgerToSettle, BeginBudgetEdit
<1>4. CASE \/ Tick \/ UNCHANGED vars \/ \E edited \in Editable : PatchPool(edited)
  BY <1>1, <1>4 DEF Tick, vars, PatchPool
<1> QED
  BY <1>2, <1>3, <1>4, RollOverStep DEF Next

\* The account starts as the ledger does.
LEMMA AccountStarts == Init => Account!AccountInit
<1> SUFFICES ASSUME Init
             PROVE  Account!AccountInit
  OBVIOUS
<1>1. pool.budget \in Budgets
  BY DEF Init, Editable
<1>2. Limits(ledger) = <<pool.budget>>
  <2> DEFINE row == NewPeriod
             b == pool.budget
  <2>1. ledger = <<row>> /\ row.budget = b
    BY DEF Init, NewPeriod
  <2> HIDE DEF row, b
  <2>2. Limits(<<row>>) = [p \in 1..1 |-> b]
    BY <2>1 DEF Limits
  <2>3. [p \in 1..1 |-> b] = <<b>>
    OBVIOUS
  <2> QED
    BY <2>1, <2>2, <2>3 DEF b
<1>3. Holds = [c \in Calls |-> Account!NoHold]
  BY DEF Init, Holds, AccountHold, Account!NoHold
<1> QED
  BY <1>1, <1>2, <1>3 DEF Account!AccountInit, Limits, Holds

\* Nothing has been asked for at the start.
LEMMA AsksInit == Init => AllAsksBounded
BY DEF Init, AllAsksBounded, AsksBounded

\* The transactions of a pool, interleaved and rolled back at will, do what an
\* account of atomic operations does: units are only granted that no other call
\* holds or used, and every hold ends once.
THEOREM LedgerImplementsAccount == Spec => ImplementsAccount
<1>1. IInv /\ RowsCount /\ [Next]_vars => RowsCount'
  BY CountsNext DEF IInv, LedgerInv, TypeInv, LockInv
<1>2. IInv /\ AllAsksBounded /\ [Next]_vars => AllAsksBounded'
  BY AsksNext DEF IInv, LedgerInv, TypeInv
<1>3. IInv /\ RowsCount /\ AllAsksBounded /\ [Next]_vars
        => [Account!AccountNext]_(Account!account)
  BY AccountNextStep DEF IInv, LedgerInv, TypeInv, LockInv, Ready, AccountStep
<1> QED
  BY <1>1, <1>2, <1>3, CountsInit, AsksInit, AccountStarts, Invariant, PTL
     DEF Spec, ImplementsAccount, Account!AccountSpec
=============================================================================
