------------------------------ MODULE RowLocks ------------------------------
(***************************************************************************)
(* The row locks of PostgreSQL, as the quota code uses them.  A            *)
(* transaction keeps every lock it takes until it commits or rolls back; a *)
(* statement that needs a lock another transaction's lock conflicts with   *)
(* waits.  Foreign keys make an insert take a "key share" lock on the row  *)
(* it references.                                                          *)
(***************************************************************************)
LockModes == {"key share", "share", "no key update", "update"}

\* PostgreSQL's conflict table for row-level locks, each pair once.
ConflictingPairs ==
  {{"key share", "update"},
   {"share", "no key update"}, {"share", "update"},
   {"no key update"}, {"no key update", "update"},
   {"update"}}

Conflicts(m, n) == {m, n} \in ConflictingPairs

Lock(row, mode) == [row |-> row, mode |-> mode]

\* Transaction u's locks make a request for `row` in `mode` wait.
Blocks(held, u, row, mode) ==
  \E l \in held[u] : l.row = row /\ Conflicts(l.mode, mode)

\* Nobody but t stands in the way of t locking `row`.
CanLock(held, t, row, mode) ==
  \A u \in DOMAIN held \ {t} : ~Blocks(held, u, row, mode)

\* Nobody at all holds a conflicting lock: a transaction of one statement runs.
Unlocked(held, row, mode) ==
  \A u \in DOMAIN held : ~Blocks(held, u, row, mode)
=============================================================================
