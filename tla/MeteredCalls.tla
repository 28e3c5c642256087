---------------------------- MODULE MeteredCalls ----------------------------
(***************************************************************************)
(* The processes around the ledger: calls that reserve, run provider       *)
(* requests, store their usage and settle (packages/quota/src/             *)
(* metered-call.ts, enforcement.ts), the stale job that ends what a dead   *)
(* process left open, the roll-over job, and administrators.                *)
(*                                                                         *)
(* Each of them runs its transactions in a session of its own.  A process  *)
(* may crash at any moment; a write may fail, or succeed without its caller *)
(* ever hearing of it.                                                      *)
(***************************************************************************)
EXTENDS QuotaLedger

CONSTANTS
  Recoverers,     \* runs of the stale job
  Admins,         \* sessions that edit the pool
  MeteringModes,  \* the modes the provider may be switched between
  AskedRequests,  \* maxRequests of a call
  AskedTokens,    \* its input and output cap
  StepTokens,     \* what one provider request may report
  CallTimeout,    \* METERED_CALL_TIMEOUT_MS
  StaleAge,       \* STALE_RESERVATION_AGE_MS
  HearTime,       \* a timely process knows of its reservation this soon
  SettleTime,     \* and has settled this soon after its deadline
  Timely          \* processes are timely

ASSUME SessionsAssumption ==
  /\ Calls \subseteq Tx /\ Recoverers \subseteq Tx /\ Admins \subseteq Tx
  /\ Calls \cap Recoverers = {} /\ Calls \cap Admins = {}

ASSUME CallsAssumption ==
  /\ MeteringModes \subseteq Modes
  /\ AskedRequests \in 1..MaxAsk /\ AskedTokens \in 1..MaxAsk
  /\ AskedRequests <= MaxRequests
  /\ StepTokens \subseteq Nat
  /\ CallTimeout \in Nat /\ StaleAge \in Nat /\ CallTimeout < StaleAge
  /\ HearTime \in Nat /\ SettleTime \in Nat
  /\ Timely \in BOOLEAN

\* What the deadline leaves of a reservation's age (five minutes) is enough for a
\* timely process to hear of the reservation and to settle it.
ASSUME TimelyAssumption == HearTime + CallTimeout + SettleTime <= StaleAge

VARIABLES
  meteringMode,  \* the provider's
  client         \* client[c]: what the process running c has in memory

callVars == <<vars, meteringMode, client>>

\* pending: the snapshots whose writes were asked for; the first one is being
\* written by the holder of the permit.  aborts: when the deadline signal fires.
Clients == [phase : {"new", "resolved", "open", "settling", "settled",
                     "left", "failed", "dead"},
            mode : Modes, grant : 0..MaxAsk, steps : Tallies,
            pending : Seq(Tallies), aborts : Nat]

CallsTypeOK ==
  /\ meteringMode \in MeteringModes
  /\ client \in [Calls -> Clients]

NewClient == [phase |-> "new", mode |-> "tokens", grant |-> 0,
              steps |-> NoSteps, pending |-> <<>>, aborts |-> 0]

\* reservationAmount
AskFor(mode) == IF mode = "requests" THEN AskedRequests ELSE AskedTokens

\* A slip: as many as were asked for.
RequestsAsked(mode, amount) == AskedRequests

\* A call of metered requests may make as many as were granted.
RequestsGranted(mode, amount) ==
  IF mode = "requests" THEN amount ELSE AskedRequests
-----------------------------------------------------------------------------
(* startMeteredCall                                                        *)

\* The pool is resolved without a lock; its provider's mode is used later.
Resolve(c) ==
  /\ client[c].phase = "new"
  /\ client' = [client EXCEPT ![c].phase = "resolved", ![c].mode = meteringMode]
  /\ UNCHANGED <<vars, meteringMode>>

StartReserve(c) ==
  /\ client[c].phase = "resolved"
  /\ BeginReserve(c, c, client[c].mode, AskFor(client[c].mode))
  /\ UNCHANGED <<meteringMode, client>>

WaitInReserve(c) ==
  /\ ReopenPeriod(c) \/ GrantReserve(c)
  /\ UNCHANGED <<meteringMode, client>>

\* QUOTA_EXHAUSTED, or an error: the call fails before it runs.  (A transaction
\* repeated after a deadlock leaves no trace: it is one that began later.)
FailReserve(c) ==
  /\ \/ RefuseReserve(c)
     \/ GiveUpReserve(c)
     \/ tx[c].kind = "reserve" /\ Rollback(c)
  /\ client' = [client EXCEPT ![c].phase = "failed"]
  /\ UNCHANGED meteringMode

\* The deadline's timer starts once the reservation is known to the process.
Opens(c) ==
  /\ CommitReserve(c)
  /\ client' = [client EXCEPT ![c].phase = "open",
                  ![c].grant = RequestsGranted(client[c].mode, tx[c].grant),
                  ![c].aborts = now + CallTimeout]
  /\ UNCHANGED meteringMode

\* The reservation is made but the answer is lost: the call fails, unaware.
OpensUnheard(c) ==
  /\ CommitReserve(c)
  /\ client' = [client EXCEPT ![c].phase = "failed"]
  /\ UNCHANGED meteringMode
-----------------------------------------------------------------------------
(* record                                                                  *)

\* A provider request finished: its step joins the others, and a write of all
\* of them joins the queue for the permit.
FinishRequest(c, tokens) ==
  LET steps == [requests |-> client[c].steps.requests + 1,
                tokens |-> client[c].steps.tokens + tokens] IN
  /\ client[c].phase = "open"
  /\ client[c].steps.requests < client[c].grant
  /\ now <= client[c].aborts
  /\ steps \in Tallies
  /\ client' = [client EXCEPT ![c].steps = steps,
                              ![c].pending = Append(@, steps)]
  /\ UNCHANGED <<vars, meteringMode>>

\* A request that finishes once the call settles is logged and not charged.
FinishTooLate(c) ==
  /\ client[c].phase \in {"settling", "settled", "left"}
  /\ client[c].steps.requests < client[c].grant
  /\ UNCHANGED callVars

Writing(c) == client[c].pending # <<>>
WriteDone(c) == client' = [client EXCEPT ![c].pending = Tail(@)]

\* The write replaces the stored tally; an unheard one is tried again.
StoreSteps(c) ==
  /\ Writing(c)
  /\ RecordUsage(c, Head(client[c].pending))
  /\ WriteDone(c) \/ UNCHANGED client
  /\ UNCHANGED meteringMode

\* The write found the reservation settled, or no fewer requests stored.
StoreNothing(c) ==
  /\ Writing(c)
  /\ Unlocked(held, EventRow(c), "update")
  /\ \/ event[c].state # "reserved"
     \/ event[c].stored.requests >= Head(client[c].pending).requests
  /\ WriteDone(c)
  /\ UNCHANGED <<vars, meteringMode>>

\* Every retry failed: the write is logged and dropped.
DropWrite(c) ==
  /\ Writing(c)
  /\ WriteDone(c)
  /\ UNCHANGED <<vars, meteringMode>>
-----------------------------------------------------------------------------
(* settle                                                                  *)

\* The call ended, whichever way.  The write in progress is awaited; those
\* behind it will find the call settling and do nothing.
StartSettle(c) ==
  /\ client[c].phase = "open"
  /\ client' = [client EXCEPT ![c].phase = "settling",
                  ![c].pending = SubSeq(@, 1, Least(1, Len(@)))]
  /\ UNCHANGED <<vars, meteringMode>>

SettleWithPermit(c) == client[c].phase = "settling" /\ ~Writing(c)

Settled(c) == client' = [client EXCEPT ![c].phase = "settled"]

\* A slip: the call settles for what it stored.
TrySettleStored(c) ==
  /\ SettleWithPermit(c)
  /\ BeginSettle(c, c, event[c].stored)
  /\ UNCHANGED <<meteringMode, client>>

TrySettle(c) ==
  /\ SettleWithPermit(c)
  /\ BeginSettle(c, c, client[c].steps)
  /\ UNCHANGED <<meteringMode, client>>

WaitInSettle(t) ==
  /\ LockLedgerToSettle(t)
  /\ UNCHANGED <<meteringMode, client>>

\* An answer that is lost makes the call try again.
EndSettle(c) ==
  /\ CommitCharge(c) \/ CommitRelease(c)
  /\ Settled(c) \/ UNCHANGED client
  /\ UNCHANGED meteringMode

\* Settled before, by this call's unheard try or by the stale job.
FindSettled(c) ==
  /\ SettleWithPermit(c) /\ tx[c] = Idle
  /\ Unlocked(held, EventRow(c), "update")
  /\ event[c].state # "reserved"
  /\ Settled(c)
  /\ UNCHANGED <<vars, meteringMode>>

\* Every retry failed: the reservation is left to the stale job.
LeaveSettle(c) ==
  /\ SettleWithPermit(c) /\ tx[c] = Idle
  /\ client' = [client EXCEPT ![c].phase = "left"]
  /\ UNCHANGED <<vars, meteringMode>>
-----------------------------------------------------------------------------
(* Failures                                                                *)

\* A settlement or a budget edit is undone; a call then tries to settle again.
FailTx(t) ==
  /\ tx[t].kind # "reserve"
  /\ Rollback(t)
  /\ UNCHANGED <<meteringMode, client>>

\* The process running c dies; its open transaction, if any, is undone.
Crash(c) ==
  /\ client[c].phase \in {"resolved", "open", "settling"}
  /\ client' = [client EXCEPT ![c].phase = "dead", ![c].pending = <<>>]
  /\ IF tx[c] = Idle THEN UNCHANGED vars ELSE Rollback(c)
  /\ UNCHANGED meteringMode
-----------------------------------------------------------------------------
(* The stale job, the roll-over job and administrators                     *)

\* Slips: a reservation counts as stale as soon as its call is aborted, or only
\* while its period is open.
StaleAtTimeout(c) == event[c].state = "reserved" /\ event[c].at + CallTimeout < now
StaleInOpenPeriod(c) ==
  /\ event[c].state = "reserved" /\ event[c].at + StaleAge < now
  /\ event[c].period = Len(ledger)

\* listStaleQuotaReservations; a reservation stays on the list until settled,
\* so it may as well be read when its turn comes.
Stale(c) == event[c].state = "reserved" /\ event[c].at + StaleAge < now

Recover(r, c) ==
  /\ Stale(c)
  /\ BeginSettle(r, c, NoSteps)
  /\ UNCHANGED <<meteringMode, client>>

EndRecover(r) ==
  /\ CommitCharge(r) \/ CommitRelease(r)
  /\ UNCHANGED <<meteringMode, client>>

\* A slip: periods are opened by calls alone.
RollOverOnCall ==
  /\ \E c \in Calls : client[c].phase = "resolved"
  /\ RollOver
  /\ UNCHANGED <<meteringMode, client>>

\* listExpiredOpenQuotaPeriods names active pools only; a call may still find
\* the pool deactivated after it was resolved, and opens its period as well.
RollOverJob ==
  /\ pool.active \/ \E c \in Calls : client[c].phase = "resolved"
  /\ RollOver
  /\ UNCHANGED <<meteringMode, client>>

EditBudget(a) ==
  /\ (\E edited \in Editable : BeginBudgetEdit(a, edited)) \/ CommitBudgetEdit(a)
  /\ UNCHANGED <<meteringMode, client>>

EditPool ==
  /\ Admins # {}
  /\ \E edited \in Editable : PatchPool(edited)
  /\ UNCHANGED <<meteringMode, client>>

\* provider.update takes no lock a reservation waits for.
SetMeteringMode(mode) ==
  /\ meteringMode # mode
  /\ meteringMode' = mode
  /\ UNCHANGED <<vars, client>>

Live(c) == client[c].phase \in {"open", "settling"}

\* What a timely process does not let happen: that HearTime passes between its
\* reservation and its knowing of it, or SettleTime after the deadline signal.
Overdue(c) ==
  \/ tx[c].kind = "reserve" /\ tx[c].step = "commit" /\ now >= tx[c].at + HearTime
  \/ Live(c) /\ now >= client[c].aborts + SettleTime

Pass ==
  /\ Timely => \A c \in Calls : ~Overdue(c)
  /\ Tick
  /\ UNCHANGED <<meteringMode, client>>

CallsInit ==
  /\ Init
  /\ meteringMode \in MeteringModes
  /\ client = [c \in Calls |-> NewClient]

CallStep(c) ==
  \/ Resolve(c) \/ StartReserve(c) \/ WaitInReserve(c) \/ FailReserve(c)
  \/ Opens(c) \/ OpensUnheard(c)
  \/ (\E tokens \in StepTokens : FinishRequest(c, tokens)) \/ FinishTooLate(c)
  \/ StoreSteps(c) \/ StoreNothing(c) \/ DropWrite(c)
  \/ StartSettle(c) \/ TrySettle(c) \/ WaitInSettle(c) \/ EndSettle(c)
  \/ FindSettled(c) \/ LeaveSettle(c)
  \/ Crash(c)

RecoverStep(r) ==
  \/ \E c \in Calls : Recover(r, c)
  \/ WaitInSettle(r)
  \/ EndRecover(r)

CallsNext ==
  \/ \E c \in Calls : CallStep(c)
  \/ \E r \in Recoverers : RecoverStep(r)
  \/ \E a \in Admins : EditBudget(a)
  \/ EditPool
  \/ \E mode \in MeteringModes : SetMeteringMode(mode)
  \/ RollOverJob
  \/ \E t \in Tx : FailTx(t)
  \/ Pass

CallsSpec == CallsInit /\ [][CallsNext]_callVars
-----------------------------------------------------------------------------
(* Properties                                                              *)

HasEnded(c) == event[c].state \in {"finalized", "released"}

\* What a call is charged lies between the usage that reached the database and
\* the usage there was, whichever of the call and the stale job ended it, and
\* after whatever lost, repeated or overtaken writes; only a call that stored
\* nothing is given back everything.
ChargeIsFaithful ==
  \A c \in Calls :
    LET charged == event[c].actual IN
    HasEnded(c) =>
      /\ ChargeOf(event[c].mode, event[c].stored) <= charged
      /\ charged <= ChargeOf(event[c].mode, client[c].steps)

\* A call that heard its settlement succeed is charged every provider request
\* that finished before it began to settle, in full, and not by the stale job in
\* its stead.
FullCharge ==
  \A c \in Calls :
    client[c].phase = "settled" =>
      /\ event[c].state = IF client[c].steps.requests = 0 THEN "released" ELSE "finalized"
      /\ event[c].actual = ChargeOf(event[c].mode, client[c].steps)

\* "A reservation this old belongs to a call that can no longer settle it": the
\* stale job neither takes up nor has ended the reservation of a call that still
\* runs or settles.
NoEarlyRecovery ==
  \A c \in Calls :
    /\ Live(c) => ~\E r \in Recoverers : tx[r].kind = "settle" /\ tx[r].call = c
    /\ client[c].phase = "open" => event[c].state = "reserved"

\* "A call never uses more requests than the pool has left": on a period that
\* only counts requests, what is held and used fits a budget the pool had.
RequestsStayInBudget ==
  \A p \in DOMAIN ledger :
    (\A c \in Calls : event[c].period = p => event[c].mode = "requests") =>
      \E b \in Budgets : ledger[p].reserved + ledger[p].consumed <= b

\* Every session's open transaction goes on or is undone; a call whose
\* settlement keeps failing runs out of retries; the transactions of the two
\* jobs, which run again and again, do not fail for ever.
CallTx(c) == \/ WaitInReserve(c) \/ FailReserve(c) \/ Opens(c) \/ OpensUnheard(c)
             \/ WaitInSettle(c) \/ EndSettle(c) \/ FailTx(c)
Fairness ==
  /\ WF_callVars(Pass)
  /\ SF_callVars(RollOverJob)
  /\ \A c \in Calls : WF_callVars(CallTx(c)) /\ SF_callVars(LeaveSettle(c))
  /\ \A a \in Admins : WF_callVars(CommitBudgetEdit(a) /\ UNCHANGED <<meteringMode, client>>)
  /\ \A r \in Recoverers :
       /\ \A c \in Calls : SF_callVars(Recover(r, c))
       /\ SF_callVars(WaitInSettle(r))
       /\ SF_callVars(EndRecover(r))

FairCallsSpec == CallsSpec /\ Fairness

\* No reservation stays open for ever, whatever became of the call that made
\* it: at least those the bounded clock leaves time to become stale.
EveryReservationEnds ==
  \A c \in Calls :
    (event[c].state = "reserved" /\ event[c].at + StaleAge < MaxTime) ~> HasEnded(c)

\* The open period of an active pool does not stay behind the clock.
PeriodCatchesUp ==
  (pool.active /\ now >= ledger[Len(ledger)].ends)
    ~> (~pool.active \/ now < ledger[Len(ledger)].ends)
=============================================================================
