------------------------ MODULE MeteredCallsProofs ------------------------
(***************************************************************************)
(* Proofs about MeteredCalls, for any number of calls, stale jobs and      *)
(* administrators.  Every step of a process is a step of the ledger or     *)
(* leaves it alone, so what is proved of the ledger holds here; CallsInv   *)
(* and TimelyInv add what processes remember of their calls.               *)
(***************************************************************************)
EXTENDS MeteredCallsInv, QuotaAccountProofs

USE DEF Modes, Time, NoSteps, Idle

\* What the ledger keeps true by itself.
Books == IInv /\ RowsCount /\ AllAsksBounded

-----------------------------------------------------------------------------
(* Sessions running ledger operations                                      *)

\* Calls, stale jobs and administrators are sessions; what they ask for and
\* report is what the ledger expects.
LEMMA Inputs ==
  ASSUME CallsTypeOK
  PROVE  /\ NoSteps \in Tallies
         /\ \A c \in Calls :
              /\ c \in Tx
              /\ client[c] \in Clients
              /\ client[c].mode \in Modes
              /\ AskFor(client[c].mode) \in 1..MaxAsk
              /\ client[c].steps \in Tallies
              /\ client[c].pending \in Seq(Tallies)
              /\ Writing(c) => Head(client[c].pending) \in Tallies
         /\ Recoverers \subseteq Tx /\ Admins \subseteq Tx
<1>1. NoSteps \in Tallies
  BY BoundsAssumption DEF Tallies
<1>2. ASSUME NEW c \in Calls
      PROVE  /\ client[c] \in Clients
             /\ client[c].mode \in Modes
             /\ client[c].steps \in Tallies
             /\ client[c].pending \in Seq(Tallies)
  BY DEF CallsTypeOK, Clients
<1>3. ASSUME NEW c \in Calls, Writing(c)
      PROVE  Head(client[c].pending) \in Tallies
  BY <1>2, <1>3, HeadTailProperties DEF Writing
<1>4. \A c \in Calls : AskFor(client[c].mode) \in 1..MaxAsk
  BY CallsAssumption DEF AskFor
<1> QED
  BY <1>1, <1>2, <1>3, <1>4, SessionsAssumption

\* A step of a call's session is a step of the ledger or leaves it alone.
LEMMA CallStepLedger ==
  ASSUME CallsTypeOK, NEW c \in Calls, CallStep(c)
  PROVE  [Next]_vars
<1>1. c \in Tx
  BY Inputs
<1>2. ASSUME ReserveStep(c) \/ SettleStep(c) \/ Rollback(c)
      PROVE  [Next]_vars
  BY <1>1, <1>2 DEF Next
<1>3. CASE Resolve(c) \/ StoreNothing(c) \/ DropWrite(c) \/ StartSettle(c)
           \/ FindSettled(c) \/ LeaveSettle(c) \/ FinishTooLate(c)
  BY <1>3 DEF Resolve, StoreNothing, DropWrite, StartSettle, FindSettled, LeaveSettle,
              FinishTooLate, callVars
<1>4. CASE \E tokens \in StepTokens : FinishRequest(c, tokens)
  BY <1>4 DEF FinishRequest
<1>5. CASE StartReserve(c)
  BY <1>2, <1>5, Inputs DEF StartReserve, ReserveStep
<1>6. CASE WaitInReserve(c) \/ FailReserve(c) \/ Opens(c) \/ OpensUnheard(c)
  BY <1>2, <1>6 DEF WaitInReserve, FailReserve, Opens, OpensUnheard, ReserveStep
<1>7. CASE StoreSteps(c)
  BY <1>7, Inputs DEF StoreSteps, Next
<1>8. CASE TrySettle(c)
  BY <1>2, <1>8, Inputs DEF TrySettle, SettleStep
<1>9. CASE WaitInSettle(c) \/ EndSettle(c)
  BY <1>2, <1>9 DEF WaitInSettle, EndSettle, SettleStep
<1>10. CASE Crash(c)
  BY <1>2, <1>10 DEF Crash
<1> QED
  BY <1>3, <1>4, <1>5, <1>6, <1>7, <1>8, <1>9, <1>10 DEF CallStep

\* So is every other step.
LEMMA StepIsLedger ==
  ASSUME CallsTypeOK, [CallsNext]_callVars
  PROVE  [Next]_vars
<1>1. CASE \E c \in Calls : CallStep(c)
  BY <1>1, CallStepLedger
<1>2. ASSUME NEW r \in Recoverers, RecoverStep(r)
      PROVE  [Next]_vars
  <2>1. r \in Tx /\ NoSteps \in Tallies
    BY Inputs
  <2> QED
    BY <1>2, <2>1 DEF RecoverStep, Recover, WaitInSettle, EndRecover, SettleStep, Next
<1>3. ASSUME NEW a \in Admins, EditBudget(a)
      PROVE  [Next]_vars
  <2>1. a \in Tx
    BY Inputs
  <2> QED
    BY <1>3, <2>1 DEF EditBudget, BudgetStep, Next
<1>4. CASE EditPool
  BY <1>4 DEF EditPool, Next
<1>5. CASE \E mode \in MeteringModes : SetMeteringMode(mode)
  BY <1>5 DEF SetMeteringMode
<1>6. CASE RollOverJob
  BY <1>6 DEF RollOverJob, Next
<1>7. CASE \E t \in Tx : FailTx(t)
  BY <1>7 DEF FailTx, Next
<1>8. CASE Pass
  BY <1>8 DEF Pass, Next
<1>9. CASE UNCHANGED callVars
  BY <1>9 DEF callVars
<1> QED
  BY <1>1, <1>2, <1>3, <1>4, <1>5, <1>6, <1>7, <1>8, <1>9 DEF CallsNext

\* The ledger's own invariants hold whoever runs its operations.
LEMMA BooksNext == Books /\ [Next]_vars => Books'
BY NextInv, CountsNext, AsksNext DEF Books, IInv, LedgerInv, TypeInv, LockInv

\* They hold at the start.
LEMMA BooksInit == Init => Books
BY InitInv, CountsInit, AsksInit DEF Books

-----------------------------------------------------------------------------
(* What processes remember has its types                                   *)

\* A session that commits a reservation was granted at most what it may ask.
LEMMA GrantedWithin ==
  ASSUME Books, NEW c \in Calls, CommitReserve(c), NEW mode \in Modes
  PROVE  RequestsGranted(mode, tx[c].grant) \in 0..MaxAsk
<1>1. c \in Tx
  BY SessionsAssumption
<1>2. tx[c] \in ReserveTx /\ tx[c].grant \in Nat
  BY <1>1, TxKinds DEF Books, IInv, CommitReserve, ReserveTx
<1>3. tx[c].ask \in 1..MaxAsk /\ tx[c].grant <= tx[c].ask
  BY <1>1, <1>2 DEF Books, AllAsksBounded, AsksBounded, CommitReserve
<1>4. tx[c].grant \in 0..MaxAsk /\ AskedRequests \in 0..MaxAsk
  BY <1>2, <1>3, CallsAssumption, BoundsAssumption
<1> QED
  BY <1>4 DEF RequestsGranted

\* The steps of a request that finished, and the queue of writes with them.
LEMMA FinishedType ==
  ASSUME CallsTypeOK, NEW c \in Calls, NEW tokens, FinishRequest(c, tokens)
  PROVE  LET steps == [requests |-> client[c].steps.requests + 1,
                       tokens |-> client[c].steps.tokens + tokens] IN
         /\ steps \in Tallies
         /\ client'[c] = [client[c] EXCEPT !.steps = steps,
                                           !.pending = Append(client[c].pending, steps)]
         /\ \A d \in Calls \ {c} : client'[d] = client[d]
         /\ client' \in [Calls -> Clients]
<1> DEFINE steps == [requests |-> client[c].steps.requests + 1,
                     tokens |-> client[c].steps.tokens + tokens]
           k == [client[c] EXCEPT !.steps = steps, !.pending = Append(client[c].pending, steps)]
<1>1. steps \in Tallies
  BY DEF FinishRequest
<1>2. client' = [client EXCEPT ![c] = k]
  BY DEF FinishRequest
<1> HIDE DEF steps
<1>3. Append(client[c].pending, steps) \in Seq(Tallies)
  BY <1>1, Inputs, AppendProperties
<1>4. k \in Clients
  BY <1>1, <1>3, Inputs DEF Clients
<1> HIDE DEF k
<1>5. /\ client'[c] = k /\ \A d \in Calls \ {c} : client'[d] = client[d]
      /\ client' \in [Calls -> Clients]
  BY <1>2, <1>4 DEF CallsTypeOK
<1> QED
  BY <1>1, <1>5 DEF steps, k

\* What a step does to the memory of one call: its fields one by one.
Remembers(c, phase, mode, grant, steps, pending) ==
  /\ client'[c].phase = phase /\ client'[c].mode = mode /\ client'[c].grant = grant
  /\ client'[c].steps = steps /\ client'[c].pending = pending
  /\ \A d \in Calls \ {c} : client'[d] = client[d]

\* Memory that is set as a whole.
LEMMA ClientSet ==
  ASSUME CallsTypeOK, NEW c \in Calls, NEW k \in Clients,
         client' = [client EXCEPT ![c] = k]
  PROVE  /\ client' \in [Calls -> Clients]
         /\ Remembers(c, k.phase, k.mode, k.grant, k.steps, k.pending)
BY DEF CallsTypeOK, Remembers

\* Steps that move a call to another phase.
LEMMA PhaseSet ==
  ASSUME CallsTypeOK, NEW c \in Calls,
         NEW x \in {"new", "resolved", "open", "settling", "settled",
                    "left", "failed", "dead"},
         client' = [client EXCEPT ![c].phase = x]
  PROVE  /\ client' \in [Calls -> Clients]
         /\ Remembers(c, x, client[c].mode, client[c].grant, client[c].steps,
                      client[c].pending)
<1> DEFINE k == [client[c] EXCEPT !.phase = x]
<1>1. k \in Clients
  BY Inputs DEF Clients
<1>2. /\ k.phase = x /\ k.mode = client[c].mode /\ k.grant = client[c].grant
      /\ k.steps = client[c].steps /\ k.pending = client[c].pending
  BY Inputs DEF Clients
<1>3. client' = [client EXCEPT ![c] = k]
  OBVIOUS
<1> HIDE DEF k
<1> QED
  BY <1>1, <1>2, <1>3, ClientSet

\* A write that is done with leaves the queue.
LEMMA WriteDoneType ==
  ASSUME CallsTypeOK, NEW c \in Calls, Writing(c), WriteDone(c)
  PROVE  /\ client' \in [Calls -> Clients]
         /\ Remembers(c, client[c].phase, client[c].mode, client[c].grant,
                      client[c].steps, Tail(client[c].pending))
<1> DEFINE k == [client[c] EXCEPT !.pending = Tail(client[c].pending)]
<1>1. Tail(client[c].pending) \in Seq(Tallies)
  BY Inputs, HeadTailProperties DEF Writing
<1>2. k \in Clients
  BY <1>1, Inputs DEF Clients
<1>3. /\ k.phase = client[c].phase /\ k.mode = client[c].mode
      /\ k.grant = client[c].grant /\ k.steps = client[c].steps
      /\ k.pending = Tail(client[c].pending)
  BY Inputs DEF Clients
<1>4. client' = [client EXCEPT ![c] = k]
  BY DEF WriteDone
<1> HIDE DEF k
<1> QED
  BY <1>2, <1>3, <1>4, ClientSet

\* The writes a settlement leaves in the queue: the one in progress.
LEMMA StartSettleType ==
  ASSUME CallsTypeOK, NEW c \in Calls, StartSettle(c)
  PROVE  /\ client' \in [Calls -> Clients]
         /\ Remembers(c, "settling", client[c].mode, client[c].grant, client[c].steps,
                      SubSeq(client[c].pending, 1, Least(1, Len(client[c].pending))))
         /\ LET left == SubSeq(client[c].pending, 1, Least(1, Len(client[c].pending))) IN
            /\ left \in Seq(Tallies) /\ Len(left) <= Len(client[c].pending)
            /\ \A i \in 1..Len(left) : left[i] = client[c].pending[i]
<1> DEFINE n == Least(1, Len(client[c].pending))
           left == SubSeq(client[c].pending, 1, n)
           k == [client[c] EXCEPT !.phase = "settling", !.pending = left]
<1>1. /\ client[c].pending \in Seq(Tallies) /\ Len(client[c].pending) \in Nat
  BY Inputs, LenProperties
<1>2. n \in 0..Len(client[c].pending)
  BY <1>1 DEF Least
<1> HIDE DEF n
<1>3. /\ left \in Seq(Tallies) /\ Len(left) = n
      /\ \A i \in 1..n : left[i] = client[c].pending[i]
  BY <1>1, <1>2
<1>4. Len(left) <= Len(client[c].pending)
  BY <1>1, <1>2, <1>3
<1>5. client' = [client EXCEPT ![c] = k]
  BY DEF StartSettle, n
<1> HIDE DEF left
<1>6. k \in Clients
  BY <1>3, Inputs DEF Clients
<1>7. /\ k.phase = "settling" /\ k.mode = client[c].mode
      /\ k.grant = client[c].grant /\ k.steps = client[c].steps /\ k.pending = left
  BY Inputs DEF Clients
<1> HIDE DEF k
<1>8. /\ client' \in [Calls -> Clients]
      /\ Remembers(c, "settling", client[c].mode, client[c].grant, client[c].steps, left)
  BY <1>5, <1>6, <1>7, ClientSet
<1> QED
  BY <1>3, <1>4, <1>8 DEF left, n

\* A resolved call knows its pool's mode.
LEMMA ResolveType ==
  ASSUME CallsTypeOK, NEW c \in Calls, Resolve(c)
  PROVE  /\ client' \in [Calls -> Clients]
         /\ Remembers(c, "resolved", meteringMode, client[c].grant, client[c].steps,
                      client[c].pending)
<1> DEFINE k == [client[c] EXCEPT !.phase = "resolved", !.mode = meteringMode]
<1>1. meteringMode \in Modes
  BY CallsAssumption DEF CallsTypeOK
<1>2. k \in Clients
  BY <1>1, Inputs DEF Clients
<1>3. /\ k.phase = "resolved" /\ k.mode = meteringMode /\ k.grant = client[c].grant
      /\ k.steps = client[c].steps /\ k.pending = client[c].pending
  BY Inputs DEF Clients
<1>4. client' = [client EXCEPT ![c] = k]
  BY DEF Resolve
<1> HIDE DEF k
<1> QED
  BY <1>2, <1>3, <1>4, ClientSet

\* A call that runs knows how many requests it may make.
LEMMA OpensType ==
  ASSUME Books, CallsTypeOK, NEW c \in Calls, Opens(c)
  PROVE  /\ client' \in [Calls -> Clients]
         /\ Remembers(c, "open", client[c].mode,
                      RequestsGranted(client[c].mode, tx[c].grant),
                      client[c].steps, client[c].pending)
<1> DEFINE g == RequestsGranted(client[c].mode, tx[c].grant)
           k == [client[c] EXCEPT !.phase = "open", !.grant = g,
                                  !.aborts = now + CallTimeout]
<1>1. g \in 0..MaxAsk
  BY GrantedWithin, Inputs DEF Opens
<1>2. now + CallTimeout \in Nat
  BY CallsAssumption, BoundsAssumption DEF Books, IInv, TypeOK
<1>3. client' = [client EXCEPT ![c] = k]
  BY DEF Opens
<1> HIDE DEF g
<1>4. k \in Clients
  BY <1>1, <1>2, Inputs DEF Clients
<1>5. /\ k.phase = "open" /\ k.mode = client[c].mode /\ k.grant = g
      /\ k.steps = client[c].steps /\ k.pending = client[c].pending
  BY Inputs DEF Clients
<1> HIDE DEF k
<1>6. /\ client' \in [Calls -> Clients]
      /\ Remembers(c, "open", client[c].mode, g, client[c].steps, client[c].pending)
  BY <1>3, <1>4, <1>5, ClientSet
<1> QED
  BY <1>6 DEF g

\* A process that dies forgets the writes it had in mind.
LEMMA CrashType ==
  ASSUME CallsTypeOK, NEW c \in Calls, Crash(c)
  PROVE  /\ client' \in [Calls -> Clients]
         /\ Remembers(c, "dead", client[c].mode, client[c].grant, client[c].steps, <<>>)
<1> DEFINE k == [client[c] EXCEPT !.phase = "dead", !.pending = <<>>]
<1>1. k \in Clients
  BY Inputs, EmptySeq DEF Clients
<1>2. /\ k.phase = "dead" /\ k.mode = client[c].mode /\ k.grant = client[c].grant
      /\ k.steps = client[c].steps /\ k.pending = <<>>
  BY Inputs DEF Clients
<1>3. client' = [client EXCEPT ![c] = k]
  BY DEF Crash
<1> HIDE DEF k
<1> QED
  BY <1>1, <1>2, <1>3, ClientSet

\* Every step keeps the types of what processes remember.
LEMMA CallsTypeNext ==
  ASSUME Books, CallsTypeOK, [CallsNext]_callVars
  PROVE  CallsTypeOK'
<1>1. meteringMode' \in MeteringModes
  <2>1. CASE \E c \in Calls : CallStep(c)
    BY <2>1 DEF CallStep, Resolve, StartReserve, WaitInReserve, FailReserve, Opens,
         OpensUnheard, FinishRequest, FinishTooLate, StoreSteps, StoreNothing, DropWrite,
         StartSettle, TrySettle, WaitInSettle, EndSettle, FindSettled, LeaveSettle, Crash,
         callVars, CallsTypeOK
  <2>2. CASE \E r \in Recoverers : RecoverStep(r)
    BY <2>2 DEF RecoverStep, Recover, WaitInSettle, EndRecover, CallsTypeOK
  <2>3. CASE \E a \in Admins : EditBudget(a)
    BY <2>3 DEF EditBudget, CallsTypeOK
  <2>4. CASE EditPool \/ RollOverJob \/ Pass \/ (\E t \in Tx : FailTx(t))
             \/ UNCHANGED callVars
    BY <2>4 DEF EditPool, RollOverJob, Pass, FailTx, callVars, CallsTypeOK
  <2>5. CASE \E mode \in MeteringModes : SetMeteringMode(mode)
    BY <2>5 DEF SetMeteringMode
  <2> QED
    BY <2>1, <2>2, <2>3, <2>4, <2>5 DEF CallsNext
<1>2. client' = client \/ client' \in [Calls -> Clients]
  <2>1. ASSUME NEW c \in Calls, CallStep(c)
        PROVE  client' = client \/ client' \in [Calls -> Clients]
    <3>1. CASE Resolve(c)
      BY <3>1, ResolveType
    <3>2. CASE \/ StartReserve(c) \/ WaitInReserve(c) \/ TrySettle(c) \/ WaitInSettle(c)
               \/ FinishTooLate(c)
      BY <3>2 DEF StartReserve, WaitInReserve, TrySettle, WaitInSettle, FinishTooLate,
                  callVars
    <3>3. CASE FailReserve(c) \/ OpensUnheard(c) \/ FindSettled(c) \/ LeaveSettle(c)
      BY <3>3, PhaseSet DEF FailReserve, OpensUnheard, FindSettled, LeaveSettle, Settled
    <3>4. CASE Opens(c)
      BY <3>4, OpensType
    <3>5. CASE \E tokens \in StepTokens : FinishRequest(c, tokens)
      BY <3>5, FinishedType
    <3>6. CASE StoreSteps(c) \/ StoreNothing(c) \/ DropWrite(c)
      BY <3>6, WriteDoneType DEF StoreSteps, StoreNothing, DropWrite
    <3>7. CASE StartSettle(c)
      BY <3>7, StartSettleType
    <3>8. CASE EndSettle(c)
      BY <3>8, PhaseSet DEF EndSettle, Settled
    <3>9. CASE Crash(c)
      BY <3>9, CrashType
    <3> QED
      BY <2>1, <3>1, <3>2, <3>3, <3>4, <3>5, <3>6, <3>7, <3>8, <3>9 DEF CallStep
  <2>2. CASE \E r \in Recoverers : RecoverStep(r)
    BY <2>2 DEF RecoverStep, Recover, WaitInSettle, EndRecover
  <2>3. CASE \E a \in Admins : EditBudget(a)
    BY <2>3 DEF EditBudget
  <2>4. CASE EditPool \/ RollOverJob \/ Pass \/ (\E t \in Tx : FailTx(t))
             \/ UNCHANGED callVars \/ \E mode \in MeteringModes : SetMeteringMode(mode)
    BY <2>4 DEF EditPool, RollOverJob, Pass, FailTx, callVars, SetMeteringMode
  <2> QED
    BY <2>1, <2>2, <2>3, <2>4 DEF CallsNext
<1> QED
  BY <1>1, <1>2 DEF CallsTypeOK

-----------------------------------------------------------------------------
(* Process, session and database agree                                     *)

\* A tally is within a later one, and that within a still later one.
LEMMA WithinTrans ==
  ASSUME NEW a \in Tallies, NEW b \in Tallies, NEW d \in Tallies,
         Within(a, b), Within(b, d)
  PROVE  Within(a, d)
BY BoundsAssumption DEF Within, Tallies

\* A longer tally is charged more.
LEMMA ChargesGrow ==
  ASSUME NEW a \in Tallies, NEW b \in Tallies, Within(a, b), NEW mode
  PROVE  /\ ChargeOf(mode, a) \in Nat /\ ChargeOf(mode, b) \in Nat
         /\ ChargeOf(mode, a) <= ChargeOf(mode, b)
BY BoundsAssumption DEF Within, Tallies, ChargeOf

\* What is charged for one call, once its reservation has ended.
Faithful(c) ==
  HasEnded(c) =>
    /\ ChargeOf(event[c].mode, event[c].stored) <= event[c].actual
    /\ event[c].actual <= ChargeOf(event[c].mode, client[c].steps)

\* What is known of one call.
CallFits(c) == PhaseFits(c) /\ StepsFit(c) /\ Faithful(c)

\* The agreement, call by call and session by session.
LEMMA FitsByCall ==
  /\ MemoryFits <=> /\ \A c \in Calls : CallFits(c)
                    /\ \A t \in Tx : SessionFits(t) /\ TallyFits(t)
  /\ MemoryFits' <=> /\ \A c \in Calls : CallFits(c)'
                     /\ \A t \in Tx : SessionFits(t)' /\ TallyFits(t)'
BY DEF MemoryFits, CallFits, SessionsFit, PhasesFit, AllStepsFit, TalliesFit,
       ChargeIsFaithful, Faithful

\* A call that a step does not touch stays as it was.
LEMMA CallKept ==
  ASSUME NEW c \in Calls, CallFits(c), client'[c] = client[c], event'[c] = event[c]
  PROVE  CallFits(c)'
BY DEF CallFits, PhaseFits, StepsFit, Faithful, HasEnded

\* So does a session whose transaction and whose call do.
LEMMA SessionKept ==
  ASSUME NEW u \in Tx, SessionFits(u), TallyFits(u), tx'[u] = tx[u],
         u \in Calls => client'[u] = client[u],
         Ends(u) => /\ event'[tx[u].call].stored = event[tx[u].call].stored
                    /\ client'[tx[u].call] = client[tx[u].call]
  PROVE  SessionFits(u)' /\ TallyFits(u)'
BY DEF SessionFits, TallyFits, Ends

\* A session without a transaction has nothing to agree with.
LEMMA SessionIdle ==
  ASSUME NEW u \in Tx, tx'[u] = Idle
  PROVE  SessionFits(u)' /\ TallyFits(u)'
BY DEF SessionFits, TallyFits, Ends

\* A step that changes one session's transaction and nothing else.
LEMMA TxMoves ==
  ASSUME MemoryFits, NEW t \in Tx, client' = client, event' = event,
         \A u \in Tx \ {t} : tx'[u] = tx[u],
         SessionFits(t)' /\ TallyFits(t)'
  PROVE  MemoryFits'
<1>1. \A c \in Calls : CallFits(c)'
  BY FitsByCall, CallKept
<1>2. \A u \in Tx \ {t} : SessionFits(u)' /\ TallyFits(u)'
  BY FitsByCall, SessionKept
<1> QED
  BY <1>1, <1>2, FitsByCall

\* Types of what the invariant relates.
LEMMA FitTypes ==
  ASSUME Books, CallsTypeOK, NEW c \in Calls
  PROVE  /\ event[c] \in Events /\ event[c].stored \in Tallies
         /\ client[c].steps \in Tallies
         /\ event[c].actual \in Nat /\ event[c].amount \in Nat
         /\ client[c].grant \in Nat
BY Inputs, BoundsAssumption DEF Books, IInv, TypeOK, Events, Clients

\* A step on one call: its memory and its event may change, its steps only
\* grow, and sessions go on or end.  What is left to show is that this call
\* fits, and that a settlement under way still finds what it read.
LEMMA CallMoves ==
  ASSUME Books, CallsTypeOK, MemoryFits, NEW c \in Calls,
         \A d \in Calls \ {c} : client'[d] = client[d] /\ event'[d] = event[d],
         client'[c].steps \in Tallies,
         Within(client[c].steps, client'[c].steps),
         \A u \in Tx :
           \/ tx'[u] = Idle
           \/ /\ tx'[u] = tx[u]
              /\ Ends(u) /\ tx[u].call = c => event'[c].stored = event[c].stored,
         c \in Tx => tx'[c].kind \notin {"reserve", "settle"},
         CallFits(c)'
  PROVE  MemoryFits'
<1>1. \A d \in Calls : CallFits(d)'
  BY FitsByCall, CallKept
<1>2. ASSUME NEW u \in Tx, tx'[u] = tx[u]
      PROVE  SessionFits(u)' /\ TallyFits(u)'
  <2>1. SessionFits(u) /\ TallyFits(u)
    BY FitsByCall
  <2>2. CASE u = c
    <3>1. tx[u].kind \notin {"reserve", "settle"}
      BY <1>2, <2>2
    <3>2. tx'[u].kind \notin {"reserve", "settle"}
      BY <1>2, <3>1
    <3>3. SessionFits(u)'
      BY <1>2, <2>1, <3>2 DEF SessionFits, Ends
    <3> QED
      BY <3>2, <3>3 DEF TallyFits, Ends
  <2>3. CASE u # c /\ (~Ends(u) \/ tx[u].call # c)
    <3>1. Ends(u) => tx[u].call \in Calls \ {c}
      BY <2>3, TxKinds DEF Books, IInv, Ends, SettleTx
    <3>2. u \in Calls => client'[u] = client[u]
      BY <2>3
    <3> QED
      BY <1>2, <2>1, <3>1, <3>2, SessionKept
  <2>4. CASE u # c /\ Ends(u) /\ tx[u].call = c
    <3>1. /\ tx[u].tally \in Tallies /\ event'[c].stored = event[c].stored
          /\ u \notin Calls
      BY <1>2, <2>1, <2>4, TxKinds DEF Books, IInv, Ends, SettleTx, SessionFits
    <3>2. Within(tx[u].tally, client'[c].steps)
      BY <2>1, <2>4, <3>1, WithinTrans, FitTypes DEF TallyFits
    <3>3. TallyFits(u)'
      BY <1>2, <2>1, <2>4, <3>1, <3>2 DEF TallyFits, Ends
    <3>4. SessionFits(u)'
      BY <1>2, <2>1, <2>4, <3>1 DEF SessionFits, Ends
    <3> QED
      BY <3>3, <3>4
  <2> QED
    BY <2>2, <2>3, <2>4
<1> QED
  BY <1>1, <1>2, SessionIdle, FitsByCall

\* What holds before a step.
Good == Books /\ CallsTypeOK /\ MemoryFits

\* A call between resolving and settling has no transaction of its own.
LEMMA OwnTx ==
  ASSUME Good, NEW c \in Calls
  PROVE  /\ c \in Tx /\ CallFits(c) /\ SessionFits(c) /\ TallyFits(c)
         /\ tx[c].kind = "reserve" => client[c].phase = "resolved"
         /\ tx[c].kind = "settle" => client[c].phase = "settling" /\ ~Writing(c)
         /\ Writing(c) => client[c].phase \in {"open", "settling"}
<1>1. c \in Tx /\ CallFits(c) /\ SessionFits(c) /\ TallyFits(c)
  BY FitsByCall, Inputs DEF Good
<1> QED
  BY <1>1 DEF SessionFits, CallFits, PhaseFits, Writing, Ends

\* A step of a call that leaves the database alone.
LEMMA MemoryMoves ==
  ASSUME Good, NEW c \in Calls, tx[c].kind \notin {"reserve", "settle"},
         UNCHANGED vars,
         NEW ph, NEW m, NEW g, NEW s \in Tallies, NEW p, Remembers(c, ph, m, g, s, p),
         Within(client[c].steps, s), CallFits(c)'
  PROVE  MemoryFits'
<1>1. /\ tx' = tx /\ event' = event
      /\ client'[c].steps = s /\ \A d \in Calls \ {c} : client'[d] = client[d]
  BY DEF vars, Remembers
<1>2. \A d \in Calls \ {c} : client'[d] = client[d] /\ event'[d] = event[d]
  BY <1>1
<1>3. \A u \in Tx : tx'[u] = tx[u] /\ event'[c].stored = event[c].stored
  BY <1>1
<1>4. tx'[c].kind \notin {"reserve", "settle"}
  BY <1>1
<1>5. client'[c].steps \in Tallies /\ Within(client[c].steps, client'[c].steps)
  BY <1>1
<1> QED
  BY <1>2, <1>3, <1>4, <1>5, CallMoves DEF Good

\* Resolving the pool fixes the mode before there is a reservation.
LEMMA ResolveFits ==
  ASSUME Good, NEW c \in Calls, Resolve(c)
  PROVE  MemoryFits'
<1>1. Remembers(c, "resolved", meteringMode, client[c].grant, client[c].steps,
                client[c].pending)
  BY ResolveType DEF Good
<1>2. client[c].phase = "new" /\ UNCHANGED vars
  BY DEF Resolve
<1>3. CallFits(c) /\ tx[c].kind \notin {"reserve", "settle"}
  BY <1>2, OwnTx
<1>4. event' = event /\ client[c].steps \in Tallies /\ Within(client[c].steps, client[c].steps)
  BY <1>2, <1>3, FitTypes DEF vars, CallFits, StepsFit, Good
<1>5. CallFits(c)'
  BY <1>1, <1>2, <1>3, <1>4
     DEF CallFits, PhaseFits, StepsFit, Faithful, HasEnded, Remembers, NoEvent
<1> QED
  BY <1>1, <1>2, <1>3, <1>4, <1>5, MemoryMoves

\* Each request adds to the steps; what was said of shorter tallies stays true.
LEMMA FinishRequestFits ==
  ASSUME Good, NEW c \in Calls, NEW tokens \in StepTokens, FinishRequest(c, tokens)
  PROVE  MemoryFits'
<1> DEFINE s == [requests |-> client[c].steps.requests + 1,
                 tokens |-> client[c].steps.tokens + tokens]
<1>1. /\ s \in Tallies
      /\ client'[c] = [client[c] EXCEPT !.steps = s, !.pending = Append(client[c].pending, s)]
      /\ \A d \in Calls \ {c} : client'[d] = client[d]
  BY FinishedType DEF Good
<1>2. Remembers(c, client[c].phase, client[c].mode, client[c].grant, s,
                Append(client[c].pending, s))
  <2> HIDE DEF s
  <2> QED
    BY <1>1, Inputs DEF Remembers, Clients, Good
<1>3. /\ client[c].phase = "open" /\ UNCHANGED vars
      /\ client[c].steps.requests < client[c].grant
  BY DEF FinishRequest
<1>4. CallFits(c) /\ tx[c].kind \notin {"reserve", "settle"}
  BY <1>3, OwnTx
<1>5. /\ event' = event /\ client[c].steps \in Tallies /\ event[c].stored \in Tallies
      /\ client[c].grant \in Nat /\ tokens \in Nat
      /\ event[c].actual \in Nat
  BY <1>3, FitTypes, CallsAssumption DEF vars, Good
<1>6. Within(client[c].steps, s) /\ Within(s, s) /\ s.requests <= client[c].grant
  BY <1>3, <1>5, BoundsAssumption, <1>4 DEF Within, Tallies, CallFits, StepsFit
<1> HIDE DEF s
<1>7. /\ client[c].pending \in Seq(Tallies) /\ Len(client[c].pending) \in Nat
      /\ Len(Append(client[c].pending, s)) = Len(client[c].pending) + 1
      /\ \A i \in 1..Len(client[c].pending) :
           Append(client[c].pending, s)[i] = client[c].pending[i]
      /\ Append(client[c].pending, s)[Len(client[c].pending) + 1] = s
  BY <1>1, Inputs, LenProperties, AppendProperties DEF Good
<1>8. ASSUME NEW i \in 1..Len(client'[c].pending)
      PROVE  Within(client'[c].pending[i], s)
  <2>1. client'[c].pending = Append(client[c].pending, s)
    BY <1>2 DEF Remembers
  <2>2. CASE i = Len(client[c].pending) + 1
    BY <1>6, <1>7, <2>1, <2>2
  <2>3. CASE i \in 1..Len(client[c].pending)
    <3>1. /\ client'[c].pending[i] = client[c].pending[i]
          /\ client[c].pending[i] \in Tallies
          /\ Within(client[c].pending[i], client[c].steps)
      BY <1>4, <1>7, <2>1, <2>3, ElementOfSeq DEF CallFits, StepsFit
    <3> QED
      BY <1>1, <1>5, <1>6, <3>1, WithinTrans
  <2> QED
    BY <1>7, <1>8, <2>1, <2>2, <2>3
<1>9. Within(event[c].stored, s)
  BY <1>1, <1>4, <1>5, <1>6, WithinTrans DEF CallFits, StepsFit
<1>10. StepsFit(c)'
  BY <1>2, <1>4, <1>5, <1>6, <1>8, <1>9 DEF CallFits, StepsFit, Remembers
<1>11. PhaseFits(c)'
  BY <1>2, <1>3, <1>4, <1>5 DEF CallFits, PhaseFits, Remembers, NoEvent
<1>12. Faithful(c)'
  <2> DEFINE mode == event[c].mode
  <2>1. /\ ChargeOf(mode, client[c].steps) <= ChargeOf(mode, s)
        /\ ChargeOf(mode, client[c].steps) \in Nat /\ ChargeOf(mode, s) \in Nat
    BY <1>1, <1>5, <1>6, ChargesGrow
  <2>2. client'[c].steps = s /\ event'[c] = event[c]
    BY <1>2, <1>5 DEF Remembers
  <2>3. HasEnded(c) => event[c].actual <= ChargeOf(mode, s)
    BY <1>4, <1>5, <2>1 DEF CallFits, Faithful
  <2> QED
    BY <1>4, <2>2, <2>3 DEF CallFits, Faithful, HasEnded
<1> QED
  BY <1>1, <1>2, <1>3, <1>4, <1>6, <1>10, <1>11, <1>12, MemoryMoves DEF CallFits

\* Writes that leave the queue, all but the first and those behind it.
LEMMA QueueShrinks ==
  ASSUME Good, NEW c \in Calls, NEW ph, NEW p, Writing(c) \/ client[c].phase = "open",
         Remembers(c, ph, client[c].mode, client[c].grant, client[c].steps, p),
         ph = client[c].phase \/ (client[c].phase = "open" /\ ph = "settling"),
         \A i \in 1..Len(p) : \E j \in 1..Len(client[c].pending) : p[i] = client[c].pending[j],
         event' = event
  PROVE  CallFits(c)'
<1>1. CallFits(c) /\ client[c].phase \in {"open", "settling"}
  BY OwnTx
<1>2. \A i \in 1..Len(client'[c].pending) : Within(client'[c].pending[i], client[c].steps)
  BY <1>1 DEF CallFits, StepsFit, Remembers
<1>3. StepsFit(c)'
  BY <1>1, <1>2 DEF CallFits, StepsFit, Remembers
<1>4. PhaseFits(c)'
  BY <1>1 DEF CallFits, PhaseFits, Remembers, NoEvent
<1>5. Faithful(c)'
  BY <1>1 DEF CallFits, Faithful, HasEnded, Remembers
<1> QED
  BY <1>3, <1>4, <1>5 DEF CallFits

\* Writes that found nothing to do, or failed for good, leave the queue; so do
\* those a settlement cancels.
LEMMA QueueFits ==
  ASSUME Good, NEW c \in Calls, StoreNothing(c) \/ DropWrite(c) \/ StartSettle(c)
  PROVE  MemoryFits'
<1>1. /\ client[c].pending \in Seq(Tallies) /\ Len(client[c].pending) \in Nat
      /\ UNCHANGED vars
  BY Inputs, LenProperties DEF Good, StoreNothing, DropWrite, StartSettle
<1>2. CASE StoreNothing(c) \/ DropWrite(c)
  <2> DEFINE p == Tail(client[c].pending)
  <2>1. Writing(c) /\ WriteDone(c)
    BY <1>2 DEF StoreNothing, DropWrite
  <2>2. Remembers(c, client[c].phase, client[c].mode, client[c].grant, client[c].steps, p)
    BY <2>1, WriteDoneType DEF Good
  <2>3. /\ Len(p) = Len(client[c].pending) - 1
        /\ \A i \in 1..Len(p) : p[i] = client[c].pending[i + 1]
    BY <1>1, <2>1, HeadTailProperties DEF Writing
  <2> HIDE DEF p
  <2>4. \A i \in 1..Len(p) : \E j \in 1..Len(client[c].pending) : p[i] = client[c].pending[j]
    <3> SUFFICES ASSUME NEW i \in 1..Len(p)
                 PROVE  \E j \in 1..Len(client[c].pending) : p[i] = client[c].pending[j]
      OBVIOUS
    <3>1. i + 1 \in 1..Len(client[c].pending) /\ p[i] = client[c].pending[i + 1]
      BY <1>1, <2>3
    <3> QED
      BY <3>1
  <2>5. CallFits(c)'
    BY <1>1, <2>1, <2>2, <2>4, QueueShrinks DEF vars
  <2>6. /\ tx[c].kind \notin {"reserve", "settle"}
        /\ client[c].steps \in Tallies /\ Within(client[c].steps, client[c].steps)
    BY <2>1, OwnTx, FitTypes DEF Good, CallFits, StepsFit
  <2> QED
    BY <1>1, <2>2, <2>5, <2>6, MemoryMoves
<1>3. CASE StartSettle(c)
  <2> DEFINE p == SubSeq(client[c].pending, 1, Least(1, Len(client[c].pending)))
  <2>1. /\ Remembers(c, "settling", client[c].mode, client[c].grant, client[c].steps, p)
        /\ p \in Seq(Tallies) /\ Len(p) <= Len(client[c].pending)
        /\ \A i \in 1..Len(p) : p[i] = client[c].pending[i]
    BY <1>3, StartSettleType DEF Good
  <2> HIDE DEF p
  <2>2. client[c].phase = "open"
    BY <1>3 DEF StartSettle
  <2>3. \A i \in 1..Len(p) : \E j \in 1..Len(client[c].pending) : p[i] = client[c].pending[j]
    <3>1. Len(p) \in Nat
      BY <2>1, LenProperties
    <3>2. \A i \in 1..Len(p) : i \in 1..Len(client[c].pending)
      BY <1>1, <2>1, <3>1
    <3> QED
      BY <2>1, <3>2
  <2>4. CallFits(c)'
    BY <1>1, <2>1, <2>2, <2>3, QueueShrinks DEF vars
  <2>5. /\ tx[c].kind \notin {"reserve", "settle"}
        /\ client[c].steps \in Tallies /\ Within(client[c].steps, client[c].steps)
    BY <2>2, OwnTx, FitTypes DEF Good, CallFits, StepsFit
  <2> QED
    BY <1>1, <2>1, <2>4, <2>5, MemoryMoves
<1> QED
  BY <1>2, <1>3

\* A settlement that has begun holds the reservation's row: nothing is stored.
LEMMA NothingStoredMeanwhile ==
  ASSUME Good, NEW c \in Calls, Unlocked(held, EventRow(c), "update"),
         NEW u \in Tx, Ends(u)
  PROVE  tx[u].call # c
<1> SUFFICES ASSUME tx[u].call = c
             PROVE  FALSE
  OBVIOUS
<1>1. Lock(EventRow(c), "update") \in held[u]
  BY DEF Good, Books, IInv, LedgerInv, LocksHeld, HoldsItsLocks, Settles, Ends
<1>2. u \in DOMAIN held
  BY DEF Good, Books, IInv, TypeOK
<1>3. Conflicts("update", "update")
  BY DEF Conflicts, ConflictingPairs
<1> QED
  BY <1>1, <1>2, <1>3 DEF Unlocked, Blocks, Lock

\* A tally that is stored is one of those the call asked to store.
LEMMA StoreStepsFits ==
  ASSUME Good, NEW c \in Calls, StoreSteps(c)
  PROVE  MemoryFits'
<1> DEFINE tally == Head(client[c].pending)
<1>1. /\ Writing(c) /\ RecordUsage(c, tally) /\ (WriteDone(c) \/ client' = client)
      /\ CallFits(c)
  BY OwnTx DEF StoreSteps
<1>2. /\ client[c].pending \in Seq(Tallies) /\ Len(client[c].pending) \in Nat
      /\ client[c].pending # <<>>
      /\ event[c] \in Events /\ event[c].stored \in Tallies
      /\ client[c].steps \in Tallies
  BY <1>1, Inputs, LenProperties, FitTypes DEF Good, Writing
<1>3. /\ tally \in Tallies /\ Within(tally, client[c].steps)
  <2>1. tally = client[c].pending[1] /\ 1 \in 1..Len(client[c].pending)
    BY <1>2, EmptySeq
  <2> QED
    BY <1>1, <1>2, <2>1, HeadTailProperties DEF CallFits, StepsFit
<1>4. /\ event[c].state = "reserved"
      /\ event'[c] = [event[c] EXCEPT !.stored = tally]
      /\ \A d \in Calls \ {c} : event'[d] = event[d]
      /\ tx' = tx
      /\ Unlocked(held, EventRow(c), "update")
  BY <1>1 DEF RecordUsage, Good, Books, IInv, TypeOK
<1> HIDE DEF tally
<1>5. /\ event'[c].state = "reserved" /\ event'[c].mode = event[c].mode
      /\ event'[c].amount = event[c].amount /\ event'[c].stored = tally
      /\ event'[c].actual = event[c].actual
  BY <1>2, <1>4 DEF Events
<1>6. PICK p : /\ Remembers(c, client[c].phase, client[c].mode, client[c].grant,
                            client[c].steps, p)
               /\ \A i \in 1..Len(p) : Within(p[i], client[c].steps)
  <2>1. CASE WriteDone(c)
    <3>1. Remembers(c, client[c].phase, client[c].mode, client[c].grant, client[c].steps,
                    Tail(client[c].pending))
      BY <1>1, <2>1, WriteDoneType DEF Good
    <3>2. /\ Len(Tail(client[c].pending)) = Len(client[c].pending) - 1
          /\ \A i \in 1..Len(Tail(client[c].pending)) :
               Tail(client[c].pending)[i] = client[c].pending[i + 1]
      BY <1>2, HeadTailProperties
    <3>3. ASSUME NEW i \in 1..Len(Tail(client[c].pending))
          PROVE  Within(Tail(client[c].pending)[i], client[c].steps)
      <4>1. i + 1 \in 1..Len(client[c].pending)
        BY <1>2, <3>2
      <4> QED
        BY <1>1, <3>2, <4>1 DEF CallFits, StepsFit
    <3> QED
      BY <3>1, <3>3
  <2>2. CASE client' = client
    <3>1. Remembers(c, client[c].phase, client[c].mode, client[c].grant, client[c].steps,
                    client[c].pending)
      BY <2>2 DEF Remembers
    <3> QED
      BY <1>1, <3>1 DEF CallFits, StepsFit
  <2> QED
    BY <1>1, <2>1, <2>2
<1>7. CallFits(c)'
  <2>1. StepsFit(c)'
    BY <1>1, <1>3, <1>4, <1>5, <1>6 DEF CallFits, StepsFit, Remembers
  <2>2. client[c].phase \in {"open", "settling"}
    BY <1>1, OwnTx
  <2>3. PhaseFits(c)'
    BY <1>1, <1>4, <1>5, <1>6, <2>2 DEF CallFits, PhaseFits, Remembers
  <2>4. Faithful(c)'
    BY <1>5 DEF Faithful, HasEnded
  <2> QED
    BY <2>1, <2>3, <2>4 DEF CallFits
<1>8. /\ \A d \in Calls \ {c} : client'[d] = client[d] /\ event'[d] = event[d]
      /\ client'[c].steps \in Tallies /\ Within(client[c].steps, client'[c].steps)
  BY <1>1, <1>2, <1>4, <1>6 DEF Remembers, CallFits, StepsFit
<1>9. /\ \A u \in Tx : tx'[u] = tx[u] /\ ~(Ends(u) /\ tx[u].call = c)
      /\ tx'[c].kind \notin {"reserve", "settle"}
  BY <1>1, <1>4, NothingStoredMeanwhile, OwnTx
<1> QED
  BY <1>7, <1>8, <1>9, CallMoves DEF Good

\* Steps at which a call ends, one way or another, without a transaction.
LEMMA PhaseEndFits ==
  ASSUME Good, NEW c \in Calls, FindSettled(c) \/ LeaveSettle(c)
  PROVE  MemoryFits'
<1>1. /\ client[c].phase = "settling" /\ client[c].pending = <<>> /\ tx[c] = Idle
      /\ UNCHANGED vars /\ CallFits(c)
  BY OwnTx DEF FindSettled, LeaveSettle, SettleWithPermit, Writing
<1>2. PICK x \in {"settled", "left"} :
        Remembers(c, x, client[c].mode, client[c].grant, client[c].steps, client[c].pending)
  BY PhaseSet DEF FindSettled, LeaveSettle, Settled, Good
<1>3. event' = event /\ client[c].steps \in Tallies
  BY <1>1, FitTypes DEF vars, Good
<1>4. CallFits(c)'
  BY <1>1, <1>2, <1>3
     DEF CallFits, PhaseFits, StepsFit, Faithful, HasEnded, Remembers, NoEvent
<1>5. Within(client[c].steps, client[c].steps) /\ tx[c].kind \notin {"reserve", "settle"}
  BY <1>1 DEF CallFits, StepsFit
<1> QED
  BY <1>1, <1>2, <1>3, <1>4, <1>5, MemoryMoves

\* A call that fails or dies; its transaction, if it had one, is undone.
LEMMA DiesFits ==
  ASSUME Good, NEW c \in Calls, FailReserve(c) \/ Crash(c)
  PROVE  MemoryFits'
<1>1. c \in Tx /\ CallFits(c) /\ SessionFits(c)
  BY OwnTx
<1>2. PICK x \in {"failed", "dead"} : \E p \in {client[c].pending, <<>>} :
        /\ Remembers(c, x, client[c].mode, client[c].grant, client[c].steps, p)
        /\ x = "failed" => p = client[c].pending /\ FailReserve(c)
        /\ x = "dead" => p = <<>> /\ client[c].phase \in {"resolved", "open", "settling"}
  BY PhaseSet, CrashType DEF FailReserve, Crash, Good
<1>3. PICK p \in {client[c].pending, <<>>} :
        /\ Remembers(c, x, client[c].mode, client[c].grant, client[c].steps, p)
        /\ x = "failed" => p = client[c].pending /\ FailReserve(c)
        /\ x = "dead" => p = <<>> /\ client[c].phase \in {"resolved", "open", "settling"}
  BY <1>2
<1>4. FailReserve(c) => client[c].phase = "resolved"
  BY <1>1 DEF FailReserve, RefuseReserve, GiveUpReserve, AtLedger, SessionFits
<1>5. /\ event' = event /\ \A u \in Tx : tx'[u] = Idle \/ tx'[u] = tx[u]
      /\ tx'[c] = Idle
  <2>1. CASE UNCHANGED vars /\ tx[c] = Idle
    BY <2>1 DEF vars
  <2>2. CASE RefuseReserve(c) \/ GiveUpReserve(c) \/ Rollback(c)
    <3>1. Finish(c) /\ event' = event
      BY <2>2 DEF RefuseReserve, GiveUpReserve, Rollback
    <3> QED
      BY <1>1, <3>1, FinishType DEF Good, Books, IInv, LedgerInv, TypeInv
  <2> QED
    BY <2>1, <2>2 DEF FailReserve, Crash
<1>6. CallFits(c)'
  <2>1. Len(<<>>) = 0
    BY EmptySeq
  <2>2. StepsFit(c)'
    BY <1>1, <1>3, <1>5, <2>1 DEF CallFits, StepsFit, Remembers
  <2>3. PhaseFits(c)'
    BY <1>1, <1>3, <1>4, <1>5 DEF CallFits, PhaseFits, Remembers, NoEvent
  <2>4. Faithful(c)'
    BY <1>1, <1>3, <1>5 DEF CallFits, Faithful, HasEnded, Remembers
  <2> QED
    BY <2>2, <2>3, <2>4 DEF CallFits
<1>7. client[c].steps \in Tallies /\ Within(client[c].steps, client[c].steps)
  BY <1>1, FitTypes DEF Good, CallFits, StepsFit
<1>8. /\ \A d \in Calls \ {c} : client'[d] = client[d] /\ event'[d] = event[d]
      /\ client'[c].steps = client[c].steps
  BY <1>3, <1>5 DEF Remembers
<1>9. tx'[c].kind \notin {"reserve", "settle"}
  BY <1>5
<1> QED
  BY <1>5, <1>6, <1>7, <1>8, <1>9, CallMoves DEF Good

\* A reservation commits; whether its process hears of it or not, the grant it
\* goes by is at most the amount reserved.
LEMMA OpensFits ==
  ASSUME Good, NEW c \in Calls, Opens(c) \/ OpensUnheard(c)
  PROVE  MemoryFits'
<1>1. /\ CommitReserve(c) /\ c \in Tx /\ CallFits(c) /\ SessionFits(c)
      /\ client[c].steps \in Tallies
  BY OwnTx, FitTypes DEF Opens, OpensUnheard, Good
<1>2. /\ tx[c].kind = "reserve" /\ tx[c].call = c /\ tx[c].mode = client[c].mode
      /\ client[c].phase = "resolved" /\ tx[c].grant \in Nat
      /\ event[c].state = "none"
  BY <1>1, TxKinds DEF CommitReserve, SessionFits, Good, Books, IInv, ReserveTx,
                       CallFits, PhaseFits
<1>3. /\ event'[c] = Reservation(c)
      /\ \A d \in Calls \ {c} : event'[d] = event[d]
  BY <1>1, <1>2 DEF CommitReserve, Good, Books, IInv, TypeOK
<1>4. /\ event'[c].state = "reserved" /\ event'[c].mode = client[c].mode
      /\ event'[c].amount = tx[c].grant /\ event'[c].stored = NoSteps
      /\ event'[c].actual = 0
  BY <1>2, <1>3 DEF Reservation
<1>5. /\ tx'[c] = Idle /\ \A u \in Tx \ {c} : tx'[u] = tx[u]
  BY <1>1, FinishType DEF CommitReserve, Good, Books, IInv, LedgerInv, TypeInv
<1>6. ASSUME NEW u \in Tx, Ends(u)
      PROVE  tx[u].call # c
  BY <1>2, <1>6 DEF Good, Books, IInv, LedgerInv, CallsOwned, Settles, Ends
<1>7. PICK x \in {"open", "failed"}, g \in {0, RequestsGranted(client[c].mode, tx[c].grant)} :
        /\ Remembers(c, x, client[c].mode, g, client[c].steps, client[c].pending)
        /\ x = "failed" => g = 0
  <2>1. CASE Opens(c)
    BY <2>1, OpensType DEF Good
  <2>2. CASE OpensUnheard(c)
    <3>1. client[c].grant = 0
      BY <1>1, <1>2 DEF CallFits, PhaseFits
    <3>2. Remembers(c, "failed", client[c].mode, client[c].grant, client[c].steps,
                    client[c].pending)
      BY <2>2, PhaseSet DEF OpensUnheard, Good
    <3> QED
      BY <3>1, <3>2
  <2> QED
    BY <2>1, <2>2
<1>8. client[c].mode = "requests" => g <= tx[c].grant
  BY <1>2 DEF RequestsGranted
<1>9. client[c].grant = 0 /\ client[c].steps.requests = 0 /\ client[c].pending = <<>>
      /\ client[c].steps = NoSteps /\ g \in Nat
  <2>1. client[c].grant = 0 /\ client[c].pending = <<>>
    BY <1>1, <1>2 DEF CallFits, PhaseFits
  <2>2. client[c].steps.requests <= 0 /\ client[c].steps.requests \in Nat
    BY <1>1, <2>1, BoundsAssumption DEF CallFits, StepsFit, Tallies
  <2>3. client[c].steps.requests = 0 /\ client[c].steps = NoSteps
    BY <1>1, <2>2 DEF CallFits, StepsFit, Within
  <2>4. g \in Nat
    BY <1>2, CallsAssumption, BoundsAssumption DEF RequestsGranted
  <2> QED
    BY <2>1, <2>3, <2>4
<1>10. CallFits(c)'
  <2>1. Len(<<>>) = 0 /\ Within(NoSteps, NoSteps)
    BY EmptySeq DEF Within
  <2>2. StepsFit(c)'
    BY <1>4, <1>7, <1>9, <2>1 DEF StepsFit, Remembers
  <2>3. PhaseFits(c)'
    BY <1>4, <1>7, <1>8, <1>9 DEF PhaseFits, Remembers
  <2>4. Faithful(c)'
    BY <1>4 DEF Faithful, HasEnded
  <2> QED
    BY <2>2, <2>3, <2>4 DEF CallFits
<1>11. /\ \A d \in Calls \ {c} : client'[d] = client[d] /\ event'[d] = event[d]
       /\ client'[c].steps = client[c].steps
  BY <1>3, <1>7 DEF Remembers
<1>12. Within(client[c].steps, client[c].steps) /\ tx'[c].kind \notin {"reserve", "settle"}
  BY <1>1, <1>5 DEF CallFits, StepsFit
<1> QED
  BY <1>1, <1>5, <1>6, <1>10, <1>11, <1>12, CallMoves DEF Good

\* What a settlement that commits does to the event of the call it ends.
LEMMA EndedEvent ==
  ASSUME Good, NEW t \in Tx, CommitCharge(t) \/ CommitRelease(t),
         NEW c, c = tx[t].call
  PROVE  /\ c \in Calls /\ Ends(t) /\ event[c].state = "reserved"
         /\ event'[c].state = IF tx[t].tally.requests = 0 THEN "released" ELSE "finalized"
         /\ event'[c].actual = IF tx[t].tally.requests = 0 THEN event[c].actual
                               ELSE ChargeOf(event[c].mode, tx[t].tally)
         /\ event'[c].mode = event[c].mode /\ event'[c].stored = event[c].stored
         /\ event'[c].amount = event[c].amount /\ event'[c].at = event[c].at
         /\ \A d \in Calls \ {c} : event'[d] = event[d]
         /\ tx'[t] = Idle /\ \A u \in Tx \ {t} : tx'[u] = tx[u]
<1>1. /\ tx[t] \in SettleTx /\ Ends(t) /\ event[c].state = "reserved" /\ c \in Calls
  BY SettledAmounts DEF Good, Books, IInv, LedgerInv, TypeInv, Settles, Ends, SettleTx
<1>2. event \in [Calls -> Events] /\ tx[t].tally.requests \in Nat
  BY <1>1, BoundsAssumption DEF Good, Books, IInv, TypeOK, SettleTx, Tallies
<1>3. Finish(t)
  BY DEF CommitCharge, CommitRelease
<1>4. tx'[t] = Idle /\ \A u \in Tx \ {t} : tx'[u] = tx[u]
  BY <1>3, FinishType DEF Good, Books, IInv, LedgerInv, TypeInv
<1>5. CASE CommitCharge(t)
  <2> DEFINE charge == ChargeOf(event[c].mode, tx[t].tally)
             e == [event[c] EXCEPT !.state = "finalized", !.actual = charge]
  <2>1. event' = [event EXCEPT ![c] = e] /\ tx[t].tally.requests > 0
    BY <1>5 DEF CommitCharge
  <2> HIDE DEF charge
  <2>2. /\ e.state = "finalized" /\ e.actual = charge /\ e.mode = event[c].mode
        /\ e.stored = event[c].stored /\ e.amount = event[c].amount /\ e.at = event[c].at
    BY <1>1, <1>2 DEF Events
  <2> HIDE DEF e
  <2>3. event'[c] = e /\ \A d \in Calls \ {c} : event'[d] = event[d]
    BY <1>1, <1>2, <2>1
  <2>4. tx[t].tally.requests # 0
    BY <1>2, <2>1
  <2> QED
    BY <1>1, <1>4, <2>2, <2>3, <2>4 DEF charge
<1>6. CASE CommitRelease(t)
  <2> DEFINE e == [event[c] EXCEPT !.state = "released"]
  <2>1. event' = [event EXCEPT ![c] = e] /\ tx[t].tally.requests = 0
    BY <1>6 DEF CommitRelease
  <2>2. /\ e.state = "released" /\ e.actual = event[c].actual /\ e.mode = event[c].mode
        /\ e.stored = event[c].stored /\ e.amount = event[c].amount /\ e.at = event[c].at
    BY <1>1, <1>2 DEF Events
  <2> HIDE DEF e
  <2>3. event'[c] = e /\ \A d \in Calls \ {c} : event'[d] = event[d]
    BY <1>1, <1>2, <2>1
  <2> QED
    BY <1>1, <1>4, <2>1, <2>2, <2>3
<1> QED
  BY <1>5, <1>6

\* What a settlement charges lies between what was stored and what was used.
LEMMA EndFits ==
  ASSUME Good, NEW t \in Tx, CommitCharge(t) \/ CommitRelease(t),
         client' = client \/ (t \in Calls /\ Settled(t)),
         NEW c, c = tx[t].call
  PROVE  MemoryFits'
<1>1. /\ c \in Calls /\ Ends(t) /\ event[c].state = "reserved"
      /\ event'[c].state = IF tx[t].tally.requests = 0 THEN "released" ELSE "finalized"
      /\ event'[c].actual = IF tx[t].tally.requests = 0 THEN event[c].actual
                            ELSE ChargeOf(event[c].mode, tx[t].tally)
      /\ event'[c].mode = event[c].mode /\ event'[c].stored = event[c].stored
      /\ event'[c].amount = event[c].amount
      /\ \A d \in Calls \ {c} : event'[d] = event[d]
      /\ tx'[t] = Idle /\ \A u \in Tx \ {t} : tx'[u] = tx[u]
  BY EndedEvent
<1>2. /\ c \in Tx /\ CallFits(c) /\ SessionFits(t) /\ TallyFits(t)
      /\ tx[t].tally \in Tallies
      /\ client[c].steps \in Tallies /\ event[c].stored \in Tallies
  BY <1>1, OwnTx, FitsByCall, FitTypes, TxKinds DEF Good, Books, IInv, Ends, SettleTx
<1>3. /\ Within(event[c].stored, tx[t].tally) /\ Within(tx[t].tally, client[c].steps)
  BY <1>1, <1>2 DEF TallyFits
<1>4. t \in Calls => c = t /\ client[c].phase = "settling" /\ client[c].pending = <<>>
  BY <1>1, <1>2 DEF SessionFits
<1>5. PICK x \in {client[c].phase, "settled"} :
        /\ Remembers(c, x, client[c].mode, client[c].grant, client[c].steps, client[c].pending)
        /\ x = client[c].phase \/ client[c].pending = <<>>
        /\ x # client[c].phase => client[c].phase = "settling"
  <2>1. CASE client' = client
    BY <2>1 DEF Remembers
  <2>2. CASE t \in Calls /\ Settled(t)
    BY <1>4, <2>2, PhaseSet DEF Settled, Good
  <2> QED
    BY <2>1, <2>2
<1>6. Faithful(c)'
  <2>1. /\ ChargeOf(event[c].mode, event[c].stored) <= ChargeOf(event[c].mode, tx[t].tally)
        /\ ChargeOf(event[c].mode, tx[t].tally) <= ChargeOf(event[c].mode, client[c].steps)
        /\ ChargeOf(event[c].mode, event[c].stored) \in Nat
        /\ ChargeOf(event[c].mode, client[c].steps) \in Nat
    BY <1>2, <1>3, ChargesGrow
  <2>2. tx[t].tally.requests = 0 =>
          event[c].actual = 0 /\ ChargeOf(event[c].mode, event[c].stored) = 0
    <3>1. tx[t].tally.requests = 0 => event[c].stored.requests = 0
      BY <1>2, <1>3, BoundsAssumption DEF Within, Tallies
    <3>2. tx[t].tally.requests = 0 => event[c].stored = NoSteps
      BY <1>3, <3>1 DEF Within
    <3> QED
      BY <1>1, <1>2, <3>2 DEF ChargeOf, CallFits, StepsFit
  <2>3. client'[c].steps = client[c].steps
    BY <1>5 DEF Remembers
  <2> QED
    BY <1>1, <2>1, <2>2, <2>3 DEF Faithful
<1>7. StepsFit(c)'
  BY <1>1, <1>2, <1>5 DEF CallFits, StepsFit, Remembers
<1>8. PhaseFits(c)'
  BY <1>1, <1>2, <1>5 DEF CallFits, PhaseFits, Remembers
<1>9. tx'[c].kind \notin {"reserve", "settle"}
  <2>1. CASE c = t
    BY <1>1, <2>1
  <2>2. CASE c # t
    <3>1. t \notin Calls /\ tx'[c] = tx[c]
      BY <1>1, <1>2, <1>4, <2>2
    <3>2. tx[c].kind # "reserve"
      BY <1>1, OwnTx, <1>2 DEF CallFits, PhaseFits
    <3>3. tx[c].kind # "settle"
      <4> SUFFICES ASSUME tx[c].kind = "settle"
                   PROVE  FALSE
        OBVIOUS
      <4>1. tx[c].call = c
        BY <1>1, OwnTx DEF SessionFits, Ends
      <4> QED
        BY <1>1, <1>2, <2>2, <4>1, OneSettler
           DEF Good, Books, IInv, LedgerInv, LockInv, Settles, Ends
    <3> QED
      BY <3>1, <3>2, <3>3
  <2> QED
    BY <2>1, <2>2
<1>10. /\ \A d \in Calls \ {c} : client'[d] = client[d] /\ event'[d] = event[d]
       /\ client'[c].steps = client[c].steps
       /\ Within(client[c].steps, client'[c].steps)
  BY <1>1, <1>2, <1>5 DEF Remembers, CallFits, StepsFit
<1>11. \A u \in Tx : tx'[u] = Idle
                      \/ (tx'[u] = tx[u] /\ event'[c].stored = event[c].stored)
  BY <1>1
<1>12. CallFits(c)'
  BY <1>6, <1>7, <1>8 DEF CallFits
<1> QED
  BY <1>1, <1>2, <1>9, <1>10, <1>11, <1>12, CallMoves DEF Good

-----------------------------------------------------------------------------
(* Steps of one session                                                    *)

\* A transaction that has begun or gone on, and nothing else.
LEMMA BegunTx ==
  ASSUME Good, NEW t \in Tx
  PROVE  /\ \A c, mode, ask : BeginReserve(t, c, mode, ask) =>
              /\ tx'[t].kind = "reserve" /\ tx'[t].call = c /\ tx'[t].mode = mode
              /\ tx'[t].step = "ledger"
         /\ \A c, tally : BeginSettle(t, c, tally) =>
              /\ tx'[t].kind = "settle" /\ tx'[t].call = c
              /\ tx'[t].tally = ToCharge(c, tally)
              /\ event[c].state = "reserved"
         /\ \A edited : BeginBudgetEdit(t, edited) => tx'[t].kind = "budget"
         /\ ReopenPeriod(t) \/ GrantReserve(t) =>
              /\ tx[t].kind = "reserve" /\ tx'[t].kind = "reserve"
              /\ tx'[t].call = tx[t].call /\ tx'[t].mode = tx[t].mode
         /\ LockLedgerToSettle(t) =>
              /\ tx[t].kind = "settle" /\ tx'[t].kind = "settle"
              /\ tx'[t].call = tx[t].call /\ tx'[t].tally = tx[t].tally
<1>1. tx \in [Tx -> AllTx]
  BY DEF Good, Books, IInv, TypeOK, AllTx
<1>2. tx[t].kind = "reserve" => tx[t] \in ReserveTx
  BY TxKinds DEF Good, Books, IInv
<1>3. tx[t].kind = "settle" => tx[t] \in SettleTx
  BY TxKinds DEF Good, Books, IInv
<1>4. ASSUME ReopenPeriod(t) \/ GrantReserve(t)
      PROVE  /\ tx[t].kind = "reserve" /\ tx'[t].kind = "reserve"
             /\ tx'[t].call = tx[t].call /\ tx'[t].mode = tx[t].mode
  BY <1>1, <1>2, <1>4 DEF ReopenPeriod, GrantReserve, AtLedger, ReserveTx
<1>5. ASSUME LockLedgerToSettle(t)
      PROVE  /\ tx[t].kind = "settle" /\ tx'[t].kind = "settle"
             /\ tx'[t].call = tx[t].call /\ tx'[t].tally = tx[t].tally
  BY <1>1, <1>3, <1>5 DEF LockLedgerToSettle, AtLedger, SettleTx
<1> QED
  BY <1>1, <1>4, <1>5 DEF BeginReserve, BeginSettle, BeginBudgetEdit

\* Steps of one transaction change no other's.
LEMMA OneTxMoves ==
  ASSUME Good, NEW t \in Tx,
         \/ \E c, mode, ask : BeginReserve(t, c, mode, ask)
         \/ \E c, tally : BeginSettle(t, c, tally)
         \/ \E edited : BeginBudgetEdit(t, edited)
         \/ ReopenPeriod(t) \/ GrantReserve(t) \/ LockLedgerToSettle(t)
         \/ CommitBudgetEdit(t) \/ Rollback(t)
  PROVE  /\ event' = event /\ \A u \in Tx \ {t} : tx'[u] = tx[u]
         /\ CommitBudgetEdit(t) \/ Rollback(t) => tx'[t] = Idle
<1>1. tx \in [Tx -> AllTx]
  BY DEF Good, Books, IInv, TypeOK, AllTx
<1> QED
  BY <1>1 DEF BeginReserve, BeginSettle, BeginBudgetEdit, ReopenPeriod, GrantReserve,
              LockLedgerToSettle, CommitBudgetEdit, Rollback, Finish

\* A call begins to reserve, and its reservation goes on.
LEMMA ReservingFits ==
  ASSUME Good, NEW c \in Calls, StartReserve(c) \/ WaitInReserve(c)
  PROVE  MemoryFits'
<1>1. c \in Tx /\ SessionFits(c) /\ client' = client
  BY OwnTx DEF StartReserve, WaitInReserve
<1>2. /\ event' = event /\ \A u \in Tx \ {c} : tx'[u] = tx[u]
  BY <1>1, OneTxMoves DEF StartReserve, WaitInReserve
<1>3. /\ tx'[c].kind = "reserve" /\ tx'[c].call = c /\ tx'[c].mode = client[c].mode
      /\ client[c].phase = "resolved"
  <2>1. CASE StartReserve(c)
    BY <1>1, <2>1, BegunTx DEF StartReserve
  <2>2. CASE WaitInReserve(c)
    BY <1>1, <2>2, BegunTx DEF WaitInReserve, SessionFits
  <2> QED
    BY <2>1, <2>2
<1>4. SessionFits(c)' /\ TallyFits(c)'
  BY <1>1, <1>3 DEF SessionFits, TallyFits, Ends
<1> QED
  BY <1>1, <1>2, <1>4, TxMoves DEF Good

\* A call settles for all of its steps: those stored are among them.
LEMMA TrySettleFits ==
  ASSUME Good, NEW c \in Calls, TrySettle(c)
  PROVE  MemoryFits'
<1>1. /\ c \in Tx /\ CallFits(c) /\ client' = client
      /\ client[c].phase = "settling" /\ client[c].pending = <<>>
      /\ BeginSettle(c, c, client[c].steps)
  BY OwnTx DEF TrySettle, SettleWithPermit, Writing
<1>2. /\ event' = event /\ \A u \in Tx \ {c} : tx'[u] = tx[u]
  BY <1>1, OneTxMoves
<1>3. /\ tx'[c].kind = "settle" /\ tx'[c].call = c
      /\ tx'[c].tally = ToCharge(c, client[c].steps)
  BY <1>1, BegunTx
<1>4. ToCharge(c, client[c].steps) = client[c].steps
  BY <1>1, FitTypes, BoundsAssumption DEF ToCharge, CallFits, StepsFit, Within, Tallies, Good
<1>5. SessionFits(c)' /\ TallyFits(c)'
  BY <1>1, <1>2, <1>3, <1>4 DEF SessionFits, TallyFits, Ends, CallFits, StepsFit
<1> QED
  BY <1>1, <1>2, <1>5, TxMoves DEF Good

\* The stale job settles for what is stored.
LEMMA RecoverFits ==
  ASSUME Good, NEW r \in Recoverers, NEW c \in Calls, Recover(r, c)
  PROVE  MemoryFits'
<1>1. /\ r \in Tx /\ r \notin Calls /\ CallFits(c) /\ client' = client
      /\ BeginSettle(r, c, NoSteps)
  BY OwnTx, SessionsAssumption DEF Recover
<1>2. /\ event' = event /\ \A u \in Tx \ {r} : tx'[u] = tx[u]
  BY <1>1, OneTxMoves
<1>3. /\ tx'[r].kind = "settle" /\ tx'[r].call = c
      /\ tx'[r].tally = ToCharge(c, NoSteps)
  BY <1>1, BegunTx
<1>4. ToCharge(c, NoSteps) = event[c].stored
  <2>1. event[c].stored \in Tallies
    BY FitTypes DEF Good
  <2>2. CASE event[c].stored.requests = 0
    BY <1>1, <2>2 DEF ToCharge, CallFits, StepsFit, Within
  <2>3. CASE event[c].stored.requests # 0
    BY <2>1, <2>3, BoundsAssumption DEF ToCharge, Tallies
  <2> QED
    BY <2>2, <2>3
<1>5. Within(event[c].stored, event[c].stored)
  <2>1. event[c].stored \in Tallies
    BY FitTypes DEF Good
  <2> QED
    BY <1>1, <2>1, BoundsAssumption DEF Within, Tallies, CallFits, StepsFit
<1>6. TallyFits(r)'
  BY <1>1, <1>2, <1>3, <1>4, <1>5 DEF TallyFits, Ends, CallFits, StepsFit
<1>7. SessionFits(r)'
  BY <1>1, <1>3 DEF SessionFits, Ends
<1> QED
  BY <1>1, <1>2, <1>6, <1>7, TxMoves DEF Good

\* A settlement that has got its ledger row is still about the same tally.
LEMMA WaitInSettleFits ==
  ASSUME Good, NEW t \in Tx, WaitInSettle(t)
  PROVE  MemoryFits'
<1>1. /\ LockLedgerToSettle(t) /\ client' = client /\ SessionFits(t) /\ TallyFits(t)
  BY FitsByCall DEF WaitInSettle, Good
<1>2. /\ event' = event /\ \A u \in Tx \ {t} : tx'[u] = tx[u]
  BY <1>1, OneTxMoves
<1>3. /\ tx[t].kind = "settle" /\ tx'[t].kind = "settle"
      /\ tx'[t].call = tx[t].call /\ tx'[t].tally = tx[t].tally
  BY <1>1, BegunTx
<1>4. SessionFits(t)' /\ TallyFits(t)'
  BY <1>1, <1>2, <1>3 DEF SessionFits, TallyFits, Ends
<1> QED
  BY <1>1, <1>2, <1>4, TxMoves DEF Good

\* Administrators' transactions, and those that are undone.
LEMMA OtherTxFits ==
  ASSUME Good, NEW t \in Tx, FailTx(t) \/ (t \in Admins /\ EditBudget(t))
  PROVE  MemoryFits'
<1>1. client' = client
  BY DEF FailTx, EditBudget
<1>2. event' = event /\ \A u \in Tx \ {t} : tx'[u] = tx[u]
  BY OneTxMoves DEF FailTx, EditBudget
<1>3. SessionFits(t)' /\ TallyFits(t)'
  <2>1. CASE Rollback(t) \/ CommitBudgetEdit(t)
    BY <2>1, OneTxMoves, SessionIdle
  <2>2. CASE t \in Admins /\ \E edited : BeginBudgetEdit(t, edited)
    <3>1. tx'[t].kind = "budget" /\ t \notin Calls
      BY <2>2, BegunTx, SessionsAssumption
    <3> QED
      BY <3>1 DEF SessionFits, TallyFits, Ends
  <2> QED
    BY <2>1, <2>2 DEF FailTx, EditBudget
<1> QED
  BY <1>1, <1>2, <1>3, TxMoves DEF Good

\* Steps that neither a call nor a session notices.
LEMMA QuietFits ==
  ASSUME MemoryFits, client' = client, event' = event, tx' = tx
  PROVE  MemoryFits'
BY FitsByCall, CallKept, SessionKept

\* Every step leaves processes, sessions and the database in agreement.
LEMMA FitsNext ==
  ASSUME Good, [CallsNext]_callVars
  PROVE  MemoryFits'
<1>1. ASSUME NEW c \in Calls, CallStep(c)
      PROVE  MemoryFits'
  <2>1. c \in Tx
    BY Inputs DEF Good
  <2>2. CASE Resolve(c)
    BY <2>2, ResolveFits
  <2>3. CASE StartReserve(c) \/ WaitInReserve(c)
    BY <2>3, ReservingFits
  <2>4. CASE FailReserve(c) \/ Crash(c)
    BY <2>4, DiesFits
  <2>5. CASE Opens(c) \/ OpensUnheard(c)
    BY <2>5, OpensFits
  <2>6. CASE \E tokens \in StepTokens : FinishRequest(c, tokens)
    BY <2>6, FinishRequestFits
  <2>7. CASE StoreSteps(c)
    BY <2>7, StoreStepsFits
  <2>8. CASE StoreNothing(c) \/ DropWrite(c) \/ StartSettle(c)
    BY <2>8, QueueFits
  <2>9. CASE TrySettle(c)
    BY <2>9, TrySettleFits
  <2>10. CASE WaitInSettle(c)
    BY <2>1, <2>10, WaitInSettleFits
  <2>11. CASE EndSettle(c)
    <3>1. /\ CommitCharge(c) \/ CommitRelease(c)
          /\ client' = client \/ Settled(c)
      BY <2>11 DEF EndSettle
    <3> QED
      BY <2>1, <3>1, EndFits
  <2>12. CASE FindSettled(c) \/ LeaveSettle(c)
    BY <2>12, PhaseEndFits
  <2>13. CASE FinishTooLate(c)
    BY <2>13, QuietFits DEF FinishTooLate, callVars, vars, Good
  <2> QED
    BY <1>1, <2>2, <2>3, <2>4, <2>5, <2>6, <2>7, <2>8, <2>9, <2>10, <2>11, <2>12, <2>13
       DEF CallStep
<1>2. ASSUME NEW r \in Recoverers, RecoverStep(r)
      PROVE  MemoryFits'
  <2>1. r \in Tx
    BY Inputs DEF Good
  <2>2. CASE \E c \in Calls : Recover(r, c)
    BY <2>2, RecoverFits
  <2>3. CASE WaitInSettle(r)
    BY <2>1, <2>3, WaitInSettleFits
  <2>4. CASE EndRecover(r)
    <3>1. (CommitCharge(r) \/ CommitRelease(r)) /\ client' = client
      BY <2>4 DEF EndRecover
    <3> QED
      BY <2>1, <3>1, EndFits
  <2> QED
    BY <1>2, <2>2, <2>3, <2>4 DEF RecoverStep
<1>3. CASE (\E a \in Admins : EditBudget(a)) \/ (\E t \in Tx : FailTx(t))
  BY <1>3, OtherTxFits, Inputs DEF Good
<1>4. CASE \/ EditPool \/ RollOverJob \/ Pass \/ UNCHANGED callVars
           \/ \E mode \in MeteringModes : SetMeteringMode(mode)
  <2>1. client' = client /\ event' = event /\ tx' = tx
    BY <1>4 DEF EditPool, PatchPool, RollOverJob, RollOver, Pass, Tick, SetMeteringMode,
                callVars, vars
  <2> QED
    BY <2>1, QuietFits DEF Good
<1> QED
  BY <1>1, <1>2, <1>3, <1>4 DEF CallsNext

\* Nothing has happened yet.
LEMMA FitsInit == CallsInit => CallsTypeOK /\ MemoryFits /\ Books
<1> SUFFICES ASSUME CallsInit
             PROVE  CallsTypeOK /\ MemoryFits /\ Books
  OBVIOUS
<1>1. /\ Init /\ meteringMode \in MeteringModes
      /\ client = [c \in Calls |-> NewClient]
      /\ event = [c \in Calls |-> NoEvent] /\ tx = [t \in Tx |-> Idle]
  BY DEF CallsInit, Init
<1>2. NewClient \in Clients
  BY BoundsAssumption, EmptySeq DEF NewClient, Clients, Tallies
<1>3. CallsTypeOK
  BY <1>1, <1>2 DEF CallsTypeOK
<1>4. ASSUME NEW c \in Calls
      PROVE  CallFits(c)
  <2>1. client[c] = NewClient /\ event[c] = NoEvent /\ Len(<<>>) = 0
    BY <1>1, EmptySeq
  <2> QED
    BY <2>1 DEF CallFits, PhaseFits, StepsFit, Faithful, HasEnded, NewClient, NoEvent, Within
<1>5. ASSUME NEW t \in Tx
      PROVE  SessionFits(t) /\ TallyFits(t)
  BY <1>1 DEF SessionFits, TallyFits, Ends
<1> QED
  BY <1>1, <1>3, <1>4, <1>5, FitsByCall, BooksInit

-----------------------------------------------------------------------------
(* Metered requests stay within the budget                                 *)

\* The budget a pool starts with, and every one it is given later, is one an
\* administrator may set.
LEMMA BudgetNext ==
  ASSUME Good, BudgetKnown, [Next]_vars
  PROVE  BudgetKnown'
<1>1. CASE pool' = pool
  BY <1>1 DEF BudgetKnown
<1>2. ASSUME NEW t \in Tx, CommitBudgetEdit(t)
      PROVE  BudgetKnown'
  BY <1>2 DEF CommitBudgetEdit, AtLedger, BudgetKnown, Good, Books, AllAsksBounded, AsksBounded
<1>3. ASSUME NEW edited \in Editable, PatchPool(edited)
      PROVE  BudgetKnown'
  BY <1>3 DEF PatchPool, BudgetKnown
<1>4. ASSUME NEW t \in Tx, ReserveStep(t) \/ SettleStep(t) \/ Rollback(t)
      PROVE  pool' = pool
  BY <1>4 DEF ReserveStep, SettleStep, Rollback, BeginReserve, ReopenPeriod, GiveUpReserve,
              RefuseReserve, GrantReserve, CommitReserve, BeginSettle, LockLedgerToSettle,
              CommitCharge, CommitRelease
<1>5. ASSUME NEW t \in Tx, NEW edited, BeginBudgetEdit(t, edited)
      PROVE  pool' = pool
  BY <1>5 DEF BeginBudgetEdit
<1>6. CASE RollOver \/ Tick \/ UNCHANGED vars
           \/ \E c \in Calls, tally \in Tallies : RecordUsage(c, tally)
  BY <1>1, <1>6 DEF RollOver, Tick, vars, RecordUsage
<1> QED
  BY <1>1, <1>2, <1>3, <1>4, <1>5, <1>6 DEF Next, BudgetStep

\* A reservation that is made keeps its period and mode.
LEMMA ModeKept ==
  ASSUME Good, [Next]_vars, NEW c \in Calls, event[c].state # "none"
  PROVE  event'[c].period = event[c].period /\ event'[c].mode = event[c].mode
<1>1. TypeInv /\ LockInv /\ CallsOwned
  BY DEF Good, Books, IInv, LedgerInv, TypeInv, LockInv
<1>2. ASSUME NEW t \in Tx, CommitReserve(t)
      PROVE  event'[c] = event[c]
  <2>1. tx[t].call # c
    BY <1>1, <1>2 DEF CallsOwned, CommitReserve
  <2> QED
    BY <1>1, <1>2, <2>1, OwnedCommit
<1>3. ASSUME NEW t \in Tx, CommitCharge(t) \/ CommitRelease(t)
      PROVE  event'[c].period = event[c].period /\ event'[c].mode = event[c].mode
  <2>1. CASE c = tx[t].call
    BY <1>1, <1>3, <2>1, SettledAmounts, EndedEvent
  <2>2. CASE c # tx[t].call
    BY <1>1, <1>3, <2>2, OwnedCommit
  <2> QED
    BY <2>1, <2>2
<1>4. ASSUME NEW d \in Calls, NEW tally \in Tallies, RecordUsage(d, tally)
      PROVE  event'[c].period = event[c].period /\ event'[c].mode = event[c].mode
  <2> DEFINE e == [event[d] EXCEPT !.stored = tally]
  <2>1. event' = [event EXCEPT ![d] = e]
    BY <1>4 DEF RecordUsage
  <2>2. e.period = event[d].period /\ e.mode = event[d].mode
    BY FitTypes DEF Events, Good
  <2> HIDE DEF e
  <2> QED
    BY <1>1, <2>1, <2>2 DEF TypeInv, TypeOK
<1>5. ASSUME NEW t \in Tx, ReserveStep(t) \/ SettleStep(t) \/ BudgetStep(t) \/ Rollback(t)
      PROVE  event'[c].period = event[c].period /\ event'[c].mode = event[c].mode
  BY <1>2, <1>3, <1>5
     DEF ReserveStep, SettleStep, BudgetStep, Rollback, BeginReserve, ReopenPeriod,
         GiveUpReserve, RefuseReserve, GrantReserve, BeginSettle, LockLedgerToSettle,
         BeginBudgetEdit, CommitBudgetEdit
<1>6. CASE \/ RollOver \/ Tick \/ UNCHANGED vars \/ \E edited \in Editable : PatchPool(edited)
  BY <1>6 DEF RollOver, Tick, vars, PatchPool
<1> QED
  BY <1>4, <1>5, <1>6 DEF Next

\* A period on which nothing but requests is counted.
OnlyRequests(p) == \A c \in Calls : event[c].period = p => event[c].mode = "requests"

\* Once a period counts anything else, it always will.
LEMMA OnlyRequestsBefore ==
  ASSUME Good, [Next]_vars, NEW p \in 1..Len(ledger), OnlyRequests(p)'
  PROVE  OnlyRequests(p)
<1> SUFFICES ASSUME NEW c \in Calls, event[c].period = p
             PROVE  event[c].mode = "requests"
  BY DEF OnlyRequests
<1>1. p # 0
  BY LedgerType DEF Good, Books, IInv
<1>2. event[c].state # "none"
  BY <1>1, OwnTx DEF CallFits, PhaseFits, NoEvent
<1> QED
  BY <1>2, ModeKept DEF OnlyRequests

\* What is held and used on a row fits a budget.
RowFits(row) == \E b \in Budgets : row.reserved + row.consumed <= b

\* The property, period by period.
LEMMA RequestsByPeriod ==
  ASSUME TypeOK
  PROVE  RequestsStayInBudget <=>
           \A p \in 1..Len(ledger) : OnlyRequests(p) => RowFits(ledger[p])
BY LedgerType DEF RequestsStayInBudget, OnlyRequests, RowFits

\* An untouched row fits any budget.
LEMMA UntouchedFits ==
  ASSUME BudgetKnown, NEW row, row.reserved = 0, row.consumed = 0
  PROVE  RowFits(row)
<1>1. pool.budget \in Budgets /\ pool.budget \in Nat
  BY BudgetsAssumption DEF BudgetKnown
<1> QED
  BY <1>1 DEF RowFits

\* A grant is covered by the pool's budget.
LEMMA GrantFits ==
  ASSUME Good, BudgetKnown, NEW t \in Tx, CommitReserve(t)
  PROVE  RowFits(Reserving(t))
<1>1. /\ TypeInv /\ DraftsCurrent /\ RemainingAddsUp /\ BudgetCurrent /\ GrantsCovered
  BY DEF Good, Books, IInv, LedgerInv, TypeInv
<1>2. /\ OnPool(t) /\ tx[t] \in ReserveTx /\ tx[t].step = "commit"
      /\ RowOf(t) \in LedgerRows
      /\ Reserving(t).consumed = RowOf(t).consumed
      /\ Reserving(t).reserved = RowOf(t).reserved + tx[t].grant
  BY <1>1, ReservedRow
<1>3. /\ \A i \in 1..Len(tx[t].opened) : AddsUp(tx[t].opened[i])
      /\ RowOf(t).budget = pool.budget
      /\ tx[t].period = Len(ledger) + Len(tx[t].opened)
      /\ Len(ledger) \in Nat \ {0} /\ Len(tx[t].opened) \in Nat
  BY <1>1, <1>2, SeenRows
<1>4. AddsUp(RowOf(t))
  <2>1. CASE Len(tx[t].opened) = 0
    <3>1. RowOf(t) = ledger[Len(ledger)] /\ Len(ledger) \in 1..Len(ledger)
      BY <1>1, <1>2, <1>3, <2>1, RowOfType DEF RowOf
    <3> QED
      BY <1>1, <3>1 DEF RemainingAddsUp
  <2>2. CASE Len(tx[t].opened) # 0
    <3>1. /\ RowOf(t) = tx[t].opened[Len(tx[t].opened)]
          /\ Len(tx[t].opened) \in 1..Len(tx[t].opened)
      BY <1>1, <1>2, <1>3, <2>2, RowOfType DEF RowOf
    <3> QED
      BY <1>3, <3>1
  <2> QED
    BY <2>1, <2>2
<1>5. tx[t].grant > 0 /\ tx[t].grant <= RowOf(t).remaining /\ tx[t].grant \in Nat
  BY <1>1, <1>2 DEF GrantsCovered, GrantCovered, ReserveTx
<1>6. RowOf(t).reserved + tx[t].grant + RowOf(t).consumed <= pool.budget
  <2> DEFINE row == RowOf(t)
             g == tx[t].grant
  <2>1. /\ row.reserved \in Nat /\ row.consumed \in Nat /\ row.budget \in Nat
        /\ row.remaining = AtLeast0(row.budget - row.reserved - row.consumed)
    BY <1>2, <1>4 DEF LedgerRows, AddsUp
  <2> HIDE DEF row, g
  <2>2. g > 0 /\ g <= row.remaining /\ g \in Nat
    BY <1>5 DEF row, g
  <2>3. row.reserved + g + row.consumed <= row.budget
    BY <2>1, <2>2 DEF AtLeast0
  <2> QED
    BY <1>3, <2>3 DEF row, g
<1>7. pool.budget \in Budgets
  BY DEF BudgetKnown
<1> QED
  BY <1>2, <1>6, <1>7 DEF RowFits, LedgerRows, ReserveTx

\* Ending a reservation of requests never takes more than it held.
LEMMA EndedFits ==
  ASSUME Good, NEW t \in Tx, CommitCharge(t) \/ CommitRelease(t),
         NEW c, c = tx[t].call, NEW p, p = tx[t].period,
         event[c].mode = "requests", RowFits(ledger[p])
  PROVE  RowFits(ledger'[p])
<1>1. /\ TypeInv /\ LockInv /\ CallsOwned /\ RowsCount
  BY DEF Good, Books, IInv, LedgerInv, TypeInv, LockInv
<1>2. /\ tx[t] \in SettleTx /\ Settles(t) /\ c \in Calls
      /\ event[c].amount \in Nat /\ Charged(t) \in Nat
      /\ ledger' = [ledger EXCEPT ![p] = Settling(c, Charged(t))]
      /\ event[c].period = p /\ event[c].state = "reserved"
  BY <1>1, SettledAmounts DEF SettleTx
<1>3. /\ p \in 1..Len(ledger) /\ ledger[p] \in LedgerRows
      /\ ledger \in Seq(LedgerRows)
  BY <1>1, <1>2, LedgerType DEF TypeInv, PeriodsExist
<1>4. event[c].amount <= ledger[p].reserved
  <2>1. UnitsOf(c, event[c].amount) \subseteq HeldUnits(p)
    BY <1>1, <1>2, SettleUnits
  <2>2. IsFiniteSet(HeldUnits(p)) /\ ledger[p].reserved = Cardinality(HeldUnits(p))
    BY <1>1, <1>3 DEF RowsCount, RowCounts, Counts
  <2> QED
    BY <1>2, <2>1, <2>2, UnitsRemoved
<1>5. Charged(t) <= event[c].amount
  <2>1. /\ CallFits(c) /\ TallyFits(t) /\ tx[t].tally \in Tallies
        /\ client[c].steps \in Tallies /\ client[c].grant \in Nat
    BY <1>2, FitsByCall, FitTypes DEF Good, SettleTx
  <2>2. /\ tx[t].tally.requests <= client[c].steps.requests
        /\ client[c].steps.requests <= client[c].grant
        /\ client[c].grant <= event[c].amount
    BY <1>2, <2>1 DEF CallFits, StepsFit, PhaseFits, TallyFits, Within, Ends, Settles
  <2>3. tx[t].tally.requests \in Nat /\ client[c].steps.requests \in Nat
    BY <2>1, BoundsAssumption DEF Tallies
  <2>4. Charged(t) = 0 \/ Charged(t) = tx[t].tally.requests
    BY DEF Charged, ChargeOf
  <2> QED
    BY <1>2, <2>1, <2>2, <2>3, <2>4
<1>6. ledger'[p] = Settling(c, Charged(t))
  BY <1>2, <1>3
<1> DEFINE row == ledger[p]
           amount == event[c].amount
           charge == Charged(t)
<1>7. /\ Settling(c, charge).reserved = AtLeast0(row.reserved - amount)
      /\ Settling(c, charge).consumed = row.consumed + charge
  BY <1>2 DEF Settling, Booked
<1>8. row.reserved \in Nat /\ row.consumed \in Nat
  BY <1>3 DEF LedgerRows
<1>9. PICK b \in Budgets : row.reserved + row.consumed <= b
  BY DEF RowFits
<1>10. b \in Nat
  BY BudgetsAssumption
<1>11. amount <= row.reserved /\ charge <= amount /\ amount \in Nat /\ charge \in Nat
  BY <1>2, <1>4, <1>5
<1> HIDE DEF row, amount, charge
<1>12. AtLeast0(row.reserved - amount) + (row.consumed + charge) <= b
  BY <1>8, <1>9, <1>10, <1>11 DEF AtLeast0
<1> QED
  BY <1>6, <1>7, <1>12 DEF RowFits, charge

\* Periods of requests keep to a budget, whatever is reserved, ended, edited or
\* opened.
LEMMA RequestsNext ==
  ASSUME Good, BudgetKnown, RequestsStayInBudget, [Next]_vars, TypeOK'
  PROVE  RequestsStayInBudget'
<1>1. /\ TypeInv /\ LockInv /\ CallsOwned /\ DraftsCurrent
      /\ Len(ledger) \in Nat /\ ledger \in Seq(LedgerRows)
  BY LedgerType DEF Good, Books, IInv, LedgerInv, TypeInv, LockInv
<1> SUFFICES ASSUME NEW p \in 1..Len(ledger'), OnlyRequests(p)'
             PROVE  RowFits(ledger'[p])
  BY LedgerType DEF RequestsStayInBudget, OnlyRequests, RowFits, TypeOK
<1>2. p \in 1..Len(ledger) => RowFits(ledger[p]) /\ OnlyRequests(p)
  BY <1>1, OnlyRequestsBefore, RequestsByPeriod DEF TypeInv
<1>3. CASE ledger' = ledger
  BY <1>2, <1>3
<1>4. ASSUME NEW o \in Seq(LedgerRows), ledger' = ledger \o o,
             \A i \in 1..Len(o) : o[i].reserved = 0 /\ o[i].consumed = 0
      PROVE  RowFits(ledger'[p])
  <2>1. /\ Len(o) \in Nat /\ Len(ledger') = Len(ledger) + Len(o)
        /\ ledger'[p] = IF p <= Len(ledger) THEN ledger[p] ELSE o[p - Len(ledger)]
    BY <1>1, <1>4, LenProperties, ConcatProperties
  <2>2. CASE p <= Len(ledger)
    BY <1>1, <1>2, <2>1, <2>2
  <2>3. CASE ~(p <= Len(ledger))
    <3>1. p - Len(ledger) \in 1..Len(o)
      BY <1>1, <2>1, <2>3
    <3> QED
      BY <1>4, <2>1, <2>3, <3>1, UntouchedFits
  <2> QED
    BY <2>2, <2>3
<1>5. ASSUME NEW t \in Tx, OnPool(t), NEW row \in LedgerRows,
             ledger' = [ledger \o tx[t].opened EXCEPT ![tx[t].period] = row],
             p = tx[t].period => RowFits(row)
      PROVE  RowFits(ledger'[p])
  <2>1. /\ Len(ledger') = Len(ledger) + Len(tx[t].opened)
        /\ ledger'[p] = IF p = tx[t].period THEN row
                        ELSE IF p <= Len(ledger) THEN ledger[p]
                        ELSE tx[t].opened[p - Len(ledger)]
        /\ Len(tx[t].opened) \in Nat
    BY <1>1, <1>5, BookedLedger, RowOfType, LenProperties
  <2>2. CASE p # tx[t].period /\ p <= Len(ledger)
    BY <1>1, <1>2, <2>1, <2>2
  <2>3. CASE p # tx[t].period /\ ~(p <= Len(ledger))
    <3>1. p - Len(ledger) \in 1..Len(tx[t].opened)
      BY <1>1, <2>1, <2>3
    <3> QED
      BY <1>1, <1>5, <2>1, <2>3, <3>1, UntouchedFits DEF DraftsCurrent, DraftCurrent
  <2> QED
    BY <1>5, <2>1, <2>2, <2>3
<1>6. ASSUME NEW t \in Tx, RefuseReserve(t)
      PROVE  RowFits(ledger'[p])
  <2>1. OnPool(t)
    BY <1>6 DEF RefuseReserve, AtLedger, OnPool
  <2>2. \A i \in 1..Len(tx[t].opened) :
          tx[t].opened[i].reserved = 0 /\ tx[t].opened[i].consumed = 0
    BY <1>1, <2>1 DEF DraftsCurrent, DraftCurrent
  <2> QED
    BY <1>1, <1>4, <1>6, <2>1, <2>2, RowOfType DEF RefuseReserve
<1>7. CASE RollOver
  <2> DEFINE row == NewPeriod
  <2>1. Opening(ledger) = <<row>> /\ row \in LedgerRows
    BY <1>1, <1>7, OpeningType, NewPeriodType DEF RollOver, TypeInv
  <2>2. row.reserved = 0 /\ row.consumed = 0
    BY <1>1, NewPeriodType DEF TypeInv
  <2>3. ledger' = ledger \o <<row>>
    BY <1>7, <2>1 DEF RollOver
  <2> HIDE DEF row
  <2>4. <<row>> \in Seq(LedgerRows) /\ \A i \in 1..Len(<<row>>) : <<row>>[i] = row
    BY <2>1
  <2> QED
    BY <1>4, <2>2, <2>3, <2>4
<1>8. ASSUME NEW t \in Tx, CommitReserve(t)
      PROVE  RowFits(ledger'[p])
  <2>1. OnPool(t) /\ Reserving(t) \in LedgerRows /\ RowFits(Reserving(t))
    BY <1>1, <1>8, ReservedRow, GrantFits
  <2> QED
    BY <1>5, <1>8, <2>1 DEF CommitReserve
<1>9. ASSUME NEW t \in Tx, CommitBudgetEdit(t)
      PROVE  RowFits(ledger'[p])
  <2>1. /\ OnPool(t) /\ Rebudgeting(t) \in LedgerRows
        /\ Rebudgeting(t).reserved = RowOf(t).reserved
        /\ Rebudgeting(t).consumed = RowOf(t).consumed
    BY <1>1, <1>9, RebudgetedRow DEF Rebudgeting, Booked
  <2>2. p = tx[t].period => RowFits(RowOf(t))
    <3>1. SUFFICES ASSUME p = tx[t].period
                   PROVE  RowFits(RowOf(t))
      OBVIOUS
    <3>2. /\ tx[t].period = Len(ledger) + Len(tx[t].opened) /\ Len(tx[t].opened) \in Nat
          /\ RowOf(t) = IF p <= Len(ledger) THEN ledger[p] ELSE tx[t].opened[p - Len(ledger)]
      BY <1>1, <2>1, <3>1, RowOfType, LenProperties DEF DraftsCurrent, DraftCurrent, RowOf
    <3>3. CASE p <= Len(ledger)
      BY <1>1, <1>2, <3>2, <3>3
    <3>4. CASE ~(p <= Len(ledger))
      <4>1. p - Len(ledger) \in 1..Len(tx[t].opened)
        BY <1>1, <3>1, <3>2, <3>4
      <4> QED
        BY <1>1, <2>1, <3>2, <3>4, <4>1, UntouchedFits DEF DraftsCurrent, DraftCurrent
    <3> QED
      BY <3>3, <3>4
  <2>3. p = tx[t].period => RowFits(Rebudgeting(t))
    BY <2>1, <2>2 DEF RowFits
  <2> QED
    BY <1>5, <1>9, <2>1, <2>3 DEF CommitBudgetEdit
<1>10. ASSUME NEW t \in Tx, CommitCharge(t) \/ CommitRelease(t)
       PROVE  RowFits(ledger'[p])
  <2>1. /\ Len(ledger') = Len(ledger)
        /\ \A i \in 1..Len(ledger) : i # tx[t].period => ledger'[i] = ledger[i]
    BY <1>1, <1>10, SettledRow
  <2>2. CASE p # tx[t].period
    BY <1>2, <2>1, <2>2
  <2>3. CASE p = tx[t].period
    <3>1. event[tx[t].call].mode = "requests"
      BY <1>1, <1>2, <1>10, <2>1, <2>3, SettledAmounts DEF OnlyRequests, SettleTx
    <3> QED
      BY <1>2, <1>10, <2>1, <2>3, <3>1, EndedFits
  <2> QED
    BY <2>2, <2>3
<1>11. ASSUME NEW t \in Tx, ReserveStep(t) \/ SettleStep(t) \/ BudgetStep(t) \/ Rollback(t)
       PROVE  RowFits(ledger'[p])
  BY <1>3, <1>6, <1>8, <1>9, <1>10, <1>11
     DEF ReserveStep, SettleStep, BudgetStep, Rollback, BeginReserve, ReopenPeriod,
         GiveUpReserve, GrantReserve, BeginSettle, LockLedgerToSettle, BeginBudgetEdit
<1>12. CASE \/ Tick \/ UNCHANGED vars \/ \E edited \in Editable : PatchPool(edited)
            \/ \E c \in Calls, tally \in Tallies : RecordUsage(c, tally)
  BY <1>3, <1>12 DEF Tick, vars, PatchPool, RecordUsage
<1> QED
  BY <1>7, <1>11, <1>12 DEF Next

-----------------------------------------------------------------------------
(* Theorems about every call                                               *)

\* The invariant holds at the start.
LEMMA CallsInvInit == CallsInit => Books /\ CallsInv
<1> SUFFICES ASSUME CallsInit
             PROVE  Books /\ CallsInv
  OBVIOUS
<1>1. Init /\ Books /\ CallsTypeOK /\ MemoryFits
  BY FitsInit DEF CallsInit
<1>2. BudgetKnown
  BY <1>1 DEF Init, Editable, BudgetKnown
<1>3. /\ ledger = <<NewPeriod>> /\ NewPeriod.reserved = 0 /\ NewPeriod.consumed = 0
      /\ TypeOK
  BY <1>1, NewPeriodType DEF Init, Books, IInv
<1>4. \A p \in 1..Len(ledger) : ledger[p].reserved = 0 /\ ledger[p].consumed = 0
  <2> DEFINE row == NewPeriod
  <2>1. ledger = <<row>> /\ row.reserved = 0 /\ row.consumed = 0
    BY <1>3
  <2> HIDE DEF row
  <2> QED
    BY <2>1
<1>5. RequestsStayInBudget
  BY <1>2, <1>3, <1>4, UntouchedFits, RequestsByPeriod
<1> QED
  BY <1>1, <1>2, <1>5 DEF CallsInv

\* Every step keeps it.
LEMMA CallsInvNext == Books /\ CallsInv /\ [CallsNext]_callVars => (Books /\ CallsInv)'
<1> SUFFICES ASSUME Books, CallsInv, [CallsNext]_callVars
             PROVE  (Books /\ CallsInv)'
  OBVIOUS
<1>1. Good /\ BudgetKnown /\ RequestsStayInBudget
  BY DEF Good, CallsInv
<1>2. [Next]_vars /\ Books' /\ CallsTypeOK' /\ MemoryFits'
  BY <1>1, StepIsLedger, BooksNext, CallsTypeNext, FitsNext DEF Good
<1>3. BudgetKnown' /\ RequestsStayInBudget'
  BY <1>1, <1>2, BudgetNext, RequestsNext DEF Books, IInv
<1> QED
  BY <1>2, <1>3 DEF CallsInv

\* Processes, sessions and the database agree on every call, through crashes,
\* failed writes and answers that are lost.
THEOREM CallsAgree == CallsSpec => [](Books /\ CallsInv)
<1> QED
  BY CallsInvInit, CallsInvNext, PTL DEF CallsSpec

\* What the calls, the two jobs and the administrators do is sessions running
\* ledger operations, so that what is proved of the ledger holds of them.
LEMMA CallsRunLedger == CallsSpec => Spec
<1>1. Books /\ CallsInv /\ [CallsNext]_callVars => [Next]_vars
  BY StepIsLedger DEF CallsInv
<1>2. CallsInit => Init
  BY DEF CallsInit
<1> QED
  BY <1>1, <1>2, CallsAgree, PTL DEF CallsSpec, Spec

\* A call is charged at least what it stored and at most what it used,
\* whichever of its process and the stale job ends it and whatever is lost.
THEOREM ChargesAreFaithful == CallsSpec => []ChargeIsFaithful
<1>1. Books /\ CallsInv => ChargeIsFaithful
  BY DEF CallsInv, MemoryFits
<1> QED
  BY <1>1, CallsAgree, PTL

\* A period on which only requests are counted never holds and charges more of
\* them than a budget the pool was given.
THEOREM RequestsFitBudget == CallsSpec => []RequestsStayInBudget
<1>1. Books /\ CallsInv => RequestsStayInBudget
  BY DEF CallsInv
<1> QED
  BY <1>1, CallsAgree, PTL

\* A reservation is stamped inside its period, whoever runs the operations.
THEOREM CallsStampsFit == CallsSpec => []StampInPeriod
BY CallsRunLedger, StampsFit, PTL

-----------------------------------------------------------------------------
(* Timely calls                                                            *)

\* A call that a step does not touch is as timely as before.
LEMMA OnTimeKept ==
  ASSUME NEW c \in Calls, OnTime(c), now' = now,
         client'[c] = client[c], event'[c] = event[c],
         \/ tx'[c] = tx[c] \/ tx'[c].kind # "reserve" \/ tx'[c].step # "commit"
         \/ tx'[c].at = now /\ now \in Nat
  PROVE  OnTime(c)'
<1>1. now <= now + HearTime \/ now \notin Nat
  BY CallsAssumption
<1> QED
  BY <1>1 DEF OnTime, Live, HasEnded, Matched

\* A settlement that goes on is still the call's own, or about a call that no
\* longer runs.
LEMMA AloneKept ==
  ASSUME NEW u \in Tx, LeavesAlone(u), tx'[u] = tx[u],
         Ends(u) /\ Live(tx[u].call)' => Live(tx[u].call)
  PROVE  LeavesAlone(u)'
BY DEF LeavesAlone, Ends, Live

\* A step of one transaction.
LEMMA TxTimely ==
  ASSUME TimelyInv, Good, NEW t \in Tx, client' = client, event' = event, now' = now,
         \A u \in Tx \ {t} : tx'[u] = tx[u],
         LeavesAlone(t)',
         \/ tx'[t].kind # "reserve" \/ tx'[t].step # "commit" \/ tx'[t].at = now
  PROVE  TimelyInv'
<1>1. now \in Nat
  BY BoundsAssumption DEF Good, Books, IInv, TypeOK
<1>2. ASSUME NEW c \in Calls
      PROVE  OnTime(c)'
  <2>1. OnTime(c) /\ c \in Tx
    BY SessionsAssumption DEF TimelyInv
  <2>2. c # t => tx'[c] = tx[c]
    BY <2>1
  <2> QED
    BY <1>1, <2>1, <2>2, OnTimeKept
<1>3. ASSUME NEW u \in Tx \ {t}
      PROVE  LeavesAlone(u)'
  BY <1>3, AloneKept DEF TimelyInv, Live
<1> QED
  BY <1>2, <1>3 DEF TimelyInv

\* A step on one call, which begins to run only while nobody settles for it.
LEMMA CallTimely ==
  ASSUME TimelyInv, Good, NEW c \in Calls, now' = now,
         \A d \in Calls \ {c} : client'[d] = client[d] /\ event'[d] = event[d],
         \A u \in Tx : tx'[u] = Idle \/ tx'[u] = tx[u],
         client'[c].phase \notin {"open", "settling"} \/ Live(c)
           \/ \A u \in Tx : Ends(u) => tx[u].call # c,
         OnTime(c)'
  PROVE  TimelyInv'
<1>1. ASSUME NEW d \in Calls \ {c}
      PROVE  OnTime(d)'
  <2>1. OnTime(d) /\ d \in Tx
    BY SessionsAssumption DEF TimelyInv
  <2>2. client'[d] = client[d] /\ event'[d] = event[d] /\ (tx'[d] = Idle \/ tx'[d] = tx[d])
    BY <2>1
  <2> QED
    BY <2>1, <2>2, OnTimeKept
<1>2. ASSUME NEW u \in Tx
      PROVE  LeavesAlone(u)'
  <2>1. CASE tx'[u] = Idle
    BY <2>1 DEF LeavesAlone, Ends
  <2>2. CASE tx'[u] = tx[u]
    <3>1. ASSUME Ends(u), Live(tx[u].call)'
          PROVE  Live(tx[u].call)
      <4>1. tx[u].call \in Calls
        BY <3>1, TxKinds DEF Good, Books, IInv, Ends, SettleTx
      <4>2. client'[tx[u].call].phase \in {"open", "settling"}
        BY <2>2, <3>1 DEF Live
      <4> QED
        BY <3>1, <4>1, <4>2 DEF Live
    <3> QED
      BY <2>2, <3>1, AloneKept DEF TimelyInv
  <2> QED
    BY <2>1, <2>2
<1> QED
  BY <1>1, <1>2 DEF TimelyInv

\* The clock stands still while ledger operations run.
LEMMA ClockStands ==
  ASSUME Good, [CallsNext]_callVars, ~Pass
  PROVE  now' = now
<1>1. ASSUME NEW c \in Calls, CallStep(c)
      PROVE  now' = now
  BY <1>1 DEF CallStep, Resolve, StartReserve, BeginReserve, WaitInReserve, ReopenPeriod,
       GrantReserve, FailReserve, RefuseReserve, GiveUpReserve, Rollback, Opens,
       OpensUnheard, CommitReserve, FinishRequest, FinishTooLate, callVars, StoreSteps, RecordUsage, StoreNothing,
       DropWrite, StartSettle, TrySettle, BeginSettle, WaitInSettle, LockLedgerToSettle,
       EndSettle, CommitCharge, CommitRelease, FindSettled, LeaveSettle, Crash, vars
<1>2. ASSUME NEW r \in Recoverers, RecoverStep(r)
      PROVE  now' = now
  BY <1>2 DEF RecoverStep, Recover, BeginSettle, WaitInSettle, LockLedgerToSettle,
       EndRecover, CommitCharge, CommitRelease
<1>3. ASSUME NEW a \in Admins, EditBudget(a)
      PROVE  now' = now
  BY <1>3 DEF EditBudget, BeginBudgetEdit, CommitBudgetEdit
<1>4. CASE \/ EditPool \/ RollOverJob \/ (\E t \in Tx : FailTx(t)) \/ UNCHANGED callVars
           \/ \E mode \in MeteringModes : SetMeteringMode(mode)
  BY <1>4 DEF EditPool, PatchPool, RollOverJob, RollOver, FailTx, Rollback, callVars,
              SetMeteringMode, vars
<1> QED
  BY <1>1, <1>2, <1>3, <1>4 DEF CallsNext

\* The clock waits for calls: none that runs is overtaken.
LEMMA PassTimely ==
  ASSUME Timely, TimelyInv, Good, Pass
  PROVE  TimelyInv'
<1>1. /\ \A c \in Calls : ~Overdue(c)
      /\ now' = now + 1 /\ client' = client /\ event' = event /\ tx' = tx
  BY DEF Pass, Tick
<1>2. now \in Nat /\ HearTime \in Nat /\ SettleTime \in Nat
  BY CallsAssumption, BoundsAssumption DEF Good, Books, IInv, TypeOK
<1>3. ASSUME NEW c \in Calls
      PROVE  OnTime(c)'
  <2>1. /\ OnTime(c) /\ ~Overdue(c) /\ c \in Tx
    BY <1>1, SessionsAssumption DEF TimelyInv
  <2>2. client[c].aborts \in Nat
    BY DEF Good, CallsTypeOK, Clients
  <2>3. tx[c].kind = "reserve" => tx[c].at \in Nat
    BY <2>1, TxKinds, BoundsAssumption DEF Good, Books, IInv, ReserveTx
  <2>4. Live(c) => now + 1 <= client[c].aborts + SettleTime
    BY <1>2, <2>1, <2>2 DEF Overdue
  <2>5. tx[c].kind = "reserve" /\ tx[c].step = "commit" => now + 1 <= tx[c].at + HearTime
    BY <1>2, <2>1, <2>3 DEF Overdue
  <2> QED
    BY <1>1, <2>1, <2>4, <2>5 DEF OnTime, Live, HasEnded, Matched
<1>4. ASSUME NEW u \in Tx
      PROVE  LeavesAlone(u)'
  BY <1>1 DEF TimelyInv, LeavesAlone, Ends, Live
<1> QED
  BY <1>3, <1>4 DEF TimelyInv

\* Steps of a call before its reservation commits.
LEMMA StartTimely ==
  ASSUME TimelyInv, Good, NEW c \in Calls, now' = now,
         \/ Resolve(c) \/ StartReserve(c) \/ WaitInReserve(c) \/ FailReserve(c) \/ Crash(c)
  PROVE  TimelyInv'
<1>1. c \in Tx /\ OnTime(c) /\ SessionFits(c) /\ CallFits(c)
  BY OwnTx DEF TimelyInv
<1>2. CASE Resolve(c)
  <2>1. /\ Remembers(c, "resolved", meteringMode, client[c].grant, client[c].steps,
                     client[c].pending)
        /\ client[c].phase = "new" /\ tx' = tx /\ event' = event
    BY <1>2, ResolveType DEF Resolve, vars, Good
  <2>2. tx[c].kind # "reserve"
    BY <2>1, OwnTx
  <2>3. OnTime(c)'
    BY <2>1, <2>2 DEF OnTime, Live, Remembers
  <2>4. /\ \A d \in Calls \ {c} : client'[d] = client[d] /\ event'[d] = event[d]
        /\ \A u \in Tx : tx'[u] = tx[u]
        /\ client'[c].phase \notin {"open", "settling"}
    BY <2>1 DEF Remembers
  <2> QED
    BY <2>3, <2>4, CallTimely
<1>3. CASE StartReserve(c) \/ WaitInReserve(c)
  <2>1. /\ client' = client /\ event' = event /\ \A u \in Tx \ {c} : tx'[u] = tx[u]
        /\ tx'[c].kind = "reserve"
    BY <1>1, <1>3, OneTxMoves, BegunTx DEF StartReserve, WaitInReserve
  <2>2. tx'[c].step # "commit" \/ tx'[c].at = now
    <3>1. tx \in [Tx -> AllTx] /\ (tx[c].kind = "reserve" => tx[c] \in ReserveTx)
      BY <1>1, TxKinds DEF Good, Books, IInv, TypeOK, AllTx
    <3>2. CASE StartReserve(c)
      BY <1>1, <3>2, BegunTx DEF StartReserve
    <3>3. CASE ReopenPeriod(c)
      BY <1>1, <3>1, <3>3 DEF ReopenPeriod, AtLedger, ReserveTx
    <3>4. CASE GrantReserve(c)
      BY <1>1, <3>1, <3>4 DEF GrantReserve, AtLedger, ReserveTx
    <3> QED
      BY <1>3, <3>2, <3>3, <3>4 DEF WaitInReserve
  <2>3. LeavesAlone(c)'
    BY <2>1 DEF LeavesAlone, Ends
  <2> QED
    BY <1>1, <2>1, <2>2, <2>3, TxTimely
<1>4. CASE FailReserve(c) \/ Crash(c)
  <2>1. /\ client'[c].phase \in {"failed", "dead"}
        /\ \A d \in Calls \ {c} : client'[d] = client[d]
    BY <1>4, PhaseSet, CrashType DEF FailReserve, Crash, Remembers, Good
  <2>2. /\ event' = event /\ (\A u \in Tx : tx'[u] = Idle \/ tx'[u] = tx[u])
        /\ tx'[c] = Idle
    <3>1. CASE UNCHANGED vars /\ tx[c] = Idle
      BY <3>1 DEF vars
    <3>2. CASE RefuseReserve(c) \/ GiveUpReserve(c) \/ Rollback(c)
      <4>1. Finish(c) /\ event' = event
        BY <3>2 DEF RefuseReserve, GiveUpReserve, Rollback
      <4> QED
        BY <1>1, <4>1, FinishType DEF Good, Books, IInv, LedgerInv, TypeInv
    <3> QED
      BY <1>4, <3>1, <3>2 DEF FailReserve, Crash
  <2>3. OnTime(c)'
    BY <2>1, <2>2 DEF OnTime, Live
  <2>4. \A d \in Calls \ {c} : client'[d] = client[d] /\ event'[d] = event[d]
    BY <2>1, <2>2
  <2> QED
    BY <2>1, <2>2, <2>3, <2>4, CallTimely
<1> QED
  BY <1>2, <1>3, <1>4

\* A reservation is on time when it commits.
LEMMA OpensTimely ==
  ASSUME TimelyInv, Good, NEW c \in Calls, now' = now, Opens(c) \/ OpensUnheard(c)
  PROVE  TimelyInv'
<1>1. /\ CommitReserve(c) /\ c \in Tx /\ OnTime(c) /\ SessionFits(c)
  BY OwnTx DEF Opens, OpensUnheard, TimelyInv
<1>2. /\ tx[c].kind = "reserve" /\ tx[c].step = "commit" /\ tx[c].call = c
      /\ event[c].state = "none"
  BY <1>1, OwnTx DEF CommitReserve, SessionFits, CallFits, PhaseFits
<1>3. /\ event'[c] = Reservation(c)
      /\ \A d \in Calls \ {c} : event'[d] = event[d]
  BY <1>1, <1>2 DEF CommitReserve, Good, Books, IInv, TypeOK
<1>4. event'[c].state = "reserved" /\ event'[c].at = tx[c].at
  BY <1>3 DEF Reservation
<1>5. /\ tx'[c] = Idle /\ \A u \in Tx \ {c} : tx'[u] = tx[u]
  BY <1>1, FinishType DEF CommitReserve, Good, Books, IInv, LedgerInv, TypeInv
<1>6. \A u \in Tx : Ends(u) => tx[u].call # c
  BY <1>2 DEF Good, Books, IInv, LedgerInv, CallsOwned, Settles, Ends
<1>7. client'[c].phase \in {"open", "failed"} /\ \A d \in Calls \ {c} : client'[d] = client[d]
  BY OpensType, PhaseSet DEF OpensUnheard, Remembers, Good
<1>8. OnTime(c)'
  <2>1. /\ now \in Nat /\ tx[c].at \in Nat /\ now <= tx[c].at + HearTime
        /\ HearTime \in Nat /\ CallTimeout \in Nat /\ SettleTime \in Nat
    BY <1>1, <1>2, TxKinds, CallsAssumption, BoundsAssumption
       DEF Good, Books, IInv, TypeOK, ReserveTx, OnTime
  <2>2. Live(c)' => client'[c].aborts = now + CallTimeout
    BY <1>7 DEF Opens, OpensUnheard, Live, Good, CallsTypeOK, Clients
  <2>3. Live(c)' => /\ client'[c].aborts <= event'[c].at + HearTime + CallTimeout
                    /\ now' <= client'[c].aborts + SettleTime
    BY <1>4, <2>1, <2>2
  <2> QED
    BY <1>4, <1>5, <1>7, <2>3 DEF OnTime, Live, HasEnded
<1>9. /\ \A d \in Calls \ {c} : client'[d] = client[d] /\ event'[d] = event[d]
      /\ \A u \in Tx : tx'[u] = Idle \/ tx'[u] = tx[u]
  BY <1>3, <1>5, <1>7
<1> QED
  BY <1>6, <1>8, <1>9, CallTimely

\* The deadline that was set when the call began to run stays.
LEMMA DeadlineStays ==
  ASSUME Good, NEW c \in Calls,
         \/ \E tokens \in StepTokens : FinishRequest(c, tokens)
         \/ StoreSteps(c) \/ StoreNothing(c) \/ DropWrite(c) \/ StartSettle(c)
         \/ client' = client \/ Settled(c)
  PROVE  client'[c].aborts = client[c].aborts
<1>1. client[c] \in Clients /\ client \in [Calls -> Clients]
  BY DEF Good, CallsTypeOK
<1>2. CASE \E tokens \in StepTokens : FinishRequest(c, tokens)
  BY <1>1, <1>2 DEF FinishRequest, Clients
<1>3. CASE StoreSteps(c) \/ StoreNothing(c) \/ DropWrite(c)
  BY <1>1, <1>3 DEF StoreSteps, StoreNothing, DropWrite, WriteDone, Clients
<1>4. CASE StartSettle(c)
  BY <1>1, <1>4 DEF StartSettle, Clients
<1>5. CASE client' = client \/ Settled(c)
  BY <1>1, <1>5 DEF Settled, Clients
<1> QED
  BY <1>2, <1>3, <1>4, <1>5

\* While a call runs its reservation stays as it is, and on time.
LEMMA RunningTimely ==
  ASSUME TimelyInv, Good, NEW c \in Calls, now' = now,
         \/ \E tokens \in StepTokens : FinishRequest(c, tokens)
         \/ StoreSteps(c) \/ StoreNothing(c) \/ DropWrite(c) \/ StartSettle(c)
  PROVE  TimelyInv'
<1>1. c \in Tx /\ OnTime(c) /\ SessionFits(c) /\ CallFits(c)
  BY OwnTx DEF TimelyInv
<1>2. /\ tx' = tx /\ \A d \in Calls \ {c} : event'[d] = event[d]
      /\ event'[c].state = event[c].state /\ event'[c].at = event[c].at
      /\ event'[c].mode = event[c].mode /\ event'[c].actual = event[c].actual
  <2>1. CASE event' = event /\ tx' = tx
    BY <2>1
  <2>2. ASSUME NEW tally, RecordUsage(c, tally)
        PROVE  /\ tx' = tx /\ \A d \in Calls \ {c} : event'[d] = event[d]
               /\ event'[c].state = event[c].state /\ event'[c].at = event[c].at
               /\ event'[c].mode = event[c].mode /\ event'[c].actual = event[c].actual
    <3>1. event \in [Calls -> Events] /\ event' = [event EXCEPT ![c].stored = tally] /\ tx' = tx
      BY <2>2 DEF RecordUsage, Good, Books, IInv, TypeOK
    <3> QED
      BY <3>1 DEF Events
  <2> QED
    BY <2>1, <2>2 DEF FinishRequest, StoreSteps, StoreNothing, DropWrite, StartSettle, vars
<1>3. /\ \A d \in Calls \ {c} : client'[d] = client[d]
      /\ Live(c) /\ client'[c].phase \in {"open", "settling"}
      /\ \/ client'[c].phase = "open" /\ client[c].phase = "open"
         \/ client'[c].phase = "settling" /\ client[c].phase = "open"
         \/ client'[c].phase = client[c].phase /\ client'[c].steps = client[c].steps
  <2>1. CASE \E tokens \in StepTokens : FinishRequest(c, tokens)
    BY <2>1, FinishedType, Inputs DEF FinishRequest, Good, Live, Clients
  <2>2. CASE StoreSteps(c) \/ StoreNothing(c) \/ DropWrite(c)
    <3>1. Writing(c) /\ (WriteDone(c) \/ client' = client)
      BY <2>2 DEF StoreSteps, StoreNothing, DropWrite
    <3>2. client[c].phase \in {"open", "settling"}
      BY <3>1, OwnTx
    <3> QED
      BY <3>1, <3>2, WriteDoneType DEF Good, Remembers, Live
  <2>3. CASE StartSettle(c)
    BY <2>3, StartSettleType DEF StartSettle, Good, Remembers, Live
  <2> QED
    BY <2>1, <2>2, <2>3
<1>4. tx'[c].kind # "reserve"
  BY <1>2, <1>3, OwnTx DEF Live
<1>5. OnTime(c)'
  <2>1. client'[c].aborts = client[c].aborts
    BY DeadlineStays
  <2> QED
    BY <1>1, <1>2, <1>3, <1>4, <2>1 DEF OnTime, Live, HasEnded, Matched
<1>6. \A d \in Calls \ {c} : client'[d] = client[d] /\ event'[d] = event[d]
  BY <1>2, <1>3
<1>7. \A u \in Tx : tx'[u] = tx[u]
  BY <1>2
<1> QED
  BY <1>3, <1>5, <1>6, <1>7, CallTimely

\* A call that ends its reservation ends it for its steps; a stale job only ends
\* one that no process answers for any more.
LEMMA EndTimely ==
  ASSUME TimelyInv, Good, NEW t \in Tx, now' = now,
         CommitCharge(t) \/ CommitRelease(t), NEW c, c = tx[t].call,
         client' = client \/ (t \in Calls /\ Settled(t))
  PROVE  TimelyInv'
<1>1. /\ c \in Calls /\ Ends(t) /\ event[c].state = "reserved"
      /\ event'[c].state = IF tx[t].tally.requests = 0 THEN "released" ELSE "finalized"
      /\ event'[c].actual = IF tx[t].tally.requests = 0 THEN event[c].actual
                            ELSE ChargeOf(event[c].mode, tx[t].tally)
      /\ event'[c].mode = event[c].mode
      /\ \A d \in Calls \ {c} : event'[d] = event[d]
      /\ tx'[t] = Idle /\ \A u \in Tx \ {t} : tx'[u] = tx[u]
  BY EndedEvent
<1>2. /\ OnTime(c) /\ CallFits(c) /\ SessionFits(t) /\ TallyFits(t) /\ LeavesAlone(t)
      /\ c \in Tx
  BY <1>1, OwnTx, FitsByCall DEF TimelyInv, Good
<1>3. CASE t \in Calls
  <2>1. /\ c = t /\ client[c].phase = "settling" /\ tx[t].tally = client[c].steps
    BY <1>1, <1>2, <1>3 DEF SessionFits, TallyFits
  <2>2. /\ \A d \in Calls \ {c} : client'[d] = client[d]
        /\ client'[c].steps = client[c].steps /\ client'[c].phase \in {"settling", "settled"}
    BY <2>1, PhaseSet DEF Settled, Good, Remembers
  <2>3. tx[t].tally.requests = 0 =>
          event[c].actual = 0 /\ ChargeOf(event[c].mode, client[c].steps) = 0
    <3>1. tx[t].tally.requests = 0 => client[c].steps = NoSteps
      BY <1>2, <2>1 DEF CallFits, StepsFit, Within
    <3> QED
      BY <1>1, <1>2, <3>1 DEF CallFits, StepsFit, ChargeOf
  <2>4. Matched(c)'
    BY <1>1, <2>1, <2>2, <2>3 DEF Matched
  <2>5. OnTime(c)'
    <3>1. client'[c].aborts = client[c].aborts /\ event'[c].at = event[c].at
      BY <1>1, <2>1, EndedEvent, DeadlineStays
    <3> QED
      BY <1>1, <1>2, <2>1, <2>2, <2>4, <3>1 DEF OnTime, Live
  <2>6. Live(c)
    BY <2>1 DEF Live
  <2>7. /\ \A d \in Calls \ {c} : client'[d] = client[d] /\ event'[d] = event[d]
        /\ \A u \in Tx : tx'[u] = Idle \/ tx'[u] = tx[u]
    BY <1>1, <2>2
  <2> QED
    BY <1>1, <2>5, <2>6, <2>7, CallTimely
<1>4. CASE t \notin Calls
  <2>1. client' = client /\ ~Live(c)
    BY <1>1, <1>2, <1>4 DEF LeavesAlone
  <2>2. client[c].phase # "settled"
    BY <1>1, <1>2 DEF OnTime, Matched
  <2>3. ~(tx'[c].kind = "reserve" /\ tx'[c].step = "commit")
    <3>1. tx[c].kind # "reserve"
      BY <1>1, OwnTx, <1>2 DEF CallFits, PhaseFits
    <3> QED
      BY <1>1, <1>2, <3>1
  <2>4. OnTime(c)'
    BY <2>1, <2>2, <2>3 DEF OnTime, Live
  <2>5. /\ \A d \in Calls \ {c} : client'[d] = client[d] /\ event'[d] = event[d]
        /\ \A u \in Tx : tx'[u] = Idle \/ tx'[u] = tx[u]
        /\ client'[c].phase \notin {"open", "settling"}
    BY <1>1, <2>1 DEF Live
  <2> QED
    BY <1>1, <2>4, <2>5, CallTimely
<1> QED
  BY <1>3, <1>4

\* A call settles, finds itself settled, or gives up.
LEMMA SettlingTimely ==
  ASSUME TimelyInv, Good, NEW c \in Calls, now' = now,
         TrySettle(c) \/ FindSettled(c) \/ LeaveSettle(c)
  PROVE  TimelyInv'
<1>1. c \in Tx /\ OnTime(c) /\ CallFits(c) /\ client[c].phase = "settling"
  BY OwnTx DEF TimelyInv, TrySettle, FindSettled, LeaveSettle, SettleWithPermit
<1>2. CASE TrySettle(c)
  <2>1. BeginSettle(c, c, client[c].steps) /\ client' = client
    BY <1>2 DEF TrySettle
  <2>2. /\ event' = event /\ \A u \in Tx \ {c} : tx'[u] = tx[u]
        /\ tx'[c].kind = "settle" /\ tx'[c].call = c
    BY <1>1, <2>1, OneTxMoves, BegunTx
  <2>3. LeavesAlone(c)'
    BY <2>2 DEF LeavesAlone
  <2> QED
    BY <1>1, <2>1, <2>2, <2>3, TxTimely
<1>3. CASE FindSettled(c) \/ LeaveSettle(c)
  <2>1. /\ tx' = tx /\ event' = event /\ tx[c] = Idle
    BY <1>3 DEF FindSettled, LeaveSettle, vars
  <2>2. PICK x \in {"settled", "left"} :
          /\ Remembers(c, x, client[c].mode, client[c].grant, client[c].steps,
                       client[c].pending)
          /\ x = "settled" => FindSettled(c)
    BY <1>3, PhaseSet DEF FindSettled, LeaveSettle, Settled, Good
  <2>3. FindSettled(c) => HasEnded(c)
    <3>1. event[c].state \in {"none", "reserved", "finalized", "released"}
      BY FitTypes DEF Good, Events
    <3>2. event[c].state # "none"
      BY <1>1 DEF CallFits, PhaseFits
    <3> QED
      BY <3>1, <3>2 DEF FindSettled, HasEnded
  <2>4. OnTime(c)'
    BY <1>1, <2>1, <2>2, <2>3 DEF OnTime, Live, Matched, HasEnded, Remembers
  <2>5. /\ \A d \in Calls \ {c} : client'[d] = client[d] /\ event'[d] = event[d]
        /\ \A u \in Tx : tx'[u] = tx[u]
        /\ client'[c].phase \notin {"open", "settling"}
    BY <2>1, <2>2 DEF Remembers
  <2> QED
    BY <2>4, <2>5, CallTimely
<1> QED
  BY <1>2, <1>3

\* What the stale job takes up is not on time, so its call no longer runs.
LEMMA RecoverTimely ==
  ASSUME TimelyInv, Good, NEW r \in Recoverers, NEW c \in Calls, now' = now, Recover(r, c)
  PROVE  TimelyInv'
<1>1. /\ r \in Tx /\ OnTime(c) /\ client' = client /\ BeginSettle(r, c, NoSteps)
      /\ Stale(c)
  BY OwnTx, SessionsAssumption DEF Recover, TimelyInv
<1>2. /\ event' = event /\ \A u \in Tx \ {r} : tx'[u] = tx[u]
      /\ tx'[r].kind = "settle" /\ tx'[r].call = c
  BY <1>1, OneTxMoves, BegunTx
<1>3. ~Live(c)
  <2>1. /\ now \in Nat /\ event[c].at \in Nat /\ client[c].aborts \in Nat
        /\ HearTime \in Nat /\ CallTimeout \in Nat /\ SettleTime \in Nat /\ StaleAge \in Nat
    BY FitTypes, CallsAssumption, BoundsAssumption
       DEF Good, Books, IInv, TypeOK, Events, CallsTypeOK, Clients
  <2>2. /\ Live(c) => /\ client[c].aborts <= event[c].at + HearTime + CallTimeout
                      /\ now <= client[c].aborts + SettleTime
        /\ event[c].at + StaleAge < now
    BY <1>1 DEF OnTime, Stale
  <2> QED
    BY <2>1, <2>2, TimelyAssumption
<1>4. LeavesAlone(r)'
  BY <1>1, <1>2, <1>3 DEF LeavesAlone, Live
<1> QED
  BY <1>1, <1>2, <1>4, TxTimely

\* Settlements that wait, transactions that are undone and budget edits.
LEMMA WaitTimely ==
  ASSUME TimelyInv, Good, NEW t \in Tx, now' = now,
         WaitInSettle(t) \/ FailTx(t) \/ (t \in Admins /\ EditBudget(t))
  PROVE  TimelyInv'
<1>1. /\ client' = client /\ event' = event /\ \A u \in Tx \ {t} : tx'[u] = tx[u]
  BY OneTxMoves DEF WaitInSettle, FailTx, EditBudget
<1>2. \/ tx'[t] = Idle \/ tx'[t].kind = "budget"
      \/ tx[t].kind = "settle" /\ tx'[t].kind = "settle" /\ tx'[t].call = tx[t].call
  BY OneTxMoves, BegunTx DEF WaitInSettle, FailTx, EditBudget
<1>3. LeavesAlone(t)'
  BY <1>1, <1>2 DEF TimelyInv, LeavesAlone, Ends, Live
<1>4. tx'[t].kind # "reserve"
  BY <1>2
<1> QED
  BY <1>1, <1>3, <1>4, TxTimely

\* Every step of timely calls keeps them timely.
LEMMA TimelyNext ==
  ASSUME Timely, TimelyInv, Good, [CallsNext]_callVars
  PROVE  TimelyInv'
<1>1. CASE Pass
  BY <1>1, PassTimely
<1>2. CASE ~Pass
  <2>1. now' = now
    BY <1>2, ClockStands
  <2>2. ASSUME NEW c \in Calls, CallStep(c), ~FinishTooLate(c)
        PROVE  TimelyInv'
    <3>1. c \in Tx
      BY OwnTx
    <3>2. CASE Resolve(c) \/ StartReserve(c) \/ WaitInReserve(c) \/ FailReserve(c) \/ Crash(c)
      BY <2>1, <3>2, StartTimely
    <3>3. CASE Opens(c) \/ OpensUnheard(c)
      BY <2>1, <3>3, OpensTimely
    <3>4. CASE \/ \E tokens \in StepTokens : FinishRequest(c, tokens)
               \/ StoreSteps(c) \/ StoreNothing(c) \/ DropWrite(c) \/ StartSettle(c)
      BY <2>1, <3>4, RunningTimely
    <3>5. CASE TrySettle(c) \/ FindSettled(c) \/ LeaveSettle(c)
      BY <2>1, <3>5, SettlingTimely
    <3>6. CASE WaitInSettle(c)
      BY <2>1, <3>1, <3>6, WaitTimely
    <3>7. CASE EndSettle(c)
      <4>1. (CommitCharge(c) \/ CommitRelease(c)) /\ (client' = client \/ Settled(c))
        BY <3>7 DEF EndSettle
      <4> QED
        BY <2>1, <3>1, <4>1, EndTimely
    <3> QED
      BY <2>2, <3>2, <3>3, <3>4, <3>5, <3>6, <3>7 DEF CallStep
  <2>3. ASSUME NEW r \in Recoverers, RecoverStep(r)
        PROVE  TimelyInv'
    <3>1. r \in Tx
      BY SessionsAssumption
    <3>2. CASE EndRecover(r)
      <4>1. (CommitCharge(r) \/ CommitRelease(r)) /\ client' = client
        BY <3>2 DEF EndRecover
      <4> QED
        BY <2>1, <3>1, <4>1, EndTimely
    <3> QED
      BY <2>1, <2>3, <3>1, <3>2, RecoverTimely, WaitTimely DEF RecoverStep
  <2>4. CASE (\E a \in Admins : EditBudget(a)) \/ (\E t \in Tx : FailTx(t))
    BY <2>1, <2>4, WaitTimely, SessionsAssumption
  <2>5. CASE \/ EditPool \/ RollOverJob \/ UNCHANGED callVars
             \/ (\E mode \in MeteringModes : SetMeteringMode(mode))
             \/ \E c \in Calls : FinishTooLate(c)
    <3>1. client' = client /\ event' = event /\ tx' = tx
      BY <2>5 DEF FinishTooLate, EditPool, PatchPool, RollOverJob, RollOver, SetMeteringMode, callVars, vars
    <3>2. ASSUME NEW c \in Calls
          PROVE  OnTime(c)'
      <4>1. OnTime(c)
        BY DEF TimelyInv
      <4> QED
        BY <2>1, <3>1, <4>1, OnTimeKept
    <3>3. ASSUME NEW u \in Tx
          PROVE  LeavesAlone(u)'
      BY <3>1, AloneKept DEF TimelyInv, Live
    <3> QED
      BY <3>2, <3>3 DEF TimelyInv
  <2> QED
    BY <1>2, <2>2, <2>3, <2>4, <2>5 DEF CallsNext
<1> QED
  BY <1>1, <1>2

\* No call runs yet, and none is under way.
LEMMA TimelyInit == CallsInit => TimelyInv
<1> SUFFICES ASSUME CallsInit
             PROVE  TimelyInv
  OBVIOUS
<1>1. \A t \in Tx : tx[t].kind = "idle"
  BY DEF CallsInit, Init
<1>2. \A c \in Calls : client[c].phase = "new" /\ c \in Tx
  BY SessionsAssumption DEF CallsInit, NewClient
<1> QED
  BY <1>1, <1>2 DEF TimelyInv, OnTime, LeavesAlone, Live, Ends

\* A timely call is settled before its reservation counts as stale: what the two
\* ages of call-timeout.ts leave between them is enough.
THEOREM TimelyInvariant ==
  ASSUME Timely
  PROVE  CallsSpec => []TimelyInv
<1>1. (Books /\ CallsInv) /\ TimelyInv /\ [CallsNext]_callVars => TimelyInv'
  BY TimelyNext DEF Good, CallsInv
<1> QED
  BY <1>1, TimelyInit, CallsAgree, PTL DEF CallsSpec

\* With timely calls, a call that heard its settlement succeed is charged all it
\* used, and by itself.
THEOREM ChargesAreFull ==
  ASSUME Timely
  PROVE  CallsSpec => []FullCharge
<1>1. TimelyInv => FullCharge
  BY DEF TimelyInv, OnTime, Matched, FullCharge
<1> QED
  BY <1>1, TimelyInvariant, PTL

\* The stale job neither takes up nor ends the reservation of a timely call that
\* still runs or settles, as the deadline keeps the call within the stale age.
THEOREM RunningCallsAreSafe ==
  ASSUME Timely
  PROVE  CallsSpec => []NoEarlyRecovery
<1>1. Books /\ CallsInv /\ TimelyInv => NoEarlyRecovery
  <2> SUFFICES ASSUME Books, CallsInv, TimelyInv, NEW c \in Calls, Live(c),
                      NEW r \in Recoverers, Ends(r), tx[r].call = c
               PROVE  FALSE
    BY DEF TimelyInv, OnTime, NoEarlyRecovery, Ends
  <2>1. r \in Tx /\ r # c
    BY SessionsAssumption
  <2> QED
    BY <2>1 DEF TimelyInv, LeavesAlone
<1> QED
  BY <1>1, TimelyInvariant, CallsAgree, PTL
=============================================================================
