---------------------- MODULE NotificationOutboxProofs ----------------------
(***************************************************************************)
(* The outbox keeps its promises for any number of rows, workers and       *)
(* attempts, and any lease longer than the deadline.                       *)
(***************************************************************************)
EXTENDS NotificationOutbox, TLAPS

USE DEF Mails

\* The outbox starts empty and idle.
LEMMA OutboxInitInv == OutboxInit => OutboxInv
<1> SUFFICES ASSUME OutboxInit PROVE OutboxInv
  OBVIOUS
<1>1. PICK key \in Keys :
        row = [m \in Mails |-> [status |-> "unused", key |-> key, attempts |-> 0,
                                due |-> 0, payload |-> FALSE]]
  BY DEF OutboxInit
<1>2. OutboxTypeOK
  BY <1>1 DEF OutboxInit, OutboxTypeOK, RowType
<1> QED
  BY <1>1, <1>2, OutboxAssumption
     DEF OutboxInit, OutboxInv, ClaimsDiffer, NoClaim, SentWasDelivered, PayloadKept,
         GivenUpAfterAllAttempts

\* A worker in the middle of a claim has a claim.
LEMMA ClaimType ==
  ASSUME OutboxTypeOK, NEW w \in Workers, worker[w] # NoClaim
  PROVE  worker[w] \in Claims
BY DEF OutboxTypeOK

\* Creating and cleaning up rows touches no claim.
LEMMA RowsKeepInv ==
  ASSUME OutboxInv,
         NEW m \in Mails,
         CleanUp(m) \/ \E key \in Keys : Enqueue(m, key)
  PROVE  OutboxInv'
<1>1. OutboxTypeOK'
  <2>1. CASE CleanUp(m)
    BY <2>1 DEF CleanUp, OutboxInv, OutboxTypeOK, RowType
  <2>2. CASE \E key \in Keys : Enqueue(m, key)
    BY <2>2 DEF Enqueue, OutboxInv, OutboxTypeOK, RowType
  <2> QED
    BY <2>1, <2>2
<1>2. /\ worker' = worker /\ sent' = sent
      /\ \A n \in Mails : n # m => row'[n] = row[n]
      /\ \/ row[m].status = "unused" /\ row'[m].status = "pending"
            /\ row'[m].attempts = 0 /\ row'[m].payload
         \/ row'[m].status = "deleted" /\ row'[m].attempts = row[m].attempts
  <2>1. row \in [Mails -> RowType]
    BY DEF OutboxInv, OutboxTypeOK
  <2>2. CASE CleanUp(m)
    BY <2>1, <2>2 DEF CleanUp, RowType
  <2>3. CASE \E key \in Keys : Enqueue(m, key)
    BY <2>1, <2>3 DEF Enqueue
  <2> QED
    BY <2>2, <2>3
<1>3. ASSUME NEW w \in Workers, worker[w] # NoClaim
      PROVE  ClaimCounted(w)' /\ ClaimTruthful(w)'
  <2>1. ClaimCounted(w) /\ ClaimTruthful(w) /\ worker[w] \in Claims
    BY <1>3, ClaimType DEF OutboxInv
  <2> QED
    BY <1>2, <2>1 DEF ClaimCounted, ClaimTruthful, Claims
<1>4. ClaimsDiffer'
  BY <1>2 DEF OutboxInv, ClaimsDiffer
<1>5. SentWasDelivered' /\ PayloadKept' /\ GivenUpAfterAllAttempts'
  BY <1>2, OutboxAssumption
     DEF OutboxInv, SentWasDelivered, PayloadKept, GivenUpAfterAllAttempts
<1> QED
  BY <1>1, <1>2, <1>3, <1>4, <1>5 DEF OutboxInv

\* A claim is a new one: its number is beyond all the row has counted.
LEMMA ClaimKeepsInv ==
  ASSUME OutboxInv, NEW w \in Workers, NEW m \in Mails, Claim(w, m)
  PROVE  OutboxInv'
<1> DEFINE new == [phase |-> "sending", mail |-> m, attempt |-> row[m].attempts + 1,
                   left |-> Lease, readable |-> row[m].payload /\ m \notin Unreadable,
                   result |-> "none"]
<1>1. /\ worker[w] = NoClaim /\ worker' = [worker EXCEPT ![w] = new]
      /\ sent' = sent
      /\ row[m] \in RowType /\ row[m].attempts \in Nat
      /\ row[m].status \in {"pending", "processing"}
      /\ row[m].attempts < MaxAttempts
      /\ row' = [row EXCEPT ![m] = [row[m] EXCEPT !.status = "processing",
                                      !.attempts = @ + 1, !.due = Lease]]
  BY OutboxAssumption DEF Claim, Selected, Due, Exhausted, OutboxInv, OutboxTypeOK, RowType
<1>2. new \in Claims
  BY <1>1, OutboxAssumption DEF Claims, RowType
<1>3. OutboxTypeOK'
  <2>1. row' \in [Mails -> RowType]
    <3>1. [row[m] EXCEPT !.status = "processing", !.attempts = row[m].attempts + 1,
                         !.due = Lease] \in RowType
      <4>1. row[m] \in RowType /\ row[m].attempts + 1 \in Nat /\ Lease \in Nat
        BY <1>1, OutboxAssumption
      <4> QED
        BY <4>1 DEF RowType
    <3> QED
      BY <1>1, <3>1 DEF OutboxInv, OutboxTypeOK
  <2>2. worker' \in [Workers -> {NoClaim} \cup Claims]
    BY <1>1, <1>2 DEF OutboxInv, OutboxTypeOK
  <2> QED
    BY <1>1, <2>1, <2>2 DEF OutboxInv, OutboxTypeOK
<1>4. /\ worker'[w] = new
      /\ \A v \in Workers : v # w => worker'[v] = worker[v]
      /\ \A n \in Mails : n # m => row'[n] = row[n]
      /\ row'[m].status = "processing" /\ row'[m].attempts = row[m].attempts + 1
      /\ row'[m].payload = row[m].payload
  BY <1>1 DEF OutboxInv, OutboxTypeOK, RowType
<1> HIDE DEF new
<1>5. ASSUME NEW v \in Workers, worker'[v] # NoClaim
      PROVE  ClaimCounted(v)' /\ ClaimTruthful(v)'
  <2>1. CASE v = w
    <3>1. row[m].payload = TRUE
      BY <1>1 DEF OutboxInv, PayloadKept, OutboxTypeOK, RowType
    <3>2. /\ new.mail = m /\ new.attempt = row[m].attempts + 1 /\ new.result = "none"
          /\ new.readable = (m \notin Unreadable)
      BY <3>1 DEF new
    <3>3. new.attempt \in 1..row'[m].attempts
      BY <1>1, <1>4, <3>2
    <3> QED
      BY <1>4, <2>1, <3>2, <3>3 DEF ClaimCounted, ClaimTruthful
  <2>2. CASE v # w
    <3>1. worker'[v] = worker[v] /\ worker[v] \in Claims
          /\ ClaimCounted(v) /\ ClaimTruthful(v)
      BY <1>4, <1>5, <2>2, ClaimType DEF OutboxInv
    <3> QED
      BY <1>1, <1>4, <3>1 DEF ClaimCounted, ClaimTruthful, Claims
  <2> QED
    BY <2>1, <2>2
<1>6. ClaimsDiffer'
  <2> SUFFICES ASSUME NEW v \in Workers, NEW u \in Workers, v # u,
                      worker'[v] # NoClaim, worker'[u] # NoClaim,
                      worker'[v].mail = worker'[u].mail
               PROVE  worker'[v].attempt # worker'[u].attempt
    BY DEF ClaimsDiffer
  <2>1. ASSUME NEW x \in Workers, x # w, worker[x] # NoClaim, worker[x].mail = m
        PROVE  worker[x].attempt # new.attempt
    <3>1. ClaimCounted(x) /\ worker[x] \in Claims
      BY <2>1, ClaimType DEF OutboxInv
    <3> QED
      BY <1>1, <2>1, <3>1 DEF new, ClaimCounted, Claims
  <2>2. CASE v # w /\ u # w
    BY <1>4, <2>2 DEF OutboxInv, ClaimsDiffer
  <2>3. CASE v = w
    BY <1>4, <2>1, <2>3 DEF new
  <2>4. CASE u = w
    BY <1>4, <2>1, <2>4 DEF new
  <2> QED
    BY <2>2, <2>3, <2>4
<1>7. SentWasDelivered' /\ PayloadKept' /\ GivenUpAfterAllAttempts'
  BY <1>1, <1>4, OutboxAssumption
     DEF OutboxInv, SentWasDelivered, PayloadKept, GivenUpAfterAllAttempts
<1> QED
  BY <1>3, <1>5, <1>6, <1>7 DEF OutboxInv

\* Giving up a row whose claims are used up.
LEMMA ExhaustKeepsInv ==
  ASSUME OutboxInv, NEW w \in Workers, NEW m \in Mails, Exhaust(w, m)
  PROVE  OutboxInv'
<1>1. /\ worker' = worker /\ sent' = sent /\ row[m].attempts \in Nat
      /\ row[m].attempts >= MaxAttempts /\ row[m].attempts <= MaxAttempts
      /\ row[m].status # "unused"
      /\ \A n \in Mails : n # m => row'[n] = row[n]
      /\ row'[m].status = "dead" /\ row'[m].attempts = row[m].attempts
  BY DEF Exhaust, Selected, Due, Exhausted, OutboxInv, OutboxTypeOK, RowType,
         GivenUpAfterAllAttempts
<1>2. OutboxTypeOK'
  BY OutboxAssumption DEF Exhaust, OutboxInv, OutboxTypeOK, RowType
<1>3. ASSUME NEW v \in Workers, worker[v] # NoClaim
      PROVE  ClaimCounted(v)' /\ ClaimTruthful(v)'
  <2>1. worker[v] \in Claims /\ ClaimCounted(v) /\ ClaimTruthful(v)
    BY <1>3, ClaimType DEF OutboxInv
  <2> QED
    BY <1>1, <2>1 DEF ClaimCounted, ClaimTruthful, Claims
<1>4. SentWasDelivered' /\ PayloadKept' /\ GivenUpAfterAllAttempts'
  BY <1>1, OutboxAssumption
     DEF OutboxInv, SentWasDelivered, PayloadKept, GivenUpAfterAllAttempts
<1> QED
  BY <1>1, <1>2, <1>3, <1>4 DEF OutboxInv, ClaimsDiffer

\* A worker learns something of its mail, or stops sending it.
LEMMA SendKeepsInv ==
  ASSUME OutboxInv, NEW w \in Workers,
         Reject(w) \/ Accept(w) \/ Succeed(w) \/ Fail(w)
  PROVE  OutboxInv'
<1>1. /\ worker[w] \in Claims /\ worker[w] # NoClaim /\ row' = row
      /\ ClaimCounted(w) /\ ClaimTruthful(w)
  BY ClaimType DEF Reject, Accept, Succeed, Fail, Sending, NoClaim, OutboxInv
<1>2. /\ worker'[w] \in Claims
      /\ worker'[w].mail = worker[w].mail /\ worker'[w].attempt = worker[w].attempt
      /\ worker'[w].readable = worker[w].readable
  BY <1>1 DEF Reject, Accept, Succeed, Fail, Settles, Claims, OutboxInv, OutboxTypeOK
<1>3. \A v \in Workers : v # w => worker'[v] = worker[v]
  BY DEF Reject, Accept, Succeed, Fail, Settles, OutboxInv, OutboxTypeOK
<1>4. \A m \in Mails : sent'[m] \in SUBSET Nat /\ sent[m] \subseteq sent'[m]
  <2>1. sent \in [Mails -> SUBSET Nat]
    BY DEF OutboxInv, OutboxTypeOK
  <2>2. CASE Accept(w)
    BY <1>1, <2>1, <2>2 DEF Accept, Claims
  <2>3. CASE Reject(w) \/ Succeed(w) \/ Fail(w)
    BY <2>1, <2>3 DEF Reject, Succeed, Fail
  <2> QED
    BY <2>2, <2>3
<1>5. OutboxTypeOK'
  <2>1. worker' \in [Workers -> {NoClaim} \cup Claims]
    BY <1>2 DEF Reject, Accept, Succeed, Fail, Settles, OutboxInv, OutboxTypeOK
  <2>2. sent' \in [Mails -> SUBSET Nat]
    BY <1>4 DEF Reject, Accept, Succeed, Fail, OutboxInv, OutboxTypeOK
  <2> QED
    BY <1>1, <2>1, <2>2 DEF OutboxInv, OutboxTypeOK
<1>6. ASSUME NEW v \in Workers, worker'[v] # NoClaim
      PROVE  ClaimCounted(v)' /\ ClaimTruthful(v)'
  <2>1. CASE v = w
    <3>1. worker'[w].result \in {"accepted", "success"} =>
            worker'[w].attempt \in sent'[worker'[w].mail]
      <4>1. worker \in [Workers -> {NoClaim} \cup Claims] /\ sent \in [Mails -> SUBSET Nat]
        BY DEF OutboxInv, OutboxTypeOK
      <4>2. CASE Accept(w)
        BY <1>1, <1>2, <4>1, <4>2 DEF Accept, Claims
      <4>3. CASE Reject(w) \/ Fail(w)
        BY <1>1, <4>1, <4>3 DEF Reject, Fail, Settles, Claims
      <4>4. CASE Succeed(w)
        BY <1>1, <1>2, <4>1, <4>4 DEF Succeed, Settles, ClaimTruthful, Claims
      <4> QED
        BY <4>2, <4>3, <4>4
    <3>2. worker'[w].result = "invalid" => ~worker[w].readable
      BY <1>1 DEF Reject, Accept, Succeed, Fail, Settles, Claims,
         ClaimTruthful, OutboxInv, OutboxTypeOK
    <3> QED
      BY <1>1, <1>2, <2>1, <3>1, <3>2 DEF ClaimCounted, ClaimTruthful
  <2>2. CASE v # w
    <3>1. worker'[v] = worker[v] /\ worker[v] \in Claims
          /\ ClaimCounted(v) /\ ClaimTruthful(v)
      BY <1>3, <1>6, <2>2, ClaimType DEF OutboxInv
    <3> QED
      BY <1>1, <1>4, <3>1 DEF ClaimCounted, ClaimTruthful, Claims
  <2> QED
    BY <2>1, <2>2
<1>7. ClaimsDiffer'
  BY <1>1, <1>2, <1>3 DEF OutboxInv, ClaimsDiffer
<1>8. SentWasDelivered' /\ PayloadKept' /\ GivenUpAfterAllAttempts'
  BY <1>1, <1>4 DEF OutboxInv, SentWasDelivered, PayloadKept, GivenUpAfterAllAttempts
<1> QED
  BY <1>5, <1>6, <1>7, <1>8 DEF OutboxInv

\* Settling: the fence makes the worker's claim the row's latest.
LEMMA SettleKeepsInv ==
  ASSUME OutboxInv, NEW w \in Workers, Settle(w)
  PROVE  OutboxInv'
<1> DEFINE m == worker[w].mail
<1>1. /\ worker[w] \in Claims /\ worker[w] # NoClaim /\ sent' = sent
      /\ ClaimCounted(w) /\ ClaimTruthful(w) /\ m \in Mails
      /\ worker' = [worker EXCEPT ![w] = NoClaim]
  BY ClaimType DEF Settle, NoClaim, OutboxInv, Claims
<1>2. /\ worker'[w] = NoClaim
      /\ \A v \in Workers : v # w => worker'[v] = worker[v]
      /\ worker' \in [Workers -> {NoClaim} \cup Claims]
  BY <1>1 DEF OutboxInv, OutboxTypeOK
<1>3. ASSUME NEW v \in Workers, v # w, worker[v] # NoClaim,
             \A n \in Mails : row'[n].attempts = row[n].attempts
                             /\ (row[n].status # "unused" => row'[n].status # "unused")
      PROVE  ClaimCounted(v)' /\ ClaimTruthful(v)'
  <2>1. worker'[v] = worker[v] /\ worker[v] \in Claims
        /\ ClaimCounted(v) /\ ClaimTruthful(v)
    BY <1>2, <1>3, ClaimType DEF OutboxInv
  <2> QED
    BY <1>1, <1>3, <2>1 DEF ClaimCounted, ClaimTruthful, Claims
<1>4. ClaimsDiffer'
  BY <1>2 DEF OutboxInv, ClaimsDiffer
<1>5. CASE row' = row
  BY <1>1, <1>2, <1>3, <1>4, <1>5
     DEF OutboxInv, OutboxTypeOK, SentWasDelivered, PayloadKept, GivenUpAfterAllAttempts
<1>6. CASE row' # row
  <2>1. /\ row[m].status = "processing" /\ row[m].attempts = worker[w].attempt
        /\ \/ worker[w].result = "success" /\ Records(w, m, "sent", Retention)
           \/ worker[w].result = "invalid" /\ Records(w, m, "dead", Retention)
           \/ LastAttempt(w) /\ Records(w, m, "dead", Retention)
           \/ ~LastAttempt(w) /\ \E delay \in 1..MaxDelay : Records(w, m, "pending", delay)
    BY <1>6 DEF Settle, OwnClaim
  <2>2. PICK status \in {"sent", "dead", "pending"}, due \in Nat :
          /\ Records(w, m, status, due)
          /\ status = "sent" => worker[w].result = "success"
          /\ status = "dead" => worker[w].result = "invalid" \/ LastAttempt(w)
    BY <2>1, OutboxAssumption
  <2>3. /\ row \in [Mails -> RowType] /\ row[m] \in RowType /\ row[m].payload
    BY <1>1, <2>1 DEF OutboxInv, OutboxTypeOK, PayloadKept
  <2>4. row' = [row EXCEPT ![m] = [row[m] EXCEPT !.status = status, !.due = due,
                                     !.payload = (status = "pending" /\ row[m].payload)]]
    BY <1>1, <2>2, <2>3 DEF Records
  <2>5. /\ row' \in [Mails -> RowType]
        /\ \A n \in Mails : n # m => row'[n] = row[n]
        /\ row'[m].status = status /\ row'[m].attempts = row[m].attempts
        /\ row'[m].payload = (status = "pending")
    <3>1. [row[m] EXCEPT !.status = status, !.due = due,
             !.payload = (status = "pending" /\ row[m].payload)] \in RowType
      BY <2>3 DEF RowType
    <3> QED
      BY <1>1, <2>3, <2>4, <3>1 DEF RowType
  <2>6. OutboxTypeOK'
    BY <1>1, <1>2, <2>5 DEF OutboxInv, OutboxTypeOK
  <2>7. SentWasDelivered'
    BY <1>1, <2>1, <2>2, <2>5 DEF OutboxInv, SentWasDelivered, ClaimTruthful
  <2>8. PayloadKept'
    BY <2>5 DEF OutboxInv, PayloadKept
  <2>9. GivenUpAfterAllAttempts'
    <3>1. row[m].attempts <= MaxAttempts /\ row[m].attempts \in Nat
      BY <1>1, <2>3 DEF OutboxInv, GivenUpAfterAllAttempts, RowType
    <3>2. status = "dead" => row[m].attempts = MaxAttempts \/ m \in Unreadable
      BY <1>1, <2>1, <2>2, <3>1, OutboxAssumption DEF LastAttempt, ClaimTruthful
    <3> QED
      BY <2>5, <3>1, <3>2 DEF OutboxInv, GivenUpAfterAllAttempts
  <2>10. \A n \in Mails : row'[n].attempts = row[n].attempts
                          /\ (row[n].status # "unused" => row'[n].status # "unused")
    BY <2>5
  <2> QED
    BY <1>2, <1>3, <1>4, <2>6, <2>7, <2>8, <2>9, <2>10 DEF OutboxInv
<1> QED
  BY <1>5, <1>6

\* A worker that dies takes its claim with it.
LEMMA CrashKeepsInv ==
  ASSUME OutboxInv, NEW w \in Workers, Crash(w)
  PROVE  OutboxInv'
<1>1. /\ row' = row /\ sent' = sent /\ worker'[w] = NoClaim
      /\ \A v \in Workers : v # w => worker'[v] = worker[v]
      /\ worker' \in [Workers -> {NoClaim} \cup Claims]
  BY DEF Crash, OutboxInv, OutboxTypeOK
<1>2. ASSUME NEW v \in Workers, worker'[v] # NoClaim
      PROVE  ClaimCounted(v)' /\ ClaimTruthful(v)'
  BY <1>1, <1>2 DEF OutboxInv, ClaimCounted, ClaimTruthful
<1> QED
  BY <1>1, <1>2 DEF OutboxInv, OutboxTypeOK, ClaimsDiffer, SentWasDelivered, PayloadKept,
                    GivenUpAfterAllAttempts

\* Time passing changes only the time left.
LEMMA TickEffect ==
  ASSUME OutboxTypeOK, Tick
  PROVE  /\ OutboxTypeOK' /\ sent' = sent
         /\ \A m \in Mails : /\ row'[m].status = row[m].status
                             /\ row'[m].attempts = row[m].attempts
                             /\ row'[m].payload = row[m].payload
                             /\ row'[m].due = Less(row[m].due)
         /\ \A w \in Workers :
              /\ worker[w] = NoClaim => worker'[w] = NoClaim
              /\ worker[w] # NoClaim =>
                   /\ worker'[w] = [worker[w] EXCEPT !.left = Less(worker[w].left)]
                   /\ worker'[w] \in Claims
<1>1. ASSUME NEW m \in Mails
      PROVE  [row[m] EXCEPT !.due = Less(row[m].due)] \in RowType
  BY DEF OutboxTypeOK, RowType, Less
<1>2. ASSUME NEW w \in Workers, worker[w] # NoClaim
      PROVE  [worker[w] EXCEPT !.left = Less(worker[w].left)] \in Claims
  <2>1. worker[w] \in Claims
    BY <1>2 DEF OutboxTypeOK
  <2>2. Less(worker[w].left) \in Nat
    BY <2>1 DEF Claims, Less
  <2> QED
    BY <2>1, <2>2 DEF Claims
<1>3. \A m \in Mails : row[m] \in RowType /\ row'[m] = [row[m] EXCEPT !.due = Less(row[m].due)]
  BY DEF Tick, OutboxTypeOK
<1>4. \A w \in Workers :
        worker'[w] = IF worker[w] = NoClaim THEN NoClaim
                     ELSE [worker[w] EXCEPT !.left = Less(worker[w].left)]
  BY DEF Tick
<1>5. row' \in [Mails -> RowType] /\ worker' \in [Workers -> {NoClaim} \cup Claims]
  BY <1>1, <1>2 DEF Tick
<1>6. sent' = sent /\ OutboxTypeOK'
  BY <1>5 DEF Tick, OutboxTypeOK
<1> QED
  BY <1>2, <1>3, <1>4, <1>6 DEF RowType

\* Time passing keeps the invariant.
LEMMA TickKeepsInv == ASSUME OutboxInv, Tick PROVE OutboxInv'
<1>1. OutboxTypeOK
  BY DEF OutboxInv
<1>2. ASSUME NEW w \in Workers, worker'[w] # NoClaim
      PROVE  /\ worker[w] # NoClaim /\ worker[w] \in Claims
             /\ worker'[w].mail = worker[w].mail
             /\ worker'[w].attempt = worker[w].attempt
             /\ worker'[w].readable = worker[w].readable
             /\ worker'[w].result = worker[w].result
  BY <1>1, <1>2, TickEffect, ClaimType DEF Claims
<1>3. ASSUME NEW w \in Workers, worker'[w] # NoClaim
      PROVE  ClaimCounted(w)' /\ ClaimTruthful(w)'
  <2>1. ClaimCounted(w) /\ ClaimTruthful(w) /\ worker[w].mail \in Mails
    BY <1>2, <1>3 DEF OutboxInv, Claims
  <2> QED
    BY <1>1, <1>2, <1>3, <2>1, TickEffect DEF ClaimCounted, ClaimTruthful
<1>4. ClaimsDiffer'
  BY <1>2 DEF OutboxInv, ClaimsDiffer
<1>5. SentWasDelivered' /\ PayloadKept' /\ GivenUpAfterAllAttempts'
  BY <1>1, TickEffect DEF OutboxInv, SentWasDelivered, PayloadKept,
                          GivenUpAfterAllAttempts
<1> QED
  BY <1>1, <1>3, <1>4, <1>5, TickEffect DEF OutboxInv

\* Every step of the outbox keeps the invariant.
LEMMA OutboxNextInv == OutboxInv /\ [OutboxNext]_outbox => OutboxInv'
<1> SUFFICES ASSUME OutboxInv, [OutboxNext]_outbox PROVE OutboxInv'
  OBVIOUS
<1>1. CASE \E m \in Mails, key \in Keys : Enqueue(m, key)
  BY <1>1, RowsKeepInv
<1>2. CASE \E w \in Workers : WorkerStep(w)
  <2> PICK w \in Workers : WorkerStep(w)
    BY <1>2
  <2>1. CASE \E m \in Mails : Claim(w, m) \/ Exhaust(w, m)
    BY <2>1, ClaimKeepsInv, ExhaustKeepsInv
  <2>2. CASE Reject(w) \/ Accept(w) \/ Succeed(w) \/ Fail(w)
    BY <2>2, SendKeepsInv
  <2>3. CASE Settle(w) \/ Crash(w)
    BY <2>3, SettleKeepsInv, CrashKeepsInv
  <2> QED
    BY <2>1, <2>2, <2>3 DEF WorkerStep
<1>3. CASE \E m \in Mails : CleanUp(m)
  BY <1>3, RowsKeepInv
<1>4. CASE Tick
  BY <1>4, TickKeepsInv
<1>5. CASE UNCHANGED outbox
  BY <1>5 DEF outbox, OutboxInv, OutboxTypeOK, ClaimCounted, ClaimTruthful, ClaimsDiffer,
              SentWasDelivered, PayloadKept, GivenUpAfterAllAttempts
<1> QED
  BY <1>1, <1>2, <1>3, <1>4, <1>5 DEF OutboxNext

\* Every state of the outbox is well typed, counts its claims truly, and keeps
\* the three promises below (processNextNotification).
THEOREM OutboxInvariant == OutboxSpec => []OutboxInv
BY OutboxInitInv, OutboxNextInv, PTL DEF OutboxSpec

\* A row recorded as sent was delivered by its latest claim, however late the
\* workers of earlier claims come back (settle's fence on attempts).
THEOREM SentIsDelivered == OutboxSpec => []SentWasDelivered
<1>1. OutboxInv => SentWasDelivered
  BY DEF OutboxInv
<1> QED
  BY <1>1, OutboxInvariant, PTL

\* A row that may still be claimed has its payload.
THEOREM PayloadStays == OutboxSpec => []PayloadKept
<1>1. OutboxInv => PayloadKept
  BY DEF OutboxInv
<1> QED
  BY <1>1, OutboxInvariant, PTL

\* A readable mail is given up after exactly the allowed attempts.
THEOREM AllAttempts == OutboxSpec => []GivenUpAfterAllAttempts
<1>1. OutboxInv => GivenUpAfterAllAttempts
  BY DEF OutboxInv
<1> QED
  BY <1>1, OutboxInvariant, PTL

\* No step takes a mail that ended back, or claims it again.
LEMMA EndedStays == OutboxInv /\ [OutboxNext]_outbox => [EndsForGood]_outbox
<1> SUFFICES ASSUME OutboxInv, OutboxNext, NEW m \in Mails, Ended(m)
             PROVE  /\ row'[m].status \in {row[m].status, "deleted"}
                    /\ row'[m].attempts = row[m].attempts
  BY DEF EndsForGood
<1>1. row \in [Mails -> RowType] /\ row[m] \in RowType /\ row[m].status \in {"sent", "dead"}
  BY DEF OutboxInv, OutboxTypeOK, Ended
<1>2. CASE \E n \in Mails, key \in Keys : Enqueue(n, key)
  BY <1>1, <1>2 DEF Enqueue
<1>3. CASE \E w \in Workers : WorkerStep(w)
  <2> PICK w \in Workers : WorkerStep(w)
    BY <1>3
  <2>1. CASE \E n \in Mails : Claim(w, n) \/ Exhaust(w, n)
    <3>1. PICK n \in Mails : (Claim(w, n) \/ Exhaust(w, n)) /\ n # m
      BY <1>1, <2>1 DEF Claim, Exhaust, Selected, Due
    <3> QED
      BY <1>1, <3>1 DEF Claim, Exhaust
  <2>2. CASE Reject(w) \/ Accept(w) \/ Succeed(w) \/ Fail(w) \/ Crash(w)
    BY <2>2 DEF Reject, Accept, Succeed, Fail, Crash
  <2>3. CASE Settle(w)
    <3>1. CASE row' = row
      BY <3>1
    <3>2. CASE row' # row
      <4>1. row[worker[w].mail].status = "processing"
        BY <2>3, <3>2 DEF Settle, OwnClaim
      <4>2. PICK status, due : Records(w, worker[w].mail, status, due)
        BY <2>3, <3>2 DEF Settle
      <4> QED
        BY <1>1, <4>1, <4>2 DEF Records
    <3> QED
      BY <3>1, <3>2
  <2> QED
    BY <2>1, <2>2, <2>3 DEF WorkerStep
<1>4. CASE \E n \in Mails : CleanUp(n)
  BY <1>1, <1>4 DEF CleanUp, RowType
<1>5. CASE Tick
  BY <1>5, TickEffect DEF OutboxInv
<1> QED
  BY <1>2, <1>3, <1>4, <1>5 DEF OutboxNext

\* A mail that was sent or given up stays so until it is cleaned up: a worker
\* whose lease expired cannot reopen what its replacement ended.
THEOREM MailsEnd == OutboxSpec => MailsEndForGood
BY EndedStays, OutboxInvariant, PTL DEF OutboxSpec, MailsEndForGood
-----------------------------------------------------------------------------
(* Workers that act in time                                                *)

\* While its worker acts in time, a claimed row is neither due nor ended.
LEMMA HeldIsNotDue ==
  ASSUME OutboxInv, ClaimsInTime, NEW w \in Prompt, worker[w] # NoClaim
  PROVE  /\ worker[w] \in Claims /\ worker[w].mail \in Mails
         /\ row[worker[w].mail].status = "processing"
         /\ row[worker[w].mail].due # 0
BY ClaimType DEF OutboxInv, ClaimsInTime, OwnClaim, Claims, Prompt

\* A step that changes neither w's claim nor its row leaves w in time.
LEMMA UntouchedInTime ==
  ASSUME ClaimsInTime, NEW w \in Prompt, worker[w] # NoClaim,
         worker'[w] = worker[w], row'[worker[w].mail] = row[worker[w].mail]
  PROVE  /\ OwnClaim(w)' /\ worker'[w].left > 0
         /\ worker'[w].left = row'[worker'[w].mail].due
         /\ Sending(w)' => worker'[w].left >= Lease - Deadline
BY DEF ClaimsInTime, OwnClaim, Sending

\* Creating and cleaning up rows concerns no row that is claimed.
LEMMA RowsKeepTime ==
  ASSUME OutboxInv, ClaimsInTime,
         NEW m \in Mails,
         CleanUp(m) \/ \E key \in Keys : Enqueue(m, key)
  PROVE  ClaimsInTime'
<1> SUFFICES ASSUME NEW w \in Prompt, worker'[w] # NoClaim
             PROVE  /\ worker[w] # NoClaim /\ worker'[w] = worker[w]
                    /\ row'[worker[w].mail] = row[worker[w].mail]
  BY UntouchedInTime DEF ClaimsInTime
<1>1. worker' = worker /\ worker[w] # NoClaim
  BY DEF CleanUp, Enqueue
<1>2. worker[w].mail \in Mails /\ worker[w].mail # m
  BY <1>1, HeldIsNotDue DEF CleanUp, Enqueue, Ended
<1> QED
  BY <1>1, <1>2 DEF CleanUp, Enqueue, OutboxInv, OutboxTypeOK

\* A row that is claimed or given up was due, so no other worker held it.
LEMMA ClaimKeepsTime ==
  ASSUME OutboxInv, ClaimsInTime, NEW w \in Workers, NEW m \in Mails,
         Claim(w, m) \/ Exhaust(w, m)
  PROVE  ClaimsInTime'
<1>1. row[m].due = 0 /\ row \in [Mails -> RowType]
      /\ worker \in [Workers -> {NoClaim} \cup Claims]
  BY DEF Claim, Exhaust, Selected, Due, OutboxInv, OutboxTypeOK
<1>2. ASSUME NEW v \in Prompt, worker'[v] # NoClaim, worker'[v] = worker[v]
      PROVE  /\ OwnClaim(v)' /\ worker'[v].left > 0
             /\ worker'[v].left = row'[worker'[v].mail].due
             /\ Sending(v)' => worker'[v].left >= Lease - Deadline
  <2>1. worker[v] # NoClaim
    BY <1>2
  <2>2. worker[v].mail # m
    BY <1>1, <2>1, HeldIsNotDue
  <2>3. row'[worker[v].mail] = row[worker[v].mail]
    BY <1>1, <2>1, <2>2, HeldIsNotDue DEF Claim, Exhaust
  <2> QED
    BY <1>2, <2>1, <2>3, UntouchedInTime
<1>3. CASE Claim(w, m)
  <2>1. /\ OwnClaim(w)' /\ worker'[w].left > 0
        /\ worker'[w].left = row'[worker'[w].mail].due
        /\ worker'[w].left >= Lease - Deadline
    <3>1. worker'[w].mail = m /\ worker'[w].attempt = row[m].attempts + 1
          /\ worker'[w].left = Lease
      BY <1>1, <1>3 DEF Claim
    <3>2. /\ row'[m].status = "processing" /\ row'[m].attempts = row[m].attempts + 1
          /\ row'[m].due = Lease
      <4>1. row[m] \in RowType
        BY <1>1
      <4>2. row' = [row EXCEPT ![m] = [row[m] EXCEPT !.status = "processing",
                                        !.attempts = @ + 1, !.due = Lease]]
        BY <1>1, <1>3, <4>1 DEF Claim, RowType
      <4> QED
        BY <1>1, <4>1, <4>2 DEF RowType
    <3> QED
      BY <3>1, <3>2, OutboxAssumption DEF OwnClaim
  <2>2. \A v \in Prompt : v # w => worker'[v] = worker[v]
    BY <1>1, <1>3 DEF Claim, Prompt
  <2> QED
    BY <1>2, <2>1, <2>2 DEF ClaimsInTime
<1>4. CASE Exhaust(w, m)
  BY <1>2, <1>4 DEF Exhaust, ClaimsInTime
<1> QED
  BY <1>3, <1>4

\* A worker that goes on with its claim, or drops it, takes nothing from others.
LEMMA WorkKeepsTime ==
  ASSUME OutboxInv, ClaimsInTime, NEW w \in Workers,
         Reject(w) \/ Accept(w) \/ Succeed(w) \/ Fail(w) \/ Settle(w) \/ Crash(w)
  PROVE  ClaimsInTime'
<1>1. /\ worker[w] \in Claims /\ worker[w] # NoClaim /\ worker[w].mail \in Mails
      /\ row \in [Mails -> RowType] /\ worker \in [Workers -> {NoClaim} \cup Claims]
  <2>1. OutboxTypeOK
    BY DEF OutboxInv
  <2>2. worker[w] # NoClaim
    BY DEF Reject, Accept, Succeed, Fail, Settle, Crash, Sending, NoClaim
  <2>3. worker[w] \in Claims
    BY <2>1, <2>2, ClaimType
  <2> QED
    BY <2>1, <2>2, <2>3 DEF OutboxTypeOK, Claims
<1>2. \A v \in Prompt : v # w => worker'[v] = worker[v]
  BY <1>1 DEF Reject, Accept, Succeed, Fail, Settles, Settle, Crash, Prompt
<1>3. ASSUME NEW v \in Prompt, v # w, worker'[v] # NoClaim
      PROVE  /\ OwnClaim(v)' /\ worker'[v].left > 0
             /\ worker'[v].left = row'[worker'[v].mail].due
             /\ Sending(v)' => worker'[v].left >= Lease - Deadline
  <2>1. worker[v] # NoClaim /\ worker'[v] = worker[v]
    BY <1>2, <1>3
  <2>2. OwnClaim(w) => worker[v].mail # worker[w].mail
    BY <1>1, <1>3, <2>1 DEF ClaimsInTime, OwnClaim, OutboxInv, ClaimsDiffer, Prompt
  <2>3. row'[worker[v].mail] = row[worker[v].mail]
    <3>1. CASE row' = row
      BY <3>1
    <3>2. CASE row' # row
      <4>1. OwnClaim(w) /\ \E status, due : Records(w, worker[w].mail, status, due)
        BY <3>2 DEF Reject, Accept, Succeed, Fail, Settle, Crash
      <4>2. PICK status, due : Records(w, worker[w].mail, status, due)
        BY <4>1
      <4> QED
        BY <1>1, <2>1, <2>2, <4>1, <4>2, HeldIsNotDue DEF Records
    <3> QED
      BY <3>1, <3>2
  <2> QED
    BY <2>1, <2>3, UntouchedInTime
<1>4. CASE worker'[w] = NoClaim
  BY <1>3, <1>4 DEF ClaimsInTime
<1>5. CASE Reject(w) \/ Accept(w) \/ Succeed(w) \/ Fail(w)
  <2> SUFFICES ASSUME w \in Prompt PROVE ClaimsInTime'
    BY <1>3 DEF ClaimsInTime
  <2>1. /\ row' = row /\ worker'[w].mail = worker[w].mail
        /\ worker'[w].attempt = worker[w].attempt /\ worker'[w].left = worker[w].left
        /\ worker[w].phase = "sending"
    BY <1>1, <1>5 DEF Reject, Accept, Succeed, Fail, Settles, Sending, Claims
  <2>2. /\ OwnClaim(w)' /\ worker'[w].left > 0
        /\ worker'[w].left = row'[worker'[w].mail].due
        /\ worker'[w].left >= Lease - Deadline
    BY <1>1, <2>1 DEF ClaimsInTime, OwnClaim, Sending
  <2> QED
    BY <1>3, <2>2 DEF ClaimsInTime
<1>6. CASE Settle(w) \/ Crash(w)
  BY <1>1, <1>4, <1>6 DEF Settle, Crash
<1> QED
  BY <1>5, <1>6

\* Time goes on only while every worker's lease lasts and its deadline is ahead.
LEMMA TickKeepsTime ==
  ASSUME OutboxInv, ClaimsInTime, Tick
  PROVE  ClaimsInTime'
<1> SUFFICES ASSUME NEW w \in Prompt, worker'[w] # NoClaim
             PROVE  /\ OwnClaim(w)' /\ worker'[w].left > 0
                    /\ worker'[w].left = row'[worker'[w].mail].due
                    /\ Sending(w)' => worker'[w].left >= Lease - Deadline
  BY DEF ClaimsInTime
<1>1. OutboxTypeOK
  BY DEF OutboxInv
<1>2. /\ worker[w] # NoClaim /\ worker[w] \in Claims /\ worker[w].mail \in Mails
      /\ worker'[w] = [worker[w] EXCEPT !.left = Less(worker[w].left)]
  BY <1>1, TickEffect, HeldIsNotDue DEF Prompt
<1>3. /\ worker'[w].mail = worker[w].mail /\ worker'[w].phase = worker[w].phase
      /\ worker'[w].attempt = worker[w].attempt
      /\ worker'[w].left = Less(worker[w].left)
      /\ worker[w].left \in Nat
      /\ Sending(w) \/ worker[w].phase = "settling"
  BY <1>2 DEF Claims, Sending
<1>4. ~Urgent(w)
  BY DEF Tick
<1>5. worker[w].left > 1 /\ (Sending(w) => worker[w].left > Lease - Deadline)
  BY <1>2, <1>3, <1>4, OutboxAssumption DEF Urgent, DeadlineReached, ClaimsInTime
<1>6. OwnClaim(w) /\ worker[w].left = row[worker[w].mail].due
  BY <1>2 DEF ClaimsInTime
<1>7. OwnClaim(w)' /\ worker'[w].left = row'[worker'[w].mail].due
  BY <1>1, <1>2, <1>3, <1>6, TickEffect DEF OwnClaim
<1>8. worker'[w].left > 0 /\ (Sending(w)' => worker'[w].left >= Lease - Deadline)
  BY <1>3, <1>5, OutboxAssumption DEF Less, Sending
<1> QED
  BY <1>7, <1>8

\* Workers that act in time hold their rows to the end (DELIVERY_DEADLINE_MS is
\* less than LEASE_MS).
THEOREM InTime == OutboxSpec => []ClaimsInTime
<1>1. OutboxInit => ClaimsInTime
  BY DEF OutboxInit, ClaimsInTime, Prompt
<1>2. OutboxInv /\ ClaimsInTime /\ [OutboxNext]_outbox => ClaimsInTime'
  <2> SUFFICES ASSUME OutboxInv, ClaimsInTime, [OutboxNext]_outbox PROVE ClaimsInTime'
    OBVIOUS
  <2>1. CASE \E m \in Mails, key \in Keys : Enqueue(m, key)
    BY <2>1, RowsKeepTime
  <2>2. CASE \E w \in Workers : WorkerStep(w)
    BY <2>2, ClaimKeepsTime, WorkKeepsTime DEF WorkerStep
  <2>3. CASE \E m \in Mails : CleanUp(m)
    BY <2>3, RowsKeepTime
  <2>4. CASE Tick
    BY <2>4, TickKeepsTime
  <2>5. CASE UNCHANGED outbox
    BY <2>5 DEF outbox, ClaimsInTime, OwnClaim, Sending
  <2> QED
    BY <2>1, <2>2, <2>3, <2>4, <2>5 DEF OutboxNext
<1> QED
  BY <1>1, <1>2, OutboxInvariant, PTL DEF OutboxSpec

\* No two workers that act in time send the same mail at once: sending gives up
\* before the lease lets another worker claim the row (DELIVERY_DEADLINE_MS).
THEOREM OneSender == OutboxSpec => []NoSecondSender
<1>1. OutboxInv /\ ClaimsInTime => NoSecondSender
  BY DEF OutboxInv, ClaimsInTime, OwnClaim, ClaimsDiffer, NoSecondSender, Sending, NoClaim,
         Prompt
<1> QED
  BY <1>1, InTime, OutboxInvariant, PTL
=============================================================================
