------------------------- MODULE NotificationOutbox -------------------------
(***************************************************************************)
(* Mails wait in an outbox table; workers claim the oldest due row, send   *)
(* it and record the result (packages/notifications/src/outbox.ts).  A     *)
(* claim holds the row for a lease, not by a lock: a worker may die, or    *)
(* come back after its lease has expired.                                  *)
(*                                                                         *)
(* Rows are numbered in the order they were created.  What the code keeps  *)
(* as a time is kept here as the time left until then.                     *)
(***************************************************************************)
EXTENDS Integers, FiniteSets

CONSTANTS
  MaxRows,      \* bound on the rows ever created
  Keys,         \* deduplication keys
  Unreadable,   \* rows whose payload the workers' version cannot read
  Workers,      \* workers draining the outbox
  MaxAttempts,  \* NOTIFICATION_MAX_ATTEMPTS
  Lease,        \* LEASE_MS
  Deadline,     \* DELIVERY_DEADLINE_MS
  MaxDelay,     \* bound on the delay before the next attempt
  Retention,    \* how long ended rows are kept
  Late          \* the workers that may miss the deadline, or settle late

ASSUME OutboxAssumption ==
  /\ MaxRows \in Nat
  /\ MaxAttempts \in Nat \ {0}
  /\ Lease \in Nat /\ Deadline \in Nat /\ Deadline < Lease
  /\ MaxDelay \in Nat \ {0} /\ Retention \in Nat
  /\ Late \subseteq Workers

VARIABLES
  row,     \* row[m]: the m-th row of the outbox
  worker,  \* worker[w]: the claim w is working on
  sent     \* sent[m]: the attempts whose mail reached the mail server

outbox == <<row, worker, sent>>

Mails == 1..MaxRows

\* due: time left until the next attempt or, of a claimed row, of the lease;
\* of an ended row, until it may be cleaned up.  payload: not yet erased.
RowType == [status : {"unused", "pending", "processing", "sent", "dead", "deleted"},
            key : Keys, attempts : Nat, due : Nat,
            payload : BOOLEAN]

\* left: time left of the worker's own lease; result: what it will record.
NoClaim == [phase |-> "idle"]
Claims == [phase : {"sending", "settling"}, mail : Mails, attempt : Nat, left : Nat,
           readable : BOOLEAN,
           result : {"none", "accepted", "success", "failure", "invalid"}]

OutboxTypeOK ==
  /\ row \in [Mails -> RowType]
  /\ worker \in [Workers -> {NoClaim} \cup Claims]
  /\ sent \in [Mails -> SUBSET Nat]

Ended(m) == row[m].status \in {"sent", "dead"}
Exists(m) == row[m].status \notin {"unused", "deleted"}
-----------------------------------------------------------------------------
\* enqueueNotification: nothing is inserted while the key is in the table.
Enqueue(m, key) ==
  /\ row[m].status = "unused"
  /\ \A n \in Mails : n < m => row[n].status # "unused"
  /\ \A n \in Mails : Exists(n) => row[n].key # key
  /\ row' = [row EXCEPT ![m] = [status |-> "pending", key |-> key, attempts |-> 0,
                                due |-> 0, payload |-> TRUE]]
  /\ UNCHANGED <<worker, sent>>

\* A slip: expired leases are overlooked.
DueUnclaimed(m) == row[m].status = "pending" /\ row[m].due = 0

\* Waiting for its next attempt, or claimed by a worker whose lease expired.
Due(m) == row[m].status \in {"pending", "processing"} /\ row[m].due = 0

Oldest(m) == Due(m) /\ \A n \in Mails : Due(n) => m <= n

\* The oldest due row but those that other workers' transactions hold locked
\* (SKIP LOCKED): one that settles its row, or that claims one of its own.
Selected(w, m) ==
  LET settled == {worker[v].mail : v \in {u \in Workers : worker[u].phase = "settling"}}
      older == {n \in Mails \ settled : n < m /\ Due(n)}
      others == {v \in Workers \ {w} : worker[v] = NoClaim}
  IN Due(m) /\ Cardinality(older) <= Cardinality(others)

Exhausted(m) == row[m].attempts >= MaxAttempts

\* A claim counts as an attempt.
Claim(w, m) ==
  /\ worker[w] = NoClaim
  /\ Selected(w, m)
  /\ ~Exhausted(m)
  /\ row' = [row EXCEPT ![m].status = "processing",
                        ![m].attempts = @ + 1,
                        ![m].due = Lease]
  /\ worker' = [worker EXCEPT ![w] =
                  [phase |-> "sending", mail |-> m, attempt |-> row[m].attempts + 1,
                   left |-> Lease, readable |-> row[m].payload /\ m \notin Unreadable,
                   result |-> "none"]]
  /\ UNCHANGED sent

\* The last attempt's worker never came back.
Exhaust(w, m) ==
  /\ worker[w] = NoClaim
  /\ Selected(w, m)
  /\ Exhausted(m)
  /\ row' = [row EXCEPT ![m].status = "dead", ![m].payload = FALSE,
                        ![m].due = Retention]
  /\ UNCHANGED <<worker, sent>>
-----------------------------------------------------------------------------
Sending(w) == worker[w].phase = "sending"

Settles(w, result) ==
  worker' = [worker EXCEPT ![w].phase = "settling", ![w].result = result]

Reject(w) ==
  /\ Sending(w) /\ ~worker[w].readable
  /\ Settles(w, "invalid")
  /\ UNCHANGED <<row, sent>>

\* The mail server accepts the mail; the worker has yet to hear of it.
Accept(w) ==
  /\ Sending(w) /\ worker[w].readable /\ worker[w].result = "none"
  /\ worker' = [worker EXCEPT ![w].result = "accepted"]
  /\ sent' = [sent EXCEPT ![worker[w].mail] = @ \cup {worker[w].attempt}]
  /\ UNCHANGED row

Succeed(w) ==
  /\ Sending(w) /\ worker[w].result = "accepted"
  /\ Settles(w, "success")
  /\ UNCHANGED <<row, sent>>

\* An error, an answer that is lost, or the deadline, which closes the
\* connection.
Fail(w) ==
  /\ Sending(w) /\ worker[w].readable
  /\ Settles(w, "failure")
  /\ UNCHANGED <<row, sent>>
-----------------------------------------------------------------------------
\* Slips: whoever comes back settles the row, or the row while it is claimed.
AnyClaim(w) == TRUE
SomeClaim(w) == row[worker[w].mail].status = "processing"

\* The row is still claimed, and by this claim.
OwnClaim(w) ==
  /\ row[worker[w].mail].status = "processing"
  /\ row[worker[w].mail].attempts = worker[w].attempt

\* A slip: given up an attempt early.
NoneLeft(w) == worker[w].attempt + 1 >= MaxAttempts

\* The attempt that failed was the last one.
LastAttempt(w) == worker[w].attempt >= MaxAttempts

\* What the worker records: the row's status and when it is due again.
Records(w, m, status, due) ==
  row' = [row EXCEPT ![m].status = status, ![m].due = due,
                     ![m].payload = status = "pending" /\ @]

\* settle: one update, fenced by the claim; without effect if it was lost.
Settle(w) ==
  LET m == worker[w].mail IN
  /\ worker[w].phase = "settling"
  /\ IF ~OwnClaim(w) THEN UNCHANGED row
     ELSE \/ worker[w].result = "success" /\ Records(w, m, "sent", Retention)
          \/ worker[w].result = "invalid" /\ Records(w, m, "dead", Retention)
          \/ /\ worker[w].result = "failure" /\ LastAttempt(w)
             /\ Records(w, m, "dead", Retention)
          \/ /\ worker[w].result = "failure" /\ ~LastAttempt(w)
             /\ \E delay \in 1..MaxDelay : Records(w, m, "pending", delay)
  /\ worker' = [worker EXCEPT ![w] = NoClaim]
  /\ UNCHANGED sent

\* The worker dies, or cannot reach the database: the claim is left behind.
Crash(w) ==
  /\ worker[w] # NoClaim
  /\ worker' = [worker EXCEPT ![w] = NoClaim]
  /\ UNCHANGED <<row, sent>>

\* cleanupNotificationOutbox
CleanUp(m) ==
  /\ Ended(m) /\ row[m].due = 0
  /\ row' = [row EXCEPT ![m].status = "deleted"]
  /\ UNCHANGED <<worker, sent>>
-----------------------------------------------------------------------------
Less(n) == IF n = 0 THEN 0 ELSE n - 1

\* A slip: sending may last as long as the lease.
DeadlineAtLease(w) == worker[w].left = 0

\* Effect.timeout(DELIVERY_DEADLINE_MS), counted from the claim.
DeadlineReached(w) == worker[w].left <= Lease - Deadline

\* Workers that keep the deadline as long as they live.
Prompt == Workers \ Late

\* The worker must act before time goes on: give up sending, or settle while
\* its lease lasts.
Urgent(w) ==
  \/ Sending(w) /\ DeadlineReached(w)
  \/ worker[w].phase = "settling" /\ worker[w].left <= 1

Tick ==
  /\ \A w \in Prompt : ~Urgent(w)
  /\ row' = [m \in Mails |-> [row[m] EXCEPT !.due = Less(@)]]
  /\ worker' = [w \in Workers |->
                  IF worker[w] = NoClaim THEN NoClaim
                  ELSE [worker[w] EXCEPT !.left = Less(@)]]
  /\ UNCHANGED sent

OutboxInit ==
  /\ \E key \in Keys :
       row = [m \in Mails |-> [status |-> "unused", key |-> key, attempts |-> 0,
                               due |-> 0, payload |-> FALSE]]
  /\ worker = [w \in Workers |-> NoClaim]
  /\ sent = [m \in Mails |-> {}]

WorkerStep(w) ==
  \/ \E m \in Mails : Claim(w, m) \/ Exhaust(w, m)
  \/ Reject(w) \/ Accept(w) \/ Succeed(w) \/ Fail(w)
  \/ Settle(w) \/ Crash(w)

OutboxNext ==
  \/ \E m \in Mails, key \in Keys : Enqueue(m, key)
  \/ \E w \in Workers : WorkerStep(w)
  \/ \E m \in Mails : CleanUp(m)
  \/ Tick

OutboxSpec == OutboxInit /\ [][OutboxNext]_outbox

\* The drain runs every minute, workers get on with their claims, time passes.
OutboxFairness ==
  /\ WF_outbox(Tick)
  /\ \A m \in Mails :
       WF_outbox(Oldest(m) /\ \E w \in Workers : Claim(w, m) \/ Exhaust(w, m))
  /\ \A w \in Workers :
       /\ WF_outbox(Reject(w) \/ Succeed(w) \/ Fail(w))
       /\ WF_outbox(Settle(w) \/ Crash(w))

FairOutboxSpec == OutboxSpec /\ OutboxFairness
-----------------------------------------------------------------------------
(* Properties                                                              *)

\* A row that says sent was delivered by its latest claim: a worker that comes
\* back after its lease cannot record its own result over its replacement's.
SentWasDelivered ==
  \A m \in Mails : row[m].status = "sent" => row[m].attempts \in sent[m]

\* A row that can still be sent has what is to be sent.
PayloadKept ==
  \A m \in Mails :
    row[m].status \in {"pending", "processing"} => row[m].payload

\* A mail is given up after exactly the allowed attempts, unless its payload
\* cannot be read; crashes and lost claims count, but none twice.
GivenUpAfterAllAttempts ==
  \A m \in Mails :
    /\ row[m].attempts <= MaxAttempts
    /\ row[m].status = "dead" =>
         \/ row[m].attempts = MaxAttempts
         \/ m \in Unreadable

\* A mail that was sent or given up stays so until it is cleaned up, and is
\* not claimed again.
EndsForGood ==
  \A m \in Mails :
    Ended(m) => row'[m].status \in {row[m].status, "deleted"}
                /\ row'[m].attempts = row[m].attempts
MailsEndForGood == [][EndsForGood]_outbox

\* "Rendering and sending give up before the lease lets another worker claim
\* the row": no two workers send a mail at once.
NoSecondSender ==
  \A w, v \in Prompt :
    w # v /\ Sending(w) /\ Sending(v) => worker[w].mail # worker[v].mail

\* Every mail is sent or given up, however many workers die over it.
EveryMailEnds ==
  \A m \in Mails : row[m].status = "pending" ~> Ended(m)
-----------------------------------------------------------------------------
(* Why they hold                                                           *)

\* A claim in a worker's hands is one of those its row has counted.
ClaimCounted(w) ==
  LET m == worker[w].mail IN
  /\ row[m].status # "unused"
  /\ worker[w].attempt \in 1..row[m].attempts

\* What a worker has found out about its mail is so.
ClaimTruthful(w) ==
  LET m == worker[w].mail IN
  /\ worker[w].readable \/ m \in Unreadable
  /\ worker[w].result \in {"accepted", "success"} => worker[w].attempt \in sent[m]
  /\ worker[w].result = "invalid" => ~worker[w].readable

\* No two workers hold the same claim.
ClaimsDiffer ==
  \A w, v \in Workers :
    /\ w # v /\ worker[w] # NoClaim /\ worker[v] # NoClaim
    /\ worker[w].mail = worker[v].mail
    => worker[w].attempt # worker[v].attempt

OutboxInv ==
  /\ OutboxTypeOK
  /\ \A w \in Workers : worker[w] # NoClaim => ClaimCounted(w) /\ ClaimTruthful(w)
  /\ ClaimsDiffer
  /\ SentWasDelivered /\ PayloadKept /\ GivenUpAfterAllAttempts

\* Workers that act in time hold the row they claimed, and their lease is the
\* row's.
ClaimsInTime ==
  \A w \in Prompt :
    worker[w] # NoClaim =>
      /\ OwnClaim(w)
      /\ worker[w].left > 0
      /\ worker[w].left = row[worker[w].mail].due
      /\ Sending(w) => worker[w].left >= Lease - Deadline
=============================================================================
