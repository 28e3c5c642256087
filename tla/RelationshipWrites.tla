------------------------- MODULE RelationshipWrites -------------------------
(***************************************************************************)
(* The grants of one user, kept in Postgres and mirrored in SpiceDB        *)
(* (apps/app lib/authz, lib/effect/services/authz).  A resource is in the  *)
(* scope of its home organisation and of those that added it; each of them *)
(* may grant it, and the user's tuple is there while any grant is.  A      *)
(* write locks the organisations it is about, commits rows and outbox      *)
(* events together, and whoever holds the delivery lock sends the events   *)
(* in the order of their seq.  An event carries one change of one tuple.   *)
(* A request that is given up before it is answered may still be carried   *)
(* out later.                                                              *)
(***************************************************************************)
EXTENDS Integers, Sequences, FiniteSets

CONSTANTS
  MaxOrganization,  \* organisations, numbered in the order of their ids
  Resources,
  Home,             \* Home[r]: the organisation a resource belongs to
  Writers,          \* requests that write at once
  BatchSize,        \* BATCH_SIZE
  MaxWrites,        \* bound on writes begun
  MaxFaults         \* bound on what fails or dies

Organizations == 1 .. MaxOrganization

ASSUME RelationshipAssumption ==
  /\ MaxOrganization \in Nat /\ BatchSize \in Nat \ {0}
  /\ MaxWrites \in Nat /\ MaxFaults \in Nat
  /\ IsFiniteSet(Resources) /\ Home \in [Resources -> Organizations]

VARIABLES
  scope,     \* scope[r]: the organisations of resource_scope
  grants,    \* grants[r]: the organisations whose grant is active
  writer,    \* writer[w]: the write w is at
  outbox,    \* authz_outbox; an event's place is its seq
  delivery,  \* the transaction that holds the delivery lock
  tuples,    \* tuples[r]: the user's tuple on r in SpiceDB
  lingering, \* requests nobody waits for any more that SpiceDB may still carry out
  late,      \* the resources whose tuple one of them wrote after a newer event
  begun,     \* writes so far
  faults     \* failures so far

vars == <<scope, grants, writer, outbox, delivery, tuples, lingering, late, begun, faults>>
rows == <<scope, grants>>
requests == <<lingering, late>>
spicedb == <<delivery, tuples, requests>>

Seqs == 1 .. MaxWrites * Cardinality(Resources)
Writes == [does : {"grant", "revoke", "leave", "add", "remove"},
           on : Resources, by : Organizations]
Idle == [at |-> "idle"]
NoDelivery == [batch |-> <<>>, landed |-> FALSE, settled |-> <<>>, failed |-> {}]

\* locked: the locks its transaction held.  covers: the events SpiceDB had
\* when it answered with the zedToken stored here.
Events == [of : Resources, touch : BOOLEAN, locked : SUBSET Organizations,
           status : {"open", "undone", "pending", "failed", "processed"},
           waits : BOOLEAN, covers : SUBSET Seqs]

TypeOK ==
  /\ scope \in [Resources -> SUBSET Organizations]
  /\ grants \in [Resources -> SUBSET Organizations]
  /\ writer \in [Writers -> {Idle}
       \cup [at : {"locking", "written"}, write : Writes, wanted : SUBSET Organizations,
             held : SUBSET Organizations, seqs : SUBSET Seqs]]
  /\ outbox \in Seq(Events) /\ DOMAIN outbox \subseteq Seqs
  /\ delivery \in [batch : Seq(Seqs), landed : BOOLEAN,
                   settled : Seq(Seqs), failed : SUBSET Seqs]
  /\ begun \in 0 .. MaxWrites
  /\ tuples \in [Resources -> BOOLEAN]
  /\ lingering \subseteq [event : Seqs, fault : 1 .. MaxFaults]
  /\ late \subseteq Resources
  /\ faults \in 0 .. MaxFaults
-----------------------------------------------------------------------------
\* A slip: only the organisation that writes is locked.
OwnScope(write) == {write.by}

\* The organisations a write is about, as the rows have it when it looks:
\* resourceOrganizations, addLocks, issuedGrantOrganizations.
Scope(write) ==
  CASE write.does = "leave" ->
         {write.by} \cup UNION {scope[r] : r \in {q \in Resources : write.by \in grants[q]}}
    [] write.does = "add" -> scope[write.on] \cup {write.by}
    [] OTHER -> scope[write.on]

\* The resources whose grant by its organisation a write ends.
Ended(write) ==
  CASE write.does = "leave" -> {r \in Resources : write.by \in grants[r]}
    [] write.does \in {"revoke", "remove"} -> {write.on} \cap {r \in Resources : write.by \in grants[r]}
    [] OTHER -> {}

\* What the bodies check before they write.
Permitted(write) ==
  CASE write.does = "grant" -> write.by \in scope[write.on]
    [] write.does = "revoke" -> write.by \in grants[write.on]
    [] write.does = "remove" -> write.by \in scope[write.on] \ {Home[write.on]}
    [] OTHER -> TRUE

ScopeAfter(write) ==
  CASE write.does = "add" -> [scope EXCEPT ![write.on] = @ \cup {write.by}]
    [] write.does = "remove" -> [scope EXCEPT ![write.on] = @ \ {write.by}]
    [] OTHER -> scope

GrantsAfter(write) ==
  [r \in Resources |->
     IF r \in Ended(write) THEN grants[r] \ {write.by}
     ELSE IF write.does = "grant" /\ r = write.on THEN grants[r] \cup {write.by}
     ELSE grants[r]]

\* projectRelationshipFacts: one change for each tuple, by the grants held after.
Changed(write) == Ended(write) \cup (IF write.does = "grant" THEN {write.on} ELSE {})
Held(write, r) == GrantsAfter(write)[r] # {}

\* A slip: the locks are not taken.
NoHolders(o) == {}

Holders(o) == {w \in Writers : writer[w] # Idle /\ o \in writer[w].held}
Failing == faults < MaxFaults /\ faults' = faults + 1
Go(w, to) == writer' = [writer EXCEPT ![w] = to]
-----------------------------------------------------------------------------
\* The scope is read first without locks.
Begin(w, write) ==
  /\ writer[w] = Idle
  /\ begun < MaxWrites /\ begun' = begun + 1
  /\ Go(w, [at |-> "locking", write |-> write, wanted |-> Scope(write),
            held |-> {}, seqs |-> {}])
  /\ UNCHANGED <<rows, outbox, spicedb, faults>>

\* A slip: in the order the rows came.
AnyLock(w, o) == o \in writer[w].wanted \ writer[w].held

\* The locks are taken in the order of the ids.
NextLock(w, o) ==
  LET left == writer[w].wanted \ writer[w].held IN
  o \in left /\ \A p \in left : o <= p

LockOrganization(w) ==
  /\ writer[w].at = "locking"
  /\ \E o \in Organizations :
       /\ NextLock(w, o) /\ Holders(o) = {}
       /\ Go(w, [writer[w] EXCEPT !.held = @ \cup {o}])
  /\ UNCHANGED <<rows, outbox, spicedb, begun, faults>>

Locked(w) == writer[w].at = "locking" /\ writer[w].held = writer[w].wanted

\* What the scope, read again under the locks, has besides them.
Grown(w) == Scope(writer[w].write) \ writer[w].wanted

\* ScopeGrew: the transaction starts over with more to lock.
StartOver(w) ==
  /\ Locked(w) /\ Grown(w) # {}
  /\ Go(w, [writer[w] EXCEPT !.wanted = @ \cup Grown(w), !.held = {}])
  /\ UNCHANGED <<rows, outbox, spicedb, begun, faults>>

RefuseWrite(w) ==
  /\ Locked(w) /\ Grown(w) = {} /\ ~Permitted(writer[w].write)
  /\ Go(w, Idle)
  /\ UNCHANGED <<rows, outbox, spicedb, begun, faults>>

\* The events of a write, in some order of its tuples.
NewEvent(w, r) ==
  [of |-> r, touch |-> Held(writer[w].write, r), locked |-> writer[w].held,
   status |-> "open", waits |-> FALSE, covers |-> {}]

\* The body ran and enqueueRelationshipMutations took the next seqs; nothing
\* is visible before the commit.
Write(w) ==
  /\ Locked(w) /\ Grown(w) = {} /\ Permitted(writer[w].write)
  /\ LET changed == Changed(writer[w].write)
         new == Len(outbox) + 1 .. Len(outbox) + Cardinality(changed) IN
     /\ \E order \in [new -> changed] :
          /\ \A s, t \in new : s # t => order[s] # order[t]
          /\ outbox' = outbox \o [i \in 1 .. Cardinality(changed) |->
                                    NewEvent(w, order[Len(outbox) + i])]
     /\ Go(w, [writer[w] EXCEPT !.at = "written", !.seqs = new])
  /\ UNCHANGED <<rows, spicedb, begun, faults>>

Become(seqs, status) ==
  outbox' = [s \in DOMAIN outbox |->
               IF s \in seqs THEN [outbox[s] EXCEPT !.status = status] ELSE outbox[s]]

CommitWrite(w) ==
  /\ writer[w].at = "written"
  /\ scope' = ScopeAfter(writer[w].write)
  /\ grants' = GrantsAfter(writer[w].write)
  /\ Become(writer[w].seqs, "pending")
  /\ Go(w, Idle)
  /\ UNCHANGED <<spicedb, begun, faults>>

AbortWrite(w) ==
  /\ writer[w] # Idle
  /\ Failing
  /\ Become(writer[w].seqs, "undone")
  /\ Go(w, Idle)
  /\ UNCHANGED <<rows, spicedb, begun>>
-----------------------------------------------------------------------------
\* A slip: a failed event is given up.
NeverTried == {s \in DOMAIN outbox : outbox[s].status = "pending"}

Undelivered == {s \in DOMAIN outbox : outbox[s].status \in {"pending", "failed"}}

\* The first BATCH_SIZE undelivered events, by seq.
Due(through) ==
  LET wanted == {s \in Undelivered : s <= through}
      Rank(s) == Cardinality({t \in wanted : t <= s})
      size == IF Cardinality(wanted) < BatchSize THEN Cardinality(wanted) ELSE BatchSize
  IN [i \in 1 .. size |-> CHOOSE s \in wanted : Rank(s) = i]

\* The request that wrote an event delivers what is no newer; the outbox loop
\* delivers all there is.
StartDelivery(through) ==
  /\ delivery = NoDelivery
  /\ Due(through) # <<>>
  /\ delivery' = [NoDelivery EXCEPT !.batch = Due(through)]
  /\ UNCHANGED <<rows, writer, outbox, tuples, requests, begun, faults>>

DeliverAll == StartDelivery(Len(outbox))

Delivering == delivery # NoDelivery
Underway == delivery.batch # <<>> /\ ~outbox[Head(delivery.batch)].waits

Land ==
  /\ Underway /\ ~delivery.landed
  /\ LET s == Head(delivery.batch) IN
       /\ tuples' = [tuples EXCEPT ![outbox[s].of] = outbox[s].touch]
       /\ late' = late \ {outbox[s].of}
  /\ delivery' = [delivery EXCEPT !.landed = TRUE]
  /\ UNCHANGED <<rows, writer, outbox, lingering, begun, faults>>

\* settle: the next event of the batch is up.
Acknowledge ==
  /\ Underway /\ delivery.landed
  /\ delivery' = [delivery EXCEPT !.batch = Tail(@), !.landed = FALSE,
                    !.settled = Append(@, Head(delivery.batch))]
  /\ UNCHANGED <<rows, writer, outbox, tuples, requests, begun, faults>>

\* A request is over, answered or never sent, or it is given up on its way: the
\* timeout does not cancel it, and writes have no deadline of their own.
GiveUp ==
  \/ UNCHANGED lingering
  \/ /\ Underway /\ ~delivery.landed
     /\ lingering' = lingering \cup {[event |-> Head(delivery.batch), fault |-> faults']}

\* A slip: newer events do not wait.
FailAndGoOn ==
  /\ Underway
  /\ Failing /\ GiveUp
  /\ delivery' = [delivery EXCEPT !.batch = Tail(@), !.landed = FALSE,
                    !.failed = @ \cup {Head(delivery.batch)}]
  /\ UNCHANGED <<rows, writer, outbox, tuples, late, begun>>

\* A failed or unanswered request: the event waits, and newer ones with it.
FailEvent ==
  /\ Underway
  /\ Failing /\ GiveUp
  /\ delivery' = [delivery EXCEPT !.batch = <<>>, !.landed = FALSE,
                    !.failed = {Head(delivery.batch)}]
  /\ UNCHANGED <<rows, writer, outbox, tuples, late, begun>>

\* SpiceDB answers with a token of all that was settled until then.
Processed == {s \in DOMAIN outbox : outbox[s].status = "processed"}
Settled(s, i) ==
  [outbox[s] EXCEPT !.status = "processed",
     !.covers = Processed \cup {delivery.settled[j] : j \in 1 .. i}]

Outcome(s) ==
  IF \E i \in DOMAIN delivery.settled : delivery.settled[i] = s
  THEN Settled(s, CHOOSE i \in DOMAIN delivery.settled : delivery.settled[i] = s)
  ELSE IF s \in delivery.failed THEN [outbox[s] EXCEPT !.status = "failed", !.waits = TRUE]
  ELSE outbox[s]

\* The batch ends after its last event, at a failed one or one that waits.
CommitDelivery ==
  /\ Delivering /\ ~Underway
  /\ outbox' = [s \in DOMAIN outbox |-> Outcome(s)]
  /\ delivery' = NoDelivery
  /\ UNCHANGED <<rows, writer, tuples, requests, begun, faults>>

\* The transaction is lost; what it sent is sent again.
AbortDelivery ==
  /\ Delivering
  /\ Failing /\ GiveUp
  /\ delivery' = NoDelivery
  /\ UNCHANGED <<rows, writer, outbox, tuples, late, begun>>

\* The events SpiceDB is known to have: processed, or sent in this transaction.
Sent == {delivery.settled[i] : i \in DOMAIN delivery.settled}
Known == Processed \cup Sent
           \cup (IF delivery.landed THEN {Head(delivery.batch)} ELSE {})

\* SpiceDB carries out a request nobody waits for.
LandLate(request) ==
  /\ request \in lingering
  /\ lingering' = lingering \ {request}
  /\ LET s == request.event
         r == outbox[s].of IN
       /\ tuples' = [tuples EXCEPT ![r] = outbox[s].touch]
       /\ late' = late \cup {q \in {r} : \E t \in Known : t > s /\ outbox[t].of = q}
  /\ UNCHANGED <<rows, writer, outbox, delivery, begun, faults>>

\* retryDelayMs passes.
EndWait(s) ==
  /\ s \in DOMAIN outbox /\ outbox[s].waits
  /\ outbox' = [outbox EXCEPT ![s].waits = FALSE]
  /\ UNCHANGED <<rows, writer, spicedb, begun, faults>>
-----------------------------------------------------------------------------
\* Everything written before is delivered, and its events are left out.
Init ==
  /\ scope \in {s \in [Resources -> SUBSET Organizations] :
                 \A r \in Resources : Home[r] \in s[r]}
  /\ grants \in {g \in [Resources -> SUBSET Organizations] :
                 \A r \in Resources : g[r] \subseteq scope[r]}
  /\ tuples = [r \in Resources |-> grants[r] # {}]
  /\ writer = [w \in Writers |-> Idle]
  /\ outbox = <<>> /\ delivery = NoDelivery
  /\ lingering = {} /\ late = {}
  /\ begun = 0 /\ faults = 0

Proceed(w) == StartOver(w) \/ RefuseWrite(w) \/ Write(w) \/ CommitWrite(w)
Deliver == Land \/ Acknowledge \/ CommitDelivery

Next ==
  \/ \E w \in Writers :
       \/ \E write \in Writes : Begin(w, write)
       \/ LockOrganization(w) \/ Proceed(w) \/ AbortWrite(w)
  \/ DeliverAll \/ \E through \in Seqs : StartDelivery(through)
  \/ Deliver \/ FailEvent \/ AbortDelivery
  \/ \E request \in lingering : LandLate(request)
  \/ \E s \in Seqs : EndWait(s)

\* Advisory locks are granted in turn; the loop comes round every ten seconds.
Fairness ==
  /\ \A w \in Writers : SF_vars(LockOrganization(w)) /\ WF_vars(Proceed(w))
  /\ WF_vars(DeliverAll) /\ WF_vars(Deliver)
  /\ \A s \in Seqs : WF_vars(EndWait(s))

Spec == Init /\ [][Next]_vars /\ Fairness
-----------------------------------------------------------------------------
About(r) == {s \in DOMAIN outbox : outbox[s].of = r /\ outbox[s].status # "undone"}

\* Once its events are delivered, a tuple is there exactly while a grant is,
\* whichever organisations granted, revoked, left and were left meanwhile.  Only
\* a request that was given up and landed late can make it differ, and no longer
\* than until the next event of the tuple lands.
SpiceDbMirrors ==
  \A r \in Resources \ late :
    About(r) \subseteq Processed => tuples[r] = (grants[r] # {})

\* A tuple is as the newest delivered event of it or a newer one left it.
AsDelivered(r) ==
  \A s \in About(r) \cap Processed :
    \E t \in About(r) : t >= s /\ outbox[t].touch = tuples[r]

\* No retry or other deliverer brings back what a delivered event changed, but
\* for a request that was given up.
DeliveredStays == \A r \in Resources \ late : AsDelivered(r)

\* "Held for the whole delivery, so one deliverer writes events in seq order":
\* what a delivered event changed is never changed back by an older one.
WrittenInSeqOrder == \A r \in Resources : AsDelivered(r)

\* An organisation that is no longer in a resource's scope grants nothing there.
GrantsInScope == \A r \in Resources : grants[r] \subseteq scope[r]

\* The token of an event shows every older one that the same organisation's
\* writes made, so the newest seq's token is the one to answer a request with.
TokensCoverOlder ==
  \A s, t \in Processed :
    s < t /\ outbox[s].locked \cap outbox[t].locked # {} => s \in outbox[t].covers

\* Every committed event is delivered at last.
EventsDelivered == \A s \in Seqs : s \in Undelivered ~> s \in Processed

\* No write waits for ever, for locks or by starting over.
WritesEnd == \A w \in Writers : writer[w] # Idle ~> writer[w] = Idle
=============================================================================
