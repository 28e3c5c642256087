----------------------------- MODULE LinkPoints -----------------------------
(***************************************************************************)
(* The search points of one repository link of a prepared asset            *)
(* (packages/preparation link-points.ts, apps/workers vectorize-asset-job, *)
(* packages/qdrant).  The row is in Postgres, the points in the collection *)
(* of an embedding generation in Qdrant: no transaction spans the two.     *)
(* Every write of points is a request of a transaction that holds the      *)
(* link's points lock and the generation lock shared; requests fail with   *)
(* or without effect, transactions and processes at any step.              *)
(*                                                                         *)
(* A request is assumed to end with the process that sent it, before the   *)
(* lock of its transaction is free.                                        *)
(***************************************************************************)
EXTENDS Integers, Sequences, FiniteSets

CONSTANTS
  Chunks,          \* the chunks of the asset, one point each for an attempt
  Workers,         \* deliveries and clean-up runs at work at once
  LastEmbedding,   \* bound on embedding generations
  MaxAttempt,      \* bound on block_asset_index_attempt_seq
  MaxFaults,       \* bound on what fails or dies
  MayLose          \* jobs may vanish

ASSUME LinkPointsAssumption ==
  /\ LastEmbedding \in Nat \ {0} /\ MaxAttempt \in Nat /\ MaxFaults \in Nat
  /\ MayLose \in BOOLEAN

VARIABLES
  link,       \* the link's row
  sequence,   \* block_asset_index_attempt_seq
  embedding,  \* the active embedding generation
  points,     \* points[e][a][k]: chunk k of attempt a in generation e's collection
  job,        \* job[a]: the indexing job of attempt a
  cleanups,   \* recorded clean-ups, named by the attempt of the link that went
  worker,     \* worker[w]: the task w is at
  faults      \* how often something failed

vars == <<link, sequence, embedding, points, job, cleanups, worker, faults>>

Attempts == 1 .. MaxAttempt
Generations == 1 .. LastEmbedding
Below(n) == {a \in Attempts : a < n}
Above(n) == {a \in Attempts : a > n}

\* home: the generation the indexed attempt's points are in; no code reads it.
LinkType == [status : {"none", "pending", "active", "completed", "failed"},
             attempt : 0 .. MaxAttempt, embedding : 0 .. LastEmbedding,
             indexed : 0 .. MaxAttempt, home : 0 .. LastEmbedding]
NoLink == [status |-> "none", attempt |-> 0, embedding |-> 0, indexed |-> 0, home |-> 0]

PointStates == {"none", "hidden", "served"}
NoPoints == [a \in Attempts |-> [k \in Chunks |-> "none"]]

Request == [does : {"serve", "hide", "delete", "write"}, on : SUBSET Attempts]
Transactions == {"staging", "completing", "reconciling"}
Idle == [phase |-> "idle"]
Tasks == [kind : {"index", "exhaust", "sweep", "clean"}, attempt : Attempts]
Busy == [phase : {"claim", "stage", "complete", "reconcile"} \cup Transactions,
         task : Tasks, ok : BOOLEAN, embedding : 0 .. LastEmbedding, todo : Seq(Request)]

TypeOK ==
  /\ link \in LinkType
  /\ sequence \in 0 .. MaxAttempt /\ embedding \in Generations
  /\ points \in [Generations -> [Attempts -> [Chunks -> PointStates]]]
  /\ job \in [Attempts -> {"none", "queued", "dead", "lost"}]
  /\ cleanups \subseteq Attempts
  /\ worker \in [Workers -> {Idle} \cup Busy]
  /\ faults \in 0 .. MaxFaults
-----------------------------------------------------------------------------
Linked == link.status # "none"
Unfinished == link.status \in {"pending", "active"}
CurrentIndexing(a) == link.attempt = a /\ Unfinished

\* What the link reads where only it is asked for: `stagingLink`.
Staging(a) == CurrentIndexing(a) /\ link.indexed < a

\* Requests on the points, in the order they are sent.
Do(does, on) == [does |-> does, on |-> on]

\* serveIndexedAttempt; 0 serves none.
Serve(n) ==
  (IF n = 0 THEN <<>> ELSE <<Do("serve", {n}), Do("hide", Below(n))>>)
    \o <<Do("hide", Above(n))>>

\* A slip: a failed attempt is taken for one that goes on.
BelowPresent == {a \in Attempts : link.indexed < a /\ a < link.attempt}

\* Attempts replaced since the indexed one, and a failed present one.
Replaced == {a \in Attempts : /\ link.indexed < a /\ a <= link.attempt
                              /\ link.status = "failed" \/ a < link.attempt}

\* What reconcileLinkPoints does of the row it reads.
Reconciled ==
  IF ~Linked THEN <<Do("delete", Attempts)>>
  ELSE Serve(link.indexed) \o <<Do("delete", Below(link.indexed)), Do("delete", Replaced)>>

\* A request's effect on the points of some chunks of the attempts it names.
Affected(r, p, some) ==
  [a \in Attempts |-> [k \in Chunks |->
     IF a \notin r.on \/ k \notin some THEN p[a][k]
     ELSE CASE r.does = "serve" /\ p[a][k] # "none" -> "served"
            [] r.does = "hide" /\ p[a][k] # "none" -> "hidden"
            [] r.does = "delete" -> "none"
            [] r.does = "write" -> "hidden"
            [] OTHER -> p[a][k]]]
-----------------------------------------------------------------------------
At(w, phase) == worker[w].phase = phase
Phase(w, phase) == worker' = [worker EXCEPT ![w].phase = phase]
In(w) == worker[w].phase \in Transactions

\* A slip: transactions on the points do not wait for each other.
NobodyWaits == TRUE

PointsLockFree == \A w \in Workers : ~In(w)
\* The completion holds the row it updated.
RowFree == \A w \in Workers : ~At(w, "completing")

Faulty == faults < MaxFaults /\ faults' = faults + 1
-----------------------------------------------------------------------------
(* The row and the embedding generation, as others change them.            *)

Drawn == sequence + 1
Sent == job' = [job EXCEPT ![sequence + 1] = "queued"]

\* A save links the asset; the generation is read before the row is written.
Link(e) ==
  /\ ~Linked /\ sequence < MaxAttempt /\ e <= embedding
  /\ link' = [NoLink EXCEPT !.status = "pending", !.attempt = Drawn, !.embedding = e]
  /\ sequence' = Drawn /\ Sent
  /\ UNCHANGED <<embedding, points, cleanups, worker, faults>>

\* admitIndexing, likewise.
Admit(e) ==
  /\ Linked /\ RowFree /\ sequence < MaxAttempt /\ e <= embedding
  /\ link' = [link EXCEPT !.status = "pending", !.attempt = Drawn, !.embedding = e]
  /\ sequence' = Drawn /\ Sent
  /\ UNCHANGED <<embedding, points, cleanups, worker, faults>>

\* admitProcessing: the link waits, on a new attempt, for the asset.
Wait ==
  /\ Linked /\ RowFree /\ sequence < MaxAttempt
  /\ link' = [link EXCEPT !.status = "pending", !.attempt = Drawn]
  /\ sequence' = Drawn
  /\ UNCHANGED <<embedding, points, job, cleanups, worker, faults>>

\* A save or a deletion removes the link, and records what stays outside.
Unlink ==
  /\ Linked /\ RowFree
  /\ link' = NoLink
  /\ cleanups' = cleanups \cup {link.attempt}
  /\ UNCHANGED <<sequence, embedding, points, job, worker, faults>>

\* A slip: a switch does not wait for those who write points.
NeverMindWriters == TRUE

\* The generation lock is free to be held exclusively.
GenerationsFree == PointsLockFree

StartGeneration ==
  /\ embedding < LastEmbedding /\ GenerationsFree
  /\ embedding' = embedding + 1
  /\ UNCHANGED <<link, sequence, points, job, cleanups, worker, faults>>

\* maintainCollections: every other collection goes.
MaintainCollections ==
  /\ \E e \in Generations \ {embedding} : points[e] # NoPoints
  /\ points' = [e \in Generations |-> IF e = embedding THEN points[e] ELSE NoPoints]
  /\ UNCHANGED <<link, sequence, embedding, job, cleanups, worker, faults>>
-----------------------------------------------------------------------------
(* Tasks: deliveries of jobs and of dead letters, the sweep, clean-ups.     *)

Takes(w, kind, a, phase, snapshot) ==
  /\ worker[w] = Idle
  /\ worker' = [worker EXCEPT ![w] =
       [phase |-> phase, task |-> [kind |-> kind, attempt |-> a], ok |-> TRUE,
        embedding |-> snapshot, todo |-> <<>>]]

\* A delivery reads the active generation; others may deliver the job as well.
Deliver(w, a) ==
  /\ job[a] = "queued"
  /\ Takes(w, "index", a, "claim", embedding)
  /\ UNCHANGED <<link, sequence, embedding, points, job, cleanups, faults>>

\* claimIndexing: the attempt is current and for the generation read.
ClaimIndexing(w) ==
  LET a == worker[w].task.attempt
  IN /\ At(w, "claim")
     /\ IF CurrentIndexing(a) /\ link.embedding = worker[w].embedding
        THEN RowFree /\ link' = [link EXCEPT !.status = "active"] /\ Phase(w, "stage")
        ELSE UNCHANGED link /\ Phase(w, "reconcile")
     /\ UNCHANGED <<sequence, embedding, points, job, cleanups, faults>>

\* markIndexingExhausted, failStrandedIndexing: the fenced write, then the reconcile.
Fails(a) == IF CurrentIndexing(a)
            THEN RowFree /\ link' = [link EXCEPT !.status = "failed"]
            ELSE UNCHANGED link

Exhausted(w, a) ==
  /\ job[a] = "dead"
  /\ Fails(a)
  /\ Takes(w, "exhaust", a, "reconcile", 0)
  /\ UNCHANGED <<sequence, embedding, points, job, cleanups, faults>>

Swept(w, a) ==
  /\ job[a] = "lost" /\ CurrentIndexing(a) /\ link.embedding = embedding
  /\ Fails(a)
  /\ Takes(w, "sweep", a, "reconcile", 0)
  /\ UNCHANGED <<sequence, embedding, points, job, cleanups, faults>>

\* Whoever deleted the link, or the worker once the lease ran out.
CleanUp(w, a) ==
  /\ a \in cleanups
  /\ Takes(w, "clean", a, "reconcile", 0)
  /\ UNCHANGED <<link, sequence, embedding, points, job, cleanups, faults>>

Vanish(a) ==
  /\ MayLose /\ job[a] \in {"queued", "dead"}
  /\ job' = [job EXCEPT ![a] = "lost"]
  /\ UNCHANGED <<link, sequence, embedding, points, cleanups, worker, faults>>

\* The task's reconcile was done, or failed: jobs and clean-ups stay for another
\* run, a job as a dead letter if it was the last try; the sweep does not return.
Ends(w, ok) ==
  LET t == worker[w].task
  IN /\ worker' = [worker EXCEPT ![w] = Idle]
     /\ CASE t.kind = "index" /\ ok -> job' = [job EXCEPT ![t.attempt] = "none"]
          [] t.kind = "index" /\ job[t.attempt] = "queued" /\ ~ok ->
               \E next \in {"queued", "dead"} : job' = [job EXCEPT ![t.attempt] = next]
          [] t.kind = "exhaust" /\ ok -> job' = [job EXCEPT ![t.attempt] = "none"]
          [] OTHER -> UNCHANGED job
     /\ cleanups' = IF t.kind = "clean" /\ ok THEN cleanups \ {t.attempt} ELSE cleanups
-----------------------------------------------------------------------------
(* Transactions on the points.                                             *)

\* writeGeneration: the generation the delivery runs on is still active.
Begins(w, phase, requests) ==
  /\ PointsLockFree
  /\ worker' = [worker EXCEPT ![w].phase = phase, ![w].todo = requests,
                              ![w].embedding = embedding]

\* Runs once more on a generation that became active, if the failure is its.
AfterFailure(w) ==
  worker' = [worker EXCEPT
    ![w].phase = IF embedding # worker[w].embedding THEN "claim" ELSE "reconcile",
    ![w].ok = (embedding # worker[w].embedding),
    ![w].embedding = embedding]

Stale(w) ==
  /\ At(w, "stage") \/ At(w, "complete")
  /\ PointsLockFree /\ embedding # worker[w].embedding
  /\ AfterFailure(w)
  /\ UNCHANGED <<link, sequence, embedding, points, job, cleanups, faults>>

\* A slip: the points the link serves are left as they are.
JustWrites(a) == <<Do("write", {a})>>

\* First what an uncommitted completion may have served is taken back.
Writes(a) == Serve(link.indexed) \o <<Do("write", {a})>>

\* embedChunks; a replaced attempt writes nothing.
BeginStaging(w) ==
  LET a == worker[w].task.attempt
  IN /\ At(w, "stage") /\ embedding = worker[w].embedding
     /\ Begins(w, "staging", IF Staging(a) THEN Writes(a) ELSE <<>>)
     /\ UNCHANGED <<link, sequence, embedding, points, job, cleanups, faults>>

\* completeIndexing updates the row, unless the attempt is done or replaced.
BeginCompletion(w) ==
  LET a == worker[w].task.attempt
  IN /\ At(w, "complete") /\ embedding = worker[w].embedding
     /\ IF CurrentIndexing(a) THEN Begins(w, "completing", Serve(a))
                              ELSE PointsLockFree /\ Phase(w, "reconcile")
     /\ UNCHANGED <<link, sequence, embedding, points, job, cleanups, faults>>

BeginReconcile(w) ==
  /\ At(w, "reconcile")
  /\ Begins(w, "reconciling", Reconciled)
  /\ UNCHANGED <<link, sequence, embedding, points, job, cleanups, faults>>

Requests(w) ==
  /\ In(w) /\ worker[w].todo # <<>>
  /\ points' = [points EXCEPT ![worker[w].embedding] =
                  Affected(Head(worker[w].todo), @, Chunks)]
  /\ worker' = [worker EXCEPT ![w].todo = Tail(@)]
  /\ UNCHANGED <<link, sequence, embedding, job, cleanups, faults>>

\* A request takes effect on none, some or all chunks before something fails.
HalfDone(w) ==
  IF worker[w].todo = <<>> THEN UNCHANGED points
  ELSE \E some \in SUBSET Chunks :
         points' = [points EXCEPT ![worker[w].embedding] =
                      Affected(Head(worker[w].todo), @, some)]

Done(w, phase) == At(w, phase) /\ worker[w].todo = <<>>

CommitStaging(w) ==
  /\ Done(w, "staging")
  /\ Phase(w, "complete")
  /\ UNCHANGED <<link, sequence, embedding, points, job, cleanups, faults>>

CommitCompletion(w) ==
  /\ Done(w, "completing")
  /\ link' = [link EXCEPT !.status = "completed", !.indexed = worker[w].task.attempt,
                          !.home = embedding]
  /\ Phase(w, "reconcile")
  /\ UNCHANGED <<sequence, embedding, points, job, cleanups, faults>>

CommitReconcile(w) ==
  /\ Done(w, "reconciling")
  /\ Ends(w, worker[w].ok)
  /\ UNCHANGED <<link, sequence, embedding, points, faults>>

\* A request or the commit fails: the row is rolled back, the points are not.
RollBack(w) ==
  /\ In(w) /\ Faulty /\ HalfDone(w)
  /\ IF At(w, "reconciling") THEN Ends(w, FALSE)
                             ELSE AfterFailure(w) /\ UNCHANGED <<job, cleanups>>
  /\ UNCHANGED <<link, sequence, embedding>>

\* Something else fails, for this try or for good.
FailTransient(w) ==
  /\ At(w, "stage") \/ At(w, "complete")
  /\ Faulty /\ AfterFailure(w)
  /\ UNCHANGED <<link, sequence, embedding, points, job, cleanups>>

FailFinally(w) ==
  /\ At(w, "stage") \/ At(w, "complete")
  /\ Fails(worker[w].task.attempt)
  /\ Phase(w, "reconcile")
  /\ UNCHANGED <<sequence, embedding, points, job, cleanups, faults>>

\* The process dies: its job or clean-up is taken up by others, or given up.
Crash(w) ==
  /\ worker[w] # Idle
  /\ Faulty
  /\ IF In(w) THEN HalfDone(w) ELSE UNCHANGED points
  /\ Ends(w, FALSE)
  /\ UNCHANGED <<link, sequence, embedding>>
-----------------------------------------------------------------------------
Init ==
  /\ link = NoLink /\ sequence = 0 /\ embedding = 1
  /\ points = [e \in Generations |-> NoPoints]
  /\ job = [a \in Attempts |-> "none"] /\ cleanups = {}
  /\ worker = [w \in Workers |-> Idle] /\ faults = 0

Transaction(w) == \/ BeginStaging(w) \/ BeginCompletion(w) \/ BeginReconcile(w)
                  \/ Requests(w)
                  \/ CommitStaging(w) \/ CommitCompletion(w) \/ CommitReconcile(w)
Goes(w) == Transaction(w) \/ ClaimIndexing(w) \/ Stale(w)
Starts(w) == \E a \in Attempts : Deliver(w, a) \/ Exhausted(w, a) \/ Swept(w, a)
                                 \/ CleanUp(w, a)

Next == \/ \E e \in Generations : Link(e) \/ Admit(e)
        \/ Wait \/ Unlink \/ StartGeneration \/ MaintainCollections
        \/ \E a \in Attempts : Vanish(a)
        \/ \E w \in Workers : Starts(w) \/ Goes(w) \/ RollBack(w) \/ FailTransient(w)
                              \/ FailFinally(w) \/ Crash(w)

Spec == Init /\ [][Next]_vars
-----------------------------------------------------------------------------
(* What search may rely on.                                                *)

Whole(a) == \A k \in Chunks : points[embedding][a][k] = "served"

\* A link that reads indexed in the active generation has every point of its
\* attempt served and no other attempt's: they are served before the commit, and
\* nothing under way for another attempt, or left of one, disturbs them.
IndexedIsServed ==
  link.status = "completed" /\ link.embedding = embedding =>
    /\ Whole(link.attempt)
    /\ \A a \in Attempts \ {link.attempt}, k \in Chunks : points[embedding][a][k] # "served"

\* A file once indexed in the active generation is found whole, by the indexed
\* attempt or by one whose completion did not commit, through every
\* re-indexing, failed completion and crash, until it is unlinked.
IndexedStaysFound ==
  link.indexed # 0 /\ link.home = embedding => \E a \in Attempts : Whole(a)

\* No task is left, was lost, or is at work.
Quiet == /\ \A a \in Attempts : job[a] = "none"
         /\ cleanups = {} /\ \A w \in Workers : worker[w] = Idle

\* When nothing is left to do, the active collection has the indexed points of
\* the link and nothing else: no trace of replaced attempts, uncommitted
\* completions and deleted links.
NothingIsLeftBehind ==
  Quiet /\ ~Unfinished =>
    \A a \in Attempts, k \in Chunks :
      points[embedding][a][k] = IF a = link.indexed /\ link.home = embedding THEN "served"
                                ELSE "none"

\* No point is written to a collection whose generation was replaced.
WritesStayInGeneration ==
  [][\A e \in Generations \ {embedding'} : points'[e] \in {points[e], NoPoints}]_vars
=============================================================================
