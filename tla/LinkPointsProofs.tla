------------------------- MODULE LinkPointsProofs -------------------------
(***************************************************************************)
(* What search relies on, for any number of chunks, workers, attempts,     *)
(* generations and failures: points are written in the active generation   *)
(* only; what is indexed is served, found through every failure, and alone *)
(* when nothing is left to do.                                             *)
(***************************************************************************)
EXTENDS LinkPoints, SequenceTheorems, TLAPS

\* One transaction at a time has the points, on the generation that is active.
OneWriter == \A v, w \in Workers : In(v) /\ In(w) => v = w
OnActive == \A w \in Workers : In(w) => worker[w].embedding = embedding

\* A link, and one whose indexing is being completed, has an attempt.
Numbered == Linked \/ ~RowFree => link.attempt # 0

LinkPointsInv == TypeOK /\ Numbered /\ OneWriter /\ OnActive

-----------------------------------------------------------------------------
(* What the tasks of workers and the requests of transactions look like.   *)

\* A worker at any phase but idle has a task.
LEMMA AtWork ==
  ASSUME TypeOK, NEW w \in Workers, worker[w].phase # "idle"
  PROVE  worker[w] \in Busy
BY DEF TypeOK, Idle

\* The requests that serve an attempt, or none, are requests.
LEMMA ServeType ==
  ASSUME NEW n \in 0 .. MaxAttempt
  PROVE  Serve(n) \in Seq(Request)
<1>1. \A does \in {"serve", "hide", "delete", "write"}, on \in SUBSET Attempts :
        Do(does, on) \in Request
  BY DEF Do, Request
<1>2. Below(n) \in SUBSET Attempts /\ Above(n) \in SUBSET Attempts
  BY DEF Below, Above
<1>3. <<Do("hide", Above(n))>> \in Seq(Request)
  BY <1>1, <1>2
<1>4. (IF n = 0 THEN <<>> ELSE <<Do("serve", {n}), Do("hide", Below(n))>>) \in Seq(Request)
  <2>1. CASE n = 0
    BY <2>1
  <2>2. CASE n # 0
    <3>1. {n} \in SUBSET Attempts
      BY <2>2, LinkPointsAssumption DEF Attempts
    <3> QED
      BY <3>1, <2>2, <1>1, <1>2
  <2> QED
    BY <2>1, <2>2
<1> QED
  BY <1>3, <1>4, ConcatProperties DEF Serve

\* So are those of a staging and those of a reconcile.
LEMMA RequestsType ==
  ASSUME TypeOK
  PROVE  /\ Reconciled \in Seq(Request)
         /\ \A a \in Attempts : Writes(a) \in Seq(Request)
<1>1. link.indexed \in 0 .. MaxAttempt
  BY DEF TypeOK, LinkType
<1>2. Serve(link.indexed) \in Seq(Request)
  BY <1>1, ServeType
<1>3. \A does \in {"serve", "hide", "delete", "write"}, on \in SUBSET Attempts :
        Do(does, on) \in Request
  BY DEF Do, Request
<1>4. Reconciled \in Seq(Request)
  <2>1. Below(link.indexed) \in SUBSET Attempts /\ Replaced \in SUBSET Attempts
    BY DEF Below, Replaced
  <2>2. <<Do("delete", Attempts)>> \in Seq(Request)
    BY <1>3
  <2>3. <<Do("delete", Below(link.indexed)), Do("delete", Replaced)>> \in Seq(Request)
    BY <1>3, <2>1
  <2> QED
    BY <2>2, <2>3, <1>2, ConcatProperties DEF Reconciled
<1>5. ASSUME NEW a \in Attempts
      PROVE  Writes(a) \in Seq(Request)
  <2>1. <<Do("write", {a})>> \in Seq(Request)
    BY <1>3
  <2> QED
    BY <2>1, <1>2, ConcatProperties DEF Writes
<1> QED
  BY <1>4, <1>5

\* A request leaves every point in some state.
LEMMA AffectedType ==
  ASSUME NEW r, NEW p \in [Attempts -> [Chunks -> PointStates]], NEW some
  PROVE  Affected(r, p, some) \in [Attempts -> [Chunks -> PointStates]]
BY DEF Affected, PointStates

-----------------------------------------------------------------------------
(* Types                                                                   *)

\* In the beginning everything has its type.
LEMMA TypeInit == Init => TypeOK
BY LinkPointsAssumption
   DEF Init, TypeOK, NoLink, LinkType, NoPoints, PointStates, Idle, Generations

\* What a failure half-way leaves is points.
LEMMA HalfDoneType ==
  ASSUME TypeOK, NEW w \in Workers, In(w), HalfDone(w)
  PROVE  /\ points' \in [Generations -> [Attempts -> [Chunks -> PointStates]]]
         /\ \A e \in Generations \ {worker[w].embedding} : points'[e] = points[e]
<1>1. points \in [Generations -> [Attempts -> [Chunks -> PointStates]]]
  BY DEF TypeOK
<1>2. CASE worker[w].todo = <<>>
  BY <1>1, <1>2 DEF HalfDone
<1>3. CASE worker[w].todo # <<>>
  <2>1. PICK some \in SUBSET Chunks :
          points' = [points EXCEPT ![worker[w].embedding] =
                       Affected(Head(worker[w].todo), @, some)]
    BY <1>3 DEF HalfDone
  <2>2. \A e \in Generations :
          Affected(Head(worker[w].todo), points[e], some) \in [Attempts -> [Chunks -> PointStates]]
    BY <1>1, AffectedType
  <2> QED
    BY <1>1, <2>1, <2>2
<1> QED
  BY <1>2, <1>3

\* A task that ends leaves jobs, clean-ups and an idle worker.
LEMMA EndsType ==
  ASSUME TypeOK, NEW w \in Workers, worker[w].phase # "idle", NEW ok \in BOOLEAN, Ends(w, ok)
  PROVE  /\ worker' = [worker EXCEPT ![w] = Idle]
         /\ worker' \in [Workers -> {Idle} \cup Busy]
         /\ job' \in [Attempts -> {"none", "queued", "dead", "lost"}]
         /\ cleanups' \subseteq Attempts
<1>1. worker[w] \in Busy
  BY AtWork
<1>2. worker[w].task.attempt \in Attempts
  BY <1>1 DEF Busy, Tasks
<1>3. worker' = [worker EXCEPT ![w] = Idle] /\ cleanups' \subseteq Attempts
  BY DEF Ends, TypeOK
<1>4. job' \in [Attempts -> {"none", "queued", "dead", "lost"}]
  BY <1>2 DEF Ends, TypeOK
<1> QED
  BY <1>3, <1>4 DEF TypeOK

\* A worker begins a task.
LEMMA TakesType ==
  ASSUME TypeOK, NEW w \in Workers, NEW kind \in {"index", "exhaust", "sweep", "clean"},
         NEW a \in Attempts, NEW phase \in {"claim", "reconcile"},
         NEW e \in 0 .. LastEmbedding, Takes(w, kind, a, phase, e)
  PROVE  /\ worker' \in [Workers -> {Idle} \cup Busy]
         /\ \A v \in Workers : v # w => worker'[v] = worker[v]
         /\ worker'[w].phase = phase
BY DEF Takes, TypeOK, Busy, Tasks

\* A worker goes on to another phase of its task, with or without requests.
LEMMA PhaseType ==
  ASSUME TypeOK, NEW w \in Workers, worker[w].phase # "idle",
         NEW phase \in {"claim", "stage", "complete", "reconcile"} \cup Transactions
  PROVE  /\ Phase(w, phase) =>
              /\ worker' \in [Workers -> {Idle} \cup Busy]
              /\ \A v \in Workers : v # w => worker'[v] = worker[v]
              /\ worker'[w].phase = phase /\ worker'[w].embedding = worker[w].embedding
         /\ \A requests \in Seq(Request) : Begins(w, phase, requests) =>
              /\ worker' \in [Workers -> {Idle} \cup Busy]
              /\ \A v \in Workers : v # w => worker'[v] = worker[v]
              /\ worker'[w].phase = phase /\ worker'[w].embedding = embedding
<1>1. worker[w] \in Busy /\ worker \in [Workers -> {Idle} \cup Busy] /\ embedding \in 0 .. LastEmbedding
  BY AtWork DEF TypeOK, Generations
<1>2. ASSUME Phase(w, phase)
      PROVE  /\ worker' \in [Workers -> {Idle} \cup Busy]
             /\ \A v \in Workers : v # w => worker'[v] = worker[v]
             /\ worker'[w].phase = phase /\ worker'[w].embedding = worker[w].embedding
  BY <1>1, <1>2 DEF Phase, Busy
<1>3. ASSUME NEW requests \in Seq(Request), Begins(w, phase, requests)
      PROVE  /\ worker' \in [Workers -> {Idle} \cup Busy]
             /\ \A v \in Workers : v # w => worker'[v] = worker[v]
             /\ worker'[w].phase = phase /\ worker'[w].embedding = embedding
  BY <1>1, <1>3 DEF Begins, Busy
<1> QED
  BY <1>2, <1>3

\* A failure sends a worker to its next try or to the reconcile.
LEMMA FailureType ==
  ASSUME TypeOK, NEW w \in Workers, worker[w].phase # "idle", AfterFailure(w)
  PROVE  /\ worker' \in [Workers -> {Idle} \cup Busy]
         /\ \A v \in Workers : v # w => worker'[v] = worker[v]
         /\ worker'[w].phase \in {"claim", "reconcile"}
<1>1. worker[w] \in Busy /\ worker \in [Workers -> {Idle} \cup Busy] /\ embedding \in 0 .. LastEmbedding
  BY AtWork DEF TypeOK, Generations
<1> QED
  BY <1>1 DEF AfterFailure, Busy

\* The row after a fenced write.
LEMMA FailsType ==
  ASSUME TypeOK, NEW a \in Attempts, Fails(a)
  PROVE  link' \in LinkType
BY DEF Fails, TypeOK, LinkType

-----------------------------------------------------------------------------
(* What every step does to workers and points.                             *)

\* A row put on a new attempt.
LEMMA PendingType ==
  ASSUME NEW row \in LinkType, NEW a \in 0 .. MaxAttempt, NEW e \in 0 .. LastEmbedding
  PROVE  [row EXCEPT !.status = "pending", !.attempt = a, !.embedding = e] \in LinkType
BY DEF LinkType

\* The steps of the row and the generation keep the types.
LEMMA RowStepType ==
  ASSUME TypeOK, Numbered,
         \/ \E e \in Generations : Link(e) \/ Admit(e)
         \/ Wait \/ Unlink \/ StartGeneration \/ MaintainCollections
         \/ \E a \in Attempts : Vanish(a)
  PROVE  TypeOK'
<1>1. /\ sequence \in 0 .. MaxAttempt /\ embedding \in Generations /\ link \in LinkType
      /\ MaxAttempt \in Nat /\ LastEmbedding \in Nat \ {0}
      /\ job \in [Attempts -> {"none", "queued", "dead", "lost"}]
  BY LinkPointsAssumption DEF TypeOK
<1>2. CASE \E e \in Generations : Link(e) \/ Admit(e)
  <2>1. PICK e \in Generations : Link(e) \/ Admit(e)
    BY <1>2
  <2>2. sequence < MaxAttempt /\ sequence' = Drawn
    BY <2>1 DEF Link, Admit
  <2>3. Drawn \in 0 .. MaxAttempt /\ e \in 0 .. LastEmbedding
    BY <1>1, <2>2 DEF Drawn, Generations
  <2>5. Link(e) => link' \in LinkType
    <3>1. NoLink \in LinkType
      BY <1>1 DEF NoLink, LinkType
    <3> QED
      BY <3>1, <2>3, PendingType DEF Link
  <2>6. Admit(e) => link' \in LinkType
    <3>1. [link EXCEPT !.status = "pending", !.attempt = Drawn, !.embedding = e] \in LinkType
      BY <1>1, <2>3, PendingType
    <3> QED
      BY <3>1 DEF Admit
  <2>7. link' \in LinkType
    BY <2>1, <2>5, <2>6
  <2>4. job' \in [Attempts -> {"none", "queued", "dead", "lost"}]
    BY <1>1, <2>1 DEF Link, Admit, Sent
  <2> QED
    BY <2>1, <2>2, <2>3, <2>4, <2>7 DEF Link, Admit, TypeOK
<1>3. CASE Wait
  <2>1. Drawn \in 0 .. MaxAttempt
    BY <1>1, <1>3 DEF Wait, Drawn
  <2> QED
    BY <1>1, <1>3, <2>1 DEF Wait, LinkType, TypeOK
<1>4. CASE Unlink
  <2>1. link' \in LinkType
    BY <1>1, <1>4 DEF Unlink, NoLink, LinkType
  <2>2. link.attempt \in Attempts
    BY <1>1, <1>4 DEF Unlink, Numbered, LinkType, Attempts
  <2> QED
    BY <1>4, <2>1, <2>2 DEF Unlink, TypeOK
<1>5. CASE StartGeneration
  BY <1>1, <1>5 DEF StartGeneration, TypeOK, Generations
<1>6. CASE MaintainCollections
  <2>1. NoPoints \in [Attempts -> [Chunks -> PointStates]]
    BY DEF NoPoints, PointStates
  <2> QED
    BY <1>6, <2>1 DEF MaintainCollections, TypeOK
<1>7. CASE \E a \in Attempts : Vanish(a)
  BY <1>7 DEF Vanish, TypeOK
<1> QED
  BY <1>2, <1>3, <1>4, <1>5, <1>6, <1>7

\* A worker's step keeps the types; a transaction begins only where there is
\* none, on the active generation, and changes points of no other.
LEMMA WorkerStep ==
  ASSUME TypeOK, NEW w \in Workers,
         Starts(w) \/ Goes(w) \/ RollBack(w) \/ FailTransient(w) \/ FailFinally(w) \/ Crash(w)
  PROVE  /\ TypeOK'
         /\ embedding' = embedding
         /\ \A v \in Workers : v # w => worker'[v] = worker[v]
         /\ worker'[w].phase \in Transactions =>
              \/ In(w) /\ worker'[w].embedding = worker[w].embedding
              \/ PointsLockFree /\ worker'[w].embedding = embedding
         /\ worker'[w].phase = "completing" => At(w, "completing") \/ link.attempt # 0
         /\ \A e \in Generations :
              points'[e] # points[e] => In(w) /\ e = worker[w].embedding
<1> DEFINE Others == \A v \in Workers : v # w => worker'[v] = worker[v]
           Typed == worker' \in [Workers -> {Idle} \cup Busy]
<1>1. /\ worker \in [Workers -> {Idle} \cup Busy] /\ link \in LinkType
      /\ embedding \in Generations /\ embedding \in 0 .. LastEmbedding /\ 0 \in 0 .. LastEmbedding
      /\ faults \in 0 .. MaxFaults /\ MaxFaults \in Nat
  BY LinkPointsAssumption DEF TypeOK, Generations
<1>2. CASE Starts(w)
  <2>1. PICK a \in Attempts : Deliver(w, a) \/ Exhausted(w, a) \/ Swept(w, a) \/ CleanUp(w, a)
    BY <1>2 DEF Starts
  <2>2. Typed /\ Others /\ worker'[w].phase \in {"claim", "reconcile"}
    BY <1>1, <2>1, TakesType DEF Deliver, Exhausted, Swept, CleanUp
  <2>3. link' \in LinkType
    BY <1>1, <2>1, FailsType DEF Deliver, Exhausted, Swept, CleanUp
  <2>4. UNCHANGED <<sequence, embedding, points, job, cleanups, faults>>
    BY <2>1 DEF Deliver, Exhausted, Swept, CleanUp
  <2> QED
    BY <2>2, <2>3, <2>4 DEF TypeOK, Transactions
<1>3. CASE ClaimIndexing(w)
  <2>1. link' \in LinkType
    BY <1>1, <1>3 DEF ClaimIndexing, LinkType
  <2>2. Phase(w, "stage") \/ Phase(w, "reconcile")
    BY <1>3 DEF ClaimIndexing
  <2>3. Typed /\ Others /\ worker'[w].phase \in {"stage", "reconcile"}
    BY <1>3, <2>2, PhaseType DEF ClaimIndexing, At
  <2>4. UNCHANGED <<sequence, embedding, points, job, cleanups, faults>>
    BY <1>3 DEF ClaimIndexing
  <2> QED
    BY <2>1, <2>3, <2>4 DEF TypeOK, Transactions
<1>4. CASE Stale(w) \/ FailTransient(w)
  <2>1. AfterFailure(w) /\ worker[w].phase # "idle"
    BY <1>4 DEF Stale, FailTransient, At
  <2>2. Typed /\ Others /\ worker'[w].phase \in {"claim", "reconcile"}
    BY <2>1, FailureType
  <2>3. UNCHANGED <<link, sequence, embedding, points, job, cleanups>> /\ faults' \in 0 .. MaxFaults
    BY <1>1, <1>4 DEF Stale, FailTransient, Faulty
  <2> QED
    BY <2>2, <2>3 DEF TypeOK, Transactions
<1>5. CASE BeginStaging(w) \/ BeginCompletion(w) \/ BeginReconcile(w)
  <2>1. worker[w].phase # "idle" /\ PointsLockFree
    BY <1>5 DEF BeginStaging, BeginCompletion, BeginReconcile, At, Begins
  <2>2. worker[w].task.attempt \in Attempts
    BY <2>1, AtWork DEF Busy, Tasks
  <2>3. <<>> \in Seq(Request) /\ Serve(worker[w].task.attempt) \in Seq(Request)
    BY <2>2, ServeType DEF Attempts
  <2>4. \/ \E phase \in Transactions, requests \in Seq(Request) :
             /\ Begins(w, phase, requests)
             /\ phase = "completing" => link.attempt # 0
        \/ Phase(w, "reconcile")
    <3>1. CASE BeginStaging(w) \/ BeginReconcile(w)
      BY <2>2, <2>3, <3>1, RequestsType DEF BeginStaging, BeginReconcile, Transactions
    <3>2. CASE BeginCompletion(w)
      BY <2>2, <2>3, <3>2 DEF BeginCompletion, Transactions, CurrentIndexing, Attempts
    <3> QED
      BY <1>5, <3>1, <3>2
  <2>5. \/ /\ Typed /\ Others /\ worker'[w].embedding = embedding
           /\ worker'[w].phase = "completing" => link.attempt # 0
        \/ Typed /\ Others /\ worker'[w].phase = "reconcile"
    BY <2>1, <2>4, PhaseType
  <2>6. UNCHANGED <<link, sequence, embedding, points, job, cleanups, faults>>
    BY <1>5 DEF BeginStaging, BeginCompletion, BeginReconcile
  <2> QED
    BY <2>1, <2>5, <2>6 DEF TypeOK, Transactions
<1>6. CASE Requests(w)
  <2>1. worker[w] \in Busy /\ worker[w].todo \in Seq(Request) /\ worker[w].todo # <<>>
    BY <1>6, AtWork DEF Requests, In, Transactions, Busy
  <2>2. Tail(worker[w].todo) \in Seq(Request)
    BY <2>1, HeadTailProperties
  <2>3. Typed /\ Others /\ worker'[w].phase = worker[w].phase
        /\ worker'[w].embedding = worker[w].embedding
    BY <1>1, <1>6, <2>1, <2>2 DEF Requests, Busy
  <2>4. /\ points' \in [Generations -> [Attempts -> [Chunks -> PointStates]]]
        /\ \A e \in Generations : points'[e] # points[e] => e = worker[w].embedding
    <3>1. \A e \in Generations : Affected(Head(worker[w].todo), points[e], Chunks)
                                   \in [Attempts -> [Chunks -> PointStates]]
      BY AffectedType DEF TypeOK
    <3> QED
      BY <1>6, <3>1 DEF Requests, TypeOK
  <2>5. UNCHANGED <<link, sequence, embedding, job, cleanups, faults>> /\ In(w)
    BY <1>6 DEF Requests
  <2> QED
    BY <2>3, <2>4, <2>5 DEF TypeOK, In, At
<1>7. CASE CommitStaging(w) \/ CommitCompletion(w)
  <2>1. /\ worker[w].phase # "idle"
        /\ Phase(w, "complete") \/ Phase(w, "reconcile")
        /\ UNCHANGED <<sequence, embedding, points, job, cleanups, faults>>
    BY <1>7 DEF CommitStaging, CommitCompletion, Done, At
  <2>2. Typed /\ Others /\ worker'[w].phase \in {"complete", "reconcile"}
    BY <2>1, PhaseType
  <2>3. worker[w].task.attempt \in 0 .. MaxAttempt
    BY <2>1, AtWork DEF Busy, Tasks, Attempts
  <2>4. link' \in LinkType
    BY <1>1, <1>7, <2>3 DEF CommitStaging, CommitCompletion, LinkType
  <2> QED
    BY <2>1, <2>2, <2>4 DEF TypeOK, Transactions
<1>8. CASE FailFinally(w)
  <2>1. worker[w].phase # "idle" /\ worker[w].task.attempt \in Attempts
    BY <1>8, AtWork DEF FailFinally, At, Busy, Tasks
  <2>2. Typed /\ Others /\ worker'[w].phase = "reconcile"
    BY <1>8, <2>1, PhaseType DEF FailFinally
  <2>3. link' \in LinkType
    BY <1>8, <2>1, FailsType DEF FailFinally
  <2>4. UNCHANGED <<sequence, embedding, points, job, cleanups, faults>>
    BY <1>8 DEF FailFinally
  <2> QED
    BY <2>2, <2>3, <2>4 DEF TypeOK, Transactions
<1>9. CASE CommitReconcile(w) \/ Crash(w) \/ RollBack(w)
  <2>1. worker[w].phase # "idle"
    BY <1>1, <1>9 DEF CommitReconcile, Crash, RollBack, Done, At, In, Transactions, Busy, Idle
  <2>2. worker[w].ok \in BOOLEAN
    BY <2>1, AtWork DEF Busy
  <2>3. /\ Typed /\ Others /\ worker'[w].phase \in {"idle", "claim", "reconcile"}
        /\ job' \in [Attempts -> {"none", "queued", "dead", "lost"}]
        /\ cleanups' \subseteq Attempts
    <3>1. \/ \E ok \in BOOLEAN : Ends(w, ok)
          \/ AfterFailure(w) /\ UNCHANGED <<job, cleanups>>
      <4>1. CASE CommitReconcile(w)
        BY <4>1, <2>2, Zenon DEF CommitReconcile
      <4>2. CASE Crash(w)
        BY <4>2, Zenon DEF Crash
      <4>3. CASE RollBack(w)
        BY <4>3 DEF RollBack
      <4> QED
        BY <1>9, <4>1, <4>2, <4>3
    <3>2. CASE \E ok \in BOOLEAN : Ends(w, ok)
      BY <1>1, <2>1, <3>2, EndsType DEF Idle
    <3>3. CASE AfterFailure(w) /\ UNCHANGED <<job, cleanups>>
      BY <2>1, <3>3, FailureType DEF TypeOK
    <3> QED
      BY <3>1, <3>2, <3>3
  <2>4. /\ points' \in [Generations -> [Attempts -> [Chunks -> PointStates]]]
        /\ \A e \in Generations : points'[e] # points[e] => In(w) /\ e = worker[w].embedding
    <3>1. points' = points \/ (In(w) /\ HalfDone(w))
      <4>1. CASE CommitReconcile(w)
        <5>1. UNCHANGED <<link, sequence, embedding, points, faults>>
          BY <4>1, Zenon DEF CommitReconcile
        <5> QED
          BY <5>1
      <4>2. CASE Crash(w)
        <5>1. IF In(w) THEN HalfDone(w) ELSE UNCHANGED points
          BY <4>2, Zenon DEF Crash
        <5> QED
          BY <5>1
      <4>3. CASE RollBack(w)
        BY <4>3 DEF RollBack
      <4> QED
        BY <1>9, <4>1, <4>2, <4>3
    <3> QED
      BY <3>1, HalfDoneType DEF TypeOK
  <2>5. UNCHANGED <<link, sequence, embedding>> /\ faults' \in 0 .. MaxFaults
    <3>1. Faulty => faults' \in 0 .. MaxFaults
      BY <1>1 DEF Faulty
    <3>2. CASE CommitReconcile(w)
      BY <1>1, <3>2 DEF CommitReconcile
    <3>3. CASE Crash(w)
      BY <3>1, <3>3 DEF Crash
    <3>4. CASE RollBack(w)
      BY <3>1, <3>4 DEF RollBack
    <3> QED
      BY <1>9, <3>2, <3>3, <3>4
  <2> QED
    BY <2>3, <2>4, <2>5 DEF TypeOK, Transactions
<1> QED
  BY <1>2, <1>3, <1>4, <1>5, <1>6, <1>7, <1>8, <1>9 DEF Goes, Transaction

-----------------------------------------------------------------------------
(* The invariant and what follows from it.                                 *)

\* The invariant holds in the beginning: nobody is in a transaction.
LEMMA InitInv == Init => LinkPointsInv
<1> SUFFICES ASSUME Init PROVE LinkPointsInv
  OBVIOUS
<1>1. \A w \in Workers : ~In(w)
  BY DEF Init, Idle, In, Transactions
<1> QED
  BY <1>1, TypeInit DEF LinkPointsInv, Numbered, OneWriter, OnActive, Init, NoLink, Linked, RowFree, At, Idle

\* A link that stays keeps an attempt, and a new one gets one.
LEMMA NumberedNext ==
  ASSUME TypeOK, Numbered, Next
  PROVE  Numbered'
<1>1. sequence \in 0 .. MaxAttempt /\ MaxAttempt \in Nat /\ link \in LinkType
  BY LinkPointsAssumption DEF TypeOK
<1>2. Drawn # 0
  BY <1>1 DEF Drawn
<1>3. CASE \/ \E e \in Generations : Link(e) \/ Admit(e)
           \/ Wait \/ Unlink \/ StartGeneration \/ MaintainCollections
           \/ \E a \in Attempts : Vanish(a)
  <2>1. CASE \E e \in Generations : Link(e)
    BY <1>2, <2>1 DEF Link, NoLink, Numbered
  <2>2. CASE (\E e \in Generations : Admit(e)) \/ Wait
    BY <1>1, <1>2, <2>2 DEF Admit, Wait, Numbered, LinkType
  <2>3. CASE Unlink
    BY <2>3 DEF Unlink, NoLink, Numbered, Linked, RowFree, At
  <2>4. CASE StartGeneration \/ MaintainCollections \/ \E a \in Attempts : Vanish(a)
    BY <2>4 DEF StartGeneration, MaintainCollections, Vanish, Numbered, Linked, RowFree, At
  <2> QED
    BY <1>3, <2>1, <2>2, <2>3, <2>4
<1>4. ASSUME NEW w \in Workers,
             Starts(w) \/ Goes(w) \/ RollBack(w) \/ FailTransient(w) \/ FailFinally(w) \/ Crash(w)
      PROVE  Numbered'
  <2> DEFINE Kept == link'.attempt = link.attempt /\ (Linked' => Linked \/ ~RowFree)
  <2>1. Kept
    <3>1. ASSUME NEW a, Fails(a)
          PROVE  Kept
      BY <1>1, <3>1 DEF Fails, LinkType, CurrentIndexing, Unfinished, Linked
    <3>2. CASE Starts(w)
      BY <3>1, <3>2 DEF Starts, Deliver, Exhausted, Swept, CleanUp, Linked
    <3>3. CASE ClaimIndexing(w)
      BY <1>1, <3>3 DEF ClaimIndexing, LinkType, CurrentIndexing, Unfinished, Linked
    <3>4. CASE CommitCompletion(w)
      BY <1>1, <3>4 DEF CommitCompletion, Done, LinkType, RowFree
    <3>5. CASE FailFinally(w)
      BY <3>1, <3>5 DEF FailFinally
    <3>6. CASE \/ BeginStaging(w) \/ BeginCompletion(w) \/ BeginReconcile(w) \/ Requests(w)
               \/ CommitStaging(w) \/ CommitReconcile(w) \/ Stale(w)
               \/ RollBack(w) \/ FailTransient(w) \/ Crash(w)
      <4>1. link' = link
        BY <3>6 DEF BeginStaging, BeginCompletion, BeginReconcile, Requests, CommitStaging,
                    CommitReconcile, Stale, RollBack, FailTransient, Crash
      <4> QED
        BY <4>1 DEF Linked
    <3> QED
      BY <1>4, <3>2, <3>3, <3>4, <3>5, <3>6 DEF Goes, Transaction
  <2>2. ~RowFree' => ~RowFree \/ link.attempt # 0
    BY <1>4, WorkerStep DEF RowFree, At
  <2> QED
    BY <2>1, <2>2 DEF Numbered
<1> QED
  BY <1>3, <1>4 DEF Next

\* Every step keeps the invariant; the generation changes only while nobody
\* writes points.
LEMMA NextInv == LinkPointsInv /\ [Next]_vars => LinkPointsInv'
<1> SUFFICES ASSUME LinkPointsInv, [Next]_vars PROVE LinkPointsInv'
  OBVIOUS
<1> USE DEF LinkPointsInv
<1>1. CASE UNCHANGED vars
  <2>1. TypeOK'
    BY <1>1 DEF vars, TypeOK
  <2> QED
    BY <1>1, <2>1 DEF vars, Numbered, Linked, RowFree, At, OneWriter, OnActive, In
<1>2. CASE \/ \E e \in Generations : Link(e) \/ Admit(e)
           \/ Wait \/ Unlink \/ StartGeneration \/ MaintainCollections
           \/ \E a \in Attempts : Vanish(a)
  <2>1. TypeOK' /\ Numbered'
    BY <1>2, RowStepType, NumberedNext DEF Next
  <2>2. worker' = worker /\ (embedding' = embedding \/ PointsLockFree)
    BY <1>2 DEF Link, Admit, Wait, Unlink, StartGeneration, MaintainCollections, Vanish,
                GenerationsFree
  <2> QED
    BY <2>1, <2>2 DEF OneWriter, OnActive, In, PointsLockFree
<1>3. ASSUME NEW w \in Workers,
             Starts(w) \/ Goes(w) \/ RollBack(w) \/ FailTransient(w) \/ FailFinally(w) \/ Crash(w)
      PROVE  LinkPointsInv'
  <2>1. TypeOK' /\ Numbered'
    BY <1>3, WorkerStep, NumberedNext DEF Next
  <2>2. /\ embedding' = embedding
        /\ \A v \in Workers : v # w => worker'[v] = worker[v]
        /\ worker'[w].phase \in Transactions =>
             \/ In(w) /\ worker'[w].embedding = worker[w].embedding
             \/ PointsLockFree /\ worker'[w].embedding = embedding
    BY <1>3, WorkerStep
  <2>3. OneWriter' /\ OnActive'
    BY <2>2 DEF OneWriter, OnActive, In, PointsLockFree
  <2> QED
    BY <2>1, <2>3
<1> QED
  BY <1>1, <1>2, <1>3 DEF Next

\* Types, one transaction on the points at a time, on the active generation.
THEOREM LinkPointsInvariant == Spec => []LinkPointsInv
BY InitInv, NextInv, PTL DEF Spec

\* No step writes a point to a collection that is not, or no longer, that of
\* the active generation; those are only ever removed (writeGeneration).
LEMMA StepsStay ==
  LinkPointsInv /\ [Next]_vars =>
    [\A e \in Generations \ {embedding'} : points'[e] \in {points[e], NoPoints}]_vars
<1> SUFFICES ASSUME LinkPointsInv, Next, NEW e \in Generations \ {embedding'}
             PROVE  points'[e] \in {points[e], NoPoints}
  OBVIOUS
<1>1. CASE MaintainCollections
  BY <1>1 DEF MaintainCollections
<1>2. CASE \/ \E n \in Generations : Link(n) \/ Admit(n)
           \/ Wait \/ Unlink \/ StartGeneration
           \/ \E a \in Attempts : Vanish(a)
  BY <1>2 DEF Link, Admit, Wait, Unlink, StartGeneration, Vanish
<1>3. ASSUME NEW w \in Workers,
             Starts(w) \/ Goes(w) \/ RollBack(w) \/ FailTransient(w) \/ FailFinally(w) \/ Crash(w)
      PROVE  points'[e] = points[e]
  BY <1>3, WorkerStep DEF LinkPointsInv, OnActive
<1> QED
  BY <1>1, <1>2, <1>3 DEF Next

\* Point writes stay in the active generation, for any number of chunks,
\* workers, attempts and failures.
THEOREM WritesStay == Spec => WritesStayInGeneration
BY LinkPointsInvariant, StepsStay, PTL DEF Spec, WritesStayInGeneration
-----------------------------------------------------------------------------
(* What search relies on: points, row, jobs and the tasks of workers.      *)

Of(w) == worker[w].task.attempt
Kind(w) == worker[w].task.kind
Reconciles(w) == worker[w].phase \in {"reconcile", "reconciling"}
Indexing(w) == worker[w].phase # "idle" /\ Kind(w) = "index" /\ CurrentIndexing(Of(w))

\* Requests the transaction of a worker has still to send.
Elements(s) == {s[i] : i \in DOMAIN s}
Left(w) == Elements(worker[w].todo)

\* What the active collection has of an attempt.
Present(a) == \A k \in Chunks : points[embedding][a][k] # "none"
Absent(a) == \A k \in Chunks : points[embedding][a][k] = "none"
Unserved(a) == \A k \in Chunks : points[embedding][a][k] # "served"

\* A worker that has staged the attempt which is still to be completed.
Staged(w) == At(w, "complete") /\ worker[w].embedding = embedding /\ CurrentIndexing(Of(w))

\* The indexed attempt is searched in the active collection.
Found == link.indexed # 0 /\ link.home = embedding

\* An attempt is indexed once, in the generation its link asks for or a later one.
RowAgrees ==
  /\ Linked => link.attempt = sequence /\ link.indexed <= link.attempt
  /\ ~Linked => link = NoLink
  /\ Unfinished \/ link.status = "failed" => link.indexed < link.attempt
  /\ link.status = "completed" => link.indexed = link.attempt /\ link.embedding <= link.home
  /\ link.embedding <= embedding /\ link.home <= embedding

\* Of attempts and generations to come there is nothing yet.
ToCome ==
  /\ \A e \in Generations : e > embedding => points[e] = NoPoints
  /\ \A a \in Attempts : a > sequence => Absent(a) /\ job[a] = "none"
  /\ \A a \in cleanups : a <= sequence /\ (Linked => a < link.attempt)

\* What a task may be for.
TaskFits(w) ==
  worker[w].phase # "idle" =>
    /\ Of(w) <= sequence /\ worker[w].embedding <= embedding
    /\ Kind(w) = "clean" /\ Linked => Of(w) < link.attempt
    /\ ~Reconciles(w) => Kind(w) = "index"
    /\ Kind(w) \in {"exhaust", "sweep"} => ~CurrentIndexing(Of(w))

\* An attempt that is still current has a job, unless its link asks for a
\* generation that was replaced; then nothing was written since.
IndexingFits(w) ==
  Indexing(w) =>
    /\ link.embedding <= worker[w].embedding
    /\ worker[w].phase \in {"stage", "staging", "complete", "completing"} =>
         link.embedding = worker[w].embedding
    /\ Reconciles(w) /\ worker[w].ok => link.embedding # embedding
    /\ link.embedding = embedding => job[Of(w)] # "none"
    /\ worker[w].embedding < embedding => \A a \in Attempts : Absent(a)

\* What is staged is there, what is indexed is there, and nothing is of an
\* attempt for a generation that was replaced.
PointsAgree ==
  /\ \A w \in Workers : Staged(w) => Present(Of(w))
  /\ Found => Present(link.indexed)
  /\ link.indexed # 0 /\ link.home # embedding => Absent(link.indexed)
  /\ Unfinished /\ link.embedding # embedding => Absent(link.attempt)

\* A completed link has its attempt served and no other.
OnlyIndexedServed ==
  link.status = "completed" /\ Found =>
    Whole(link.indexed) /\ \A a \in Attempts \ {link.indexed} : Unserved(a)

\* The active collection has the indexed points and nothing else, or a job or a
\* clean-up is left.
Clean ==
  /\ Found => Whole(link.indexed)
  /\ \A a \in Attempts : ~(Found /\ a = link.indexed) => Absent(a)
DebtsKept == ~Unfinished => Clean \/ (\E a \in Attempts : job[a] # "none") \/ cleanups # {}

\* While points of an attempt are staged, nobody is behind on the generation.
StagingFits(w) ==
  At(w, "staging") =>
    /\ worker[w].todo # <<>> =>
         /\ job[Of(w)] # "none" /\ link.status # "completed" /\ link.indexed < Of(w)
         /\ \A v \in Workers : Indexing(v) => worker[v].embedding = embedding
    /\ \A r \in Left(w) : r.does # "delete" /\ (r.does = "write" => r.on = {Of(w)})
    /\ CurrentIndexing(Of(w)) => Do("write", {Of(w)}) \in Left(w) \/ Present(Of(w))

\* A completion has done what it has not still to do.
CompletionFits(w) ==
  At(w, "completing") =>
    /\ CurrentIndexing(Of(w)) /\ Present(Of(w))
    /\ Left(w) \subseteq {Do("serve", {Of(w)}), Do("hide", Below(Of(w))), Do("hide", Above(Of(w)))}
    /\ Do("serve", {Of(w)}) \in Left(w) \/ Whole(Of(w))
    /\ Do("hide", Below(Of(w))) \in Left(w) \/ \A a \in Below(Of(w)) : Unserved(a)
    /\ Do("hide", Above(Of(w))) \in Left(w) \/ \A a \in Above(Of(w)) : Unserved(a)

\* Other transactions serve nothing but the indexed attempt, and leave it alone.
KeepsIndexed(w) ==
  At(w, "staging") \/ At(w, "reconciling") =>
    \A r \in Left(w) : /\ r.does = "serve" => link.indexed = 0 \/ r.on = {link.indexed}
                       /\ r.does # "serve" => link.indexed \notin r.on

\* A reconcile deletes nothing that is staged.
KeepsStaged(w) ==
  At(w, "reconciling") =>
    \A r \in Left(w) :
      /\ r.does # "write"
      /\ r.does = "delete" => \A v \in Workers : Staged(v) => Of(v) \notin r.on

\* Some attempt is whole and stays so, or is there and served next.
Stands(w) ==
  \E a \in Attempts :
    /\ Present(a)
    /\ \A r \in Left(w) : a \in r.on => r.does = "serve"
    /\ Whole(a) \/ (worker[w].todo # <<>> /\ Head(worker[w].todo) = Do("serve", {a}))
OneStands(w) == In(w) /\ Found => Stands(w)

TransactionFits(w) ==
  StagingFits(w) /\ CompletionFits(w) /\ KeepsIndexed(w) /\ KeepsStaged(w) /\ OneStands(w)

\* A job or a clean-up is left that is not the worker's own to end.
Debt(w) ==
  \/ \E a \in Attempts :
       job[a] # "none" /\ ~(worker[w].ok /\ Kind(w) \in {"index", "exhaust"} /\ a = Of(w))
  \/ \E a \in cleanups : ~(worker[w].ok /\ Kind(w) = "clean" /\ a = Of(w))

\* Once what is left of a reconcile is done, nothing is there that should not be.
Covers(w) ==
  /\ Found => Do("serve", {link.indexed}) \in Left(w) \/ Whole(link.indexed)
  /\ \A a \in Attempts : a # link.indexed /\ ~CurrentIndexing(a) =>
       Absent(a) \/ \E r \in Left(w) : r.does = "delete" /\ a \in r.on
ReconcileCovers(w) ==
  /\ At(w, "reconciling") /\ ~Debt(w)
  /\ ~Unfinished \/ (Indexing(w) /\ worker[w].ok)
  => Covers(w)

WorkersAgree == \A w \in Workers : TaskFits(w) /\ IndexingFits(w)
TransactionsAgree == \A w \in Workers : TransactionFits(w) /\ ReconcileCovers(w)

SearchInv ==
  /\ LinkPointsInv /\ RowAgrees /\ ToCome /\ WorkersAgree /\ PointsAgree
  /\ IndexedStaysFound /\ OnlyIndexedServed /\ DebtsKept /\ TransactionsAgree

-----------------------------------------------------------------------------
(* Requests                                                                *)

\* The requests left after the first one.
LEMMA TailElements ==
  ASSUME NEW s \in Seq(Request), s # <<>>
  PROVE  /\ Tail(s) \in Seq(Request) /\ Head(s) \in Request
         /\ Head(s) \in Elements(s)
         /\ Elements(s) = {Head(s)} \cup Elements(Tail(s))
<1>1. /\ Head(s) \in Request /\ Tail(s) \in Seq(Request) /\ Len(Tail(s)) = Len(s) - 1
      /\ \A i \in 1 .. Len(Tail(s)) : Tail(s)[i] = s[i + 1]
  BY HeadTailProperties
<1>2. /\ Len(s) \in Nat /\ Len(s) >= 1 /\ Head(s) = s[1]
      /\ DOMAIN s = 1 .. Len(s) /\ DOMAIN Tail(s) = 1 .. Len(s) - 1
  BY <1>1, EmptySeq, LenProperties
<1>3. Head(s) \in Elements(s)
  BY <1>2 DEF Elements
<1>4. ASSUME NEW r \in Elements(s) PROVE r = Head(s) \/ r \in Elements(Tail(s))
  <2>1. PICK i \in 1 .. Len(s) : r = s[i]
    BY <1>2 DEF Elements
  <2>2. CASE i = 1
    BY <1>2, <2>1, <2>2
  <2>3. CASE i # 1
    <3>1. i - 1 \in 1 .. Len(s) - 1 /\ (i - 1) + 1 = i
      BY <1>2, <2>3
    <3>2. Tail(s)[i - 1] = s[i]
      BY <1>1, <3>1
    <3> QED
      BY <1>2, <2>1, <3>1, <3>2 DEF Elements
  <2> QED
    BY <2>2, <2>3
<1>5. ASSUME NEW r \in Elements(Tail(s)) PROVE r \in Elements(s)
  <2>1. PICK i \in 1 .. Len(s) - 1 : r = Tail(s)[i]
    BY <1>2 DEF Elements
  <2>2. i + 1 \in 1 .. Len(s) /\ r = s[i + 1]
    BY <1>1, <1>2, <2>1
  <2> QED
    BY <1>2, <2>2 DEF Elements
<1> QED
  BY <1>1, <1>3, <1>4, <1>5

\* Requests sent one after another.
LEMMA ConcatElements ==
  ASSUME NEW s \in Seq(Request), NEW t \in Seq(Request)
  PROVE  /\ s \o t \in Seq(Request) /\ Elements(s \o t) = Elements(s) \cup Elements(t)
         /\ s # <<>> => s \o t # <<>> /\ Head(s \o t) = Head(s)
<1>1. /\ s \o t \in Seq(Request) /\ Len(s \o t) = Len(s) + Len(t)
      /\ \A i \in 1 .. Len(s) + Len(t) :
           (s \o t)[i] = IF i <= Len(s) THEN s[i] ELSE t[i - Len(s)]
  BY ConcatProperties
<1>2. /\ Len(s) \in Nat /\ Len(t) \in Nat
      /\ DOMAIN s = 1 .. Len(s) /\ DOMAIN t = 1 .. Len(t)
      /\ DOMAIN (s \o t) = 1 .. Len(s) + Len(t)
  BY <1>1, LenProperties
<1>3. ASSUME NEW r \in Elements(s \o t) PROVE r \in Elements(s) \cup Elements(t)
  <2>1. PICK i \in 1 .. Len(s) + Len(t) : r = (s \o t)[i]
    BY <1>2 DEF Elements
  <2>2. CASE i <= Len(s)
    BY <1>1, <1>2, <2>1, <2>2 DEF Elements
  <2>3. CASE ~(i <= Len(s))
    <3>1. i - Len(s) \in 1 .. Len(t) /\ r = t[i - Len(s)]
      BY <1>1, <1>2, <2>1, <2>3
    <3> QED
      BY <1>2, <3>1 DEF Elements
  <2> QED
    BY <2>2, <2>3
<1>4. ASSUME NEW r \in Elements(s) PROVE r \in Elements(s \o t)
  <2>1. PICK i \in 1 .. Len(s) : r = s[i]
    BY <1>2 DEF Elements
  <2>2. i \in 1 .. Len(s) + Len(t) /\ r = (s \o t)[i]
    BY <1>1, <1>2, <2>1
  <2> QED
    BY <1>2, <2>2 DEF Elements
<1>5. ASSUME NEW r \in Elements(t) PROVE r \in Elements(s \o t)
  <2>1. PICK i \in 1 .. Len(t) : r = t[i]
    BY <1>2 DEF Elements
  <2>2. Len(s) + i \in 1 .. Len(s) + Len(t) /\ ~(Len(s) + i <= Len(s)) /\ (Len(s) + i) - Len(s) = i
    BY <1>2
  <2>3. r = (s \o t)[Len(s) + i]
    BY <1>1, <2>1, <2>2
  <2> QED
    BY <1>2, <2>2, <2>3 DEF Elements
<1>6. ASSUME s # <<>> PROVE s \o t # <<>> /\ Head(s \o t) = Head(s)
  <2>1. Len(s) >= 1 /\ Head(s) = s[1]
    BY <1>2, <1>6, EmptySeq
  <2>2. s \o t # <<>> /\ Head(s \o t) = (s \o t)[1]
    BY <1>1, <1>2, <2>1, EmptySeq
  <2> QED
    BY <1>1, <1>2, <2>1, <2>2
<1> QED
  BY <1>1, <1>3, <1>4, <1>5, <1>6

\* One or two requests.
LEMMA FewElements ==
  ASSUME NEW r \in Request, NEW q \in Request
  PROVE  /\ <<r>> \in Seq(Request) /\ Elements(<<r>>) = {r} /\ <<r>> # <<>> /\ Head(<<r>>) = r
         /\ <<r, q>> \in Seq(Request) /\ Elements(<<r, q>>) = {r, q}
         /\ <<r, q>> # <<>> /\ Head(<<r, q>>) = r
BY DEF Elements

\* The requests that serve an attempt, or none: what it is not comes after.
LEMMA ServeElements ==
  ASSUME NEW n \in 0 .. MaxAttempt
  PROVE  /\ Serve(n) \in Seq(Request) /\ Serve(n) # <<>>
         /\ n = 0 => Elements(Serve(n)) = {Do("hide", Above(n))}
         /\ n # 0 => /\ Elements(Serve(n)) =
                          {Do("serve", {n}), Do("hide", Below(n)), Do("hide", Above(n))}
                     /\ Head(Serve(n)) = Do("serve", {n})
<1>1. \A does \in {"serve", "hide", "delete", "write"}, on \in SUBSET Attempts :
        Do(does, on) \in Request
  BY DEF Do, Request
<1>2. Below(n) \in SUBSET Attempts /\ Above(n) \in SUBSET Attempts
  BY DEF Below, Above
<1> DEFINE last == <<Do("hide", Above(n))>>
<1>3. /\ last \in Seq(Request) /\ Elements(last) = {Do("hide", Above(n))} /\ last # <<>>
      /\ Head(last) = Do("hide", Above(n))
  BY <1>1, <1>2, FewElements
<1>4. CASE n = 0
  <2>1. Serve(n) = last
    <3> HIDE DEF last
    <3>1. Serve(n) = <<>> \o last
      BY <1>4 DEF Serve, last
    <3>2. <<>> \o last = last
      BY <1>3, ConcatEmptySeq
    <3> QED
      BY <3>1, <3>2
  <2> QED
    BY <1>3, <1>4, <2>1
<1>5. CASE n # 0
  <2> DEFINE first == <<Do("serve", {n}), Do("hide", Below(n))>>
  <2>1. n \in Attempts
    BY <1>5, LinkPointsAssumption DEF Attempts
  <2>2. /\ first \in Seq(Request) /\ Elements(first) = {Do("serve", {n}), Do("hide", Below(n))}
        /\ first # <<>> /\ Head(first) = Do("serve", {n})
    BY <1>1, <1>2, <2>1, FewElements
  <2>3. Serve(n) = first \o last
    BY <1>5 DEF Serve
  <2> HIDE DEF first, last
  <2>4. /\ first \o last \in Seq(Request) /\ first \o last # <<>>
        /\ Elements(first \o last) = Elements(first) \cup Elements(last)
        /\ Head(first \o last) = Head(first)
    BY <1>3, <2>2, ConcatElements
  <2> QED
    BY <1>3, <1>5, <2>2, <2>3, <2>4
<1> QED
  BY <1>4, <1>5

\* The requests of a staging.
LEMMA WritesElements ==
  ASSUME TypeOK, NEW a \in Attempts
  PROVE  /\ Writes(a) \in Seq(Request) /\ Writes(a) # <<>>
         /\ Elements(Writes(a)) = Elements(Serve(link.indexed)) \cup {Do("write", {a})}
         /\ link.indexed # 0 => Head(Writes(a)) = Do("serve", {link.indexed})
<1>1. link.indexed \in 0 .. MaxAttempt
  BY DEF TypeOK, LinkType
<1>2. Do("write", {a}) \in Request
  BY DEF Do, Request
<1>3. <<Do("write", {a})>> \in Seq(Request) /\ Elements(<<Do("write", {a})>>) = {Do("write", {a})}
  BY <1>2, FewElements
<1>4. /\ Serve(link.indexed) \in Seq(Request) /\ Serve(link.indexed) # <<>>
      /\ link.indexed # 0 => Head(Serve(link.indexed)) = Do("serve", {link.indexed})
  BY <1>1, ServeElements
<1> QED
  BY <1>3, <1>4, ConcatElements DEF Writes

\* The requests of a reconcile.
LEMMA ReconciledElements ==
  ASSUME TypeOK
  PROVE  /\ Reconciled \in Seq(Request) /\ Reconciled # <<>>
         /\ ~Linked => Elements(Reconciled) = {Do("delete", Attempts)}
         /\ Linked =>
              /\ Elements(Reconciled) = Elements(Serve(link.indexed))
                   \cup {Do("delete", Below(link.indexed)), Do("delete", Replaced)}
              /\ link.indexed # 0 => Head(Reconciled) = Do("serve", {link.indexed})
<1>1. link.indexed \in 0 .. MaxAttempt
  BY DEF TypeOK, LinkType
<1> DEFINE below == Do("delete", Below(link.indexed))
           replaced == Do("delete", Replaced)
           all == Do("delete", Attempts)
<1>2. below \in Request /\ replaced \in Request /\ all \in Request
  BY DEF Do, Request, Below, Replaced
<1>3. /\ <<below, replaced>> \in Seq(Request) /\ Elements(<<below, replaced>>) = {below, replaced}
      /\ <<all>> \in Seq(Request) /\ <<all>> # <<>> /\ Elements(<<all>>) = {all}
  BY <1>2, FewElements
<1>4. /\ Serve(link.indexed) \in Seq(Request) /\ Serve(link.indexed) # <<>>
      /\ link.indexed # 0 => Head(Serve(link.indexed)) = Do("serve", {link.indexed})
  BY <1>1, ServeElements
<1> QED
  BY <1>3, <1>4, ConcatElements DEF Reconciled

\* What some effect of a request, and what all of it, does to an attempt's points.
AttemptKept(a) ==
  /\ Present(a)' <=> Present(a)
  /\ Absent(a)' <=> Absent(a)
  /\ Whole(a)' <=> Whole(a)
  /\ Unserved(a)' <=> Unserved(a)
PointsKept == \A a \in Attempts : AttemptKept(a)
RequestMoves(r) ==
  \A a \in Attempts :
    /\ a \notin r.on => AttemptKept(a)
    /\ r.does \in {"serve", "hide"} => (Present(a)' <=> Present(a)) /\ (Absent(a)' <=> Absent(a))
    /\ r.does = "serve" => (Whole(a) => Whole(a)')
    /\ r.does = "write" => (Present(a) => Present(a)')
    /\ r.does = "delete" => (Absent(a) => Absent(a)')
    /\ r.does # "serve" => (Unserved(a) => Unserved(a)')
RequestDone(r) ==
  \A a \in Attempts : a \in r.on =>
    /\ r.does = "serve" => (Present(a) => Whole(a)')
    /\ r.does = "hide" => Unserved(a)'
    /\ r.does = "delete" => Absent(a)'
    /\ r.does = "write" => Present(a)'

\* Points that stay as they are are kept, in whatever sense a task needs them kept.
LEMMA KeptPoints ==
  ASSUME points'[embedding'] = points[embedding]
  PROVE  PointsKept
BY DEF PointsKept, AttemptKept, Present, Absent, Whole, Unserved

\* A request takes effect on some chunks of the active collection, or on all.
LEMMA EffectOnPoints ==
  ASSUME TypeOK, NEW r \in Request, NEW some \in SUBSET Chunks, embedding' = embedding,
         points' = [points EXCEPT ![embedding] = Affected(r, @, some)]
  PROVE  RequestMoves(r) /\ (some = Chunks => RequestDone(r))
<1>1. /\ points \in [Generations -> [Attempts -> [Chunks -> PointStates]]]
      /\ embedding \in Generations
  BY DEF TypeOK
<1>2. ASSUME NEW a \in Attempts, NEW k \in Chunks, NEW p, p = points[embedding][a][k]
      PROVE  points'[embedding'][a][k] =
               IF a \notin r.on \/ k \notin some THEN p
               ELSE CASE r.does = "serve" /\ p # "none" -> "served"
                      [] r.does = "hide" /\ p # "none" -> "hidden"
                      [] r.does = "delete" -> "none"
                      [] r.does = "write" -> "hidden"
                      [] OTHER -> p
  BY <1>1, <1>2 DEF Affected
<1>3. ASSUME NEW a \in Attempts, NEW k \in Chunks, NEW p, p = points[embedding][a][k],
             NEW q, q = points'[embedding'][a][k]
      PROVE  /\ a \notin r.on => q = p
             /\ r.does \in {"serve", "hide"} => (q = "none" <=> p = "none")
             /\ r.does = "serve" => (p = "served" => q = "served")
             /\ r.does = "write" => (p # "none" => q # "none")
             /\ r.does = "delete" => (p = "none" => q = "none")
             /\ r.does # "serve" => (p # "served" => q # "served")
             /\ some = Chunks /\ a \in r.on =>
                  /\ r.does = "serve" => (p # "none" => q = "served")
                  /\ r.does = "hide" => q # "served"
                  /\ r.does = "delete" => q = "none"
                  /\ r.does = "write" => q # "none"
  <2>1. q = IF a \notin r.on \/ k \notin some THEN p
            ELSE CASE r.does = "serve" /\ p # "none" -> "served"
                   [] r.does = "hide" /\ p # "none" -> "hidden"
                   [] r.does = "delete" -> "none"
                   [] r.does = "write" -> "hidden"
                   [] OTHER -> p
    BY <1>2, <1>3
  <2>2. CASE a \notin r.on \/ k \notin some
    BY <2>1, <2>2
  <2>3. CASE ~(a \notin r.on \/ k \notin some)
    <3>1. r.does \in {"serve", "hide", "delete", "write"}
      BY DEF Request
    <3> QED
      BY <2>1, <2>3, <3>1
  <2> QED
    BY <2>2, <2>3
<1>4. RequestMoves(r)
  BY <1>3 DEF RequestMoves, AttemptKept, Present, Absent, Whole, Unserved
<1>5. some = Chunks => RequestDone(r)
  BY <1>3 DEF RequestDone, Present, Absent, Whole, Unserved
<1> QED
  BY <1>4, <1>5

-----------------------------------------------------------------------------
(* What a step leaves alone                                                *)

\* The numbers of a row and of the tasks.
LEMMA Numbers ==
  ASSUME TypeOK
  PROVE  /\ link \in LinkType /\ sequence \in Nat /\ embedding \in Nat /\ embedding \in Generations
         /\ link.attempt \in 0 .. MaxAttempt /\ link.indexed \in 0 .. MaxAttempt
         /\ link.embedding \in Nat /\ link.home \in Nat
         /\ Attempts \subseteq Nat /\ 0 \notin Attempts
         /\ \A a \in 0 .. MaxAttempt : a \in Nat /\ (a # 0 => a \in Attempts)
         /\ job \in [Attempts -> {"none", "queued", "dead", "lost"}] /\ cleanups \subseteq Attempts
         /\ \A w \in Workers : worker[w].phase # "idle" =>
              /\ worker[w] \in Busy /\ Of(w) \in Attempts /\ worker[w].embedding \in Nat
              /\ Kind(w) \in {"index", "exhaust", "sweep", "clean"} /\ worker[w].ok \in BOOLEAN
              /\ worker[w].todo \in Seq(Request)
<1>1. \A w \in Workers : worker[w].phase # "idle" => worker[w] \in Busy
  BY AtWork
<1>2. \A w \in Workers : worker[w].phase # "idle" =>
        /\ worker[w] \in Busy /\ Of(w) \in Attempts /\ worker[w].embedding \in Nat
        /\ Kind(w) \in {"index", "exhaust", "sweep", "clean"} /\ worker[w].ok \in BOOLEAN
        /\ worker[w].todo \in Seq(Request)
  BY <1>1, LinkPointsAssumption DEF Busy, Tasks, Of, Kind
<1>3. /\ link \in LinkType /\ sequence \in Nat /\ embedding \in Nat /\ embedding \in Generations
      /\ link.attempt \in 0 .. MaxAttempt /\ link.indexed \in 0 .. MaxAttempt
      /\ link.embedding \in Nat /\ link.home \in Nat
      /\ Attempts \subseteq Nat /\ 0 \notin Attempts
      /\ \A a \in 0 .. MaxAttempt : a \in Nat /\ (a # 0 => a \in Attempts)
  BY LinkPointsAssumption DEF TypeOK, LinkType, Generations, Attempts
<1> QED
  BY <1>2, <1>3 DEF TypeOK

\* Requests left are on attempts.
LEMMA LeftType ==
  ASSUME TypeOK, NEW w \in Workers, worker[w].phase # "idle"
  PROVE  \A r \in Left(w) : r \in Request /\ r.on \subseteq Attempts
<1>1. worker[w].todo \in Seq(Request)
  BY Numbers
<1>2. ASSUME NEW r \in Left(w) PROVE r \in Request
  <2>1. PICK i \in DOMAIN worker[w].todo : r = worker[w].todo[i]
    BY DEF Left, Elements
  <2> QED
    BY <1>1, <2>1, LenProperties
<1> QED
  BY <1>2 DEF Request

\* What any step may do to the row: an attempt is taken up when it is drawn.
RowMoves ==
  /\ sequence' \in {sequence, sequence + 1}
  /\ Linked' => (Linked /\ link'.attempt = link.attempt) \/ link'.attempt = sequence + 1
  /\ Unfinished' => \/ /\ Unfinished /\ link'.attempt = link.attempt
                       /\ link'.embedding = link.embedding
                    \/ link'.attempt = sequence + 1

\* What a step does to it that completes no link.
RowCalm ==
  /\ RowMoves
  /\ link'.indexed # 0 => link'.indexed = link.indexed /\ link'.home = link.home
  /\ link'.status = "completed" => link' = link

\* What a step does that leaves the row, but for a claim of its attempt.
RowSame ==
  /\ sequence' = sequence
  /\ link'.attempt = link.attempt /\ link'.embedding = link.embedding
  /\ link'.indexed = link.indexed /\ link'.home = link.home
  /\ Linked' <=> Linked
  /\ Unfinished' <=> Unfinished
  /\ link'.status = "completed" => link' = link

JobsKept == \A a \in Attempts : job[a] # "none" => job'[a] # "none"

\* A worker other than those that take the step sees no new staging or indexing
\* but on the active generation.
NothingNew ==
  \A u \in Workers :
    /\ Indexing(u)' => \/ Indexing(u) /\ worker'[u].embedding = worker[u].embedding
                       \/ worker'[u].embedding = embedding
    /\ Staged(u)' => Staged(u) /\ Of(u)' = Of(u)

\* A row that is the same has not moved.
LEMMA SameIsCalm ==
  ASSUME RowSame
  PROVE  RowCalm
BY DEF RowSame, RowCalm, RowMoves

\* An attempt that was drawn is not taken up again.
LEMMA NotRegained ==
  ASSUME TypeOK, RowMoves, NEW a \in Attempts, a <= sequence, CurrentIndexing(a)'
  PROVE  CurrentIndexing(a) /\ link'.embedding = link.embedding
<1>1. link'.attempt = a /\ a # sequence + 1
  BY Numbers DEF CurrentIndexing
<1> QED
  BY <1>1 DEF RowMoves, CurrentIndexing

\* A task that is not concerned keeps fitting.
LEMMA WorkerKept ==
  ASSUME SearchInv, NEW v \in Workers, worker'[v] = worker[v], embedding' = embedding,
         RowMoves,
         Indexing(v) /\ worker[v].embedding < embedding =>
           \A a \in Attempts : Absent(a) => Absent(a)',
         \A a \in Attempts : job[a] # "none" /\ job'[a] = "none" =>
           ~(CurrentIndexing(a) /\ link.embedding = embedding)
  PROVE  TaskFits(v)' /\ IndexingFits(v)'
<1> USE DEF SearchInv, LinkPointsInv
<1>1. CASE worker[v].phase = "idle"
  BY <1>1 DEF TaskFits, IndexingFits, Indexing
<1>2. CASE worker[v].phase # "idle"
  <2>1. /\ Of(v)' = Of(v) /\ Kind(v)' = Kind(v) /\ (Reconciles(v)' <=> Reconciles(v))
        /\ Of(v) \in Attempts /\ Of(v) <= sequence /\ sequence \in Nat /\ Of(v) \in Nat
        /\ TaskFits(v) /\ IndexingFits(v)
    BY <1>2, Numbers DEF Of, Kind, Reconciles, WorkersAgree, TaskFits
  <2>2. CurrentIndexing(Of(v))' => CurrentIndexing(Of(v)) /\ link'.embedding = link.embedding
    <3>1. \A a \in Attempts : a <= sequence /\ CurrentIndexing(a)' =>
            CurrentIndexing(a) /\ link'.embedding = link.embedding
      BY NotRegained
    <3>2. CurrentIndexing(Of(v))' <=> link'.attempt = Of(v) /\ Unfinished'
      BY <2>1 DEF CurrentIndexing
    <3> QED
      BY <2>1, <3>1, <3>2 DEF CurrentIndexing
  <2>3. Linked' /\ Kind(v) = "clean" => Of(v) < link'.attempt
    BY <1>2, <2>1 DEF RowMoves, TaskFits
  <2>4. sequence <= sequence'
    BY <2>1 DEF RowMoves
  <2>5. TaskFits(v)'
    BY <1>2, <2>1, <2>2, <2>3, <2>4 DEF TaskFits, RowMoves
  <2>6. Indexing(v)' => Indexing(v) /\ link'.embedding = link.embedding
    BY <1>2, <2>1, <2>2 DEF Indexing
  <2>7. IndexingFits(v)'
    <3> SUFFICES ASSUME Indexing(v)'
                 PROVE  /\ link'.embedding <= worker'[v].embedding
                        /\ worker'[v].phase \in {"stage", "staging", "complete", "completing"} =>
                             link'.embedding = worker'[v].embedding
                        /\ Reconciles(v)' /\ worker'[v].ok => link'.embedding # embedding'
                        /\ link'.embedding = embedding' => job'[Of(v)'] # "none"
                        /\ worker'[v].embedding < embedding' => \A a \in Attempts : Absent(a)'
      BY DEF IndexingFits
    <3>1. /\ Indexing(v) /\ link'.embedding = link.embedding
          /\ CurrentIndexing(Of(v))
      BY <2>6 DEF Indexing
    <3>2. /\ link.embedding <= worker[v].embedding
          /\ worker[v].phase \in {"stage", "staging", "complete", "completing"} =>
               link.embedding = worker[v].embedding
          /\ Reconciles(v) /\ worker[v].ok => link.embedding # embedding
          /\ link.embedding = embedding => job[Of(v)] # "none"
          /\ worker[v].embedding < embedding => \A a \in Attempts : Absent(a)
      BY <2>1, <3>1 DEF IndexingFits
    <3>3. link.embedding = embedding => job'[Of(v)] # "none"
      BY <2>1, <3>1, <3>2
    <3>4. worker[v].embedding < embedding => \A a \in Attempts : Absent(a) => Absent(a)'
      BY <3>1
    <3> QED
      BY <2>1, <3>1, <3>2, <3>3, <3>4
  <2> QED
    BY <2>5, <2>7
<1> QED
  BY <1>1, <1>2

\* So does a transaction.
LEMMA TransactionKept ==
  ASSUME SearchInv, NEW v \in Workers, worker'[v] = worker[v], embedding' = embedding,
         PointsKept, RowCalm, JobsKept, NothingNew,
         At(v, "completing") => link' = link
  PROVE  TransactionFits(v)'
<1> USE DEF SearchInv, LinkPointsInv
<1>1. CASE ~In(v)
  BY <1>1 DEF TransactionFits, StagingFits, CompletionFits, KeepsIndexed, KeepsStaged, OneStands,
              In, At, Transactions
<1>2. CASE In(v)
  <2>1. worker[v].phase # "idle"
    BY <1>2 DEF In, Transactions
  <2>2. /\ Of(v)' = Of(v) /\ Left(v)' = Left(v) /\ worker'[v].todo = worker[v].todo
        /\ Of(v) \in Attempts /\ Of(v) <= sequence
        /\ \A phase : At(v, phase)' <=> At(v, phase)
        /\ TransactionFits(v)
    BY <2>1, Numbers DEF Of, Left, At, WorkersAgree, TaskFits, TransactionsAgree
  <2>3. CurrentIndexing(Of(v))' => CurrentIndexing(Of(v))
    <3>1. \A a \in Attempts : a <= sequence /\ CurrentIndexing(a)' => CurrentIndexing(a)
      BY NotRegained DEF RowCalm
    <3>2. CurrentIndexing(Of(v))' <=> link'.attempt = Of(v) /\ Unfinished'
      BY <2>2 DEF CurrentIndexing
    <3> QED
      BY <2>2, <3>1, <3>2 DEF CurrentIndexing
  <2>4. \A a \in Attempts : AttemptKept(a)
    BY DEF PointsKept
  <2>5. StagingFits(v)'
    <3> SUFFICES ASSUME At(v, "staging")
                 PROVE  /\ worker[v].todo # <<>> =>
                             /\ job'[Of(v)] # "none" /\ link'.status # "completed"
                             /\ link'.indexed < Of(v)
                             /\ \A u \in Workers : Indexing(u)' => worker'[u].embedding = embedding
                        /\ \A r \in Left(v) : r.does # "delete" /\ (r.does = "write" => r.on = {Of(v)})
                        /\ CurrentIndexing(Of(v))' =>
                             Do("write", {Of(v)}) \in Left(v) \/ Present(Of(v))'
      BY <2>2 DEF StagingFits
    <3>1. /\ worker[v].todo # <<>> =>
               /\ job[Of(v)] # "none" /\ link.status # "completed" /\ link.indexed < Of(v)
               /\ \A u \in Workers : Indexing(u) => worker[u].embedding = embedding
          /\ \A r \in Left(v) : r.does # "delete" /\ (r.does = "write" => r.on = {Of(v)})
          /\ CurrentIndexing(Of(v)) => Do("write", {Of(v)}) \in Left(v) \/ Present(Of(v))
      BY <2>2 DEF TransactionFits, StagingFits
    <3>2. link'.indexed = 0 \/ link'.indexed = link.indexed
      BY DEF RowCalm
    <3>3. worker[v].todo # <<>> => link'.status # "completed" /\ link'.indexed < Of(v)
      BY <2>2, <3>1, <3>2, Numbers DEF RowCalm
    <3>4. worker[v].todo # <<>> => \A u \in Workers : Indexing(u)' => worker'[u].embedding = embedding
      BY <3>1 DEF NothingNew
    <3> QED
      BY <2>2, <2>3, <2>4, <3>1, <3>3, <3>4 DEF JobsKept, AttemptKept
  <2>6. CompletionFits(v)'
    <3> SUFFICES ASSUME At(v, "completing") PROVE CompletionFits(v)'
      BY <2>2 DEF CompletionFits
    <3>1. CurrentIndexing(Of(v))' <=> CurrentIndexing(Of(v))
      BY <2>2 DEF CurrentIndexing, Unfinished
    <3>2. \A a \in Attempts : (Unserved(a)' <=> Unserved(a)) /\ (Whole(a)' <=> Whole(a))
                              /\ (Present(a)' <=> Present(a))
      BY <2>4 DEF AttemptKept
    <3>3. Below(Of(v)) \subseteq Attempts /\ Above(Of(v)) \subseteq Attempts
      BY DEF Below, Above
    <3>4. CompletionFits(v)
      BY <2>2 DEF TransactionFits
    <3>5. /\ Whole(Of(v))' <=> Whole(Of(v))
          /\ Present(Of(v))' <=> Present(Of(v))
      BY <2>2, <3>2 DEF Whole, Present
    <3>6. /\ (\A a \in Below(Of(v)) : Unserved(a)') <=> (\A a \in Below(Of(v)) : Unserved(a))
          /\ (\A a \in Above(Of(v)) : Unserved(a)') <=> (\A a \in Above(Of(v)) : Unserved(a))
      BY <3>2, <3>3
    <3> QED
      BY <2>2, <3>1, <3>4, <3>5, <3>6 DEF CompletionFits
  <2>7. KeepsIndexed(v)'
    <3>1. link'.indexed = 0 \/ link'.indexed = link.indexed
      BY DEF RowCalm
    <3>2. \A r \in Left(v) : r.on \subseteq Attempts
      BY <2>1, LeftType
    <3>3. KeepsIndexed(v) /\ 0 \notin Attempts
      BY <2>2, Numbers DEF TransactionFits
    <3> QED
      BY <2>2, <3>1, <3>2, <3>3 DEF KeepsIndexed
  <2>8. KeepsStaged(v)'
    BY <2>2 DEF KeepsStaged, TransactionFits, NothingNew
  <2>9. OneStands(v)'
    <3> SUFFICES ASSUME Found' PROVE Stands(v)'
      BY DEF OneStands
    <3>1. Found
      BY DEF Found, RowCalm
    <3>2. PICK a \in Attempts :
            /\ Present(a)
            /\ \A r \in Left(v) : a \in r.on => r.does = "serve"
            /\ Whole(a) \/ (worker[v].todo # <<>> /\ Head(worker[v].todo) = Do("serve", {a}))
      BY <1>2, <2>2, <3>1 DEF TransactionFits, OneStands, Stands
    <3>3. Present(a)' /\ (Whole(a) => Whole(a)')
      BY <2>4, <3>2 DEF AttemptKept
    <3> QED
      BY <2>2, <3>2, <3>3 DEF Stands
  <2> QED
    BY <2>5, <2>6, <2>7, <2>8, <2>9 DEF TransactionFits
<1> QED
  BY <1>1, <1>2

\* What is there and what is served are kept with the points and the row.
LEMMA ContextKept ==
  ASSUME SearchInv, LinkPointsInv', RowCalm, PointsKept, NothingNew, embedding' = embedding
  PROVE  /\ PointsAgree' /\ IndexedStaysFound' /\ OnlyIndexedServed'
         /\ \A a \in Attempts : a > sequence' => Absent(a)'
<1> USE DEF SearchInv, LinkPointsInv
<1>1. \A a \in Attempts : AttemptKept(a)
  BY DEF PointsKept
<1>2. Found' => Found /\ link'.indexed = link.indexed /\ link.indexed \in Attempts
  BY Numbers DEF Found, RowCalm
<1>3. ASSUME NEW u \in Workers, Staged(u)' PROVE Present(Of(u))'
  <2>1. Staged(u) /\ Of(u)' = Of(u) /\ worker[u].phase # "idle"
    BY <1>3 DEF NothingNew, Staged, At
  <2>2. Of(u) \in Attempts /\ Present(Of(u))
    BY <2>1, Numbers DEF PointsAgree
  <2>3. \A a \in Attempts : a = Of(u) => Present(a)'
    BY <1>1, <2>2 DEF AttemptKept
  <2> QED
    BY <2>1, <2>2, <2>3 DEF Present
<1>4. Found' => Present(link.indexed)'
  BY <1>1, <1>2 DEF PointsAgree, AttemptKept
<1>5. link'.indexed # 0 /\ link'.home # embedding' =>
        link'.indexed = link.indexed /\ Absent(link.indexed)'
  BY <1>1, Numbers DEF PointsAgree, AttemptKept, RowCalm
<1>6. ASSUME NEW a \in Attempts, a > sequence PROVE Absent(a)'
  BY <1>1, <1>6 DEF ToCome, AttemptKept
<1>7. ASSUME Unfinished', link'.embedding # embedding'
      PROVE  Absent(link.attempt)'
  <2>1. link'.attempt \in Attempts
    BY <1>7, LinkPointsAssumption
       DEF LinkPointsInv, TypeOK, LinkType, Numbered, Unfinished, Linked, Attempts
  <2> SUFFICES ASSUME NEW a \in Attempts, a = link'.attempt PROVE Absent(a)'
    BY <2>1 DEF Absent
  <2>2. CASE link'.attempt = sequence + 1
    <3>1. a > sequence
      BY <2>2, Numbers
    <3> QED
      BY <1>6, <3>1
  <2>3. CASE Unfinished /\ link'.attempt = link.attempt /\ link'.embedding = link.embedding
    <3>1. Absent(a)
      BY <1>7, <2>3 DEF PointsAgree
    <3> QED
      BY <1>1, <3>1 DEF AttemptKept
  <2> QED
    BY <1>7, <2>2, <2>3 DEF RowCalm, RowMoves
<1>8. \A a \in Attempts : a > sequence' => Absent(a)'
  BY <1>6, Numbers DEF RowCalm, RowMoves
<1>9. PointsAgree'
  <2>1. Unfinished' /\ link'.embedding # embedding' => Absent(link.attempt)'
    BY <1>7
  <2>2. \A u \in Workers : Staged(u)' => Present(Of(u))'
    BY <1>3
  <2>3. Found' => Present(link.indexed)'
    BY <1>4
  <2> QED
    BY <1>5, <2>1, <2>2, <2>3 DEF PointsAgree, Absent
<1>10. IndexedStaysFound' /\ OnlyIndexedServed'
  BY <1>1, <1>2 DEF IndexedStaysFound, OnlyIndexedServed, Found, AttemptKept, RowCalm
<1> QED
  BY <1>8, <1>9, <1>10

\* A reconcile covers what it covered where row, points and jobs are kept.
LEMMA CoversKept ==
  ASSUME SearchInv, NEW v \in Workers, worker'[v] = worker[v], embedding' = embedding,
         PointsKept, RowSame, JobsKept, cleanups \subseteq cleanups'
  PROVE  ReconcileCovers(v)'
<1> USE DEF SearchInv, LinkPointsInv
<1>1. /\ Of(v)' = Of(v) /\ Kind(v)' = Kind(v) /\ Left(v)' = Left(v)
      /\ At(v, "reconciling")' <=> At(v, "reconciling")
      /\ \A a : CurrentIndexing(a)' <=> CurrentIndexing(a)
      /\ Found' <=> Found
  BY DEF Of, Kind, Left, At, CurrentIndexing, RowSame, Found
<1>2. Debt(v) => Debt(v)'
  BY <1>1 DEF Debt, JobsKept
<1>3. Indexing(v)' <=> Indexing(v)
  BY <1>1 DEF Indexing, RowSame, CurrentIndexing
<1>4. Covers(v) => Covers(v)'
  <2>1. link'.indexed = link.indexed
    BY DEF RowSame
  <2>2. Found => link.indexed \in Attempts
    BY Numbers DEF Found
  <2>3. \A a \in Attempts : (Absent(a) => Absent(a)') /\ (Whole(a) => Whole(a)')
    BY DEF PointsKept, AttemptKept
  <2>4. ASSUME Covers(v), NEW a \in Attempts, a # link'.indexed, ~CurrentIndexing(a)'
        PROVE  Absent(a)' \/ \E r \in Left(v) : r.does = "delete" /\ a \in r.on
    BY <1>1, <2>1, <2>3, <2>4 DEF Covers
  <2>5. ASSUME Covers(v), Found
        PROVE  Do("serve", {link.indexed}) \in Left(v) \/ Whole(link.indexed)'
    <3>1. Do("serve", {link.indexed}) \in Left(v) \/ Whole(link.indexed)
      BY <2>5 DEF Covers
    <3>2. Whole(link.indexed) => Whole(link.indexed)'
      BY <2>1, <2>2, <2>3, <2>5
    <3> QED
      BY <3>1, <3>2
  <2> QED
    BY <1>1, <2>1, <2>4, <2>5 DEF Covers, Do, CurrentIndexing
<1> QED
  BY <1>1, <1>2, <1>3, <1>4 DEF ReconcileCovers, TransactionsAgree, RowSame

\* What is left over is still left to somebody.
LEMMA DebtsStay ==
  ASSUME SearchInv, RowSame, PointsKept, JobsKept, cleanups \subseteq cleanups',
         embedding' = embedding
  PROVE  DebtsKept'
<1>1. \A a \in Attempts : (Absent(a) => Absent(a)') /\ (Whole(a) => Whole(a)')
  BY DEF PointsKept, AttemptKept
<1>2. /\ link'.indexed = link.indexed /\ (Found' <=> Found)
      /\ Found => link.indexed \in Attempts
  BY Numbers DEF RowSame, Found, SearchInv, LinkPointsInv
<1>3. Clean => Clean'
  <2>1. ASSUME Clean, Found PROVE Whole(link.indexed)'
    BY <1>1, <1>2, <2>1 DEF Clean, Whole
  <2> QED
    BY <1>1, <1>2, <2>1 DEF Clean
<1> QED
  BY <1>3 DEF DebtsKept, SearchInv, RowSame, JobsKept

\* A step that leaves row, points and jobs, and gives some workers tasks and
\* transactions that fit, keeps the invariant.
LEMMA CalmStep ==
  ASSUME SearchInv, LinkPointsInv', RowAgrees', ToCome', embedding' = embedding,
         RowSame, PointsKept, JobsKept, cleanups \subseteq cleanups', NothingNew,
         \A v \in Workers : \/ worker'[v] = worker[v] /\ (At(v, "completing") => link' = link)
                            \/ /\ TaskFits(v)' /\ IndexingFits(v)'
                               /\ TransactionFits(v)' /\ ReconcileCovers(v)'
  PROVE  SearchInv'
<1>1. RowCalm /\ RowMoves
  BY SameIsCalm DEF RowCalm
<1>2. PointsAgree' /\ IndexedStaysFound' /\ OnlyIndexedServed'
  BY <1>1, ContextKept
<1>3. DebtsKept'
  BY DebtsStay
<1>4. ASSUME NEW v \in Workers
      PROVE  /\ TaskFits(v)' /\ IndexingFits(v)'
             /\ TransactionFits(v)' /\ ReconcileCovers(v)'
  <2>1. CASE worker'[v] = worker[v] /\ (At(v, "completing") => link' = link)
    <3>1. \A a \in Attempts : Absent(a) => Absent(a)'
      BY DEF PointsKept, AttemptKept
    <3>2. TaskFits(v)' /\ IndexingFits(v)'
      BY <1>1, <2>1, <3>1, WorkerKept DEF JobsKept
    <3>3. TransactionFits(v)'
      BY <1>1, <2>1, TransactionKept
    <3>4. ReconcileCovers(v)'
      BY <2>1, CoversKept
    <3> QED
      BY <3>2, <3>3, <3>4
  <2> QED
    BY <2>1
<1> QED
  BY <1>2, <1>3, <1>4 DEF SearchInv, WorkersAgree, TransactionsAgree

-----------------------------------------------------------------------------
(* What a step does to its worker                                          *)

\* A worker goes on to another phase.
LEMMA PhaseMoves ==
  ASSUME TypeOK, NEW w \in Workers, worker[w].phase # "idle", NEW phase, Phase(w, phase)
  PROVE  /\ \A v \in Workers : v # w => worker'[v] = worker[v]
         /\ worker'[w].phase = phase /\ Of(w)' = Of(w) /\ Kind(w)' = Kind(w)
         /\ worker'[w].ok = worker[w].ok /\ worker'[w].embedding = worker[w].embedding
         /\ worker'[w].todo = worker[w].todo
<1>1. worker[w] \in Busy /\ worker \in [Workers -> {Idle} \cup Busy]
  BY AtWork DEF TypeOK
<1> QED
  BY <1>1 DEF Phase, Busy, Of, Kind

\* A worker begins a transaction.
LEMMA BeginsMoves ==
  ASSUME TypeOK, NEW w \in Workers, worker[w].phase # "idle", NEW phase, NEW requests,
         Begins(w, phase, requests)
  PROVE  /\ \A v \in Workers : v # w => worker'[v] = worker[v]
         /\ worker'[w].phase = phase /\ Of(w)' = Of(w) /\ Kind(w)' = Kind(w)
         /\ worker'[w].ok = worker[w].ok /\ worker'[w].embedding = embedding
         /\ worker'[w].todo = requests
         /\ \A v \in Workers : ~In(v)
<1>1. worker[w] \in Busy /\ worker \in [Workers -> {Idle} \cup Busy]
  BY AtWork DEF TypeOK
<1> QED
  BY <1>1 DEF Begins, Busy, Of, Kind, PointsLockFree

\* A worker fails.
LEMMA FailureMoves ==
  ASSUME TypeOK, NEW w \in Workers, worker[w].phase # "idle", AfterFailure(w)
  PROVE  /\ \A v \in Workers : v # w => worker'[v] = worker[v]
         /\ Of(w)' = Of(w) /\ Kind(w)' = Kind(w) /\ worker'[w].embedding = embedding
         /\ embedding # worker[w].embedding => worker'[w].phase = "claim"
         /\ embedding = worker[w].embedding =>
              worker'[w].phase = "reconcile" /\ worker'[w].ok = FALSE
<1>1. worker[w] \in Busy /\ worker \in [Workers -> {Idle} \cup Busy]
  BY AtWork DEF TypeOK
<1> QED
  BY <1>1 DEF AfterFailure, Busy, Of, Kind

\* A worker takes a task.
LEMMA TakesMoves ==
  ASSUME TypeOK, NEW w \in Workers, NEW kind, NEW a, NEW phase, NEW e,
         Takes(w, kind, a, phase, e)
  PROVE  /\ \A v \in Workers : v # w => worker'[v] = worker[v]
         /\ worker'[w].phase = phase /\ Of(w)' = a /\ Kind(w)' = kind
         /\ worker'[w].ok = TRUE /\ worker'[w].embedding = e
         /\ worker[w].phase = "idle"
BY DEF Takes, TypeOK, Of, Kind, Idle

\* A task ends: only a success ends the job or the clean-up it was for.
LEMMA EndsMoves ==
  ASSUME TypeOK, NEW w \in Workers, worker[w].phase # "idle", NEW ok \in BOOLEAN, Ends(w, ok)
  PROVE  /\ \A v \in Workers : v # w => worker'[v] = worker[v]
         /\ worker'[w].phase = "idle"
         /\ \A a \in Attempts : job[a] = "none" => job'[a] = "none"
         /\ \A a \in Attempts : job[a] # "none" /\ job'[a] = "none" =>
              ok /\ Kind(w) \in {"index", "exhaust"} /\ a = Of(w)
         /\ cleanups' \subseteq cleanups
         /\ \A a \in cleanups : a \notin cleanups' => ok /\ Kind(w) = "clean" /\ a = Of(w)
<1>1. worker[w] \in Busy /\ worker \in [Workers -> {Idle} \cup Busy]
  BY AtWork DEF TypeOK
<1>2. Of(w) \in Attempts /\ job \in [Attempts -> {"none", "queued", "dead", "lost"}]
  BY <1>1 DEF Busy, Tasks, Of, TypeOK
<1>3. worker' = [worker EXCEPT ![w] = Idle]
  BY DEF Ends
<1>4. /\ \A v \in Workers : v # w => worker'[v] = worker[v]
      /\ worker'[w].phase = "idle"
  BY <1>1, <1>3 DEF Idle
<1>5. cleanups' = IF Kind(w) = "clean" /\ ok THEN cleanups \ {Of(w)} ELSE cleanups
  BY DEF Ends, Kind, Of
<1>6. \/ job' = job
      \/ ok /\ Kind(w) \in {"index", "exhaust"} /\ job' = [job EXCEPT ![Of(w)] = "none"]
      \/ job[Of(w)] = "queued" /\ job' = [job EXCEPT ![Of(w)] = "queued"]
      \/ job[Of(w)] = "queued" /\ job' = [job EXCEPT ![Of(w)] = "dead"]
  BY DEF Ends, Kind, Of
<1>7. /\ \A a \in Attempts : job[a] = "none" => job'[a] = "none"
      /\ \A a \in Attempts : job[a] # "none" /\ job'[a] = "none" =>
           ok /\ Kind(w) \in {"index", "exhaust"} /\ a = Of(w)
  BY <1>2, <1>6
<1> QED
  BY <1>4, <1>5, <1>7

\* The row after a fenced write.
LEMMA FailsMoves ==
  ASSUME TypeOK, NEW a, Fails(a)
  PROVE  /\ ~CurrentIndexing(a) => link' = link
         /\ CurrentIndexing(a) =>
              /\ RowFree /\ link'.status = "failed"
              /\ link'.attempt = link.attempt /\ link'.embedding = link.embedding
              /\ link'.indexed = link.indexed /\ link'.home = link.home
BY DEF Fails, TypeOK, LinkType

\* A worker's transaction leaves that of others out of the question.
LEMMA NoneElse ==
  ASSUME LinkPointsInv, NEW w \in Workers, In(w), NEW v \in Workers, v # w,
         worker'[v] = worker[v]
  PROVE  TransactionFits(v)' /\ ReconcileCovers(v)'
<1>1. ~In(v)
  BY DEF LinkPointsInv, OneWriter
<1> QED
  BY <1>1 DEF TransactionFits, ReconcileCovers, StagingFits, CompletionFits, KeepsIndexed,
              KeepsStaged, OneStands, In, At, Transactions

\* A worker that is in no transaction has none that does not fit.
LEMMA NoTransaction ==
  ASSUME NEW w, ~In(w)'
  PROVE  TransactionFits(w)' /\ ReconcileCovers(w)'
BY DEF TransactionFits, ReconcileCovers, StagingFits, CompletionFits, KeepsIndexed,
       KeepsStaged, OneStands, In, At, Transactions
-----------------------------------------------------------------------------
(* The row and what is to come                                             *)

\* Of the row, a worker's step claims, completes or fails the attempt it has.
LEMMA WorkerRow ==
  ASSUME SearchInv, NEW w \in Workers,
         Starts(w) \/ Goes(w) \/ RollBack(w) \/ FailTransient(w) \/ FailFinally(w) \/ Crash(w)
  PROVE  /\ sequence' = sequence /\ link'.attempt = link.attempt
         /\ link'.embedding = link.embedding
         /\ link' = link \/ (Unfinished /\ link'.status \in {"active", "completed", "failed"})
         /\ \/ link'.indexed = link.indexed /\ link'.home = link.home
               /\ (link'.status = "completed" => link' = link)
            \/ /\ link'.indexed = link.attempt /\ link'.home = embedding
               /\ link'.status = "completed"
<1> USE DEF SearchInv, LinkPointsInv
<1> DEFINE Good ==
      /\ sequence' = sequence /\ link'.attempt = link.attempt
      /\ link'.embedding = link.embedding
      /\ link' = link \/ (Unfinished /\ link'.status \in {"active", "completed", "failed"})
      /\ \/ link'.indexed = link.indexed /\ link'.home = link.home
            /\ (link'.status = "completed" => link' = link)
         \/ /\ link'.indexed = link.attempt /\ link'.home = embedding
            /\ link'.status = "completed"
<1>1. link \in LinkType
  BY Numbers
<1>2. ASSUME NEW a, Fails(a), sequence' = sequence PROVE Good
  BY <1>2, FailsMoves DEF CurrentIndexing
<1>3. CASE Starts(w)
  BY <1>2, <1>3 DEF Starts, Deliver, Exhausted, Swept, CleanUp
<1>4. CASE FailFinally(w)
  BY <1>2, <1>4 DEF FailFinally
<1>5. CASE ClaimIndexing(w)
  BY <1>1, <1>5 DEF ClaimIndexing, LinkType, CurrentIndexing
<1>6. CASE CommitCompletion(w)
  <2>1. CurrentIndexing(Of(w))
    BY <1>6 DEF CommitCompletion, Done, TransactionsAgree, TransactionFits, CompletionFits
  <2> QED
    BY <1>1, <1>6, <2>1 DEF CommitCompletion, LinkType, CurrentIndexing, Of
<1>7. CASE \/ BeginStaging(w) \/ BeginCompletion(w) \/ BeginReconcile(w) \/ Requests(w)
           \/ CommitStaging(w) \/ CommitReconcile(w) \/ Stale(w)
           \/ RollBack(w) \/ FailTransient(w) \/ Crash(w)
  <2>1. link' = link /\ sequence' = sequence
    BY <1>7 DEF BeginStaging, BeginCompletion, BeginReconcile, Requests, CommitStaging,
                CommitReconcile, Stale, RollBack, FailTransient, Crash
  <2> QED
    BY <2>1
<1> QED
  BY <1>3, <1>4, <1>5, <1>6, <1>7 DEF Goes, Transaction

\* No worker's step makes a job or a clean-up.
LEMMA WorkerJobs ==
  ASSUME SearchInv, NEW w \in Workers,
         Starts(w) \/ Goes(w) \/ RollBack(w) \/ FailTransient(w) \/ FailFinally(w) \/ Crash(w)
  PROVE  (\A a \in Attempts : job[a] = "none" => job'[a] = "none") /\ cleanups' \subseteq cleanups
<1> USE DEF SearchInv, LinkPointsInv
<1>1. CASE CommitReconcile(w) \/ RollBack(w) \/ Crash(w)
  <2>1. worker[w].phase # "idle"
    BY <1>1 DEF CommitReconcile, RollBack, Crash, Done, At, In, Transactions, Idle, TypeOK, Busy
  <2>2. worker[w].ok \in BOOLEAN
    BY <2>1, Numbers
  <2>3. (\E ok \in BOOLEAN : Ends(w, ok)) \/ UNCHANGED <<job, cleanups>>
    <3>1. CASE CommitReconcile(w)
      BY <2>2, <3>1, Zenon DEF CommitReconcile
    <3>2. CASE RollBack(w)
      <4>1. Ends(w, FALSE) \/ UNCHANGED <<job, cleanups>>
        BY <3>2 DEF RollBack
      <4> QED
        BY <4>1, Zenon
    <3>3. CASE Crash(w)
      BY <3>3, Zenon DEF Crash
    <3> QED
      BY <1>1, <3>1, <3>2, <3>3
  <2> QED
    BY <2>1, <2>3, EndsMoves
<1>2. CASE ~(CommitReconcile(w) \/ RollBack(w) \/ Crash(w))
  <2>1. job' = job /\ cleanups' = cleanups
    BY <1>2 DEF Starts, Deliver, Exhausted, Swept, CleanUp, Goes, Transaction, ClaimIndexing,
                BeginStaging, BeginCompletion, BeginReconcile, Requests, CommitStaging,
                CommitCompletion, Stale, FailTransient, FailFinally
  <2> QED
    BY <2>1
<1> QED
  BY <1>1, <1>2

\* The row agrees with itself and the sequence after every step.
LEMMA RowStays ==
  ASSUME SearchInv, Next
  PROVE  RowAgrees'
<1> USE DEF SearchInv, LinkPointsInv
<1>1. /\ sequence \in Nat /\ embedding \in Nat /\ link \in LinkType
      /\ link.attempt \in Nat /\ link.indexed \in Nat /\ link.embedding \in Nat /\ link.home \in Nat
  BY Numbers
<1>2. CASE \E e \in Generations : Link(e) \/ Admit(e)
  <2>1. PICK e \in Generations : Link(e) \/ Admit(e)
    BY <1>2
  <2>2. e \in Nat /\ e <= embedding /\ sequence' = sequence + 1 /\ embedding' = embedding
    BY <2>1, LinkPointsAssumption DEF Link, Admit, Drawn, Generations
  <2>3. /\ link'.status = "pending" /\ link'.attempt = sequence + 1 /\ link'.embedding = e
        /\ \/ link'.indexed = 0 /\ link'.home = 0
           \/ Linked /\ link'.indexed = link.indexed /\ link'.home = link.home
    BY <1>1, <2>1 DEF Link, Admit, NoLink, Drawn, LinkType
  <2> QED
    BY <1>1, <2>2, <2>3 DEF RowAgrees, Linked, Unfinished
<1>3. CASE Wait
  <2>1. /\ link'.status = "pending" /\ link'.attempt = sequence + 1
        /\ link'.embedding = link.embedding
        /\ Linked /\ link'.indexed = link.indexed /\ link'.home = link.home
        /\ sequence' = sequence + 1 /\ embedding' = embedding
    BY <1>1, <1>3 DEF Wait, Drawn, LinkType
  <2> QED
    BY <1>1, <2>1 DEF RowAgrees, Linked, Unfinished
<1>4. CASE Unlink
  <2>1. link' = NoLink /\ embedding' = embedding
    BY <1>4 DEF Unlink
  <2> QED
    BY <1>1, <2>1 DEF RowAgrees, Linked, Unfinished, NoLink
<1>5. CASE StartGeneration \/ MaintainCollections \/ \E a \in Attempts : Vanish(a)
  <2>1. link' = link /\ sequence' = sequence /\ embedding' \in {embedding, embedding + 1}
    BY <1>5 DEF StartGeneration, MaintainCollections, Vanish
  <2> QED
    BY <1>1, <2>1 DEF RowAgrees, Linked, Unfinished
<1>6. ASSUME NEW w \in Workers,
             Starts(w) \/ Goes(w) \/ RollBack(w) \/ FailTransient(w) \/ FailFinally(w) \/ Crash(w)
      PROVE  RowAgrees'
  <2>1. embedding' = embedding
    BY <1>6, WorkerStep
  <2>2. /\ sequence' = sequence /\ link'.attempt = link.attempt
        /\ link'.embedding = link.embedding
        /\ link' = link \/ (Unfinished /\ link'.status \in {"active", "completed", "failed"})
        /\ \/ link'.indexed = link.indexed /\ link'.home = link.home
              /\ (link'.status = "completed" => link' = link)
           \/ /\ link'.indexed = link.attempt /\ link'.home = embedding
              /\ link'.status = "completed"
    BY <1>6, WorkerRow
  <2> QED
    BY <1>1, <2>1, <2>2 DEF RowAgrees, Linked, Unfinished
<1> QED
  BY <1>2, <1>3, <1>4, <1>5, <1>6 DEF Next

\* Which attempts have jobs, clean-ups and points.
LEMMA StillToCome ==
  ASSUME SearchInv, Next, \A a \in Attempts : a > sequence' => Absent(a)'
  PROVE  ToCome'
<1> USE DEF SearchInv, LinkPointsInv
<1>1. sequence \in Nat /\ embedding \in Nat /\ link.attempt \in Nat
  BY Numbers
<1>2. \A e \in Generations : e > embedding' => points'[e] = NoPoints
  <2>1. CASE \/ \E e \in Generations : Link(e) \/ Admit(e)
             \/ Wait \/ Unlink \/ \E a \in Attempts : Vanish(a)
    BY <2>1 DEF Link, Admit, Wait, Unlink, Vanish, ToCome
  <2>2. CASE StartGeneration
    BY <1>1, <2>2 DEF StartGeneration, ToCome, Generations
  <2>3. CASE MaintainCollections
    BY <1>1, <2>3 DEF MaintainCollections
  <2>4. ASSUME NEW w \in Workers,
               Starts(w) \/ Goes(w) \/ RollBack(w) \/ FailTransient(w) \/ FailFinally(w) \/ Crash(w)
        PROVE  \A e \in Generations : e > embedding' => points'[e] = NoPoints
    <3>1. /\ embedding' = embedding
          /\ \A e \in Generations : points'[e] # points[e] => In(w) /\ e = worker[w].embedding
      BY <2>4, WorkerStep
    <3> QED
      BY <1>1, <3>1 DEF ToCome, OnActive
  <2> QED
    BY <2>1, <2>2, <2>3, <2>4 DEF Next
<1>3. /\ \A a \in Attempts : a > sequence' => job'[a] = "none"
      /\ \A a \in cleanups' : a <= sequence' /\ (Linked' => a < link'.attempt)
  <2> DEFINE Good == /\ \A a \in Attempts : a > sequence' => job'[a] = "none"
                     /\ \A a \in cleanups' : a <= sequence' /\ (Linked' => a < link'.attempt)
  <2>1. /\ \A a \in Attempts : a > sequence => job[a] = "none"
        /\ \A a \in cleanups : a <= sequence /\ (Linked => a < link.attempt)
        /\ cleanups \subseteq Attempts /\ Attempts \subseteq Nat
        /\ job \in [Attempts -> {"none", "queued", "dead", "lost"}]
    BY Numbers DEF ToCome
  <2>2. CASE \E e \in Generations : Link(e) \/ Admit(e)
    <3>1. PICK e \in Generations : Link(e) \/ Admit(e)
      BY <2>2
    <3>2. /\ sequence' = sequence + 1 /\ cleanups' = cleanups
          /\ job' = [job EXCEPT ![sequence + 1] = "queued"]
      BY <3>1 DEF Link, Admit, Drawn, Sent
    <3>3. link'.attempt = sequence + 1
      BY <3>1, Numbers DEF Link, Admit, Drawn, NoLink, LinkType
    <3> QED
      BY <1>1, <2>1, <3>2, <3>3
  <2>3. CASE Wait
    <3>1. sequence' = sequence + 1 /\ cleanups' = cleanups /\ job' = job
      BY <2>3 DEF Wait, Drawn
    <3>2. link'.attempt = sequence + 1
      BY <2>3, Numbers DEF Wait, Drawn, LinkType
    <3> QED
      BY <1>1, <2>1, <3>1, <3>2
  <2>4. CASE Unlink
    <3>1. ~Linked' /\ cleanups' = cleanups \cup {link.attempt} /\ job' = job /\ sequence' = sequence
      BY <2>4 DEF Unlink, NoLink, Linked
    <3>2. link.attempt <= sequence
      BY <1>1, <2>4 DEF Unlink, RowAgrees
    <3> QED
      BY <1>1, <2>1, <3>1, <3>2
  <2>5. CASE StartGeneration \/ MaintainCollections
    <3>1. UNCHANGED <<link, sequence, job, cleanups>>
      BY <2>5 DEF StartGeneration, MaintainCollections
    <3> QED
      BY <2>1, <3>1 DEF Linked
  <2>6. CASE \E a \in Attempts : Vanish(a)
    <3>1. PICK a \in Attempts : Vanish(a)
      BY <2>6
    <3>2. /\ UNCHANGED <<link, sequence, cleanups>> /\ job[a] # "none"
          /\ job' = [job EXCEPT ![a] = "lost"]
      BY <3>1 DEF Vanish
    <3> QED
      BY <2>1, <3>2 DEF Linked
  <2>7. ASSUME NEW w \in Workers,
               Starts(w) \/ Goes(w) \/ RollBack(w) \/ FailTransient(w) \/ FailFinally(w) \/ Crash(w)
        PROVE  Good
    <3>1. sequence' = sequence /\ link'.attempt = link.attempt /\ (Linked' => Linked)
      BY <2>7, WorkerRow DEF Linked, Unfinished
    <3>2. (\A a \in Attempts : job[a] = "none" => job'[a] = "none") /\ cleanups' \subseteq cleanups
      BY <2>7, WorkerJobs
    <3> QED
      BY <2>1, <3>1, <3>2
  <2> QED
    BY <2>2, <2>3, <2>4, <2>5, <2>6, <2>7 DEF Next
<1> QED
  BY <1>2, <1>3 DEF ToCome

-----------------------------------------------------------------------------
(* The steps of the row and of the generation                              *)

\* A link that is saved, put on a new attempt or removed: it is owed a job, a
\* clean-up or, while it waits, nothing.
LEMMA RowSteps ==
  ASSUME SearchInv, LinkPointsInv', Next,
         (\E e \in Generations : Link(e) \/ Admit(e)) \/ Wait \/ Unlink
  PROVE  SearchInv'
<1> USE DEF SearchInv, LinkPointsInv
<1>1. /\ sequence \in Nat /\ embedding \in Nat /\ link \in LinkType
      /\ link.attempt \in Nat /\ cleanups \subseteq Attempts /\ Attempts \subseteq Nat
      /\ job \in [Attempts -> {"none", "queued", "dead", "lost"}]
  BY Numbers
<1>2. /\ points' = points /\ embedding' = embedding /\ worker' = worker
      /\ Linked => RowFree
      /\ \/ /\ sequence' = sequence + 1 /\ sequence + 1 \in Attempts
            /\ link'.status = "pending" /\ link'.attempt = sequence + 1
            /\ link'.indexed = 0 \/ (link'.indexed = link.indexed /\ link'.home = link.home)
            /\ cleanups' = cleanups
            /\ job' = [job EXCEPT ![sequence + 1] = "queued"] \/ (Wait /\ job' = job)
         \/ /\ Linked /\ link' = NoLink /\ sequence' = sequence /\ job' = job
            /\ cleanups' = cleanups \cup {link.attempt}
  <2>1. CASE \E e \in Generations : Link(e)
    <3>1. PICK e \in Generations : Link(e)
      BY <2>1
    <3>2. sequence + 1 \in Attempts
      <4>1. sequence < MaxAttempt
        BY <3>1 DEF Link
      <4> QED
        BY <1>1, <4>1, LinkPointsAssumption DEF Attempts
    <3>3. /\ link' = [NoLink EXCEPT !.status = "pending", !.attempt = sequence + 1, !.embedding = e]
          /\ job' = [job EXCEPT ![sequence + 1] = "queued"] /\ sequence' = sequence + 1 /\ ~Linked
          /\ UNCHANGED <<embedding, points, cleanups, worker>>
      BY <3>1 DEF Link, Drawn, Sent
    <3>4. link'.status = "pending" /\ link'.attempt = sequence + 1 /\ link'.indexed = 0
      BY <3>3 DEF NoLink
    <3> QED
      BY <3>2, <3>3, <3>4
  <2>2. CASE \E e \in Generations : Admit(e)
    <3>1. PICK e \in Generations : Admit(e)
      BY <2>2
    <3>2. sequence + 1 \in Attempts
      <4>1. sequence < MaxAttempt
        BY <3>1 DEF Admit
      <4> QED
        BY <1>1, <4>1, LinkPointsAssumption DEF Attempts
    <3>3. /\ link' = [link EXCEPT !.status = "pending", !.attempt = sequence + 1, !.embedding = e]
          /\ job' = [job EXCEPT ![sequence + 1] = "queued"] /\ sequence' = sequence + 1 /\ RowFree
          /\ UNCHANGED <<embedding, points, cleanups, worker>>
      BY <3>1 DEF Admit, Drawn, Sent
    <3>4. /\ link'.status = "pending" /\ link'.attempt = sequence + 1
          /\ link'.indexed = link.indexed /\ link'.home = link.home
      BY <1>1, <3>3 DEF LinkType
    <3> QED
      BY <3>2, <3>3, <3>4
  <2>3. CASE Wait
    BY <1>1, <2>3, LinkPointsAssumption DEF Wait, Drawn, LinkType, Attempts, TypeOK
  <2>4. CASE Unlink
    BY <2>4 DEF Unlink
  <2> QED
    BY <2>1, <2>2, <2>3, <2>4
<1>3. PointsKept
  BY <1>2, KeptPoints
<1>4. RowCalm
  BY <1>1, <1>2 DEF RowCalm, RowMoves, Linked, Unfinished, NoLink
<1>5. JobsKept
  BY <1>1, <1>2 DEF JobsKept
<1>6. ASSUME NEW v \in Workers, worker[v].phase # "idle"
      PROVE  /\ Of(v)' = Of(v) /\ Of(v) <= sequence /\ Of(v) \in Attempts
             /\ Kind(v)' = Kind(v)
             /\ CurrentIndexing(Of(v))' => FALSE
  <2>1. Of(v)' = Of(v) /\ Of(v) <= sequence /\ Of(v) \in Attempts /\ Kind(v)' = Kind(v)
    BY <1>2, <1>6, Numbers DEF Of, Kind, WorkersAgree, TaskFits
  <2> QED
    BY <1>1, <1>2, <2>1 DEF CurrentIndexing, Unfinished, NoLink
<1>7. NothingNew
  BY <1>2, <1>6 DEF NothingNew, Indexing, Staged, At
<1>8. /\ PointsAgree' /\ IndexedStaysFound' /\ OnlyIndexedServed'
      /\ \A a \in Attempts : a > sequence' => Absent(a)'
  BY <1>2, <1>3, <1>4, <1>7, ContextKept
<1>9. RowAgrees' /\ ToCome'
  BY <1>8, RowStays, StillToCome
<1>10. ASSUME NEW v \in Workers
       PROVE  TaskFits(v)' /\ IndexingFits(v)'
  <2>1. \A a \in Attempts : Absent(a) => Absent(a)'
    BY <1>3 DEF PointsKept, AttemptKept
  <2> QED
    BY <1>2, <1>4, <1>5, <2>1, WorkerKept DEF JobsKept, RowCalm
<1>11. ASSUME NEW v \in Workers
       PROVE  TransactionFits(v)'
  <2>1. ~At(v, "completing")
    <3> SUFFICES ASSUME At(v, "completing") PROVE FALSE
      OBVIOUS
    <3>1. Linked
      BY DEF TransactionsAgree, TransactionFits, CompletionFits, CurrentIndexing, Unfinished, Linked
    <3> QED
      BY <1>2, <3>1 DEF RowFree
  <2> QED
    BY <1>2, <1>3, <1>4, <1>5, <1>7, <2>1, TransactionKept
<1>12. ASSUME NEW v \in Workers
       PROVE  ReconcileCovers(v)'
  <2> SUFFICES ASSUME At(v, "reconciling"), ~Debt(v)',
                      ~Unfinished' \/ (Indexing(v)' /\ worker'[v].ok)
               PROVE  FALSE
    BY <1>2 DEF ReconcileCovers, At
  <2>1. worker[v].phase # "idle"
    BY DEF At
  <2>2. CASE link' = NoLink /\ Linked /\ cleanups' = cleanups \cup {link.attempt}
    <3>1. ~(Kind(v) = "clean" /\ link.attempt = Of(v))
      BY <1>1, <2>1, <2>2 DEF WorkersAgree, TaskFits
    <3> QED
      BY <1>6, <2>1, <2>2, <3>1 DEF Debt
  <2>3. CASE Unfinished'
    BY <1>6, <2>1, <2>3 DEF Indexing
  <2> QED
    BY <1>2, <2>2, <2>3 DEF Unfinished
<1>13. DebtsKept'
  BY <1>2 DEF DebtsKept, Unfinished
<1> QED
  BY <1>8, <1>9, <1>10, <1>11, <1>12, <1>13 DEF WorkersAgree, TransactionsAgree

\* Jobs that vanish are still owed, and other collections are not searched.
LEMMA CollectionSteps ==
  ASSUME SearchInv, LinkPointsInv', Next, MaintainCollections \/ \E a \in Attempts : Vanish(a)
  PROVE  SearchInv'
<1> USE DEF SearchInv, LinkPointsInv
<1>1. /\ UNCHANGED <<link, sequence, embedding, cleanups, worker>>
      /\ points'[embedding'] = points[embedding]
  <2>1. embedding \in Generations
    BY Numbers
  <2> QED
    BY <2>1 DEF MaintainCollections, Vanish
<1>2. PointsKept
  BY <1>1, KeptPoints
<1>3. RowSame
  BY <1>1 DEF RowSame, Linked, Unfinished
<1>4. JobsKept
  BY Numbers DEF MaintainCollections, Vanish, JobsKept
<1>5. NothingNew
  BY <1>1 DEF NothingNew, Indexing, Staged, At, CurrentIndexing, Unfinished, Of, Kind
<1>6. RowAgrees' /\ ToCome'
  <2>1. \A a \in Attempts : a > sequence' => Absent(a)'
    BY <1>1, <1>2 DEF PointsKept, AttemptKept, ToCome
  <2> QED
    BY <2>1, RowStays, StillToCome
<1> QED
  BY <1>1, <1>2, <1>3, <1>4, <1>5, <1>6, CalmStep

\* A generation starts with an empty collection, while nobody writes points.
LEMMA GenerationStep ==
  ASSUME SearchInv, LinkPointsInv', Next, StartGeneration
  PROVE  SearchInv'
<1> USE DEF SearchInv, LinkPointsInv
<1>1. /\ UNCHANGED <<link, sequence, points, job, cleanups, worker>>
      /\ embedding' = embedding + 1 /\ embedding + 1 \in Generations
      /\ \A v \in Workers : ~In(v)
  BY Numbers, LinkPointsAssumption DEF StartGeneration, GenerationsFree, PointsLockFree, Generations
<1>2. embedding \in Nat /\ link.home \in Nat /\ link.embedding \in Nat
  BY Numbers
<1>3. \A a \in Attempts : Absent(a)' /\ Unserved(a)'
  BY <1>1, <1>2 DEF Absent, Unserved, ToCome, NoPoints
<1>4. ~Found'
  BY <1>1, <1>2 DEF Found, RowAgrees
<1>5. RowAgrees' /\ ToCome'
  BY <1>3, RowStays, StillToCome
<1>6. ASSUME NEW v \in Workers
      PROVE  TaskFits(v)' /\ IndexingFits(v)'
  <2>1. CASE worker[v].phase = "idle"
    BY <1>1, <2>1 DEF TaskFits, IndexingFits, Indexing
  <2>2. CASE worker[v].phase # "idle"
    <3>1. /\ Of(v)' = Of(v) /\ Kind(v)' = Kind(v) /\ (Reconciles(v)' <=> Reconciles(v))
          /\ worker[v].embedding \in Nat
          /\ TaskFits(v) /\ IndexingFits(v)
          /\ CurrentIndexing(Of(v))' <=> CurrentIndexing(Of(v))
          /\ Linked' <=> Linked
      BY <1>1, <2>2, Numbers DEF Of, Kind, Reconciles, WorkersAgree, CurrentIndexing, Unfinished, Linked
    <3>2. TaskFits(v)'
      BY <1>1, <1>2, <2>2, <3>1 DEF TaskFits
    <3>3. IndexingFits(v)'
      BY <1>1, <1>2, <1>3, <2>2, <3>1 DEF IndexingFits, Indexing, RowAgrees
    <3> QED
      BY <3>2, <3>3
  <2> QED
    BY <2>1, <2>2
<1>7. ASSUME NEW v \in Workers
      PROVE  ~In(v)' /\ ~Staged(v)'
  <2>1. ~In(v)'
    BY <1>1 DEF In
  <2>2. At(v, "complete") => worker[v].embedding <= embedding /\ worker[v].embedding \in Nat
    BY Numbers DEF At, WorkersAgree, TaskFits
  <2> QED
    BY <1>1, <1>2, <2>1, <2>2 DEF Staged, At
<1>8. PointsAgree'
  <2>1. link'.indexed # 0 => Absent(link.indexed)'
    BY <1>1, <1>3, Numbers
  <2>2. Unfinished' => Absent(link.attempt)'
    BY <1>1, <1>3, Numbers DEF Numbered, Unfinished, Linked
  <2> QED
    BY <1>4, <1>7, <2>1, <2>2 DEF PointsAgree
<1>9. IndexedStaysFound' /\ OnlyIndexedServed' /\ DebtsKept'
  BY <1>3, <1>4 DEF IndexedStaysFound, OnlyIndexedServed, DebtsKept, Clean, Found
<1>10. TransactionsAgree'
  BY <1>7, NoTransaction DEF TransactionsAgree
<1> QED
  BY <1>5, <1>6, <1>8, <1>9, <1>10 DEF WorkersAgree

-----------------------------------------------------------------------------
(* Steps of workers that leave the points alone                            *)

\* A worker's step that leaves points and jobs, and the row but for a claim.
LEMMA CalmWorker ==
  ASSUME SearchInv, LinkPointsInv', Next, RowSame, NEW w \in Workers,
         embedding' = embedding, points' = points, JobsKept, cleanups' = cleanups,
         \A v \in Workers : v # w => worker'[v] = worker[v],
         link' = link \/ RowFree,
         TaskFits(w)', IndexingFits(w)', TransactionFits(w)', ReconcileCovers(w)',
         Indexing(w)' => \/ worker'[w].embedding = embedding
                         \/ Indexing(w) /\ worker'[w].embedding = worker[w].embedding,
         ~Staged(w)'
  PROVE  SearchInv'
<1> USE DEF SearchInv, LinkPointsInv
<1>1. PointsKept
  BY KeptPoints
<1>2. NothingNew
  <2> SUFFICES ASSUME NEW u \in Workers, u # w
               PROVE  /\ Indexing(u)' => Indexing(u) /\ worker'[u].embedding = worker[u].embedding
                      /\ Staged(u)' => Staged(u) /\ Of(u)' = Of(u)
    BY DEF NothingNew
  <2>1. worker'[u] = worker[u]
    OBVIOUS
  <2>2. \A a : CurrentIndexing(a)' <=> CurrentIndexing(a)
    BY DEF RowSame, CurrentIndexing
  <2>3. Of(u)' = Of(u) /\ Kind(u)' = Kind(u)
    BY <2>1 DEF Of, Kind
  <2>4. CurrentIndexing(Of(u))' <=> CurrentIndexing(Of(u))
    BY <2>3 DEF RowSame, CurrentIndexing
  <2> QED
    BY <2>1, <2>3, <2>4 DEF Indexing, Staged, At
<1>3. RowAgrees' /\ ToCome'
  <2>1. \A a \in Attempts : a > sequence' => Absent(a)'
    BY <1>1 DEF PointsKept, AttemptKept, ToCome, RowSame
  <2> QED
    BY <2>1, RowStays, StillToCome
<1>4. ASSUME NEW v \in Workers, v # w
      PROVE  worker'[v] = worker[v] /\ (At(v, "completing") => link' = link)
  BY <1>4 DEF RowFree
<1> QED
  BY <1>1, <1>2, <1>3, <1>4, CalmStep

\* What a claim, and a step that leaves the row, do to it.
LEMMA SameRow ==
  ASSUME link' = link, sequence' = sequence
  PROVE  RowSame
BY DEF RowSame, Linked, Unfinished

\* A worker takes a task that leaves the row as it is.
LEMMA TakingSteps ==
  ASSUME SearchInv, LinkPointsInv', Next, NEW w \in Workers, NEW a \in Attempts,
         Deliver(w, a) \/ CleanUp(w, a)
  PROVE  SearchInv'
<1> USE DEF SearchInv, LinkPointsInv
<1>1. UNCHANGED <<link, sequence, embedding, points, job, cleanups>>
  BY DEF Deliver, CleanUp
<1>2. /\ \A v \in Workers : v # w => worker'[v] = worker[v]
      /\ \/ /\ job[a] = "queued" /\ worker'[w].phase = "claim" /\ Of(w)' = a /\ Kind(w)' = "index"
            /\ worker'[w].ok = TRUE /\ worker'[w].embedding = embedding
         \/ /\ a \in cleanups /\ worker'[w].phase = "reconcile" /\ Of(w)' = a /\ Kind(w)' = "clean"
            /\ worker'[w].embedding = 0
  BY TakesMoves DEF Deliver, CleanUp
<1>3. RowSame /\ JobsKept
  BY <1>1, SameRow DEF JobsKept
<1>4. embedding \in Nat /\ link.embedding \in Nat /\ sequence \in Nat /\ a \in Nat
  BY Numbers
<1>5. TaskFits(w)'
  BY <1>1, <1>2, <1>4 DEF TaskFits, ToCome, Reconciles, Linked
<1>6. IndexingFits(w)'
  BY <1>1, <1>2, <1>4 DEF IndexingFits, Indexing, Reconciles, RowAgrees
<1>7. ~In(w)' /\ ~Staged(w)'
  BY <1>2 DEF In, Transactions, Staged, At
<1>8. Indexing(w)' => worker'[w].embedding = embedding
  BY <1>2 DEF Indexing
<1>9. TransactionFits(w)' /\ ReconcileCovers(w)'
  BY <1>7, NoTransaction
<1>10. embedding' = embedding /\ points' = points /\ cleanups' = cleanups /\ link' = link
  BY <1>1
<1> HIDE DEF SearchInv, LinkPointsInv
<1> QED
  BY <1>2, <1>3, <1>5, <1>6, <1>7, <1>8, <1>9, <1>10, CalmWorker

\* A claim of the attempt for the generation read, or of one that is done.
LEMMA ClaimStep ==
  ASSUME SearchInv, LinkPointsInv', Next, NEW w \in Workers, ClaimIndexing(w)
  PROVE  SearchInv'
<1> USE DEF SearchInv, LinkPointsInv
<1>1. /\ UNCHANGED <<sequence, embedding, points, job, cleanups>>
      /\ At(w, "claim") /\ worker[w].phase # "idle" /\ link \in LinkType
  BY Numbers DEF ClaimIndexing, At
<1>2. \/ /\ CurrentIndexing(Of(w)) /\ link.embedding = worker[w].embedding
         /\ RowFree /\ link' = [link EXCEPT !.status = "active"] /\ Phase(w, "stage")
      \/ /\ ~(CurrentIndexing(Of(w)) /\ link.embedding = worker[w].embedding)
         /\ link' = link /\ Phase(w, "reconcile")
  BY DEF ClaimIndexing, Of
<1>3. RowSame
  <2>1. CASE CurrentIndexing(Of(w)) /\ link' = [link EXCEPT !.status = "active"]
    BY <1>1, <2>1 DEF RowSame, CurrentIndexing, Unfinished, Linked, LinkType
  <2>2. CASE link' = link
    BY <1>1, <2>2, SameRow
  <2> QED
    BY <1>2, <2>1, <2>2
<1>4. /\ \A v \in Workers : v # w => worker'[v] = worker[v]
      /\ Of(w)' = Of(w) /\ Kind(w)' = Kind(w)
      /\ worker'[w].ok = worker[w].ok /\ worker'[w].embedding = worker[w].embedding
      /\ \/ worker'[w].phase = "stage" /\ link.embedding = worker[w].embedding
         \/ /\ worker'[w].phase = "reconcile"
            /\ ~(CurrentIndexing(Of(w)) /\ link.embedding = worker[w].embedding)
  BY <1>1, <1>2, PhaseMoves
<1>5. /\ TaskFits(w) /\ IndexingFits(w) /\ worker[w].embedding \in Nat /\ Kind(w) = "index"
      /\ worker[w].embedding <= embedding /\ embedding \in Nat /\ link.embedding \in Nat
  BY <1>1, Numbers DEF WorkersAgree, TaskFits, Reconciles, At
<1>6. CurrentIndexing(Of(w))' <=> CurrentIndexing(Of(w))
  BY <1>3, <1>4 DEF RowSame, CurrentIndexing
<1>7. TaskFits(w)'
  BY <1>1, <1>4, <1>5, <1>6 DEF TaskFits, RowSame
<1>8. Indexing(w)' <=> Indexing(w)
  BY <1>1, <1>4, <1>6 DEF Indexing
<1>9. IndexingFits(w)'
  <2> SUFFICES ASSUME Indexing(w)
               PROVE  /\ link'.embedding <= worker'[w].embedding
                      /\ worker'[w].phase \in {"stage", "staging", "complete", "completing"} =>
                           link'.embedding = worker'[w].embedding
                      /\ Reconciles(w)' /\ worker'[w].ok => link'.embedding # embedding'
                      /\ link'.embedding = embedding' => job'[Of(w)'] # "none"
                      /\ worker'[w].embedding < embedding' => \A a \in Attempts : Absent(a)'
    BY <1>8 DEF IndexingFits
  <2>1. link'.embedding = link.embedding
    BY <1>3 DEF RowSame
  <2>2. CurrentIndexing(Of(w))
    BY DEF Indexing
  <2>3. \A a \in Attempts : Absent(a)' <=> Absent(a)
    BY <1>1 DEF Absent
  <2> QED
    BY <1>1, <1>4, <1>5, <2>1, <2>2, <2>3 DEF IndexingFits, Reconciles
<1>10. ~In(w)' /\ ~Staged(w)'
  BY <1>4 DEF In, Transactions, Staged, At
<1>11. JobsKept /\ (link' = link \/ RowFree)
  BY <1>1, <1>2 DEF JobsKept
<1> HIDE DEF SearchInv, LinkPointsInv
<1> QED
  BY <1>1, <1>3, <1>4, <1>7, <1>8, <1>9, <1>10, <1>11, NoTransaction, CalmWorker

\* A worker that finds itself behind, or fails on the way, goes on or gives up.
LEMMA RetrySteps ==
  ASSUME SearchInv, LinkPointsInv', Next, NEW w \in Workers, Stale(w) \/ FailTransient(w)
  PROVE  SearchInv'
<1> USE DEF SearchInv, LinkPointsInv
<1>1. /\ UNCHANGED <<link, sequence, embedding, points, job, cleanups>>
      /\ worker[w].phase \in {"stage", "complete"} /\ worker[w].phase # "idle"
  BY DEF Stale, FailTransient, At
<1>2. /\ \A v \in Workers : v # w => worker'[v] = worker[v]
      /\ Of(w)' = Of(w) /\ Kind(w)' = Kind(w) /\ worker'[w].embedding = embedding
      /\ worker'[w].phase = "claim" \/ (worker'[w].phase = "reconcile" /\ worker'[w].ok = FALSE)
  <2>1. AfterFailure(w) /\ TypeOK
    BY DEF Stale, FailTransient
  <2> HIDE DEF SearchInv, LinkPointsInv
  <2> QED
    BY <1>1, <2>1, FailureMoves
<1>3. /\ TaskFits(w) /\ IndexingFits(w) /\ Kind(w) = "index"
      /\ embedding \in Nat /\ link.embedding \in Nat
  BY <1>1, Numbers DEF WorkersAgree, TaskFits, Reconciles
<1>4. CurrentIndexing(Of(w))' <=> CurrentIndexing(Of(w))
  BY <1>1, <1>2 DEF CurrentIndexing, Unfinished
<1>5. TaskFits(w)'
  BY <1>1, <1>2, <1>3, <1>4 DEF TaskFits, Linked
<1>6. IndexingFits(w)'
  <2>1. Indexing(w)' => Indexing(w)
    BY <1>1, <1>2, <1>4 DEF Indexing
  <2> QED
    BY <1>1, <1>2, <1>3, <2>1 DEF IndexingFits, Reconciles, RowAgrees
<1>7. ~In(w)' /\ ~Staged(w)'
  BY <1>2 DEF In, Transactions, Staged, At
<1>8. RowSame /\ JobsKept
  BY <1>1, SameRow DEF JobsKept
<1>9. TransactionFits(w)' /\ ReconcileCovers(w)'
  BY <1>7, NoTransaction
<1>10. embedding' = embedding /\ points' = points /\ cleanups' = cleanups /\ link' = link
  BY <1>1
<1>11. Indexing(w)' => worker'[w].embedding = embedding
  BY <1>2
<1> HIDE DEF SearchInv, LinkPointsInv
<1> QED
  BY <1>2, <1>5, <1>6, <1>7, <1>8, <1>9, <1>10, <1>11, CalmWorker

\* A process dies outside of transactions.
LEMMA DyingStep ==
  ASSUME SearchInv, LinkPointsInv', Next, NEW w \in Workers, Crash(w), ~In(w)
  PROVE  SearchInv'
<1> USE DEF SearchInv, LinkPointsInv
<1>1. UNCHANGED <<link, sequence, embedding>> /\ points' = points /\ Ends(w, FALSE)
  BY Zenon DEF Crash
<1>2. worker[w].phase # "idle"
  BY DEF Crash, TypeOK, Busy, Transactions
<1>3. /\ \A v \in Workers : v # w => worker'[v] = worker[v]
      /\ worker'[w].phase = "idle" /\ JobsKept /\ cleanups' = cleanups
  BY <1>1, <1>2, EndsMoves DEF JobsKept
<1>4. TaskFits(w)' /\ IndexingFits(w)' /\ ~In(w)' /\ ~Staged(w)' /\ ~Indexing(w)'
  BY <1>3 DEF TaskFits, IndexingFits, Indexing, In, Transactions, Staged, At
<1>5. RowSame
  BY <1>1, SameRow
<1> HIDE DEF SearchInv, LinkPointsInv
<1> QED
  BY <1>1, <1>3, <1>4, <1>5, NoTransaction, CalmWorker

-----------------------------------------------------------------------------
(* An attempt that is given up                                             *)

\* Points that are there of an attempt of which there are none: it has no chunks.
LEMMA NoChunks ==
  ASSUME NEW a, Absent(a), Present(a)
  PROVE  Whole(a)
BY DEF Absent, Present, Whole

\* The fenced write that gives an attempt up, and what is left to do for it: its
\* job, or nothing, as no point was written since the generation was replaced.
LEMMA GivingUp ==
  ASSUME SearchInv, LinkPointsInv', Next, NEW w \in Workers, NEW a \in Attempts,
         CurrentIndexing(a), Fails(a), embedding' = embedding, points' = points, job' = job,
         sequence' = sequence, cleanups' = cleanups,
         \A v \in Workers : v # w => worker'[v] = worker[v],
         worker'[w].phase = "reconcile", Of(w)' = a, a <= sequence,
         Kind(w)' \in {"index", "exhaust", "sweep"}, worker'[w].embedding <= embedding,
         job[a] # "none" \/ \A b \in Attempts : Absent(b)
  PROVE  SearchInv'
<1> USE DEF SearchInv, LinkPointsInv
<1>1. /\ RowFree /\ link'.status = "failed" /\ link.attempt = a /\ Unfinished
      /\ link'.attempt = link.attempt /\ link'.embedding = link.embedding
      /\ link'.indexed = link.indexed /\ link'.home = link.home
  BY FailsMoves DEF CurrentIndexing
<1>2. ~Unfinished' /\ (\A b : ~CurrentIndexing(b)') /\ (Found' <=> Found) /\ Linked /\ Linked'
  BY <1>1 DEF Unfinished, CurrentIndexing, Found, Linked
<1>3. \A v \in Workers : ~Indexing(v)' /\ ~Staged(v)'
  BY <1>2 DEF Indexing, Staged, CurrentIndexing
<1>4. PointsKept /\ JobsKept /\ NothingNew
  BY <1>3, KeptPoints DEF JobsKept, NothingNew
<1>5. RowCalm
  BY <1>1, <1>2 DEF RowCalm, RowMoves
<1>6. PointsAgree' /\ IndexedStaysFound' /\ OnlyIndexedServed'
  BY <1>4, <1>5, ContextKept
<1>7. RowAgrees' /\ ToCome'
  <2>1. \A b \in Attempts : b > sequence' => Absent(b)'
    BY <1>4, <1>5, ContextKept
  <2> QED
    BY <2>1, RowStays, StillToCome
<1>8. TaskFits(w)' /\ IndexingFits(w)' /\ TransactionFits(w)' /\ ReconcileCovers(w)'
  <2>1. ~In(w)'
    BY DEF In, Transactions
  <2> QED
    BY <1>2, <1>3, <2>1, NoTransaction DEF TaskFits, IndexingFits, Reconciles
<1>9. Found => link.indexed \in Attempts /\ Present(link.indexed)
  BY Numbers DEF Found, PointsAgree
<1>10. ASSUME \A b \in Attempts : Absent(b)
       PROVE  /\ \A b \in Attempts : Absent(b)'
              /\ Found => Whole(link.indexed)'
  <2>1. \A b \in Attempts : Absent(b)' /\ (Whole(b) => Whole(b)')
    BY <1>4, <1>10 DEF PointsKept, AttemptKept
  <2>2. Found => Whole(link.indexed)
    BY <1>9, <1>10, NoChunks
  <2> QED
    BY <1>1, <1>9, <2>1, <2>2 DEF Whole
<1>11. ASSUME NEW v \in Workers, v # w
       PROVE  /\ TaskFits(v)' /\ IndexingFits(v)'
              /\ TransactionFits(v)' /\ ReconcileCovers(v)'
  <2>1. worker'[v] = worker[v] /\ ~At(v, "completing")
    BY <1>1, <1>11 DEF RowFree
  <2>2. TransactionFits(v)'
    BY <1>4, <1>5, <2>1, TransactionKept
  <2>3. TaskFits(v)' /\ IndexingFits(v)'
    <3>1. \A b \in Attempts : Absent(b) => Absent(b)'
      BY <1>4 DEF PointsKept, AttemptKept
    <3> QED
      BY <1>5, <2>1, <3>1, WorkerKept DEF RowCalm
  <2>4. ReconcileCovers(v)'
    <3>1. /\ Of(v)' = Of(v) /\ Kind(v)' = Kind(v) /\ Left(v)' = Left(v)
          /\ At(v, "reconciling")' <=> At(v, "reconciling")
      BY <2>1 DEF Of, Kind, Left, At
    <3>2. Debt(v)' <=> Debt(v)
      BY <2>1, <3>1 DEF Debt
    <3> SUFFICES ASSUME At(v, "reconciling"), ~Debt(v) PROVE Covers(v)'
      BY <3>1, <3>2 DEF ReconcileCovers
    <3>3. CASE job[a] # "none"
      <4>1. worker[v].ok /\ Kind(v) \in {"index", "exhaust"} /\ a = Of(v)
        BY <3>3 DEF Debt
      <4>2. worker[v].phase # "idle" /\ Reconciles(v)
        BY DEF At, Reconciles
      <4>3. Kind(v) = "index"
        BY <4>1, <4>2 DEF WorkersAgree, TaskFits
      <4>4. Indexing(v) /\ worker[v].ok
        BY <4>1, <4>2, <4>3 DEF Indexing
      <4>5. Covers(v)
        BY <4>4 DEF TransactionsAgree, ReconcileCovers
      <4>6. Absent(a)
        BY <1>1, <4>2, <4>4 DEF WorkersAgree, IndexingFits, PointsAgree
      <4>7. ASSUME NEW b \in Attempts, b # link.indexed
            PROVE  Absent(b)' \/ \E r \in Left(v) : r.does = "delete" /\ b \in r.on
        <5>1. CASE b = a
          BY <1>4, <4>6, <5>1 DEF PointsKept, AttemptKept
        <5>2. CASE b # a
          <6>1. ~CurrentIndexing(b)
            BY <1>1, <5>2 DEF CurrentIndexing
          <6>2. Absent(b) => Absent(b)'
            BY <1>4 DEF PointsKept, AttemptKept
          <6> QED
            BY <4>5, <4>7, <6>1, <6>2 DEF Covers
        <5> QED
          BY <5>1, <5>2
      <4>8. Found => Do("serve", {link.indexed}) \in Left(v) \/ Whole(link.indexed)'
        <5>1. \A b \in Attempts : Whole(b) => Whole(b)'
          BY <1>4 DEF PointsKept, AttemptKept
        <5>2. Found => (Whole(link.indexed) => Whole(link.indexed)')
          BY <1>1, <1>9, <5>1 DEF Whole
        <5> QED
          BY <4>5, <5>2 DEF Covers
      <4> QED
        BY <1>1, <1>2, <3>1, <4>7, <4>8 DEF Covers, Do
    <3>4. CASE \A b \in Attempts : Absent(b)
      BY <1>1, <1>2, <1>10, <3>4 DEF Covers
    <3> QED
      BY <3>3, <3>4
  <2> QED
    BY <2>2, <2>3, <2>4
<1>12. DebtsKept'
  <2>1. CASE job[a] # "none"
    BY <2>1 DEF DebtsKept
  <2>2. CASE \A b \in Attempts : Absent(b)
    BY <1>1, <1>2, <1>10, <2>2 DEF DebtsKept, Clean
  <2> QED
    BY <2>1, <2>2
<1> QED
  BY <1>6, <1>7, <1>8, <1>11, <1>12 DEF WorkersAgree, TransactionsAgree

\* A dead letter, the sweep, or the delivery itself gives the attempt up.
LEMMA FailingSteps ==
  ASSUME SearchInv, LinkPointsInv', Next, NEW w \in Workers,
         (\E a \in Attempts : Exhausted(w, a) \/ Swept(w, a)) \/ FailFinally(w)
  PROVE  SearchInv'
<1> USE DEF SearchInv, LinkPointsInv
<1>1. UNCHANGED <<sequence, embedding, points, job, cleanups>>
  BY DEF Exhausted, Swept, FailFinally
<1>2. embedding \in Nat /\ sequence \in Nat
  BY Numbers
<1>3. PICK a \in Attempts :
        /\ Fails(a) /\ \A v \in Workers : v # w => worker'[v] = worker[v]
        /\ worker'[w].phase = "reconcile" /\ Of(w)' = a /\ a <= sequence
        /\ Kind(w)' \in {"index", "exhaust", "sweep"} /\ worker'[w].embedding <= embedding
        /\ CurrentIndexing(a) => (job[a] # "none" \/ \A b \in Attempts : Absent(b))
  <2>1. ASSUME NEW a \in Attempts, Exhausted(w, a) \/ Swept(w, a)
        PROVE  /\ Fails(a) /\ \A v \in Workers : v # w => worker'[v] = worker[v]
               /\ worker'[w].phase = "reconcile" /\ Of(w)' = a /\ a <= sequence
               /\ Kind(w)' \in {"exhaust", "sweep"} /\ worker'[w].embedding <= embedding
               /\ job[a] # "none"
    <3>1. Fails(a) /\ job[a] # "none"
      BY <2>1 DEF Exhausted, Swept
    <3>2. PICK kind \in {"exhaust", "sweep"} : Takes(w, kind, a, "reconcile", 0)
      BY <2>1 DEF Exhausted, Swept
    <3>3. a <= sequence
      <4>1. a \in Nat
        BY Numbers
      <4> QED
        BY <1>2, <3>1, <4>1 DEF ToCome
    <3>4. /\ \A v \in Workers : v # w => worker'[v] = worker[v]
          /\ worker'[w].phase = "reconcile" /\ Of(w)' = a /\ Kind(w)' = kind
          /\ worker'[w].embedding = 0
      BY <3>2, TakesMoves
    <3> QED
      BY <1>2, <3>1, <3>2, <3>3, <3>4
  <2>2. ASSUME FailFinally(w)
        PROVE  /\ Fails(Of(w)) /\ \A v \in Workers : v # w => worker'[v] = worker[v]
               /\ Of(w) \in Attempts
               /\ worker'[w].phase = "reconcile" /\ Of(w)' = Of(w) /\ Of(w) <= sequence
               /\ Kind(w)' = "index" /\ worker'[w].embedding <= embedding
               /\ CurrentIndexing(Of(w)) => (job[Of(w)] # "none" \/ \A b \in Attempts : Absent(b))
               /\ worker'[w].embedding = worker[w].embedding /\ Kind(w) = "index"
               /\ worker[w].phase # "idle"
    <3>1. /\ Fails(Of(w)) /\ Phase(w, "reconcile")
          /\ worker[w].phase \in {"stage", "complete"} /\ worker[w].phase # "idle"
      BY <2>2 DEF FailFinally, Of, At
    <3>2. /\ \A v \in Workers : v # w => worker'[v] = worker[v]
          /\ worker'[w].phase = "reconcile" /\ Of(w)' = Of(w) /\ Kind(w)' = Kind(w)
          /\ worker'[w].embedding = worker[w].embedding
      BY <3>1, PhaseMoves
    <3>3. /\ Kind(w) = "index" /\ Of(w) <= sequence /\ Of(w) \in Attempts
          /\ worker[w].embedding <= embedding /\ worker[w].embedding \in Nat
      BY <3>1, Numbers DEF WorkersAgree, TaskFits, Reconciles
    <3>4. CurrentIndexing(Of(w)) => (job[Of(w)] # "none" \/ \A b \in Attempts : Absent(b))
      <4> SUFFICES ASSUME CurrentIndexing(Of(w)), job[Of(w)] = "none"
                   PROVE  \A b \in Attempts : Absent(b)
        OBVIOUS
      <4>1. Indexing(w)
        BY <3>1, <3>3 DEF Indexing
      <4>2. link.embedding = worker[w].embedding /\ link.embedding # embedding
        BY <3>1, <4>1 DEF WorkersAgree, IndexingFits
      <4>3. worker[w].embedding < embedding
        BY <1>2, <3>3, <4>2
      <4> QED
        BY <4>1, <4>3 DEF WorkersAgree, IndexingFits
    <3> QED
      BY <3>1, <3>2, <3>3, <3>4
  <2>3. CASE FailFinally(w)
    BY <2>2, <2>3
  <2>4. CASE \E a \in Attempts : Exhausted(w, a) \/ Swept(w, a)
    <3>1. PICK a \in Attempts : Exhausted(w, a) \/ Swept(w, a)
      BY <2>4
    <3>2. /\ Fails(a) /\ \A v \in Workers : v # w => worker'[v] = worker[v]
          /\ worker'[w].phase = "reconcile" /\ Of(w)' = a /\ a <= sequence
          /\ Kind(w)' \in {"exhaust", "sweep"} /\ worker'[w].embedding <= embedding
          /\ job[a] # "none"
      BY <2>1, <3>1
    <3> QED
      BY <3>2
  <2> QED
    BY <2>3, <2>4
<1>4. CASE CurrentIndexing(a)
  <2>1. embedding' = embedding /\ points' = points /\ job' = job /\ sequence' = sequence
        /\ cleanups' = cleanups
    BY <1>1
  <2> HIDE DEF SearchInv, LinkPointsInv
  <2> QED
    BY <1>3, <1>4, <2>1, GivingUp
<1>5. CASE ~CurrentIndexing(a)
  <2>1. link' = link
    BY <1>3, <1>5, FailsMoves
  <2>2. RowSame /\ JobsKept
    BY <1>1, <2>1, SameRow DEF JobsKept
  <2>3. ~CurrentIndexing(Of(w))'
    BY <1>3, <1>5, <2>1 DEF CurrentIndexing, Unfinished
  <2>4. ~Indexing(w)' /\ ~Staged(w)' /\ ~In(w)'
    BY <1>3, <2>3 DEF Indexing, Staged, At, In, Transactions
  <2>5. TaskFits(w)' /\ IndexingFits(w)'
    BY <1>1, <1>3, <2>3, <2>4 DEF TaskFits, IndexingFits, Reconciles
  <2>6. TransactionFits(w)' /\ ReconcileCovers(w)'
    BY <2>4, NoTransaction
  <2>7. embedding' = embedding /\ points' = points /\ cleanups' = cleanups
    BY <1>1
  <2> HIDE DEF SearchInv, LinkPointsInv
  <2> QED
    BY <1>3, <2>1, <2>2, <2>4, <2>5, <2>6, <2>7, CalmWorker
<1> QED
  BY <1>4, <1>5

-----------------------------------------------------------------------------
(* Transactions begin                                                      *)

\* What a worker and the others are when its transaction began.
LEMMA BeginsFits ==
  ASSUME SearchInv, NEW w \in Workers, worker[w].phase # "idle",
         NEW phase \in Transactions, NEW requests \in Seq(Request), Begins(w, phase, requests),
         UNCHANGED <<link, sequence, embedding, points, job, cleanups>>,
         phase # "reconciling" => Kind(w) = "index",
         Indexing(w) /\ phase # "reconciling" => link.embedding = embedding,
         phase = "reconciling" => At(w, "reconcile")
  PROVE  /\ TaskFits(w)' /\ IndexingFits(w)' /\ ~Staged(w)'
         /\ \A v \in Workers : (Indexing(v)' <=> Indexing(v)) /\ (Staged(v)' => Staged(v))
                               /\ Of(v)' = Of(v)
         /\ \A v \in Workers : v # w => worker'[v] = worker[v]
         /\ worker'[w].embedding = embedding /\ Left(w)' = Elements(requests)
         /\ At(w, phase)' /\ worker'[w].todo = requests /\ worker'[w].ok = worker[w].ok
         /\ Kind(w)' = Kind(w)
         /\ \A a \in Attempts : /\ Present(a)' <=> Present(a)
                                /\ Absent(a)' <=> Absent(a)
                                /\ Whole(a)' <=> Whole(a)
                                /\ Unserved(a)' <=> Unserved(a)
                                /\ CurrentIndexing(a)' <=> CurrentIndexing(a)
         /\ (Found' <=> Found) /\ (Unfinished' <=> Unfinished)
<1> USE DEF SearchInv, LinkPointsInv
<1>1. /\ \A v \in Workers : v # w => worker'[v] = worker[v]
      /\ worker'[w].phase = phase /\ Of(w)' = Of(w) /\ Kind(w)' = Kind(w)
      /\ worker'[w].ok = worker[w].ok /\ worker'[w].embedding = embedding
      /\ worker'[w].todo = requests
  BY BeginsMoves
<1>2. /\ TaskFits(w) /\ IndexingFits(w) /\ embedding \in Nat /\ link.embedding \in Nat
  BY Numbers DEF WorkersAgree
<1>3. \A v \in Workers : /\ Of(v)' = Of(v) /\ Kind(v)' = Kind(v)
                         /\ CurrentIndexing(Of(v))' <=> CurrentIndexing(Of(v))
  BY <1>1 DEF Of, Kind, CurrentIndexing, Unfinished
<1>4. (Linked' <=> Linked) /\ (Unfinished' <=> Unfinished) /\ (Found' <=> Found)
  BY DEF Linked, Unfinished, Found
<1>5. TaskFits(w)'
  BY <1>1, <1>2, <1>3, <1>4 DEF TaskFits, Reconciles, Transactions
<1>6. Indexing(w)' <=> Indexing(w)
  BY <1>1, <1>3 DEF Indexing, Transactions
<1>7. IndexingFits(w)'
  BY <1>1, <1>2, <1>3, <1>6 DEF IndexingFits, Reconciles, Transactions, At, RowAgrees
<1>8. ASSUME NEW v \in Workers
      PROVE  (Indexing(v)' <=> Indexing(v)) /\ (Staged(v)' => Staged(v))
  BY <1>1, <1>3, <1>6 DEF Indexing, Staged, At, Transactions
<1>9. ~Staged(w)' /\ At(w, phase)' /\ Left(w)' = Elements(requests)
  BY <1>1 DEF Staged, At, Transactions, Left
<1>10. \A a \in Attempts : /\ Present(a)' <=> Present(a)
                           /\ Absent(a)' <=> Absent(a)
                           /\ Whole(a)' <=> Whole(a)
                           /\ Unserved(a)' <=> Unserved(a)
                           /\ CurrentIndexing(a)' <=> CurrentIndexing(a)
  BY <1>4 DEF Present, Absent, Whole, Unserved, CurrentIndexing
<1> QED
  BY <1>1, <1>3, <1>4, <1>5, <1>7, <1>8, <1>9, <1>10

\* A transaction that fits begins.
LEMMA BeginsKeeps ==
  ASSUME SearchInv, LinkPointsInv', Next, NEW w \in Workers, NEW phase \in Transactions,
         UNCHANGED <<link, sequence, embedding, points, job, cleanups>>, At(w, phase)',
         \A v \in Workers : v # w => worker'[v] = worker[v],
         worker'[w].embedding = embedding,
         TaskFits(w)', IndexingFits(w)', ~Staged(w)', TransactionFits(w)', ReconcileCovers(w)'
  PROVE  SearchInv'
<1>1. RowSame /\ JobsKept
  BY SameRow DEF JobsKept
<1>2. link' = link /\ embedding' = embedding /\ points' = points /\ cleanups' = cleanups
  OBVIOUS
<1> QED
  BY <1>1, <1>2, CalmWorker

\* The indexed attempt is served first and not disturbed by the requests that
\* serve it, nor by those on other attempts.
LEMMA ServingStands ==
  ASSUME SearchInv, NEW todo \in Seq(Request), Found,
         Head(todo) = Do("serve", {link.indexed}), todo # <<>>,
         \A r \in Elements(todo) : link.indexed \in r.on => r.does = "serve"
  PROVE  \E a \in Attempts :
           /\ Present(a)
           /\ \A r \in Elements(todo) : a \in r.on => r.does = "serve"
           /\ Whole(a) \/ (todo # <<>> /\ Head(todo) = Do("serve", {a}))
<1>1. link.indexed \in Attempts /\ Present(link.indexed)
  BY Numbers DEF SearchInv, LinkPointsInv, Found, PointsAgree
<1> QED
  BY <1>1

\* What requests that serve the indexed attempt are.
LEMMA ServeIsSafe ==
  ASSUME TypeOK, NEW n \in 0 .. MaxAttempt, NEW r \in Elements(Serve(n))
  PROVE  /\ r.does \in {"serve", "hide"}
         /\ r.does = "serve" => n # 0 /\ r.on = {n}
         /\ r.does # "serve" => n \notin r.on
<1>1. n \in Nat
  BY Numbers
<1>2. r \in {Do("serve", {n}), Do("hide", Below(n)), Do("hide", Above(n))}
      /\ (r.does = "serve" => n # 0)
  BY ServeElements DEF Do
<1>3. n \notin Below(n) /\ n \notin Above(n)
  BY <1>1 DEF Below, Above
<1> QED
  BY <1>2, <1>3 DEF Do

\* Points of an attempt are staged.
LEMMA BeginStagingStep ==
  ASSUME SearchInv, LinkPointsInv', Next, NEW w \in Workers, BeginStaging(w)
  PROVE  SearchInv'
<1> USE DEF SearchInv, LinkPointsInv
<1> DEFINE requests == IF Staging(Of(w)) THEN Writes(Of(w)) ELSE <<>>
<1>1. /\ worker[w].phase = "stage" /\ worker[w].phase # "idle" /\ embedding = worker[w].embedding
      /\ Begins(w, "staging", requests)
      /\ UNCHANGED <<link, sequence, embedding, points, job, cleanups>>
  BY DEF BeginStaging, At, Of
<1>2. /\ Of(w) \in Attempts /\ Kind(w) = "index" /\ TaskFits(w) /\ IndexingFits(w)
      /\ link.indexed \in 0 .. MaxAttempt /\ embedding \in Nat /\ link.embedding \in Nat
      /\ link.indexed \in Nat /\ Of(w) \in Nat /\ link.attempt \in Nat
  BY <1>1, Numbers DEF WorkersAgree, TaskFits, Reconciles
<1>3. CurrentIndexing(Of(w)) => Indexing(w) /\ link.embedding = embedding /\ Staging(Of(w))
  <2> SUFFICES ASSUME CurrentIndexing(Of(w))
               PROVE  Indexing(w) /\ link.embedding = embedding /\ Staging(Of(w))
    OBVIOUS
  <2>1. Indexing(w)
    BY <1>1, <1>2 DEF Indexing
  <2>2. link.embedding = embedding
    BY <1>1, <1>2, <2>1 DEF IndexingFits
  <2>3. Staging(Of(w))
    BY <1>2 DEF Staging, CurrentIndexing, RowAgrees
  <2> QED
    BY <2>1, <2>2, <2>3
<1>4. /\ requests \in Seq(Request)
      /\ ~Staging(Of(w)) => requests = <<>> /\ Elements(requests) = {}
      /\ Staging(Of(w)) =>
           /\ requests # <<>>
           /\ Elements(requests) = Elements(Serve(link.indexed)) \cup {Do("write", {Of(w)})}
           /\ link.indexed # 0 => Head(requests) = Do("serve", {link.indexed})
  <2>1. CASE Staging(Of(w))
    BY <1>2, <2>1, WritesElements
  <2>2. CASE ~Staging(Of(w))
    BY <2>2 DEF Elements
  <2> QED
    BY <2>1, <2>2
<1> HIDE DEF requests
<1>5. /\ TaskFits(w)' /\ IndexingFits(w)' /\ ~Staged(w)'
      /\ \A v \in Workers : Indexing(v)' <=> Indexing(v)
      /\ \A v \in Workers : v # w => worker'[v] = worker[v]
      /\ worker'[w].embedding = embedding /\ Left(w)' = Elements(requests)
      /\ At(w, "staging")' /\ worker'[w].todo = requests
      /\ \A a \in Attempts : /\ Present(a)' <=> Present(a)
                             /\ Whole(a)' <=> Whole(a)
      /\ Of(w)' = Of(w) /\ (CurrentIndexing(Of(w))' <=> CurrentIndexing(Of(w)))
      /\ Found' <=> Found
  <2>1. "staging" \in Transactions /\ (Indexing(w) => link.embedding = embedding)
    BY <1>3 DEF Transactions, Indexing
  <2>2. Of(w)' = Of(w) /\ (CurrentIndexing(Of(w))' <=> CurrentIndexing(Of(w)))
    <3>1. Of(w)' = Of(w)
      BY <1>1, <1>2, <1>4, <2>1, BeginsFits
    <3> QED
      BY <1>1, <3>1 DEF CurrentIndexing, Unfinished
  <2> QED
    BY <1>1, <1>2, <1>4, <2>1, <2>2, BeginsFits
<1>6. ASSUME NEW r \in Elements(requests)
      PROVE  /\ r.does # "delete" /\ (r.does = "write" => r.on = {Of(w)})
             /\ r.does = "serve" => link.indexed = 0 \/ r.on = {link.indexed}
             /\ r.does # "serve" => link.indexed \notin r.on
  <2>1. Staging(Of(w)) /\ link.indexed < Of(w)
    BY <1>4, <1>6 DEF Staging
  <2>2. CASE r = Do("write", {Of(w)})
    BY <1>2, <2>1, <2>2 DEF Do
  <2>3. CASE r \in Elements(Serve(link.indexed))
    BY <1>2, <2>3, ServeIsSafe
  <2> QED
    BY <1>4, <1>6, <2>1, <2>2, <2>3
<1>7. StagingFits(w)'
  <2>1. Staging(Of(w)) =>
          /\ job[Of(w)] # "none" /\ link.status # "completed" /\ link.indexed < Of(w)
          /\ \A v \in Workers : Indexing(v) => worker'[v].embedding = embedding
    <3> SUFFICES ASSUME Staging(Of(w))
                 PROVE  /\ job[Of(w)] # "none" /\ link.status # "completed" /\ link.indexed < Of(w)
                        /\ \A v \in Workers : Indexing(v) => worker'[v].embedding = embedding
      OBVIOUS
    <3>1. CurrentIndexing(Of(w)) /\ link.indexed < Of(w) /\ link.status # "completed"
      BY DEF Staging, CurrentIndexing, Unfinished
    <3>2. job[Of(w)] # "none"
      BY <1>2, <1>3, <3>1 DEF IndexingFits
    <3>3. ASSUME NEW v \in Workers, Indexing(v)
          PROVE  worker'[v].embedding = embedding
      <4>1. /\ link.embedding <= worker[v].embedding /\ worker[v].embedding <= embedding
            /\ worker[v].embedding \in Nat
        BY <3>3, Numbers DEF WorkersAgree, IndexingFits, TaskFits, Indexing
      <4>2. worker[v].embedding = embedding
        BY <1>2, <1>3, <3>1, <4>1
      <4> QED
        BY <1>5, <4>2
    <3> QED
      BY <3>1, <3>2, <3>3
  <2>2. requests # <<>> => Staging(Of(w))
    BY <1>4
  <2>3. CurrentIndexing(Of(w)) => Do("write", {Of(w)}) \in Elements(requests)
    BY <1>3, <1>4
  <2> QED
    BY <1>1, <1>5, <1>6, <2>1, <2>2, <2>3 DEF StagingFits
<1>8. KeepsIndexed(w)'
  BY <1>1, <1>5, <1>6 DEF KeepsIndexed
<1>9. OneStands(w)'
  <2> SUFFICES ASSUME Found PROVE Stands(w)'
    BY <1>5 DEF OneStands
  <2>1. \E a \in Attempts :
           /\ Present(a)
           /\ \A r \in Elements(requests) : a \in r.on => r.does = "serve"
           /\ Whole(a) \/ (requests # <<>> /\ Head(requests) = Do("serve", {a}))
    <3>1. CASE Staging(Of(w))
      <4>1. Head(requests) = Do("serve", {link.indexed}) /\ requests # <<>>
        BY <1>4, <3>1 DEF Found
      <4>2. \A r \in Elements(requests) : link.indexed \in r.on => r.does = "serve"
        BY <1>6
      <4> HIDE DEF SearchInv, LinkPointsInv
      <4> QED
        BY <1>4, <4>1, <4>2, ServingStands
    <3>2. CASE ~Staging(Of(w))
      <4>1. PICK a \in Attempts : Whole(a)
        BY DEF IndexedStaysFound, Found
      <4>2. Present(a)
        BY <4>1 DEF Whole, Present
      <4> QED
        BY <1>4, <3>2, <4>1, <4>2
    <3> QED
      BY <3>1, <3>2
  <2> QED
    BY <1>5, <2>1 DEF Stands
<1>10. TransactionFits(w)' /\ ReconcileCovers(w)'
  BY <1>5, <1>7, <1>8, <1>9 DEF TransactionFits, CompletionFits, KeepsStaged, ReconcileCovers, At
<1>11. "staging" \in Transactions
  BY DEF Transactions
<1> HIDE DEF SearchInv, LinkPointsInv
<1> QED
  BY <1>1, <1>5, <1>10, <1>11, BeginsKeeps

\* A staged attempt is completed, or one that is done or replaced is left.
LEMMA BeginCompletionStep ==
  ASSUME SearchInv, LinkPointsInv', Next, NEW w \in Workers, BeginCompletion(w)
  PROVE  SearchInv'
<1> USE DEF SearchInv, LinkPointsInv
<1>1. /\ worker[w].phase = "complete" /\ worker[w].phase # "idle" /\ embedding = worker[w].embedding
      /\ IF CurrentIndexing(Of(w)) THEN Begins(w, "completing", Serve(Of(w)))
                                   ELSE Phase(w, "reconcile")
      /\ UNCHANGED <<link, sequence, embedding, points, job, cleanups>>
  BY DEF BeginCompletion, At, Of
<1>2. /\ Of(w) \in Attempts /\ Of(w) \in 0 .. MaxAttempt /\ Of(w) # 0
      /\ Kind(w) = "index" /\ TaskFits(w) /\ IndexingFits(w)
      /\ embedding \in Nat
  <2>1. /\ Of(w) \in Attempts /\ Kind(w) = "index" /\ TaskFits(w) /\ IndexingFits(w)
        /\ embedding \in Nat /\ 0 \notin Attempts
    BY <1>1, Numbers DEF WorkersAgree, TaskFits, Reconciles
  <2> QED
    BY <2>1 DEF Attempts
<1>3. CASE CurrentIndexing(Of(w))
  <2> DEFINE requests == Serve(Of(w))
  <2>1. Begins(w, "completing", requests) /\ requests \in Seq(Request) /\ requests # <<>>
        /\ Elements(requests) = {Do("serve", {Of(w)}), Do("hide", Below(Of(w))),
                                 Do("hide", Above(Of(w)))}
        /\ Head(requests) = Do("serve", {Of(w)})
        /\ \A r \in Elements(requests) : Of(w) \in r.on => r.does = "serve"
    BY <1>1, <1>2, <1>3, ServeElements, ServeIsSafe
  <2>2. Present(Of(w))
    BY <1>1, <1>3 DEF Staged, At, PointsAgree
  <2> HIDE DEF requests
  <2>3. "completing" \in Transactions /\ (Indexing(w) => link.embedding = embedding)
    BY <1>1, <1>2 DEF Transactions, IndexingFits
  <2>4. /\ TaskFits(w)' /\ IndexingFits(w)' /\ ~Staged(w)'
        /\ \A v \in Workers : v # w => worker'[v] = worker[v]
        /\ worker'[w].embedding = embedding /\ Left(w)' = Elements(requests)
        /\ At(w, "completing")' /\ worker'[w].todo = requests
        /\ \A a \in Attempts : /\ Present(a)' <=> Present(a)
                               /\ Whole(a)' <=> Whole(a)
        /\ Of(w)' = Of(w)
    BY <1>1, <1>2, <2>1, <2>3, BeginsFits
  <2>5. CompletionFits(w)'
    <3>1. CurrentIndexing(Of(w))'
      BY <1>1, <1>3, <2>4 DEF CurrentIndexing, Unfinished
    <3>2. Present(Of(w))'
      BY <1>1, <2>2, <2>4 DEF Present
    <3> QED
      BY <2>1, <2>4, <3>1, <3>2 DEF CompletionFits, Do, Below, Above
  <2>6. OneStands(w)'
    BY <1>2, <2>1, <2>2, <2>4 DEF OneStands, Stands
  <2>7. TransactionFits(w)' /\ ReconcileCovers(w)'
    BY <2>4, <2>5, <2>6 DEF TransactionFits, StagingFits, KeepsIndexed, KeepsStaged,
                            ReconcileCovers, At
  <2> HIDE DEF SearchInv, LinkPointsInv
  <2> QED
    BY <1>1, <2>3, <2>4, <2>7, BeginsKeeps
<1>4. CASE ~CurrentIndexing(Of(w))
  <2>1. /\ \A v \in Workers : v # w => worker'[v] = worker[v]
        /\ worker'[w].phase = "reconcile" /\ Of(w)' = Of(w) /\ Kind(w)' = Kind(w)
        /\ worker'[w].embedding = worker[w].embedding
    BY <1>1, <1>4, PhaseMoves
  <2>2. ~CurrentIndexing(Of(w))'
    BY <1>1, <1>4, <2>1 DEF CurrentIndexing, Unfinished
  <2>3. ~Indexing(w)' /\ ~Staged(w)' /\ ~In(w)'
    BY <2>1, <2>2 DEF Indexing, Staged, At, In, Transactions
  <2>4. TaskFits(w)' /\ IndexingFits(w)'
    BY <1>1, <1>2, <2>1, <2>2, <2>3 DEF TaskFits, IndexingFits, Reconciles
  <2>5. TransactionFits(w)' /\ ReconcileCovers(w)'
    BY <2>3, NoTransaction
  <2>6. RowSame /\ JobsKept
    BY <1>1, SameRow DEF JobsKept
  <2>7. embedding' = embedding /\ points' = points /\ cleanups' = cleanups /\ link' = link
    BY <1>1
  <2> HIDE DEF SearchInv, LinkPointsInv
  <2> QED
    BY <2>1, <2>3, <2>4, <2>5, <2>6, <2>7, CalmWorker
<1> QED
  BY <1>3, <1>4

\* What a reconcile is to do: to serve the indexed attempt alone, to delete what
\* is not the link's, and nothing that may be staged.
LEMMA ReconciledFits ==
  ASSUME SearchInv
  PROVE  /\ Reconciled \in Seq(Request)
         /\ \A r \in Elements(Reconciled) :
              /\ r.does # "write"
              /\ r.does = "serve" => link.indexed # 0 /\ r.on = {link.indexed}
              /\ r.does # "serve" => link.indexed \notin r.on
              /\ r.does = "delete" => \A a \in Attempts : CurrentIndexing(a) => a \notin r.on
         /\ Found => /\ Reconciled # <<>> /\ Head(Reconciled) = Do("serve", {link.indexed})
                     /\ Do("serve", {link.indexed}) \in Elements(Reconciled)
         /\ \A a \in Attempts : a # link.indexed /\ ~CurrentIndexing(a) =>
              Absent(a) \/ \E r \in Elements(Reconciled) : r.does = "delete" /\ a \in r.on
<1> USE DEF SearchInv, LinkPointsInv
<1>1. /\ link.indexed \in 0 .. MaxAttempt /\ link.indexed \in Nat /\ link.attempt \in Nat
      /\ sequence \in Nat /\ Attempts \subseteq Nat /\ 0 \notin Attempts /\ link \in LinkType
  BY Numbers
<1>2. CASE ~Linked
  <2>1. link = NoLink /\ link.indexed = 0 /\ ~Found
    BY <1>2 DEF RowAgrees, NoLink, Found
  <2>2. Reconciled \in Seq(Request) /\ Elements(Reconciled) = {Do("delete", Attempts)}
    BY <1>2, ReconciledElements
  <2>3. \A a \in Attempts : ~CurrentIndexing(a)
    BY <1>2 DEF CurrentIndexing, Unfinished, Linked
  <2> QED
    BY <1>1, <2>1, <2>2, <2>3 DEF Do
<1>3. CASE Linked
  <2>1. /\ Reconciled \in Seq(Request) /\ Reconciled # <<>>
        /\ Elements(Reconciled) = Elements(Serve(link.indexed))
             \cup {Do("delete", Below(link.indexed)), Do("delete", Replaced)}
        /\ link.indexed # 0 => Head(Reconciled) = Do("serve", {link.indexed})
    BY <1>3, ReconciledElements
  <2>2. \A a \in Attempts : CurrentIndexing(a) =>
          a = link.attempt /\ link.indexed < a /\ Unfinished
    BY DEF CurrentIndexing, RowAgrees
  <2>3. \A a \in Attempts : CurrentIndexing(a) => a \notin Below(link.indexed) /\ a \notin Replaced
    BY <1>1, <2>2 DEF Below, Replaced, Unfinished
  <2>4. link.indexed \notin Below(link.indexed) /\ link.indexed \notin Replaced
    BY <1>1 DEF Below, Replaced
  <2>5. ASSUME NEW r \in Elements(Reconciled)
        PROVE  /\ r.does # "write"
               /\ r.does = "serve" => link.indexed # 0 /\ r.on = {link.indexed}
               /\ r.does # "serve" => link.indexed \notin r.on
               /\ r.does = "delete" => \A a \in Attempts : CurrentIndexing(a) => a \notin r.on
    <3>1. CASE r \in Elements(Serve(link.indexed))
      BY <1>1, <3>1, ServeIsSafe
    <3>2. CASE r \in {Do("delete", Below(link.indexed)), Do("delete", Replaced)}
      BY <2>3, <2>4, <3>2 DEF Do
    <3> QED
      BY <2>1, <2>5, <3>1, <3>2
  <2>6. Found => Do("serve", {link.indexed}) \in Elements(Reconciled)
    BY <1>1, <2>1, ServeElements DEF Found
  <2>7. ASSUME NEW a \in Attempts, a # link.indexed, ~CurrentIndexing(a)
        PROVE  Absent(a) \/ \E r \in Elements(Reconciled) : r.does = "delete" /\ a \in r.on
    <3>1. a \in Nat
      BY <1>1
    <3>2. CASE a < link.indexed
      <4>1. a \in Below(link.indexed)
        BY <3>2 DEF Below
      <4>2. /\ Do("delete", Below(link.indexed)).does = "delete"
            /\ a \in Do("delete", Below(link.indexed)).on
        BY <4>1 DEF Do
      <4> QED
        BY <2>1, <4>2
    <3>3. CASE a > link.attempt
      BY <1>3, <3>3 DEF RowAgrees, ToCome
    <3>4. CASE link.indexed < a /\ a <= link.attempt
      <4>1. a < link.attempt \/ link.status = "failed"
        <5>1. CASE a = link.attempt
          <6>1. ~Unfinished /\ link.status # "completed"
            BY <1>1, <2>7, <3>1, <3>4, <5>1 DEF CurrentIndexing, RowAgrees
          <6> QED
            BY <1>1, <1>3, <6>1 DEF Unfinished, Linked, LinkType
        <5> QED
          BY <1>1, <3>1, <3>4, <5>1
      <4>2. a \in Replaced
        BY <3>4, <4>1 DEF Replaced
      <4> QED
        <5>1. Do("delete", Replaced).does = "delete" /\ a \in Do("delete", Replaced).on
          BY <4>2 DEF Do
        <5> QED
          BY <2>1, <5>1
    <3> QED
      BY <1>1, <2>7, <3>1, <3>2, <3>3, <3>4
  <2> QED
    BY <2>1, <2>5, <2>6, <2>7 DEF Found
<1> QED
  BY <1>2, <1>3

\* A reconcile begins.
LEMMA BeginReconcileStep ==
  ASSUME SearchInv, LinkPointsInv', Next, NEW w \in Workers, BeginReconcile(w)
  PROVE  SearchInv'
<1> USE DEF SearchInv, LinkPointsInv
<1>1. /\ At(w, "reconcile") /\ worker[w].phase # "idle"
      /\ Begins(w, "reconciling", Reconciled)
      /\ UNCHANGED <<link, sequence, embedding, points, job, cleanups>>
  BY DEF BeginReconcile, At
<1>2. "reconciling" \in Transactions
  BY DEF Transactions
<1> DEFINE requests == Reconciled
<1>3. /\ requests \in Seq(Request)
      /\ \A r \in Elements(requests) :
           /\ r.does # "write"
           /\ r.does = "serve" => link.indexed # 0 /\ r.on = {link.indexed}
           /\ r.does # "serve" => link.indexed \notin r.on
           /\ r.does = "delete" => \A a \in Attempts : CurrentIndexing(a) => a \notin r.on
      /\ Found => /\ requests # <<>> /\ Head(requests) = Do("serve", {link.indexed})
                  /\ Do("serve", {link.indexed}) \in Elements(requests)
      /\ \A a \in Attempts : a # link.indexed /\ ~CurrentIndexing(a) =>
           Absent(a) \/ \E r \in Elements(requests) : r.does = "delete" /\ a \in r.on
  BY ReconciledFits
<1>4. Begins(w, "reconciling", requests)
  BY <1>1
<1> HIDE DEF requests
<1>5. /\ TaskFits(w)' /\ IndexingFits(w)' /\ ~Staged(w)'
      /\ \A v \in Workers : (Staged(v)' => Staged(v)) /\ Of(v)' = Of(v)
      /\ \A v \in Workers : v # w => worker'[v] = worker[v]
      /\ worker'[w].embedding = embedding /\ Left(w)' = Elements(requests)
      /\ At(w, "reconciling")' /\ worker'[w].todo = requests
      /\ \A a \in Attempts : /\ Present(a)' <=> Present(a)
                             /\ Absent(a)' <=> Absent(a)
                             /\ Whole(a)' <=> Whole(a)
                             /\ CurrentIndexing(a)' <=> CurrentIndexing(a)
      /\ Found' <=> Found
  BY <1>1, <1>2, <1>3, <1>4, BeginsFits
<1>6. KeepsIndexed(w)'
  BY <1>1, <1>3, <1>5 DEF KeepsIndexed
<1>7. KeepsStaged(w)'
  <2>1. \A v \in Workers : Staged(v) => CurrentIndexing(Of(v)) /\ Of(v) \in Attempts
    BY Numbers DEF Staged, At
  <2> QED
    BY <1>3, <1>5, <2>1 DEF KeepsStaged
<1>8. OneStands(w)'
  <2> SUFFICES ASSUME Found PROVE Stands(w)'
    BY <1>5 DEF OneStands
  <2>1. \E a \in Attempts :
          /\ Present(a)
          /\ \A r \in Elements(requests) : a \in r.on => r.does = "serve"
          /\ Whole(a) \/ (requests # <<>> /\ Head(requests) = Do("serve", {a}))
    <3>1. \A r \in Elements(requests) : link.indexed \in r.on => r.does = "serve"
      BY <1>3
    <3> HIDE DEF SearchInv, LinkPointsInv
    <3> QED
      BY <1>3, <3>1, ServingStands
  <2> QED
    BY <1>5, <2>1 DEF Stands
<1>9. ReconcileCovers(w)'
  <2>1. Covers(w)'
    BY <1>1, <1>3, <1>5 DEF Covers, Do
  <2> QED
    BY <2>1 DEF ReconcileCovers
<1>10. TransactionFits(w)'
  BY <1>5, <1>6, <1>7, <1>8 DEF TransactionFits, CompletionFits, StagingFits, At
<1> HIDE DEF SearchInv, LinkPointsInv
<1> QED
  BY <1>1, <1>2, <1>5, <1>9, <1>10, BeginsKeeps

-----------------------------------------------------------------------------
(* Transactions commit                                                     *)

\* A step of the one transaction on the points: the other workers keep fitting.
LEMMA TransactionStep ==
  ASSUME SearchInv, LinkPointsInv', Next, NEW w \in Workers, In(w), embedding' = embedding, RowMoves,
         \A v \in Workers : v # w => worker'[v] = worker[v],
         \A a \in Attempts : job[a] # "none" /\ job'[a] = "none" =>
           ~(CurrentIndexing(a) /\ link.embedding = embedding),
         \A v \in Workers : v # w /\ Indexing(v) /\ worker[v].embedding < embedding =>
           \A a \in Attempts : Absent(a) => Absent(a)',
         \A a \in Attempts : a > sequence' => Absent(a)',
         PointsAgree', IndexedStaysFound', OnlyIndexedServed', DebtsKept',
         TaskFits(w)', IndexingFits(w)', TransactionFits(w)', ReconcileCovers(w)'
  PROVE  SearchInv'
<1>1. RowAgrees' /\ ToCome'
  BY RowStays, StillToCome
<1>2. ASSUME NEW v \in Workers, v # w
      PROVE  /\ TaskFits(v)' /\ IndexingFits(v)'
             /\ TransactionFits(v)' /\ ReconcileCovers(v)'
  <2>1. worker'[v] = worker[v]
    BY <1>2
  <2>2. TaskFits(v)' /\ IndexingFits(v)'
    BY <1>2, <2>1, WorkerKept
  <2>3. TransactionFits(v)' /\ ReconcileCovers(v)'
    BY <1>2, <2>1, NoneElse DEF SearchInv
  <2> QED
    BY <2>2, <2>3
<1> QED
  BY <1>1, <1>2 DEF SearchInv, WorkersAgree, TransactionsAgree

\* A row that is left alone.
LEMMA RowLeft ==
  ASSUME link' = link, sequence' = sequence
  PROVE  RowSame /\ RowCalm /\ RowMoves
BY SameRow, SameIsCalm DEF RowCalm

\* The points of the attempt are staged.
LEMMA CommitStagingStep ==
  ASSUME SearchInv, LinkPointsInv', Next, NEW w \in Workers, CommitStaging(w)
  PROVE  SearchInv'
<1> USE DEF SearchInv, LinkPointsInv
<1>1. /\ worker[w].phase = "staging" /\ worker[w].phase # "idle" /\ worker[w].todo = <<>>
      /\ Phase(w, "complete")
      /\ link' = link /\ sequence' = sequence /\ embedding' = embedding
      /\ points' = points /\ job' = job /\ cleanups' = cleanups
  BY DEF CommitStaging, Done, At
<1>2. /\ In(w) /\ TaskFits(w) /\ IndexingFits(w) /\ StagingFits(w)
      /\ Kind(w) = "index" /\ Of(w) \in Attempts /\ worker[w].embedding = embedding
      /\ embedding \in Nat
  BY <1>1, Numbers DEF In, Transactions, WorkersAgree, TaskFits, Reconciles, TransactionsAgree,
                       TransactionFits, OnActive
<1>3. /\ \A v \in Workers : v # w => worker'[v] = worker[v]
      /\ worker'[w].phase = "complete" /\ Of(w)' = Of(w) /\ Kind(w)' = Kind(w)
      /\ worker'[w].ok = worker[w].ok /\ worker'[w].embedding = worker[w].embedding
  BY <1>1, PhaseMoves
<1>4. /\ CurrentIndexing(Of(w))' <=> CurrentIndexing(Of(w))
      /\ Linked' <=> Linked
  BY <1>1, <1>3 DEF CurrentIndexing, Unfinished, Linked
<1>5. TaskFits(w)'
  BY <1>1, <1>2, <1>3, <1>4 DEF TaskFits
<1>6. IndexingFits(w)'
  <2>1. Indexing(w)' => Indexing(w)
    BY <1>1, <1>3, <1>4 DEF Indexing
  <2> QED
    BY <1>1, <1>2, <1>3, <2>1 DEF IndexingFits, Reconciles
<1>7. TransactionFits(w)' /\ ReconcileCovers(w)'
  BY <1>3, NoTransaction DEF In, Transactions
<1>8. \A a \in Attempts : AttemptKept(a)
  BY <1>1, KeptPoints DEF PointsKept
<1>9. RowSame /\ RowCalm /\ RowMoves /\ PointsKept /\ JobsKept
  BY <1>1, <1>8, RowLeft DEF PointsKept, JobsKept
<1>10. PointsAgree'
  <2>1. ASSUME NEW u \in Workers, Staged(u)' PROVE Present(Of(u))'
    <3>1. CASE u = w
      <4>1. CurrentIndexing(Of(w)) /\ Left(w) = {}
        BY <1>1, <1>4, <2>1, <3>1 DEF Staged, Left, Elements
      <4>2. Present(Of(w))
        BY <1>1, <1>2, <4>1 DEF StagingFits, At
      <4> QED
        BY <1>1, <1>3, <3>1, <4>2 DEF Present
    <3>2. CASE u # w
      <4>1. worker'[u] = worker[u] /\ Of(u)' = Of(u)
        BY <1>3, <3>2 DEF Of
      <4>2. Staged(u)
        BY <1>1, <2>1, <4>1 DEF Staged, At, CurrentIndexing, Unfinished
      <4>3. Present(Of(u))
        BY <4>2 DEF PointsAgree
      <4> QED
        BY <1>1, <4>1, <4>3 DEF Present
    <3> QED
      BY <3>1, <3>2
  <2>2. (Found' <=> Found) /\ (Unfinished' <=> Unfinished)
    BY <1>1 DEF Found, Unfinished
  <2> QED
    BY <1>1, <2>1, <2>2 DEF PointsAgree, Present, Absent
<1>11. IndexedStaysFound' /\ OnlyIndexedServed'
  BY <1>1 DEF IndexedStaysFound, OnlyIndexedServed, Whole, Unserved, Found
<1>12. DebtsKept'
  <2>1. cleanups \subseteq cleanups'
    BY <1>1
  <2> HIDE DEF SearchInv, LinkPointsInv
  <2> QED
    BY <1>1, <1>9, <2>1, DebtsStay
<1>13. /\ \A a \in Attempts : a > sequence' => Absent(a)'
       /\ \A a \in Attempts : Absent(a) => Absent(a)'
       /\ \A a \in Attempts : ~(job[a] # "none" /\ job'[a] = "none")
  BY <1>1, <1>8 DEF AttemptKept, ToCome
<1> HIDE DEF SearchInv, LinkPointsInv
<1> QED
  BY <1>1, <1>2, <1>3, <1>5, <1>6, <1>7, <1>9, <1>10, <1>11, <1>12, <1>13, TransactionStep

\* The attempt is indexed: it is served, others are not, and its job is left.
LEMMA CommitCompletionStep ==
  ASSUME SearchInv, LinkPointsInv', Next, NEW w \in Workers, CommitCompletion(w)
  PROVE  SearchInv'
<1> USE DEF SearchInv, LinkPointsInv
<1>1. /\ worker[w].phase = "completing" /\ worker[w].phase # "idle" /\ worker[w].todo = <<>>
      /\ Phase(w, "reconcile")
      /\ link' = [link EXCEPT !.status = "completed", !.indexed = Of(w), !.home = embedding]
      /\ sequence' = sequence /\ embedding' = embedding
      /\ points' = points /\ job' = job /\ cleanups' = cleanups /\ link \in LinkType
  BY Numbers DEF CommitCompletion, Done, At, Of
<1>2. /\ In(w) /\ TaskFits(w) /\ IndexingFits(w) /\ CompletionFits(w)
      /\ Kind(w) = "index" /\ Of(w) \in Attempts /\ worker[w].embedding = embedding
      /\ Attempts \subseteq Nat /\ 0 \notin Attempts
  BY <1>1, Numbers DEF In, Transactions, WorkersAgree, TaskFits, Reconciles, TransactionsAgree,
                       TransactionFits, OnActive
<1>3. /\ CurrentIndexing(Of(w)) /\ Present(Of(w)) /\ Whole(Of(w))
      /\ \A a \in Attempts \ {Of(w)} : Unserved(a)
  <2>1. Left(w) = {}
    BY <1>1 DEF Left, Elements
  <2>2. /\ CurrentIndexing(Of(w)) /\ Present(Of(w)) /\ Whole(Of(w))
        /\ \A a \in Below(Of(w)) \cup Above(Of(w)) : Unserved(a)
    BY <1>1, <1>2, <2>1 DEF CompletionFits, At
  <2>3. ASSUME NEW a \in Attempts \ {Of(w)}
        PROVE  a \in Below(Of(w)) \cup Above(Of(w))
    <3>1. a \in Nat /\ Of(w) \in Nat /\ a # Of(w)
      BY <1>2
    <3>2. a < Of(w) \/ a > Of(w)
      BY <3>1
    <3> QED
      BY <3>2 DEF Below, Above
  <2> QED
    BY <2>2, <2>3
<1>4. /\ link'.status = "completed" /\ link'.indexed = Of(w) /\ link'.home = embedding
      /\ link'.attempt = link.attempt /\ link'.embedding = link.embedding
      /\ ~Unfinished' /\ Linked /\ Unfinished
  BY <1>1, <1>3 DEF LinkType, Unfinished, CurrentIndexing, Linked
<1>5. RowMoves
  BY <1>1, <1>4 DEF RowMoves
<1>6. /\ \A v \in Workers : v # w => worker'[v] = worker[v]
      /\ worker'[w].phase = "reconcile" /\ Of(w)' = Of(w) /\ Kind(w)' = Kind(w)
      /\ worker'[w].embedding = worker[w].embedding
  BY <1>1, PhaseMoves
<1>7. \A v \in Workers : ~Indexing(v)' /\ ~Staged(v)'
  BY <1>4 DEF Indexing, Staged, CurrentIndexing
<1>8. TaskFits(w)' /\ IndexingFits(w)'
  BY <1>1, <1>2, <1>6, <1>7 DEF TaskFits, IndexingFits, Reconciles
<1>9. TransactionFits(w)' /\ ReconcileCovers(w)'
  BY <1>6, NoTransaction DEF In, Transactions
<1>10. PointsAgree' /\ IndexedStaysFound' /\ OnlyIndexedServed'
  <2>1. Found' => Present(link.indexed)' /\ Whole(link.indexed)'
    BY <1>1, <1>3, <1>4 DEF Present, Whole
  <2>2. \A a \in Attempts \ {Of(w)} : Unserved(a)'
    BY <1>1, <1>3 DEF Unserved
  <2>3. \E a \in Attempts : Whole(a)'
    BY <1>1, <1>2, <1>3 DEF Whole
  <2> QED
    BY <1>1, <1>4, <1>7, <2>1, <2>2, <2>3 DEF PointsAgree, IndexedStaysFound, OnlyIndexedServed
<1>11. DebtsKept'
  <2>1. job[Of(w)] # "none"
    <3>1. Indexing(w)
      BY <1>1, <1>2, <1>3 DEF Indexing
    <3> QED
      BY <1>1, <1>2, <3>1 DEF IndexingFits
  <2> QED
    BY <1>1, <1>2, <2>1 DEF DebtsKept
<1>12. /\ \A a \in Attempts : a > sequence' => Absent(a)'
       /\ \A a \in Attempts : Absent(a) => Absent(a)'
       /\ \A a \in Attempts : ~(job[a] # "none" /\ job'[a] = "none")
  BY <1>1 DEF Absent, ToCome
<1> HIDE DEF SearchInv, LinkPointsInv
<1> QED
  BY <1>1, <1>2, <1>5, <1>6, <1>8, <1>9, <1>10, <1>11, <1>12, TransactionStep

\* A reconcile is done, for better or worse: what it was to do is done.
LEMMA CommitReconcileStep ==
  ASSUME SearchInv, LinkPointsInv', Next, NEW w \in Workers, CommitReconcile(w)
  PROVE  SearchInv'
<1> USE DEF SearchInv, LinkPointsInv
<1>1. /\ worker[w].phase = "reconciling" /\ worker[w].phase # "idle" /\ worker[w].todo = <<>>
      /\ link' = link /\ sequence' = sequence /\ embedding' = embedding /\ points' = points
  BY Zenon DEF CommitReconcile, Done, At
<1>2. worker[w].ok \in BOOLEAN /\ Ends(w, worker[w].ok)
  <2>1. worker[w].ok \in BOOLEAN
    BY <1>1, Numbers
  <2>2. Ends(w, worker[w].ok)
    BY Zenon DEF CommitReconcile
  <2> QED
    BY <2>1, <2>2
<1>3. /\ \A v \in Workers : v # w => worker'[v] = worker[v]
      /\ worker'[w].phase = "idle"
      /\ \A a \in Attempts : job[a] # "none" /\ job'[a] = "none" =>
           worker[w].ok /\ Kind(w) \in {"index", "exhaust"} /\ a = Of(w)
      /\ cleanups' \subseteq cleanups
      /\ \A a \in cleanups : a \notin cleanups' => worker[w].ok /\ Kind(w) = "clean" /\ a = Of(w)
  BY <1>1, <1>2, EndsMoves
<1>4. /\ In(w) /\ TaskFits(w) /\ IndexingFits(w) /\ ReconcileCovers(w) /\ Reconciles(w)
      /\ 0 \notin Attempts
  BY <1>1, Numbers DEF In, Transactions, WorkersAgree, TransactionsAgree, Reconciles
<1>5. ASSUME NEW a \in Attempts, job[a] # "none", job'[a] = "none"
      PROVE  ~(CurrentIndexing(a) /\ link.embedding = embedding)
  <2> SUFFICES ASSUME CurrentIndexing(a), link.embedding = embedding PROVE FALSE
    OBVIOUS
  <2>1. worker[w].ok /\ Kind(w) \in {"index", "exhaust"} /\ a = Of(w)
    BY <1>3, <1>5
  <2>2. CASE Kind(w) = "index"
    BY <1>1, <1>4, <2>1, <2>2 DEF Indexing, IndexingFits
  <2>3. CASE Kind(w) = "exhaust"
    BY <1>1, <1>4, <2>1, <2>3 DEF TaskFits
  <2> QED
    BY <2>1, <2>2, <2>3
<1>6. /\ TaskFits(w)' /\ IndexingFits(w)' /\ ~In(w)' /\ ~Staged(w)' /\ ~Indexing(w)'
  BY <1>3 DEF TaskFits, IndexingFits, Indexing, In, Transactions, Staged, At
<1>7. TransactionFits(w)' /\ ReconcileCovers(w)'
  BY <1>6, NoTransaction
<1>8. RowCalm /\ RowMoves /\ PointsKept
  BY <1>1, RowLeft, KeptPoints
<1>9. NothingNew
  <2> SUFFICES ASSUME NEW u \in Workers, u # w
               PROVE  /\ Indexing(u)' => Indexing(u) /\ worker'[u].embedding = worker[u].embedding
                      /\ Staged(u)' => Staged(u) /\ Of(u)' = Of(u)
    BY <1>6 DEF NothingNew
  <2>1. worker'[u] = worker[u] /\ Of(u)' = Of(u) /\ Kind(u)' = Kind(u)
    BY <1>3 DEF Of, Kind
  <2> QED
    BY <1>1, <2>1 DEF Indexing, Staged, At, CurrentIndexing, Unfinished
<1>10. /\ PointsAgree' /\ IndexedStaysFound' /\ OnlyIndexedServed'
       /\ \A a \in Attempts : a > sequence' => Absent(a)'
  BY <1>1, <1>8, <1>9, ContextKept
<1>11. DebtsKept'
  <2> SUFFICES ASSUME ~Unfinished, \A a \in Attempts : job'[a] = "none", cleanups' = {}
               PROVE  Clean'
    BY <1>1 DEF DebtsKept, Unfinished
  <2>1. ~Debt(w)
    BY <1>3 DEF Debt
  <2>2. Covers(w) /\ Left(w) = {}
    BY <1>1, <1>4, <2>1 DEF ReconcileCovers, At, Left, Elements
  <2>3. Found => Whole(link.indexed)
    BY <2>2 DEF Covers
  <2>4. ASSUME NEW a \in Attempts, ~(Found /\ a = link.indexed) PROVE Absent(a)
    <3>1. CASE a = link.indexed
      BY <1>4, <2>4, <3>1 DEF PointsAgree, Found
    <3>2. CASE a # link.indexed
      <4>1. ~CurrentIndexing(a)
        BY DEF CurrentIndexing
      <4> QED
        BY <2>2, <3>2, <4>1 DEF Covers
    <3> QED
      BY <3>1, <3>2
  <2> QED
    BY <1>1, <2>3, <2>4 DEF Clean, Found, Whole, Absent
<1>12. \A a \in Attempts : Absent(a) => Absent(a)'
  BY <1>8 DEF PointsKept, AttemptKept
<1> HIDE DEF SearchInv, LinkPointsInv
<1> QED
  BY <1>1, <1>3, <1>4, <1>5, <1>6, <1>7, <1>8, <1>10, <1>11, <1>12, TransactionStep

-----------------------------------------------------------------------------
(* Requests, done or broken off                                            *)

\* What the next request of a transaction is.
LEMMA HeadFits ==
  ASSUME SearchInv, NEW w \in Workers, In(w), worker[w].todo # <<>>,
         NEW r, r = Head(worker[w].todo)
  PROVE  /\ r \in Request /\ r \in Left(w) /\ r.on \subseteq Attempts
         /\ Tail(worker[w].todo) \in Seq(Request)
         /\ Left(w) = {r} \cup Elements(Tail(worker[w].todo))
         /\ worker[w].phase # "idle" /\ worker[w].embedding = embedding
         /\ Of(w) \in Attempts /\ Of(w) <= sequence
         /\ \A v \in Workers : Staged(v) => ~(r.does = "delete" /\ Of(v) \in r.on)
         /\ Found => ~(r.does \in {"delete", "hide"} /\ link.indexed \in r.on /\ ~At(w, "completing"))
         /\ Found => ~(r.does = "delete" /\ link.indexed \in r.on)
         /\ r.does = "write" =>
              /\ At(w, "staging") /\ r.on = {Of(w)} /\ link.indexed < Of(w)
              /\ link.status # "completed"
              /\ CurrentIndexing(Of(w)) => link.embedding = embedding
              /\ \A v \in Workers : Indexing(v) => worker[v].embedding = embedding
         /\ ~At(w, "completing") /\ r.does = "serve" => link.indexed = 0 \/ r.on = {link.indexed}
         /\ link.status = "completed" => At(w, "reconciling")
         /\ ~Unfinished => job[Of(w)] # "none" \/ At(w, "reconciling")
<1> USE DEF SearchInv, LinkPointsInv
<1>1. /\ worker[w].phase # "idle" /\ worker[w].embedding = embedding
      /\ worker[w].phase \in {"staging", "completing", "reconciling"}
  BY DEF In, Transactions, OnActive
<1>2. worker[w].todo \in Seq(Request)
  BY <1>1, Numbers
<1>3. /\ r \in Request /\ r \in Left(w) /\ Tail(worker[w].todo) \in Seq(Request)
      /\ Left(w) = {r} \cup Elements(Tail(worker[w].todo))
  BY <1>2, TailElements DEF Left
<1>4. r.on \subseteq Attempts /\ r.does \in {"serve", "hide", "delete", "write"}
  BY <1>3 DEF Request
<1>5. /\ Of(w) \in Attempts /\ TaskFits(w) /\ IndexingFits(w) /\ TransactionFits(w)
      /\ 0 \notin Attempts
  BY <1>1, Numbers DEF WorkersAgree, TransactionsAgree
<1>6. Of(w) <= sequence
  BY <1>1, <1>5 DEF TaskFits
<1>7. CASE At(w, "staging")
  <2>1. /\ job[Of(w)] # "none" /\ link.status # "completed" /\ link.indexed < Of(w)
        /\ \A v \in Workers : Indexing(v) => worker[v].embedding = embedding
        /\ r.does # "delete" /\ (r.does = "write" => r.on = {Of(w)})
    BY <1>3, <1>5, <1>7 DEF TransactionFits, StagingFits
  <2>2. /\ r.does = "serve" => link.indexed = 0 \/ r.on = {link.indexed}
        /\ r.does # "serve" => link.indexed \notin r.on
    BY <1>3, <1>5, <1>7 DEF TransactionFits, KeepsIndexed
  <2>3. CurrentIndexing(Of(w)) => link.embedding = embedding
    <3>1. Kind(w) = "index"
      BY <1>5, <1>7 DEF TaskFits, At, Reconciles
    <3> QED
      BY <1>1, <1>5, <1>7, <3>1 DEF IndexingFits, Indexing, At
  <2> QED
    BY <1>1, <1>3, <1>4, <1>5, <1>6, <1>7, <2>1, <2>2, <2>3
<1>8. CASE At(w, "completing")
  <2>1. /\ CurrentIndexing(Of(w))
        /\ r \in {Do("serve", {Of(w)}), Do("hide", Below(Of(w))), Do("hide", Above(Of(w)))}
    BY <1>3, <1>5, <1>8 DEF TransactionFits, CompletionFits
  <2>2. r.does \in {"serve", "hide"}
    BY <2>1 DEF Do
  <2>3. Unfinished /\ link.status # "completed"
    BY <2>1 DEF CurrentIndexing, Unfinished
  <2> QED
    BY <1>1, <1>3, <1>4, <1>5, <1>6, <1>8, <2>2, <2>3
<1>9. CASE At(w, "reconciling")
  <2>1. /\ r.does = "serve" => link.indexed = 0 \/ r.on = {link.indexed}
        /\ r.does # "serve" => link.indexed \notin r.on
    BY <1>3, <1>5, <1>9 DEF TransactionFits, KeepsIndexed
  <2>2. /\ r.does # "write"
        /\ r.does = "delete" => \A v \in Workers : Staged(v) => Of(v) \notin r.on
    BY <1>3, <1>5, <1>9 DEF TransactionFits, KeepsStaged
  <2> QED
    BY <1>1, <1>3, <1>4, <1>5, <1>6, <1>9, <2>1, <2>2
<1> QED
  BY <1>1, <1>7, <1>8, <1>9 DEF At

\* Whatever a request gets done, what search relies on stays.
LEMMA HeadKeeps ==
  ASSUME SearchInv, NEW w \in Workers, In(w), worker[w].todo # <<>>,
         NEW r, r = Head(worker[w].todo), RequestMoves(r),
         link' = link, sequence' = sequence, embedding' = embedding, JobsKept, cleanups' = cleanups,
         \A v \in Workers : Staged(v)' => Staged(v) /\ Of(v)' = Of(v)
  PROVE  /\ PointsAgree' /\ IndexedStaysFound' /\ OnlyIndexedServed' /\ DebtsKept'
         /\ \A a \in Attempts : a > sequence' => Absent(a)'
         /\ \A v \in Workers : v # w /\ Indexing(v) /\ worker[v].embedding < embedding =>
              \A a \in Attempts : Absent(a) => Absent(a)'
<1> USE DEF SearchInv, LinkPointsInv
<1>1. /\ r \in Request /\ r \in Left(w) /\ r.on \subseteq Attempts
      /\ Of(w) \in Attempts /\ Of(w) <= sequence
      /\ \A v \in Workers : Staged(v) => ~(r.does = "delete" /\ Of(v) \in r.on)
      /\ Found => ~(r.does \in {"delete", "hide"} /\ link.indexed \in r.on /\ ~At(w, "completing"))
      /\ Found => ~(r.does = "delete" /\ link.indexed \in r.on)
      /\ r.does = "write" =>
           /\ At(w, "staging") /\ r.on = {Of(w)} /\ link.indexed < Of(w)
           /\ link.status # "completed"
           /\ CurrentIndexing(Of(w)) => link.embedding = embedding
           /\ \A v \in Workers : Indexing(v) => worker[v].embedding = embedding
      /\ ~At(w, "completing") /\ r.does = "serve" => link.indexed = 0 \/ r.on = {link.indexed}
      /\ link.status = "completed" => At(w, "reconciling")
      /\ ~Unfinished => job[Of(w)] # "none" \/ At(w, "reconciling")
  BY HeadFits
<1>2. /\ Attempts \subseteq Nat /\ 0 \notin Attempts /\ embedding \in Nat /\ sequence \in Nat
      /\ link.indexed \in Nat /\ link.indexed \in 0 .. MaxAttempt
      /\ r.does \in {"serve", "hide", "delete", "write"}
      /\ \A a \in 0 .. MaxAttempt : a # 0 => a \in Attempts
      /\ link.attempt \in 0 .. MaxAttempt
  BY <1>1, Numbers DEF Request
<1>3. \A a \in Attempts :
        /\ a \notin r.on => AttemptKept(a)
        /\ r.does \in {"serve", "hide"} => (Present(a)' <=> Present(a)) /\ (Absent(a)' <=> Absent(a))
        /\ r.does = "serve" => (Whole(a) => Whole(a)')
        /\ r.does = "write" => (Present(a) => Present(a)')
        /\ r.does = "delete" => (Absent(a) => Absent(a)')
        /\ r.does # "serve" => (Unserved(a) => Unserved(a)')
  BY DEF RequestMoves
<1>4. \A a \in Attempts : a \notin r.on =>
        /\ Present(a)' <=> Present(a)
        /\ Absent(a)' <=> Absent(a)
        /\ Whole(a)' <=> Whole(a)
        /\ Unserved(a)' <=> Unserved(a)
  BY <1>3 DEF AttemptKept
<1>5. /\ (Found' <=> Found) /\ (Unfinished' <=> Unfinished)
      /\ Found => link.indexed \in Attempts
  BY <1>2 DEF Found, Unfinished
<1>6. \A a \in Attempts : Absent(a) /\ ~(r.does = "write" /\ a = Of(w)) => Absent(a)'
  BY <1>1, <1>2, <1>3, <1>4
<1>7. \A a \in Attempts : Present(a) /\ ~(r.does = "delete" /\ a \in r.on) => Present(a)'
  BY <1>2, <1>3, <1>4
<1>8. PointsAgree'
  <2>1. ASSUME NEW u \in Workers, Staged(u)' PROVE Present(Of(u))'
    <3>1. Staged(u) /\ Of(u)' = Of(u) /\ Present(Of(u))
      BY <2>1 DEF PointsAgree
    <3>2. Of(u) \in Attempts
      BY <3>1, Numbers DEF Staged, At
    <3>3. \A a \in Attempts : a = Of(u) => Present(a)'
      BY <1>1, <1>7, <3>1
    <3> QED
      BY <3>1, <3>2, <3>3 DEF Present
  <2>2. Found' => Present(link.indexed)'
    <3>1. \A a \in Attempts : Found /\ a = link.indexed => Present(a)'
      BY <1>1, <1>7 DEF PointsAgree
    <3> QED
      BY <1>5, <3>1 DEF Present
  <2>3. link'.indexed # 0 /\ link'.home # embedding' => Absent(link.indexed)'
    <3>1. \A a \in Attempts : link.home # embedding /\ a = link.indexed => Absent(a)'
      BY <1>1, <1>2, <1>6 DEF PointsAgree
    <3> QED
      BY <1>2, <3>1 DEF Absent
  <2>4. Unfinished' /\ link'.embedding # embedding' => Absent(link.attempt)'
    <3>1. \A a \in Attempts : Unfinished /\ link.embedding # embedding /\ a = link.attempt => Absent(a)'
      BY <1>1, <1>6 DEF PointsAgree, CurrentIndexing
    <3>2. Unfinished => link.attempt \in Attempts
      BY <1>2 DEF Numbered, Unfinished, Linked
    <3> QED
      BY <1>5, <3>1, <3>2 DEF Absent
  <2> QED
    BY <2>1, <2>2, <2>3, <2>4 DEF PointsAgree, Absent
<1>9. IndexedStaysFound'
  <2> SUFFICES ASSUME Found PROVE \E a \in Attempts : Whole(a)'
    BY <1>5 DEF IndexedStaysFound, Found
  <2>1. PICK a \in Attempts :
          /\ \A q \in Left(w) : a \in q.on => q.does = "serve"
          /\ Whole(a) \/ r = Do("serve", {a})
    BY DEF TransactionsAgree, TransactionFits, OneStands, Stands
  <2>2. CASE Whole(a)
    BY <1>1, <1>3, <1>4, <2>1, <2>2
  <2>3. CASE r = Do("serve", {a})
    <3>1. PICK b \in Attempts : Whole(b)
      BY DEF IndexedStaysFound, Found
    <3> QED
      BY <1>3, <2>3, <3>1 DEF Do
  <2> QED
    BY <2>1, <2>2, <2>3
<1>10. Found /\ ~At(w, "completing") /\ Whole(link.indexed) => Whole(link.indexed)'
  <2>1. \A a \in Attempts : a = link.indexed /\ Found /\ ~At(w, "completing") /\ Whole(a) => Whole(a)'
    <3> SUFFICES ASSUME NEW a \in Attempts, a = link.indexed, Found, ~At(w, "completing"), Whole(a)
                 PROVE  Whole(a)'
      OBVIOUS
    <3>1. CASE a \notin r.on
      BY <1>4, <3>1
    <3>2. CASE a \in r.on /\ r.does = "serve"
      BY <1>3, <3>2
    <3>3. CASE a \in r.on /\ r.does = "write"
      BY <1>1, <1>2, <3>3
    <3> QED
      BY <1>1, <1>2, <3>1, <3>2, <3>3
  <2> QED
    BY <1>5, <2>1 DEF Whole
<1>11. OnlyIndexedServed'
  <2> SUFFICES ASSUME link.status = "completed", Found
               PROVE  Whole(link.indexed)' /\ \A a \in Attempts \ {link.indexed} : Unserved(a)'
    BY <1>5 DEF OnlyIndexedServed
  <2>1. At(w, "reconciling") /\ ~At(w, "completing")
    BY <1>1 DEF At
  <2>2. Whole(link.indexed) /\ \A a \in Attempts \ {link.indexed} : Unserved(a)
    BY DEF OnlyIndexedServed
  <2>3. ASSUME NEW a \in Attempts \ {link.indexed} PROVE Unserved(a)'
    <3>1. r.does = "serve" => a \notin r.on
      BY <1>1, <2>1, <2>3 DEF Found
    <3> QED
      BY <1>3, <1>4, <2>2, <3>1
  <2> QED
    BY <1>10, <2>1, <2>2, <2>3
<1>12. DebtsKept'
  <2> SUFFICES ASSUME ~Unfinished, \A a \in Attempts : job'[a] = "none", cleanups' = {}
               PROVE  Clean'
    BY <1>5 DEF DebtsKept
  <2>1. Clean /\ At(w, "reconciling")
    BY <1>1 DEF DebtsKept, JobsKept
  <2>2. ~At(w, "completing") /\ r.does # "write"
    BY <1>1, <2>1 DEF At
  <2>3. Found => Whole(link.indexed)'
    BY <1>10, <2>1, <2>2 DEF Clean
  <2>4. \A a \in Attempts : ~(Found /\ a = link.indexed) => Absent(a)'
    BY <1>6, <2>1, <2>2 DEF Clean
  <2> QED
    BY <1>5, <2>3, <2>4 DEF Clean, Whole
<1>13. \A a \in Attempts : a > sequence' => Absent(a)'
  BY <1>1, <1>2, <1>6 DEF ToCome
<1>14. ASSUME NEW v \in Workers, Indexing(v), worker[v].embedding < embedding,
              NEW a \in Attempts, Absent(a)
       PROVE  Absent(a)'
  <2>1. worker[v].embedding \in Nat
    BY <1>14, Numbers DEF Indexing
  <2>2. r.does # "write"
    BY <1>1, <1>2, <1>14, <2>1
  <2> QED
    BY <1>6, <1>14, <2>2
<1> QED
  BY <1>8, <1>9, <1>11, <1>12, <1>13, <1>14

\* A request is done.
LEMMA RequestsStep ==
  ASSUME SearchInv, LinkPointsInv', Next, NEW w \in Workers, Requests(w)
  PROVE  SearchInv'
<1> USE DEF SearchInv, LinkPointsInv
<1> DEFINE r == Head(worker[w].todo)
           rest == Tail(worker[w].todo)
<1>1. /\ In(w) /\ worker[w].todo # <<>>
      /\ points' = [points EXCEPT ![worker[w].embedding] = Affected(r, @, Chunks)]
      /\ worker' = [worker EXCEPT ![w].todo = rest]
      /\ link' = link /\ sequence' = sequence /\ embedding' = embedding
      /\ job' = job /\ cleanups' = cleanups
  BY DEF Requests
<1> HIDE DEF r, rest
<1>2. /\ r \in Request /\ r \in Left(w) /\ r.on \subseteq Attempts
      /\ rest \in Seq(Request)
      /\ Left(w) = {r} \cup Elements(rest)
      /\ worker[w].phase # "idle" /\ worker[w].embedding = embedding
      /\ Of(w) \in Attempts
      /\ Found => ~(r.does \in {"delete", "hide"} /\ link.indexed \in r.on /\ ~At(w, "completing"))
      /\ r.does = "write" => At(w, "staging") /\ r.on = {Of(w)}
  BY <1>1, HeadFits DEF r, rest
<1>3. RequestMoves(r) /\ RequestDone(r)
  <2>1. points' = [points EXCEPT ![embedding] = Affected(r, @, Chunks)]
    BY <1>1, <1>2
  <2> QED
    BY <1>1, <1>2, <2>1, EffectOnPoints
<1>4. /\ \A v \in Workers : v # w => worker'[v] = worker[v]
      /\ worker'[w].phase = worker[w].phase /\ worker'[w].todo = rest
      /\ worker'[w].ok = worker[w].ok /\ worker'[w].embedding = worker[w].embedding
      /\ Of(w)' = Of(w) /\ Kind(w)' = Kind(w)
  <2>1. worker[w] \in Busy /\ worker \in [Workers -> {Idle} \cup Busy]
    BY <1>2, AtWork DEF TypeOK
  <2> QED
    BY <1>1, <2>1 DEF Busy, Of, Kind
<1>5. /\ \A v \in Workers : Of(v)' = Of(v) /\ Kind(v)' = Kind(v)
      /\ \A a : CurrentIndexing(a)' <=> CurrentIndexing(a)
      /\ (Found' <=> Found) /\ (Linked' <=> Linked) /\ (Unfinished' <=> Unfinished)
      /\ Left(w)' = Elements(rest)
      /\ \A phase : At(w, phase)' <=> At(w, phase)
  BY <1>1, <1>4 DEF Of, Kind, CurrentIndexing, Unfinished, Found, Linked, Left, At
<1>6. \A v \in Workers : /\ CurrentIndexing(Of(v))' <=> CurrentIndexing(Of(v))
                         /\ Indexing(v)' <=> Indexing(v)
                         /\ Staged(v)' <=> Staged(v)
                         /\ worker'[v].embedding = worker[v].embedding
  <2>1. \A v \in Workers : CurrentIndexing(Of(v))' <=> CurrentIndexing(Of(v))
    BY <1>1, <1>5 DEF CurrentIndexing, Unfinished
  <2>2. \A v \in Workers : worker'[v].phase = worker[v].phase
                           /\ worker'[v].embedding = worker[v].embedding
    BY <1>4
  <2> QED
    BY <1>1, <1>5, <2>1, <2>2 DEF Indexing, Staged, At
<1>7. /\ PointsAgree' /\ IndexedStaysFound' /\ OnlyIndexedServed' /\ DebtsKept'
      /\ \A a \in Attempts : a > sequence' => Absent(a)'
      /\ \A v \in Workers : v # w /\ Indexing(v) /\ worker[v].embedding < embedding =>
           \A a \in Attempts : Absent(a) => Absent(a)'
  <2>1. JobsKept /\ \A v \in Workers : Staged(v)' => Staged(v) /\ Of(v)' = Of(v)
    BY <1>1, <1>5, <1>6 DEF JobsKept
  <2>2. r = Head(worker[w].todo)
    BY DEF r
  <2> HIDE DEF SearchInv, LinkPointsInv
  <2> QED
    BY <1>1, <1>3, <2>1, <2>2, HeadKeeps
<1>8. /\ TaskFits(w) /\ IndexingFits(w) /\ TransactionFits(w) /\ ReconcileCovers(w)
      /\ embedding \in Nat /\ Attempts \subseteq Nat
  BY Numbers DEF WorkersAgree, TransactionsAgree
<1>9. TaskFits(w)'
  BY <1>1, <1>4, <1>5, <1>6, <1>8 DEF TaskFits, Reconciles
<1>10. IndexingFits(w)'
  BY <1>1, <1>2, <1>4, <1>5, <1>6, <1>8 DEF IndexingFits, Reconciles
<1>11. \A a \in Attempts :
         /\ a \notin r.on => /\ Present(a)' <=> Present(a)
                             /\ Absent(a)' <=> Absent(a)
                             /\ Whole(a)' <=> Whole(a)
                             /\ Unserved(a)' <=> Unserved(a)
         /\ r.does \in {"serve", "hide"} => (Present(a)' <=> Present(a)) /\ (Absent(a)' <=> Absent(a))
         /\ r.does = "serve" => (Whole(a) => Whole(a)')
         /\ r.does = "write" => (Present(a) => Present(a)')
         /\ r.does = "delete" => (Absent(a) => Absent(a)')
         /\ r.does # "serve" => (Unserved(a) => Unserved(a)')
         /\ a \in r.on => /\ r.does = "serve" => (Present(a) => Whole(a)')
                          /\ r.does = "hide" => Unserved(a)'
                          /\ r.does = "delete" => Absent(a)'
                          /\ r.does = "write" => Present(a)'
  BY <1>3 DEF RequestMoves, RequestDone, AttemptKept
<1>12. StagingFits(w)'
  <2> SUFFICES ASSUME At(w, "staging")
               PROVE  /\ rest # <<>> =>
                           /\ job'[Of(w)] # "none" /\ link'.status # "completed"
                           /\ link'.indexed < Of(w)
                           /\ \A v \in Workers : Indexing(v) => worker'[v].embedding = embedding'
                      /\ \A q \in Elements(rest) : q.does # "delete" /\ (q.does = "write" => q.on = {Of(w)})
                      /\ CurrentIndexing(Of(w)) => Do("write", {Of(w)}) \in Elements(rest) \/ Present(Of(w))'
    BY <1>4, <1>5, <1>6 DEF StagingFits
  <2>1. /\ job[Of(w)] # "none" /\ link.status # "completed" /\ link.indexed < Of(w)
        /\ \A v \in Workers : Indexing(v) => worker[v].embedding = embedding
        /\ \A q \in Left(w) : q.does # "delete" /\ (q.does = "write" => q.on = {Of(w)})
        /\ CurrentIndexing(Of(w)) => Do("write", {Of(w)}) \in Left(w) \/ Present(Of(w))
    BY <1>1, <1>8 DEF TransactionFits, StagingFits
  <2>2. \A a \in Attempts : a = Of(w) /\ (Present(a) \/ r = Do("write", {Of(w)})) => Present(a)'
    <3> SUFFICES ASSUME NEW a \in Attempts, a = Of(w), Present(a) \/ r = Do("write", {Of(w)})
                 PROVE  Present(a)'
      OBVIOUS
    <3>1. CASE r = Do("write", {Of(w)})
      <4>1. r.does = "write" /\ a \in r.on
        BY <3>1 DEF Do
      <4> QED
        BY <1>11, <4>1
    <3>2. CASE Present(a)
      <4>1. r.does \in {"serve", "hide", "write"}
        BY <1>2, <2>1 DEF Request
      <4> QED
        BY <1>11, <3>2, <4>1
    <3> QED
      BY <3>1, <3>2
  <2>3. Present(Of(w)) \/ r = Do("write", {Of(w)}) => Present(Of(w))'
    BY <1>2, <1>5, <2>2 DEF Present
  <2> QED
    BY <1>1, <1>2, <1>6, <2>1, <2>3
<1>13. CompletionFits(w)'
  <2> SUFFICES ASSUME At(w, "completing")
               PROVE  /\ CurrentIndexing(Of(w)) /\ Present(Of(w))'
                      /\ Elements(rest) \subseteq
                           {Do("serve", {Of(w)}), Do("hide", Below(Of(w))), Do("hide", Above(Of(w)))}
                      /\ Do("serve", {Of(w)}) \in Elements(rest) \/ Whole(Of(w))'
                      /\ \/ Do("hide", Below(Of(w))) \in Elements(rest)
                         \/ \A a \in Below(Of(w)) : Unserved(a)'
                      /\ \/ Do("hide", Above(Of(w))) \in Elements(rest)
                         \/ \A a \in Above(Of(w)) : Unserved(a)'
    BY <1>4, <1>5, <1>6 DEF CompletionFits
  <2>1. /\ CurrentIndexing(Of(w)) /\ Present(Of(w))
        /\ Left(w) \subseteq {Do("serve", {Of(w)}), Do("hide", Below(Of(w))), Do("hide", Above(Of(w)))}
        /\ Do("serve", {Of(w)}) \in Left(w) \/ Whole(Of(w))
        /\ Do("hide", Below(Of(w))) \in Left(w) \/ \A a \in Below(Of(w)) : Unserved(a)
        /\ Do("hide", Above(Of(w))) \in Left(w) \/ \A a \in Above(Of(w)) : Unserved(a)
    BY <1>8 DEF TransactionFits, CompletionFits
  <2>2. /\ Of(w) \notin Below(Of(w)) /\ Of(w) \notin Above(Of(w)) /\ Of(w) \in Nat
        /\ Below(Of(w)) \subseteq Attempts /\ Above(Of(w)) \subseteq Attempts
    <3>1. Of(w) \in Nat
      BY <1>2, <1>8
    <3> QED
      BY <3>1 DEF Below, Above
  <2>3. \/ r.does = "serve" /\ r.on = {Of(w)} /\ r = Do("serve", {Of(w)})
        \/ r.does = "hide" /\ r.on = Below(Of(w)) /\ r = Do("hide", Below(Of(w)))
        \/ r.does = "hide" /\ r.on = Above(Of(w)) /\ r = Do("hide", Above(Of(w)))
    BY <1>2, <2>1 DEF Do
  <2>4. \A a \in Attempts : a = Of(w) /\ Present(a) => Present(a)'
    BY <1>11, <2>3
  <2>5. \A a \in Attempts : /\ a = Of(w) /\ Present(a)
                            /\ Whole(a) \/ r = Do("serve", {Of(w)})
                            => Whole(a)'
    <3> SUFFICES ASSUME NEW a \in Attempts, a = Of(w), Present(a),
                        Whole(a) \/ r = Do("serve", {Of(w)})
                 PROVE  Whole(a)'
      OBVIOUS
    <3>1. CASE r = Do("serve", {Of(w)})
      BY <1>11, <3>1 DEF Do
    <3>2. CASE Whole(a) /\ r # Do("serve", {Of(w)})
      <4>1. a \notin r.on
        BY <2>2, <2>3, <3>2
      <4> QED
        BY <1>11, <3>2, <4>1
    <3> QED
      BY <3>1, <3>2
  <2>6. Present(Of(w))' /\ (Whole(Of(w)) \/ r = Do("serve", {Of(w)}) => Whole(Of(w))')
    <3>1. \A a \in Attempts : a = Of(w) => (Present(a) <=> Present(Of(w))) /\ (Whole(a) <=> Whole(Of(w)))
      OBVIOUS
    <3> QED
      BY <1>2, <1>5, <2>1, <2>4, <2>5, <3>1 DEF Present, Whole
  <2>7. ASSUME NEW on \in SUBSET Attempts, on \in {Below(Of(w)), Above(Of(w))},
               r = Do("hide", on) \/ \A a \in on : Unserved(a)
        PROVE  \A a \in on : Unserved(a)'
    <3> SUFFICES ASSUME NEW a \in on PROVE Unserved(a)'
      OBVIOUS
    <3>1. CASE r = Do("hide", on)
      BY <1>11, <3>1 DEF Do
    <3>2. CASE r # Do("hide", on) /\ Unserved(a)
      <4>1. r.does = "serve" => a \notin r.on
        BY <2>2, <2>3, <2>7
      <4> QED
        BY <1>11, <3>2, <4>1
    <3> QED
      BY <2>7, <3>1, <3>2
  <2>8. /\ Do("hide", Below(Of(w))) \in Elements(rest) \/ \A a \in Below(Of(w)) : Unserved(a)'
        /\ Do("hide", Above(Of(w))) \in Elements(rest) \/ \A a \in Above(Of(w)) : Unserved(a)'
    BY <1>2, <2>1, <2>2, <2>7
  <2> QED
    BY <1>2, <2>1, <2>6, <2>8
<1>14. KeepsIndexed(w)'
  BY <1>1, <1>2, <1>5, <1>8 DEF TransactionFits, KeepsIndexed
<1>15. KeepsStaged(w)'
  BY <1>2, <1>5, <1>6, <1>8 DEF TransactionFits, KeepsStaged
<1>16. OneStands(w)'
  <2> SUFFICES ASSUME Found PROVE Stands(w)'
    BY <1>5 DEF OneStands
  <2>1. PICK a \in Attempts :
          /\ Present(a)
          /\ \A q \in Left(w) : a \in q.on => q.does = "serve"
          /\ Whole(a) \/ r = Do("serve", {a})
    BY <1>1, <1>8 DEF TransactionFits, OneStands, Stands, r
  <2>2. Whole(a)'
    <3>1. CASE r = Do("serve", {a})
      BY <1>11, <2>1, <3>1 DEF Do
    <3>2. CASE Whole(a)
      BY <1>2, <1>11, <2>1, <3>2
    <3> QED
      BY <2>1, <3>1, <3>2
  <2>3. Present(a)'
    BY <2>2 DEF Whole, Present
  <2> QED
    BY <1>2, <1>5, <2>1, <2>2, <2>3 DEF Stands
<1>17. ReconcileCovers(w)'
  <2>1. Debt(w)' <=> Debt(w)
    BY <1>1, <1>4, <1>5 DEF Debt
  <2> SUFFICES ASSUME At(w, "reconciling"), Covers(w) PROVE Covers(w)'
    BY <1>4, <1>5, <1>6, <1>8, <2>1 DEF ReconcileCovers
  <2>2. ~At(w, "completing") /\ r.does # "write"
    BY <1>2 DEF At
  <2>3. ASSUME Found, NEW a \in Attempts, a = link.indexed
        PROVE  Do("serve", {a}) \in Elements(rest) \/ Whole(a)'
    <3>1. Present(a) /\ (Do("serve", {a}) \in Left(w) \/ Whole(a))
      BY <2>3 DEF PointsAgree, Covers
    <3>2. CASE Do("serve", {a}) = r
      BY <1>11, <3>1, <3>2 DEF Do
    <3>3. CASE Whole(a)
      <4>1. a \in r.on => r.does = "serve"
        BY <1>2, <2>2, <2>3 DEF Request
      <4> QED
        BY <1>11, <3>3, <4>1
    <3> QED
      BY <1>2, <3>1, <3>2, <3>3
  <2>4. ASSUME NEW a \in Attempts, a # link.indexed, ~CurrentIndexing(a)
        PROVE  Absent(a)' \/ \E q \in Elements(rest) : q.does = "delete" /\ a \in q.on
    <3>1. Absent(a) \/ \E q \in Left(w) : q.does = "delete" /\ a \in q.on
      BY <2>4 DEF Covers
    <3>2. Absent(a) => Absent(a)'
      BY <1>2, <1>11, <2>2 DEF Request
    <3>3. r.does = "delete" /\ a \in r.on => Absent(a)'
      BY <1>11
    <3> QED
      BY <1>2, <3>1, <3>2, <3>3
  <2>5. Found => Do("serve", {link.indexed}) \in Elements(rest) \/ Whole(link.indexed)'
    <3>1. Found => link.indexed \in Attempts
      BY Numbers DEF Found
    <3>2. \A a \in Attempts : Found /\ a = link.indexed =>
            Do("serve", {a}) \in Elements(rest) \/ Whole(a)'
      BY <2>3
    <3> QED
      BY <1>1, <3>1, <3>2 DEF Whole
  <2> QED
    BY <1>1, <1>5, <2>4, <2>5 DEF Covers, Do
<1>18. TransactionFits(w)'
  BY <1>12, <1>13, <1>14, <1>15, <1>16 DEF TransactionFits
<1>19. RowMoves /\ \A a \in Attempts : ~(job[a] # "none" /\ job'[a] = "none")
  BY <1>1, RowLeft
<1> HIDE DEF SearchInv, LinkPointsInv
<1> QED
  BY <1>1, <1>4, <1>7, <1>9, <1>10, <1>17, <1>18, <1>19, TransactionStep

\* A transaction is broken off, by a failure or with its process: what a request
\* got done stays, and its task is taken up again or given up.
LEMMA BreakingOff ==
  ASSUME SearchInv, LinkPointsInv', Next, NEW w \in Workers, RollBack(w) \/ (Crash(w) /\ In(w))
  PROVE  SearchInv'
<1> USE DEF SearchInv, LinkPointsInv
<1>1. /\ In(w) /\ HalfDone(w) /\ link' = link /\ sequence' = sequence /\ embedding' = embedding
      /\ Ends(w, FALSE) \/ (AfterFailure(w) /\ UNCHANGED <<job, cleanups>> /\ ~At(w, "reconciling"))
  <2>1. CASE RollBack(w)
    BY <2>1 DEF RollBack
  <2>2. CASE Crash(w) /\ In(w)
    BY <2>2, Zenon DEF Crash
  <2> QED
    BY <2>1, <2>2
<1>2. worker[w].phase # "idle" /\ worker[w].embedding = embedding
  BY <1>1 DEF In, Transactions, OnActive
<1>3. /\ \A v \in Workers : v # w => worker'[v] = worker[v]
      /\ JobsKept /\ cleanups' = cleanups
      /\ \/ worker'[w].phase = "idle"
         \/ /\ worker'[w].phase = "reconcile" /\ worker'[w].ok = FALSE
            /\ Of(w)' = Of(w) /\ Kind(w)' = Kind(w) /\ worker'[w].embedding = embedding
            /\ ~At(w, "reconciling")
  <2>1. CASE Ends(w, FALSE)
    BY <1>2, <2>1, EndsMoves DEF JobsKept
  <2>2. CASE AfterFailure(w) /\ UNCHANGED <<job, cleanups>> /\ ~At(w, "reconciling")
    <3>1. /\ \A v \in Workers : v # w => worker'[v] = worker[v]
          /\ Of(w)' = Of(w) /\ Kind(w)' = Kind(w) /\ worker'[w].embedding = embedding
          /\ worker'[w].phase = "reconcile" /\ worker'[w].ok = FALSE
      BY <1>2, <2>2, FailureMoves
    <3> QED
      BY <2>2, <3>1 DEF JobsKept
  <2> QED
    BY <1>1, <2>1, <2>2
<1>4. TaskFits(w) /\ IndexingFits(w) /\ embedding \in Nat /\ link.embedding \in Nat
  BY Numbers DEF WorkersAgree
<1>5. TaskFits(w)' /\ IndexingFits(w)'
  <2>1. CASE worker'[w].phase = "idle"
    BY <2>1 DEF TaskFits, IndexingFits, Indexing
  <2>2. CASE /\ worker'[w].phase = "reconcile" /\ worker'[w].ok = FALSE
             /\ Of(w)' = Of(w) /\ Kind(w)' = Kind(w) /\ worker'[w].embedding = embedding
    <3>1. /\ CurrentIndexing(Of(w))' <=> CurrentIndexing(Of(w))
          /\ Linked' <=> Linked
      BY <1>1, <2>2 DEF CurrentIndexing, Unfinished, Linked
    <3>2. TaskFits(w)'
      BY <1>1, <1>2, <1>4, <2>2, <3>1 DEF TaskFits, Reconciles
    <3>3. Indexing(w)' => Indexing(w) /\ Of(w) \in Attempts
      BY <1>2, <2>2, <3>1, Numbers DEF Indexing
    <3>4. IndexingFits(w)'
      BY <1>1, <1>2, <1>3, <1>4, <2>2, <3>3 DEF IndexingFits, Reconciles, RowAgrees, JobsKept
    <3> QED
      BY <3>2, <3>4
  <2> QED
    BY <1>3, <2>1, <2>2
<1>6. ~In(w)' /\ ~Staged(w)' /\ TransactionFits(w)' /\ ReconcileCovers(w)'
  <2>1. ~In(w)' /\ ~Staged(w)'
    BY <1>3 DEF In, Transactions, Staged, At
  <2> QED
    BY <2>1, NoTransaction
<1>7. \A u \in Workers : u # w => /\ Indexing(u)' => Indexing(u)
                                  /\ Staged(u)' => Staged(u) /\ Of(u)' = Of(u)
  <2> SUFFICES ASSUME NEW u \in Workers, u # w
               PROVE  (Indexing(u)' => Indexing(u)) /\ (Staged(u)' => Staged(u) /\ Of(u)' = Of(u))
    OBVIOUS
  <2>1. worker'[u] = worker[u] /\ Of(u)' = Of(u) /\ Kind(u)' = Kind(u)
    BY <1>3 DEF Of, Kind
  <2> QED
    BY <1>1, <2>1 DEF Indexing, Staged, At, CurrentIndexing, Unfinished
<1>8. /\ PointsAgree' /\ IndexedStaysFound' /\ OnlyIndexedServed' /\ DebtsKept'
      /\ \A a \in Attempts : a > sequence' => Absent(a)'
      /\ \A v \in Workers : v # w /\ Indexing(v) /\ worker[v].embedding < embedding =>
           \A a \in Attempts : Absent(a) => Absent(a)'
  <2>1. CASE worker[w].todo = <<>>
    <3>1. points' = points
      BY <1>1, <2>1 DEF HalfDone
    <3>2. RowSame /\ RowCalm /\ PointsKept /\ cleanups \subseteq cleanups'
      BY <1>1, <1>3, <3>1, RowLeft, KeptPoints
    <3>3. NothingNew
      <4>1. Indexing(w)' => worker'[w].embedding = embedding
        BY <1>3 DEF Indexing
      <4>2. \A u \in Workers : u # w => worker'[u].embedding = worker[u].embedding
        BY <1>3
      <4> QED
        BY <1>6, <1>7, <4>1, <4>2 DEF NothingNew
    <3>4. \A a \in Attempts : Absent(a) => Absent(a)'
      BY <3>2 DEF PointsKept, AttemptKept
    <3> HIDE DEF SearchInv, LinkPointsInv
    <3> QED
      BY <1>1, <1>3, <3>2, <3>3, <3>4, ContextKept, DebtsStay
  <2>2. CASE worker[w].todo # <<>>
    <3> DEFINE r == Head(worker[w].todo)
    <3>1. PICK some \in SUBSET Chunks :
            points' = [points EXCEPT ![worker[w].embedding] = Affected(r, @, some)]
      BY <1>1, <2>2 DEF HalfDone
    <3>2. r \in Request
      BY <1>1, <2>2, HeadFits
    <3> HIDE DEF r
    <3>3. RequestMoves(r)
      <4>1. points' = [points EXCEPT ![embedding] = Affected(r, @, some)]
        BY <1>2, <3>1
      <4> QED
        BY <1>1, <3>2, <4>1, EffectOnPoints
    <3>4. r = Head(worker[w].todo) /\ \A v \in Workers : Staged(v)' => Staged(v) /\ Of(v)' = Of(v)
      BY <1>6, <1>7 DEF r
    <3> HIDE DEF SearchInv, LinkPointsInv
    <3> QED
      BY <1>1, <1>3, <2>2, <3>3, <3>4, HeadKeeps
  <2> QED
    BY <2>1, <2>2
<1>9. RowMoves /\ \A a \in Attempts : ~(job[a] # "none" /\ job'[a] = "none")
  BY <1>1, <1>3, RowLeft DEF JobsKept
<1> HIDE DEF SearchInv, LinkPointsInv
<1> QED
  BY <1>1, <1>3, <1>5, <1>6, <1>8, <1>9, TransactionStep

-----------------------------------------------------------------------------
(* What search relies on                                                   *)

\* Nothing is there at first.
LEMMA SearchInit == Init => SearchInv
<1> SUFFICES ASSUME Init PROVE SearchInv
  OBVIOUS
<1>1. LinkPointsInv
  BY InitInv
<1>2. /\ link.status = "none" /\ link.attempt = 0 /\ link.indexed = 0 /\ link.embedding = 0
      /\ link.home = 0 /\ link = NoLink /\ sequence = 0 /\ embedding = 1 /\ cleanups = {}
      /\ \A a \in Attempts : job[a] = "none"
      /\ \A w \in Workers : worker[w].phase = "idle"
      /\ \A e \in Generations : points[e] = NoPoints
      /\ embedding \in Generations
  BY LinkPointsAssumption DEF Init, NoLink, Idle, Generations
<1>3. \A a \in Attempts : Absent(a)
  BY <1>2 DEF Absent, NoPoints
<1>4. ~Unfinished /\ ~Linked /\ ~Found
  BY <1>2 DEF Unfinished, Linked, Found
<1>5. RowAgrees /\ ToCome
  BY <1>2, <1>3, <1>4 DEF RowAgrees, ToCome
<1>6. WorkersAgree
  BY <1>2 DEF WorkersAgree, TaskFits, IndexingFits, Indexing
<1>7. PointsAgree /\ IndexedStaysFound /\ OnlyIndexedServed /\ DebtsKept
  BY <1>2, <1>3, <1>4 DEF PointsAgree, Staged, At, IndexedStaysFound, OnlyIndexedServed,
                          DebtsKept, Clean
<1>8. TransactionsAgree
  BY <1>2 DEF TransactionsAgree, TransactionFits, StagingFits, CompletionFits, KeepsIndexed,
              KeepsStaged, OneStands, ReconcileCovers, In, At, Transactions
<1> QED
  BY <1>1, <1>5, <1>6, <1>7, <1>8 DEF SearchInv

\* A step that changes nothing.
LEMMA SearchStutters ==
  ASSUME SearchInv, UNCHANGED vars
  PROVE  SearchInv'
<1>1. LinkPointsInv'
  BY NextInv DEF SearchInv
<1>2. UNCHANGED <<link, sequence, embedding, points, job, cleanups, worker, faults>>
  BY DEF vars
<1>3. RowAgrees'
  BY <1>2 DEF SearchInv, RowAgrees, Linked, Unfinished
<1>4. ToCome'
  BY <1>2 DEF SearchInv, ToCome, Linked, Absent
<1>5. PointsKept /\ JobsKept /\ RowSame
  BY <1>2, KeptPoints, SameRow DEF JobsKept
<1>6. NothingNew
  BY <1>2 DEF NothingNew, Indexing, Staged, At, CurrentIndexing, Unfinished, Of, Kind
<1> QED
  BY <1>1, <1>2, <1>3, <1>4, <1>5, <1>6, CalmStep

\* Every step keeps what search relies on.
LEMMA SearchNext == SearchInv /\ [Next]_vars => SearchInv'
<1> SUFFICES ASSUME SearchInv, [Next]_vars PROVE SearchInv'
  OBVIOUS
<1>1. LinkPointsInv'
  BY NextInv DEF SearchInv
<1>2. CASE UNCHANGED vars
  BY <1>2, SearchStutters
<1>3. CASE Next
  <2>1. CASE (\E e \in Generations : Link(e) \/ Admit(e)) \/ Wait \/ Unlink
    BY <1>1, <1>3, <2>1, RowSteps
  <2>2. CASE StartGeneration
    BY <1>1, <1>3, <2>2, GenerationStep
  <2>3. CASE MaintainCollections \/ \E a \in Attempts : Vanish(a)
    BY <1>1, <1>3, <2>3, CollectionSteps
  <2>4. ASSUME NEW w \in Workers, Starts(w)
        PROVE  SearchInv'
    <3>1. PICK a \in Attempts : Deliver(w, a) \/ Exhausted(w, a) \/ Swept(w, a) \/ CleanUp(w, a)
      BY <2>4 DEF Starts
    <3> QED
      BY <1>1, <1>3, <3>1, TakingSteps, FailingSteps
  <2>5. ASSUME NEW w \in Workers, Goes(w)
        PROVE  SearchInv'
    <3>1. CASE BeginStaging(w)
      BY <1>1, <1>3, <3>1, BeginStagingStep
    <3>2. CASE BeginCompletion(w)
      BY <1>1, <1>3, <3>2, BeginCompletionStep
    <3>3. CASE BeginReconcile(w)
      BY <1>1, <1>3, <3>3, BeginReconcileStep
    <3>4. CASE Requests(w)
      BY <1>1, <1>3, <3>4, RequestsStep
    <3>5. CASE CommitStaging(w)
      BY <1>1, <1>3, <3>5, CommitStagingStep
    <3>6. CASE CommitCompletion(w)
      BY <1>1, <1>3, <3>6, CommitCompletionStep
    <3>7. CASE CommitReconcile(w)
      BY <1>1, <1>3, <3>7, CommitReconcileStep
    <3>8. CASE ClaimIndexing(w)
      BY <1>1, <1>3, <3>8, ClaimStep
    <3>9. CASE Stale(w)
      BY <1>1, <1>3, <3>9, RetrySteps
    <3> QED
      BY <2>5, <3>1, <3>2, <3>3, <3>4, <3>5, <3>6, <3>7, <3>8, <3>9 DEF Goes, Transaction
  <2>6. ASSUME NEW w \in Workers, RollBack(w) \/ FailTransient(w) \/ FailFinally(w) \/ Crash(w)
        PROVE  SearchInv'
    <3>1. CASE RollBack(w) \/ (Crash(w) /\ In(w))
      BY <1>1, <1>3, <3>1, BreakingOff
    <3>2. CASE Crash(w) /\ ~In(w)
      BY <1>1, <1>3, <3>2, DyingStep
    <3>3. CASE FailTransient(w)
      BY <1>1, <1>3, <3>3, RetrySteps
    <3>4. CASE FailFinally(w)
      BY <1>1, <1>3, <3>4, FailingSteps
    <3> QED
      BY <2>6, <3>1, <3>2, <3>3, <3>4
  <2> QED
    BY <1>3, <2>1, <2>2, <2>3, <2>4, <2>5, <2>6 DEF Next
<1> QED
  BY <1>2, <1>3

\* The row, the jobs and the requests of a transaction agree with the points in
\* the active collection after every step, whatever failed on the way.
THEOREM SearchInvariant == Spec => []SearchInv
BY SearchInit, SearchNext, PTL DEF Spec

\* What is indexed for the active generation is in it.
LEMMA ServedIndexed == SearchInv => IndexedIsServed
<1> SUFFICES ASSUME SearchInv, link.status = "completed", link.embedding = embedding
             PROVE  /\ Whole(link.attempt)
                    /\ \A a \in Attempts \ {link.attempt}, k \in Chunks :
                         points[embedding][a][k] # "served"
  BY DEF IndexedIsServed
<1>1. /\ link.indexed = link.attempt /\ link.home = embedding /\ link.indexed # 0
  BY Numbers DEF SearchInv, LinkPointsInv, RowAgrees, Numbered, Linked
<1> QED
  BY <1>1 DEF SearchInv, OnlyIndexedServed, Found, Unserved

\* A link that reads indexed in the active generation has its attempt served
\* whole and no other attempt's points: commits, failures half-way, crashes and
\* late reconciles of other attempts do not disturb them (completeIndexing,
\* reconcileLinkPoints).
THEOREM IndexedServed == Spec => []IndexedIsServed
BY SearchInvariant, ServedIndexed, PTL

\* A file once indexed in the active generation is found whole until it is
\* unlinked, through every re-indexing, failed completion and crash.
THEOREM IndexedFound == Spec => []IndexedStaysFound
<1>1. SearchInv => IndexedStaysFound
  BY DEF SearchInv
<1> QED
  BY <1>1, SearchInvariant, PTL

\* When no task is left, what is in the collection is what the row says.
LEMMA QuietIsClean == SearchInv => NothingIsLeftBehind
<1> SUFFICES ASSUME SearchInv, Quiet, ~Unfinished, NEW a \in Attempts, NEW k \in Chunks
             PROVE  points[embedding][a][k] =
                      IF a = link.indexed /\ link.home = embedding THEN "served" ELSE "none"
  BY DEF NothingIsLeftBehind
<1>1. Clean
  BY DEF SearchInv, DebtsKept, Quiet
<1>2. 0 \notin Attempts
  BY Numbers DEF SearchInv, LinkPointsInv
<1> QED
  BY <1>1, <1>2 DEF Clean, Found, Whole, Absent

\* When no job, clean-up or task is left, the active collection has the indexed
\* points of the link and nothing else: no trace of replaced attempts, of
\* completions that did not commit, or of deleted links.
THEOREM NothingLeft == Spec => []NothingIsLeftBehind
BY SearchInvariant, QuietIsClean, PTL
=============================================================================
