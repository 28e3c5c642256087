---------------------------- MODULE Preparation ----------------------------
(***************************************************************************)
(* One asset is prepared: its file is processed, then indexed in every     *)
(* repository that links it (packages/preparation, apps/workers/src/asset).*)
(* Work is admitted to rows fenced by a generation or an attempt, and done *)
(* by jobs that may be delivered twice, late or never.  Runs record whose  *)
(* work it is.  Transactions are single steps but where another one can    *)
(* wait for their locks.                                                   *)
(*                                                                         *)
(* Assets share none of this but the attempt sequence.  The rows of one    *)
(* statement draw different numbers from it; only numbers of one link are  *)
(* ever compared, so one stands for them all here.                         *)
(***************************************************************************)
EXTENDS Integers

CONSTANTS
  Repos,           \* repositories
  Runs,            \* activity runs ever created
  Workers,         \* deliveries at work at once
  Requests,        \* requests that read before they admit
  NoRun, NoRepo,
  FirstEmbedding,  \* embedding generation at the start, 0 before setup
  LastEmbedding,   \* bound on embedding generations
  MaxGeneration,   \* bound on the processing generations people ask for
  MaxAttempt,      \* bound on the attempt sequence when people ask for more
  MaxSaved,        \* and when a repository is saved
  RetryLimit,      \* retryLimit of the work queues
  MayLose,         \* jobs may vanish: retention, a dead letter handler that fails
  Describes        \* whether the organisation has a utility model

ASSUME PreparationAssumption ==
  /\ NoRun \notin Runs /\ NoRepo \notin Repos
  /\ FirstEmbedding \in Nat /\ LastEmbedding \in Nat
  /\ MaxGeneration \in Nat /\ MaxAttempt \in Nat /\ MaxSaved \in Nat /\ RetryLimit \in Nat
  /\ MayLose \in BOOLEAN /\ Describes \in BOOLEAN

VARIABLES
  asset,      \* the asset's row: processing status, failure and generation
  link,       \* link[r]: the row that links it into r
  sequence,   \* block_asset_index_attempt_seq
  embedding,  \* the active embedding generation
  stored,     \* the generation that wrote the stored extraction, 0 if none
  run,        \* run[u]: its kind and the repository its member is bound to
  member,     \* member[stage][u]: how the run's stage on the asset stands
  jobs,       \* the jobs pg-boss keeps
  worker,     \* worker[w]: the delivery w works on
  saving,     \* the transaction that links the asset into a repository
  request,    \* request[q]: what a request has read and will admit
  sweep       \* the sweep: the stages read, the stranded ones, the one failed

rows == <<asset, link, sequence, run, member>>
vars == <<asset, link, sequence, embedding, stored, run, member, jobs, worker,
          saving, request, sweep>>

Stages == {"processing", "indexing"}
Statuses == {"none", "pending", "active", "completed", "failed"}
Outcomes == {"none", "pending", "completed", "failed", "replaced"}
\* again: preparing again can help; missing: the stored extraction is gone.
Failures == {"none", "again", "missing", "never"}
AnyRepo == Repos \cup {NoRepo}
AnyRun == Runs \cup {NoRun}

AssetType == [status : Statuses \cup {"deleted"}, failure : Failures, generation : Nat]
LinkType == [status : Statuses, failure : Failures, attempt : Nat, embedding : Nat]
RunType == [kind : {"unused", "upload", "retry", "gone"}, bound : AnyRepo]
StageType == [stage : Stages, repo : AnyRepo, attempt : Nat]
JobType == [stage : Stages, repo : AnyRepo, attempt : Nat, run : AnyRun,
            tries : Nat, state : {"created", "active", "dead"}]

Idle == [phase |-> "idle"]
Deliveries ==
  [phase : {"fetched", "checked", "clearing", "extracting", "writing", "written",
            "completing", "claimed", "indexing", "succeeded", "failed"},
   job : JobType, embedding : Nat]
NotSaving == [phase |-> "idle", run |-> NoRun]
Savings == [phase : {"linked", "read"}, repo : Repos, run : AnyRun, attempt : Nat,
            saw : Statuses \cup {"deleted"}]
NoRequest == [stage |-> "none"]
Asked == [stage : Stages, repo : AnyRepo, generation : Nat, auto : BOOLEAN,
          links : SUBSET [repo : Repos, attempt : Nat]]
NotSweeping == [phase |-> "idle"]
Sweeps == [phase : {"read", "stranded"}, stages : SUBSET StageType]
            \cup [phase : {"failing"}, stages : SUBSET StageType, stage : StageType,
                  run : AnyRun]

TypeOK ==
  /\ asset \in AssetType
  /\ link \in [Repos -> LinkType]
  /\ sequence \in Nat /\ embedding \in Nat /\ stored \in Nat
  /\ run \in [Runs -> RunType]
  /\ member \in [Stages -> [Runs -> Outcomes]]
  /\ jobs \subseteq JobType
  /\ worker \in [Workers -> {Idle} \cup Deliveries]
  /\ saving \in {NotSaving} \cup Savings
  /\ request \in [Requests -> {NoRequest} \cup Asked]
  /\ sweep \in {NotSweeping} \cup Sweeps
-----------------------------------------------------------------------------
Unfinished(status) == status \in {"pending", "active"}
Linked == {r \in Repos : link[r].status # "none"}

\* A slip: the generation is compared, and that it may have ended is forgotten.
CurrentGeneration(j) == asset.generation = j.attempt

CurrentProcessing(j) == asset.generation = j.attempt /\ Unfinished(asset.status)
CurrentIndexing(j) == /\ j.repo \in Repos
                      /\ link[j.repo].attempt = j.attempt
                      /\ Unfinished(link[j.repo].status)
Current(j) == IF j.stage = "processing" THEN CurrentProcessing(j) ELSE CurrentIndexing(j)

\* No transaction that completes processing holds the asset's row.
AssetRowFree == \A w \in Workers : worker[w].phase # "completing"
\* No save holds it FOR SHARE.
AssetUnshared == saving.phase # "read"
RowWritable == AssetRowFree /\ AssetUnshared
\* No save is binding the run's member to its repository.
MemberRowFree(u) == u = NoRun \/ saving.run # u

Sent(stage, r, attempt, u) ==
  [stage |-> stage, repo |-> r, attempt |-> attempt, run |-> u,
   tries |-> 0, state |-> "created"]

\* A slip: only a run that is bound to no repository is told.
SettledUnbound(stage, r, u, outcome) ==
  IF /\ u # NoRun
     /\ member[stage][u] = "pending"
     /\ run[u].bound = NoRepo
  THEN [member EXCEPT ![stage][u] = outcome]
  ELSE member

\* settleStage: what a run that was replaced keeps is its own outcome.
Settled(stage, r, u, outcome) ==
  IF /\ u # NoRun
     /\ member[stage][u] = "pending"
     /\ stage = "indexing" => run[u].bound = r
  THEN [member EXCEPT ![stage][u] = outcome]
  ELSE member

\* The attempt's fenced write fails its target, and its run's member with it.
Fails(j, u, failure) ==
  /\ IF j.stage = "processing"
     THEN /\ RowWritable
          /\ asset' = [asset EXCEPT !.status = "failed", !.failure = failure]
          /\ UNCHANGED link
     ELSE /\ link' = [link EXCEPT ![j.repo].status = "failed", ![j.repo].failure = failure]
          /\ UNCHANGED asset
  /\ member' = Settled(j.stage, j.repo, u, "failed")
  /\ UNCHANGED <<sequence, run>>
-----------------------------------------------------------------------------
(* Admissions.                                                             *)

Fresh(u) == run[u].kind = "unused"
Started(u, kind, r) == run' = [run EXCEPT ![u] = [kind |-> kind, bound |-> r]]

\* A slip: the links keep what they say of the generation before.
KeptLinks(L) == link

\* Every link waits, on a new attempt, for the file to complete.
Waiting(L) ==
  [r \in Repos |->
     IF r \in L
     THEN [link[r] EXCEPT !.status = "pending", !.failure = "none", !.attempt = sequence + 1]
     ELSE link[r]]

Drawn(L) == IF L = {} THEN sequence ELSE sequence + 1

\* A new generation replaces every run's indexing, the run's own too.
WithoutIndexing ==
  [v \in Runs |-> IF member["indexing"][v] = "pending" THEN "replaced"
                  ELSE member["indexing"][v]]

\* admitProcessing: the next generation, as u's work.
ProcessingAdmitted(u) ==
  /\ asset' = [status |-> "pending", failure |-> "none", generation |-> asset.generation + 1]
  /\ link' = Waiting(Linked)
  /\ sequence' = Drawn(Linked)
  /\ member' =
       [processing |-> [v \in Runs |-> IF v = u THEN "pending"
                                       ELSE IF member["processing"][v] = "pending"
                                            THEN "replaced"
                                       ELSE member["processing"][v]],
        indexing |-> WithoutIndexing]
  /\ jobs' = jobs \cup {Sent("processing", NoRepo, asset.generation + 1, u)}

\* admitIndexing of the links L, each for the run owner[r].  Other runs that
\* wait on them are replaced.  Before embeddings are set up there is neither
\* job nor run.
LinksAdmitted(L) ==
  [r \in Repos |->
     IF r \in L
     THEN [status |-> "pending", failure |-> "none", attempt |-> sequence + 1,
           embedding |-> embedding]
     ELSE link[r]]

MembersAdmitted(bound, L, owner) ==
  [v \in Runs |->
     IF bound[v] \notin L THEN member["indexing"][v]
     ELSE IF embedding # 0 /\ owner[bound[v]] = v THEN "pending"
     ELSE IF member["indexing"][v] = "pending" THEN "replaced"
     ELSE member["indexing"][v]]

JobsAdmitted(L, owner) ==
  IF embedding = 0 THEN jobs
  ELSE jobs \cup {Sent("indexing", r, sequence + 1, owner[r]) : r \in L}
-----------------------------------------------------------------------------
(* Requests.                                                               *)

Uploading(u) == IF u = NoRun THEN UNCHANGED run
                ELSE Fresh(u) /\ Started(u, "upload", NoRepo)

\* createAssetFromUpload: the asset, its run if it has one, its first processing.
Upload(u) ==
  /\ asset.status = "none"
  /\ ProcessingAdmitted(u)
  /\ Uploading(u)
  /\ UNCHANGED <<embedding, stored, worker, saving, request, sweep>>

\* The queue refuses the job: the asset is kept, failed.
UploadRefused(u) ==
  /\ asset.status = "none"
  /\ asset' = [status |-> "failed", failure |-> "again", generation |-> 1]
  /\ Uploading(u)
  /\ member' = [member EXCEPT !["processing"] = [v \in Runs |-> IF v = u THEN "failed" ELSE @[v]]]
  /\ UNCHANGED <<link, sequence, embedding, stored, jobs, worker, saving, request, sweep>>

\* againStage: what preparing again runs, in a repository or without one.
AgainStage(r) ==
  CASE asset.status = "failed" /\ asset.failure # "never" -> "processing"
    [] asset.status = "completed" /\ r = NoRepo -> "processing"
    [] asset.status = "completed" /\ r # NoRepo ->
         (CASE link[r].status = "completed" -> "indexing"
            [] link[r].status = "failed" /\ link[r].failure = "missing" -> "processing"
            [] link[r].status = "failed" /\ link[r].failure = "again" -> "indexing"
            [] OTHER -> "none")
    [] OTHER -> "none"

Asks(q, stage, r, L, auto) ==
  /\ request[q] = NoRequest
  /\ request' = [request EXCEPT ![q] =
                   [stage |-> stage, repo |-> r, generation |-> asset.generation, auto |-> auto,
                    links |-> {[repo |-> x, attempt |-> link[x].attempt] : x \in L}]]
  /\ UNCHANGED <<rows, embedding, stored, jobs, worker, saving, sweep>>

MayAsk == /\ asset.generation < MaxGeneration /\ sequence < MaxAttempt
          /\ \E u \in Runs : Fresh(u)

\* A person asks to prepare the asset again, in a repository or not.
AskAgain(q, r) ==
  /\ MayAsk
  /\ r = NoRepo \/ r \in Linked
  /\ AgainStage(r) # "none"
  /\ Asks(q, AgainStage(r), r, {r} \ {NoRepo}, FALSE)

\* retryFailedEmbeddings reads the failed links of the active embedding generation.
AskFailed(q) ==
  LET failed == {r \in Linked : /\ link[r].embedding = embedding
                                /\ link[r].status = "failed" /\ link[r].failure = "again"}
  IN /\ MayAsk
     /\ asset.status = "completed" /\ embedding # 0 /\ failed # {}
     /\ Asks(q, "indexing", NoRepo, failed, FALSE)

\* reconcileEmbeddings reads the links that are not of it.
AskReconcile(q) ==
  LET behind == {r \in Linked : link[r].embedding # embedding}
  IN /\ asset.status = "completed" /\ embedding # 0 /\ behind # {}
     /\ Asks(q, "indexing", NoRepo, behind, TRUE)

Answered(q) == request' = [request EXCEPT ![q] = NoRequest]

\* The generation is the one the request saw, and may be followed by another.
SeenGeneration(q) == /\ request[q].generation = asset.generation
                     /\ asset.status \in {"completed", "failed"}

\* The links on the attempt the request saw.
SeenLinks(q) == {r \in Linked : [repo |-> r, attempt |-> link[r].attempt] \in request[q].links}

\* The person's run takes the next generation; in a repository, bound to it.
AdmitProcessing(q, u) ==
  /\ request[q].stage = "processing" /\ SeenGeneration(q)
  /\ RowWritable /\ Fresh(u)
  /\ ProcessingAdmitted(u)
  /\ Started(u, "retry", request[q].repo)
  /\ Answered(q)
  /\ UNCHANGED <<embedding, stored, worker, saving, sweep>>

\* One insert cannot record two links of the asset for the run: the database
\* refuses the second row of the same run and asset.
TwiceOneMember(q) == ~request[q].auto /\ \E r, x \in SeenLinks(q) : r # x

AdmitIndexing(q, u) ==
  LET L == SeenLinks(q)
  IN /\ request[q].stage = "indexing" /\ L # {} /\ ~TwiceOneMember(q)
     /\ IF request[q].auto
        THEN u = NoRun /\ UNCHANGED run
        ELSE u \in Runs /\ Fresh(u) /\ Started(u, "retry", CHOOSE r \in L : TRUE)
     /\ link' = LinksAdmitted(L)
     /\ sequence' = Drawn(L)
     /\ member' = [member EXCEPT !["indexing"] =
                     MembersAdmitted([v \in Runs |-> run'[v].bound], L, [r \in L |-> u])]
     /\ jobs' = JobsAdmitted(L, [r \in L |-> u])
     /\ Answered(q)
     /\ UNCHANGED <<asset, embedding, stored, worker, saving, sweep>>

\* Nothing is admitted, and a run without members does not stay.
Refuse(q) ==
  /\ \/ request[q].stage = "processing" /\ ~SeenGeneration(q) /\ RowWritable
     \/ request[q].stage = "indexing" /\ (SeenLinks(q) = {} \/ TwiceOneMember(q))
  /\ Answered(q)
  /\ UNCHANGED <<rows, embedding, stored, jobs, worker, saving, sweep>>
-----------------------------------------------------------------------------
(* Saves of a repository's links, and deletions.                           *)

\* replaceBlockAssets inserts the link, not seen by others until it commits, and
\* binds the member of an upload run that is bound to no other repository.
SaveLink(r, u) ==
  /\ saving = NotSaving
  /\ asset.status \notin {"none", "deleted"} /\ r \notin Linked
  /\ sequence < MaxSaved
  /\ u # NoRun => run[u].kind = "upload" /\ run[u].bound \in {NoRepo, r}
  /\ saving' = [phase |-> "linked", repo |-> r, run |-> u, attempt |-> sequence + 1,
                saw |-> "none"]
  /\ sequence' = sequence + 1
  /\ UNCHANGED <<asset, link, run, member, embedding, stored, jobs, worker, request, sweep>>

\* A slip: the status is read without a lock.
ReadsAnyway == TRUE

\* FOR SHARE waits for a transaction that is completing the asset.
SaveMayRead == AssetRowFree

\* admitAdded reads the asset's status.
SaveReads ==
  /\ saving.phase = "linked" /\ SaveMayRead
  /\ saving' = [saving EXCEPT !.phase = "read", !.saw = asset.status]
  /\ UNCHANGED <<rows, embedding, stored, jobs, worker, request, sweep>>

\* The link of a completed asset is admitted as the run's work it was bound to.
SaveCommits ==
  LET r == saving.repo  u == saving.run
      bound == [v \in Runs |-> IF v = u THEN r ELSE run[v].bound]
      new == [status |-> "pending", failure |-> "none", attempt |-> saving.attempt,
              embedding |-> 0]
  IN /\ saving.phase = "read"
     /\ run' = [v \in Runs |-> [run[v] EXCEPT !.bound = bound[v]]]
     /\ IF saving.saw = "completed"
        THEN /\ link' = LinksAdmitted({r})
             /\ sequence' = Drawn({r})
             /\ member' = [member EXCEPT !["indexing"] =
                             MembersAdmitted(bound, {r}, [x \in {r} |-> u])]
             /\ jobs' = JobsAdmitted({r}, [x \in {r} |-> u])
        ELSE /\ link' = [link EXCEPT ![r] = new]
             /\ UNCHANGED <<sequence, member, jobs>>
     /\ saving' = NotSaving
     /\ UNCHANGED <<asset, embedding, stored, worker, request, sweep>>

\* The save fails or its process dies.
SaveAborts ==
  /\ saving # NotSaving
  /\ saving' = NotSaving
  /\ UNCHANGED <<rows, embedding, stored, jobs, worker, request, sweep>>

Gone == [status |-> "none", failure |-> "none", attempt |-> 0, embedding |-> 0]

\* A save removes the link (saves hold the organisation's lock); runs that wait for its indexing are replaced.
Unlink(r) ==
  /\ r \in Linked /\ saving = NotSaving
  /\ link' = [link EXCEPT ![r] = Gone]
  /\ member' = [member EXCEPT !["indexing"] =
                  [v \in Runs |-> IF run[v].bound = r /\ @[v] = "pending" THEN "replaced"
                                  ELSE @[v]]]
  /\ UNCHANGED <<asset, sequence, run, embedding, stored, jobs, worker, saving, request, sweep>>

\* A slip: the asset's row may go while a job writes its storage.
NobodyWritesAnywhere == TRUE

\* A job that writes the asset's storage holds its row FOR KEY SHARE.
NobodyWrites == \A w \in Workers : worker[w].phase # "writing"

\* deleteResources: links and members go with the asset.
DeleteAsset ==
  /\ asset.status \notin {"none", "deleted"}
  /\ NobodyWrites /\ AssetRowFree /\ saving = NotSaving
  /\ asset' = [asset EXCEPT !.status = "deleted"]
  /\ link' = [r \in Repos |-> Gone]
  /\ member' = [s \in Stages |-> [v \in Runs |-> "none"]]
  /\ UNCHANGED <<sequence, run, embedding, stored, jobs, worker, saving, request, sweep>>

\* deleteAccounts hands the asset over; the user's run goes, with its members.
DeleteAccount(u) ==
  /\ run[u].kind \in {"upload", "retry"} /\ MemberRowFree(u)
  /\ run' = [run EXCEPT ![u] = [kind |-> "gone", bound |-> NoRepo]]
  /\ member' = [s \in Stages |-> [member[s] EXCEPT ![u] = "none"]]
  /\ UNCHANGED <<asset, link, sequence, embedding, stored, jobs, worker, saving, request, sweep>>

\* configureEmbeddings, reembedEmbeddings.
StartEmbedding ==
  /\ embedding < LastEmbedding
  /\ embedding' = embedding + 1
  /\ UNCHANGED <<rows, stored, jobs, worker, saving, request, sweep>>
-----------------------------------------------------------------------------
(* Jobs: pg-boss delivers a job, and again when its worker fails, dies or  *)
(* outlives the expiry.                                                    *)

Phase(w, phase) == worker' = [worker EXCEPT ![w].phase = phase]
Job(w) == worker[w].job
At(w, phase) == worker[w].phase = phase

Fetch(w, j) ==
  /\ worker[w] = Idle
  /\ j \in jobs /\ j.state = "created"
  /\ jobs' = (jobs \ {j}) \cup {[j EXCEPT !.state = "active"]}
  /\ worker' = [worker EXCEPT ![w] =
                  [phase |-> "fetched", job |-> [j EXCEPT !.state = "active"],
                   embedding |-> 0]]
  /\ UNCHANGED <<rows, embedding, stored, saving, request, sweep>>

Retried(j) == IF j.tries < RetryLimit
              THEN [j EXCEPT !.state = "created", !.tries = @ + 1]
              ELSE [j EXCEPT !.state = "dead"]

\* pg-boss takes a result only of a delivery that is still the job's.
Report(w) ==
  /\ worker[w].phase \in {"succeeded", "failed"}
  /\ jobs' = (jobs \ {Job(w)}) \cup
               {Retried(j) : j \in IF At(w, "failed") THEN jobs \cap {Job(w)} ELSE {}}
  /\ worker' = [worker EXCEPT ![w] = Idle]
  /\ UNCHANGED <<rows, embedding, stored, saving, request, sweep>>

Expire(j) ==
  /\ j \in jobs /\ j.state = "active"
  /\ jobs' = (jobs \ {j}) \cup {Retried(j)}
  /\ UNCHANGED <<rows, embedding, stored, worker, saving, request, sweep>>

\* A worker dies; what it was writing to storage may still get there.
Crash(w) ==
  /\ worker[w] # Idle
  /\ worker' = [worker EXCEPT ![w] = Idle]
  /\ stored' \in {stored} \cup (IF At(w, "writing") THEN {Job(w).attempt} ELSE {})
  /\ UNCHANGED <<rows, embedding, jobs, saving, request, sweep>>

\* markProcessingExhausted, markIndexingExhausted.
Exhausted(j) ==
  /\ j \in jobs /\ j.state = "dead"
  /\ IF Current(j) THEN Fails(j, j.run, "again") ELSE UNCHANGED rows
  /\ jobs' = jobs \ {j}
  /\ UNCHANGED <<embedding, stored, worker, saving, request, sweep>>

\* Retention removes a job, or its dead letter handler fails to the end.
Vanish(j) ==
  /\ MayLose
  /\ j \in jobs /\ j.state # "active"
  /\ jobs' = jobs \ {j}
  /\ UNCHANGED <<rows, embedding, stored, worker, saving, request, sweep>>
-----------------------------------------------------------------------------
(* A delivery of a processing job.                                         *)

Claim(w) ==
  /\ At(w, "fetched") /\ Job(w).stage = "processing" /\ RowWritable
  /\ IF CurrentProcessing(Job(w))
     THEN /\ asset' = [asset EXCEPT !.status = "active", !.failure = "none"]
          /\ Phase(w, "clearing")
     ELSE Phase(w, "succeeded") /\ UNCHANGED asset
  /\ UNCHANGED <<link, sequence, run, member, embedding, stored, jobs, saving, request, sweep>>

\* What an earlier attempt stored is deleted, whoever is current by now.
Clear(w) ==
  /\ At(w, "clearing")
  /\ stored' = 0
  /\ Phase(w, "extracting")
  /\ UNCHANGED <<rows, embedding, jobs, saving, request, sweep>>

\* writeWhileProcessing: the attempt is current when the write begins.
BeginWrite(w) ==
  /\ At(w, "extracting")
  /\ Phase(w, IF CurrentProcessing(Job(w)) THEN "writing" ELSE "succeeded")
  /\ UNCHANGED <<rows, embedding, stored, jobs, saving, request, sweep>>

EndWrite(w) ==
  /\ At(w, "writing")
  /\ stored' = Job(w).attempt
  /\ Phase(w, "written")
  /\ UNCHANGED <<rows, embedding, jobs, saving, request, sweep>>

\* completeProcessing updates the row, and holds it while it goes on.
BeginCompletion(w) ==
  /\ At(w, "written") /\ RowWritable
  /\ Phase(w, IF CurrentProcessing(Job(w)) THEN "completing" ELSE "succeeded")
  /\ UNCHANGED <<rows, embedding, stored, jobs, saving, request, sweep>>

\* Metadata is admitted as the run's work, so a run that is gone fails it all.
RunMissing(u) == Describes /\ u # NoRun /\ run[u].kind = "gone"

\* queueAfterProcessing: indexing is the run's work where its member is bound.
Complete(w) ==
  LET u == Job(w).run
      owner == [r \in Repos |-> IF u # NoRun /\ run[u].bound = r THEN u ELSE NoRun]
  IN /\ At(w, "completing") /\ MemberRowFree(u) /\ ~RunMissing(u)
     /\ asset' = [asset EXCEPT !.status = "completed", !.failure = "none"]
     /\ link' = LinksAdmitted(Linked)
     /\ sequence' = Drawn(Linked)
     /\ member' = [Settled("processing", NoRepo, u, "completed") EXCEPT !["indexing"] =
                     MembersAdmitted([v \in Runs |-> run[v].bound], Linked, owner)]
     /\ jobs' = JobsAdmitted(Linked, owner)
     /\ Phase(w, "succeeded")
     /\ UNCHANGED <<run, embedding, stored, saving, request, sweep>>

\* The completion is rolled back: the run it must record is gone, or the save
\* that holds its member waits for the asset's row in turn; then it is tried again.
CompletionFails(w) ==
  LET u == Job(w).run
  IN /\ At(w, "completing")
     /\ \/ MemberRowFree(u) /\ RunMissing(u) /\ Phase(w, "failed")
        \/ ~MemberRowFree(u) /\ saving.phase = "linked" /\ Phase(w, "written")
     /\ UNCHANGED <<rows, embedding, stored, jobs, saving, request, sweep>>
-----------------------------------------------------------------------------
(* A delivery of an indexing job.  Its points are modelled in LinkPoints.  *)

CheckAsset(w) ==
  /\ At(w, "fetched") /\ Job(w).stage = "indexing"
  /\ worker' = [worker EXCEPT
       ![w].phase = IF asset.status = "completed" /\ embedding # 0 THEN "checked"
                    ELSE "succeeded",
       ![w].embedding = embedding]
  /\ UNCHANGED <<rows, embedding, stored, jobs, saving, request, sweep>>

ClaimLink(w) ==
  LET j == Job(w)
  IN /\ At(w, "checked")
     /\ IF CurrentIndexing(j) /\ link[j.repo].embedding = worker[w].embedding
        THEN /\ link' = [link EXCEPT ![j.repo].status = "active", ![j.repo].failure = "none"]
             /\ Phase(w, "claimed")
        ELSE Phase(w, "succeeded") /\ UNCHANGED link
     /\ UNCHANGED <<asset, sequence, run, member, embedding, stored, jobs, saving,
                    request, sweep>>

ReadExtraction(w) ==
  /\ At(w, "claimed") /\ stored # 0
  /\ Phase(w, "indexing")
  /\ UNCHANGED <<rows, embedding, stored, jobs, saving, request, sweep>>

\* completeIndexing writes nothing once another generation is active.
CompleteLink(w) ==
  LET j == Job(w)
  IN /\ At(w, "indexing")
     /\ IF CurrentIndexing(j) /\ embedding = worker[w].embedding
        THEN /\ link' = [link EXCEPT ![j.repo].status = "completed", ![j.repo].failure = "none"]
             /\ member' = Settled("indexing", j.repo, j.run, "completed")
        ELSE UNCHANGED <<link, member>>
     /\ Phase(w, "succeeded")
     /\ UNCHANGED <<asset, sequence, run, embedding, stored, jobs, saving, request, sweep>>
-----------------------------------------------------------------------------
(* settleAttempt.                                                          *)

Failing(w) == \/ At(w, "extracting") \/ At(w, "written")
              \/ At(w, "claimed") \/ At(w, "indexing")

\* A slip: a failure a retry can help is taken for the end of the job.
GivenUp(w) == "succeeded"

\* Retried while the attempt is current; on the new embedding generation at once.
AfterFailure(w) ==
  IF ~Current(Job(w)) THEN "succeeded"
  ELSE IF Job(w).stage = "indexing" /\ embedding # worker[w].embedding THEN "checked"
  ELSE "failed"

FailTransient(w) ==
  /\ Failing(w)
  /\ Job(w).stage = "processing" => RowWritable
  /\ worker' = [worker EXCEPT ![w].phase = AfterFailure(w), ![w].embedding = embedding]
  /\ UNCHANGED <<rows, embedding, stored, jobs, saving, request, sweep>>

\* A failure no retry of the job can help; a person may.
FailFinally(w, failure) ==
  /\ \/ At(w, "extracting") /\ failure \in {"again", "never"}
     \/ At(w, "claimed") /\ failure = (IF stored = 0 THEN "missing" ELSE "never")
     \/ At(w, "indexing") /\ failure = "again"
  /\ IF Current(Job(w)) THEN Fails(Job(w), Job(w).run, failure) ELSE UNCHANGED rows
  /\ Phase(w, "succeeded")
  /\ UNCHANGED <<embedding, stored, jobs, saving, request, sweep>>
-----------------------------------------------------------------------------
(* The sweep fails what no job will deliver again.                         *)

StageOf(stage, r, attempt) == [stage |-> stage, repo |-> r, attempt |-> attempt]

\* strandedStages reads the stages before the jobs.
SweepReads ==
  LET processing == IF Unfinished(asset.status)
                    THEN {StageOf("processing", NoRepo, asset.generation)} ELSE {}
      waiting == {r \in Linked : /\ Unfinished(link[r].status)
                                 /\ link[r].embedding = embedding}
      indexing == IF asset.status = "completed" /\ embedding # 0
                  THEN {StageOf("indexing", r, link[r].attempt) : r \in waiting} ELSE {}
  IN /\ sweep = NotSweeping
     /\ processing \cup indexing # {}
     /\ sweep' = [phase |-> "read", stages |-> processing \cup indexing]
     /\ UNCHANGED <<rows, embedding, stored, jobs, worker, saving, request>>

HasJob(s) == \E j \in jobs : j.stage = s.stage /\ j.repo = s.repo /\ j.attempt = s.attempt

SweepReadsJobs ==
  LET stranded == {s \in sweep.stages : ~HasJob(s)}
  IN /\ sweep.phase = "read"
     /\ sweep' = IF stranded = {} THEN NotSweeping
                 ELSE [phase |-> "stranded", stages |-> stranded]
     /\ UNCHANGED <<rows, embedding, stored, jobs, worker, saving, request>>

\* waitingRun: the run to record the failure on, read before the write.
SweepReadsRun(s) ==
  LET waiting == {u \in Runs : /\ member[s.stage][u] = "pending"
                               /\ s.stage = "indexing" => run[u].bound = s.repo}
  IN /\ sweep.phase = "stranded" /\ s \in sweep.stages
     /\ \E u \in IF waiting = {} THEN {NoRun} ELSE waiting :
          sweep' = [phase |-> "failing", stages |-> sweep.stages \ {s}, stage |-> s, run |-> u]
     /\ UNCHANGED <<rows, embedding, stored, jobs, worker, saving, request>>

\* A slip: the target is failed whatever attempt it is on by now.
AnyAttempt(s) == IF s.stage = "processing" THEN Unfinished(asset.status)
                 ELSE Unfinished(link[s.repo].status)

StillStranded(s) == Current(s)

SweepFails ==
  /\ sweep.phase = "failing"
  /\ IF StillStranded(sweep.stage) THEN Fails(sweep.stage, sweep.run, "again")
     ELSE UNCHANGED rows
  /\ sweep' = IF sweep.stages = {} THEN NotSweeping
              ELSE [phase |-> "stranded", stages |-> sweep.stages]
  /\ UNCHANGED <<embedding, stored, jobs, worker, saving, request>>
-----------------------------------------------------------------------------
Init ==
  /\ asset = [status |-> "none", failure |-> "none", generation |-> 0]
  /\ link = [r \in Repos |-> Gone]
  /\ sequence = 0 /\ embedding = FirstEmbedding /\ stored = 0
  /\ run = [u \in Runs |-> [kind |-> "unused", bound |-> NoRepo]]
  /\ member = [s \in Stages |-> [u \in Runs |-> "none"]]
  /\ jobs = {} /\ worker = [w \in Workers |-> Idle]
  /\ saving = NotSaving /\ request = [q \in Requests |-> NoRequest]
  /\ sweep = NotSweeping

RequestStep(q) == \/ \E r \in AnyRepo : AskAgain(q, r)
                  \/ AskFailed(q) \/ AskReconcile(q)
                  \/ \E u \in Runs : AdmitProcessing(q, u)
                  \/ \E u \in AnyRun : AdmitIndexing(q, u)
                  \/ Refuse(q)

AppStep == \/ \E u \in AnyRun : Upload(u) \/ UploadRefused(u)
           \/ \E u \in Runs : DeleteAccount(u)
           \/ \E r \in Repos : Unlink(r) \/ \E u \in AnyRun : SaveLink(r, u)
           \/ SaveReads \/ SaveCommits \/ SaveAborts
           \/ DeleteAsset \/ StartEmbedding

QueueStep == \E j \in jobs : Expire(j) \/ Exhausted(j) \/ Vanish(j)

Handle(w) == \/ Claim(w) \/ Clear(w) \/ BeginWrite(w) \/ EndWrite(w)
             \/ BeginCompletion(w) \/ Complete(w) \/ CompletionFails(w)
             \/ CheckAsset(w) \/ ClaimLink(w) \/ ReadExtraction(w) \/ CompleteLink(w)
             \/ FailTransient(w) \/ \E f \in Failures : FailFinally(w, f)

Delivery(w) == \/ \E j \in jobs : Fetch(w, j)
               \/ Handle(w) \/ Report(w) \/ Crash(w)

Sweep == \/ SweepReads \/ SweepReadsJobs \/ SweepFails
         \/ sweep.phase = "stranded" /\ \E s \in sweep.stages : SweepReadsRun(s)

Next == \/ AppStep \/ QueueStep \/ Sweep
        \/ \E q \in Requests : RequestStep(q)
        \/ \E w \in Workers : Delivery(w)

Spec == Init /\ [][Next]_vars

\* Workers work, pg-boss delivers and expires, the sweep and the reconciler run
\* on their schedules, calls return; Postgres grants a row to who waits for it.
Fairness ==
  /\ \A w \in Workers : /\ WF_vars(Handle(w)) /\ WF_vars(Report(w))
                       /\ WF_vars(\E j \in jobs : Fetch(w, j))
  /\ WF_vars(\E j \in jobs : Expire(j)) /\ WF_vars(\E j \in jobs : Exhausted(j))
  /\ WF_vars(Sweep)
  /\ SF_vars(SaveReads) /\ WF_vars(SaveCommits)
  /\ \A q \in Requests :
       /\ SF_vars(AskReconcile(q)) /\ WF_vars(Refuse(q))
       /\ WF_vars(\E u \in Runs : AdmitProcessing(q, u))
       /\ WF_vars(\E u \in AnyRun : AdmitIndexing(q, u))

FairSpec == Spec /\ Fairness
-----------------------------------------------------------------------------
(* What the components promise.                                            *)

\* Whatever a link says beyond pending it says of the file's completed
\* processing: none claims ready for vectors about to be replaced.
LinksFollowTheFile ==
  \A r \in Linked : link[r].status # "pending" => asset.status = "completed"

Waits(stage, u) == member[stage][u] = "pending"

\* A run that waits on a stage waits for the stage's present work, alone: the
\* stage is unfinished and no other run waits; its job, if any, is the run's.
RunsWaitForTheirWork ==
  \A u \in Runs :
    /\ Waits("processing", u) =>
         /\ Unfinished(asset.status)
         /\ \A v \in Runs : Waits("processing", v) => v = u
         /\ \A j \in jobs : j.stage = "processing" /\ Current(j) => j.run = u
    /\ Waits("indexing", u) =>
         LET r == run[u].bound
         IN /\ r \in Linked /\ asset.status = "completed" /\ Unfinished(link[r].status)
            /\ \A v \in Runs : Waits("indexing", v) /\ run[v].bound = r => v = u
            /\ \A j \in jobs : j.stage = "indexing" /\ j.repo = r /\ Current(j) => j.run = u

\* The present work of a run that exists is waited for by the run.
WorkIsWaitedFor ==
  \A j \in jobs :
    Current(j) /\ j.run # NoRun /\ run[j.run].kind # "gone" =>
      /\ Waits(j.stage, j.run)
      /\ j.stage = "indexing" => run[j.run].bound = j.repo

\* Runs and work agree: no run waits for what nobody does any more, and none is
\* told of an end before its present work has ended.
RunsAgreeWithWork == RunsWaitForTheirWork /\ WorkIsWaitedFor

\* A link added while processing completes is queued by one of the two: once
\* both committed, no link of a completed asset was left to the reconciler.
NewLinksAreAdmitted ==
  FirstEmbedding # 0 /\ asset.status = "completed" =>
    \A r \in Linked : link[r].embedding # 0

\* Unless jobs vanish, what is unfinished has a job that will be delivered.
UnfinishedHasAJob ==
  ~MayLose =>
    /\ Unfinished(asset.status) => HasJob(StageOf("processing", NoRepo, asset.generation))
    /\ \A r \in Linked :
         /\ asset.status = "completed" /\ Unfinished(link[r].status)
         /\ link[r].embedding = embedding /\ embedding # 0
         => HasJob(StageOf("indexing", r, link[r].attempt))

\* Nothing is stored for an asset once it is deleted.
DeletedStaysEmpty == [][asset.status = "deleted" => stored' \in {0, stored}]_vars

\* An attempt that ended does not go on: duplicate, late and swept deliveries of
\* it change nothing.
EndedStaysEnded ==
  [][/\ asset'.generation = asset.generation /\ asset.status \in {"completed", "failed"}
          => asset'.status \in {asset.status, "deleted"}
     /\ \A r \in Repos : link'[r].attempt = link[r].attempt /\ link[r].status \in {"completed", "failed"}
          => link'[r].status = link[r].status]_vars

\* Whatever fails, dies or vanishes, the file's processing ends, every link of a
\* processed asset is indexed or failed, and every run's stages end.
StagesEnd ==
  /\ Unfinished(asset.status) ~> ~Unfinished(asset.status)
  /\ \A r \in Repos :
       asset.status = "completed" /\ embedding # 0 /\ Unfinished(link[r].status)
         ~> asset.status # "completed" \/ ~Unfinished(link[r].status)
  /\ \A s \in Stages, u \in Runs : Waits(s, u) ~> ~Waits(s, u)

Nothing == 0
Work == INSTANCE StageWork WITH
          attempt <- asset.generation,
          state <- CASE asset.status = "none" -> "none"
                     [] asset.status = "deleted" -> "removed"
                     [] Unfinished(asset.status) -> "waiting"
                     [] OTHER -> "ended",
          seen <- [q \in Requests |-> IF request[q].stage = "processing"
                                      THEN request[q].generation ELSE Nothing]

\* Processing is done in attempts one at a time, and requests that overlap start
\* one between them.
ProcessingIsStageWork == Work!WorkSpec

\* retryFailedEmbeddings "embeds every failed link of the active generation again".
FailedLinksAreRetried ==
  [][\A q \in Requests :
       request[q] # NoRequest /\ request'[q] = NoRequest /\ request[q].stage = "indexing"
         => \A r \in SeenLinks(q) : link'[r].status = "pending"]_vars
====
