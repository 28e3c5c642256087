-------------------------- MODULE PreparationProofs --------------------------
(***************************************************************************)
(* For any repositories, runs, workers and requests, however jobs are      *)
(* delivered: no link of an asset says more than its file's processing, an *)
(* attempt that ended stays so, and nothing is stored for a deleted asset. *)
(* A link added while the file completes is admitted, what is unfinished   *)
(* has a job, and runs wait for the present work on their target only.     *)
(* Processing implements StageWork.                                        *)
(***************************************************************************)
EXTENDS Preparation, TLAPS

-----------------------------------------------------------------------------
(* The type invariant.                                                     *)

LEMMA SettledType ==
  ASSUME TypeOK, NEW stage \in Stages, NEW r, NEW u, NEW outcome \in Outcomes
  PROVE  Settled(stage, r, u, outcome) \in [Stages -> [Runs -> Outcomes]]
<1>1. member \in [Stages -> [Runs -> Outcomes]]
  BY DEF TypeOK
<1>2. [member EXCEPT ![stage][u] = outcome] \in [Stages -> [Runs -> Outcomes]]
  BY <1>1
<1> QED
  BY <1>1, <1>2 DEF Settled

\* What a new generation writes has its type.
LEMMA WaitingType ==
  ASSUME TypeOK, NEW L \in SUBSET Repos
  PROVE  /\ Drawn(L) \in Nat
         /\ Waiting(L) \in [Repos -> LinkType]
         /\ WithoutIndexing \in [Runs -> Outcomes]
<1>1. Drawn(L) \in Nat
  BY DEF TypeOK, Drawn
<1>2. ASSUME NEW r \in Repos
      PROVE  [link[r] EXCEPT !.status = "pending", !.failure = "none", !.attempt = sequence + 1]
               \in LinkType
  <2>1. link[r] \in LinkType /\ sequence + 1 \in Nat
    BY DEF TypeOK
  <2> QED
    BY <2>1 DEF LinkType, Statuses, Failures
<1>3. Waiting(L) \in [Repos -> LinkType]
  BY <1>2 DEF TypeOK, Waiting
<1>4. \A v \in Runs : member["indexing"][v] \in Outcomes
  BY DEF TypeOK, Stages
<1>5. WithoutIndexing \in [Runs -> Outcomes]
  BY <1>4 DEF WithoutIndexing, Outcomes
<1> QED
  BY <1>1, <1>3, <1>5

\* What an admission of links writes has its type.
LEMMA AdmittedType ==
  ASSUME TypeOK, NEW L \in SUBSET Repos, NEW bound, NEW owner \in [L -> AnyRun]
  PROVE  /\ Drawn(L) \in Nat
         /\ LinksAdmitted(L) \in [Repos -> LinkType]
         /\ MembersAdmitted(bound, L, owner) \in [Runs -> Outcomes]
         /\ JobsAdmitted(L, owner) \subseteq JobType
<1>1. LinksAdmitted(L) \in [Repos -> LinkType]
  BY DEF TypeOK, LinksAdmitted, LinkType, Statuses, Failures
<1>2. \A v \in Runs : member["indexing"][v] \in Outcomes
  BY DEF TypeOK, Stages
<1>3. MembersAdmitted(bound, L, owner) \in [Runs -> Outcomes]
  BY <1>2 DEF MembersAdmitted, Outcomes
<1>4. JobsAdmitted(L, owner) \subseteq JobType
  BY DEF TypeOK, JobsAdmitted, JobType, Sent, Stages, AnyRepo
<1> QED
  BY <1>1, <1>3, <1>4, WaitingType

LEMMA ProcessingType ==
  ASSUME TypeOK, NEW u \in AnyRun, ProcessingAdmitted(u)
  PROVE  /\ asset' \in AssetType /\ link' \in [Repos -> LinkType] /\ sequence' \in Nat
         /\ member' \in [Stages -> [Runs -> Outcomes]] /\ jobs' \subseteq JobType
<1>1. Linked \in SUBSET Repos
  BY DEF Linked
<1>2. asset' \in AssetType
  BY DEF ProcessingAdmitted, TypeOK, AssetType, Statuses, Failures
<1>3. link' \in [Repos -> LinkType] /\ sequence' \in Nat /\ WithoutIndexing \in [Runs -> Outcomes]
  BY <1>1, WaitingType DEF ProcessingAdmitted
<1>4. member' \in [Stages -> [Runs -> Outcomes]]
  <2>1. \A v \in Runs : member["processing"][v] \in Outcomes
    BY DEF TypeOK, Stages
  <2> DEFINE processing == [v \in Runs |-> IF v = u THEN "pending"
                                           ELSE IF member["processing"][v] = "pending"
                                                THEN "replaced"
                                           ELSE member["processing"][v]]
  <2>2. processing \in [Runs -> Outcomes]
    BY <2>1 DEF Outcomes
  <2>3. member' = [processing |-> processing, indexing |-> WithoutIndexing]
    BY DEF ProcessingAdmitted
  <2> HIDE DEF processing
  <2> QED
    BY <1>3, <2>2, <2>3 DEF Stages
<1>5. jobs' \subseteq JobType
  BY DEF ProcessingAdmitted, TypeOK, AssetType, JobType, Sent, Stages, AnyRepo
<1> QED
  BY <1>2, <1>3, <1>4, <1>5

LEMMA FailsType ==
  ASSUME TypeOK, NEW j \in JobType \cup StageType, NEW u, NEW failure \in Failures,
         Current(j), Fails(j, u, failure)
  PROVE  /\ asset' \in AssetType /\ link' \in [Repos -> LinkType] /\ sequence' \in Nat
         /\ run' \in [Runs -> RunType] /\ member' \in [Stages -> [Runs -> Outcomes]]
<1>1. j.stage \in Stages
  BY DEF JobType, StageType
<1>2. asset' \in AssetType
  BY DEF Fails, TypeOK, AssetType, Statuses
<1>3. link' \in [Repos -> LinkType]
  <2>1. CASE j.stage = "processing"
    BY <2>1 DEF Fails, TypeOK
  <2>2. CASE j.stage # "processing"
    <3>1. j.repo \in Repos
      BY <2>2 DEF Current, CurrentIndexing
    <3> QED
      BY <2>2, <3>1 DEF Fails, TypeOK, LinkType, Statuses
  <2> QED
    BY <2>1, <2>2
<1>4. member' \in [Stages -> [Runs -> Outcomes]]
  BY <1>1, SettledType DEF Fails, Outcomes
<1> QED
  BY <1>2, <1>3, <1>4 DEF Fails, TypeOK

LEMMA AsksType ==
  ASSUME TypeOK, NEW q \in Requests, NEW stage \in Stages, NEW r, NEW L \in SUBSET Repos,
         NEW auto \in BOOLEAN, Asks(q, stage, r, L, auto), r \in AnyRepo
  PROVE  TypeOK'
<1> DEFINE links == {[repo |-> x, attempt |-> link[x].attempt] : x \in L}
           to == [stage |-> stage, repo |-> r, generation |-> asset.generation, auto |-> auto,
                  links |-> links]
<1>1. links \in SUBSET [repo : Repos, attempt : Nat]
  BY DEF TypeOK, LinkType
<1>2. asset.generation \in Nat
  BY DEF TypeOK, AssetType
<1>3. request' = [request EXCEPT ![q] = to]
  BY DEF Asks
<1> HIDE DEF links
<1>4. to \in Asked
  BY <1>1, <1>2 DEF Asked
<1> HIDE DEF to
<1>5. request' \in [Requests -> {NoRequest} \cup Asked]
  BY <1>3, <1>4 DEF TypeOK
<1> QED
  BY <1>5 DEF TypeOK, Asks, rows

LEMMA RequestType ==
  ASSUME TypeOK, NEW q \in Requests, RequestStep(q)
  PROVE  TypeOK'
<1>1. ASSUME NEW r \in AnyRepo, AskAgain(q, r)
      PROVE  TypeOK'
  <2>1. AgainStage(r) \in Stages
    BY <1>1 DEF AskAgain, AgainStage, Stages
  <2>2. {r} \ {NoRepo} \in SUBSET Repos
    BY DEF AnyRepo
  <2> QED
    BY <1>1, <2>1, <2>2, AsksType DEF AskAgain
<1>2. ASSUME AskFailed(q) \/ AskReconcile(q)
      PROVE  TypeOK'
  <2>1. PICK L \in SUBSET Repos, auto \in BOOLEAN : Asks(q, "indexing", NoRepo, L, auto)
    BY <1>2 DEF AskFailed, AskReconcile, Linked
  <2> QED
    BY <2>1, AsksType DEF Stages, AnyRepo
<1>3. ASSUME NEW u \in Runs, AdmitProcessing(q, u)
      PROVE  TypeOK'
  <2>1. ProcessingAdmitted(u) /\ u \in AnyRun
    BY <1>3 DEF AdmitProcessing, AnyRun
  <2>2. request' \in [Requests -> {NoRequest} \cup Asked]
    BY <1>3 DEF AdmitProcessing, Answered, TypeOK
  <2>3. request[q].repo \in AnyRepo
    BY <1>3 DEF AdmitProcessing, TypeOK, NoRequest, Asked
  <2>4. run' \in [Runs -> RunType]
    BY <1>3, <2>3 DEF AdmitProcessing, Started, TypeOK, RunType
  <2> QED
    BY <1>3, <2>1, <2>2, <2>4, ProcessingType DEF AdmitProcessing, TypeOK
<1>4. ASSUME NEW u \in AnyRun, AdmitIndexing(q, u)
      PROVE  TypeOK'
  <2> DEFINE L == SeenLinks(q)
             bound == [v \in Runs |-> run'[v].bound]
             owner == [r \in L |-> u]
  <2>1. L \in SUBSET Repos /\ L # {} /\ owner \in [L -> AnyRun]
    BY <1>4 DEF AdmitIndexing, SeenLinks, Linked
  <2>2. request' \in [Requests -> {NoRequest} \cup Asked]
    BY <1>4 DEF AdmitIndexing, Answered, TypeOK
  <2>3. run' \in [Runs -> RunType]
    <3>1. PICK x : x = CHOOSE r \in L : TRUE
      OBVIOUS
    <3>2. x \in AnyRepo
      BY <2>1, <3>1 DEF AnyRepo
    <3>3. run' = run \/ run' = [run EXCEPT ![u] = [kind |-> "retry", bound |-> x]]
      BY <1>4, <3>1 DEF AdmitIndexing, Started
    <3> QED
      BY <3>2, <3>3 DEF TypeOK, RunType
  <2>4. /\ link' = LinksAdmitted(L) /\ sequence' = Drawn(L) /\ jobs' = JobsAdmitted(L, owner)
        /\ member' = [member EXCEPT !["indexing"] = MembersAdmitted(bound, L, owner)]
    BY <1>4 DEF AdmitIndexing
  <2> HIDE DEF L, bound, owner
  <2>5. /\ link' \in [Repos -> LinkType] /\ sequence' \in Nat /\ jobs' \subseteq JobType
        /\ MembersAdmitted(bound, L, owner) \in [Runs -> Outcomes]
    BY <2>1, <2>4, AdmittedType
  <2>6. member' \in [Stages -> [Runs -> Outcomes]]
    BY <2>4, <2>5 DEF TypeOK
  <2> QED
    BY <1>4, <2>2, <2>3, <2>5, <2>6 DEF AdmitIndexing, TypeOK
<1>5. ASSUME Refuse(q)
      PROVE  TypeOK'
  BY <1>5 DEF Refuse, Answered, TypeOK, rows
<1> QED
  BY <1>1, <1>2, <1>3, <1>4, <1>5 DEF RequestStep

LEMMA UploadType ==
  ASSUME TypeOK, NEW u \in AnyRun, Upload(u) \/ UploadRefused(u)
  PROVE  TypeOK'
<1>1. run' \in [Runs -> RunType]
  BY DEF Upload, UploadRefused, Uploading, Started, TypeOK, RunType, AnyRepo
<1>2. CASE Upload(u)
  BY <1>1, <1>2, ProcessingType DEF Upload, TypeOK
<1>3. CASE UploadRefused(u)
  <2>1. asset' \in AssetType
    BY <1>3 DEF UploadRefused, AssetType, Statuses, Failures
  <2>2. member' \in [Stages -> [Runs -> Outcomes]]
    BY <1>3 DEF UploadRefused, TypeOK, Stages, Outcomes
  <2> QED
    BY <1>1, <1>3, <2>1, <2>2 DEF UploadRefused, TypeOK
<1> QED
  BY <1>2, <1>3

LEMMA SaveType ==
  ASSUME TypeOK, \/ \E r \in Repos, u \in AnyRun : SaveLink(r, u)
                 \/ SaveReads \/ SaveAborts
  PROVE  TypeOK'
<1>1. ASSUME NEW r \in Repos, NEW u \in AnyRun, SaveLink(r, u)
      PROVE  TypeOK'
  <2>1. saving' \in Savings /\ sequence' \in Nat
    BY <1>1 DEF SaveLink, Savings, TypeOK, Statuses
  <2> QED
    BY <1>1, <2>1 DEF SaveLink, TypeOK
<1>2. ASSUME SaveReads
      PROVE  TypeOK'
  <2>1. saving \in Savings /\ asset.status \in Statuses \cup {"deleted"}
    BY <1>2 DEF SaveReads, TypeOK, NotSaving, AssetType
  <2>2. saving' \in Savings
    BY <1>2, <2>1 DEF SaveReads, Savings
  <2> QED
    BY <1>2, <2>2 DEF SaveReads, TypeOK, rows
<1>3. ASSUME SaveAborts
      PROVE  TypeOK'
  BY <1>3 DEF SaveAborts, TypeOK, rows
<1> QED
  BY <1>1, <1>2, <1>3

LEMMA SaveCommitsType ==
  ASSUME TypeOK, SaveCommits
  PROVE  TypeOK'
<1> DEFINE r == saving.repo
           u == saving.run
           bound == [v \in Runs |-> IF v = u THEN r ELSE run[v].bound]
           owner == [x \in {r} |-> u]
<1>1. saving \in Savings
  BY DEF SaveCommits, TypeOK, NotSaving
<1>2. r \in Repos /\ u \in AnyRun /\ saving.attempt \in Nat
  BY <1>1 DEF Savings
<1>3. run' = [v \in Runs |-> [run[v] EXCEPT !.bound = bound[v]]]
  BY DEF SaveCommits
<1>4. \A v \in Runs : bound[v] \in AnyRepo
  BY <1>2 DEF AnyRepo, TypeOK, RunType
<1>5. run' \in [Runs -> RunType]
  <2> HIDE DEF bound
  <2>1. ASSUME NEW v \in Runs
        PROVE  [run[v] EXCEPT !.bound = bound[v]] \in RunType
    BY <1>4 DEF TypeOK, RunType
  <2> QED
    BY <1>3, <2>1
<1>6. CASE saving.saw = "completed"
  <2>1. /\ link' = LinksAdmitted({r}) /\ sequence' = Drawn({r}) /\ jobs' = JobsAdmitted({r}, owner)
        /\ member' = [member EXCEPT !["indexing"] = MembersAdmitted(bound, {r}, owner)]
    BY <1>6 DEF SaveCommits
  <2>2. {r} \in SUBSET Repos /\ owner \in [{r} -> AnyRun]
    BY <1>2
  <2> HIDE DEF r, u, bound, owner
  <2>3. /\ link' \in [Repos -> LinkType] /\ sequence' \in Nat /\ jobs' \subseteq JobType
        /\ MembersAdmitted(bound, {r}, owner) \in [Runs -> Outcomes]
    BY <2>1, <2>2, AdmittedType
  <2>4. member' \in [Stages -> [Runs -> Outcomes]]
    BY <2>1, <2>3 DEF TypeOK
  <2> QED
    BY <1>5, <2>3, <2>4 DEF SaveCommits, TypeOK
<1>7. CASE saving.saw # "completed"
  <2>1. link' \in [Repos -> LinkType]
    BY <1>2, <1>7 DEF SaveCommits, TypeOK, LinkType, Statuses, Failures
  <2> QED
    BY <1>5, <1>7, <2>1 DEF SaveCommits, TypeOK
<1> QED
  BY <1>6, <1>7

LEMMA DeletionType ==
  ASSUME TypeOK, \/ \E r \in Repos : Unlink(r)
                 \/ DeleteAsset \/ StartEmbedding \/ \E u \in Runs : DeleteAccount(u)
  PROVE  TypeOK'
<1>1. Gone \in LinkType
  BY DEF Gone, LinkType, Statuses, Failures
<1>2. ASSUME NEW r \in Repos, Unlink(r)
      PROVE  TypeOK'
  <2>1. link' \in [Repos -> LinkType]
    BY <1>1, <1>2 DEF Unlink, TypeOK
  <2>2. member' \in [Stages -> [Runs -> Outcomes]]
    BY <1>2 DEF Unlink, TypeOK, Stages, Outcomes
  <2> QED
    BY <1>2, <2>1, <2>2 DEF Unlink, TypeOK
<1>3. ASSUME DeleteAsset
      PROVE  TypeOK'
  <2>1. asset' \in AssetType
    BY <1>3 DEF DeleteAsset, TypeOK, AssetType
  <2>2. link' \in [Repos -> LinkType] /\ member' \in [Stages -> [Runs -> Outcomes]]
    BY <1>1, <1>3 DEF DeleteAsset, Outcomes
  <2> QED
    BY <1>3, <2>1, <2>2 DEF DeleteAsset, TypeOK
<1>4. ASSUME StartEmbedding
      PROVE  TypeOK'
  BY <1>4 DEF StartEmbedding, TypeOK, rows
<1>5. ASSUME NEW u \in Runs, DeleteAccount(u)
      PROVE  TypeOK'
  <2>1. run' \in [Runs -> RunType]
    BY <1>5 DEF DeleteAccount, TypeOK, RunType, AnyRepo
  <2>2. member' \in [Stages -> [Runs -> Outcomes]]
    BY <1>5 DEF DeleteAccount, TypeOK, Outcomes
  <2> QED
    BY <1>5, <2>1, <2>2 DEF DeleteAccount, TypeOK
<1> QED
  BY <1>2, <1>3, <1>4, <1>5

\* A delivery stays one, whatever phase it goes to.
LEMMA PhaseType ==
  ASSUME TypeOK, NEW w \in Workers, worker[w].phase # "idle", NEW phase,
         phase \in {"fetched", "checked", "clearing", "extracting", "writing", "written",
                    "completing", "claimed", "indexing", "succeeded", "failed"}
  PROVE  /\ worker[w] \in Deliveries /\ Job(w) \in JobType
         /\ Phase(w, phase) => worker' \in [Workers -> {Idle} \cup Deliveries]
<1>1. worker[w] \in Deliveries
  BY DEF TypeOK, Idle
<1>2. Job(w) \in JobType
  BY <1>1 DEF Job, Deliveries
<1>3. [worker[w] EXCEPT !.phase = phase] \in Deliveries
  BY <1>1 DEF Deliveries
<1>4. ASSUME Phase(w, phase)
      PROVE  worker' \in [Workers -> {Idle} \cup Deliveries]
  <2>1. worker' = [worker EXCEPT ![w] = [worker[w] EXCEPT !.phase = phase]]
    BY <1>4 DEF Phase
  <2> QED
    BY <1>3, <2>1 DEF TypeOK
<1> QED
  BY <1>1, <1>2, <1>4

LEMMA RetriedType ==
  ASSUME TypeOK, NEW j \in jobs
  PROVE  Retried(j) \in JobType /\ j \in JobType
<1>1. j \in JobType
  BY DEF TypeOK
<1>2. \A n \in Nat : [j EXCEPT !.state = "created", !.tries = n] \in JobType
  BY <1>1 DEF JobType
<1>3. [j EXCEPT !.state = "dead"] \in JobType
  BY <1>1 DEF JobType
<1>4. j.tries + 1 \in Nat
  BY <1>1 DEF JobType
<1> QED
  BY <1>1, <1>2, <1>3, <1>4 DEF Retried

LEMMA QueueType ==
  ASSUME TypeOK, QueueStep
  PROVE  TypeOK'
<1>1. PICK j \in jobs : Expire(j) \/ Exhausted(j) \/ Vanish(j)
  BY DEF QueueStep
<1>2. CASE Expire(j)
  BY <1>2, RetriedType DEF Expire, TypeOK, rows
<1>3. CASE Exhausted(j)
  <2>1. j \in JobType
    BY RetriedType
  <2>2. CASE Current(j)
    <3>1. Fails(j, j.run, "again") /\ "again" \in Failures
      BY <1>3, <2>2 DEF Exhausted, Failures
    <3> QED
      BY <1>3, <2>1, <2>2, <3>1, FailsType DEF Exhausted, TypeOK
  <2>3. CASE ~Current(j)
    BY <1>3, <2>3 DEF Exhausted, TypeOK, rows
  <2> QED
    BY <2>2, <2>3
<1>4. CASE Vanish(j)
  BY <1>4 DEF Vanish, TypeOK, rows
<1> QED
  BY <1>1, <1>2, <1>3, <1>4

LEMMA FetchType ==
  ASSUME TypeOK, NEW w \in Workers,
         \/ \E j \in jobs : Fetch(w, j)
         \/ Report(w) \/ Crash(w)
  PROVE  TypeOK'
<1>1. ASSUME NEW j \in jobs, Fetch(w, j)
      PROVE  TypeOK'
  <2> DEFINE active == [j EXCEPT !.state = "active"]
             to == [phase |-> "fetched", job |-> active, embedding |-> 0]
  <2>1. active \in JobType
    BY RetriedType DEF JobType
  <2>2. jobs' = (jobs \ {j}) \cup {active} /\ worker' = [worker EXCEPT ![w] = to]
    BY <1>1 DEF Fetch
  <2> HIDE DEF active
  <2>3. to \in Deliveries
    BY <2>1 DEF Deliveries
  <2> QED
    BY <1>1, <2>1, <2>2, <2>3 DEF Fetch, TypeOK, rows
<1>2. ASSUME Report(w)
      PROVE  TypeOK'
  <2>1. jobs' \subseteq JobType
    BY <1>2, RetriedType DEF Report, TypeOK
  <2>2. worker' \in [Workers -> {Idle} \cup Deliveries]
    BY <1>2 DEF Report, TypeOK
  <2> QED
    BY <1>2, <2>1, <2>2 DEF Report, TypeOK, rows
<1>3. ASSUME Crash(w)
      PROVE  TypeOK'
  <2>1. worker[w] \in Deliveries
    BY <1>3 DEF Crash, TypeOK
  <2>2. Job(w).attempt \in Nat
    BY <2>1 DEF Deliveries, JobType, Job
  <2>3. stored' \in Nat
    BY <1>3, <2>2 DEF Crash, TypeOK
  <2>4. worker' \in [Workers -> {Idle} \cup Deliveries]
    BY <1>3 DEF Crash, TypeOK
  <2> QED
    BY <1>3, <2>3, <2>4 DEF Crash, TypeOK, rows
<1> QED
  BY <1>1, <1>2, <1>3

LEMMA ProcessType ==
  ASSUME TypeOK, NEW w \in Workers,
         \/ Claim(w) \/ Clear(w) \/ BeginWrite(w) \/ EndWrite(w)
         \/ BeginCompletion(w) \/ CompletionFails(w)
  PROVE  TypeOK'
<1>1. worker[w].phase # "idle"
  BY DEF Claim, Clear, BeginWrite, EndWrite, BeginCompletion, CompletionFails, At
<1>2. worker' \in [Workers -> {Idle} \cup Deliveries]
  BY <1>1, PhaseType DEF Claim, Clear, BeginWrite, EndWrite, BeginCompletion, CompletionFails
<1>3. asset' \in AssetType
  BY DEF Claim, Clear, BeginWrite, EndWrite, BeginCompletion, CompletionFails, TypeOK,
         AssetType, Statuses, Failures, rows
<1>4. stored' \in Nat
  <2>1. Job(w).attempt \in Nat
    BY <1>1, PhaseType DEF JobType
  <2> QED
    BY <2>1 DEF Claim, Clear, BeginWrite, EndWrite, BeginCompletion, CompletionFails, TypeOK
<1> QED
  BY <1>2, <1>3, <1>4
     DEF Claim, Clear, BeginWrite, EndWrite, BeginCompletion, CompletionFails, TypeOK, rows

LEMMA CompleteType ==
  ASSUME TypeOK, NEW w \in Workers, Complete(w)
  PROVE  TypeOK'
<1> DEFINE u == Job(w).run
           bound == [v \in Runs |-> run[v].bound]
           owner == [r \in Repos |-> IF u # NoRun /\ run[u].bound = r THEN u ELSE NoRun]
<1>1. worker[w].phase # "idle" /\ Phase(w, "succeeded")
  BY DEF Complete, At
<1>2. worker' \in [Workers -> {Idle} \cup Deliveries] /\ u \in AnyRun
  BY <1>1, PhaseType DEF JobType
<1>3. asset' \in AssetType
  BY DEF Complete, TypeOK, AssetType, Statuses, Failures
<1>4. Linked \in SUBSET Repos
  BY DEF Linked
<1>5. owner \in [Repos -> AnyRun]
  BY <1>2 DEF AnyRun
<1>6. /\ link' = LinksAdmitted(Linked) /\ sequence' = Drawn(Linked)
      /\ jobs' = JobsAdmitted(Linked, owner)
      /\ member' = [Settled("processing", NoRepo, u, "completed") EXCEPT !["indexing"] =
                      MembersAdmitted(bound, Linked, owner)]
  BY DEF Complete
<1> HIDE DEF u, bound, owner
<1> DEFINE some == [r \in Linked |-> owner[r]]
<1>7. JobsAdmitted(Linked, owner) = JobsAdmitted(Linked, some)
  BY DEF JobsAdmitted
<1>8. MembersAdmitted(bound, Linked, owner) = MembersAdmitted(bound, Linked, some)
  BY DEF MembersAdmitted
<1>9. some \in [Linked -> AnyRun]
  BY <1>4, <1>5
<1> HIDE DEF some
<1>10. /\ link' \in [Repos -> LinkType] /\ sequence' \in Nat /\ jobs' \subseteq JobType
       /\ MembersAdmitted(bound, Linked, owner) \in [Runs -> Outcomes]
  BY <1>4, <1>6, <1>7, <1>8, <1>9, AdmittedType
<1>11. Settled("processing", NoRepo, u, "completed") \in [Stages -> [Runs -> Outcomes]]
  BY SettledType DEF Stages, Outcomes
<1>12. member' \in [Stages -> [Runs -> Outcomes]]
  BY <1>6, <1>10, <1>11
<1> QED
  BY <1>2, <1>3, <1>10, <1>12 DEF Complete, TypeOK

LEMMA IndexType ==
  ASSUME TypeOK, NEW w \in Workers,
         CheckAsset(w) \/ ClaimLink(w) \/ ReadExtraction(w) \/ CompleteLink(w)
  PROVE  TypeOK'
<1>1. worker[w].phase # "idle"
  BY DEF CheckAsset, ClaimLink, ReadExtraction, CompleteLink, At
<1>2. worker[w] \in Deliveries /\ Job(w) \in JobType
  BY <1>1, PhaseType
<1>3. CASE CheckAsset(w)
  <2>1. ASSUME NEW phase \in {"checked", "succeeded"}
        PROVE  [worker[w] EXCEPT !.phase = phase, !.embedding = embedding] \in Deliveries
    BY <1>2 DEF Deliveries, TypeOK
  <2>2. PICK phase \in {"checked", "succeeded"} :
          worker' = [worker EXCEPT ![w] = [worker[w] EXCEPT !.phase = phase, !.embedding = embedding]]
    BY <1>3 DEF CheckAsset
  <2> QED
    BY <1>3, <2>1, <2>2 DEF CheckAsset, TypeOK, rows
<1>4. CASE ClaimLink(w)
  <2>1. worker' \in [Workers -> {Idle} \cup Deliveries]
    BY <1>1, <1>4, PhaseType DEF ClaimLink
  <2>2. link' \in [Repos -> LinkType]
    BY <1>4 DEF ClaimLink, TypeOK, LinkType, Statuses, Failures
  <2> QED
    BY <1>4, <2>1, <2>2 DEF ClaimLink, TypeOK
<1>5. CASE ReadExtraction(w)
  BY <1>1, <1>5, PhaseType DEF ReadExtraction, TypeOK, rows
<1>6. CASE CompleteLink(w)
  <2>1. worker' \in [Workers -> {Idle} \cup Deliveries]
    BY <1>1, <1>6, PhaseType DEF CompleteLink
  <2>2. link' \in [Repos -> LinkType]
    BY <1>6 DEF CompleteLink, TypeOK, LinkType, Statuses, Failures
  <2>3. member' \in [Stages -> [Runs -> Outcomes]]
    <3>1. Settled("indexing", Job(w).repo, Job(w).run, "completed") \in [Stages -> [Runs -> Outcomes]]
      BY SettledType DEF Stages, Outcomes
    <3> QED
      BY <1>6, <3>1 DEF CompleteLink, TypeOK
  <2> QED
    BY <1>6, <2>1, <2>2, <2>3 DEF CompleteLink, TypeOK
<1> QED
  BY <1>3, <1>4, <1>5, <1>6

LEMMA FailureType ==
  ASSUME TypeOK, NEW w \in Workers,
         \/ FailTransient(w)
         \/ \E f \in Failures : FailFinally(w, f)
  PROVE  TypeOK'
<1>1. worker[w].phase # "idle"
  BY DEF FailTransient, FailFinally, Failing, At
<1>2. worker[w] \in Deliveries /\ Job(w) \in JobType
  BY <1>1, PhaseType
<1>3. ASSUME FailTransient(w)
      PROVE  TypeOK'
  <2>1. PICK phase \in {"checked", "succeeded", "failed"} :
          worker' = [worker EXCEPT ![w] = [worker[w] EXCEPT !.phase = phase, !.embedding = embedding]]
    BY <1>3 DEF FailTransient, AfterFailure
  <2>2. [worker[w] EXCEPT !.phase = phase, !.embedding = embedding] \in Deliveries
    BY <1>2 DEF Deliveries, TypeOK
  <2> QED
    BY <1>3, <2>1, <2>2 DEF FailTransient, TypeOK, rows
<1>4. ASSUME NEW f \in Failures, FailFinally(w, f)
      PROVE  TypeOK'
  <2>1. worker' \in [Workers -> {Idle} \cup Deliveries]
    BY <1>1, <1>4, PhaseType DEF FailFinally
  <2>2. CASE Current(Job(w))
    <3>1. Fails(Job(w), Job(w).run, f)
      BY <1>4, <2>2 DEF FailFinally
    <3> QED
      BY <1>2, <1>4, <2>1, <2>2, <3>1, FailsType DEF FailFinally, TypeOK
  <2>3. CASE ~Current(Job(w))
    BY <1>4, <2>1, <2>3 DEF FailFinally, TypeOK, rows
  <2> QED
    BY <2>2, <2>3
<1> QED
  BY <1>3, <1>4

LEMMA SweepType ==
  ASSUME TypeOK, Sweep
  PROVE  TypeOK'
<1>1. ASSUME SweepReads
      PROVE  TypeOK'
  <2> DEFINE processing == IF Unfinished(asset.status)
                           THEN {StageOf("processing", NoRepo, asset.generation)} ELSE {}
             waiting == {r \in Linked : /\ Unfinished(link[r].status)
                                        /\ link[r].embedding = embedding}
             indexing == IF asset.status = "completed" /\ embedding # 0
                         THEN {StageOf("indexing", r, link[r].attempt) : r \in waiting} ELSE {}
  <2>1. processing \subseteq StageType
    BY DEF StageOf, StageType, Stages, AnyRepo, TypeOK, AssetType
  <2>2. indexing \subseteq StageType
    BY DEF StageOf, StageType, Stages, AnyRepo, TypeOK, LinkType, Linked
  <2>3. sweep' = [phase |-> "read", stages |-> processing \cup indexing]
    BY <1>1 DEF SweepReads
  <2> HIDE DEF processing, indexing
  <2>4. sweep' \in Sweeps
    BY <2>1, <2>2, <2>3 DEF Sweeps
  <2> QED
    BY <1>1, <2>4 DEF SweepReads, TypeOK, rows
<1>2. ASSUME SweepReadsJobs
      PROVE  TypeOK'
  <2>1. sweep.stages \subseteq StageType
    BY <1>2 DEF SweepReadsJobs, TypeOK, NotSweeping, Sweeps
  <2>2. sweep' \in {NotSweeping} \cup Sweeps
    BY <1>2, <2>1 DEF SweepReadsJobs, Sweeps
  <2> QED
    BY <1>2, <2>2 DEF SweepReadsJobs, TypeOK, rows
<1>3. ASSUME NEW s \in sweep.stages, SweepReadsRun(s)
      PROVE  TypeOK'
  <2>1. sweep.stages \subseteq StageType
    BY <1>3 DEF SweepReadsRun, TypeOK, NotSweeping, Sweeps
  <2>2. PICK u \in AnyRun :
          sweep' = [phase |-> "failing", stages |-> sweep.stages \ {s}, stage |-> s, run |-> u]
    BY <1>3 DEF SweepReadsRun, AnyRun
  <2>3. sweep' \in Sweeps
    BY <2>1, <2>2 DEF Sweeps
  <2> QED
    BY <1>3, <2>3 DEF SweepReadsRun, TypeOK, rows
<1>4. ASSUME SweepFails
      PROVE  TypeOK'
  <2>1. sweep.stages \subseteq StageType /\ sweep.stage \in StageType
    BY <1>4 DEF SweepFails, TypeOK, NotSweeping, Sweeps
  <2>2. sweep' \in {NotSweeping} \cup Sweeps
    BY <1>4, <2>1 DEF SweepFails, Sweeps
  <2>3. CASE StillStranded(sweep.stage)
    <3>1. Fails(sweep.stage, sweep.run, "again") /\ "again" \in Failures /\ Current(sweep.stage)
      BY <1>4, <2>3 DEF SweepFails, Failures, StillStranded
    <3> QED
      BY <1>4, <2>1, <2>2, <3>1, FailsType DEF SweepFails, TypeOK
  <2>4. CASE ~StillStranded(sweep.stage)
    BY <1>4, <2>2, <2>4 DEF SweepFails, TypeOK, rows
  <2> QED
    BY <2>3, <2>4
<1> QED
  BY <1>1, <1>2, <1>3, <1>4 DEF Sweep

LEMMA NextType ==
  ASSUME TypeOK, [Next]_vars
  PROVE  TypeOK'
<1>1. ASSUME AppStep
      PROVE  TypeOK'
  BY <1>1, UploadType, SaveType, SaveCommitsType, DeletionType DEF AppStep
<1>2. ASSUME NEW q \in Requests, RequestStep(q)
      PROVE  TypeOK'
  BY <1>2, RequestType
<1>3. ASSUME NEW w \in Workers, Delivery(w)
      PROVE  TypeOK'
  BY <1>3, FetchType, ProcessType, CompleteType, IndexType, FailureType DEF Delivery, Handle
<1>4. CASE UNCHANGED vars
  BY <1>4 DEF vars, TypeOK
<1> QED
  BY <1>1, <1>2, <1>3, <1>4, QueueType, SweepType DEF Next

LEMMA InitType ==
  ASSUME PreparationAssumption, Init
  PROVE  TypeOK
BY DEF PreparationAssumption, Init, TypeOK, AssetType, LinkType, RunType, Gone, Statuses,
       Failures, Outcomes, Stages, AnyRepo

\* Every state is of the types the rows, jobs and workers of the code have.
THEOREM TypeCorrect == Spec => []TypeOK
<1>1. Init => TypeOK
  BY PreparationAssumption, InitType
<1>2. TypeOK /\ [Next]_vars => TypeOK'
  BY NextType
<1> QED
  BY <1>1, <1>2, PTL DEF Spec

-----------------------------------------------------------------------------
(* The attempts of links, and who may still act on them.                   *)

\* A job, a delivery, a request or the sweep has attempt a of r in hand.
Indexes(s, r, a) == s.stage = "indexing" /\ s.repo = r /\ s.attempt = a
JobClaims(r, a) == \E j \in jobs : Indexes(j, r, a)
DeliveryClaims(r, a) == \E w \in Workers : worker[w] # Idle /\ Indexes(worker[w].job, r, a)
RequestClaims(r, a) ==
  \E q \in Requests : /\ request[q] # NoRequest /\ request[q].stage = "indexing"
                      /\ [repo |-> r, attempt |-> a] \in request[q].links
SweepClaims(r, a) ==
  \/ sweep # NotSweeping /\ \E s \in sweep.stages : Indexes(s, r, a)
  \/ sweep.phase = "failing" /\ Indexes(sweep.stage, r, a)
Claimed(r, a) ==
  JobClaims(r, a) \/ DeliveryClaims(r, a) \/ RequestClaims(r, a) \/ SweepClaims(r, a)

\* What was drawn for a link and handed out is good only while the file is
\* completed, and is never what a link about to be saved has drawn.
Follows(r, a) ==
  /\ a <= sequence
  /\ saving # NotSaving => a # saving.attempt
  /\ (r \in Linked /\ link[r].attempt = a) => asset.status = "completed"

ClaimsFollow == \A r \in Repos, a \in Nat : Claimed(r, a) => Follows(r, a)

LinksNumbered ==
  \A r \in Repos : /\ link[r].attempt <= sequence
                   /\ saving # NotSaving => link[r].attempt # saving.attempt

SavingNumbered == saving # NotSaving => saving.attempt <= sequence /\ saving.attempt > 0

\* FOR SHARE: nobody takes back what a save has read until it commits.
SavingReads == saving.phase = "read" /\ saving.saw = "completed" => asset.status = "completed"

FileInv == /\ TypeOK /\ LinksFollowTheFile
           /\ ClaimsFollow /\ LinksNumbered /\ SavingNumbered /\ SavingReads

-----------------------------------------------------------------------------
(* Steps that leave the rows of the asset and its links alone.             *)

\* Nobody has more in hand than before, but for what follows the file.
HandsOut == \A r \in Repos, a \in Nat : Claimed(r, a)' => Claimed(r, a) \/ Follows(r, a)'

LEMMA QuietStep ==
  ASSUME FileInv, TypeOK', UNCHANGED <<asset, link, sequence, saving>>, HandsOut
  PROVE  FileInv'
<1>1. \A r, a : Follows(r, a)' <=> Follows(r, a)
  BY DEF Follows, Linked
<1>2. ClaimsFollow'
  BY <1>1 DEF ClaimsFollow, HandsOut, FileInv
<1>3. LinksFollowTheFile' /\ LinksNumbered' /\ SavingNumbered' /\ SavingReads'
  BY DEF LinksFollowTheFile, Linked, LinksNumbered, SavingNumbered, SavingReads, FileInv
<1> QED
  BY <1>2, <1>3 DEF FileInv

\* Claims of parts that do not change.
LEMMA ClaimsKept ==
  ASSUME NEW r, NEW a
  PROVE  /\ jobs' = jobs => (JobClaims(r, a)' <=> JobClaims(r, a))
         /\ worker' = worker => (DeliveryClaims(r, a)' <=> DeliveryClaims(r, a))
         /\ request' = request => (RequestClaims(r, a)' <=> RequestClaims(r, a))
         /\ sweep' = sweep => (SweepClaims(r, a)' <=> SweepClaims(r, a))
BY DEF JobClaims, DeliveryClaims, RequestClaims, SweepClaims, Indexes

\* A delivery keeps its job or ends.
DeliveriesKept ==
  \A w \in Workers : worker'[w] # Idle => worker[w] # Idle /\ worker'[w].job = worker[w].job

LEMMA DeliveriesClaim ==
  ASSUME DeliveriesKept, NEW r, NEW a, DeliveryClaims(r, a)'
  PROVE  DeliveryClaims(r, a)
BY DEF DeliveriesKept, DeliveryClaims, Indexes

\* Each step of a delivery is to another phase of it, or its end.
LEMMA HandleKeeps ==
  ASSUME TypeOK, NEW w \in Workers, Handle(w) \/ Crash(w) \/ Report(w)
  PROVE  DeliveriesKept
<1>1. worker[w] # Idle
  BY DEF Handle, Crash, Report, Claim, Clear, BeginWrite, EndWrite, BeginCompletion, Complete,
         CompletionFails, CheckAsset, ClaimLink, ReadExtraction, CompleteLink, FailTransient,
         FailFinally, Failing, At, Idle
<1>2. worker[w] \in Deliveries
  BY <1>1 DEF TypeOK
<1>3. ASSUME NEW to, to = Idle \/ to.job = worker[w].job, worker' = [worker EXCEPT ![w] = to]
      PROVE  DeliveriesKept
  <2>1. worker'[w] = to /\ \A v \in Workers \ {w} : worker'[v] = worker[v]
    BY <1>3 DEF TypeOK
  <2> QED
    BY <1>1, <1>3, <2>1 DEF DeliveriesKept
<1>4. ASSUME NEW phase, Phase(w, phase)
      PROVE  DeliveriesKept
  <2>1. [worker[w] EXCEPT !.phase = phase].job = worker[w].job
    BY <1>2 DEF Deliveries
  <2> QED
    BY <1>3, <1>4, <2>1 DEF Phase
<1>5. ASSUME NEW phase,
             worker' = [worker EXCEPT ![w] = [worker[w] EXCEPT !.phase = phase, !.embedding = embedding]]
      PROVE  DeliveriesKept
  <2>1. [worker[w] EXCEPT !.phase = phase, !.embedding = embedding].job = worker[w].job
    BY <1>2 DEF Deliveries
  <2> QED
    BY <1>3, <1>5, <2>1
<1>6. CASE Crash(w) \/ Report(w)
  BY <1>3, <1>6 DEF Crash, Report
<1>7. CASE Claim(w) \/ Clear(w) \/ BeginWrite(w) \/ EndWrite(w)
  BY <1>4, <1>7 DEF Claim, Clear, BeginWrite, EndWrite
<1>8. CASE BeginCompletion(w) \/ Complete(w) \/ CompletionFails(w)
  BY <1>4, <1>8 DEF BeginCompletion, Complete, CompletionFails
<1>9. CASE ClaimLink(w) \/ ReadExtraction(w) \/ CompleteLink(w)
  BY <1>4, <1>9 DEF ClaimLink, ReadExtraction, CompleteLink
<1>10. CASE CheckAsset(w) \/ FailTransient(w)
  BY <1>5, <1>10 DEF CheckAsset, FailTransient
<1>11. CASE \E f \in Failures : FailFinally(w, f)
  BY <1>4, <1>11 DEF FailFinally
<1> QED
  BY <1>6, <1>7, <1>8, <1>9, <1>10, <1>11 DEF Handle

\* What a retry makes of a job is a job of the same attempt.
LEMMA RetriedIndexes ==
  ASSUME TypeOK, NEW j \in jobs, NEW r, NEW a
  PROVE  /\ Indexes(Retried(j), r, a) <=> Indexes(j, r, a)
         /\ Indexes([j EXCEPT !.state = "active"], r, a) <=> Indexes(j, r, a)
<1>1. j \in JobType
  BY RetriedType
<1>2. /\ Retried(j).stage = j.stage /\ Retried(j).repo = j.repo /\ Retried(j).attempt = j.attempt
  BY <1>1 DEF Retried, JobType
<1>3. [j EXCEPT !.state = "active"].stage = j.stage /\ [j EXCEPT !.state = "active"].repo = j.repo
      /\ [j EXCEPT !.state = "active"].attempt = j.attempt
  BY <1>1 DEF JobType
<1> QED
  BY <1>2, <1>3 DEF Indexes

LEMMA QueueHandsOut ==
  ASSUME TypeOK, NEW j \in jobs, NEW r, NEW a
  PROVE  /\ Expire(j) \/ Vanish(j) => (JobClaims(r, a)' => JobClaims(r, a))
         /\ jobs' \subseteq jobs => (JobClaims(r, a)' => JobClaims(r, a))
         /\ \A w \in Workers :
              Fetch(w, j) => /\ JobClaims(r, a)' => JobClaims(r, a)
                             /\ DeliveryClaims(r, a)' => DeliveryClaims(r, a) \/ JobClaims(r, a)
<1>1. ASSUME Expire(j)
      PROVE  JobClaims(r, a)' => JobClaims(r, a)
  BY <1>1, RetriedIndexes DEF Expire, JobClaims
<1>2. ASSUME jobs' \subseteq jobs
      PROVE  JobClaims(r, a)' => JobClaims(r, a)
  BY <1>2 DEF JobClaims
<1>3. ASSUME Vanish(j)
      PROVE  jobs' \subseteq jobs
  BY <1>3 DEF Vanish
<1>4. ASSUME NEW w \in Workers, Fetch(w, j)
      PROVE  /\ JobClaims(r, a)' => JobClaims(r, a)
             /\ DeliveryClaims(r, a)' => DeliveryClaims(r, a) \/ JobClaims(r, a)
  <2>1. JobClaims(r, a)' => JobClaims(r, a)
    BY <1>4, RetriedIndexes DEF Fetch, JobClaims
  <2> DEFINE active == [j EXCEPT !.state = "active"]
             to == [phase |-> "fetched", job |-> active, embedding |-> 0]
  <2>2. worker'[w] = to /\ \A v \in Workers \ {w} : worker'[v] = worker[v]
    BY <1>4 DEF Fetch, TypeOK
  <2>3. to.job = active /\ (Indexes(active, r, a) <=> Indexes(j, r, a))
    BY RetriedIndexes
  <2> HIDE DEF to
  <2>4. DeliveryClaims(r, a)' => DeliveryClaims(r, a) \/ JobClaims(r, a)
    BY <2>2, <2>3 DEF DeliveryClaims, JobClaims
  <2> QED
    BY <2>1, <2>4
<1> QED
  BY <1>1, <1>2, <1>3, <1>4

LEMMA ReportHandsOut ==
  ASSUME TypeOK, NEW w \in Workers, Report(w), NEW r, NEW a
  PROVE  JobClaims(r, a)' => JobClaims(r, a)
<1>1. \A j \in jobs' : \E i \in jobs : j = i \/ j = Retried(i)
  BY DEF Report
<1>2. ASSUME NEW j \in jobs', Indexes(j, r, a)
      PROVE  JobClaims(r, a)
  <2>1. PICK i \in jobs : j = i \/ j = Retried(i)
    BY <1>1
  <2>2. Indexes(i, r, a)
    BY <1>2, <2>1, RetriedIndexes
  <2> QED
    BY <2>2 DEF JobClaims
<1>3. JobClaims(r, a)' => \E j \in jobs' : Indexes(j, r, a)
  BY DEF JobClaims, Indexes
<1> QED
  BY <1>2, <1>3

\* Jobs that are delivered, given back or lost are nobody else's.
LEMMA QuietJobs ==
  ASSUME FileInv, TypeOK',
         \/ \E j \in jobs : Expire(j) \/ Vanish(j)
         \/ \E w \in Workers : (\E j \in jobs : Fetch(w, j)) \/ Report(w) \/ Crash(w)
  PROVE  FileInv'
<1>1. TypeOK
  BY DEF FileInv
<1>2. UNCHANGED <<asset, link, sequence, saving, request, sweep>>
  BY DEF Expire, Vanish, Fetch, Report, Crash, rows
<1>3. HandsOut
  <2> SUFFICES ASSUME NEW r \in Repos, NEW a \in Nat, Claimed(r, a)'
               PROVE  Claimed(r, a)
    BY DEF HandsOut
  <2>1. RequestClaims(r, a)' \/ SweepClaims(r, a)' => Claimed(r, a)
    BY <1>2, ClaimsKept DEF Claimed
  <2>2. ASSUME NEW j \in jobs, Expire(j) \/ Vanish(j)
        PROVE  Claimed(r, a)
    <3>1. worker' = worker
      BY <2>2 DEF Expire, Vanish
    <3> QED
      BY <1>1, <2>1, <2>2, <3>1, ClaimsKept, QueueHandsOut DEF Claimed
  <2>3. ASSUME NEW w \in Workers, NEW j \in jobs, Fetch(w, j)
        PROVE  Claimed(r, a)
    BY <1>1, <2>1, <2>3, QueueHandsOut DEF Claimed
  <2>4. ASSUME NEW w \in Workers, Report(w) \/ Crash(w)
        PROVE  Claimed(r, a)
    <3>1. DeliveryClaims(r, a)' => DeliveryClaims(r, a)
      BY <1>1, <2>4, HandleKeeps, DeliveriesClaim
    <3>2. JobClaims(r, a)' => JobClaims(r, a)
      <4>1. CASE Report(w)
        BY <1>1, <4>1, ReportHandsOut
      <4>2. CASE Crash(w)
        BY <4>2, ClaimsKept DEF Crash
      <4> QED
        BY <2>4, <4>1, <4>2
    <3> QED
      BY <2>1, <3>1, <3>2 DEF Claimed
  <2> QED
    BY <2>2, <2>3, <2>4
<1> QED
  BY <1>2, <1>3, QuietStep

\* Deliveries at work on the file, or about to work on a link.
LEMMA QuietDeliveries ==
  ASSUME FileInv, TypeOK', NEW w \in Workers,
         \/ Clear(w) \/ BeginWrite(w) \/ EndWrite(w) \/ BeginCompletion(w) \/ CompletionFails(w)
         \/ CheckAsset(w) \/ ReadExtraction(w) \/ FailTransient(w)
  PROVE  FileInv'
<1>1. Handle(w) /\ TypeOK
  BY DEF Handle, FileInv
<1>2. UNCHANGED <<asset, link, sequence, saving, request, sweep, jobs>>
  BY DEF Clear, BeginWrite, EndWrite, BeginCompletion, CompletionFails, CheckAsset,
         ReadExtraction, FailTransient, rows
<1>3. HandsOut
  BY <1>1, <1>2, HandleKeeps, DeliveriesClaim, ClaimsKept DEF HandsOut, Claimed
<1> QED
  BY <1>2, <1>3, QuietStep

\* Accounts and embedding generations leave the links alone.
LEMMA QuietApp ==
  ASSUME FileInv, TypeOK', StartEmbedding \/ \E u \in Runs : DeleteAccount(u)
  PROVE  FileInv'
<1>1. UNCHANGED <<asset, link, sequence, saving, request, sweep, jobs, worker>>
  BY DEF StartEmbedding, DeleteAccount, rows
<1>2. HandsOut
  BY <1>1, ClaimsKept DEF HandsOut, Claimed
<1> QED
  BY <1>1, <1>2, QuietStep

-----------------------------------------------------------------------------
(* Requests and the sweep read links of a completed asset.                 *)

\* What is read of a link while the file is completed follows it.
LEMMA ReadFollows ==
  ASSUME FileInv, UNCHANGED <<asset, link, sequence, saving>>, asset.status = "completed",
         NEW r \in Repos
  PROVE  Follows(r, link[r].attempt)'
BY DEF FileInv, LinksNumbered, Follows, TypeOK, LinkType

\* A request that takes a link in hand to index it saw the file completed.
LEMMA AsksFollow ==
  ASSUME FileInv, TypeOK', NEW q \in Requests, NEW stage, NEW r0, NEW L \in SUBSET Repos, NEW auto,
         Asks(q, stage, r0, L, auto), stage = "indexing" => asset.status = "completed"
  PROVE  FileInv'
<1> DEFINE links == {[repo |-> x, attempt |-> link[x].attempt] : x \in L}
           to == [stage |-> stage, repo |-> r0, generation |-> asset.generation, auto |-> auto,
                  links |-> links]
<1>1. UNCHANGED <<asset, link, sequence, saving, sweep, jobs, worker>>
  BY DEF Asks, rows
<1>2. request'[q] = to /\ \A p \in Requests \ {q} : request'[p] = request[p]
  BY DEF Asks, FileInv, TypeOK
<1>3. HandsOut
  <2> SUFFICES ASSUME NEW r \in Repos, NEW a \in Nat, RequestClaims(r, a)'
               PROVE  RequestClaims(r, a) \/ Follows(r, a)'
    BY <1>1, ClaimsKept DEF HandsOut, Claimed
  <2>1. PICK p \in Requests : /\ request'[p] # NoRequest /\ request'[p].stage = "indexing"
                              /\ [repo |-> r, attempt |-> a] \in request'[p].links
    BY DEF RequestClaims
  <2>2. CASE p # q
    BY <1>2, <2>1, <2>2 DEF RequestClaims
  <2>3. CASE p = q
    <3>1. stage = "indexing" /\ [repo |-> r, attempt |-> a] \in links
      BY <1>2, <2>1, <2>3
    <3>2. PICK x \in L : [repo |-> r, attempt |-> a] = [repo |-> x, attempt |-> link[x].attempt]
      BY <3>1
    <3>3. x = r /\ a = link[r].attempt
      BY <3>2
    <3> QED
      BY <1>1, <3>1, <3>3, ReadFollows
  <2> QED
    BY <2>2, <2>3
<1> QED
  BY <1>1, <1>3, QuietStep

LEMMA AskFollows ==
  ASSUME FileInv, TypeOK', NEW q \in Requests,
         (\E r \in AnyRepo : AskAgain(q, r)) \/ AskFailed(q) \/ AskReconcile(q)
  PROVE  FileInv'
<1>1. ASSUME NEW r \in AnyRepo, AskAgain(q, r)
      PROVE  FileInv'
  <2>1. {r} \ {NoRepo} \in SUBSET Repos
    BY DEF AnyRepo
  <2>2. AgainStage(r) = "indexing" => asset.status = "completed"
    BY DEF AgainStage
  <2> QED
    BY <1>1, <2>1, <2>2, AsksFollow DEF AskAgain
<1>2. ASSUME AskFailed(q) \/ AskReconcile(q)
      PROVE  FileInv'
  <2>1. asset.status = "completed"
    BY <1>2 DEF AskFailed, AskReconcile
  <2>2. PICK L \in SUBSET Repos, auto \in BOOLEAN : Asks(q, "indexing", NoRepo, L, auto)
    BY <1>2 DEF AskFailed, AskReconcile, Linked
  <2> QED
    BY <2>1, <2>2, AsksFollow
<1> QED
  BY <1>1, <1>2

\* A request that was answered has nothing in hand any more.
LEMMA AnsweredClaims ==
  ASSUME TypeOK, NEW q \in Requests, Answered(q), NEW r, NEW a, RequestClaims(r, a)'
  PROVE  RequestClaims(r, a)
<1>1. request'[q] = NoRequest /\ \A p \in Requests \ {q} : request'[p] = request[p]
  BY DEF Answered, TypeOK
<1> QED
  BY <1>1 DEF RequestClaims

LEMMA RefuseFollows ==
  ASSUME FileInv, TypeOK', NEW q \in Requests, Refuse(q)
  PROVE  FileInv'
<1>1. UNCHANGED <<asset, link, sequence, saving, sweep, jobs, worker>> /\ Answered(q) /\ TypeOK
  BY DEF Refuse, rows, FileInv
<1>2. HandsOut
  BY <1>1, ClaimsKept, AnsweredClaims DEF HandsOut, Claimed
<1> QED
  BY <1>1, <1>2, QuietStep

LEMMA SweepReadsFollow ==
  ASSUME FileInv, TypeOK', SweepReads
  PROVE  FileInv'
<1> DEFINE processing == IF Unfinished(asset.status)
                         THEN {StageOf("processing", NoRepo, asset.generation)} ELSE {}
           waiting == {r \in Linked : /\ Unfinished(link[r].status)
                                      /\ link[r].embedding = embedding}
           indexing == IF asset.status = "completed" /\ embedding # 0
                       THEN {StageOf("indexing", r, link[r].attempt) : r \in waiting} ELSE {}
<1>1. UNCHANGED <<asset, link, sequence, saving, request, jobs, worker>>
      /\ sweep' = [phase |-> "read", stages |-> processing \cup indexing]
  BY DEF SweepReads, rows
<1>2. HandsOut
  <2> SUFFICES ASSUME NEW r \in Repos, NEW a \in Nat, SweepClaims(r, a)'
               PROVE  Follows(r, a)'
    BY <1>1, ClaimsKept DEF HandsOut, Claimed
  <2>1. sweep'.phase = "read" /\ sweep'.stages = processing \cup indexing
    BY <1>1
  <2>2. PICK s \in processing \cup indexing : Indexes(s, r, a)
    <3> HIDE DEF processing, indexing
    <3> QED
      BY <2>1 DEF SweepClaims, Indexes
  <2>3. s \notin processing
    BY <2>2 DEF Indexes, StageOf
  <2>4. asset.status = "completed" /\ \E x \in Linked : s = StageOf("indexing", x, link[x].attempt)
    BY <2>2, <2>3
  <2>5. a = link[r].attempt
    BY <2>2, <2>4 DEF Indexes, StageOf
  <2> QED
    BY <1>1, <2>4, <2>5, ReadFollows
<1> QED
  BY <1>1, <1>2, QuietStep

\* The sweep goes on with stages it read.
LEMMA SweepGoesOn ==
  ASSUME FileInv, TypeOK',
         SweepReadsJobs \/ (sweep.phase = "stranded" /\ \E s \in sweep.stages : SweepReadsRun(s))
  PROVE  FileInv'
<1>1. UNCHANGED <<asset, link, sequence, saving, request, jobs, worker>>
  BY DEF SweepReadsJobs, SweepReadsRun, rows
<1>2. sweep # NotSweeping /\ sweep.phase # "failing"
  BY DEF SweepReadsJobs, SweepReadsRun, NotSweeping
<1>3. HandsOut
  <2> SUFFICES ASSUME NEW r \in Repos, NEW a \in Nat, SweepClaims(r, a)'
               PROVE  SweepClaims(r, a)
    BY <1>1, ClaimsKept DEF HandsOut, Claimed
  <2>1. ASSUME SweepReadsJobs
        PROVE  SweepClaims(r, a)
    <3>1. sweep' = NotSweeping
          \/ \E S \in SUBSET sweep.stages : sweep' = [phase |-> "stranded", stages |-> S]
      BY <2>1 DEF SweepReadsJobs
    <3>2. PICK S \in SUBSET sweep.stages : sweep' = [phase |-> "stranded", stages |-> S]
      BY <3>1 DEF SweepClaims, NotSweeping
    <3> QED
      BY <1>2, <3>2 DEF SweepClaims, Indexes
  <2>2. ASSUME NEW s \in sweep.stages, SweepReadsRun(s)
        PROVE  SweepClaims(r, a)
    <3>1. PICK u : sweep' = [phase |-> "failing", stages |-> sweep.stages \ {s}, stage |-> s, run |-> u]
      BY <2>2 DEF SweepReadsRun
    <3>2. sweep'.stages = sweep.stages \ {s} /\ sweep'.stage = s
      BY <3>1
    <3> QED
      BY <1>2, <3>2 DEF SweepClaims, Indexes
  <2> QED
    BY <2>1, <2>2
<1> QED
  BY <1>1, <1>3, QuietStep

-----------------------------------------------------------------------------
(* Steps that change what the asset or a link says, not the attempts.      *)

\* A link is gone, or keeps its attempt; only of a completed file does it say more.
Tells(r) ==
  \/ link'[r] = Gone
  \/ /\ link'[r].attempt = link[r].attempt
     /\ link'[r].status = "none" <=> link[r].status = "none"
     /\ link'[r].status \notin {"none", "pending"} =>
          link[r].status # "pending" \/ asset.status = "completed"

LEMMA StatusStep ==
  ASSUME FileInv, TypeOK', UNCHANGED <<sequence, saving>>, HandsOut,
         \A r \in Repos : Tells(r), asset.status = "completed" => asset'.status = "completed"
  PROVE  FileInv'
<1>1. ASSUME NEW r \in Repos, NEW a \in Nat, Follows(r, a)
      PROVE  Follows(r, a)'
  BY <1>1 DEF Follows, Tells, Linked, Gone
<1>2. ClaimsFollow'
  BY <1>1 DEF ClaimsFollow, HandsOut, FileInv
<1>3. LinksFollowTheFile'
  BY DEF LinksFollowTheFile, Linked, Tells, Gone, FileInv
<1>4. LinksNumbered'
  BY DEF LinksNumbered, SavingNumbered, Tells, Gone, FileInv, TypeOK
<1>5. SavingNumbered' /\ SavingReads'
  BY DEF SavingNumbered, SavingReads, FileInv
<1> QED
  BY <1>2, <1>3, <1>4, <1>5 DEF FileInv

\* Who fails an attempt that is current fails what follows the file.
LEMMA FailsFollow ==
  ASSUME FileInv, TypeOK', NEW j \in JobType \cup StageType, NEW u, NEW failure, HandsOut,
         UNCHANGED saving, Current(j), Fails(j, u, failure),
         j.stage = "indexing" /\ j.repo \in Repos => Claimed(j.repo, j.attempt)
  PROVE  FileInv'
<1>1. UNCHANGED sequence /\ j.stage \in {"processing", "indexing"}
  BY DEF Fails, JobType, StageType, Stages
<1>2. CASE j.stage = "processing"
  <2>1. link' = link /\ asset.status # "completed"
    BY <1>2 DEF Fails, Current, CurrentProcessing, Unfinished
  <2>2. \A r \in Repos : Tells(r)
    <3> SUFFICES ASSUME NEW r \in Repos
                 PROVE  Tells(r)
      OBVIOUS
    <3>1. link[r].status \notin {"none", "pending"} => link[r].status # "pending"
      OBVIOUS
    <3> QED
      BY <2>1, <3>1 DEF Tells
  <2> QED
    BY <1>1, <2>1, <2>2, StatusStep
<1>3. CASE j.stage = "indexing"
  <2>1. /\ asset' = asset /\ j.repo \in Repos
        /\ link' = [link EXCEPT ![j.repo].status = "failed", ![j.repo].failure = failure]
        /\ link[j.repo].attempt = j.attempt /\ Unfinished(link[j.repo].status)
    BY <1>3 DEF Fails, Current, CurrentIndexing
  <2>2. j.attempt \in Nat /\ Follows(j.repo, j.attempt)
    <3>1. j.attempt \in Nat
      BY DEF JobType, StageType
    <3> QED
      BY <1>3, <2>1, <3>1 DEF FileInv, ClaimsFollow
  <2>3. asset.status = "completed"
    BY <2>1, <2>2 DEF Follows, Linked, Unfinished
  <2>4. \A r \in Repos : Tells(r)
    <3> SUFFICES ASSUME NEW r \in Repos
                 PROVE  Tells(r)
      OBVIOUS
    <3>1. CASE r = j.repo
      <4>1. link'[r].attempt = link[r].attempt /\ link'[r].status = "failed"
        BY <2>1, <3>1 DEF FileInv, TypeOK, LinkType
      <4> QED
        BY <2>1, <2>3, <3>1, <4>1 DEF Tells, Unfinished
    <3>2. CASE r # j.repo
      <4>1. link'[r] = link[r]
        BY <2>1, <3>2 DEF FileInv, TypeOK
      <4> QED
        BY <2>3, <4>1 DEF Tells
    <3> QED
      BY <3>1, <3>2
  <2> QED
    BY <1>1, <2>1, <2>4, StatusStep
<1> QED
  BY <1>1, <1>2, <1>3

\* The dead letter handler, a job's last failure and the sweep.
LEMMA ExhaustedFollows ==
  ASSUME FileInv, TypeOK', NEW j \in jobs, Exhausted(j)
  PROVE  FileInv'
<1>1. UNCHANGED <<saving, worker, request, sweep>> /\ jobs' \subseteq jobs /\ j \in JobType
  BY DEF Exhausted, FileInv, TypeOK
<1>2. TypeOK
  BY DEF FileInv
<1>3. HandsOut
  BY <1>1, <1>2, ClaimsKept, QueueHandsOut DEF HandsOut, Claimed
<1>4. j.stage = "indexing" => Claimed(j.repo, j.attempt)
  BY DEF Claimed, JobClaims, Indexes
<1>5. CASE Current(j)
  <2>1. Fails(j, j.run, "again")
    BY <1>5 DEF Exhausted
  <2> QED
    BY <1>1, <1>3, <1>4, <1>5, <2>1, FailsFollow
<1>6. CASE ~Current(j)
  BY <1>1, <1>3, <1>6, QuietStep DEF Exhausted, rows
<1> QED
  BY <1>5, <1>6

LEMMA FailFinallyFollows ==
  ASSUME FileInv, TypeOK', NEW w \in Workers, NEW f \in Failures, FailFinally(w, f)
  PROVE  FileInv'
<1>1. UNCHANGED <<saving, jobs, request, sweep>> /\ Handle(w) /\ TypeOK
  BY DEF FailFinally, FileInv, Handle
<1>2. HandsOut
  BY <1>1, HandleKeeps, DeliveriesClaim, ClaimsKept DEF HandsOut, Claimed
<1>3. worker[w] # Idle /\ Job(w) \in JobType
  <2>1. worker[w].phase # "idle"
    BY DEF FailFinally, At
  <2> QED
    BY <1>1, <2>1, PhaseType DEF Idle
<1>4. Job(w).stage = "indexing" => Claimed(Job(w).repo, Job(w).attempt)
  BY <1>3 DEF Claimed, DeliveryClaims, Indexes, Job
<1>5. CASE Current(Job(w))
  <2>1. Fails(Job(w), Job(w).run, f)
    BY <1>5 DEF FailFinally
  <2> QED
    BY <1>1, <1>2, <1>3, <1>4, <1>5, <2>1, FailsFollow
<1>6. CASE ~Current(Job(w))
  BY <1>1, <1>2, <1>6, QuietStep DEF FailFinally, rows
<1> QED
  BY <1>5, <1>6

LEMMA SweepFailsFollows ==
  ASSUME FileInv, TypeOK', SweepFails
  PROVE  FileInv'
<1>1. UNCHANGED <<saving, jobs, request, worker>> /\ sweep.phase = "failing"
  BY DEF SweepFails
<1>2. sweep.stage \in StageType /\ sweep # NotSweeping
  BY <1>1 DEF FileInv, TypeOK, Sweeps, NotSweeping
<1>3. HandsOut
  <2>1. sweep' = NotSweeping \/ sweep' = [phase |-> "stranded", stages |-> sweep.stages]
    BY DEF SweepFails
  <2>2. ASSUME NEW r, NEW a, SweepClaims(r, a)'
        PROVE  SweepClaims(r, a)
    BY <1>2, <2>1, <2>2 DEF SweepClaims, Indexes, NotSweeping
  <2> QED
    BY <1>1, <2>2, ClaimsKept DEF HandsOut, Claimed
<1>4. sweep.stage.stage = "indexing" => Claimed(sweep.stage.repo, sweep.stage.attempt)
  BY <1>1 DEF Claimed, SweepClaims, Indexes
<1>5. CASE Current(sweep.stage)
  <2>1. Fails(sweep.stage, sweep.run, "again")
    BY <1>5 DEF SweepFails, StillStranded
  <2> QED
    BY <1>1, <1>2, <1>3, <1>4, <1>5, <2>1, FailsFollow
<1>6. CASE ~Current(sweep.stage)
  BY <1>1, <1>3, <1>6, QuietStep DEF SweepFails, StillStranded, rows
<1> QED
  BY <1>5, <1>6

\* Deliveries that work on a link have an indexing job.
DeliveryStages ==
  \A w \in Workers :
    worker[w].phase \in {"checked", "claimed", "indexing"} => worker[w].job.stage = "indexing"

LEMMA NextStages ==
  ASSUME TypeOK, DeliveryStages, [Next]_vars
  PROVE  DeliveryStages'
<1>1. ASSUME worker' = worker
      PROVE  DeliveryStages'
  BY <1>1 DEF DeliveryStages
<1>2. ASSUME NEW w \in Workers, NEW to, worker' = [worker EXCEPT ![w] = to],
             to.phase \in {"checked", "claimed", "indexing"} => to.job.stage = "indexing"
      PROVE  DeliveryStages'
  <2>1. worker'[w] = to /\ \A v \in Workers \ {w} : worker'[v] = worker[v]
    BY <1>2 DEF TypeOK
  <2> QED
    BY <1>2, <2>1 DEF DeliveryStages
<1>3. ASSUME NEW w \in Workers, \E j \in jobs : Fetch(w, j)
      PROVE  DeliveryStages'
  BY <1>2, <1>3 DEF Fetch
<1>4. ASSUME NEW w \in Workers, Report(w) \/ Crash(w)
      PROVE  DeliveryStages'
  BY <1>2, <1>4 DEF Report, Crash, Idle
<1>5. ASSUME NEW w \in Workers, Handle(w)
      PROVE  DeliveryStages'
  <2>1. worker[w].phase # "idle"
    BY <1>5 DEF Handle, Claim, Clear, BeginWrite, EndWrite, BeginCompletion, Complete,
         CompletionFails, CheckAsset, ClaimLink, ReadExtraction, CompleteLink, FailTransient,
         FailFinally, Failing, At
  <2>2. worker[w] \in Deliveries
    BY <2>1, PhaseType
  <2>3. ASSUME NEW phase, Phase(w, phase),
               phase \in {"checked", "claimed", "indexing"} => worker[w].job.stage = "indexing"
        PROVE  DeliveryStages'
    <3>1. /\ [worker[w] EXCEPT !.phase = phase].phase = phase
          /\ [worker[w] EXCEPT !.phase = phase].job = worker[w].job
      BY <2>2 DEF Deliveries
    <3> QED
      BY <1>2, <2>3, <3>1 DEF Phase
  <2>4. ASSUME NEW phase,
               worker' = [worker EXCEPT ![w] = [worker[w] EXCEPT !.phase = phase, !.embedding = embedding]],
               phase \in {"checked", "claimed", "indexing"} => worker[w].job.stage = "indexing"
        PROVE  DeliveryStages'
    <3>1. /\ [worker[w] EXCEPT !.phase = phase, !.embedding = embedding].phase = phase
          /\ [worker[w] EXCEPT !.phase = phase, !.embedding = embedding].job = worker[w].job
      BY <2>2 DEF Deliveries
    <3> QED
      BY <1>2, <2>4, <3>1
  <2>5. CASE Claim(w) \/ Clear(w) \/ BeginWrite(w) \/ EndWrite(w)
    BY <2>3, <2>5 DEF Claim, Clear, BeginWrite, EndWrite
  <2>6. CASE BeginCompletion(w) \/ Complete(w) \/ CompletionFails(w)
    BY <2>3, <2>6 DEF BeginCompletion, Complete, CompletionFails
  <2>7. CASE ClaimLink(w) \/ ReadExtraction(w) \/ CompleteLink(w)
    <3>1. CASE worker[w].job.stage = "indexing"
      BY <2>3, <2>7, <3>1 DEF ClaimLink, ReadExtraction, CompleteLink
    <3>2. worker[w].job.stage = "indexing"
      BY <2>7 DEF ClaimLink, ReadExtraction, CompleteLink, At, DeliveryStages
    <3> QED
      BY <3>1, <3>2
  <2>8. CASE CheckAsset(w)
    BY <2>4, <2>8 DEF CheckAsset, Job
  <2>9. CASE FailTransient(w)
    <3>1. AfterFailure(w) \in {"checked", "claimed", "indexing"} => worker[w].job.stage = "indexing"
      BY DEF AfterFailure, Job
    <3>2. worker' = [worker EXCEPT ![w] = [worker[w] EXCEPT !.phase = AfterFailure(w),
                                                           !.embedding = embedding]]
      BY <2>9 DEF FailTransient
    <3> HIDE DEF AfterFailure
    <3> QED
      BY <2>4, <3>1, <3>2
  <2>10. CASE \E f \in Failures : FailFinally(w, f)
    BY <2>3, <2>10 DEF FailFinally
  <2> QED
    BY <1>5, <2>5, <2>6, <2>7, <2>8, <2>9, <2>10 DEF Handle
<1>6. ASSUME AppStep
      PROVE  worker' = worker
  BY <1>6 DEF AppStep, Upload, UploadRefused, DeleteAccount, Unlink, SaveLink, SaveReads, SaveCommits,
     SaveAborts, DeleteAsset, StartEmbedding
<1>7. ASSUME QueueStep \/ Sweep
      PROVE  worker' = worker
  BY <1>7 DEF QueueStep, Expire, Exhausted, Vanish, Sweep, SweepReads, SweepReadsJobs, SweepReadsRun,
     SweepFails
<1>8. ASSUME NEW q \in Requests, RequestStep(q)
      PROVE  worker' = worker
  BY <1>8 DEF RequestStep, AskAgain, AskFailed, AskReconcile, Asks, AdmitProcessing, AdmitIndexing, Refuse
<1>9. CASE UNCHANGED vars
  BY <1>1, <1>9 DEF vars
<1> QED
  BY <1>1, <1>3, <1>4, <1>5, <1>6, <1>7, <1>8, <1>9 DEF Next, Delivery

\* A delivery claims or completes the link of a completed file alone.
LEMMA LinkFollows ==
  ASSUME FileInv, DeliveryStages, TypeOK', NEW w \in Workers, ClaimLink(w) \/ CompleteLink(w)
  PROVE  FileInv'
<1>1. UNCHANGED <<asset, sequence, saving, jobs, request, sweep>> /\ Handle(w) /\ TypeOK
  BY DEF ClaimLink, CompleteLink, FileInv, Handle
<1>2. HandsOut
  BY <1>1, HandleKeeps, DeliveriesClaim, ClaimsKept DEF HandsOut, Claimed
<1>3. worker[w] # Idle /\ Job(w) \in JobType /\ Job(w).stage = "indexing"
  <2>1. worker[w].phase # "idle"
    BY DEF ClaimLink, CompleteLink, At
  <2>2. Job(w).stage = "indexing"
    BY DEF ClaimLink, CompleteLink, At, DeliveryStages, Job
  <2> QED
    BY <1>1, <2>1, <2>2, PhaseType DEF Idle
<1>4. CASE link' = link
  BY <1>1, <1>2, <1>4, QuietStep
<1>5. CASE link' # link
  <2> DEFINE j == Job(w)
  <2>1. CurrentIndexing(j)
    BY <1>5 DEF ClaimLink, CompleteLink
  <2>2. PICK status \in {"active", "completed"} :
          link' = [link EXCEPT ![j.repo].status = status, ![j.repo].failure = "none"]
    BY <1>5 DEF ClaimLink, CompleteLink
  <2>3. j.repo \in Repos /\ link[j.repo].attempt = j.attempt /\ Unfinished(link[j.repo].status)
    BY <2>1 DEF CurrentIndexing
  <2>4. \A r \in Repos : /\ r = j.repo => /\ link'[r].attempt = link[r].attempt
                                         /\ link'[r].status = status
                         /\ r # j.repo => link'[r] = link[r]
    BY <1>1, <2>2, <2>3 DEF TypeOK, LinkType
  <2>5. asset.status = "completed"
    <3>1. j.attempt \in Nat /\ Claimed(j.repo, j.attempt)
      BY <1>3 DEF JobType, Claimed, DeliveryClaims, Indexes, Job
    <3>2. Follows(j.repo, j.attempt)
      BY <2>3, <3>1 DEF FileInv, ClaimsFollow
    <3> QED
      BY <2>3, <3>2 DEF Follows, Linked, Unfinished
  <2>6. \A r \in Repos : Tells(r)
    BY <2>3, <2>4, <2>5 DEF Tells, Unfinished
  <2> QED
    BY <1>1, <1>2, <2>6, StatusStep
<1> QED
  BY <1>4, <1>5

\* A delivery starts on the file only when it is not completed.
LEMMA ClaimFollows ==
  ASSUME FileInv, TypeOK', NEW w \in Workers, Claim(w)
  PROVE  FileInv'
<1>1. UNCHANGED <<link, sequence, saving, jobs, request, sweep>> /\ Handle(w) /\ TypeOK
  BY DEF Claim, FileInv, Handle
<1>2. HandsOut
  BY <1>1, HandleKeeps, DeliveriesClaim, ClaimsKept DEF HandsOut, Claimed
<1>3. CASE asset' = asset
  BY <1>1, <1>2, <1>3, QuietStep
<1>4. CASE asset' # asset
  <2>1. asset.status # "completed"
    BY <1>4 DEF Claim, CurrentProcessing, Unfinished
  <2>2. \A r \in Repos : Tells(r)
    <3>1. \A r \in Repos : link[r].status \notin {"none", "pending"} => link[r].status # "pending"
      OBVIOUS
    <3> QED
      BY <1>1, <3>1 DEF Tells
  <2> QED
    BY <1>1, <1>2, <2>1, <2>2, StatusStep
<1> QED
  BY <1>3, <1>4

LEMMA RefusedFollows ==
  ASSUME FileInv, TypeOK', NEW u \in AnyRun, UploadRefused(u)
  PROVE  FileInv'
<1>1. UNCHANGED <<link, sequence, saving, jobs, request, sweep, worker>> /\ asset.status = "none"
  BY DEF UploadRefused
<1>2. HandsOut
  BY <1>1, ClaimsKept DEF HandsOut, Claimed
<1>3. \A r \in Repos : link[r].status \notin {"none", "pending"} => link[r].status # "pending"
  OBVIOUS
<1>4. \A r \in Repos : Tells(r)
  BY <1>1, <1>3 DEF Tells
<1> QED
  BY <1>1, <1>2, <1>4, StatusStep

LEMMA UnlinkFollows ==
  ASSUME FileInv, TypeOK', NEW r \in Repos, Unlink(r)
  PROVE  FileInv'
<1>1. UNCHANGED <<asset, sequence, saving, jobs, request, sweep, worker>>
      /\ link' = [link EXCEPT ![r] = Gone]
  BY DEF Unlink
<1>2. HandsOut
  BY <1>1, ClaimsKept DEF HandsOut, Claimed
<1>3. \A q \in Repos : link'[q] = Gone \/ link'[q] = link[q]
  BY <1>1 DEF FileInv, TypeOK
<1>4. \A q \in Repos : link[q].status \notin {"none", "pending"} => link[q].status # "pending"
  OBVIOUS
<1>5. \A q \in Repos : Tells(q)
  BY <1>3, <1>4 DEF Tells
<1> QED
  BY <1>1, <1>2, <1>5, StatusStep

\* No link stays, and no save has read what goes.
LEMMA DeleteFollows ==
  ASSUME FileInv, TypeOK', DeleteAsset
  PROVE  FileInv'
<1>1. /\ UNCHANGED <<sequence, saving, jobs, request, sweep, worker>> /\ saving = NotSaving
      /\ link' = [r \in Repos |-> Gone]
  BY DEF DeleteAsset
<1>2. \A r \in Repos, a \in Nat : Claimed(r, a)' => Claimed(r, a)
  BY <1>1, ClaimsKept DEF Claimed
<1>3. \A r \in Repos, a \in Nat : Follows(r, a) => Follows(r, a)'
  BY <1>1 DEF Follows, Linked, Gone
<1>4. ClaimsFollow'
  BY <1>2, <1>3 DEF ClaimsFollow, FileInv
<1>5. LinksFollowTheFile' /\ SavingNumbered' /\ SavingReads'
  BY <1>1 DEF LinksFollowTheFile, Linked, Gone, SavingNumbered, SavingReads, NotSaving
<1>6. LinksNumbered'
  BY <1>1 DEF LinksNumbered, Gone, FileInv, TypeOK
<1> QED
  BY <1>4, <1>5, <1>6 DEF FileInv

-----------------------------------------------------------------------------
(* Admissions and saves draw new attempts.                                 *)

\* What an admission of L makes of the links.
Draws(L) ==
  /\ \A r \in L : link'[r].status = "pending" /\ link'[r].attempt = sequence + 1
  /\ \A r \in Repos \ L : link'[r] = link[r]
  /\ sequence' = IF L = {} THEN sequence ELSE sequence + 1

LEMMA DrawnLinks ==
  ASSUME TypeOK, NEW L \in SUBSET Repos, sequence' = Drawn(L),
         link' = Waiting(L) \/ link' = LinksAdmitted(L)
  PROVE  Draws(L)
<1>1. ASSUME NEW r \in L
      PROVE  link'[r].status = "pending" /\ link'[r].attempt = sequence + 1
  <2>1. link[r] \in LinkType
    BY DEF TypeOK
  <2>2. [link[r] EXCEPT !.status = "pending", !.failure = "none", !.attempt = sequence + 1].status = "pending"
        /\ [link[r] EXCEPT !.status = "pending", !.failure = "none", !.attempt = sequence + 1].attempt = sequence + 1
    BY <2>1 DEF LinkType
  <2>3. CASE link' = Waiting(L)
    <3>1. link'[r] = [link[r] EXCEPT !.status = "pending", !.failure = "none", !.attempt = sequence + 1]
      BY <2>3 DEF Waiting
    <3> QED
      BY <2>2, <3>1
  <2>4. CASE link' = LinksAdmitted(L)
    BY <2>4 DEF LinksAdmitted
  <2> QED
    BY <2>3, <2>4
<1>2. \A r \in Repos \ L : link'[r] = link[r]
  BY DEF Waiting, LinksAdmitted
<1> QED
  BY <1>1, <1>2 DEF Draws, Drawn

\* An admission: the links it leaves say no more than before, and what it hands
\* out is of the attempts it drew, for a completed file.
AdmittedOf(L) ==
  \A r \in Repos, a \in Nat :
    Claimed(r, a)' => \/ Claimed(r, a)
                      \/ r \in L /\ a = sequence + 1 /\ asset'.status = "completed"

LEMMA AdmissionStep ==
  ASSUME FileInv, TypeOK', NEW L \in SUBSET Repos, Draws(L), AdmittedOf(L),
         saving' = saving \/ saving' = NotSaving,
         asset.status = "completed" => asset'.status = "completed" \/ Linked \subseteq L,
         saving' # NotSaving => (saving.phase = "read" /\ asset.status = "completed"
                                   => asset'.status = "completed")
  PROVE  FileInv'
<1>1. sequence \in Nat /\ sequence' \in Nat /\ sequence' >= sequence
      /\ (L # {} => sequence' = sequence + 1)
  BY DEF FileInv, TypeOK, Draws
<1>2. \A r \in Repos : link[r].attempt \in Nat
  BY DEF FileInv, TypeOK, LinkType
<1>3. saving' # NotSaving => saving' = saving /\ saving.attempt \in Nat
  BY DEF FileInv, TypeOK, Savings
<1>4. ASSUME NEW r \in Repos, NEW a \in Nat, Follows(r, a)
      PROVE  Follows(r, a)'
  <2>1. a <= sequence' /\ (saving' # NotSaving => a # saving'.attempt)
    BY <1>1, <1>3, <1>4 DEF Follows
  <2>2. ASSUME r \in Linked', link'[r].attempt = a
        PROVE  asset'.status = "completed"
    <3>1. r \notin L
      BY <1>1, <1>4, <2>2 DEF Draws, Follows
    <3>2. r \in Linked /\ link[r].attempt = a
      BY <2>2, <3>1 DEF Draws, Linked
    <3> QED
      BY <1>4, <3>1, <3>2 DEF Follows
  <2> QED
    BY <2>1, <2>2 DEF Follows
<1>5. ASSUME NEW r \in L, NEW a \in Nat, a = sequence + 1, asset'.status = "completed"
      PROVE  Follows(r, a)'
  BY <1>1, <1>3, <1>5 DEF FileInv, SavingNumbered, Follows
<1>6. ClaimsFollow'
  BY <1>4, <1>5 DEF ClaimsFollow, AdmittedOf, FileInv
<1>7. LinksFollowTheFile'
  <2> SUFFICES ASSUME NEW r \in Linked', link'[r].status # "pending"
               PROVE  asset'.status = "completed"
    BY DEF LinksFollowTheFile
  <2>1. r \in Repos /\ r \notin L /\ link'[r] = link[r]
    BY DEF Draws, Linked
  <2>2. r \in Linked
    BY <2>1 DEF Linked
  <2> QED
    BY <2>1, <2>2 DEF LinksFollowTheFile, FileInv
<1>8. LinksNumbered'
  <2> SUFFICES ASSUME NEW r \in Repos
               PROVE  /\ link'[r].attempt <= sequence'
                      /\ saving' # NotSaving => link'[r].attempt # saving'.attempt
    BY DEF LinksNumbered
  <2>1. CASE r \in L
    BY <1>1, <1>3, <2>1 DEF Draws, FileInv, SavingNumbered
  <2>2. CASE r \notin L
    BY <1>1, <1>2, <1>3, <2>2 DEF Draws, FileInv, LinksNumbered
  <2> QED
    BY <2>1, <2>2
<1>9. SavingNumbered'
  BY <1>1, <1>3 DEF SavingNumbered, FileInv
<1>10. SavingReads'
  BY <1>3 DEF SavingReads, FileInv, NotSaving
<1> QED
  BY <1>6, <1>7, <1>8, <1>9, <1>10 DEF FileInv

\* The jobs of an admission are of the attempt it drew.
LEMMA AdmittedJobs ==
  ASSUME TypeOK, NEW L \in SUBSET Repos, NEW owner, jobs' = JobsAdmitted(L, owner),
         NEW r, NEW a, JobClaims(r, a)'
  PROVE  JobClaims(r, a) \/ (r \in L /\ a = sequence + 1)
<1>1. PICK j \in jobs' : Indexes(j, r, a)
  BY DEF JobClaims, Indexes
<1>2. CASE j \in jobs
  BY <1>1, <1>2 DEF JobClaims
<1>3. CASE j \notin jobs
  <2>1. PICK x \in L : j = Sent("indexing", x, sequence + 1, owner[x])
    BY <1>3 DEF JobsAdmitted
  <2> QED
    BY <1>1, <2>1 DEF Sent, Indexes
<1> QED
  BY <1>2, <1>3

\* A new generation: every link waits on a new attempt.
LEMMA ProcessingFollows ==
  ASSUME FileInv, TypeOK', NEW u, ProcessingAdmitted(u), UNCHANGED <<worker, sweep, saving>>,
         \A r, a : RequestClaims(r, a)' => RequestClaims(r, a),
         saving.phase = "read" => asset.status # "completed"
  PROVE  FileInv'
<1>1. Linked \in SUBSET Repos /\ TypeOK
  BY DEF Linked, FileInv
<1>2. Draws(Linked)
  BY <1>1, DrawnLinks DEF ProcessingAdmitted
<1>3. ASSUME NEW r, NEW a, JobClaims(r, a)'
      PROVE  JobClaims(r, a)
  BY <1>3 DEF JobClaims, ProcessingAdmitted, Indexes, Sent
<1>4. AdmittedOf(Linked)
  BY <1>3, ClaimsKept DEF AdmittedOf, Claimed
<1> QED
  BY <1>1, <1>2, <1>4, AdmissionStep

LEMMA UploadFollows ==
  ASSUME FileInv, TypeOK', NEW u \in AnyRun, Upload(u)
  PROVE  FileInv'
<1>1. ProcessingAdmitted(u) /\ UNCHANGED <<worker, sweep, saving, request>> /\ asset.status = "none"
  BY DEF Upload
<1> QED
  BY <1>1, ClaimsKept, ProcessingFollows

\* A person's request takes the next generation, once no save has read the status.
LEMMA AdmitProcessingFollows ==
  ASSUME FileInv, TypeOK', NEW q \in Requests, NEW u \in Runs, AdmitProcessing(q, u)
  PROVE  FileInv'
<1>1. /\ ProcessingAdmitted(u) /\ UNCHANGED <<worker, sweep, saving>> /\ Answered(q) /\ TypeOK
      /\ saving.phase # "read"
  BY DEF AdmitProcessing, RowWritable, AssetUnshared, FileInv
<1> QED
  BY <1>1, AnsweredClaims, ProcessingFollows

\* A request admits the links whose attempt is still the one it saw.
LEMMA AdmitIndexingFollows ==
  ASSUME FileInv, TypeOK', NEW q \in Requests, NEW u \in AnyRun, AdmitIndexing(q, u)
  PROVE  FileInv'
<1> DEFINE L == SeenLinks(q)
<1>1. /\ UNCHANGED <<asset, worker, sweep, saving>> /\ Answered(q) /\ TypeOK
      /\ link' = LinksAdmitted(L) /\ sequence' = Drawn(L)
      /\ jobs' = JobsAdmitted(L, [r \in L |-> u])
      /\ L # {} /\ request[q].stage = "indexing"
  BY DEF AdmitIndexing, FileInv
<1>2. L \in SUBSET Repos
  BY DEF SeenLinks, Linked
<1>3. asset.status = "completed"
  <2>1. PICK r \in Linked : [repo |-> r, attempt |-> link[r].attempt] \in request[q].links
    BY <1>1 DEF SeenLinks
  <2>2. r \in Repos /\ link[r].attempt \in Nat
    BY <1>1 DEF Linked, TypeOK, LinkType
  <2>3. request[q] # NoRequest
    BY <1>1 DEF NoRequest
  <2>4. Claimed(r, link[r].attempt)
    BY <1>1, <2>1, <2>3 DEF Claimed, RequestClaims
  <2>5. Follows(r, link[r].attempt)
    BY <2>2, <2>4 DEF FileInv, ClaimsFollow
  <2> QED
    BY <2>1, <2>5 DEF Follows
<1> HIDE DEF L
<1>4. Draws(L)
  BY <1>1, <1>2, DrawnLinks
<1>5. AdmittedOf(L)
  BY <1>1, <1>2, <1>3, AdmittedJobs, AnsweredClaims, ClaimsKept DEF AdmittedOf, Claimed
<1> QED
  BY <1>1, <1>2, <1>3, <1>4, <1>5, AdmissionStep

\* Completion queues indexing of every link it finds.
LEMMA CompleteFollows ==
  ASSUME FileInv, TypeOK', NEW w \in Workers, Complete(w)
  PROVE  FileInv'
<1>1. PICK owner : /\ link' = LinksAdmitted(Linked) /\ sequence' = Drawn(Linked)
                   /\ jobs' = JobsAdmitted(Linked, owner)
  BY DEF Complete
<1>2. UNCHANGED <<request, sweep, saving>> /\ TypeOK /\ Handle(w) /\ Linked \in SUBSET Repos
  BY DEF Complete, FileInv, Handle, Linked
<1>3. asset'.status = "completed"
  BY DEF Complete, FileInv, TypeOK, AssetType
<1>4. Draws(Linked)
  BY <1>1, <1>2, DrawnLinks
<1>5. DeliveriesKept
  BY <1>2, HandleKeeps
<1>6. AdmittedOf(Linked)
  BY <1>1, <1>2, <1>3, <1>5, AdmittedJobs, DeliveriesClaim, ClaimsKept DEF AdmittedOf, Claimed
<1> QED
  BY <1>2, <1>3, <1>4, <1>6, AdmissionStep

\* A link about to be saved draws an attempt nobody has in hand.
LEMMA SaveLinkFollows ==
  ASSUME FileInv, TypeOK', NEW r \in Repos, NEW u \in AnyRun, SaveLink(r, u)
  PROVE  FileInv'
<1>1. /\ UNCHANGED <<asset, link, jobs, worker, request, sweep>> /\ sequence' = sequence + 1
      /\ saving' = [phase |-> "linked", repo |-> r, run |-> u, attempt |-> sequence + 1,
                    saw |-> "none"]
      /\ sequence \in Nat /\ \A q \in Repos : link[q].attempt \in Nat
  BY DEF SaveLink, FileInv, TypeOK, LinkType
<1>2. saving'.attempt = sequence + 1 /\ saving'.phase = "linked"
  BY <1>1
<1>3. ASSUME NEW q \in Repos, NEW a \in Nat, Follows(q, a)
      PROVE  Follows(q, a)'
  <2>1. a <= sequence' /\ a # saving'.attempt
    BY <1>1, <1>2, <1>3 DEF Follows
  <2> QED
    BY <1>1, <1>3, <2>1 DEF Follows, Linked
<1>4. \A q \in Repos, a \in Nat : Claimed(q, a)' => Claimed(q, a)
  BY <1>1, ClaimsKept DEF Claimed
<1>5. ClaimsFollow'
  BY <1>3, <1>4 DEF ClaimsFollow, FileInv
<1>6. LinksFollowTheFile'
  BY <1>1 DEF LinksFollowTheFile, Linked, FileInv
<1>7. LinksNumbered'
  BY <1>1, <1>2 DEF LinksNumbered, FileInv
<1>8. SavingNumbered' /\ SavingReads'
  BY <1>1, <1>2 DEF SavingNumbered, SavingReads
<1> QED
  BY <1>5, <1>6, <1>7, <1>8 DEF FileInv

\* The save goes on to read the status, or gives up.
LEMMA SavingGoesOn ==
  ASSUME FileInv, TypeOK', SaveReads \/ SaveAborts
  PROVE  FileInv'
<1>1. UNCHANGED <<asset, link, sequence, jobs, worker, request, sweep>> /\ saving # NotSaving
  BY DEF SaveReads, SaveAborts, rows, NotSaving
<1>2. \/ saving' = NotSaving
      \/ saving' # NotSaving /\ saving'.attempt = saving.attempt /\ saving'.saw = asset.status
  <2>1. CASE SaveAborts
    BY <2>1 DEF SaveAborts
  <2>2. CASE SaveReads
    <3>1. saving \in Savings /\ saving' = [saving EXCEPT !.phase = "read", !.saw = asset.status]
      BY <1>1, <2>2 DEF SaveReads, FileInv, TypeOK
    <3>2. saving'.phase = "read" /\ saving'.attempt = saving.attempt /\ saving'.saw = asset.status
      BY <3>1 DEF Savings
    <3> QED
      BY <3>2 DEF NotSaving
  <2> QED
    BY <2>1, <2>2
<1>3. \A r \in Repos, a \in Nat : Follows(r, a) => Follows(r, a)'
  BY <1>1, <1>2 DEF Follows, Linked
<1>4. \A r \in Repos, a \in Nat : Claimed(r, a)' => Claimed(r, a)
  BY <1>1, ClaimsKept DEF Claimed
<1>5. ClaimsFollow'
  BY <1>3, <1>4 DEF ClaimsFollow, FileInv
<1>6. LinksFollowTheFile' /\ LinksNumbered'
  BY <1>1, <1>2 DEF LinksFollowTheFile, Linked, LinksNumbered, FileInv
<1>7. SavingNumbered' /\ SavingReads'
  BY <1>1, <1>2 DEF SavingNumbered, SavingReads, FileInv, NotSaving
<1> QED
  BY <1>5, <1>6, <1>7 DEF FileInv

\* The save admits its link if it read that the file is completed; otherwise the
\* link waits on the attempt it drew, which nobody has in hand.
LEMMA SaveCommitsFollows ==
  ASSUME FileInv, TypeOK', SaveCommits
  PROVE  FileInv'
<1> DEFINE r == saving.repo
<1>1. /\ UNCHANGED <<asset, worker, request, sweep>> /\ saving' = NotSaving
      /\ saving # NotSaving /\ saving \in Savings /\ saving.phase = "read" /\ TypeOK
  BY DEF SaveCommits, FileInv, TypeOK, NotSaving
<1>2. r \in Repos /\ saving.attempt \in Nat
  BY <1>1 DEF Savings
<1>3. CASE saving.saw = "completed"
  <2>1. PICK owner : /\ link' = LinksAdmitted({r}) /\ sequence' = Drawn({r})
                     /\ jobs' = JobsAdmitted({r}, owner)
    BY <1>3 DEF SaveCommits
  <2>2. asset.status = "completed" /\ {r} \in SUBSET Repos
    BY <1>1, <1>2, <1>3 DEF SavingReads, FileInv
  <2>3. Draws({r})
    BY <1>1, <2>1, <2>2, DrawnLinks
  <2>4. AdmittedOf({r})
    BY <1>1, <2>1, <2>2, AdmittedJobs, ClaimsKept DEF AdmittedOf, Claimed
  <2> QED
    BY <1>1, <2>2, <2>3, <2>4, AdmissionStep
<1>4. CASE saving.saw # "completed"
  <2> DEFINE new == [status |-> "pending", failure |-> "none", attempt |-> saving.attempt,
                     embedding |-> 0]
  <2>1. UNCHANGED <<sequence, jobs>> /\ link' = [link EXCEPT ![r] = new]
    BY <1>4 DEF SaveCommits
  <2>2. link'[r] = new /\ \A q \in Repos \ {r} : link'[q] = link[q]
    BY <1>1, <1>2, <2>1 DEF TypeOK
  <2>3. new.status = "pending" /\ new.attempt = saving.attempt
    OBVIOUS
  <2> HIDE DEF new, r
  <2>4. ASSUME NEW q \in Repos, NEW a \in Nat, Follows(q, a)
        PROVE  Follows(q, a)'
    BY <1>1, <2>1, <2>2, <2>3, <2>4 DEF Follows, Linked
  <2>5. \A q \in Repos, a \in Nat : Claimed(q, a)' => Claimed(q, a)
    BY <1>1, <2>1, ClaimsKept DEF Claimed
  <2>6. ClaimsFollow'
    BY <2>4, <2>5 DEF ClaimsFollow, FileInv
  <2>7. LinksFollowTheFile'
    BY <1>1, <2>2, <2>3 DEF LinksFollowTheFile, Linked, FileInv
  <2>8. LinksNumbered'
    BY <1>1, <2>1, <2>2, <2>3 DEF LinksNumbered, SavingNumbered, FileInv
  <2>9. SavingNumbered' /\ SavingReads'
    BY <1>1 DEF SavingNumbered, SavingReads, NotSaving
  <2> QED
    BY <2>6, <2>7, <2>8, <2>9 DEF FileInv
<1> QED
  BY <1>3, <1>4

-----------------------------------------------------------------------------
LEMMA NextFollows ==
  ASSUME FileInv, DeliveryStages, [Next]_vars
  PROVE  FileInv'
<1>1. TypeOK'
  BY NextType DEF FileInv
<1>2. ASSUME AppStep
      PROVE  FileInv'
  BY <1>1, <1>2, UploadFollows, RefusedFollows, QuietApp, UnlinkFollows, SaveLinkFollows, SavingGoesOn,
     SaveCommitsFollows, DeleteFollows DEF AppStep
<1>3. ASSUME QueueStep
      PROVE  FileInv'
  BY <1>1, <1>3, QuietJobs, ExhaustedFollows DEF QueueStep
<1>4. ASSUME Sweep
      PROVE  FileInv'
  BY <1>1, <1>4, SweepReadsFollow, SweepGoesOn, SweepFailsFollows DEF Sweep
<1>5. ASSUME NEW q \in Requests, RequestStep(q)
      PROVE  FileInv'
  BY <1>1, <1>5, AskFollows, AdmitProcessingFollows, AdmitIndexingFollows, RefuseFollows DEF RequestStep
<1>6. ASSUME NEW w \in Workers, Delivery(w)
      PROVE  FileInv'
  <2>1. CASE (\E j \in jobs : Fetch(w, j)) \/ Report(w) \/ Crash(w)
    BY <1>1, <2>1, QuietJobs
  <2>2. CASE Handle(w)
    BY <1>1, <2>2, QuietDeliveries, ClaimFollows, CompleteFollows, LinkFollows, FailFinallyFollows
       DEF Handle
  <2> QED
    BY <1>6, <2>1, <2>2 DEF Delivery
<1>7. CASE UNCHANGED vars
  <2>1. HandsOut
    BY <1>7, ClaimsKept DEF HandsOut, Claimed, vars
  <2> QED
    BY <1>1, <1>7, <2>1, QuietStep DEF vars
<1> QED
  BY <1>2, <1>3, <1>4, <1>5, <1>6, <1>7 DEF Next

LEMMA InitFollows ==
  ASSUME PreparationAssumption, Init
  PROVE  FileInv /\ DeliveryStages
<1>1. TypeOK
  BY InitType
<1>2. LinksFollowTheFile /\ LinksNumbered /\ SavingNumbered /\ SavingReads /\ DeliveryStages
  BY DEF Init, LinksFollowTheFile, Linked, Gone, LinksNumbered, SavingNumbered, SavingReads,
         DeliveryStages, Idle, NotSaving
<1>3. ClaimsFollow
  BY DEF Init, ClaimsFollow, Claimed, JobClaims, DeliveryClaims, RequestClaims, SweepClaims,
         NotSweeping
<1> QED
  BY <1>1, <1>2, <1>3 DEF FileInv

\* The invariant: whatever attempt of a link a job, a delivery, a request or the
\* sweep still has in hand, it is good only while the file is completed.  Every
\* generation draws the links new attempts (admitProcessing), and a save reads
\* the status FOR SHARE.
THEOREM FileInvariant == Spec => [](FileInv /\ DeliveryStages)
<1>1. Init => FileInv /\ DeliveryStages
  BY PreparationAssumption, InitFollows
<1>2. FileInv /\ DeliveryStages /\ [Next]_vars => FileInv' /\ DeliveryStages'
  <2>1. FileInv => TypeOK
    BY DEF FileInv
  <2> QED
    BY <2>1, NextFollows, NextStages
<1> QED
  BY <1>1, <1>2, PTL DEF Spec

\* No link is shown ready, at work or failed while its file is processed again,
\* whichever late job, retry, request or sweep still acts on it.
THEOREM LinksFollow == Spec => []LinksFollowTheFile
<1>1. FileInv => LinksFollowTheFile
  BY DEF FileInv
<1> QED
  BY <1>1, FileInvariant, PTL

-----------------------------------------------------------------------------
(* What a step may make of a link, and of the asset.                       *)

LinkStep(r) ==
  \/ link'[r] = link[r]
  \/ link'[r] = Gone
  \/ link'[r].attempt = sequence + 1
  \/ saving # NotSaving /\ link'[r].attempt = saving.attempt
  \/ Unfinished(link[r].status) /\ link'[r].attempt = link[r].attempt

LEMMA DrawsStep ==
  ASSUME NEW L, Draws(L), NEW r \in Repos
  PROVE  LinkStep(r)
BY DEF Draws, LinkStep

LEMMA FailsStep ==
  ASSUME TypeOK, NEW j, NEW u, NEW failure, Current(j), Fails(j, u, failure), NEW r \in Repos
  PROVE  LinkStep(r)
<1>1. CASE j.stage = "processing"
  BY <1>1 DEF Fails, LinkStep
<1>2. CASE j.stage # "processing"
  <2>1. /\ j.repo \in Repos /\ Unfinished(link[j.repo].status)
        /\ link' = [link EXCEPT ![j.repo].status = "failed", ![j.repo].failure = failure]
    BY <1>2 DEF Current, CurrentIndexing, Fails
  <2>2. link'[j.repo].attempt = link[j.repo].attempt /\ \A q \in Repos \ {j.repo} : link'[q] = link[q]
    BY <2>1 DEF TypeOK, LinkType
  <2> QED
    BY <2>1, <2>2 DEF LinkStep
<1> QED
  BY <1>1, <1>2

LEMMA NextLink ==
  ASSUME TypeOK, [Next]_vars, NEW r \in Repos
  PROVE  LinkStep(r)
<1> USE DEF LinkStep
<1>1. Linked \in SUBSET Repos
  BY DEF Linked
<1>2. ASSUME NEW u, ProcessingAdmitted(u)
      PROVE  LinkStep(r)
  BY <1>1, <1>2, DrawnLinks, DrawsStep DEF ProcessingAdmitted
<1>3. ASSUME AppStep
      PROVE  LinkStep(r)
  <2>1. ASSUME SaveCommits
        PROVE  LinkStep(r)
    <3>1. saving # NotSaving /\ saving \in Savings
      BY <2>1 DEF SaveCommits, NotSaving, TypeOK
    <3>2. saving.repo \in Repos
      BY <3>1 DEF Savings
    <3>3. CASE saving.saw = "completed"
      <4>1. link' = LinksAdmitted({saving.repo}) /\ sequence' = Drawn({saving.repo})
        BY <2>1, <3>3 DEF SaveCommits
      <4> QED
        BY <3>2, <4>1, DrawnLinks, DrawsStep
    <3>4. CASE saving.saw # "completed"
      <4> DEFINE new == [status |-> "pending", failure |-> "none", attempt |-> saving.attempt,
                         embedding |-> 0]
      <4>1. link' = [link EXCEPT ![saving.repo] = new]
        BY <2>1, <3>4 DEF SaveCommits
      <4>2. new.attempt = saving.attempt
        OBVIOUS
      <4> HIDE DEF new
      <4> QED
        BY <3>1, <3>2, <4>1, <4>2 DEF TypeOK
    <3> QED
      BY <3>3, <3>4
  <2>2. ASSUME NEW u \in AnyRun, Upload(u)
        PROVE  LinkStep(r)
    BY <1>2, <2>2 DEF Upload
  <2>3. ASSUME NEW q \in Repos, Unlink(q)
        PROVE  LinkStep(r)
    BY <2>3 DEF Unlink, TypeOK
  <2>4. ASSUME DeleteAsset
        PROVE  LinkStep(r)
    BY <2>4 DEF DeleteAsset
  <2>5. ASSUME \/ \E u \in AnyRun : UploadRefused(u) \/ \E q \in Repos : SaveLink(q, u)
               \/ SaveReads \/ SaveAborts \/ StartEmbedding \/ \E u \in Runs : DeleteAccount(u)
        PROVE  link' = link
    BY <2>5 DEF UploadRefused, SaveLink, SaveReads, SaveAborts, StartEmbedding, DeleteAccount, rows
  <2> QED
    BY <1>3, <2>1, <2>2, <2>3, <2>4, <2>5 DEF AppStep
<1>4. ASSUME NEW q \in Requests, RequestStep(q)
      PROVE  LinkStep(r)
  <2>1. ASSUME NEW u \in Runs, AdmitProcessing(q, u)
        PROVE  LinkStep(r)
    BY <1>2, <2>1 DEF AdmitProcessing
  <2>2. ASSUME NEW u \in AnyRun, AdmitIndexing(q, u)
        PROVE  LinkStep(r)
    <3>1. SeenLinks(q) \in SUBSET Repos
      BY DEF SeenLinks, Linked
    <3>2. link' = LinksAdmitted(SeenLinks(q)) /\ sequence' = Drawn(SeenLinks(q))
      BY <2>2 DEF AdmitIndexing
    <3> QED
      BY <3>1, <3>2, DrawnLinks, DrawsStep
  <2>3. ASSUME (\E x \in AnyRepo : AskAgain(q, x)) \/ AskFailed(q) \/ AskReconcile(q) \/ Refuse(q)
        PROVE  link' = link
    BY <2>3 DEF AskAgain, AskFailed, AskReconcile, Asks, Refuse, rows
  <2> QED
    BY <1>4, <2>1, <2>2, <2>3 DEF RequestStep
<1>5. ASSUME QueueStep
      PROVE  LinkStep(r)
  BY <1>5, FailsStep DEF QueueStep, Expire, Exhausted, Vanish, rows
<1>6. ASSUME Sweep
      PROVE  LinkStep(r)
  <2>1. CASE SweepFails
    BY <2>1, FailsStep DEF SweepFails, StillStranded, rows
  <2>2. CASE ~SweepFails
    BY <1>6, <2>2 DEF Sweep, SweepReads, SweepReadsJobs, SweepReadsRun, rows
  <2> QED
    BY <2>1, <2>2
<1>7. ASSUME NEW w \in Workers, Delivery(w)
      PROVE  LinkStep(r)
  <2>1. ASSUME Complete(w)
        PROVE  LinkStep(r)
    <3>1. link' = LinksAdmitted(Linked) /\ sequence' = Drawn(Linked)
      BY <2>1 DEF Complete
    <3> QED
      BY <1>1, <3>1, DrawnLinks, DrawsStep
  <2>2. ASSUME ClaimLink(w) \/ CompleteLink(w), link' # link
        PROVE  LinkStep(r)
    <3>1. CurrentIndexing(Job(w))
      BY <2>2 DEF ClaimLink, CompleteLink
    <3>2. PICK status : link' = [link EXCEPT ![Job(w).repo].status = status, ![Job(w).repo].failure = "none"]
      BY <2>2 DEF ClaimLink, CompleteLink
    <3>3. /\ Unfinished(link[Job(w).repo].status)
          /\ link'[Job(w).repo].attempt = link[Job(w).repo].attempt
          /\ \A q \in Repos \ {Job(w).repo} : link'[q] = link[q]
      BY <3>1, <3>2 DEF CurrentIndexing, TypeOK, LinkType
    <3> QED
      BY <3>3
  <2>3. ASSUME NEW f \in Failures, FailFinally(w, f)
        PROVE  LinkStep(r)
    BY <2>3, FailsStep DEF FailFinally, rows
  <2>4. ASSUME \/ Claim(w) \/ Clear(w) \/ BeginWrite(w) \/ EndWrite(w) \/ BeginCompletion(w)
               \/ CompletionFails(w) \/ CheckAsset(w) \/ ReadExtraction(w) \/ FailTransient(w)
        PROVE  link' = link
    BY <2>4 DEF Claim, Clear, BeginWrite, EndWrite, BeginCompletion, CompletionFails, CheckAsset,
                ReadExtraction, FailTransient, rows
  <2>5. ASSUME (\E j \in jobs : Fetch(w, j)) \/ Report(w) \/ Crash(w)
        PROVE  link' = link
    BY <2>5 DEF Fetch, Report, Crash, rows
  <2> QED
    BY <1>7, <2>1, <2>2, <2>3, <2>4, <2>5 DEF Delivery, Handle
<1>8. CASE UNCHANGED vars
  BY <1>8 DEF vars
<1> QED
  BY <1>3, <1>4, <1>5, <1>6, <1>7, <1>8 DEF Next

\* Outside a completion, what changes the asset's row waits until nobody
\* completes it, and ends no attempt that ended.
AssetStep ==
  \/ asset' = asset
  \/ asset.status = "none"
  \/ AssetRowFree /\ \/ Unfinished(asset.status)
                     \/ asset'.generation # asset.generation
                     \/ asset'.status = "deleted"

LEMMA FailsAsset ==
  ASSUME NEW j, NEW u, NEW failure, Current(j), Fails(j, u, failure)
  PROVE  AssetStep
BY DEF Current, CurrentProcessing, Fails, AssetStep, RowWritable

LEMMA NextAsset ==
  ASSUME TypeOK, [Next]_vars, \A w \in Workers : ~Complete(w)
  PROVE  AssetStep
<1>1. ASSUME AppStep
      PROVE  AssetStep
  <2>1. ASSUME DeleteAsset
        PROVE  AssetStep
    <3>1. asset'.status = "deleted"
      BY <2>1 DEF DeleteAsset, TypeOK, AssetType
    <3> QED
      BY <2>1, <3>1 DEF DeleteAsset, AssetStep
  <2>2. ASSUME \E u \in AnyRun : Upload(u) \/ UploadRefused(u)
        PROVE  AssetStep
    BY <2>2 DEF Upload, UploadRefused, AssetStep
  <2>3. ASSUME \/ \E u \in AnyRun, q \in Repos : SaveLink(q, u)
               \/ \E q \in Repos : Unlink(q)
               \/ SaveReads \/ SaveCommits \/ SaveAborts \/ StartEmbedding
               \/ \E u \in Runs : DeleteAccount(u)
        PROVE  asset' = asset
    BY <2>3 DEF SaveLink, Unlink, SaveReads, SaveCommits, SaveAborts, StartEmbedding, DeleteAccount, rows
  <2> QED
    BY <1>1, <2>1, <2>2, <2>3 DEF AppStep, AssetStep
<1>2. ASSUME NEW q \in Requests, RequestStep(q)
      PROVE  AssetStep
  <2>1. ASSUME NEW u \in Runs, AdmitProcessing(q, u)
        PROVE  AssetStep
    <3>1. asset'.generation = asset.generation + 1 /\ asset.generation \in Nat
      BY <2>1 DEF AdmitProcessing, ProcessingAdmitted, TypeOK, AssetType
    <3> QED
      BY <2>1, <3>1 DEF AdmitProcessing, RowWritable, AssetStep
  <2>2. ASSUME \/ \E x \in AnyRepo : AskAgain(q, x)
               \/ AskFailed(q) \/ AskReconcile(q) \/ Refuse(q)
               \/ \E u \in AnyRun : AdmitIndexing(q, u)
        PROVE  asset' = asset
    BY <2>2 DEF AskAgain, AskFailed, AskReconcile, Asks, Refuse, AdmitIndexing, rows
  <2> QED
    BY <1>2, <2>1, <2>2 DEF RequestStep, AssetStep
<1>3. ASSUME QueueStep
      PROVE  AssetStep
  BY <1>3, FailsAsset DEF QueueStep, Expire, Exhausted, Vanish, rows, AssetStep
<1>4. ASSUME Sweep
      PROVE  AssetStep
  <2>1. CASE SweepFails
    BY <2>1, FailsAsset DEF SweepFails, StillStranded, rows, AssetStep
  <2>2. CASE ~SweepFails
    BY <1>4, <2>2 DEF Sweep, SweepReads, SweepReadsJobs, SweepReadsRun, rows, AssetStep
  <2> QED
    BY <2>1, <2>2
<1>5. ASSUME NEW w \in Workers, Delivery(w)
      PROVE  AssetStep
  <2>1. ASSUME Claim(w)
        PROVE  AssetStep
    BY <2>1 DEF Claim, CurrentProcessing, RowWritable, AssetStep
  <2>2. ASSUME NEW f \in Failures, FailFinally(w, f)
        PROVE  AssetStep
    BY <2>2, FailsAsset DEF FailFinally, rows, AssetStep
  <2>3. ASSUME \/ Clear(w) \/ BeginWrite(w) \/ EndWrite(w) \/ BeginCompletion(w)
               \/ CompletionFails(w) \/ CheckAsset(w) \/ ReadExtraction(w) \/ FailTransient(w)
               \/ ClaimLink(w) \/ CompleteLink(w)
        PROVE  asset' = asset
    BY <2>3 DEF Clear, BeginWrite, EndWrite, BeginCompletion, CompletionFails, CheckAsset,
                ReadExtraction, FailTransient, ClaimLink, CompleteLink, rows
  <2>4. ASSUME (\E j \in jobs : Fetch(w, j)) \/ Report(w) \/ Crash(w)
        PROVE  asset' = asset
    BY <2>4 DEF Fetch, Report, Crash, rows
  <2> QED
    BY <1>5, <2>1, <2>2, <2>3, <2>4 DEF Delivery, Handle, AssetStep
<1>6. CASE UNCHANGED vars
  BY <1>6 DEF vars, AssetStep
<1> QED
  BY <1>1, <1>2, <1>3, <1>4, <1>5, <1>6 DEF Next

\* A transaction that completes the file holds its row, alone, and the attempt
\* it completes is current until it commits.
Completes ==
  \A w \in Workers : worker[w].phase = "completing" =>
    /\ CurrentProcessing(worker[w].job)
    /\ \A v \in Workers : worker[v].phase = "completing" => v = w

\* No other delivery gets to complete by a step of this one.
LEMMA DeliveryCompletes ==
  ASSUME TypeOK, NEW w \in Workers, Delivery(w), ~BeginCompletion(w)
  PROVE  /\ worker'[w].phase # "completing"
            \/ (worker[w].phase = "completing" /\ worker'[w].job = worker[w].job)
         /\ \A v \in Workers \ {w} : worker'[v] = worker[v]
<1>1. ASSUME NEW to, worker' = [worker EXCEPT ![w] = to], to.phase # "completing"
      PROVE  /\ worker'[w].phase # "completing"
             /\ \A v \in Workers \ {w} : worker'[v] = worker[v]
  BY <1>1 DEF TypeOK
<1>2. CASE (\E j \in jobs : Fetch(w, j)) \/ Report(w) \/ Crash(w)
  <2>1. PICK to : worker' = [worker EXCEPT ![w] = to] /\ to.phase # "completing"
    BY <1>2 DEF Fetch, Report, Crash, Idle
  <2> QED
    BY <1>1, <2>1
<1>3. CASE Handle(w)
  <2>1. worker[w].phase # "idle"
    BY <1>3 DEF Handle, Claim, Clear, BeginWrite, EndWrite, BeginCompletion, Complete,
         CompletionFails, CheckAsset, ClaimLink, ReadExtraction, CompleteLink, FailTransient,
         FailFinally, Failing, At
  <2>2. worker[w] \in Deliveries
    BY <2>1, PhaseType
  <2>3. ASSUME NEW phase, Phase(w, phase), phase # "completing"
        PROVE  /\ worker'[w].phase # "completing"
               /\ \A v \in Workers \ {w} : worker'[v] = worker[v]
    <3>1. [worker[w] EXCEPT !.phase = phase].phase = phase
      BY <2>2 DEF Deliveries
    <3> QED
      BY <1>1, <2>3, <3>1 DEF Phase
  <2>4. ASSUME NEW phase, phase # "completing",
               worker' = [worker EXCEPT ![w] = [worker[w] EXCEPT !.phase = phase, !.embedding = embedding]]
        PROVE  /\ worker'[w].phase # "completing"
               /\ \A v \in Workers \ {w} : worker'[v] = worker[v]
    <3>1. [worker[w] EXCEPT !.phase = phase, !.embedding = embedding].phase = phase
      BY <2>2 DEF Deliveries
    <3> QED
      BY <1>1, <2>4, <3>1
  <2>5. CASE Claim(w) \/ Clear(w) \/ BeginWrite(w) \/ EndWrite(w)
    BY <2>3, <2>5 DEF Claim, Clear, BeginWrite, EndWrite
  <2>6. CASE Complete(w) \/ CompletionFails(w)
    BY <2>3, <2>6 DEF Complete, CompletionFails
  <2>7. CASE ClaimLink(w) \/ ReadExtraction(w) \/ CompleteLink(w)
    BY <2>3, <2>7 DEF ClaimLink, ReadExtraction, CompleteLink
  <2>8. CASE CheckAsset(w)
    BY <2>4, <2>8 DEF CheckAsset
  <2>9. CASE FailTransient(w)
    <3>1. AfterFailure(w) # "completing"
      BY DEF AfterFailure
    <3>2. worker' = [worker EXCEPT ![w] = [worker[w] EXCEPT !.phase = AfterFailure(w),
                                                           !.embedding = embedding]]
      BY <2>9 DEF FailTransient
    <3> HIDE DEF AfterFailure
    <3> QED
      BY <2>4, <3>1, <3>2
  <2>10. CASE \E f \in Failures : FailFinally(w, f)
    BY <2>3, <2>10 DEF FailFinally
  <2> QED
    BY <1>3, <2>5, <2>6, <2>7, <2>8, <2>9, <2>10 DEF Handle
<1> QED
  BY <1>2, <1>3 DEF Delivery

LEMMA NextCompletes ==
  ASSUME TypeOK, Completes, [Next]_vars
  PROVE  Completes'
<1>1. ASSUME NEW w \in Workers, BeginCompletion(w)
      PROVE  Completes'
  <2>1. asset' = asset /\ AssetRowFree
    BY <1>1 DEF BeginCompletion, rows, RowWritable
  <2>2. worker[w] \in Deliveries
    BY <1>1, PhaseType DEF BeginCompletion, At
  <2> DEFINE phase == IF CurrentProcessing(Job(w)) THEN "completing" ELSE "succeeded"
  <2>3. /\ worker' = [worker EXCEPT ![w] = [worker[w] EXCEPT !.phase = phase]]
        /\ phase = "completing" => CurrentProcessing(worker[w].job)
    BY <1>1 DEF BeginCompletion, Phase, Job
  <2> HIDE DEF phase
  <2>4. [worker[w] EXCEPT !.phase = phase].phase = phase
        /\ [worker[w] EXCEPT !.phase = phase].job = worker[w].job
    BY <2>2 DEF Deliveries
  <2>5. worker'[w].phase = phase /\ worker'[w].job = worker[w].job
        /\ \A v \in Workers \ {w} : worker'[v] = worker[v]
    BY <2>3, <2>4 DEF TypeOK
  <2> QED
    BY <2>1, <2>3, <2>5 DEF Completes, AssetRowFree, CurrentProcessing
<1>2. ASSUME NEW w \in Workers, Complete(w)
      PROVE  Completes'
  <2>1. worker[w].phase = "completing" /\ \A v \in Workers \ {w} : worker[v].phase # "completing"
    BY <1>2 DEF Complete, At, Completes
  <2>2. worker[w] \in Deliveries
    BY <2>1, PhaseType
  <2>3. [worker[w] EXCEPT !.phase = "succeeded"].phase = "succeeded"
    BY <2>2 DEF Deliveries
  <2>4. worker'[w].phase = "succeeded" /\ \A v \in Workers \ {w} : worker'[v] = worker[v]
    BY <1>2, <2>3 DEF Complete, Phase, TypeOK
  <2> QED
    BY <2>1, <2>4 DEF Completes
<1>3. ASSUME \A w \in Workers : ~BeginCompletion(w) /\ ~Complete(w)
      PROVE  Completes'
  <2>1. AssetStep
    BY <1>3, NextAsset
  <2>2. \A v \in Workers : worker'[v].phase = "completing" =>
          worker[v].phase = "completing" /\ worker'[v].job = worker[v].job
    <3>1. ASSUME NEW w \in Workers, Delivery(w)
          PROVE  \A v \in Workers : worker'[v].phase = "completing" =>
                   worker[v].phase = "completing" /\ worker'[v].job = worker[v].job
      BY <1>3, <3>1, DeliveryCompletes
    <3>2. ASSUME AppStep
          PROVE  worker' = worker
      BY <3>2 DEF AppStep, Upload, UploadRefused, DeleteAccount, Unlink, SaveLink, SaveReads, SaveCommits,
         SaveAborts, DeleteAsset, StartEmbedding
    <3>3. ASSUME QueueStep \/ Sweep
          PROVE  worker' = worker
      BY <3>3 DEF QueueStep, Expire, Exhausted, Vanish, Sweep, SweepReads, SweepReadsJobs, SweepReadsRun,
         SweepFails
    <3>4. ASSUME NEW q \in Requests, RequestStep(q)
          PROVE  worker' = worker
      BY <3>4 DEF RequestStep, AskAgain, AskFailed, AskReconcile, Asks, AdmitProcessing, AdmitIndexing,
         Refuse
    <3>5. CASE UNCHANGED vars
      BY <3>5 DEF vars
    <3> QED
      BY <3>1, <3>2, <3>3, <3>4, <3>5 DEF Next
  <2>3. CASE asset' = asset
    BY <2>2, <2>3 DEF Completes, CurrentProcessing
  <2>4. CASE asset.status = "none" \/ AssetRowFree
    <3>1. \A v \in Workers : worker[v].phase # "completing"
      BY <2>4 DEF Completes, CurrentProcessing, Unfinished, AssetRowFree
    <3> QED
      BY <2>2, <3>1 DEF Completes
  <2> QED
    BY <2>1, <2>3, <2>4 DEF AssetStep
<1> QED
  BY <1>1, <1>2, <1>3

\* The links there are have drawn an attempt.
LinksDrawn == \A r \in Linked : link[r].attempt > 0

LEMMA NextDrawn ==
  ASSUME FileInv, LinksDrawn, [Next]_vars
  PROVE  LinksDrawn'
<1> SUFFICES ASSUME NEW r \in Repos, link'[r].status # "none"
             PROVE  link'[r].attempt > 0
  BY DEF LinksDrawn, Linked
<1>1. LinkStep(r) /\ sequence \in Nat /\ link[r].attempt \in Nat
  BY NextLink DEF FileInv, TypeOK, LinkType
<1>2. saving # NotSaving => saving.attempt > 0
  BY DEF FileInv, SavingNumbered
<1>3. r \in Linked => link[r].attempt > 0
  BY DEF LinksDrawn
<1>4. Unfinished(link[r].status) \/ link'[r] = link[r] => (link'[r].attempt = link[r].attempt => link'[r].attempt > 0)
  BY <1>3 DEF Unfinished, Linked
<1> QED
  BY <1>1, <1>2, <1>4 DEF LinkStep, Gone

\* What a step may never do to an attempt that ended.
LEMMA EndedStep ==
  ASSUME FileInv, LinksDrawn, Completes, [Next]_vars
  PROVE  /\ asset'.generation = asset.generation /\ asset.status \in {"completed", "failed"}
              => asset'.status \in {asset.status, "deleted"}
         /\ \A r \in Repos : link'[r].attempt = link[r].attempt /\ link[r].status \in {"completed", "failed"}
              => link'[r].status = link[r].status
<1>1. ASSUME asset'.generation = asset.generation, asset.status \in {"completed", "failed"}
      PROVE  asset'.status \in {asset.status, "deleted"}
  <2>1. \A w \in Workers : ~Complete(w)
    BY <1>1 DEF Complete, Completes, CurrentProcessing, Unfinished, At
  <2>2. AssetStep
    BY <2>1, NextAsset DEF FileInv
  <2> QED
    BY <1>1, <2>2 DEF AssetStep, Unfinished
<1>2. ASSUME NEW r \in Repos, link'[r].attempt = link[r].attempt, link[r].status \in {"completed", "failed"}
      PROVE  link'[r].status = link[r].status
  <2>1. LinkStep(r)
    BY NextLink DEF FileInv
  <2>2. /\ link[r].attempt > 0 /\ link[r].attempt # sequence + 1
        /\ saving # NotSaving => link[r].attempt # saving.attempt
    <3>1. link[r].attempt > 0
      BY <1>2 DEF LinksDrawn, Linked
    <3>2. link[r].attempt <= sequence /\ sequence \in Nat /\ link[r].attempt \in Nat
      BY DEF FileInv, LinksNumbered, TypeOK, LinkType
    <3> QED
      BY <3>1, <3>2 DEF FileInv, LinksNumbered
  <2>3. link'[r] # Gone
    BY <1>2, <2>2 DEF Gone
  <2> QED
    BY <1>2, <2>1, <2>2, <2>3 DEF LinkStep, Unfinished
<1> QED
  BY <1>1, <1>2

\* An attempt that was completed or failed stays so: no late or duplicate job,
\* no sweep and no dead letter changes it, and a new one has a new number.
THEOREM EndedStays == Spec => EndedStaysEnded
<1>1. Init => LinksDrawn /\ Completes
  BY DEF Init, LinksDrawn, Linked, Gone, Completes, Idle
<1>2. FileInv /\ LinksDrawn /\ Completes /\ [Next]_vars => LinksDrawn' /\ Completes'
  <2>1. FileInv => TypeOK
    BY DEF FileInv
  <2> QED
    BY <2>1, NextDrawn, NextCompletes
<1>3. ASSUME FileInv, LinksDrawn, Completes, [Next]_vars
      PROVE  [/\ asset'.generation = asset.generation /\ asset.status \in {"completed", "failed"}
                   => asset'.status \in {asset.status, "deleted"}
              /\ \A r \in Repos : link'[r].attempt = link[r].attempt
                                    /\ link[r].status \in {"completed", "failed"}
                   => link'[r].status = link[r].status]_vars
  BY <1>3, EndedStep
<1> QED
  BY <1>1, <1>2, <1>3, FileInvariant, PTL DEF Spec, EndedStaysEnded

\* Whoever writes to storage writes for an asset that is there.
WritesForAsset ==
  \A w \in Workers : worker[w].phase = "writing" => asset.status # "deleted"

\* Only a deletion makes the asset deleted.
LEMMA NextDeleted ==
  ASSUME TypeOK, [Next]_vars, asset'.status = "deleted", asset.status # "deleted"
  PROVE  NobodyWrites /\ worker' = worker
<1> USE DEF TypeOK, AssetType
<1>1. ASSUME NEW j, NEW u, NEW failure, Fails(j, u, failure)
      PROVE  FALSE
  BY <1>1 DEF Fails
<1>2. ASSUME NEW u, ProcessingAdmitted(u)
      PROVE  FALSE
  BY <1>2 DEF ProcessingAdmitted
<1>3. ASSUME AppStep, ~DeleteAsset
      PROVE  FALSE
  <2>1. CASE \E u \in AnyRun : Upload(u) \/ UploadRefused(u)
    BY <1>2, <2>1 DEF Upload, UploadRefused
  <2>2. CASE \/ \E u \in AnyRun, q \in Repos : SaveLink(q, u)
             \/ \E q \in Repos : Unlink(q)
             \/ SaveReads \/ SaveCommits \/ SaveAborts \/ StartEmbedding
             \/ \E u \in Runs : DeleteAccount(u)
    BY <2>2 DEF SaveLink, Unlink, SaveReads, SaveCommits, SaveAborts, StartEmbedding, DeleteAccount, rows
  <2> QED
    BY <1>3, <2>1, <2>2 DEF AppStep
<1>4. ASSUME NEW q \in Requests, RequestStep(q)
      PROVE  FALSE
  <2>1. ASSUME \/ \E x \in AnyRepo : AskAgain(q, x)
               \/ AskFailed(q) \/ AskReconcile(q) \/ Refuse(q)
               \/ \E u \in AnyRun : AdmitIndexing(q, u)
        PROVE  asset' = asset
    BY <2>1 DEF AskAgain, AskFailed, AskReconcile, Asks, Refuse, AdmitIndexing, rows
  <2> QED
    BY <1>2, <1>4, <2>1 DEF RequestStep, AdmitProcessing
<1>5. ASSUME QueueStep \/ Sweep
      PROVE  FALSE
  BY <1>1, <1>5 DEF QueueStep, Expire, Exhausted, Vanish, Sweep, SweepReads, SweepReadsJobs,
                    SweepReadsRun, SweepFails, rows
<1>6. ASSUME NEW w \in Workers, Delivery(w)
      PROVE  FALSE
  <2>1. CASE Claim(w) \/ Complete(w)
    BY <2>1 DEF Claim, Complete
  <2>2. CASE \E f \in Failures : FailFinally(w, f)
    BY <1>1, <2>2 DEF FailFinally, rows
  <2>3. CASE \/ Clear(w) \/ BeginWrite(w) \/ EndWrite(w) \/ BeginCompletion(w)
             \/ CompletionFails(w) \/ CheckAsset(w) \/ ReadExtraction(w) \/ FailTransient(w)
             \/ ClaimLink(w) \/ CompleteLink(w)
    BY <2>3 DEF Clear, BeginWrite, EndWrite, BeginCompletion, CompletionFails, CheckAsset,
                ReadExtraction, FailTransient, ClaimLink, CompleteLink, rows
  <2>4. CASE (\E j \in jobs : Fetch(w, j)) \/ Report(w) \/ Crash(w)
    BY <2>4 DEF Fetch, Report, Crash, rows
  <2> QED
    BY <1>6, <2>1, <2>2, <2>3, <2>4 DEF Delivery, Handle
<1>7. CASE UNCHANGED vars
  BY <1>7 DEF vars
<1>8. ASSUME DeleteAsset
      PROVE  NobodyWrites /\ worker' = worker
  BY <1>8 DEF DeleteAsset
<1> QED
  BY <1>3, <1>4, <1>5, <1>6, <1>7, <1>8 DEF Next

\* A delivery gets to write by checking that its attempt is current.
LEMMA DeliveryWrites ==
  ASSUME TypeOK, NEW w \in Workers, Delivery(w), ~BeginCompletion(w), worker'[w].phase = "writing"
  PROVE  CurrentProcessing(worker[w].job)
<1>1. CASE (\E j \in jobs : Fetch(w, j)) \/ Report(w) \/ Crash(w)
  <2>1. PICK to : worker' = [worker EXCEPT ![w] = to] /\ to.phase # "writing"
    BY <1>1 DEF Fetch, Report, Crash, Idle
  <2> QED
    BY <2>1 DEF TypeOK
<1>2. CASE Handle(w)
  <2>1. worker[w].phase # "idle"
    BY <1>2 DEF Handle, Claim, Clear, BeginWrite, EndWrite, BeginCompletion, Complete,
         CompletionFails, CheckAsset, ClaimLink, ReadExtraction, CompleteLink, FailTransient,
         FailFinally, Failing, At
  <2>2. worker[w] \in Deliveries
    BY <2>1, PhaseType
  <2>3. ASSUME NEW phase, Phase(w, phase)
        PROVE  phase = "writing"
    <3>1. [worker[w] EXCEPT !.phase = phase].phase = phase
      BY <2>2 DEF Deliveries
    <3> QED
      BY <2>3, <3>1 DEF Phase, TypeOK
  <2>4. ASSUME NEW to, worker' = [worker EXCEPT ![w] = to], to.phase # "writing"
        PROVE  FALSE
    BY <2>4 DEF TypeOK
  <2>5. CASE BeginWrite(w)
    <3> DEFINE phase == IF CurrentProcessing(Job(w)) THEN "writing" ELSE "succeeded"
    <3>1. Phase(w, phase) /\ (phase = "writing" => CurrentProcessing(worker[w].job))
      BY <2>5 DEF BeginWrite, Job
    <3> HIDE DEF phase
    <3> QED
      BY <2>3, <3>1
  <2>6. CASE Claim(w) \/ Clear(w) \/ EndWrite(w) \/ Complete(w) \/ CompletionFails(w)
    BY <2>3, <2>6 DEF Claim, Clear, EndWrite, Complete, CompletionFails
  <2>7. CASE ClaimLink(w) \/ ReadExtraction(w) \/ CompleteLink(w)
    BY <2>3, <2>7 DEF ClaimLink, ReadExtraction, CompleteLink
  <2>8. CASE CheckAsset(w)
    <3> DEFINE phase == IF asset.status = "completed" /\ embedding # 0 THEN "checked" ELSE "succeeded"
               to == [worker[w] EXCEPT !.phase = phase, !.embedding = embedding]
    <3>1. worker' = [worker EXCEPT ![w] = to]
      BY <2>8 DEF CheckAsset
    <3>2. to.phase # "writing"
      BY <2>2 DEF Deliveries
    <3> HIDE DEF to
    <3> QED
      BY <2>4, <3>1, <3>2
  <2>9. CASE FailTransient(w)
    <3> DEFINE to == [worker[w] EXCEPT !.phase = AfterFailure(w), !.embedding = embedding]
    <3>1. worker' = [worker EXCEPT ![w] = to]
      BY <2>9 DEF FailTransient
    <3>2. AfterFailure(w) # "writing"
      BY DEF AfterFailure
    <3>3. to.phase # "writing"
      BY <2>2, <3>2 DEF Deliveries
    <3> HIDE DEF to
    <3> QED
      BY <2>4, <3>1, <3>3
  <2>10. CASE \E f \in Failures : FailFinally(w, f)
    BY <2>3, <2>10 DEF FailFinally
  <2> QED
    BY <1>2, <2>5, <2>6, <2>7, <2>8, <2>9, <2>10 DEF Handle
<1> QED
  BY <1>1, <1>2 DEF Delivery

LEMMA NextWrites ==
  ASSUME TypeOK, WritesForAsset, [Next]_vars
  PROVE  WritesForAsset'
<1> SUFFICES ASSUME NEW v \in Workers, worker'[v].phase = "writing", asset'.status = "deleted"
             PROVE  FALSE
  BY DEF WritesForAsset
<1>1. CASE asset.status # "deleted"
  <2>1. NobodyWrites /\ worker' = worker
    BY <1>1, NextDeleted
  <2> QED
    BY <2>1 DEF NobodyWrites
<1>2. CASE asset.status = "deleted"
  <2>1. worker[v].phase # "writing" /\ worker' # worker /\ \A j : ~CurrentProcessing(j)
    BY <1>2 DEF WritesForAsset, CurrentProcessing, Unfinished
  <2>2. PICK w \in Workers : Delivery(w)
    <3>1. ASSUME AppStep
          PROVE  worker' = worker
      BY <3>1 DEF AppStep, Upload, UploadRefused, DeleteAccount, Unlink, SaveLink, SaveReads, SaveCommits,
         SaveAborts, DeleteAsset, StartEmbedding
    <3>2. ASSUME QueueStep \/ Sweep
          PROVE  worker' = worker
      BY <3>2 DEF QueueStep, Expire, Exhausted, Vanish, Sweep, SweepReads, SweepReadsJobs, SweepReadsRun,
         SweepFails
    <3>3. ASSUME NEW q \in Requests, RequestStep(q)
          PROVE  worker' = worker
      BY <3>3 DEF RequestStep, AskAgain, AskFailed, AskReconcile, Asks, AdmitProcessing, AdmitIndexing,
         Refuse
    <3>4. vars' # vars
      BY <2>1 DEF vars
    <3> QED
      BY <2>1, <3>1, <3>2, <3>3, <3>4 DEF Next
  <2>3. CASE BeginCompletion(w)
    <3>1. PICK phase \in {"completing", "succeeded"} : Phase(w, phase)
      BY <2>3 DEF BeginCompletion
    <3>2. worker[w] \in Deliveries
      BY <2>3, PhaseType DEF BeginCompletion, At
    <3>3. [worker[w] EXCEPT !.phase = phase].phase = phase
      BY <3>2 DEF Deliveries
    <3>4. worker'[w].phase = phase /\ \A x \in Workers \ {w} : worker'[x] = worker[x]
      BY <3>1, <3>3 DEF Phase, TypeOK
    <3> QED
      BY <2>1, <3>4
  <2>4. CASE ~BeginCompletion(w)
    <3>1. v = w
      BY <2>1, <2>2, <2>4, DeliveryCompletes
    <3> QED
      BY <2>1, <2>2, <2>4, <3>1, DeliveryWrites
  <2> QED
    BY <2>3, <2>4
<1> QED
  BY <1>1, <1>2

\* What is stored is cleared, or written by a delivery at its write.
LEMMA StoredStep ==
  ASSUME [Next]_vars
  PROVE  stored' \in {0, stored} \/ \E w \in Workers : worker[w].phase = "writing"
<1>1. ASSUME AppStep
      PROVE  stored' = stored
  BY <1>1 DEF AppStep, Upload, UploadRefused, DeleteAccount, Unlink, SaveLink, SaveReads, SaveCommits,
     SaveAborts, DeleteAsset, StartEmbedding
<1>2. ASSUME QueueStep \/ Sweep
      PROVE  stored' = stored
  BY <1>2 DEF QueueStep, Expire, Exhausted, Vanish, Sweep, SweepReads, SweepReadsJobs, SweepReadsRun,
     SweepFails
<1>3. ASSUME NEW q \in Requests, RequestStep(q)
      PROVE  stored' = stored
  BY <1>3 DEF RequestStep, AskAgain, AskFailed, AskReconcile, Asks, AdmitProcessing, AdmitIndexing, Refuse
<1>4. ASSUME NEW w \in Workers, Delivery(w)
      PROVE  stored' \in {0, stored} \/ worker[w].phase = "writing"
  <2>1. CASE EndWrite(w) \/ Crash(w) \/ Clear(w)
    BY <2>1 DEF EndWrite, Crash, Clear, At
  <2>2. CASE \/ Claim(w) \/ BeginWrite(w) \/ BeginCompletion(w) \/ Complete(w)
             \/ CompletionFails(w) \/ CheckAsset(w) \/ ReadExtraction(w) \/ FailTransient(w)
             \/ ClaimLink(w) \/ CompleteLink(w) \/ \E f \in Failures : FailFinally(w, f)
    BY <2>2 DEF Claim, BeginWrite, BeginCompletion, Complete, CompletionFails, CheckAsset,
                ReadExtraction, FailTransient, ClaimLink, CompleteLink, FailFinally
  <2>3. CASE (\E j \in jobs : Fetch(w, j)) \/ Report(w)
    BY <2>3 DEF Fetch, Report
  <2> QED
    BY <1>4, <2>1, <2>2, <2>3 DEF Delivery, Handle
<1>5. CASE UNCHANGED vars
  BY <1>5 DEF vars
<1> QED
  BY <1>1, <1>2, <1>3, <1>4, <1>5 DEF Next

\* Nothing is stored for an asset once it is deleted, by however many deliveries:
\* a write keeps the row it checked (writeWhileProcessing) and the deletion waits.
THEOREM DeletedStays == Spec => DeletedStaysEmpty
<1>1. Init => WritesForAsset
  BY DEF Init, WritesForAsset, Idle
<1>2. TypeOK /\ WritesForAsset /\ [Next]_vars => WritesForAsset'
  BY NextWrites
<1>3. ASSUME TypeOK, WritesForAsset, [Next]_vars
      PROVE  [asset.status = "deleted" => stored' \in {0, stored}]_vars
  BY <1>3, StoredStep DEF WritesForAsset
<1> QED
  BY <1>1, <1>2, <1>3, TypeCorrect, PTL DEF Spec, DeletedStaysEmpty

-----------------------------------------------------------------------------
(* Who changes the asset's row, the requests and the embedding generation. *)

\* What may change the file's row.
AssetMoves ==
  \/ asset' = asset
  \/ \E u \in AnyRun : Upload(u) \/ UploadRefused(u)
  \/ DeleteAsset
  \/ \E q \in Requests, u \in Runs : AdmitProcessing(q, u)
  \/ \E w \in Workers : Complete(w)
  \/ /\ Unfinished(asset.status)
     /\ \E s \in {"active", "failed"}, f \in Failures :
          asset' = [asset EXCEPT !.status = s, !.failure = f]

\* Whoever fails the attempt it holds leaves the file's row, or ends it failed.
LEMMA FailsMoves ==
  ASSUME NEW j, NEW u, NEW f \in Failures, Current(j), Fails(j, u, f)
  PROVE  AssetMoves
<1>1. CASE j.stage = "processing"
  BY <1>1 DEF Current, CurrentProcessing, Fails, AssetMoves
<1>2. CASE j.stage # "processing"
  BY <1>2 DEF Fails, AssetMoves
<1> QED
  BY <1>1, <1>2

\* A step leaves the file's row alone, or is one of those that change it.
LEMMA NextAssetMoves ==
  ASSUME [Next]_vars
  PROVE  AssetMoves
<1>1. CASE AppStep
  <2>1. ASSUME \/ \E u \in AnyRun, q \in Repos : SaveLink(q, u)
               \/ \E q \in Repos : Unlink(q)
               \/ SaveReads \/ SaveCommits \/ SaveAborts \/ StartEmbedding
               \/ \E u \in Runs : DeleteAccount(u)
        PROVE  asset' = asset
    BY <2>1 DEF SaveLink, Unlink, SaveReads, SaveCommits, SaveAborts, StartEmbedding, DeleteAccount, rows
  <2> QED
    BY <1>1, <2>1 DEF AppStep, AssetMoves
<1>2. ASSUME NEW q \in Requests, RequestStep(q)
      PROVE  AssetMoves
  <2>1. ASSUME \/ \E x \in AnyRepo : AskAgain(q, x)
               \/ AskFailed(q) \/ AskReconcile(q) \/ Refuse(q)
               \/ \E u \in AnyRun : AdmitIndexing(q, u)
        PROVE  asset' = asset
    BY <2>1 DEF AskAgain, AskFailed, AskReconcile, Asks, Refuse, AdmitIndexing, rows
  <2> QED
    BY <1>2, <2>1 DEF RequestStep, AssetMoves
<1>3. CASE QueueStep
  <2>1. ASSUME NEW j \in jobs, Exhausted(j)
        PROVE  AssetMoves
    BY <2>1, FailsMoves DEF Exhausted, rows, AssetMoves, Failures
  <2>2. ASSUME NEW j \in jobs, Expire(j) \/ Vanish(j)
        PROVE  asset' = asset
    BY <2>2 DEF Expire, Vanish, rows
  <2> QED
    BY <1>3, <2>1, <2>2 DEF QueueStep, AssetMoves
<1>4. CASE Sweep
  <2>1. CASE SweepFails
    BY <2>1, FailsMoves DEF SweepFails, StillStranded, rows, AssetMoves, Failures
  <2>2. CASE ~SweepFails
    BY <1>4, <2>2 DEF Sweep, SweepReads, SweepReadsJobs, SweepReadsRun, rows, AssetMoves
  <2> QED
    BY <2>1, <2>2
<1>5. ASSUME NEW w \in Workers, Delivery(w)
      PROVE  AssetMoves
  <2>1. ASSUME Claim(w)
        PROVE  AssetMoves
    BY <2>1 DEF Claim, CurrentProcessing, AssetMoves, Failures
  <2>2. ASSUME NEW f \in Failures, FailFinally(w, f)
        PROVE  AssetMoves
    BY <2>2, FailsMoves DEF FailFinally, rows, AssetMoves
  <2>3. ASSUME \/ Clear(w) \/ BeginWrite(w) \/ EndWrite(w) \/ BeginCompletion(w)
               \/ CompletionFails(w) \/ CheckAsset(w) \/ ReadExtraction(w) \/ FailTransient(w)
               \/ ClaimLink(w) \/ CompleteLink(w)
        PROVE  asset' = asset
    BY <2>3 DEF Clear, BeginWrite, EndWrite, BeginCompletion, CompletionFails, CheckAsset,
                ReadExtraction, FailTransient, ClaimLink, CompleteLink, rows
  <2>4. ASSUME (\E j \in jobs : Fetch(w, j)) \/ Report(w) \/ Crash(w)
        PROVE  asset' = asset
    BY <2>4 DEF Fetch, Report, Crash, rows
  <2> QED
    BY <1>5, <2>1, <2>2, <2>3, <2>4 DEF Delivery, Handle, AssetMoves
<1>6. CASE UNCHANGED vars
  BY <1>6 DEF vars, AssetMoves
<1> QED
  BY <1>1, <1>2, <1>3, <1>4, <1>5, <1>6 DEF Next

\* Only a completion completes the file.
LEMMA CompletedBy ==
  ASSUME TypeOK, [Next]_vars, asset'.status = "completed", asset.status # "completed"
  PROVE  \E w \in Workers : Complete(w)
<1>1. asset \in AssetType
  BY DEF TypeOK
<1>2. ASSUME NEW u, ProcessingAdmitted(u)
      PROVE  FALSE
  BY <1>2 DEF ProcessingAdmitted
<1>3. ASSUME NEW u, Upload(u) \/ UploadRefused(u)
      PROVE  FALSE
  BY <1>2, <1>3 DEF Upload, UploadRefused
<1>4. ASSUME DeleteAsset
      PROVE  FALSE
  BY <1>1, <1>4 DEF DeleteAsset, AssetType
<1>5. ASSUME NEW s \in {"active", "failed"}, NEW f, asset' = [asset EXCEPT !.status = s, !.failure = f]
      PROVE  FALSE
  BY <1>1, <1>5 DEF AssetType
<1> QED
  BY <1>2, <1>3, <1>4, <1>5, NextAssetMoves DEF AssetMoves, AdmitProcessing

\* Only the worker's start makes another embedding generation active.
LEMMA NextEmbedding ==
  ASSUME [Next]_vars
  PROVE  embedding' = embedding \/ StartEmbedding
<1>1. CASE AppStep
  BY <1>1 DEF AppStep, Upload, UploadRefused, DeleteAccount, Unlink, SaveLink, SaveReads, SaveCommits,
     SaveAborts, DeleteAsset
<1>2. CASE QueueStep \/ Sweep
  BY <1>2 DEF QueueStep, Expire, Exhausted, Vanish, Sweep, SweepReads, SweepReadsJobs, SweepReadsRun,
     SweepFails
<1>3. CASE \E q \in Requests : RequestStep(q)
  BY <1>3 DEF RequestStep, AskAgain, AskFailed, AskReconcile, Asks, AdmitProcessing, AdmitIndexing,
     Refuse
<1>4. ASSUME NEW w \in Workers, Delivery(w)
      PROVE  embedding' = embedding
  <2>1. CASE (\E j \in jobs : Fetch(w, j)) \/ Report(w) \/ Crash(w)
    BY <2>1 DEF Fetch, Report, Crash
  <2>2. CASE Handle(w)
    BY <2>2 DEF Handle, Claim, Clear, BeginWrite, EndWrite, BeginCompletion, Complete,
         CompletionFails, CheckAsset, ClaimLink, ReadExtraction, CompleteLink, FailTransient,
         FailFinally
  <2> QED
    BY <1>4, <2>1, <2>2 DEF Delivery
<1>5. CASE UNCHANGED vars
  BY <1>5 DEF vars
<1> QED
  BY <1>1, <1>2, <1>3, <1>4, <1>5 DEF Next

\* Only a save changes what is being saved.
LEMMA NextSaving ==
  ASSUME [Next]_vars
  PROVE  saving' = saving \/ SaveReads \/ SaveCommits \/ SaveAborts
         \/ \E r \in Repos, u \in AnyRun : SaveLink(r, u)
<1>1. CASE AppStep
  BY <1>1 DEF AppStep, Upload, UploadRefused, DeleteAccount, Unlink, DeleteAsset, StartEmbedding
<1>2. CASE QueueStep \/ Sweep
  BY <1>2 DEF QueueStep, Expire, Exhausted, Vanish, Sweep, SweepReads, SweepReadsJobs, SweepReadsRun,
     SweepFails
<1>3. CASE \E q \in Requests : RequestStep(q)
  BY <1>3 DEF RequestStep, AskAgain, AskFailed, AskReconcile, Asks, AdmitProcessing, AdmitIndexing,
     Refuse
<1>4. ASSUME NEW w \in Workers, Delivery(w)
      PROVE  saving' = saving
  <2>1. CASE (\E j \in jobs : Fetch(w, j)) \/ Report(w) \/ Crash(w)
    BY <2>1 DEF Fetch, Report, Crash
  <2>2. CASE Handle(w)
    BY <2>2 DEF Handle, Claim, Clear, BeginWrite, EndWrite, BeginCompletion, Complete,
         CompletionFails, CheckAsset, ClaimLink, ReadExtraction, CompleteLink, FailTransient,
         FailFinally
  <2> QED
    BY <1>4, <2>1, <2>2 DEF Delivery
<1>5. CASE UNCHANGED vars
  BY <1>5 DEF vars
<1> QED
  BY <1>1, <1>2, <1>3, <1>4, <1>5 DEF Next

-----------------------------------------------------------------------------
(* Which operation writes a link, and what it writes.                      *)

\* The links of L are admitted, each as its owner's work, if it has one: a run
\* whose member is bound to it.
Admission(L, owner) ==
  /\ link' = LinksAdmitted(L) /\ sequence' = Drawn(L) /\ jobs' = JobsAdmitted(L, owner)
  /\ member'["indexing"] = MembersAdmitted([v \in Runs |-> run'[v].bound], L, owner)
  /\ \A r \in L : owner[r] # NoRun => owner[r] \in Runs /\ run'[owner[r]].bound = r

\* r is admitted, on a new attempt, with the others of L.
AdmittedWith(r, L, owner) == r \in L /\ Admission(L, owner)

\* The attempt of r goes on, or ends.
GoesOn(r) ==
  /\ Unfinished(link[r].status)
  /\ \E s \in {"active", "completed", "failed"} : \E f :
       link'[r] = [link[r] EXCEPT !.status = s, !.failure = f]

\* The link a save adds where the file is not completed.
NewLink == [status |-> "pending", failure |-> "none", attempt |-> saving.attempt, embedding |-> 0]

\* What a step may do to the link of r.
LinkMoves(r) ==
  \/ link'[r] = link[r]
  \/ link'[r] = Gone
  \/ r \in Linked /\ \E u : ProcessingAdmitted(u)
  \/ /\ r \in Linked \/ SaveCommits
     /\ \E L \in SUBSET Repos : \E owner : AdmittedWith(r, L, owner)
  \/ SaveCommits /\ saving.saw # "completed" /\ r = saving.repo /\ link'[r] = NewLink
  \/ GoesOn(r)

\* The fields of a link that was admitted.
LEMMA AdmittedLink ==
  ASSUME NEW L, NEW r \in Repos, link' = LinksAdmitted(L), TypeOK
  PROVE  link'[r] = IF r \in L THEN [status |-> "pending", failure |-> "none",
                                     attempt |-> sequence + 1, embedding |-> embedding]
                    ELSE link[r]
BY DEF LinksAdmitted

\* A new generation of the file gives each link a new attempt, and no more.
LEMMA WaitingLink ==
  ASSUME NEW r \in Repos, NEW u, ProcessingAdmitted(u), TypeOK
  PROVE  /\ r \in Linked => link'[r] = [link[r] EXCEPT !.status = "pending", !.failure = "none",
                                                        !.attempt = sequence + 1]
         /\ r \notin Linked => link'[r] = link[r]
BY DEF ProcessingAdmitted, Waiting

\* A request admits the links it saw for its run, which it binds to the one link
\* there is then, or for none.
LEMMA RequestAdmits ==
  ASSUME TypeOK, NEW q \in Requests, NEW u \in AnyRun, AdmitIndexing(q, u)
  PROVE  Admission(SeenLinks(q), [r \in SeenLinks(q) |-> u])
<1> DEFINE L == SeenLinks(q)
<1>1. /\ link' = LinksAdmitted(L) /\ sequence' = Drawn(L)
      /\ jobs' = JobsAdmitted(L, [r \in L |-> u])
      /\ member' = [member EXCEPT !["indexing"] =
                      MembersAdmitted([v \in Runs |-> run'[v].bound], L, [r \in L |-> u])]
  BY DEF AdmitIndexing
<1>2. member \in [Stages -> [Runs -> Outcomes]] /\ run \in [Runs -> RunType]
  BY DEF TypeOK
<1>3. member'["indexing"] = MembersAdmitted([v \in Runs |-> run'[v].bound], L, [r \in L |-> u])
  BY <1>1, <1>2 DEF Stages
<1>4. ASSUME u # NoRun, NEW r \in L
      PROVE  u \in Runs /\ run'[u].bound = r
  <2>1. /\ u \in Runs /\ ~request[q].auto
        /\ run' = [run EXCEPT ![u] = [kind |-> "retry", bound |-> CHOOSE x \in L : TRUE]]
    BY <1>4 DEF AdmitIndexing, Started
  <2>2. \A x, y \in L : x = y
    BY <2>1 DEF AdmitIndexing, TwiceOneMember
  <2>3. (CHOOSE x \in L : TRUE) = r
    BY <1>4, <2>2
  <2> QED
    BY <1>2, <2>1, <2>3
<1> QED
  BY <1>1, <1>3, <1>4 DEF Admission

\* A save of a completed asset admits its link for its run.
LEMMA SaveAdmits ==
  ASSUME TypeOK, SaveCommits, saving.saw = "completed"
  PROVE  /\ saving.repo \in Repos
         /\ Admission({saving.repo}, [x \in {saving.repo} |-> saving.run])
<1> DEFINE r == saving.repo  u == saving.run  owner == [x \in {r} |-> u]
           bound == [v \in Runs |-> IF v = u THEN r ELSE run[v].bound]
<1>1. r \in Repos /\ u \in AnyRun
  BY DEF SaveCommits, NotSaving, TypeOK, Savings
<1>2. /\ link' = LinksAdmitted({r}) /\ sequence' = Drawn({r}) /\ jobs' = JobsAdmitted({r}, owner)
      /\ run' = [v \in Runs |-> [run[v] EXCEPT !.bound = bound[v]]]
      /\ member' = [member EXCEPT !["indexing"] = MembersAdmitted(bound, {r}, owner)]
  BY DEF SaveCommits
<1>3. member \in [Stages -> [Runs -> Outcomes]] /\ run \in [Runs -> RunType]
  BY DEF TypeOK
<1>4. \A v \in Runs : run'[v].bound = bound[v]
  BY <1>2, <1>3 DEF RunType
<1>5. [v \in Runs |-> run'[v].bound] = bound
  BY <1>4
<1>6. member'["indexing"] = MembersAdmitted([v \in Runs |-> run'[v].bound], {r}, owner)
  BY <1>2, <1>3, <1>5 DEF Stages
<1>7. u # NoRun => u \in Runs /\ run'[u].bound = r
  BY <1>1, <1>4 DEF AnyRun
<1> QED
  BY <1>1, <1>2, <1>6, <1>7 DEF Admission

\* A completion admits every link, for its run where the run is bound to it.
LEMMA CompletionAdmits ==
  ASSUME TypeOK, NEW w \in Workers, Complete(w)
  PROVE  \E owner : Admission(Linked, owner)
<1> DEFINE u == Job(w).run
           owner == [r \in Repos |-> IF u # NoRun /\ run[u].bound = r THEN u ELSE NoRun]
           members == MembersAdmitted([v \in Runs |-> run[v].bound], Linked, owner)
<1>1. /\ link' = LinksAdmitted(Linked) /\ sequence' = Drawn(Linked)
      /\ jobs' = JobsAdmitted(Linked, owner) /\ run' = run
      /\ member' = [Settled("processing", NoRepo, u, "completed") EXCEPT !["indexing"] = members]
  BY DEF Complete
<1>2. Settled("processing", NoRepo, u, "completed") \in [Stages -> [Runs -> Outcomes]]
  BY SettledType DEF Stages, Outcomes
<1>3. member'["indexing"] = MembersAdmitted([v \in Runs |-> run'[v].bound], Linked, owner)
  BY <1>1, <1>2 DEF Stages
<1>4. u \in AnyRun
  <2>1. worker[w] \in Deliveries
    BY DEF Complete, At, Idle, TypeOK
  <2> QED
    BY <2>1 DEF Deliveries, JobType, Job
<1>5. \A r \in Linked : owner[r] # NoRun => owner[r] \in Runs /\ run'[owner[r]].bound = r
  BY <1>1, <1>4 DEF Linked, AnyRun
<1> QED
  BY <1>1, <1>3, <1>5 DEF Admission

\* Failing an attempt that is current ends that link's attempt, and no other's.
LEMMA FailsLink ==
  ASSUME TypeOK, NEW j, NEW u, NEW f, Current(j), Fails(j, u, f), NEW r \in Repos
  PROVE  link'[r] = link[r] \/ GoesOn(r)
<1>1. CASE j.stage = "processing"
  BY <1>1 DEF Fails
<1>2. CASE j.stage # "processing"
  <2>1. /\ j.repo \in Repos /\ Unfinished(link[j.repo].status)
        /\ link' = [link EXCEPT ![j.repo].status = "failed", ![j.repo].failure = f]
    BY <1>2 DEF Current, CurrentIndexing, Fails
  <2>2. /\ link'[j.repo] = [link[j.repo] EXCEPT !.status = "failed", !.failure = f]
        /\ \A q \in Repos \ {j.repo} : link'[q] = link[q]
    BY <2>1 DEF TypeOK
  <2> QED
    BY <2>1, <2>2 DEF GoesOn
<1> QED
  BY <1>1, <1>2

\* A step does to a link no more than LinkMoves says.
LEMMA NextLinkMoves ==
  ASSUME TypeOK, [Next]_vars, NEW r \in Repos
  PROVE  LinkMoves(r)
<1> USE DEF LinkMoves
<1>1. Linked \in SUBSET Repos
  BY DEF Linked
<1>2. ASSUME NEW u, ProcessingAdmitted(u)
      PROVE  LinkMoves(r)
  BY <1>2, WaitingLink
<1>3. ASSUME NEW L \in SUBSET Repos, NEW owner, Admission(L, owner), L \subseteq Linked \/ SaveCommits
      PROVE  LinkMoves(r)
  <2>1. r \in L => AdmittedWith(r, L, owner)
    BY <1>3 DEF AdmittedWith
  <2>2. r \notin L => link'[r] = link[r]
    BY <1>3, AdmittedLink DEF Admission
  <2> QED
    BY <1>3, <2>1, <2>2
<1>4. ASSUME AppStep
      PROVE  LinkMoves(r)
  <2>1. ASSUME SaveCommits
        PROVE  LinkMoves(r)
    <3>1. saving \in Savings
      BY <2>1 DEF SaveCommits, NotSaving, TypeOK
    <3>2. saving.repo \in Repos
      BY <3>1 DEF Savings
    <3>3. CASE saving.saw = "completed"
      <4>1. PICK owner : Admission({saving.repo}, owner)
        BY <2>1, <3>3, SaveAdmits
      <4> QED
        BY <1>3, <2>1, <3>2, <4>1
    <3>4. CASE saving.saw # "completed"
      <4>1. link' = [link EXCEPT ![saving.repo] = NewLink]
        BY <2>1, <3>4 DEF SaveCommits, NewLink
      <4> QED
        BY <2>1, <3>2, <3>4, <4>1 DEF TypeOK
    <3> QED
      BY <3>3, <3>4
  <2>2. ASSUME NEW u \in AnyRun, Upload(u)
        PROVE  LinkMoves(r)
    BY <1>2, <2>2 DEF Upload
  <2>3. ASSUME NEW q \in Repos, Unlink(q)
        PROVE  LinkMoves(r)
    BY <2>3 DEF Unlink, TypeOK
  <2>4. ASSUME DeleteAsset
        PROVE  LinkMoves(r)
    BY <2>4 DEF DeleteAsset
  <2>5. ASSUME \/ \E u \in AnyRun : UploadRefused(u) \/ \E q \in Repos : SaveLink(q, u)
               \/ SaveReads \/ SaveAborts \/ StartEmbedding \/ \E u \in Runs : DeleteAccount(u)
        PROVE  link' = link
    BY <2>5 DEF UploadRefused, SaveLink, SaveReads, SaveAborts, StartEmbedding, DeleteAccount, rows
  <2> QED
    BY <1>4, <2>1, <2>2, <2>3, <2>4, <2>5 DEF AppStep
<1>5. ASSUME NEW q \in Requests, RequestStep(q)
      PROVE  LinkMoves(r)
  <2>1. ASSUME NEW u \in Runs, AdmitProcessing(q, u)
        PROVE  LinkMoves(r)
    BY <1>2, <2>1 DEF AdmitProcessing
  <2>2. ASSUME NEW u \in AnyRun, AdmitIndexing(q, u)
        PROVE  LinkMoves(r)
    <3>1. SeenLinks(q) \in SUBSET Repos /\ SeenLinks(q) \subseteq Linked
      BY DEF SeenLinks, Linked
    <3>2. PICK owner : Admission(SeenLinks(q), owner)
      BY <2>2, RequestAdmits
    <3> QED
      BY <1>3, <3>1, <3>2
  <2>3. ASSUME (\E x \in AnyRepo : AskAgain(q, x)) \/ AskFailed(q) \/ AskReconcile(q) \/ Refuse(q)
        PROVE  link' = link
    BY <2>3 DEF AskAgain, AskFailed, AskReconcile, Asks, Refuse, rows
  <2> QED
    BY <1>5, <2>1, <2>2, <2>3 DEF RequestStep
<1>6. ASSUME QueueStep
      PROVE  LinkMoves(r)
  BY <1>6, FailsLink DEF QueueStep, Expire, Exhausted, Vanish, rows
<1>7. ASSUME Sweep
      PROVE  LinkMoves(r)
  <2>1. CASE SweepFails
    BY <2>1, FailsLink DEF SweepFails, StillStranded, rows
  <2>2. CASE ~SweepFails
    BY <1>7, <2>2 DEF Sweep, SweepReads, SweepReadsJobs, SweepReadsRun, rows
  <2> QED
    BY <2>1, <2>2
<1>8. ASSUME NEW w \in Workers, Delivery(w)
      PROVE  LinkMoves(r)
  <2>1. ASSUME Complete(w)
        PROVE  LinkMoves(r)
    <3>1. PICK owner : Admission(Linked, owner)
      BY <2>1, CompletionAdmits
    <3> QED
      BY <1>1, <1>3, <3>1
  <2>2. ASSUME ClaimLink(w) \/ CompleteLink(w), link' # link
        PROVE  LinkMoves(r)
    <3>1. CurrentIndexing(Job(w))
      BY <2>2 DEF ClaimLink, CompleteLink
    <3>2. PICK s \in {"active", "completed"} :
            link' = [link EXCEPT ![Job(w).repo].status = s, ![Job(w).repo].failure = "none"]
      BY <2>2 DEF ClaimLink, CompleteLink
    <3>3. /\ Unfinished(link[Job(w).repo].status)
          /\ link'[Job(w).repo] = [link[Job(w).repo] EXCEPT !.status = s, !.failure = "none"]
          /\ \A q \in Repos \ {Job(w).repo} : link'[q] = link[q]
      BY <3>1, <3>2 DEF CurrentIndexing, TypeOK
    <3> QED
      BY <3>3 DEF GoesOn
  <2>3. ASSUME NEW f \in Failures, FailFinally(w, f)
        PROVE  LinkMoves(r)
    BY <2>3, FailsLink DEF FailFinally, rows
  <2>4. ASSUME \/ Claim(w) \/ Clear(w) \/ BeginWrite(w) \/ EndWrite(w) \/ BeginCompletion(w)
               \/ CompletionFails(w) \/ CheckAsset(w) \/ ReadExtraction(w) \/ FailTransient(w)
        PROVE  link' = link
    BY <2>4 DEF Claim, Clear, BeginWrite, EndWrite, BeginCompletion, CompletionFails, CheckAsset,
                ReadExtraction, FailTransient, rows
  <2>5. ASSUME (\E j \in jobs : Fetch(w, j)) \/ Report(w) \/ Crash(w)
        PROVE  link' = link
    BY <2>5 DEF Fetch, Report, Crash, rows
  <2> QED
    BY <1>8, <2>1, <2>2, <2>3, <2>4, <2>5 DEF Delivery, Handle
<1>9. CASE UNCHANGED vars
  BY <1>9 DEF vars
<1> QED
  BY <1>4, <1>5, <1>6, <1>7, <1>8, <1>9 DEF Next

-----------------------------------------------------------------------------
(* Links added while the file completes.                                   *)

\* What a save read under FOR SHARE stays so until it commits: nobody completes
\* the file meanwhile.
SavingSaw ==
  saving.phase = "read" => /\ AssetRowFree
                           /\ (asset.status = "completed" => saving.saw = "completed")

\* The invariant: no link is added unseen by both the save and the completion.
NewLinksInv == TypeOK /\ embedding >= FirstEmbedding /\ SavingSaw /\ NewLinksAreAdmitted

\* A transaction begins to complete the file only while no save has read of it.
LEMMA NextCompleting ==
  ASSUME TypeOK, [Next]_vars, NEW v \in Workers, worker'[v].phase = "completing",
         worker[v].phase # "completing"
  PROVE  AssetUnshared /\ saving' = saving
<1>1. ASSUME NEW w \in Workers, Delivery(w)
      PROVE  AssetUnshared /\ saving' = saving
  <2>1. BeginCompletion(w)
    BY <1>1, DeliveryCompletes
  <2> QED
    BY <2>1 DEF BeginCompletion, RowWritable
<1>2. worker' # worker
  OBVIOUS
<1>3. CASE AppStep
  BY <1>2, <1>3 DEF AppStep, Upload, UploadRefused, DeleteAccount, Unlink, SaveLink, SaveReads, SaveCommits,
     SaveAborts, DeleteAsset, StartEmbedding
<1>4. CASE QueueStep \/ Sweep
  BY <1>2, <1>4 DEF QueueStep, Expire, Exhausted, Vanish, Sweep, SweepReads, SweepReadsJobs, SweepReadsRun,
     SweepFails
<1>5. CASE \E q \in Requests : RequestStep(q)
  BY <1>2, <1>5 DEF RequestStep, AskAgain, AskFailed, AskReconcile, Asks, AdmitProcessing, AdmitIndexing,
     Refuse
<1>6. CASE UNCHANGED vars
  BY <1>2, <1>6 DEF vars
<1> QED
  BY <1>1, <1>3, <1>4, <1>5, <1>6 DEF Next

\* What a save read stands: whoever could complete the file waits for the save.
LEMMA NextSaw ==
  ASSUME TypeOK, SavingSaw, [Next]_vars
  PROVE  SavingSaw'
<1> SUFFICES ASSUME saving'.phase = "read"
             PROVE  /\ AssetRowFree'
                    /\ (asset'.status = "completed" => saving'.saw = "completed")
  BY DEF SavingSaw
<1>1. CASE SaveReads
  <2>1. saving \in Savings
    BY <1>1 DEF SaveReads, TypeOK, NotSaving
  <2>2. saving'.saw = asset.status
    BY <1>1, <2>1 DEF SaveReads, Savings
  <2> QED
    BY <1>1, <2>2 DEF SaveReads, SaveMayRead, AssetRowFree, rows
<1>2. CASE ~SaveReads
  <2>1. saving' = saving
    BY <1>2, NextSaving DEF SaveCommits, SaveAborts, SaveLink, NotSaving
  <2>2. saving.phase = "read"
    BY <2>1
  <2>3. AssetRowFree'
    BY <2>2, NextCompleting DEF SavingSaw, AssetRowFree, AssetUnshared
  <2>4. asset'.status = "completed" => asset.status = "completed"
    BY <2>2, CompletedBy DEF SavingSaw, AssetRowFree, Complete, At
  <2> QED
    BY <2>1, <2>2, <2>3, <2>4 DEF SavingSaw
<1> QED
  BY <1>1, <1>2

\* The invariant of new links, over a step.
LEMMA NextNewLinks ==
  ASSUME NewLinksInv, TypeOK', [Next]_vars
  PROVE  NewLinksInv'
<1>1. TypeOK /\ embedding >= FirstEmbedding /\ SavingSaw /\ FirstEmbedding \in Nat /\ embedding \in Nat
  BY PreparationAssumption DEF NewLinksInv, TypeOK
<1>2. embedding' >= FirstEmbedding
  BY <1>1, NextEmbedding DEF StartEmbedding
<1>3. NewLinksAreAdmitted'
  <2> SUFFICES ASSUME FirstEmbedding # 0, asset'.status = "completed", NEW r \in Repos,
                      link'[r].status # "none"
               PROVE  link'[r].embedding # 0
    BY DEF NewLinksAreAdmitted, Linked
  <2>1. embedding # 0
    BY <1>1
  <2>2. ASSUME NEW L \in SUBSET Repos, link' = LinksAdmitted(L), r \in L
        PROVE  link'[r].embedding # 0
    BY <1>1, <2>1, <2>2, AdmittedLink
  <2>3. CASE \E w \in Workers : Complete(w)
    <3>1. link' = LinksAdmitted(Linked) /\ Linked \in SUBSET Repos
      BY <2>3 DEF Complete, Linked
    <3>2. r \in Linked
      BY <1>1, <3>1, AdmittedLink DEF Linked
    <3> QED
      BY <2>2, <3>1, <3>2
  <2>4. CASE ~\E w \in Workers : Complete(w)
    <3>1. asset.status = "completed"
      BY <1>1, <2>4, CompletedBy
    <3>2. r \in Linked => link[r].embedding # 0
      BY <3>1 DEF NewLinksInv, NewLinksAreAdmitted
    <3>3. ~(\E u : ProcessingAdmitted(u))
      BY DEF ProcessingAdmitted
    <3>4. ~(SaveCommits /\ saving.saw # "completed")
      BY <1>1, <3>1 DEF SaveCommits, SavingSaw
    <3>5. GoesOn(r) => r \in Linked /\ link'[r].embedding = link[r].embedding
      BY <1>1 DEF GoesOn, Unfinished, Linked, TypeOK, LinkType
    <3>6. link'[r] = link[r] => r \in Linked
      BY DEF Linked
    <3>7. link'[r] # Gone
      BY DEF Gone
    <3> QED
      BY <1>1, <2>2, <3>2, <3>3, <3>4, <3>5, <3>6, <3>7, NextLinkMoves DEF LinkMoves, AdmittedWith, Admission
  <2> QED
    BY <2>3, <2>4
<1> QED
  BY <1>1, <1>2, <1>3, NextSaw DEF NewLinksInv

\* A link added while processing completes is admitted by the save or by the
\* completion, whichever commits last; it is never left to the reconciler.
THEOREM NewLinksAdmitted == Spec => []NewLinksAreAdmitted
<1>1. Init => NewLinksInv
  BY InitType, PreparationAssumption
     DEF Init, NewLinksInv, SavingSaw, NewLinksAreAdmitted, NotSaving, Linked, Gone
<1>2. NewLinksInv /\ TypeOK' /\ [Next]_vars => NewLinksInv'
  BY NextNewLinks
<1>3. NewLinksInv => NewLinksAreAdmitted
  BY DEF NewLinksInv
<1> QED
  BY <1>1, <1>2, <1>3, TypeCorrect, PTL DEF Spec

-----------------------------------------------------------------------------
(* Processing implements StageWork.                                        *)

\* The state of StageWork.
WorkState == CASE asset.status = "none" -> "none"
               [] asset.status = "deleted" -> "removed"
               [] Unfinished(asset.status) -> "waiting"
               [] OTHER -> "ended"

\* The generation a request to process again has seen.
SeenBy(q) == IF request[q].stage = "processing" THEN request[q].generation ELSE Nothing
Seen == [q \in Requests |-> SeenBy(q)]

\* A step of StageWork, or none.
WorkStep == Work!WorkNext \/ UNCHANGED Work!work

\* The variables of StageWork, before and after a step.
LEMMA WorkNow ==
  /\ Work!work = <<asset.generation, WorkState, Seen>>
  /\ Work!work' = <<asset'.generation, WorkState', Seen'>>
BY DEF Work!work, WorkState, Seen, SeenBy

\* What the status of the file's processing says of StageWork's state.
LEMMA StateNow ==
  ASSUME TypeOK
  PROVE  /\ asset.status = "none" <=> WorkState = "none"
         /\ asset.status = "deleted" <=> WorkState = "removed"
         /\ Unfinished(asset.status) <=> WorkState = "waiting"
         /\ asset.status \in {"completed", "failed"} <=> WorkState = "ended"
<1>1. asset.status \in {"none", "pending", "active", "completed", "failed", "deleted"}
  BY DEF TypeOK, AssetType, Statuses
<1> QED
  BY <1>1 DEF WorkState, Unfinished

\* The steps of StageWork, of what they stand for here.
LEMMA WorkSteps ==
  ASSUME NEW q \in Requests
  PROVE  /\ (/\ WorkState = "ended" /\ Seen' = [Seen EXCEPT ![q] = asset.generation]
             /\ asset' = asset) => WorkStep
         /\ (/\ WorkState = "ended" /\ Seen[q] = asset.generation
             /\ asset'.generation = asset.generation + 1 /\ WorkState' = "waiting"
             /\ Seen' = [Seen EXCEPT ![q] = Nothing]) => WorkStep
         /\ (Seen' = [Seen EXCEPT ![q] = Nothing] /\ asset' = asset) => WorkStep
<1>1. CASE /\ WorkState = "ended" /\ Seen' = [Seen EXCEPT ![q] = asset.generation] /\ asset' = asset
  <2>1. WorkState' = WorkState
    BY <1>1 DEF WorkState
  <2>2. Work!Look(q)
    BY <1>1, <2>1 DEF Work!Look, WorkState, Seen, SeenBy
  <2> QED
    BY <2>2 DEF WorkStep, Work!WorkNext
<1>2. CASE /\ WorkState = "ended" /\ Seen[q] = asset.generation
           /\ asset'.generation = asset.generation + 1 /\ WorkState' = "waiting"
           /\ Seen' = [Seen EXCEPT ![q] = Nothing]
  <2>1. Work!StartAgain(q)
    BY <1>2 DEF Work!StartAgain, WorkState, Seen, SeenBy
  <2> QED
    BY <2>1 DEF WorkStep, Work!WorkNext
<1>3. CASE Seen' = [Seen EXCEPT ![q] = Nothing] /\ asset' = asset
  <2>1. WorkState' = WorkState
    BY <1>3 DEF WorkState
  <2>2. CASE Seen[q] # Nothing
    <3>1. Work!TurnDown(q)
      BY <1>3, <2>1, <2>2 DEF Work!TurnDown, WorkState, Seen, SeenBy
    <3> QED
      BY <3>1 DEF WorkStep, Work!WorkNext
  <2>3. CASE Seen[q] = Nothing
    <3>1. Seen' = Seen
      BY <1>3, <2>3 DEF Seen
    <3> QED
      BY <1>3, <2>1, <3>1, WorkNow DEF WorkStep
  <2> QED
    BY <2>2, <2>3
<1> QED
  BY <1>1, <1>2, <1>3

\* Where the generation and what requests saw stand, a step that ends the attempt,
\* removes the asset or does neither is a step of StageWork, or a stutter.
LEMMA EndsOrGoes ==
  ASSUME Seen' = Seen, asset'.generation = asset.generation,
         \/ WorkState' = WorkState
         \/ WorkState = "waiting" /\ WorkState' = "ended"
         \/ WorkState \in {"waiting", "ended"} /\ WorkState' = "removed"
  PROVE  WorkStep
<1>1. CASE WorkState' = WorkState
  BY <1>1, WorkNow DEF WorkStep
<1>2. CASE WorkState = "waiting" /\ WorkState' = "ended"
  <2>1. Work!End
    BY <1>2 DEF Work!End, WorkState, Seen, SeenBy
  <2> QED
    BY <2>1 DEF WorkStep, Work!WorkNext
<1>3. CASE WorkState \in {"waiting", "ended"} /\ WorkState' = "removed"
  <2>1. Work!Remove
    BY <1>3 DEF Work!Remove, WorkState, Seen, SeenBy
  <2> QED
    BY <2>1 DEF WorkStep, Work!WorkNext
<1> QED
  BY <1>1, <1>2, <1>3

\* An asset that is not there yet has no generation.
NoneBefore == asset.status = "none" => asset.generation = 0

\* Who has a request in hand changes what it has seen, and nobody else.
LEMMA NextRequests ==
  ASSUME [Next]_vars
  PROVE  request' = request \/ \E q \in Requests : RequestStep(q)
<1>1. CASE AppStep
  BY <1>1 DEF AppStep, Upload, UploadRefused, DeleteAccount, Unlink, SaveLink, SaveReads, SaveCommits,
     SaveAborts, DeleteAsset, StartEmbedding
<1>2. CASE QueueStep \/ Sweep
  BY <1>2 DEF QueueStep, Expire, Exhausted, Vanish, Sweep, SweepReads, SweepReadsJobs, SweepReadsRun,
     SweepFails
<1>3. ASSUME NEW w \in Workers, Delivery(w)
      PROVE  request' = request
  <2>1. CASE (\E j \in jobs : Fetch(w, j)) \/ Report(w) \/ Crash(w)
    BY <2>1 DEF Fetch, Report, Crash
  <2>2. CASE Handle(w)
    BY <2>2 DEF Handle, Claim, Clear, BeginWrite, EndWrite, BeginCompletion, Complete,
         CompletionFails, CheckAsset, ClaimLink, ReadExtraction, CompleteLink, FailTransient,
         FailFinally
  <2> QED
    BY <1>3, <2>1, <2>2 DEF Delivery
<1>4. CASE UNCHANGED vars
  BY <1>4 DEF vars
<1> QED
  BY <1>1, <1>2, <1>3, <1>4 DEF Next

\* A request that is answered has seen nothing any more.
LEMMA AnsweredSeen ==
  ASSUME TypeOK, NEW q \in Requests, Answered(q)
  PROVE  Seen' = [Seen EXCEPT ![q] = Nothing]
<1>1. request' = [request EXCEPT ![q] = NoRequest] /\ request \in [Requests -> {NoRequest} \cup Asked]
  BY DEF Answered, TypeOK
<1>2. request'[q] = NoRequest /\ \A p \in Requests \ {q} : request'[p] = request[p]
  BY <1>1
<1>3. SeenBy(q)' = Nothing /\ \A p \in Requests \ {q} : SeenBy(p)' = SeenBy(p)
  BY <1>2 DEF SeenBy, NoRequest
<1> QED
  BY <1>3 DEF Seen

\* Each step of a request is one of StageWork, or a stutter.
LEMMA RequestWorks ==
  ASSUME TypeOK, TypeOK', NEW q \in Requests, RequestStep(q)
  PROVE  WorkStep
<1>1. ASSUME NEW stage, NEW r, NEW L, NEW auto, Asks(q, stage, r, L, auto),
             stage = "processing" => asset.status \in {"completed", "failed"}
      PROVE  WorkStep
  <2> DEFINE links == {[repo |-> x, attempt |-> link[x].attempt] : x \in L}
             to == [stage |-> stage, repo |-> r, generation |-> asset.generation, auto |-> auto,
                    links |-> links]
  <2>1. request' = [request EXCEPT ![q] = to] /\ request \in [Requests -> {NoRequest} \cup Asked]
        /\ request[q] = NoRequest /\ asset' = asset
    BY <1>1 DEF Asks, TypeOK, rows
  <2>2. to.stage = stage /\ to.generation = asset.generation
    OBVIOUS
  <2> HIDE DEF to
  <2>3. request'[q] = to /\ \A p \in Requests \ {q} : request'[p] = request[p]
    BY <2>1
  <2>4. /\ SeenBy(q)' = IF stage = "processing" THEN asset.generation ELSE Nothing
        /\ SeenBy(q) = Nothing /\ \A p \in Requests \ {q} : SeenBy(p)' = SeenBy(p)
    BY <2>1, <2>2, <2>3 DEF SeenBy, NoRequest
  <2>5. CASE stage = "processing"
    <3>1. Seen' = [Seen EXCEPT ![q] = asset.generation]
      BY <2>4, <2>5 DEF Seen
    <3>2. WorkState = "ended"
      BY <1>1, <2>5, StateNow
    <3> QED
      BY <2>1, <3>1, <3>2, WorkSteps
  <2>6. CASE stage # "processing"
    <3>1. Seen' = [Seen EXCEPT ![q] = Nothing]
      BY <2>4, <2>6 DEF Seen
    <3> QED
      BY <2>1, <3>1, WorkSteps
  <2> QED
    BY <2>5, <2>6
<1>2. ASSUME NEW r \in AnyRepo, AskAgain(q, r)
      PROVE  WorkStep
  <2>1. AgainStage(r) = "processing" => asset.status \in {"completed", "failed"}
    BY DEF AgainStage
  <2>2. Asks(q, AgainStage(r), r, {r} \ {NoRepo}, FALSE)
    BY <1>2 DEF AskAgain
  <2> QED
    BY <1>1, <2>1, <2>2
<1>3. CASE AskFailed(q) \/ AskReconcile(q)
  <2>1. PICK L, auto : Asks(q, "indexing", NoRepo, L, auto)
    BY <1>3 DEF AskFailed, AskReconcile
  <2> QED
    BY <1>1, <2>1
<1>4. ASSUME NEW u \in Runs, AdmitProcessing(q, u)
      PROVE  WorkStep
  <2>1. /\ Seen' = [Seen EXCEPT ![q] = Nothing] /\ Seen[q] = asset.generation
        /\ asset.status \in {"completed", "failed"}
    BY <1>4, AnsweredSeen DEF AdmitProcessing, SeenGeneration, Seen, SeenBy
  <2>2. asset'.generation = asset.generation + 1 /\ asset'.status = "pending"
    BY <1>4 DEF AdmitProcessing, ProcessingAdmitted
  <2>3. WorkState = "ended"
    BY <2>1, StateNow
  <2>4. WorkState' = "waiting"
    BY <2>2 DEF WorkState, Unfinished
  <2> QED
    BY <2>1, <2>2, <2>3, <2>4, WorkSteps
<1>5. ASSUME Refuse(q) \/ \E u \in AnyRun : AdmitIndexing(q, u)
      PROVE  WorkStep
  <2>1. Answered(q) /\ asset' = asset
    BY <1>5 DEF Refuse, AdmitIndexing, rows
  <2> QED
    BY <2>1, AnsweredSeen, WorkSteps
<1> QED
  BY <1>2, <1>3, <1>4, <1>5 DEF RequestStep

\* Every step of preparation is one of StageWork, or a stutter.
LEMMA NextWork ==
  ASSUME TypeOK, TypeOK', NoneBefore, Completes, [Next]_vars
  PROVE  WorkStep /\ NoneBefore'
<1>1. asset \in AssetType /\ asset.generation \in Nat
  BY DEF TypeOK, AssetType
<1>2. NoneBefore'
  <2>1. ASSUME NEW s \in {"active", "failed"}, NEW f, asset' = [asset EXCEPT !.status = s, !.failure = f]
        PROVE  asset'.status # "none"
    BY <1>1, <2>1 DEF AssetType
  <2>2. ASSUME \/ DeleteAsset \/ \E w \in Workers : Complete(w)
        PROVE  asset'.status # "none"
    BY <1>1, <2>2 DEF DeleteAsset, Complete, AssetType
  <2>3. ASSUME (\E u \in AnyRun : Upload(u) \/ UploadRefused(u))
               \/ \E q \in Requests, u \in Runs : AdmitProcessing(q, u)
        PROVE  asset'.status # "none"
    BY <2>3 DEF Upload, UploadRefused, AdmitProcessing, ProcessingAdmitted
  <2> QED
    BY <2>1, <2>2, <2>3, NextAssetMoves DEF AssetMoves, NoneBefore
<1>3. ASSUME NEW q \in Requests, RequestStep(q)
      PROVE  WorkStep
  BY <1>3, RequestWorks
<1>4. ASSUME request' = request
      PROVE  WorkStep
  <2>1. Seen' = Seen
    BY <1>4 DEF Seen, SeenBy
  <2>2. CASE asset' = asset
    <3>1. WorkState' = WorkState
      BY <2>2 DEF WorkState
    <3> QED
      BY <2>1, <2>2, <3>1, EndsOrGoes
  <2>3. ASSUME NEW u, Upload(u) \/ UploadRefused(u)
        PROVE  WorkStep
    <3>1. asset.status = "none" /\ asset'.generation = asset.generation + 1
          /\ asset'.status \in {"pending", "failed"}
      BY <1>1, <2>3 DEF Upload, UploadRefused, ProcessingAdmitted, NoneBefore
    <3>2. WorkState = "none" /\ WorkState' \in {"waiting", "ended"}
      BY <3>1 DEF WorkState, Unfinished
    <3>3. PICK s \in {"waiting", "ended"} : WorkState' = s
      BY <3>2
    <3>4. Work!Start(s)
      BY <2>1, <3>1, <3>2, <3>3 DEF Work!Start, WorkState, Seen, SeenBy
    <3> QED
      BY <3>4 DEF WorkStep, Work!WorkNext
  <2>4. CASE DeleteAsset
    <3>1. asset.status \notin {"none", "deleted"} /\ asset'.status = "deleted"
          /\ asset'.generation = asset.generation
      BY <1>1, <2>4 DEF DeleteAsset, AssetType
    <3>2. WorkState \in {"waiting", "ended"} /\ WorkState' = "removed"
      BY <3>1 DEF WorkState, Unfinished
    <3> QED
      BY <2>1, <3>1, <3>2, EndsOrGoes
  <2>5. ASSUME NEW w \in Workers, Complete(w)
        PROVE  WorkStep
    <3>1. Unfinished(asset.status)
      BY <2>5 DEF Complete, Completes, CurrentProcessing, At
    <3>2. asset'.status = "completed" /\ asset'.generation = asset.generation
      BY <1>1, <2>5 DEF Complete, AssetType
    <3>3. WorkState = "waiting" /\ WorkState' = "ended"
      BY <3>1, <3>2 DEF WorkState, Unfinished
    <3> QED
      BY <2>1, <3>2, <3>3, EndsOrGoes
  <2>6. ASSUME Unfinished(asset.status), NEW s \in {"active", "failed"}, NEW f,
               asset' = [asset EXCEPT !.status = s, !.failure = f]
        PROVE  WorkStep
    <3>1. asset'.status = s /\ asset'.generation = asset.generation
      BY <1>1, <2>6 DEF AssetType
    <3>2. WorkState = "waiting" /\ WorkState' \in {"waiting", "ended"}
      BY <2>6, <3>1 DEF WorkState, Unfinished
    <3> QED
      BY <2>1, <3>1, <3>2, EndsOrGoes
  <2>7. ASSUME NEW q \in Requests, NEW u, AdmitProcessing(q, u)
        PROVE  FALSE
    <3>1. request[q].stage = "processing" /\ request' = [request EXCEPT ![q] = NoRequest]
          /\ request \in [Requests -> {NoRequest} \cup Asked]
      BY <2>7 DEF AdmitProcessing, Answered, TypeOK
    <3>2. request'[q] = NoRequest
      BY <3>1
    <3> QED
      BY <1>4, <3>1, <3>2 DEF NoRequest
  <2> QED
    BY <2>2, <2>3, <2>4, <2>5, <2>6, <2>7, NextAssetMoves DEF AssetMoves
<1> QED
  BY <1>2, <1>3, <1>4, NextRequests

\* Uploads, requests, deliveries, sweeps and deletions, however they overlap,
\* start, end and remove one attempt at a time, and a request starts the next
\* only if the attempt it saw the end of is still the last one.
THEOREM ProcessingImplementsWork == Spec => ProcessingIsStageWork
<1>1. Init => Work!WorkInit /\ NoneBefore /\ Completes
  <2> SUFFICES ASSUME Init
               PROVE  Work!WorkInit /\ NoneBefore /\ Completes
    OBVIOUS
  <2>1. asset.status = "none" /\ asset.generation = 0
    BY DEF Init
  <2>2. WorkState = "none"
    BY <2>1 DEF WorkState, Unfinished
  <2>3. \A q \in Requests : SeenBy(q) = Nothing
    BY DEF Init, SeenBy, NoRequest
  <2>4. Work!WorkInit
    BY <2>1, <2>2, <2>3 DEF Work!WorkInit, WorkState, SeenBy
  <2>5. NoneBefore /\ Completes
    BY <2>1 DEF Init, NoneBefore, Completes, Idle
  <2> QED
    BY <2>4, <2>5
<1>2. TypeOK /\ Completes /\ [Next]_vars => Completes'
  BY NextCompletes
<1>3. TypeOK /\ TypeOK' /\ NoneBefore /\ Completes /\ [Next]_vars => NoneBefore' /\ [Work!WorkNext]_(Work!work)
  BY NextWork DEF WorkStep
<1> QED
  BY <1>1, <1>2, <1>3, TypeCorrect, PTL DEF Spec, ProcessingIsStageWork, Work!WorkSpec

-----------------------------------------------------------------------------
(* Where jobs and deliveries come from, and where jobs go.                 *)

\* Two jobs for one attempt, as one run's work.
SameWork(i, j) ==
  i.stage = j.stage /\ i.repo = j.repo /\ i.attempt = j.attempt /\ i.run = j.run

\* A retry or a delivery makes of a job one for the same attempt and run.
LEMMA RetriedSame ==
  ASSUME NEW j \in JobType
  PROVE  /\ SameWork(j, Retried(j)) /\ SameWork(Retried(j), j)
         /\ SameWork(j, [j EXCEPT !.state = "active"]) /\ SameWork([j EXCEPT !.state = "active"], j)
<1>1. \A s \in {"created", "active", "dead"} : SameWork(j, [j EXCEPT !.state = s])
                                               /\ SameWork([j EXCEPT !.state = s], j)
  BY DEF JobType, SameWork
<1>2. /\ SameWork(j, [j EXCEPT !.state = "created", !.tries = @ + 1])
      /\ SameWork([j EXCEPT !.state = "created", !.tries = @ + 1], j)
  BY DEF JobType, SameWork
<1> QED
  BY <1>1, <1>2 DEF Retried

\* The jobs a step adds: a new generation's, and those of links it admits.
NewProcessing(j) ==
  \E u \in AnyRun : /\ ProcessingAdmitted(u)
                    /\ j = Sent("processing", NoRepo, asset.generation + 1, u)
NewIndexing(j) ==
  \E L \in SUBSET Repos : \E owner :
    \E r \in L : /\ AdmittedWith(r, L, owner) /\ embedding # 0
                 /\ j = Sent("indexing", r, sequence + 1, owner[r])

\* Every job after a step was there before it, or is one that the step adds.
JobsFrom == \A j \in jobs' : \/ \E i \in jobs : SameWork(i, j)
                             \/ NewProcessing(j) \/ NewIndexing(j)

\* A step that adds no job.
LEMMA OldJobs ==
  ASSUME jobs' \subseteq jobs
  PROVE  JobsFrom
BY DEF JobsFrom, SameWork

\* The jobs of links that are admitted.
LEMMA AdmittedFrom ==
  ASSUME NEW L \in SUBSET Repos, NEW owner, Admission(L, owner)
  PROVE  JobsFrom
<1> SUFFICES ASSUME NEW j \in jobs', j \notin jobs
             PROVE  NewIndexing(j)
  BY DEF JobsFrom, SameWork
<1>1. embedding # 0 /\ \E r \in L : j = Sent("indexing", r, sequence + 1, owner[r])
  BY DEF Admission, JobsAdmitted
<1> QED
  BY <1>1 DEF NewIndexing, AdmittedWith

\* Every job after a step was there, or is for what the step admits.
LEMMA NextJobsFrom ==
  ASSUME TypeOK, [Next]_vars
  PROVE  JobsFrom
<1>1. ASSUME NEW u \in AnyRun, ProcessingAdmitted(u)
      PROVE  JobsFrom
  BY <1>1 DEF ProcessingAdmitted, JobsFrom, NewProcessing, SameWork
<1>2. ASSUME NEW j \in jobs, jobs' \subseteq jobs \cup {Retried(j), [j EXCEPT !.state = "active"]}
      PROVE  JobsFrom
  <2>1. j \in JobType
    BY DEF TypeOK
  <2>2. SameWork(j, Retried(j)) /\ SameWork(j, [j EXCEPT !.state = "active"])
    BY <2>1, RetriedSame
  <2>3. \A k \in jobs : SameWork(k, k)
    BY DEF SameWork
  <2> QED
    BY <1>2, <2>2, <2>3 DEF JobsFrom
<1>3. CASE AppStep
  <2>1. ASSUME SaveCommits
        PROVE  JobsFrom
    <3>1. saving.repo \in Repos
      BY <2>1 DEF SaveCommits, NotSaving, TypeOK, Savings
    <3>2. CASE saving.saw = "completed"
      <4>1. PICK owner : Admission({saving.repo}, owner)
        BY <2>1, <3>2, SaveAdmits
      <4> QED
        BY <3>1, <4>1, AdmittedFrom
    <3>3. CASE saving.saw # "completed"
      BY <2>1, <3>3, OldJobs DEF SaveCommits
    <3> QED
      BY <3>2, <3>3
  <2>2. ASSUME \/ \E u \in AnyRun : UploadRefused(u) \/ \E q \in Repos : SaveLink(q, u)
               \/ (\E q \in Repos : Unlink(q)) \/ DeleteAsset
               \/ SaveReads \/ SaveAborts \/ StartEmbedding \/ \E u \in Runs : DeleteAccount(u)
        PROVE  jobs' = jobs
    BY <2>2 DEF UploadRefused, SaveLink, Unlink, DeleteAsset, SaveReads, SaveAborts, StartEmbedding,
       DeleteAccount
  <2>3. ASSUME NEW u \in AnyRun, Upload(u)
        PROVE  JobsFrom
    BY <1>1, <2>3 DEF Upload
  <2>4. jobs' = jobs => JobsFrom
    BY OldJobs
  <2> QED
    BY <1>3, <2>1, <2>2, <2>3, <2>4 DEF AppStep
<1>4. CASE QueueStep
  <2>1. ASSUME NEW j \in jobs, Expire(j)
        PROVE  JobsFrom
    BY <1>2, <2>1 DEF Expire
  <2> QED
    BY <1>4, <2>1, OldJobs DEF QueueStep, Exhausted, Vanish
<1>5. CASE Sweep
  BY <1>5, OldJobs DEF Sweep, SweepReads, SweepReadsJobs, SweepReadsRun, SweepFails
<1>6. ASSUME NEW q \in Requests, RequestStep(q)
      PROVE  JobsFrom
  <2>1. ASSUME NEW u \in Runs, AdmitProcessing(q, u)
        PROVE  JobsFrom
    BY <1>1, <2>1 DEF AdmitProcessing, AnyRun
  <2>2. ASSUME NEW u \in AnyRun, AdmitIndexing(q, u)
        PROVE  JobsFrom
    <3>1. SeenLinks(q) \in SUBSET Repos
      BY DEF SeenLinks, Linked
    <3>2. PICK owner : Admission(SeenLinks(q), owner)
      BY <2>2, RequestAdmits
    <3> QED
      BY <3>1, <3>2, AdmittedFrom
  <2>3. ASSUME (\E x \in AnyRepo : AskAgain(q, x)) \/ AskFailed(q) \/ AskReconcile(q) \/ Refuse(q)
        PROVE  jobs' = jobs
    BY <2>3 DEF AskAgain, AskFailed, AskReconcile, Asks, Refuse
  <2> QED
    BY <1>6, <2>1, <2>2, <2>3, OldJobs DEF RequestStep
<1>7. ASSUME NEW w \in Workers, Delivery(w)
      PROVE  JobsFrom
  <2>1. ASSUME Complete(w)
        PROVE  JobsFrom
    <3>1. Linked \in SUBSET Repos
      BY DEF Linked
    <3>2. PICK owner : Admission(Linked, owner)
      BY <2>1, CompletionAdmits
    <3> QED
      BY <3>1, <3>2, AdmittedFrom
  <2>2. ASSUME NEW j \in jobs, Fetch(w, j)
        PROVE  JobsFrom
    BY <1>2, <2>2 DEF Fetch
  <2>3. ASSUME Report(w)
        PROVE  JobsFrom
    <3>1. CASE Job(w) \in jobs
      BY <1>2, <2>3, <3>1 DEF Report
    <3>2. CASE Job(w) \notin jobs
      BY <2>3, <3>2, OldJobs DEF Report
    <3> QED
      BY <3>1, <3>2
  <2>4. ASSUME \/ Claim(w) \/ Clear(w) \/ BeginWrite(w) \/ EndWrite(w) \/ BeginCompletion(w)
               \/ CompletionFails(w) \/ CheckAsset(w) \/ ReadExtraction(w) \/ FailTransient(w)
               \/ ClaimLink(w) \/ CompleteLink(w) \/ Crash(w)
               \/ \E f \in Failures : FailFinally(w, f)
        PROVE  jobs' = jobs
    BY <2>4 DEF Claim, Clear, BeginWrite, EndWrite, BeginCompletion, CompletionFails, CheckAsset,
                ReadExtraction, FailTransient, ClaimLink, CompleteLink, Crash, FailFinally
  <2> QED
    BY <1>7, <2>1, <2>2, <2>3, <2>4, OldJobs DEF Delivery, Handle
<1>8. CASE UNCHANGED vars
  BY <1>8, OldJobs DEF vars
<1> QED
  BY <1>3, <1>4, <1>5, <1>6, <1>7, <1>8 DEF Next

\* Why a job for an attempt is no longer there: its last delivery succeeded, it
\* was given up for good, or it vanished.
JobGoes(s) ==
  \/ \E j \in jobs : Vanish(j)
  \/ \E j \in jobs : Exhausted(j) /\ j.stage = s.stage /\ j.repo = s.repo /\ j.attempt = s.attempt
  \/ \E w \in Workers : /\ Report(w) /\ At(w, "succeeded") /\ Job(w) \in jobs
                        /\ Job(w).stage = s.stage /\ Job(w).repo = s.repo
                        /\ Job(w).attempt = s.attempt

\* A job stays, or goes for one of the reasons of JobGoes.
LEMMA NextJobs ==
  ASSUME TypeOK, [Next]_vars, NEW s, HasJob(s)
  PROVE  (\E j \in jobs' : j.stage = s.stage /\ j.repo = s.repo /\ j.attempt = s.attempt) \/ JobGoes(s)
<1> DEFINE Kept == \E j \in jobs' : j.stage = s.stage /\ j.repo = s.repo /\ j.attempt = s.attempt
<1>1. PICK i \in jobs : i.stage = s.stage /\ i.repo = s.repo /\ i.attempt = s.attempt
  BY DEF HasJob
<1>2. jobs \subseteq jobs' => Kept
  BY <1>1
<1>3. ASSUME NEW j \in jobs, NEW k, k = Retried(j) \/ k = [j EXCEPT !.state = "active"],
             (jobs \ {j}) \cup {k} \subseteq jobs'
      PROVE  Kept
  <2>1. SameWork(j, k)
    BY <1>3, RetriedSame DEF TypeOK
  <2> QED
    BY <1>1, <1>3, <2>1 DEF SameWork
<1> HIDE DEF Kept
<1>4. ASSUME NEW L, NEW owner, jobs' = JobsAdmitted(L, owner)
      PROVE  jobs \subseteq jobs'
  BY <1>4 DEF JobsAdmitted
<1>5. ASSUME AppStep
      PROVE  Kept
  <2>1. jobs \subseteq jobs'
    BY <1>4, <1>5 DEF AppStep, Upload, ProcessingAdmitted, UploadRefused, DeleteAccount, Unlink, SaveLink,
       SaveReads, SaveCommits, SaveAborts, DeleteAsset, StartEmbedding
  <2> QED
    BY <1>2, <2>1
<1>6. ASSUME QueueStep
      PROVE  Kept \/ JobGoes(s)
  <2>1. ASSUME NEW j \in jobs, Expire(j)
        PROVE  Kept
    BY <1>3, <2>1 DEF Expire
  <2>2. ASSUME NEW j \in jobs, Exhausted(j)
        PROVE  Kept \/ JobGoes(s)
    <3>1. jobs' = jobs \ {j}
      BY <2>2 DEF Exhausted
    <3>2. CASE i = j
      BY <1>1, <2>2, <3>2 DEF JobGoes
    <3>3. CASE i # j
      BY <1>1, <3>1, <3>3 DEF Kept
    <3> QED
      BY <3>2, <3>3
  <2> QED
    BY <1>6, <2>1, <2>2 DEF QueueStep, JobGoes
<1>7. ASSUME Sweep
      PROVE  jobs' = jobs
  BY <1>7 DEF Sweep, SweepReads, SweepReadsJobs, SweepReadsRun, SweepFails
<1>8. ASSUME NEW q \in Requests, RequestStep(q)
      PROVE  jobs \subseteq jobs'
  BY <1>4, <1>8 DEF RequestStep, AskAgain, AskFailed, AskReconcile, Asks, Refuse, AdmitProcessing,
     ProcessingAdmitted, AdmitIndexing
<1>9. ASSUME NEW w \in Workers, Delivery(w)
      PROVE  Kept \/ JobGoes(s)
  <2>1. ASSUME Complete(w)
        PROVE  jobs \subseteq jobs'
    BY <1>4, <2>1 DEF Complete
  <2>2. ASSUME NEW j \in jobs, Fetch(w, j)
        PROVE  Kept
    BY <1>3, <2>2 DEF Fetch
  <2>3. ASSUME Report(w)
        PROVE  Kept \/ JobGoes(s)
    <3>1. CASE i # Job(w)
      BY <1>1, <2>3, <3>1 DEF Report, Kept
    <3>2. CASE i = Job(w) /\ At(w, "failed")
      BY <1>3, <2>3, <3>2 DEF Report
    <3>3. CASE i = Job(w) /\ At(w, "succeeded")
      BY <1>1, <2>3, <3>3 DEF JobGoes
    <3> QED
      BY <2>3, <3>1, <3>2, <3>3 DEF Report, At
  <2>4. ASSUME \/ Claim(w) \/ Clear(w) \/ BeginWrite(w) \/ EndWrite(w) \/ BeginCompletion(w)
               \/ CompletionFails(w) \/ CheckAsset(w) \/ ReadExtraction(w) \/ FailTransient(w)
               \/ ClaimLink(w) \/ CompleteLink(w) \/ Crash(w)
               \/ \E f \in Failures : FailFinally(w, f)
        PROVE  jobs' = jobs
    BY <2>4 DEF Claim, Clear, BeginWrite, EndWrite, BeginCompletion, CompletionFails, CheckAsset,
                ReadExtraction, FailTransient, ClaimLink, CompleteLink, Crash, FailFinally
  <2> QED
    BY <1>2, <1>9, <2>1, <2>2, <2>3, <2>4 DEF Delivery, Handle
<1>10. ASSUME UNCHANGED vars
       PROVE  Kept
  BY <1>2, <1>10 DEF vars
<1> QED
  BY <1>2, <1>5, <1>6, <1>7, <1>8, <1>9, <1>10 DEF Next, Kept

\* A delivery is of a job there was, and stays so.
WorkersFrom ==
  \A w \in Workers : worker'[w] # Idle =>
    \/ worker[w] # Idle /\ worker'[w].job = worker[w].job
    \/ \E i \in jobs : /\ SameWork(i, worker'[w].job)
                       /\ worker'[w].phase = "fetched" /\ worker'[w].embedding = 0

\* Every delivery after a step is one there was, or was just fetched.
LEMMA NextWorkersFrom ==
  ASSUME TypeOK, [Next]_vars
  PROVE  WorkersFrom
<1>1. worker' = worker => WorkersFrom
  BY DEF WorkersFrom
<1>2. ASSUME NEW w \in Workers, Delivery(w)
      PROVE  WorkersFrom
  <2>1. ASSUME NEW j \in jobs, Fetch(w, j)
        PROVE  WorkersFrom
    <3> DEFINE k == [j EXCEPT !.state = "active"]
               to == [phase |-> "fetched", job |-> k, embedding |-> 0]
    <3>1. worker' = [worker EXCEPT ![w] = to] /\ SameWork(j, k)
      BY <2>1, RetriedSame DEF Fetch, TypeOK
    <3>2. to.phase = "fetched" /\ to.embedding = 0 /\ SameWork(j, to.job)
      BY <3>1
    <3> HIDE DEF to, k
    <3>3. worker'[w] = to /\ \A v \in Workers \ {w} : worker'[v] = worker[v]
      BY <3>1 DEF TypeOK
    <3> QED
      BY <3>2, <3>3 DEF WorkersFrom
  <2>2. ASSUME Handle(w) \/ Crash(w) \/ Report(w)
        PROVE  WorkersFrom
    BY <2>2, HandleKeeps DEF DeliveriesKept, WorkersFrom
  <2> QED
    BY <1>2, <2>1, <2>2 DEF Delivery
<1>3. CASE AppStep
  BY <1>1, <1>3 DEF AppStep, Upload, UploadRefused, DeleteAccount, Unlink, SaveLink, SaveReads, SaveCommits,
     SaveAborts, DeleteAsset, StartEmbedding
<1>4. CASE QueueStep \/ Sweep
  BY <1>1, <1>4 DEF QueueStep, Expire, Exhausted, Vanish, Sweep, SweepReads, SweepReadsJobs, SweepReadsRun,
     SweepFails
<1>5. CASE \E q \in Requests : RequestStep(q)
  BY <1>1, <1>5 DEF RequestStep, AskAgain, AskFailed, AskReconcile, Asks, AdmitProcessing, AdmitIndexing,
     Refuse
<1>6. CASE UNCHANGED vars
  BY <1>1, <1>6 DEF vars
<1> QED
  BY <1>2, <1>3, <1>4, <1>5, <1>6 DEF Next

-----------------------------------------------------------------------------
(* An attempt that is over stays so, and a link keeps its embedding        *)
(* generation as long as its attempt.                                      *)

\* The file's generation never falls.
LEMMA GenerationGrows ==
  ASSUME TypeOK, NoneBefore, [Next]_vars
  PROVE  asset'.generation >= asset.generation /\ asset.generation \in Nat
<1>1. asset \in AssetType /\ asset.generation \in Nat
  BY DEF TypeOK, AssetType
<1>2. ASSUME NEW u, ProcessingAdmitted(u)
      PROVE  asset'.generation >= asset.generation
  BY <1>1, <1>2 DEF ProcessingAdmitted
<1>3. ASSUME NEW u, UploadRefused(u)
      PROVE  asset'.generation >= asset.generation
  BY <1>1, <1>3 DEF UploadRefused, NoneBefore
<1>4. ASSUME DeleteAsset \/ \E w \in Workers : Complete(w)
      PROVE  asset'.generation >= asset.generation
  <2>1. asset'.generation = asset.generation
    BY <1>1, <1>4 DEF DeleteAsset, Complete, AssetType
  <2> QED
    BY <1>1, <2>1
<1>5. ASSUME NEW s \in {"active", "failed"}, NEW f, asset' = [asset EXCEPT !.status = s, !.failure = f]
      PROVE  asset'.generation >= asset.generation
  BY <1>1, <1>5 DEF AssetType
<1>6. asset' = asset => asset'.generation >= asset.generation
  BY <1>1
<1> QED
  BY <1>1, <1>2, <1>3, <1>4, <1>5, <1>6, NextAssetMoves DEF AssetMoves, Upload, AdmitProcessing

\* A generation that is not current any more never is again.
LEMMA NotAgain ==
  ASSUME TypeOK, [Next]_vars, NEW j, j.attempt <= asset.generation, CurrentProcessing(j)'
  PROVE  CurrentProcessing(j)
<1>1. asset \in AssetType /\ asset.generation \in Nat
  BY DEF TypeOK, AssetType
<1>2. asset'.generation = j.attempt /\ Unfinished(asset'.status)
  BY DEF CurrentProcessing, Unfinished
<1>3. ASSUME NEW u, ProcessingAdmitted(u)
      PROVE  FALSE
  BY <1>1, <1>2, <1>3 DEF ProcessingAdmitted
<1>4. ASSUME NEW u, UploadRefused(u)
      PROVE  FALSE
  BY <1>2, <1>4 DEF UploadRefused, Unfinished
<1>5. ASSUME DeleteAsset \/ \E w \in Workers : Complete(w)
      PROVE  FALSE
  BY <1>1, <1>2, <1>5 DEF DeleteAsset, Complete, AssetType, Unfinished
<1>6. ASSUME Unfinished(asset.status), NEW s \in {"active", "failed"}, NEW f,
             asset' = [asset EXCEPT !.status = s, !.failure = f]
      PROVE  CurrentProcessing(j)
  BY <1>1, <1>2, <1>6 DEF AssetType, CurrentProcessing
<1>7. asset' = asset => CurrentProcessing(j)
  BY <1>2 DEF CurrentProcessing
<1> QED
  BY <1>3, <1>4, <1>5, <1>6, <1>7, NextAssetMoves DEF AssetMoves, Upload, AdmitProcessing

\* The link is on the attempt of j.
OfLink(j) == j.stage = "indexing" /\ j.repo \in Linked /\ link[j.repo].attempt = j.attempt

\* An indexing attempt is current when it is its link's and unfinished.
LEMMA CurrentOfLink ==
  ASSUME NEW j, j.stage = "indexing"
  PROVE  /\ Current(j) <=> OfLink(j) /\ Unfinished(link[j.repo].status)
         /\ Current(j)' <=> OfLink(j)' /\ Unfinished(link'[j.repo].status)
BY DEF Current, CurrentIndexing, OfLink, Linked, Unfinished

\* j's attempt was drawn, and not by the save under way.
Drew(j) ==
  /\ j.attempt \in Nat
  /\ (j.stage = "indexing" /\ j.repo \in Repos) =>
       j.attempt <= sequence /\ (saving # NotSaving => j.attempt # saving.attempt)

\* An attempt drawn before, its link's after a step, was its link's before it, on
\* the same embedding generation, and has not begun again if it had ended.
LEMMA LinkLasts ==
  ASSUME TypeOK, [Next]_vars, NEW j, Drew(j), OfLink(j)'
  PROVE  /\ OfLink(j) /\ link'[j.repo].embedding = link[j.repo].embedding
         /\ Unfinished(link'[j.repo].status) => Unfinished(link[j.repo].status)
<1> DEFINE r == j.repo
<1>1. /\ j.stage = "indexing" /\ r \in Repos /\ link'[r].status # "none"
      /\ link'[r].attempt = j.attempt /\ link[r] \in LinkType
      /\ j.attempt \in Nat /\ j.attempt <= sequence /\ sequence \in Nat
      /\ (saving # NotSaving => j.attempt # saving.attempt)
  BY DEF OfLink, Linked, Drew, TypeOK
<1>2. LinkMoves(r)
  BY <1>1, NextLinkMoves
<1>3. CASE link'[r] = link[r]
  BY <1>1, <1>3 DEF OfLink, Linked
<1>4. CASE link'[r] = Gone
  BY <1>1, <1>4 DEF Gone
<1>5. ASSUME r \in Linked, NEW u, ProcessingAdmitted(u)
      PROVE  FALSE
  <2>1. link'[r].attempt = sequence + 1
    BY <1>1, <1>5, WaitingLink DEF LinkType
  <2> QED
    BY <1>1, <2>1
<1>6. ASSUME NEW L \in SUBSET Repos, NEW owner, AdmittedWith(r, L, owner)
      PROVE  FALSE
  <2>1. link'[r].attempt = sequence + 1
    BY <1>1, <1>6, AdmittedLink DEF AdmittedWith, Admission
  <2> QED
    BY <1>1, <2>1
<1>7. CASE SaveCommits /\ saving.saw # "completed" /\ r = saving.repo /\ link'[r] = NewLink
  <2>1. saving # NotSaving /\ link'[r].attempt = saving.attempt
    BY <1>7 DEF SaveCommits, NotSaving, NewLink
  <2> QED
    BY <1>1, <2>1
<1>8. CASE GoesOn(r)
  BY <1>1, <1>8 DEF GoesOn, Unfinished, OfLink, Linked, LinkType
<1> QED
  BY <1>2, <1>3, <1>4, <1>5, <1>6, <1>7, <1>8 DEF LinkMoves

\* What is in the hands of jobs and deliveries was drawn.
LEMMA HeldDrew ==
  ASSUME FileInv
  PROVE  /\ \A j \in jobs : Drew(j)
         /\ \A w \in Workers : worker[w] # Idle => Drew(worker[w].job)
<1>1. ASSUME NEW j \in JobType, j.stage = "indexing" => Claimed(j.repo, j.attempt)
      PROVE  Drew(j)
  BY <1>1 DEF Drew, JobType, Follows, FileInv, ClaimsFollow
<1>2. ASSUME NEW j \in jobs
      PROVE  Drew(j)
  <2>1. j \in JobType
    BY DEF FileInv, TypeOK
  <2>2. j.stage = "indexing" => Claimed(j.repo, j.attempt)
    BY DEF Claimed, JobClaims, Indexes
  <2> QED
    BY <1>1, <2>1, <2>2
<1>3. ASSUME NEW w \in Workers, worker[w] # Idle
      PROVE  Drew(worker[w].job)
  <2>1. worker[w].job \in JobType
    BY <1>3 DEF FileInv, TypeOK, Deliveries
  <2>2. worker[w].job.stage = "indexing" => Claimed(worker[w].job.repo, worker[w].job.attempt)
    BY <1>3 DEF Claimed, DeliveryClaims, Indexes
  <2> QED
    BY <1>1, <2>1, <2>2
<1> QED
  BY <1>2, <1>3

-----------------------------------------------------------------------------
(* What is unfinished has a job.                                           *)

\* No job is for a generation to come, and an indexing job's link was admitted
\* when embeddings were set up.
JobFits(j) ==
  /\ j.stage = "processing" => j.attempt <= asset.generation
  /\ OfLink(j) => link[j.repo].embedding # 0

\* The phases of a delivery that works on the file itself.
AtFile == {"clearing", "extracting", "writing", "written", "completing"}

\* A delivery that knows the embedding generation knows one no older than its
\* link's, the same once it has claimed the link; and one that is about to say
\* that all is done leaves nothing undone on the active embedding generation.
WorkerFits(w) ==
  LET j == worker[w].job
  IN /\ JobFits(j)
     /\ worker[w].embedding <= embedding
     /\ worker[w].phase \in AtFile => j.stage = "processing"
     /\ OfLink(j) /\ worker[w].phase \in {"checked", "claimed", "indexing"}
          => link[j.repo].embedding <= worker[w].embedding
     /\ OfLink(j) /\ worker[w].phase \in {"claimed", "indexing"}
          => link[j.repo].embedding = worker[w].embedding
     /\ worker[w].phase = "succeeded" /\ Current(j)
          => j.stage = "indexing" /\ link[j.repo].embedding # embedding

\* No link is ahead of the active embedding generation.
EmbeddingsFit == \A r \in Linked : link[r].embedding <= embedding

\* Jobs, deliveries and links agree on attempts and generations.
JobsFit == /\ NoneBefore /\ EmbeddingsFit /\ \A j \in jobs : JobFits(j)
           /\ \A w \in Workers : worker[w] # Idle => WorkerFits(w)

\* What holds of an attempt drawn before a step holds after it.
LEMMA JobStaysFit ==
  ASSUME TypeOK, NoneBefore, [Next]_vars, NEW j, Drew(j), JobFits(j)
  PROVE  JobFits(j)'
<1>1. j.attempt \in Nat
  BY DEF Drew
<1>2. j.stage = "processing" => j.attempt <= asset'.generation
  <2>1. asset'.generation \in Int
    BY GenerationGrows, NextType DEF TypeOK, AssetType
  <2> QED
    BY <1>1, <2>1, GenerationGrows DEF JobFits
<1>3. OfLink(j)' => link'[j.repo].embedding # 0
  BY LinkLasts DEF JobFits
<1> QED
  BY <1>2, <1>3 DEF JobFits

\* The active embedding generation never falls.
LEMMA EmbeddingNat ==
  ASSUME TypeOK, [Next]_vars
  PROVE  embedding \in Nat /\ embedding' \in Nat /\ embedding' >= embedding
BY NextEmbedding DEF TypeOK, StartEmbedding

\* What other steps do to a delivery's attempt.
LEMMA WorkerStaysFit ==
  ASSUME FileInv, JobsFit, [Next]_vars, NEW w \in Workers, worker[w] # Idle, worker'[w] = worker[w]
  PROVE  WorkerFits(w)'
<1> DEFINE j == worker[w].job
<1>1. TypeOK /\ NoneBefore /\ WorkerFits(w) /\ Drew(j)
  BY HeldDrew DEF FileInv, JobsFit
<1>2. worker[w] \in Deliveries /\ worker[w].embedding \in Nat /\ j \in JobType
  BY <1>1 DEF TypeOK, Deliveries
<1>3. embedding \in Nat /\ embedding' \in Nat /\ embedding' >= embedding
  BY <1>1, EmbeddingNat
<1>4. JobFits(j)'
  BY <1>1, JobStaysFit DEF WorkerFits
<1>5. OfLink(j)' => OfLink(j) /\ link'[j.repo].embedding = link[j.repo].embedding
  BY <1>1, LinkLasts
<1>6. ASSUME worker[w].phase = "succeeded", Current(j)'
      PROVE  j.stage = "indexing" /\ link'[j.repo].embedding # embedding'
  <2>1. CASE j.stage = "processing"
    <3>1. CurrentProcessing(j)'
      BY <1>6, <2>1 DEF Current
    <3>2. CurrentProcessing(j)
      BY <1>1, <2>1, <3>1, NotAgain DEF WorkerFits, JobFits
    <3> QED
      BY <1>1, <1>6, <2>1, <3>2 DEF WorkerFits, Current
  <2>2. CASE j.stage # "processing"
    <3>1. j.stage = "indexing"
      BY <1>2, <2>2 DEF JobType, Stages
    <3>2. OfLink(j)' /\ Unfinished(link'[j.repo].status)
      BY <1>6, <3>1, CurrentOfLink
    <3>3. /\ OfLink(j) /\ Unfinished(link[j.repo].status)
          /\ link'[j.repo].embedding = link[j.repo].embedding
      BY <1>1, <3>2, LinkLasts
    <3>4. link[j.repo].embedding # embedding
      BY <1>1, <1>6, <3>1, <3>3, CurrentOfLink DEF WorkerFits
    <3>5. link[j.repo].embedding <= embedding /\ link[j.repo].embedding \in Nat
      BY <1>1, <3>3 DEF JobsFit, EmbeddingsFit, OfLink, Linked, TypeOK, LinkType
    <3> QED
      BY <1>3, <3>1, <3>3, <3>4, <3>5
  <2> QED
    BY <2>1, <2>2
<1>7. worker'[w].embedding <= embedding'
  BY <1>1, <1>2, <1>3 DEF WorkerFits
<1> QED
  BY <1>1, <1>4, <1>5, <1>6, <1>7 DEF WorkerFits

\* To what phase a delivery goes on.
Moved(w, phase, e) ==
  worker'[w].phase = phase /\ worker'[w].embedding = e /\ worker'[w].job = worker[w].job

\* The two ways a delivery goes on.
LEMMA PhaseMoves ==
  ASSUME TypeOK, NEW w \in Workers, worker[w] # Idle, NEW phase, NEW e
  PROVE  /\ Phase(w, phase) => Moved(w, phase, worker[w].embedding)
         /\ worker' = [worker EXCEPT ![w].phase = phase, ![w].embedding = e] => Moved(w, phase, e)
<1>1. worker[w] \in Deliveries
  BY DEF TypeOK
<1>2. Phase(w, phase) => worker'[w] = [worker[w] EXCEPT !.phase = phase]
  BY DEF Phase, TypeOK
<1>3. worker' = [worker EXCEPT ![w].phase = phase, ![w].embedding = e] =>
        worker'[w] = [worker[w] EXCEPT !.phase = phase, !.embedding = e]
  BY DEF TypeOK
<1> QED
  BY <1>1, <1>2, <1>3 DEF Deliveries, Moved

\* What a delivery keeps by its own step, and what it must see to.
LEMMA MovedFits ==
  ASSUME FileInv, JobsFit, [Next]_vars, NEW w \in Workers, worker[w] # Idle,
         NEW phase, NEW e \in Nat, Moved(w, phase, e), embedding' = embedding, e <= embedding,
         phase \in AtFile => worker[w].job.stage = "processing",
         OfLink(worker[w].job) /\ phase \in {"checked", "claimed", "indexing"}
            => link[worker[w].job.repo].embedding <= e,
         OfLink(worker[w].job) /\ phase \in {"claimed", "indexing"}
            => link[worker[w].job.repo].embedding = e,
         phase = "succeeded" /\ Current(worker[w].job)'
            => worker[w].job.stage = "indexing" /\ link[worker[w].job.repo].embedding # embedding
  PROVE  WorkerFits(w)'
<1> PICK j : j = worker[w].job
  OBVIOUS
<1>1. TypeOK /\ NoneBefore /\ JobFits(j) /\ Drew(j)
  BY HeldDrew DEF FileInv, JobsFit, WorkerFits
<1>2. worker'[w].job = j /\ worker'[w].phase = phase /\ worker'[w].embedding = e
  BY DEF Moved
<1>3. JobFits(j)'
  BY <1>1, JobStaysFit
<1>4. OfLink(j)' => OfLink(j) /\ link'[j.repo].embedding = link[j.repo].embedding
  BY <1>1, LinkLasts
<1>5. phase = "succeeded" /\ Current(j)' => j.stage = "indexing" /\ link'[j.repo].embedding # embedding'
  <2> SUFFICES ASSUME phase = "succeeded", Current(j)'
               PROVE  j.stage = "indexing" /\ link'[j.repo].embedding # embedding'
    OBVIOUS
  <2>1. Current(worker[w].job)'
    BY <1>2
  <2>2. j.stage = "indexing" /\ link[j.repo].embedding # embedding
    BY <2>1
  <2>3. OfLink(j)'
    BY <2>2, CurrentOfLink
  <2> QED
    BY <1>4, <2>2, <2>3
<1> QED
  BY <1>2, <1>3, <1>4, <1>5 DEF WorkerFits

\* An attempt in hand that is the link's own is of a completed file, and of an
\* embedding generation that was set up.
LEMMA OfLinkFacts ==
  ASSUME FileInv, JobsFit, NEW w \in Workers, worker[w] # Idle, OfLink(worker[w].job)
  PROVE  /\ asset.status = "completed"
         /\ link[worker[w].job.repo].embedding \in Nat /\ link[worker[w].job.repo].embedding > 0
         /\ link[worker[w].job.repo].embedding <= embedding
<1> DEFINE j == worker[w].job
<1>1. j \in JobType /\ j.stage = "indexing" /\ j.repo \in Linked /\ link[j.repo].attempt = j.attempt
  BY DEF FileInv, TypeOK, Deliveries, OfLink
<1>2. Claimed(j.repo, j.attempt)
  BY <1>1 DEF Claimed, DeliveryClaims, Indexes
<1>3. asset.status = "completed"
  BY <1>1, <1>2 DEF FileInv, ClaimsFollow, Follows, Linked, JobType
<1>4. link[j.repo].embedding \in Nat /\ link[j.repo].embedding <= embedding
  BY <1>1 DEF JobsFit, EmbeddingsFit, Linked, FileInv, TypeOK, LinkType
<1>5. link[j.repo].embedding # 0
  BY DEF JobsFit, WorkerFits, JobFits
<1> QED
  BY <1>3, <1>4, <1>5

\* Whoever fails an attempt that was current has ended it.
LEMMA FailsEnds ==
  ASSUME TypeOK, NEW j, NEW u, NEW f, Current(j), Fails(j, u, f)
  PROVE  \/ j.stage = "processing" /\ asset'.status = "failed"
         \/ j.stage # "processing" /\ link'[j.repo].status = "failed"
<1>1. CASE j.stage = "processing"
  BY <1>1 DEF Fails, TypeOK, AssetType
<1>2. CASE j.stage # "processing"
  <2>1. j.repo \in Repos
    BY <1>2 DEF Current, CurrentIndexing
  <2> QED
    BY <1>2, <2>1 DEF Fails, TypeOK, LinkType
<1> QED
  BY <1>1, <1>2

\* Each step of a delivery keeps it fit.
LEMMA HandleFits ==
  ASSUME FileInv, DeliveryStages, JobsFit, [Next]_vars, NEW w \in Workers, Handle(w)
  PROVE  WorkerFits(w)'
<1> PICK j : j = Job(w)
  OBVIOUS
<1> DEFINE e == worker[w].embedding
<1>1. TypeOK /\ worker[w].phase # "idle"
  BY DEF Handle, Claim, Clear, BeginWrite, EndWrite, BeginCompletion, Complete,
         CompletionFails, CheckAsset, ClaimLink, ReadExtraction, CompleteLink, FailTransient,
         FailFinally, Failing, At, FileInv
<1>2. worker[w] # Idle
  BY <1>1 DEF Idle
<1>3. worker[w] \in Deliveries /\ e \in Nat /\ j \in JobType /\ embedding \in Nat /\ j = worker[w].job
  BY <1>1, <1>2 DEF TypeOK, Deliveries, Job
<1>4. embedding' = embedding
  BY DEF Handle, Claim, Clear, BeginWrite, EndWrite, BeginCompletion, Complete,
         CompletionFails, CheckAsset, ClaimLink, ReadExtraction, CompleteLink, FailTransient,
         FailFinally
<1>5. /\ e <= embedding
      /\ worker[w].phase \in AtFile => j.stage = "processing"
      /\ OfLink(j) /\ worker[w].phase \in {"checked", "claimed", "indexing"} => link[j.repo].embedding <= e
      /\ OfLink(j) /\ worker[w].phase \in {"claimed", "indexing"} => link[j.repo].embedding = e
      /\ worker[w].phase \in {"checked", "claimed", "indexing"} => j.stage = "indexing"
  BY <1>2, <1>3 DEF JobsFit, WorkerFits, DeliveryStages
<1>6. OfLink(j) => /\ asset.status = "completed" /\ link[j.repo].embedding \in Nat
                   /\ link[j.repo].embedding > 0 /\ link[j.repo].embedding <= embedding
  BY <1>2, <1>3, OfLinkFacts
<1>7. j.stage = "indexing" => /\ Current(j) <=> OfLink(j) /\ Unfinished(link[j.repo].status)
                              /\ Current(j)' <=> OfLink(j)' /\ Unfinished(link'[j.repo].status)
  BY CurrentOfLink
<1>8. /\ j.stage = "processing" => (Current(j) <=> CurrentProcessing(j)) /\ (Current(j)' <=> CurrentProcessing(j)')
      /\ j.stage = "processing" \/ j.stage = "indexing"
  BY <1>3 DEF Current, JobType, Stages
<1>9. ASSUME NEW phase, Phase(w, phase),
             phase \in AtFile => j.stage = "processing",
             OfLink(j) /\ phase \in {"checked", "claimed", "indexing"} => link[j.repo].embedding <= e,
             OfLink(j) /\ phase \in {"claimed", "indexing"} => link[j.repo].embedding = e,
             phase = "succeeded" /\ Current(j)' => j.stage = "indexing" /\ link[j.repo].embedding # embedding
      PROVE  WorkerFits(w)'
  <2>1. Moved(w, phase, e)
    BY <1>1, <1>2, <1>9, PhaseMoves
  <2>2. Current(worker[w].job)' <=> Current(j)'
    BY <1>3, <2>1 DEF Moved
  <2> HIDE DEF e
  <2> QED
    BY <1>2, <1>3, <1>4, <1>5, <1>9, <2>1, <2>2, MovedFits
<1>10. ASSUME NEW phase, worker' = [worker EXCEPT ![w].phase = phase, ![w].embedding = embedding],
              phase \notin AtFile, phase \notin {"claimed", "indexing"},
              phase = "succeeded" => ~Current(j)'
       PROVE  WorkerFits(w)'
  <2>1. Moved(w, phase, embedding)
    BY <1>1, <1>2, <1>10, PhaseMoves
  <2>2. Current(worker[w].job)' <=> Current(j)'
    BY <1>3, <2>1 DEF Moved
  <2>3. OfLink(j) => link[j.repo].embedding <= embedding
    BY <1>6
  <2>4. embedding <= embedding
    BY <1>3
  <2> QED
    BY <1>2, <1>3, <1>4, <1>10, <2>1, <2>2, <2>3, <2>4, MovedFits
<1>11. CASE Claim(w)
  <2>1. j.stage = "processing"
    BY <1>11 DEF Claim
  <2>2. CASE CurrentProcessing(j)
    BY <1>9, <1>11, <2>1, <2>2 DEF Claim
  <2>3. CASE ~CurrentProcessing(j)
    <3>1. asset' = asset /\ Phase(w, "succeeded")
      BY <1>11, <2>3 DEF Claim
    <3>2. ~Current(j)'
      BY <1>8, <2>1, <2>3, <3>1 DEF CurrentProcessing
    <3> QED
      BY <1>9, <3>1, <3>2 DEF AtFile
  <2> QED
    BY <2>2, <2>3
<1>12. CASE Clear(w) \/ EndWrite(w)
  <2>1. j.stage = "processing" /\ (Phase(w, "extracting") \/ Phase(w, "written"))
    BY <1>5, <1>12 DEF Clear, EndWrite, At, AtFile
  <2> QED
    BY <1>9, <2>1
<1>13. CASE BeginWrite(w) \/ BeginCompletion(w)
  <2>1. j.stage = "processing" /\ asset' = asset
    BY <1>5, <1>13 DEF BeginWrite, BeginCompletion, At, AtFile, rows
  <2>2. \/ Phase(w, "writing") \/ Phase(w, "completing")
        \/ Phase(w, "succeeded") /\ ~CurrentProcessing(j)
    BY <1>13 DEF BeginWrite, BeginCompletion
  <2>3. CurrentProcessing(j)' <=> CurrentProcessing(j)
    BY <2>1 DEF CurrentProcessing
  <2> QED
    BY <1>8, <1>9, <2>1, <2>2, <2>3
<1>14. CASE Complete(w)
  <2>1. j.stage = "processing" /\ asset'.status = "completed" /\ Phase(w, "succeeded")
    BY <1>1, <1>5, <1>14 DEF Complete, At, AtFile, TypeOK, AssetType
  <2>2. ~CurrentProcessing(j)'
    BY <2>1 DEF CurrentProcessing, Unfinished
  <2> QED
    BY <1>8, <1>9, <2>1, <2>2
<1>15. CASE CompletionFails(w)
  <2>1. j.stage = "processing" /\ (Phase(w, "failed") \/ Phase(w, "written"))
    BY <1>5, <1>15 DEF CompletionFails, At, AtFile
  <2> QED
    BY <1>9, <2>1
<1>16. CASE CheckAsset(w)
  <2> DEFINE phase == IF asset.status = "completed" /\ embedding # 0 THEN "checked" ELSE "succeeded"
  <2>1. /\ worker' = [worker EXCEPT ![w].phase = phase, ![w].embedding = embedding]
        /\ UNCHANGED <<asset, link>> /\ j.stage = "indexing"
    BY <1>16 DEF CheckAsset, rows
  <2>2. Current(j)' <=> Current(j)
    BY <2>1 DEF Current, CurrentProcessing, CurrentIndexing
  <2>3. phase = "succeeded" => ~Current(j)
    BY <1>6, <1>7, <2>1
  <2>4. phase \in {"checked", "succeeded"}
    OBVIOUS
  <2> HIDE DEF phase
  <2> QED
    BY <1>10, <2>1, <2>2, <2>3, <2>4 DEF AtFile
<1>17. CASE ClaimLink(w)
  <2>1. j.stage = "indexing" /\ (OfLink(j) => link[j.repo].embedding <= e)
    BY <1>5, <1>17 DEF ClaimLink, At
  <2>2. CASE CurrentIndexing(j) /\ link[j.repo].embedding = e
    <3>1. Phase(w, "claimed")
      BY <1>17, <2>2 DEF ClaimLink
    <3> QED
      BY <1>9, <2>1, <2>2, <3>1 DEF AtFile
  <2>3. CASE ~(CurrentIndexing(j) /\ link[j.repo].embedding = e)
    <3>1. Phase(w, "succeeded") /\ UNCHANGED <<asset, link>>
      BY <1>17, <2>3 DEF ClaimLink
    <3>2. Current(j)' <=> Current(j)
      BY <3>1 DEF Current, CurrentProcessing, CurrentIndexing
    <3>3. Current(j) => OfLink(j) /\ CurrentIndexing(j)
      BY <1>7, <2>1 DEF Current
    <3>4. OfLink(j) /\ link[j.repo].embedding # e => link[j.repo].embedding # embedding
      BY <1>3, <1>5, <1>6, <2>1
    <3> QED
      BY <1>9, <2>1, <2>3, <3>1, <3>2, <3>3, <3>4 DEF AtFile
  <2> QED
    BY <2>2, <2>3
<1>18. CASE ReadExtraction(w)
  BY <1>5, <1>9, <1>18 DEF ReadExtraction, At, AtFile
<1>19. CASE CompleteLink(w)
  <2>1. j.stage = "indexing" /\ (OfLink(j) => link[j.repo].embedding = e) /\ Phase(w, "succeeded")
    BY <1>5, <1>19 DEF CompleteLink, At
  <2>2. CASE CurrentIndexing(j) /\ embedding = e
    <3>1. link' = [link EXCEPT ![j.repo].status = "completed", ![j.repo].failure = "none"] /\ j.repo \in Repos
      BY <1>19, <2>2 DEF CompleteLink, CurrentIndexing
    <3>2. link'[j.repo].status = "completed"
      BY <1>1, <3>1 DEF TypeOK, LinkType
    <3>3. ~Current(j)'
      BY <1>7, <2>1, <3>2 DEF Unfinished
    <3> QED
      BY <1>9, <2>1, <3>3 DEF AtFile
  <2>3. CASE ~(CurrentIndexing(j) /\ embedding = e)
    <3>1. UNCHANGED <<asset, link>>
      BY <1>19, <2>3 DEF CompleteLink
    <3>2. Current(j)' <=> Current(j)
      BY <3>1 DEF Current, CurrentProcessing, CurrentIndexing
    <3>3. Current(j) => OfLink(j) /\ CurrentIndexing(j)
      BY <1>7, <2>1 DEF Current
    <3> QED
      BY <1>9, <2>1, <2>3, <3>2, <3>3 DEF AtFile
  <2> QED
    BY <2>2, <2>3
<1>20. CASE FailTransient(w)
  <2>1. worker' = [worker EXCEPT ![w].phase = AfterFailure(w), ![w].embedding = embedding]
        /\ UNCHANGED <<asset, link>>
    BY <1>20 DEF FailTransient, rows
  <2>2. AfterFailure(w) \in {"succeeded", "checked", "failed"} /\ (AfterFailure(w) = "succeeded" => ~Current(j))
    BY DEF AfterFailure
  <2>3. Current(j)' <=> Current(j)
    BY <2>1 DEF Current, CurrentProcessing, CurrentIndexing
  <2> HIDE DEF AfterFailure
  <2> QED
    BY <1>10, <2>1, <2>2, <2>3 DEF AtFile
<1>21. ASSUME NEW f \in Failures, FailFinally(w, f)
       PROVE  WorkerFits(w)'
  <2>1. Phase(w, "succeeded")
    BY <1>21 DEF FailFinally
  <2>2. CASE Current(j)
    <3>1. \/ j.stage = "processing" /\ asset'.status = "failed"
          \/ j.stage # "processing" /\ link'[j.repo].status = "failed"
      BY <1>1, <1>21, <2>2, FailsEnds DEF FailFinally
    <3>2. ~Current(j)'
      BY <1>7, <1>8, <3>1 DEF CurrentProcessing, Unfinished
    <3> QED
      BY <1>9, <2>1, <3>2 DEF AtFile
  <2>3. CASE ~Current(j)
    <3>1. UNCHANGED <<asset, link>>
      BY <1>21, <2>3 DEF FailFinally, rows
    <3>2. Current(j)' <=> Current(j)
      BY <3>1 DEF Current, CurrentProcessing, CurrentIndexing
    <3> QED
      BY <1>9, <2>1, <2>3, <3>2 DEF AtFile
  <2> QED
    BY <2>2, <2>3
<1> QED
  BY <1>11, <1>12, <1>13, <1>14, <1>15, <1>16, <1>17, <1>18, <1>19, <1>20, <1>21 DEF Handle

\* Jobs, deliveries and links stay fit over a step.
LEMMA NextJobsFit ==
  ASSUME FileInv, DeliveryStages, JobsFit, Completes, [Next]_vars
  PROVE  JobsFit'
<1>1. TypeOK /\ TypeOK' /\ NoneBefore /\ NoneBefore'
  <2>1. TypeOK /\ NoneBefore
    BY DEF FileInv, JobsFit
  <2>2. TypeOK'
    BY <2>1, NextType
  <2> QED
    BY <2>1, <2>2, NextWork
<1>2. embedding \in Nat /\ embedding' \in Nat /\ embedding' >= embedding
  BY <1>1, EmbeddingNat
<1>3. ASSUME NEW r \in Repos, link'[r].status # "none"
      PROVE  link'[r].embedding <= embedding'
  <2>1. link[r] \in LinkType /\ (r \in Linked => link[r].embedding <= embedding)
    BY <1>1 DEF TypeOK, JobsFit, EmbeddingsFit
  <2>2. link'[r] = link[r] => link'[r].embedding <= embedding'
    BY <1>2, <1>3, <2>1 DEF Linked, LinkType
  <2>3. ASSUME r \in Linked, NEW u, ProcessingAdmitted(u)
        PROVE  link'[r].embedding = link[r].embedding
    BY <1>1, <2>1, <2>3, WaitingLink DEF LinkType
  <2>4. ASSUME NEW L \in SUBSET Repos, NEW owner, AdmittedWith(r, L, owner)
        PROVE  link'[r].embedding = embedding
    BY <1>1, <2>4, AdmittedLink DEF AdmittedWith, Admission
  <2>5. link'[r] = NewLink => link'[r].embedding = 0
    BY DEF NewLink
  <2>6. GoesOn(r) => r \in Linked /\ link'[r].embedding = link[r].embedding
    BY <2>1 DEF GoesOn, Unfinished, Linked, LinkType
  <2>7. link'[r] # Gone
    BY <1>3 DEF Gone
  <2>8. link[r].embedding \in Nat
    BY <2>1 DEF LinkType
  <2> QED
    BY <1>1, <1>2, <2>1, <2>2, <2>3, <2>4, <2>5, <2>6, <2>7, <2>8, NextLinkMoves DEF LinkMoves
<1>4. ASSUME NEW i, NEW j, SameWork(i, j), JobFits(i)
      PROVE  JobFits(j)
  BY <1>4 DEF SameWork, JobFits, OfLink
<1>5. ASSUME NEW i, NEW j, SameWork(i, j), JobFits(i)'
      PROVE  JobFits(j)'
  BY <1>5 DEF SameWork, JobFits, OfLink
<1>6. \A i \in jobs : JobFits(i)'
  BY <1>1, HeldDrew, JobStaysFit DEF JobsFit
<1>7. ASSUME NEW j \in jobs'
      PROVE  JobFits(j)'
  <2>1. ASSUME NEW i \in jobs, SameWork(i, j)
        PROVE  JobFits(j)'
    BY <1>5, <1>6, <2>1
  <2>2. ASSUME NewProcessing(j)
        PROVE  JobFits(j)'
    <3>1. /\ j.stage = "processing" /\ j.attempt = asset.generation + 1
          /\ asset'.generation = asset.generation + 1
      BY <2>2 DEF NewProcessing, ProcessingAdmitted, Sent
    <3>2. asset.generation + 1 \in Nat
      BY <1>1 DEF TypeOK, AssetType
    <3> QED
      BY <3>1, <3>2 DEF JobFits, OfLink
  <2>3. ASSUME NewIndexing(j)
        PROVE  JobFits(j)'
    <3>1. PICK L \in SUBSET Repos : \E owner : \E r \in L :
             /\ AdmittedWith(r, L, owner) /\ embedding # 0
             /\ j = Sent("indexing", r, sequence + 1, owner[r])
      BY <2>3 DEF NewIndexing
    <3>2. PICK owner : \E r \in L :
             /\ AdmittedWith(r, L, owner) /\ embedding # 0
             /\ j = Sent("indexing", r, sequence + 1, owner[r])
      BY <3>1
    <3>3. PICK r \in L : /\ AdmittedWith(r, L, owner) /\ embedding # 0
                         /\ j = Sent("indexing", r, sequence + 1, owner[r])
      BY <3>2
    <3>4. link'[r].embedding = embedding /\ j.stage = "indexing" /\ j.repo = r
      BY <1>1, <3>3, AdmittedLink DEF AdmittedWith, Admission, Sent
    <3> QED
      BY <3>3, <3>4 DEF JobFits
  <2> QED
    BY <1>1, <2>1, <2>2, <2>3, NextJobsFrom DEF JobsFrom
<1>8. ASSUME NEW w \in Workers, worker'[w] # Idle
      PROVE  WorkerFits(w)'
  <2>1. CASE worker'[w] = worker[w]
    BY <1>8, <2>1, WorkerStaysFit
  <2>2. CASE worker'[w] # worker[w] /\ Handle(w)
    BY <2>2, HandleFits
  <2>3. CASE worker'[w] # worker[w] /\ ~Handle(w)
    <3>1. \E i \in jobs : SameWork(i, worker'[w].job) /\ worker'[w].phase = "fetched" /\ worker'[w].embedding = 0
      <4>1. ASSUME NEW v \in Workers, Delivery(v)
            PROVE  v = w /\ \E j \in jobs : Fetch(w, j)
        <5>1. v = w
          <6>1. ~BeginCompletion(v) => \A x \in Workers \ {v} : worker'[x] = worker[x]
            BY <1>1, <4>1, DeliveryCompletes
          <6>2. BeginCompletion(v) => \A x \in Workers \ {v} : worker'[x] = worker[x]
            BY <1>1 DEF BeginCompletion, Phase, TypeOK
          <6> QED
            BY <2>3, <6>1, <6>2
        <5>2. Report(w) \/ Crash(w) => worker'[w] = Idle
          BY <1>1 DEF Report, Crash, TypeOK
        <5> QED
          BY <1>8, <2>3, <4>1, <5>1, <5>2 DEF Delivery
      <4>2. \E j \in jobs : Fetch(w, j)
        <5>1. worker' # worker
          BY <2>3
        <5>2. AppStep => worker' = worker
          BY DEF AppStep, Upload, UploadRefused, DeleteAccount, Unlink, SaveLink, SaveReads, SaveCommits,
             SaveAborts, DeleteAsset, StartEmbedding
        <5>3. QueueStep \/ Sweep => worker' = worker
          BY DEF QueueStep, Expire, Exhausted, Vanish, Sweep, SweepReads, SweepReadsJobs, SweepReadsRun,
             SweepFails
        <5>4. (\E q \in Requests : RequestStep(q)) => worker' = worker
          BY DEF RequestStep, AskAgain, AskFailed, AskReconcile, Asks, AdmitProcessing, AdmitIndexing,
             Refuse
        <5>5. UNCHANGED vars => worker' = worker
          BY DEF vars
        <5> QED
          BY <4>1, <5>1, <5>2, <5>3, <5>4, <5>5 DEF Next
      <4>3. worker[w] = Idle
        BY <4>2 DEF Fetch
      <4> QED
        BY <1>1, <1>8, <4>3, NextWorkersFrom DEF WorkersFrom
    <3>2. PICK i \in jobs : SameWork(i, worker'[w].job) /\ worker'[w].phase = "fetched" /\ worker'[w].embedding = 0
      BY <3>1
    <3>3. JobFits(worker[w].job)'
      <4>1. PICK j : j = worker'[w].job
        OBVIOUS
      <4>2. JobFits(j)'
        BY <1>5, <1>6, <3>2, <4>1
      <4> QED
        BY <4>1, <4>2 DEF JobFits, OfLink
    <3> QED
      BY <1>2, <3>2, <3>3 DEF WorkerFits, AtFile
  <2> QED
    BY <2>1, <2>2, <2>3
<1>9. EmbeddingsFit'
  BY <1>3 DEF EmbeddingsFit, Linked
<1> QED
  BY <1>1, <1>7, <1>8, <1>9 DEF JobsFit

\* A job that goes leaves nothing unfinished, unless jobs vanish.
LEMMA GoneIsDone ==
  ASSUME FileInv, JobsFit, ~MayLose, NEW s \in StageType, JobGoes(s), Current(s),
         s.stage = "indexing" => link[s.repo].embedding = embedding
  PROVE  s.stage \in Stages /\ ~(Current(s)')
<1>1. TypeOK /\ s.stage \in Stages
  BY DEF FileInv, StageType
<1>2. ~(\E j \in jobs : Vanish(j))
  BY DEF Vanish
<1>3. ASSUME NEW j, j.stage = s.stage, j.repo = s.repo, j.attempt = s.attempt
      PROVE  Current(j)
  BY <1>3 DEF Current, CurrentProcessing, CurrentIndexing
<1>4. ASSUME NEW j \in jobs, Exhausted(j), j.stage = s.stage, j.repo = s.repo, j.attempt = s.attempt
      PROVE  ~(Current(s)')
  <2>1. Current(j) /\ Fails(j, j.run, "again")
    BY <1>3, <1>4 DEF Exhausted
  <2>2. \/ j.stage = "processing" /\ asset'.status = "failed"
        \/ j.stage # "processing" /\ link'[j.repo].status = "failed"
    BY <1>1, <2>1, FailsEnds
  <2> QED
    BY <1>4, <2>2 DEF Current, CurrentProcessing, CurrentIndexing, Unfinished
<1>5. ASSUME NEW w \in Workers, Report(w), At(w, "succeeded"), Job(w).stage = s.stage,
             Job(w).repo = s.repo, Job(w).attempt = s.attempt
      PROVE  FALSE
  <2>1. worker[w] # Idle
    BY <1>5 DEF At, Idle
  <2>2. Current(Job(w))
    BY <1>3, <1>5
  <2>3. s.stage = "indexing" /\ link[s.repo].embedding # embedding
    BY <1>5, <2>1, <2>2 DEF JobsFit, WorkerFits, At, Job
  <2> QED
    BY <2>3
<1> QED
  BY <1>1, <1>2, <1>4, <1>5 DEF JobGoes

\* What is unfinished has a job, where jobs do not vanish.
UnfinishedHasJob ==
  /\ Unfinished(asset.status) => HasJob(StageOf("processing", NoRepo, asset.generation))
  /\ \A r \in Linked :
       /\ asset.status = "completed" /\ Unfinished(link[r].status)
       /\ link[r].embedding = embedding /\ embedding # 0
       => HasJob(StageOf("indexing", r, link[r].attempt))

\* Every stage that is unfinished after a step was so before, and kept its job,
\* or was admitted with a new one.
LEMMA NextUnfinished ==
  ASSUME FileInv, JobsFit, ~MayLose, UnfinishedHasJob, [Next]_vars
  PROVE  UnfinishedHasJob'
<1>1. TypeOK /\ asset \in AssetType /\ asset.generation \in Nat
  BY DEF FileInv, TypeOK, AssetType
<1>2. ASSUME NEW s, NEW j \in jobs', j.stage = s.stage, j.repo = s.repo, j.attempt = s.attempt
      PROVE  HasJob(s)'
  BY <1>2 DEF HasJob
<1>3. ASSUME NEW s \in StageType, HasJob(s), Current(s), Current(s)',
             s.stage = "indexing" => link[s.repo].embedding = embedding
      PROVE  \E j \in jobs' : j.stage = s.stage /\ j.repo = s.repo /\ j.attempt = s.attempt
  BY <1>1, <1>3, NextJobs, GoneIsDone
<1>4. ASSUME Unfinished(asset'.status)
      PROVE  \E j \in jobs' : j.stage = "processing" /\ j.repo = NoRepo /\ j.attempt = asset'.generation
  <2>1. ASSUME NEW u, ProcessingAdmitted(u)
        PROVE  \E j \in jobs' : j.stage = "processing" /\ j.repo = NoRepo /\ j.attempt = asset'.generation
    <3>1. asset' = [status |-> "pending", failure |-> "none", generation |-> asset.generation + 1]
      BY <2>1 DEF ProcessingAdmitted
    <3>2. asset'.generation = asset.generation + 1
      BY <3>1
    <3>3. Sent("processing", NoRepo, asset.generation + 1, u) \in jobs'
      BY <2>1 DEF ProcessingAdmitted
    <3>4. PICK j : j = Sent("processing", NoRepo, asset.generation + 1, u)
      OBVIOUS
    <3>5. j.stage = "processing" /\ j.repo = NoRepo /\ j.attempt = asset.generation + 1
      BY <3>4 DEF Sent
    <3> QED
      BY <3>2, <3>3, <3>4, <3>5
  <2>2. ASSUME ~\E u : ProcessingAdmitted(u)
        PROVE  Unfinished(asset.status) /\ asset'.generation = asset.generation
    <3>1. ASSUME NEW u, UploadRefused(u)
          PROVE  FALSE
      BY <1>4, <3>1 DEF UploadRefused, Unfinished
    <3>2. ASSUME DeleteAsset \/ \E w \in Workers : Complete(w)
          PROVE  FALSE
      BY <1>1, <1>4, <3>2 DEF DeleteAsset, Complete, AssetType, Unfinished
    <3>3. ASSUME Unfinished(asset.status), NEW x \in {"active", "failed"}, NEW f,
                 asset' = [asset EXCEPT !.status = x, !.failure = f]
          PROVE  asset'.generation = asset.generation
      BY <1>1, <3>3 DEF AssetType
    <3>4. asset' = asset => Unfinished(asset.status) /\ asset'.generation = asset.generation
      BY <1>4
    <3> QED
      BY <2>2, <3>1, <3>2, <3>3, <3>4, NextAssetMoves DEF AssetMoves, Upload, AdmitProcessing
  <2>3. CASE ~\E u : ProcessingAdmitted(u)
    <3> DEFINE s == StageOf("processing", NoRepo, asset.generation)
    <3>1. PICK g : g = asset.generation
      OBVIOUS
    <3>2. PICK t : t = StageOf("processing", NoRepo, g)
      OBVIOUS
    <3>3. t \in StageType /\ t.stage = "processing" /\ t.repo = NoRepo /\ t.attempt = g
      BY <1>1, <3>1, <3>2 DEF StageOf, StageType, Stages, AnyRepo
    <3>4. HasJob(t)
      BY <2>2, <2>3, <3>1, <3>2 DEF UnfinishedHasJob
    <3>5. Current(t) /\ Current(t)'
      BY <1>4, <2>2, <2>3, <3>1, <3>3 DEF Current, CurrentProcessing
    <3> QED
      BY <1>3, <2>2, <2>3, <3>1, <3>3, <3>4, <3>5
  <2> QED
    BY <2>1, <2>3
<1>5. ASSUME NEW r \in Repos, asset'.status = "completed", Unfinished(link'[r].status),
             link'[r].embedding = embedding', embedding' # 0
      PROVE  \E j \in jobs' : j.stage = "indexing" /\ j.repo = r /\ j.attempt = link'[r].attempt
  <2>1. link[r] \in LinkType /\ embedding \in Nat /\ embedding' \in Nat /\ embedding' >= embedding
    BY <1>1, EmbeddingNat DEF TypeOK
  <2>2. r \in Linked => link[r].embedding <= embedding /\ link[r].embedding \in Nat
    BY <2>1 DEF JobsFit, EmbeddingsFit, LinkType
  <2>3. ASSUME NEW L \in SUBSET Repos, NEW owner, AdmittedWith(r, L, owner)
        PROVE  \E j \in jobs' : j.stage = "indexing" /\ j.repo = r /\ j.attempt = link'[r].attempt
    <3>1. link'[r].embedding = embedding /\ link'[r].attempt = sequence + 1
      BY <1>1, <2>3, AdmittedLink DEF AdmittedWith, Admission
    <3>2. Sent("indexing", r, sequence + 1, owner[r]) \in jobs'
      BY <1>5, <2>3, <3>1 DEF AdmittedWith, Admission, JobsAdmitted
    <3> QED
      BY <3>1, <3>2 DEF Sent
  <2>4. ASSUME ~(\E L \in SUBSET Repos : \E owner : AdmittedWith(r, L, owner))
        PROVE  \E j \in jobs' : j.stage = "indexing" /\ j.repo = r /\ j.attempt = link'[r].attempt
    <3>1. ~(\E u : ProcessingAdmitted(u))
      BY <1>5 DEF ProcessingAdmitted
    <3>2. link'[r] # Gone /\ link'[r] # NewLink
      BY <1>5 DEF Gone, NewLink, Unfinished
    <3>3. link'[r] = link[r] \/ GoesOn(r)
      BY <1>1, <2>4, <3>1, <3>2, NextLinkMoves DEF LinkMoves
    <3>4. /\ Unfinished(link[r].status) /\ r \in Linked
          /\ link'[r].attempt = link[r].attempt /\ link'[r].embedding = link[r].embedding
      BY <1>5, <2>1, <3>3 DEF GoesOn, Unfinished, Linked, LinkType
    <3>5. asset.status = "completed"
      <4>1. ASSUME NEW w \in Workers, Complete(w)
            PROVE  FALSE
        <5>1. PICK owner : Admission(Linked, owner)
          BY <1>1, <4>1, CompletionAdmits
        <5>2. AdmittedWith(r, Linked, owner) /\ Linked \in SUBSET Repos
          BY <3>4, <5>1 DEF AdmittedWith, Linked
        <5> QED
          BY <2>4, <5>2
      <4> QED
        BY <1>1, <1>5, <4>1, CompletedBy
    <3>6. link[r].embedding = embedding /\ embedding # 0 /\ embedding' = embedding
      BY <1>5, <2>1, <2>2, <3>4
    <3>7. HasJob(StageOf("indexing", r, link[r].attempt))
      BY <3>4, <3>5, <3>6 DEF UnfinishedHasJob
    <3>8. PICK a : a = link[r].attempt
      OBVIOUS
    <3>9. PICK t : t = StageOf("indexing", r, a)
      OBVIOUS
    <3>10. t \in StageType /\ t.stage = "indexing" /\ t.repo = r /\ t.attempt = a
      BY <2>1, <3>8, <3>9 DEF StageOf, StageType, Stages, AnyRepo, LinkType
    <3>11. Current(t) /\ Current(t)'
      BY <1>5, <3>4, <3>8, <3>10 DEF Current, CurrentIndexing
    <3> QED
      BY <1>3, <3>4, <3>6, <3>7, <3>8, <3>9, <3>10, <3>11
  <2> QED
    BY <2>3, <2>4
<1> QED
  BY <1>4, <1>5 DEF UnfinishedHasJob, HasJob, StageOf, Linked

\* There is nothing to do and nobody to do it.
LEMMA InitJobsFit ==
  ASSUME Init
  PROVE  JobsFit /\ UnfinishedHasJob
<1>1. JobsFit
  BY DEF Init, JobsFit, NoneBefore, EmbeddingsFit, Linked, Gone
<1>2. UnfinishedHasJob
  BY DEF Init, UnfinishedHasJob, Unfinished, Linked, Gone
<1> QED
  BY <1>1, <1>2

\* Links, jobs and deliveries agree on attempts, generations and embedding
\* generations, so a delivery that succeeds leaves nothing undone.
THEOREM JobsInvariant == Spec => []JobsFit
<1>1. Init => JobsFit /\ Completes
  BY InitJobsFit DEF Init, Completes, Idle
<1>2. FileInv /\ DeliveryStages /\ JobsFit /\ Completes /\ [Next]_vars => JobsFit' /\ Completes'
  <2>1. FileInv => TypeOK
    BY DEF FileInv
  <2> QED
    BY <2>1, NextJobsFit, NextCompletes
<1> QED
  BY <1>1, <1>2, FileInvariant, PTL DEF Spec

\* Where jobs do not vanish, whatever is unfinished has a job that will be
\* delivered, or given up and failed: the sweep has nothing to find.
THEOREM UnfinishedWork == Spec => []UnfinishedHasAJob
<1>1. CASE MayLose
  <2>1. UnfinishedHasAJob
    BY <1>1 DEF UnfinishedHasAJob
  <2> QED
    BY <2>1, PTL
<1>2. CASE ~MayLose
  <2>1. Init => UnfinishedHasJob
    BY InitJobsFit
  <2>2. FileInv /\ JobsFit /\ UnfinishedHasJob /\ [Next]_vars => UnfinishedHasJob'
    BY <1>2, NextUnfinished
  <2>3. UnfinishedHasJob => UnfinishedHasAJob
    BY DEF UnfinishedHasJob, UnfinishedHasAJob
  <2> QED
    BY <2>1, <2>2, <2>3, FileInvariant, JobsInvariant, PTL DEF Spec
<1> QED
  BY <1>1, <1>2

-----------------------------------------------------------------------------
(* Runs and work agree.                                                    *)

\* u waits for the target of s, a job, a delivery's job or a stage swept.
Pends(s, u) == Waits(s.stage, u) /\ (s.stage = "indexing" => run[u].bound = s.repo)

\* While s is current, nobody but u waits for it.
TellsOnly(s, u) == Current(s) => \A v \in Runs : Pends(s, v) => v = u

\* While j is current, its run waits for it, if the run still exists.
Owed(j) == Current(j) /\ j.run # NoRun /\ run[j.run].kind # "gone" => Pends(j, j.run)

\* A run that waits on a target waits alone, and the target is unfinished.
OneWaits ==
  \A u \in Runs :
    /\ Waits("processing", u) =>
         /\ Unfinished(asset.status)
         /\ \A v \in Runs : Waits("processing", v) => v = u
    /\ Waits("indexing", u) =>
         /\ run[u].bound \in Linked /\ asset.status = "completed"
         /\ Unfinished(link[run[u].bound].status)
         /\ \A v \in Runs : Waits("indexing", v) /\ run[v].bound = run[u].bound => v = u

\* A run that has not begun, or is gone, is bound to no repository.
UnboundRuns == \A u \in Runs : run[u].kind \in {"unused", "gone"} => run[u].bound = NoRepo

\* A save binds an upload's run that is bound to no other repository, and links
\* the asset where it is not linked.
SavingRun ==
  saving # NotSaving =>
    /\ saving.repo \notin Linked
    /\ saving.run # NoRun =>
         run[saving.run].kind = "upload" /\ run[saving.run].bound \in {NoRepo, saving.repo}

\* The sweep has no stage of a generation to come, and is about to tell the one
\* run that waits.
SweepFits ==
  /\ sweep # NotSweeping =>
       \A s \in sweep.stages : s.stage = "processing" => s.attempt <= asset.generation
  /\ sweep.phase = "failing" =>
       /\ sweep.stage.stage = "processing" => sweep.stage.attempt <= asset.generation
       /\ TellsOnly(sweep.stage, sweep.run)

JobsTell == \A j \in jobs : TellsOnly(j, j.run) /\ Owed(j)
DeliveriesTell == \A w \in Workers : worker[w] # Idle => TellsOnly(worker[w].job, worker[w].job.run)

AgreeInv == OneWaits /\ UnboundRuns /\ SavingRun /\ SweepFits /\ JobsTell /\ DeliveriesTell

\* What the invariants before say of runs and work.
Ground == FileInv /\ DeliveryStages /\ JobsFit /\ Completes /\ SavingSaw

\* The invariant is what was to be shown.
LEMMA AgreeIsAgreement ==
  ASSUME TypeOK, AgreeInv
  PROVE  RunsAgreeWithWork
<1>1. ASSUME NEW j \in jobs
      PROVE  j.stage \in Stages /\ j.run \in AnyRun /\ TellsOnly(j, j.run) /\ Owed(j)
  BY <1>1 DEF TypeOK, JobType, AgreeInv, JobsTell
<1>2. RunsWaitForTheirWork
  <2>1. ASSUME NEW u \in Runs, NEW j \in jobs, Current(j), Pends(j, u)
        PROVE  j.run = u
    BY <1>1, <2>1 DEF TellsOnly
  <2> QED
    BY <2>1 DEF RunsWaitForTheirWork, AgreeInv, OneWaits, Pends
<1>3. WorkIsWaitedFor
  BY <1>1 DEF WorkIsWaitedFor, Owed, Pends
<1> QED
  BY <1>2, <1>3 DEF RunsAgreeWithWork

\* What has a number that was drawn, of this or an earlier generation.
Numbered(s) == /\ s.stage \in Stages /\ Drew(s)
               /\ s.stage = "processing" => s.attempt <= asset.generation

\* What is current after a step was so before it.
LEMMA WasCurrent ==
  ASSUME TypeOK, [Next]_vars, NEW s, Numbered(s), Current(s)'
  PROVE  Current(s)
<1>1. CASE s.stage = "processing"
  BY <1>1, NotAgain DEF Current, Numbered
<1>2. CASE s.stage = "indexing"
  <2>1. OfLink(s)' /\ Unfinished(link'[s.repo].status)
    BY <1>2, CurrentOfLink
  <2>2. OfLink(s) /\ Unfinished(link[s.repo].status)
    BY <2>1, LinkLasts DEF Numbered
  <2> QED
    BY <1>2, <2>2, CurrentOfLink
<1> QED
  BY <1>1, <1>2 DEF Numbered, Stages

\* Jobs, deliveries and what the sweep has read are numbered.
LEMMA HeldNumbered ==
  ASSUME FileInv, JobsFit, SweepFits
  PROVE  /\ \A j \in jobs : Numbered(j)
         /\ \A w \in Workers : worker[w] # Idle => Numbered(worker[w].job)
         /\ sweep # NotSweeping => \A s \in sweep.stages : Numbered(s)
         /\ sweep.phase = "failing" => Numbered(sweep.stage)
<1>1. ASSUME NEW j \in jobs
      PROVE  Numbered(j)
  BY HeldDrew DEF FileInv, TypeOK, JobType, JobsFit, JobFits, Numbered
<1>2. ASSUME NEW w \in Workers, worker[w] # Idle
      PROVE  Numbered(worker[w].job)
  <2>1. worker[w].job \in JobType
    BY <1>2 DEF FileInv, TypeOK, Deliveries
  <2> QED
    BY <1>2, <2>1, HeldDrew DEF JobType, JobsFit, WorkerFits, JobFits, Numbered
<1>3. ASSUME NEW s \in StageType, s.stage = "indexing" => Claimed(s.repo, s.attempt)
      PROVE  s.stage \in Stages /\ Drew(s)
  BY <1>3 DEF Drew, StageType, Follows, FileInv, ClaimsFollow
<1>4. ASSUME sweep # NotSweeping, NEW s \in sweep.stages
      PROVE  Numbered(s)
  <2>1. s \in StageType
    BY <1>4 DEF FileInv, TypeOK, Sweeps
  <2>2. s.stage = "indexing" => Claimed(s.repo, s.attempt)
    BY <1>4 DEF Claimed, SweepClaims, Indexes
  <2> QED
    BY <1>3, <1>4, <2>1, <2>2 DEF Numbered, SweepFits
<1>5. ASSUME sweep.phase = "failing"
      PROVE  Numbered(sweep.stage)
  <2>1. sweep.stage \in StageType
    BY <1>5 DEF FileInv, TypeOK, Sweeps, NotSweeping
  <2>2. sweep.stage.stage = "indexing" => Claimed(sweep.stage.repo, sweep.stage.attempt)
    BY <1>5 DEF Claimed, SweepClaims, Indexes
  <2> QED
    BY <1>3, <1>5, <2>1, <2>2 DEF Numbered, SweepFits
<1> QED
  BY <1>1, <1>2, <1>4, <1>5

\* What a step may make of a run's wait for the file: it ends with the processing
\* or the run, goes on, or begins.
ProcessingMoves(v) ==
  \/ /\ ~Waits("processing", v)'
     /\ Waits("processing", v) => \/ run'[v].kind = "gone" \/ ~Unfinished(asset'.status)
                                  \/ \E x : ProcessingAdmitted(x)
  \/ Waits("processing", v) /\ Waits("processing", v)' /\ Unfinished(asset'.status)
  \/ ProcessingAdmitted(v)

\* And of its wait for a link.
IndexingMoves(v) ==
  \/ /\ ~Waits("indexing", v)'
     /\ Waits("indexing", v) =>
          \/ run'[v].kind = "gone" \/ ~Unfinished(link'[run[v].bound].status)
          \/ \E x : ProcessingAdmitted(x)
          \/ \E L \in SUBSET Repos : \E owner : AdmittedWith(run[v].bound, L, owner)
  \/ /\ Waits("indexing", v) /\ Waits("indexing", v)' /\ run'[v].bound = run[v].bound
     /\ asset'.status = "completed" /\ Unfinished(link'[run[v].bound].status)
  \/ /\ Waits("indexing", v) => run'[v].bound = run[v].bound
     /\ asset'.status = "completed" /\ embedding # 0
     /\ \E L \in SUBSET Repos : \E owner : /\ AdmittedWith(run'[v].bound, L, owner)
                                           /\ owner[run'[v].bound] = v

\* A run that is gone stays so.
RunMoves(v) == run[v].kind = "gone" => run'[v].kind = "gone"

Moves == \A v \in Runs : ProcessingMoves(v) /\ IndexingMoves(v) /\ RunMoves(v)

\* A step that ends no attempt and no run ends no wait.
LEMMA KeepMoves ==
  ASSUME OneWaits, member' = member, run' = run,
         Unfinished(asset.status) => Unfinished(asset'.status),
         asset.status = "completed" => asset'.status = "completed",
         \A r \in Linked : Unfinished(link[r].status) => Unfinished(link'[r].status)
  PROVE  Moves
<1> SUFFICES ASSUME NEW v \in Runs
             PROVE  ProcessingMoves(v) /\ IndexingMoves(v) /\ RunMoves(v)
  BY DEF Moves
<1>1. ProcessingMoves(v)
  BY DEF ProcessingMoves, OneWaits, Waits
<1>2. IndexingMoves(v)
  BY DEF IndexingMoves, OneWaits, Waits
<1> QED
  BY <1>1, <1>2 DEF RunMoves

\* A new generation takes the place of all other work.
LEMMA ProcessingAdmits ==
  ASSUME NEW x, ProcessingAdmitted(x), \A v \in Runs : RunMoves(v)
  PROVE  Moves
<1> SUFFICES ASSUME NEW v \in Runs
             PROVE  ProcessingMoves(v) /\ IndexingMoves(v)
  BY DEF Moves
<1>1. /\ member'["processing"][v] = IF v = x THEN "pending"
                                    ELSE IF member["processing"][v] = "pending" THEN "replaced"
                                    ELSE member["processing"][v]
      /\ member'["indexing"][v] # "pending"
  BY DEF ProcessingAdmitted, WithoutIndexing
<1>2. ProcessingMoves(v)
  BY <1>1 DEF ProcessingMoves, Waits
<1>3. IndexingMoves(v)
  BY <1>1 DEF IndexingMoves, Waits
<1> QED
  BY <1>2, <1>3

\* The admission of links leaves the waits for others as they are.
LEMMA AdmissionMoves ==
  ASSUME TypeOK, OneWaits, NEW L \in SUBSET Repos, NEW owner, Admission(L, owner),
         asset'.status = "completed", \A v \in Runs : ProcessingMoves(v) /\ RunMoves(v),
         \A v \in Runs : Waits("indexing", v) => run'[v].bound = run[v].bound
  PROVE  Moves
<1> SUFFICES ASSUME NEW v \in Runs
             PROVE  IndexingMoves(v)
  BY DEF Moves
<1> DEFINE b == run'[v].bound
<1>1. member'["indexing"][v] = IF b \notin L THEN member["indexing"][v]
                               ELSE IF embedding # 0 /\ owner[b] = v THEN "pending"
                               ELSE IF member["indexing"][v] = "pending" THEN "replaced"
                               ELSE member["indexing"][v]
  BY DEF Admission, MembersAdmitted
<1>2. \A r \in Repos \ L : link'[r] = link[r]
  BY AdmittedLink DEF Admission
<1>3. CASE b \notin L
  <2>1. Waits("indexing", v)' <=> Waits("indexing", v)
    BY <1>1, <1>3 DEF Waits
  <2>2. Waits("indexing", v) => Unfinished(link'[run[v].bound].status) /\ run'[v].bound = run[v].bound
    BY <1>2, <1>3 DEF OneWaits, Linked
  <2> QED
    BY <2>1, <2>2 DEF IndexingMoves
<1>4. CASE b \in L /\ embedding # 0 /\ owner[b] = v
  BY <1>4 DEF IndexingMoves, AdmittedWith
<1>5. CASE b \in L /\ ~(embedding # 0 /\ owner[b] = v)
  <2>1. ~Waits("indexing", v)'
    BY <1>1, <1>5 DEF Waits
  <2>2. Waits("indexing", v) => AdmittedWith(run[v].bound, L, owner)
    BY <1>5 DEF AdmittedWith
  <2> QED
    BY <2>1, <2>2 DEF IndexingMoves
<1> QED
  BY <1>3, <1>4, <1>5

\* What Settled leaves of the wait for s: the run told does not wait any more.
LEMMA SettledWaits ==
  ASSUME TypeOK, NEW s, s.stage \in Stages, NEW u \in AnyRun, NEW outcome \in {"completed", "failed"},
         NEW mem, mem = Settled(s.stage, s.repo, u, outcome), Current(s), TellsOnly(s, u)
  PROVE  \A v \in Runs :
           /\ mem[s.stage][v] = "pending" => ~Pends(s, v) /\ Waits(s.stage, v)
           /\ ~Pends(s, v) => mem[s.stage][v] = member[s.stage][v]
           /\ \A x \in Stages \ {s.stage} : mem[x][v] = member[x][v]
<1> SUFFICES ASSUME NEW v \in Runs
             PROVE  /\ mem[s.stage][v] = "pending" => ~Pends(s, v) /\ Waits(s.stage, v)
                    /\ ~Pends(s, v) => mem[s.stage][v] = member[s.stage][v]
                    /\ \A x \in Stages \ {s.stage} : mem[x][v] = member[x][v]
  OBVIOUS
<1>1. member \in [Stages -> [Runs -> Outcomes]]
  BY DEF TypeOK
<1>2. mem = IF u # NoRun /\ Pends(s, u) THEN [member EXCEPT ![s.stage][u] = outcome] ELSE member
  BY DEF Settled, Pends, Waits
<1>3. CASE u # NoRun /\ Pends(s, u)
  <2>1. u \in Runs
    BY <1>3 DEF AnyRun
  <2>2. /\ mem[s.stage][v] = IF v = u THEN outcome ELSE member[s.stage][v]
        /\ \A x \in Stages \ {s.stage} : mem[x][v] = member[x][v]
    BY <1>1, <1>2, <1>3, <2>1
  <2>3. Pends(s, v) => v = u
    BY DEF TellsOnly
  <2> QED
    BY <1>3, <2>2, <2>3 DEF Waits
<1>4. CASE ~(u # NoRun /\ Pends(s, u))
  <2>1. mem = member
    BY <1>2, <1>4
  <2>2. ~Pends(s, v)
    BY <1>4, PreparationAssumption DEF TellsOnly
  <2> QED
    BY <2>1, <2>2 DEF Waits
<1> QED
  BY <1>3, <1>4

\* When the attempt of s ends, the run that waits for it is told.
LEMMA EndMoves ==
  ASSUME TypeOK, OneWaits, NEW s, s.stage \in Stages, NEW u \in AnyRun,
         NEW outcome \in {"completed", "failed"}, Current(s), TellsOnly(s, u),
         member' = Settled(s.stage, s.repo, u, outcome), run' = run,
         s.stage = "processing" => link' = link /\ ~Unfinished(asset'.status),
         s.stage = "indexing" =>
           /\ asset' = asset /\ ~Unfinished(link'[s.repo].status)
           /\ \A r \in Repos \ {s.repo} : link'[r] = link[r]
  PROVE  Moves
<1> SUFFICES ASSUME NEW v \in Runs
             PROVE  ProcessingMoves(v) /\ IndexingMoves(v)
  BY DEF Moves, RunMoves
<1>1. PICK mem : mem = member'
  OBVIOUS
<1>2. /\ mem[s.stage][v] = "pending" => ~Pends(s, v) /\ Waits(s.stage, v)
      /\ ~Pends(s, v) => mem[s.stage][v] = member[s.stage][v]
      /\ \A x \in Stages \ {s.stage} : mem[x][v] = member[x][v]
  BY <1>1, SettledWaits
<1>3. CASE s.stage = "processing"
  <2>1. ~Waits("processing", v)'
    BY <1>1, <1>2, <1>3 DEF Waits, Pends
  <2>2. Unfinished(asset.status)
    BY <1>3 DEF Current, CurrentProcessing
  <2>3. ~Waits("indexing", v)
    BY <2>2 DEF OneWaits, Unfinished
  <2>4. ~Waits("indexing", v)'
    BY <1>1, <1>2, <1>3, <2>3 DEF Waits, Stages
  <2> QED
    BY <1>3, <2>1, <2>3, <2>4 DEF ProcessingMoves, IndexingMoves
<1>4. CASE s.stage = "indexing"
  <2>1. Waits("processing", v)' <=> Waits("processing", v)
    BY <1>1, <1>2, <1>4 DEF Waits, Stages
  <2>2. ProcessingMoves(v)
    BY <1>4, <2>1 DEF ProcessingMoves, OneWaits
  <2>3. CASE Pends(s, v)
    <3>1. ~Waits("indexing", v)' /\ run[v].bound = s.repo
      BY <1>1, <1>2, <1>4, <2>3 DEF Waits, Pends
    <3> QED
      BY <1>4, <2>2, <3>1 DEF IndexingMoves
  <2>4. CASE ~Pends(s, v)
    <3>1. Waits("indexing", v)' <=> Waits("indexing", v)
      BY <1>1, <1>2, <1>4, <2>4 DEF Waits
    <3>2. Waits("indexing", v) => /\ run[v].bound # s.repo /\ asset.status = "completed"
                                  /\ run[v].bound \in Repos /\ Unfinished(link[run[v].bound].status)
      BY <1>4, <2>4 DEF Pends, OneWaits, Linked
    <3>3. Waits("indexing", v) => Unfinished(link'[run[v].bound].status) /\ asset'.status = "completed"
      BY <1>4, <3>2
    <3> QED
      BY <2>2, <3>1, <3>3 DEF IndexingMoves
  <2> QED
    BY <2>3, <2>4
<1> QED
  BY <1>3, <1>4 DEF Stages

\* So it is where it fails.
LEMMA FailsMovesOn ==
  ASSUME TypeOK, OneWaits, NEW s, s.stage \in Stages, NEW u \in AnyRun, NEW f,
         Current(s), TellsOnly(s, u), Fails(s, u, f)
  PROVE  Moves
<1>1. member' = Settled(s.stage, s.repo, u, "failed") /\ run' = run
  BY DEF Fails
<1>2. CASE s.stage = "processing"
  <2>1. link' = link /\ ~Unfinished(asset'.status)
    BY <1>2 DEF Fails, TypeOK, AssetType, Unfinished
  <2> QED
    BY <1>1, <1>2, <2>1, EndMoves
<1>3. CASE s.stage = "indexing"
  <2>1. s.repo \in Repos
    BY <1>3 DEF Current, CurrentIndexing
  <2>2. /\ link' = [link EXCEPT ![s.repo].status = "failed", ![s.repo].failure = f]
        /\ asset' = asset /\ link \in [Repos -> LinkType]
    BY <1>3 DEF Fails, TypeOK
  <2>3. link'[s.repo].status = "failed" /\ \A r \in Repos \ {s.repo} : link'[r] = link[r]
    BY <2>1, <2>2 DEF LinkType
  <2> QED
    BY <1>1, <1>3, <2>2, <2>3, EndMoves DEF Unfinished
<1> QED
  BY <1>2, <1>3 DEF Stages

\* What an upload's row, its failed admission or a deleted account leaves of waits.
LEMMA AppMoves ==
  ASSUME Ground, AgreeInv, AppStep
  PROVE  Moves
<1>1. TypeOK /\ OneWaits /\ UnboundRuns
  BY DEF Ground, FileInv, AgreeInv
<1>2. member \in [Stages -> [Runs -> Outcomes]] /\ run \in [Runs -> RunType] /\ link \in [Repos -> LinkType]
  BY <1>1 DEF TypeOK
<1>3. ASSUME NEW u \in AnyRun, Uploading(u)
      PROVE  \A v \in Runs : RunMoves(v)
  BY <1>2, <1>3 DEF Uploading, Fresh, Started, RunMoves
<1>4. ASSUME NEW u \in AnyRun, Upload(u)
      PROVE  Moves
  BY <1>3, <1>4, ProcessingAdmits DEF Upload
<1>5. ASSUME NEW u \in AnyRun, UploadRefused(u)
      PROVE  Moves
  <2> SUFFICES ASSUME NEW v \in Runs
               PROVE  ProcessingMoves(v) /\ IndexingMoves(v)
    BY <1>3, <1>5 DEF Moves, UploadRefused
  <2>1. ~Waits("processing", v) /\ ~Waits("indexing", v)
    BY <1>1, <1>5 DEF OneWaits, UploadRefused, Unfinished
  <2>2. /\ member'["processing"][v] = IF v = u THEN "failed" ELSE member["processing"][v]
        /\ member'["indexing"][v] = member["indexing"][v]
    BY <1>2, <1>5 DEF UploadRefused, Stages
  <2>3. ~Waits("processing", v)' /\ ~Waits("indexing", v)'
    BY <2>1, <2>2 DEF Waits
  <2> QED
    BY <2>1, <2>3 DEF ProcessingMoves, IndexingMoves
<1>6. ASSUME NEW u \in Runs, DeleteAccount(u)
      PROVE  Moves
  <2> SUFFICES ASSUME NEW v \in Runs
               PROVE  ProcessingMoves(v) /\ IndexingMoves(v) /\ RunMoves(v)
    BY DEF Moves
  <2>1. run'[v] = IF v = u THEN [kind |-> "gone", bound |-> NoRepo] ELSE run[v]
    BY <1>2, <1>6 DEF DeleteAccount
  <2>2. \A s \in Stages : member'[s][v] = IF v = u THEN "none" ELSE member[s][v]
    BY <1>2, <1>6 DEF DeleteAccount
  <2>3. link' = link /\ asset' = asset
    BY <1>6 DEF DeleteAccount
  <2>4. CASE v = u
    BY <2>1, <2>2, <2>4 DEF ProcessingMoves, IndexingMoves, RunMoves, Waits, Stages
  <2>5. CASE v # u
    BY <1>1, <2>1, <2>2, <2>3, <2>5
       DEF ProcessingMoves, IndexingMoves, RunMoves, Waits, Stages, OneWaits
  <2> QED
    BY <2>4, <2>5
<1>7. ASSUME NEW r \in Repos, Unlink(r)
      PROVE  Moves
  <2> SUFFICES ASSUME NEW v \in Runs
               PROVE  ProcessingMoves(v) /\ IndexingMoves(v)
    BY <1>7 DEF Moves, RunMoves, Unlink
  <2>1. /\ member'["processing"][v] = member["processing"][v]
        /\ member'["indexing"][v] = IF run[v].bound = r /\ member["indexing"][v] = "pending"
                                    THEN "replaced" ELSE member["indexing"][v]
    BY <1>2, <1>7 DEF Unlink, Stages
  <2>2. link'[r].status = "none" /\ \A x \in Repos \ {r} : link'[x] = link[x]
    BY <1>2, <1>7 DEF Unlink, Gone
  <2>3. ProcessingMoves(v)
    BY <1>1, <1>7, <2>1 DEF Unlink, ProcessingMoves, Waits, OneWaits
  <2>4. CASE run[v].bound = r
    BY <2>1, <2>2, <2>3, <2>4 DEF IndexingMoves, Waits, Unfinished
  <2>5. CASE run[v].bound # r
    <3>1. Waits("indexing", v)' <=> Waits("indexing", v)
      BY <2>1, <2>5 DEF Waits
    <3>2. Waits("indexing", v) => /\ Unfinished(link'[run[v].bound].status)
                                  /\ run'[v] = run[v] /\ asset'.status = "completed"
      BY <1>1, <1>7, <2>2, <2>5 DEF OneWaits, Linked, Unlink
    <3> QED
      BY <2>3, <3>1, <3>2 DEF IndexingMoves
  <2> QED
    BY <2>4, <2>5
<1>8. ASSUME DeleteAsset
      PROVE  Moves
  <2> SUFFICES ASSUME NEW v \in Runs
               PROVE  ProcessingMoves(v) /\ IndexingMoves(v)
    BY <1>8 DEF Moves, RunMoves, DeleteAsset
  <2>1. ~Waits("processing", v)' /\ ~Waits("indexing", v)'
    BY <1>8 DEF DeleteAsset, Waits, Stages
  <2>2. ~Unfinished(asset'.status) /\ \A r \in Repos : ~Unfinished(link'[r].status)
    BY <1>1, <1>8 DEF DeleteAsset, Unfinished, Gone, TypeOK, AssetType
  <2>3. Waits("indexing", v) => run[v].bound \in Repos
    BY <1>1 DEF OneWaits, Linked
  <2> QED
    BY <2>1, <2>2, <2>3 DEF ProcessingMoves, IndexingMoves
<1>9. ASSUME \/ \E r \in Repos, u \in AnyRun : SaveLink(r, u)
             \/ SaveReads \/ SaveAborts \/ StartEmbedding
      PROVE  Moves
  <2>1. UNCHANGED <<asset, link, run, member>>
    BY <1>9 DEF SaveLink, SaveReads, SaveAborts, StartEmbedding, rows
  <2> QED
    BY <1>1, <2>1, KeepMoves
<1>10. ASSUME SaveCommits
       PROVE  Moves
  <2> DEFINE r == saving.repo  u == saving.run
             bound == [v \in Runs |-> IF v = u THEN r ELSE run[v].bound]
  <2>1. saving \in Savings /\ saving # NotSaving /\ saving.phase = "read"
    BY <1>1, <1>10 DEF SaveCommits, NotSaving, TypeOK
  <2>2. r \in Repos /\ u \in AnyRun
    BY <2>1 DEF Savings
  <2>3. run' = [v \in Runs |-> [run[v] EXCEPT !.bound = bound[v]]] /\ asset' = asset
    BY <1>10 DEF SaveCommits
  <2>4. \A v \in Runs : run'[v].kind = run[v].kind /\ run'[v].bound = bound[v]
    BY <1>2, <2>3 DEF RunType
  <2>5. \A v \in Runs : Waits("indexing", v) => run'[v].bound = run[v].bound
    <3> SUFFICES ASSUME NEW v \in Runs, Waits("indexing", v), v = u
                 PROVE  FALSE
      BY <2>4
    <3>1. run[v].bound \in Linked
      BY <1>1 DEF OneWaits
    <3>2. r \notin Linked /\ run[v].bound \in {NoRepo, r}
      BY <2>1, PreparationAssumption DEF AgreeInv, SavingRun
    <3> QED
      BY <3>1, <3>2, PreparationAssumption DEF Linked
  <2>6. member'["processing"] = member["processing"]
    BY <1>2, <1>10 DEF SaveCommits, Stages
  <2>7. \A v \in Runs : ProcessingMoves(v) /\ RunMoves(v)
    BY <1>1, <2>3, <2>4, <2>6 DEF ProcessingMoves, RunMoves, Waits, OneWaits
  <2>8. CASE saving.saw = "completed"
    <3>1. asset'.status = "completed"
      BY <2>1, <2>3, <2>8 DEF Ground, FileInv, SavingReads
    <3>2. PICK owner : Admission({r}, owner)
      BY <1>1, <1>10, <2>8, SaveAdmits
    <3> QED
      BY <1>1, <2>2, <2>5, <2>7, <3>1, <3>2, AdmissionMoves
  <2>9. CASE saving.saw # "completed"
    <3>1. asset.status # "completed"
      BY <2>1, <2>9 DEF Ground, SavingSaw
    <3>2. member' = member
      BY <1>10, <2>9 DEF SaveCommits
    <3> QED
      BY <1>1, <2>7, <3>1, <3>2 DEF Moves, IndexingMoves, OneWaits, Waits
  <2> QED
    BY <2>8, <2>9
<1> QED
  BY <1>4, <1>5, <1>6, <1>7, <1>8, <1>9, <1>10 DEF AppStep

\* What a request leaves of waits.
LEMMA RequestMoves ==
  ASSUME Ground, AgreeInv, NEW q \in Requests, RequestStep(q)
  PROVE  Moves
<1>1. TypeOK /\ OneWaits /\ UnboundRuns
  BY DEF Ground, FileInv, AgreeInv
<1>2. run \in [Runs -> RunType] /\ member \in [Stages -> [Runs -> Outcomes]]
  BY <1>1 DEF TypeOK
<1>3. ASSUME NEW u \in Runs, AdmitProcessing(q, u)
      PROVE  Moves
  <2>1. \A v \in Runs : RunMoves(v)
    BY <1>2, <1>3 DEF AdmitProcessing, Fresh, Started, RunMoves
  <2> QED
    BY <1>3, <2>1, ProcessingAdmits DEF AdmitProcessing
<1>4. ASSUME NEW u \in AnyRun, AdmitIndexing(q, u)
      PROVE  Moves
  <2> DEFINE L == SeenLinks(q)  owner == [r \in L |-> u]
  <2>1. Admission(L, owner) /\ L \in SUBSET Repos
    BY <1>1, <1>4, RequestAdmits DEF SeenLinks, Linked
  <2>2. \A v \in Runs : RunMoves(v) /\ (Waits("indexing", v) => run'[v].bound = run[v].bound)
    <3> SUFFICES ASSUME NEW v \in Runs
                 PROVE  RunMoves(v) /\ (Waits("indexing", v) => run'[v].bound = run[v].bound)
      OBVIOUS
    <3>1. CASE run' = run
      BY <3>1 DEF RunMoves
    <3>2. CASE run' # run
      <4>1. PICK b : Fresh(u) /\ u \in Runs /\ Started(u, "retry", b)
        BY <1>4, <3>2 DEF AdmitIndexing
      <4>2. CASE v = u
        <5>1. run[v].bound = NoRepo /\ run[v].kind = "unused"
          BY <1>1, <4>1, <4>2 DEF Fresh, UnboundRuns
        <5>2. ~Waits("indexing", v)
          BY <1>1, <5>1, PreparationAssumption DEF OneWaits, Linked
        <5> QED
          BY <5>1, <5>2 DEF RunMoves
      <4>3. CASE v # u
        BY <1>2, <4>1, <4>3 DEF Started, RunMoves
      <4> QED
        BY <4>2, <4>3
    <3> QED
      BY <3>1, <3>2
  <2>3. asset' = asset /\ member'["processing"] = member["processing"]
    BY <1>2, <1>4 DEF AdmitIndexing, Stages
  <2>4. \A v \in Runs : ProcessingMoves(v)
    BY <1>1, <2>3 DEF ProcessingMoves, OneWaits, Waits
  <2>5. asset'.status = "completed"
    <3>1. PICK r \in L : r \in Linked
      BY <1>4 DEF AdmitIndexing, SeenLinks
    <3>2. /\ [repo |-> r, attempt |-> link[r].attempt] \in request[q].links
          /\ request[q].stage = "indexing" /\ request[q] # NoRequest
      BY <1>4, <3>1 DEF AdmitIndexing, SeenLinks, NoRequest
    <3>3. r \in Repos /\ link[r].attempt \in Nat
      BY <1>1, <3>1 DEF Linked, TypeOK, LinkType
    <3>4. Claimed(r, link[r].attempt)
      BY <3>2 DEF Claimed, RequestClaims
    <3>5. asset.status = "completed"
      BY <3>1, <3>3, <3>4 DEF Ground, FileInv, ClaimsFollow, Follows
    <3> QED
      BY <2>3, <3>5
  <2> QED
    BY <1>1, <2>1, <2>2, <2>4, <2>5, AdmissionMoves
<1>5. ASSUME (\E x \in AnyRepo : AskAgain(q, x)) \/ AskFailed(q) \/ AskReconcile(q) \/ Refuse(q)
      PROVE  Moves
  <2>1. UNCHANGED <<asset, link, run, member>>
    BY <1>5 DEF AskAgain, AskFailed, AskReconcile, Asks, Refuse, rows
  <2> QED
    BY <1>1, <2>1, KeepMoves
<1> QED
  BY <1>3, <1>4, <1>5 DEF RequestStep

\* What the queue and the sweep leave of waits.
LEMMA QueueMoves ==
  ASSUME Ground, AgreeInv, QueueStep \/ Sweep
  PROVE  Moves
<1>1. TypeOK /\ OneWaits
  BY DEF Ground, FileInv, AgreeInv
<1>2. ASSUME UNCHANGED <<asset, link, run, member>>
      PROVE  Moves
  BY <1>1, <1>2, KeepMoves
<1>3. ASSUME NEW j \in jobs, Exhausted(j)
      PROVE  Moves
  <2>1. j.stage \in Stages /\ j.run \in AnyRun /\ TellsOnly(j, j.run)
    BY <1>1 DEF TypeOK, JobType, AgreeInv, JobsTell
  <2>2. CASE Current(j)
    <3>1. Fails(j, j.run, "again")
      BY <1>3, <2>2 DEF Exhausted
    <3> QED
      BY <1>1, <2>1, <2>2, <3>1, FailsMovesOn
  <2>3. CASE ~Current(j)
    BY <1>2, <1>3, <2>3 DEF Exhausted, rows
  <2> QED
    BY <2>2, <2>3
<1>4. ASSUME SweepFails
      PROVE  Moves
  <2>1. sweep \in Sweeps /\ sweep.phase = "failing"
    BY <1>1, <1>4 DEF SweepFails, TypeOK, NotSweeping
  <2>2. /\ sweep.stage.stage \in Stages /\ sweep.run \in AnyRun
        /\ TellsOnly(sweep.stage, sweep.run)
    BY <2>1 DEF Sweeps, StageType, AgreeInv, SweepFits
  <2>3. CASE Current(sweep.stage)
    <3>1. Fails(sweep.stage, sweep.run, "again")
      BY <1>4, <2>3 DEF SweepFails, StillStranded
    <3> QED
      BY <1>1, <2>2, <2>3, <3>1, FailsMovesOn
  <2>4. CASE ~Current(sweep.stage)
    BY <1>2, <1>4, <2>4 DEF SweepFails, StillStranded, rows
  <2> QED
    BY <2>3, <2>4
<1>5. ASSUME (\E j \in jobs : Expire(j) \/ Vanish(j))
             \/ SweepReads \/ SweepReadsJobs \/ \E s \in sweep.stages : SweepReadsRun(s)
      PROVE  Moves
  <2>1. UNCHANGED <<asset, link, run, member>>
    BY <1>5 DEF Expire, Vanish, SweepReads, SweepReadsJobs, SweepReadsRun, rows
  <2> QED
    BY <1>2, <2>1
<1> QED
  BY <1>3, <1>4, <1>5 DEF QueueStep, Sweep

\* What a delivery leaves of waits.
LEMMA DeliveryMoves ==
  ASSUME Ground, AgreeInv, NEW w \in Workers, Delivery(w)
  PROVE  Moves
<1>1. TypeOK /\ OneWaits
  BY DEF Ground, FileInv, AgreeInv
<1>2. ASSUME UNCHANGED <<asset, link, run, member>>
      PROVE  Moves
  BY <1>1, <1>2, KeepMoves
<1>3. ASSUME worker[w] # Idle
      PROVE  Job(w).stage \in Stages /\ Job(w).run \in AnyRun /\ TellsOnly(Job(w), Job(w).run)
  <2>1. worker[w] \in Deliveries
    BY <1>1, <1>3 DEF TypeOK
  <2> QED
    BY <1>3, <2>1 DEF Deliveries, JobType, AgreeInv, DeliveriesTell, Job
<1>4. ASSUME Complete(w)
      PROVE  Moves
  <2>1. worker[w] # Idle /\ worker[w].phase = "completing"
    BY <1>4 DEF Complete, At, Idle
  <2>2. PICK s : s = Job(w)
    OBVIOUS
  <2>3. s.stage = "processing" /\ CurrentProcessing(s)
    BY <2>1, <2>2 DEF Ground, Completes, JobsFit, WorkerFits, AtFile, Job
  <2>4. Current(s) /\ s.run \in AnyRun /\ TellsOnly(s, s.run) /\ s.stage \in Stages
    BY <1>3, <2>1, <2>2, <2>3 DEF Current
  <2>5. PICK mem : mem = Settled("processing", NoRepo, s.run, "completed")
    OBVIOUS
  <2>6. mem = Settled(s.stage, s.repo, s.run, "completed")
    BY <2>3, <2>5 DEF Settled
  <2>7. \A v \in Runs : mem["processing"][v] # "pending"
    BY <1>1, <2>3, <2>4, <2>6, SettledWaits DEF Pends
  <2>8. mem \in [Stages -> [Runs -> Outcomes]]
    BY <1>1, <2>4, <2>5, SettledType DEF Stages, Outcomes
  <2>9. PICK m : member' = [mem EXCEPT !["indexing"] = m]
    BY <1>4, <2>2, <2>5 DEF Complete
  <2>10. \A v \in Runs : ~Waits("processing", v)'
    BY <2>7, <2>8, <2>9 DEF Waits, Stages
  <2>11. asset'.status = "completed" /\ run' = run
    BY <1>1, <1>4 DEF Complete, TypeOK, AssetType
  <2>12. \A v \in Runs : ProcessingMoves(v) /\ RunMoves(v)
    BY <2>10, <2>11 DEF ProcessingMoves, RunMoves, Unfinished
  <2>13. PICK owner : Admission(Linked, owner)
    BY <1>1, <1>4, CompletionAdmits
  <2>14. Linked \in SUBSET Repos
    BY DEF Linked
  <2> QED
    BY <1>1, <2>11, <2>12, <2>13, <2>14, AdmissionMoves
<1>5. ASSUME NEW f \in Failures, FailFinally(w, f)
      PROVE  Moves
  <2>1. worker[w] # Idle
    BY <1>5 DEF FailFinally, At, Idle
  <2>2. CASE Current(Job(w))
    <3>1. Fails(Job(w), Job(w).run, f)
      BY <1>5, <2>2 DEF FailFinally
    <3> QED
      BY <1>1, <1>3, <2>1, <2>2, <3>1, FailsMovesOn
  <2>3. CASE ~Current(Job(w))
    BY <1>2, <1>5, <2>3 DEF FailFinally, rows
  <2> QED
    BY <2>2, <2>3
<1>6. ASSUME CompleteLink(w)
      PROVE  Moves
  <2>1. worker[w] # Idle /\ worker[w].phase = "indexing"
    BY <1>6 DEF CompleteLink, At, Idle
  <2>2. PICK s : s = Job(w)
    OBVIOUS
  <2>3. s.stage = "indexing" /\ s.run \in AnyRun /\ TellsOnly(s, s.run) /\ s.stage \in Stages
    BY <1>3, <2>1, <2>2 DEF Ground, DeliveryStages, Job
  <2>4. CASE CurrentIndexing(s) /\ embedding = worker[w].embedding
    <3>1. /\ link' = [link EXCEPT ![s.repo].status = "completed", ![s.repo].failure = "none"]
          /\ member' = Settled(s.stage, s.repo, s.run, "completed")
          /\ asset' = asset /\ run' = run
      BY <1>6, <2>2, <2>3, <2>4 DEF CompleteLink
    <3>2. Current(s) /\ s.repo \in Repos /\ link \in [Repos -> LinkType]
      BY <1>1, <2>3, <2>4 DEF Current, CurrentIndexing, TypeOK
    <3>3. link'[s.repo].status = "completed" /\ \A r \in Repos \ {s.repo} : link'[r] = link[r]
      BY <3>1, <3>2 DEF LinkType
    <3> QED
      BY <1>1, <2>3, <3>1, <3>2, <3>3, EndMoves DEF Unfinished
  <2>5. CASE ~(CurrentIndexing(s) /\ embedding = worker[w].embedding)
    BY <1>2, <1>6, <2>2, <2>5 DEF CompleteLink
  <2> QED
    BY <2>4, <2>5
<1>7. ASSUME Claim(w)
      PROVE  Moves
  <2>1. UNCHANGED <<link, run, member>>
    BY <1>7 DEF Claim
  <2>2. CASE asset' = asset
    BY <1>2, <2>1, <2>2
  <2>3. CASE asset' # asset
    <3>1. Unfinished(asset.status) /\ asset'.status = "active"
      BY <1>1, <1>7, <2>3 DEF Claim, CurrentProcessing, TypeOK, AssetType
    <3> QED
      BY <1>1, <2>1, <3>1, KeepMoves DEF Unfinished
  <2> QED
    BY <2>2, <2>3
<1>8. ASSUME ClaimLink(w)
      PROVE  Moves
  <2>1. UNCHANGED <<asset, run, member>>
    BY <1>8 DEF ClaimLink
  <2>2. CASE link' = link
    BY <1>2, <2>1, <2>2
  <2>3. CASE link' # link
    <3>1. link' = [link EXCEPT ![Job(w).repo].status = "active", ![Job(w).repo].failure = "none"]
      BY <1>8, <2>3 DEF ClaimLink
    <3>2. \A r \in Repos : Unfinished(link[r].status) => Unfinished(link'[r].status)
      BY <1>1, <3>1 DEF TypeOK, LinkType, Unfinished
    <3> QED
      BY <1>1, <2>1, <3>2, KeepMoves DEF Linked
  <2> QED
    BY <2>2, <2>3
<1>9. ASSUME \/ Clear(w) \/ BeginWrite(w) \/ EndWrite(w) \/ BeginCompletion(w)
             \/ CompletionFails(w) \/ CheckAsset(w) \/ ReadExtraction(w) \/ FailTransient(w)
             \/ (\E j \in jobs : Fetch(w, j)) \/ Report(w) \/ Crash(w)
      PROVE  Moves
  <2>1. UNCHANGED <<asset, link, run, member>>
    BY <1>9 DEF Clear, BeginWrite, EndWrite, BeginCompletion, CompletionFails, CheckAsset,
                ReadExtraction, FailTransient, Fetch, Report, Crash, rows
  <2> QED
    BY <1>2, <2>1
<1> QED
  BY <1>4, <1>5, <1>6, <1>7, <1>8, <1>9 DEF Delivery, Handle

\* Every step does to waits no more than Moves says.
LEMMA NextMoves ==
  ASSUME Ground, AgreeInv, [Next]_vars
  PROVE  Moves
<1>1. CASE UNCHANGED vars
  BY <1>1, KeepMoves DEF vars, AgreeInv
<1> QED
  BY <1>1, AppMoves, RequestMoves, QueueMoves, DeliveryMoves DEF Next

\* Who waits after a step waits alone, for what is unfinished.
LEMMA NextWaits ==
  ASSUME Ground, AgreeInv, Moves, [Next]_vars
  PROVE  OneWaits'
<1>1. TypeOK /\ OneWaits
  BY DEF Ground, FileInv, AgreeInv
<1>2. ASSUME NEW u \in Runs, Waits("processing", u)'
      PROVE  /\ Unfinished(asset'.status)
             /\ \A v \in Runs : Waits("processing", v)' => v = u
  <2>1. ASSUME NEW x, ProcessingAdmitted(x)
        PROVE  /\ Unfinished(asset'.status)
               /\ \A v \in Runs : Waits("processing", v)' => v = x
    BY <2>1 DEF ProcessingAdmitted, Unfinished, Waits
  <2>2. CASE \E x : ProcessingAdmitted(x)
    BY <1>2, <2>1, <2>2
  <2>3. CASE ~\E x : ProcessingAdmitted(x)
    BY <1>1, <1>2, <2>3 DEF Moves, ProcessingMoves, OneWaits
  <2> QED
    BY <2>2, <2>3
<1>3. ASSUME NEW u \in Runs, NEW L \in SUBSET Repos, NEW owner, AdmittedWith(run'[u].bound, L, owner),
             Waits("indexing", u)'
      PROVE  owner[run'[u].bound] = u
  BY <1>3 DEF AdmittedWith, Admission, MembersAdmitted, Waits
<1>4. ASSUME NEW u \in Runs, NEW L \in SUBSET Repos, NEW owner, AdmittedWith(run'[u].bound, L, owner)
      PROVE  run'[u].bound \in Repos /\ link'[run'[u].bound].status = "pending"
  BY <1>1, <1>4, AdmittedLink DEF AdmittedWith, Admission
<1>5. ASSUME NEW u \in Runs, Waits("indexing", u)'
      PROVE  /\ run'[u].bound \in Linked' /\ asset'.status = "completed"
             /\ Unfinished(link'[run'[u].bound].status)
  BY <1>1, <1>4, <1>5 DEF Moves, IndexingMoves, OneWaits, Linked, Unfinished
<1>6. ASSUME NEW u \in Runs, NEW v \in Runs, Waits("indexing", u)', Waits("indexing", v)',
             run'[v].bound = run'[u].bound
      PROVE  v = u
  <2>1. CASE \E L \in SUBSET Repos : \E owner : AdmittedWith(run'[u].bound, L, owner)
    <3>1. PICK L \in SUBSET Repos : \E owner : AdmittedWith(run'[u].bound, L, owner)
      BY <2>1
    <3>2. PICK owner : AdmittedWith(run'[u].bound, L, owner)
      BY <3>1
    <3> QED
      BY <1>3, <1>6, <3>2
  <2>2. CASE ~\E L \in SUBSET Repos : \E owner : AdmittedWith(run'[u].bound, L, owner)
    <3>1. \A x \in {u, v} : Waits("indexing", x) /\ run'[x].bound = run[x].bound
      BY <1>6, <2>2 DEF Moves, IndexingMoves
    <3> QED
      BY <1>1, <1>6, <3>1 DEF OneWaits
  <2> QED
    BY <2>1, <2>2
<1> QED
  BY <1>2, <1>5, <1>6 DEF OneWaits

\* A new generation and an admission leave nothing current that was drawn before.
LEMMA NewIsNot ==
  ASSUME TypeOK, NEW s, Numbered(s)
  PROVE  /\ s.stage = "processing" /\ (\E x : ProcessingAdmitted(x)) => ~(Current(s)')
         /\ s.stage = "indexing" /\ Current(s) /\ (\E x : ProcessingAdmitted(x)) => ~(Current(s)')
         /\ s.stage = "indexing" /\ (\E L \in SUBSET Repos : \E owner : AdmittedWith(s.repo, L, owner))
              => ~(Current(s)')
<1>1. asset.generation \in Nat /\ sequence \in Nat
  BY DEF TypeOK, AssetType
<1>2. ASSUME NEW x, ProcessingAdmitted(x), s.stage = "processing"
      PROVE  ~(Current(s)')
  BY <1>1, <1>2 DEF ProcessingAdmitted, Numbered, Drew, Current, CurrentProcessing
<1>3. ASSUME NEW x, ProcessingAdmitted(x), s.stage = "indexing", Current(s)
      PROVE  ~(Current(s)')
  <2>1. s.repo \in Linked /\ s.repo \in Repos
    BY <1>3 DEF Current, CurrentIndexing, Linked, Unfinished
  <2>2. link'[s.repo] = [link[s.repo] EXCEPT !.status = "pending", !.failure = "none",
                                             !.attempt = sequence + 1]
    BY <1>3, <2>1, WaitingLink
  <2>3. link[s.repo] \in LinkType
    BY <2>1 DEF TypeOK
  <2>4. link'[s.repo].attempt = sequence + 1
    BY <2>2, <2>3 DEF LinkType
  <2> QED
    BY <1>1, <1>3, <2>1, <2>4 DEF Numbered, Drew, Current, CurrentIndexing
<1>4. ASSUME NEW L \in SUBSET Repos, NEW owner, AdmittedWith(s.repo, L, owner), s.stage = "indexing"
      PROVE  ~(Current(s)')
  <2>1. s.repo \in Repos /\ link'[s.repo].attempt = sequence + 1
    BY <1>4, AdmittedLink DEF AdmittedWith, Admission
  <2> QED
    BY <1>1, <1>4, <2>1 DEF Numbered, Drew, Current, CurrentIndexing
<1> QED
  BY <1>2, <1>3, <1>4

\* Whoever is to be told stays the only one who waits, and the run owed the end of
\* what is current waits on.
LEMMA TellsStay ==
  ASSUME Ground, AgreeInv, Moves, [Next]_vars, NEW s, Numbered(s), NEW u
  PROVE  /\ TellsOnly(s, u) => TellsOnly(s, u)'
         /\ s.run \in AnyRun /\ Owed(s) => Owed(s)'
<1>1. TypeOK /\ OneWaits
  BY DEF Ground, FileInv, AgreeInv
<1> SUFFICES ASSUME Current(s)'
             PROVE  /\ TellsOnly(s, u) => TellsOnly(s, u)'
                    /\ s.run \in AnyRun /\ Owed(s) => Owed(s)'
  BY DEF TellsOnly, Owed
<1>2. Current(s) /\ s.stage \in Stages
  BY <1>1, WasCurrent DEF Numbered
<1>3. CASE s.stage = "processing"
  <2>1. ~\E x : ProcessingAdmitted(x)
    BY <1>1, <1>3, NewIsNot
  <2>2. Unfinished(asset'.status)
    BY <1>3 DEF Current, CurrentProcessing
  <2>3. ASSUME NEW v \in Runs
        PROVE  /\ Pends(s, v)' => Pends(s, v)
               /\ Pends(s, v) /\ run'[v].kind # "gone" => Pends(s, v)'
               /\ RunMoves(v)
    BY <1>3, <2>1, <2>2 DEF Moves, ProcessingMoves, Pends
  <2> QED
    BY <1>2, <2>3 DEF TellsOnly, Owed, RunMoves, AnyRun
<1>4. CASE s.stage = "indexing"
  <2>1. /\ ~\E x : ProcessingAdmitted(x)
        /\ ~\E L \in SUBSET Repos : \E owner : AdmittedWith(s.repo, L, owner)
    BY <1>1, <1>2, <1>4, NewIsNot
  <2>2. Unfinished(link'[s.repo].status)
    BY <1>4 DEF Current, CurrentIndexing
  <2>3. ASSUME NEW v \in Runs
        PROVE  /\ Pends(s, v)' => Pends(s, v)
               /\ Pends(s, v) /\ run'[v].kind # "gone" => Pends(s, v)'
               /\ RunMoves(v)
    BY <1>4, <2>1, <2>2 DEF Moves, IndexingMoves, Pends
  <2> QED
    BY <1>2, <2>3 DEF TellsOnly, Owed, RunMoves, AnyRun
<1> QED
  BY <1>2, <1>3, <1>4 DEF Stages

\* The jobs that a step adds are their runs'.
LEMMA NewJobsTell ==
  ASSUME TypeOK, NEW j, NewProcessing(j) \/ NewIndexing(j)
  PROVE  TellsOnly(j, j.run)' /\ Owed(j)'
<1>1. ASSUME NewProcessing(j)
      PROVE  TellsOnly(j, j.run)' /\ Owed(j)'
  <2>1. PICK u \in AnyRun : /\ ProcessingAdmitted(u)
                            /\ j = Sent("processing", NoRepo, asset.generation + 1, u)
    BY <1>1 DEF NewProcessing
  <2>2. j.stage = "processing" /\ j.run = u
    BY <2>1 DEF Sent
  <2>3. \A v \in Runs : Waits("processing", v)' <=> v = u
    BY <2>1 DEF ProcessingAdmitted, Waits
  <2> QED
    BY <2>1, <2>2, <2>3 DEF TellsOnly, Owed, Pends, AnyRun
<1>2. ASSUME NewIndexing(j)
      PROVE  TellsOnly(j, j.run)' /\ Owed(j)'
  <2>1. PICK L \in SUBSET Repos : \E owner : \E r \in L :
           /\ AdmittedWith(r, L, owner) /\ embedding # 0
           /\ j = Sent("indexing", r, sequence + 1, owner[r])
    BY <1>2 DEF NewIndexing
  <2>2. PICK owner : \E r \in L :
           /\ AdmittedWith(r, L, owner) /\ embedding # 0
           /\ j = Sent("indexing", r, sequence + 1, owner[r])
    BY <2>1
  <2>3. PICK r \in L : /\ AdmittedWith(r, L, owner) /\ embedding # 0
                       /\ j = Sent("indexing", r, sequence + 1, owner[r])
    BY <2>2
  <2>4. j.stage = "indexing" /\ j.repo = r /\ j.run = owner[r]
    BY <2>3 DEF Sent
  <2>5. \A v \in Runs : run'[v].bound = r => (Waits("indexing", v)' <=> owner[r] = v)
    BY <2>3 DEF AdmittedWith, Admission, MembersAdmitted, Waits
  <2>6. owner[r] # NoRun => owner[r] \in Runs /\ run'[owner[r]].bound = r
    BY <2>3 DEF AdmittedWith, Admission
  <2> QED
    BY <2>4, <2>5, <2>6 DEF TellsOnly, Owed, Pends
<1> QED
  BY <1>1, <1>2

\* Two jobs for one attempt, as one run's work, stand and fall together.
LEMMA SameTells ==
  ASSUME NEW i, NEW j, SameWork(i, j)
  PROVE  /\ TellsOnly(i, i.run)' => TellsOnly(j, j.run)'
         /\ Owed(i)' => Owed(j)'
BY DEF SameWork, TellsOnly, Owed, Pends, Current, CurrentProcessing, CurrentIndexing

\* Jobs and deliveries tell their runs.
LEMMA NextTells ==
  ASSUME Ground, AgreeInv, Moves, [Next]_vars
  PROVE  JobsTell' /\ DeliveriesTell'
<1>1. TypeOK /\ FileInv /\ JobsFit /\ SweepFits
  BY DEF Ground, FileInv, AgreeInv
<1>2. ASSUME NEW i \in jobs
      PROVE  TellsOnly(i, i.run)' /\ Owed(i)'
  <2>1. Numbered(i) /\ i.run \in AnyRun
    BY <1>1, HeldNumbered DEF TypeOK, JobType
  <2> QED
    BY <2>1, TellsStay DEF AgreeInv, JobsTell
<1>3. ASSUME NEW j \in jobs'
      PROVE  TellsOnly(j, j.run)' /\ Owed(j)'
  <2>1. CASE \E i \in jobs : SameWork(i, j)
    BY <1>2, <2>1, SameTells
  <2>2. CASE NewProcessing(j) \/ NewIndexing(j)
    BY <1>1, <2>2, NewJobsTell
  <2> QED
    BY <1>1, <2>1, <2>2, NextJobsFrom DEF JobsFrom
<1>4. ASSUME NEW w \in Workers, worker'[w] # Idle
      PROVE  TellsOnly(worker[w].job, worker[w].job.run)'
  <2>1. PICK j : j = worker'[w].job
    OBVIOUS
  <2>2. CASE worker[w] # Idle /\ worker'[w].job = worker[w].job
    <3>1. Numbered(j) /\ TellsOnly(j, j.run)
      BY <1>1, <2>1, <2>2, HeldNumbered DEF AgreeInv, DeliveriesTell
    <3>2. TellsOnly(j, j.run)'
      BY <3>1, TellsStay
    <3> QED
      BY <2>1, <3>2
  <2>3. CASE \E i \in jobs : SameWork(i, j)
    <3>1. TellsOnly(j, j.run)'
      BY <1>2, <2>3, SameTells
    <3> QED
      BY <2>1, <3>1
  <2> QED
    BY <1>1, <1>4, <2>1, <2>2, <2>3, NextWorkersFrom DEF WorkersFrom
<1> QED
  BY <1>3, <1>4 DEF JobsTell, DeliveriesTell

\* Only starting work, a save's commit and a deleted account change a run.
RunsMove ==
  \/ run' = run
  \/ \E u \in Runs, k \in {"upload", "retry"}, b \in AnyRepo : Fresh(u) /\ Started(u, k, b)
  \/ SaveCommits
  \/ \E u \in Runs : DeleteAccount(u)

\* A step does to runs no more than that.
LEMMA NextRuns ==
  ASSUME TypeOK, [Next]_vars
  PROVE  RunsMove
<1>1. ASSUME NEW u \in AnyRun, Uploading(u)
      PROVE  RunsMove
  <2>1. CASE u = NoRun
    BY <1>1, <2>1 DEF Uploading, RunsMove
  <2>2. CASE u # NoRun
    <3>1. u \in Runs /\ Fresh(u) /\ Started(u, "upload", NoRepo) /\ NoRepo \in AnyRepo
      BY <1>1, <2>2 DEF Uploading, AnyRun, AnyRepo
    <3> QED
      BY <3>1 DEF RunsMove
  <2> QED
    BY <2>1, <2>2
<1>2. ASSUME AppStep
      PROVE  RunsMove
  <2>1. ASSUME NEW u \in AnyRun, Upload(u) \/ UploadRefused(u)
        PROVE  RunsMove
    BY <1>1, <2>1 DEF Upload, UploadRefused
  <2>2. ASSUME \/ \E r \in Repos : Unlink(r) \/ \E u \in AnyRun : SaveLink(r, u)
               \/ SaveReads \/ SaveAborts \/ DeleteAsset \/ StartEmbedding
        PROVE  run' = run
    BY <2>2 DEF Unlink, SaveLink, SaveReads, SaveAborts, DeleteAsset, StartEmbedding, rows
  <2> QED
    BY <1>2, <2>1, <2>2 DEF AppStep, RunsMove
<1>3. ASSUME NEW q \in Requests, RequestStep(q)
      PROVE  RunsMove
  <2>1. ASSUME NEW u \in Runs, AdmitProcessing(q, u)
        PROVE  RunsMove
    <3>1. request[q] \in Asked
      BY <2>1 DEF AdmitProcessing, NoRequest, TypeOK
    <3>2. request[q].repo \in AnyRepo /\ Fresh(u) /\ Started(u, "retry", request[q].repo)
      BY <2>1, <3>1 DEF AdmitProcessing, Asked
    <3> QED
      BY <3>2 DEF RunsMove
  <2>2. ASSUME NEW u \in AnyRun, AdmitIndexing(q, u), run' # run
        PROVE  RunsMove
    <3> DEFINE b == CHOOSE r \in SeenLinks(q) : TRUE
    <3>1. b \in AnyRepo
      BY <2>2 DEF AdmitIndexing, SeenLinks, Linked, AnyRepo
    <3>2. u \in Runs /\ Fresh(u) /\ Started(u, "retry", b)
      BY <2>2 DEF AdmitIndexing
    <3> QED
      BY <3>1, <3>2 DEF RunsMove
  <2>3. ASSUME (\E x \in AnyRepo : AskAgain(q, x)) \/ AskFailed(q) \/ AskReconcile(q) \/ Refuse(q)
        PROVE  run' = run
    BY <2>3 DEF AskAgain, AskFailed, AskReconcile, Asks, Refuse, rows
  <2> QED
    BY <1>3, <2>1, <2>2, <2>3 DEF RequestStep, RunsMove
<1>4. ASSUME QueueStep \/ Sweep
      PROVE  run' = run
  BY <1>4 DEF QueueStep, Expire, Exhausted, Vanish, Sweep, SweepReads, SweepReadsJobs,
     SweepReadsRun, SweepFails, Fails, rows
<1>5. ASSUME NEW w \in Workers, Delivery(w)
      PROVE  run' = run
  <2>1. ASSUME Handle(w)
        PROVE  run' = run
    BY <2>1 DEF Handle, Claim, Clear, BeginWrite, EndWrite, BeginCompletion, Complete,
       CompletionFails, CheckAsset, ClaimLink, ReadExtraction, CompleteLink, FailTransient,
       FailFinally, Fails, rows
  <2> QED
    BY <1>5, <2>1 DEF Delivery, Fetch, Report, Crash, rows
<1>6. CASE UNCHANGED vars
  BY <1>6 DEF vars, RunsMove
<1> QED
  BY <1>2, <1>3, <1>4, <1>5, <1>6 DEF Next, RunsMove

\* A link appears only with the commit of its save.
LEMMA LinkedBySave ==
  ASSUME TypeOK, [Next]_vars, ~SaveCommits, NEW r \in Repos, r \notin Linked
  PROVE  link'[r].status = "none"
<1>1. link[r].status = "none"
  BY DEF Linked
<1>2. ~GoesOn(r)
  BY <1>1 DEF GoesOn, Unfinished
<1>3. link'[r] = link[r] \/ link'[r] = Gone
  BY <1>2, NextLinkMoves DEF LinkMoves
<1> QED
  BY <1>1, <1>3 DEF Gone

\* Runs that have not begun, or are gone, stay unbound.
LEMMA NextUnbound ==
  ASSUME Ground, AgreeInv, [Next]_vars
  PROVE  UnboundRuns'
<1>1. TypeOK /\ UnboundRuns /\ run \in [Runs -> RunType]
  BY DEF Ground, FileInv, AgreeInv, TypeOK
<1>2. ASSUME NEW u \in Runs, NEW k \in {"upload", "retry"}, NEW b \in AnyRepo, Started(u, k, b)
      PROVE  UnboundRuns'
  BY <1>1, <1>2 DEF Started, UnboundRuns
<1>3. ASSUME SaveCommits
      PROVE  UnboundRuns'
  <2>1. saving # NotSaving
    BY <1>3 DEF SaveCommits, NotSaving
  <2>2. \A v \in Runs : /\ run'[v].kind = run[v].kind
                        /\ run'[v].bound = IF v = saving.run THEN saving.repo ELSE run[v].bound
    BY <1>1, <1>3 DEF SaveCommits, RunType
  <2>3. \A v \in Runs : v = saving.run => run[v].kind = "upload"
    BY <2>1, PreparationAssumption DEF AgreeInv, SavingRun
  <2> QED
    BY <1>1, <2>2, <2>3 DEF UnboundRuns
<1>4. ASSUME NEW u \in Runs, DeleteAccount(u)
      PROVE  UnboundRuns'
  BY <1>1, <1>4 DEF DeleteAccount, UnboundRuns
<1>5. CASE run' = run
  BY <1>1, <1>5 DEF UnboundRuns
<1> QED
  BY <1>1, <1>2, <1>3, <1>4, <1>5, NextRuns DEF RunsMove

\* What a save binds stays so until it commits.
LEMMA NextSavingRun ==
  ASSUME Ground, AgreeInv, [Next]_vars
  PROVE  SavingRun'
<1>1. TypeOK /\ run \in [Runs -> RunType] /\ saving \in {NotSaving} \cup Savings
  BY DEF Ground, FileInv, TypeOK
<1>2. ASSUME NEW r \in Repos, NEW u \in AnyRun, SaveLink(r, u)
      PROVE  SavingRun'
  <2>1. saving'.repo = r /\ saving'.run = u /\ r \notin Linked /\ link' = link /\ run' = run
    BY <1>2 DEF SaveLink
  <2> QED
    BY <1>2, <2>1 DEF SaveLink, SavingRun, Linked
<1>3. ASSUME SaveCommits \/ SaveAborts
      PROVE  SavingRun'
  BY <1>3 DEF SaveCommits, SaveAborts, SavingRun
<1>4. ASSUME saving' = saving \/ SaveReads, ~SaveCommits, saving # NotSaving
      PROVE  SavingRun'
  <2>1. saving \in Savings
    BY <1>1, <1>4
  <2>2. saving'.repo = saving.repo /\ saving'.run = saving.run
    BY <1>4, <2>1 DEF SaveReads, Savings
  <2>3. saving.repo \in Repos /\ saving.run \in AnyRun
    BY <2>1 DEF Savings
  <2>4. saving.repo \notin Linked'
    BY <1>1, <1>4, <2>3, LinkedBySave DEF AgreeInv, SavingRun, Linked
  <2>5. ASSUME saving.run # NoRun
        PROVE  run'[saving.run] = run[saving.run]
    <3>1. saving.run \in Runs /\ run[saving.run].kind = "upload"
      BY <1>4, <2>3, <2>5 DEF AgreeInv, SavingRun, AnyRun
    <3>2. ASSUME NEW u \in Runs, DeleteAccount(u)
          PROVE  u # saving.run
      BY <2>5, <3>1, <3>2, PreparationAssumption DEF DeleteAccount, MemberRowFree
    <3>3. ASSUME NEW u \in Runs, Fresh(u)
          PROVE  u # saving.run
      BY <3>1, <3>3 DEF Fresh
    <3> QED
      BY <1>1, <1>4, <3>1, <3>2, <3>3, NextRuns DEF RunsMove, Started, DeleteAccount
  <2> QED
    BY <1>4, <2>2, <2>4, <2>5 DEF AgreeInv, SavingRun
<1>5. CASE saving' = saving /\ saving = NotSaving
  BY <1>5 DEF SavingRun
<1>6. SaveReads => saving # NotSaving
  BY DEF SaveReads, NotSaving
<1> QED
  BY <1>1, <1>2, <1>3, <1>4, <1>5, <1>6, NextSaving

\* Only the sweep moves the sweep.
LEMMA NextSweep ==
  ASSUME [Next]_vars
  PROVE  sweep' = sweep \/ Sweep
<1>1. CASE AppStep
  BY <1>1 DEF AppStep, Upload, UploadRefused, DeleteAccount, Unlink, SaveLink, SaveReads, SaveCommits,
     SaveAborts, DeleteAsset, StartEmbedding
<1>2. CASE QueueStep
  BY <1>2 DEF QueueStep, Expire, Exhausted, Vanish
<1>3. CASE \E q \in Requests : RequestStep(q)
  BY <1>3 DEF RequestStep, AskAgain, AskFailed, AskReconcile, Asks, AdmitProcessing, AdmitIndexing,
     Refuse
<1>4. ASSUME NEW w \in Workers, Delivery(w)
      PROVE  sweep' = sweep
  BY <1>4 DEF Delivery, Handle, Fetch, Report, Crash, Claim, Clear, BeginWrite, EndWrite,
     BeginCompletion, Complete, CompletionFails, CheckAsset, ClaimLink, ReadExtraction, CompleteLink,
     FailTransient, FailFinally
<1>5. CASE UNCHANGED vars
  BY <1>5 DEF vars
<1> QED
  BY <1>1, <1>2, <1>3, <1>4, <1>5 DEF Next

\* The sweep picks up the one run that waits, if any, and tells it alone.
LEMMA NextSweepFits ==
  ASSUME Ground, AgreeInv, Moves, [Next]_vars
  PROVE  SweepFits'
<1>1. TypeOK /\ FileInv /\ JobsFit /\ NoneBefore /\ SweepFits /\ OneWaits
  BY DEF Ground, FileInv, AgreeInv, JobsFit
<1>2. asset'.generation >= asset.generation /\ asset.generation \in Nat /\ asset'.generation \in Nat
  <2>1. asset' \in AssetType
    BY <1>1, NextType DEF TypeOK
  <2> QED
    BY <1>1, <2>1, GenerationGrows DEF AssetType
<1>3. ASSUME NEW s, Numbered(s), s.stage = "processing"
      PROVE  s.attempt <= asset'.generation
  BY <1>2, <1>3 DEF Numbered, Drew
<1>4. ASSUME sweep' = sweep
      PROVE  SweepFits'
  <2>1. ASSUME sweep # NotSweeping
        PROVE  \A s \in sweep'.stages : s.stage = "processing" => s.attempt <= asset'.generation
    BY <1>1, <1>3, <1>4, <2>1, HeldNumbered
  <2>2. ASSUME sweep.phase = "failing"
        PROVE  /\ sweep'.stage.stage = "processing" => sweep'.stage.attempt <= asset'.generation
               /\ TellsOnly(sweep.stage, sweep.run)'
    <3>1. PICK s, u : s = sweep.stage /\ u = sweep.run
      OBVIOUS
    <3>2. Numbered(s) /\ TellsOnly(s, u)
      BY <1>1, <2>2, <3>1, HeldNumbered DEF SweepFits
    <3>3. TellsOnly(s, u)'
      BY <3>2, TellsStay
    <3> QED
      BY <1>3, <1>4, <3>1, <3>2, <3>3
  <2> QED
    BY <1>4, <2>1, <2>2 DEF SweepFits
<1>5. ASSUME SweepReads
      PROVE  SweepFits'
  <2>1. asset' = asset /\ sweep'.phase = "read"
    BY <1>5 DEF SweepReads, rows
  <2>2. \A s \in sweep'.stages : s.stage = "processing" => s.attempt = asset.generation
    BY <1>5 DEF SweepReads, StageOf
  <2> QED
    BY <1>2, <2>1, <2>2 DEF SweepFits
<1>6. ASSUME SweepReadsJobs
      PROVE  SweepFits'
  <2>1. asset' = asset /\ sweep # NotSweeping
    BY <1>6 DEF SweepReadsJobs, rows, NotSweeping
  <2>2. \/ sweep' = NotSweeping
        \/ sweep'.phase = "stranded" /\ sweep'.stages \subseteq sweep.stages
    BY <1>6 DEF SweepReadsJobs
  <2> QED
    BY <1>1, <2>1, <2>2 DEF SweepFits, NotSweeping
<1>7. ASSUME NEW s \in sweep.stages, SweepReadsRun(s)
      PROVE  SweepFits'
  <2>1. UNCHANGED <<asset, link, run, member>> /\ sweep # NotSweeping
    BY <1>7 DEF SweepReadsRun, rows, NotSweeping
  <2>2. PICK u : /\ sweep' = [phase |-> "failing", stages |-> sweep.stages \ {s}, stage |-> s, run |-> u]
                 /\ \/ u \in Runs /\ Pends(s, u)
                    \/ \A v \in Runs : ~Pends(s, v)
    BY <1>7 DEF SweepReadsRun, Pends, Waits
  <2>3. s.stage \in Stages
    BY <1>1, <1>7, <2>1, HeldNumbered DEF Numbered
  <2>4. TellsOnly(s, u)
    BY <1>1, <2>2, <2>3 DEF TellsOnly, Pends, OneWaits, Stages
  <2>5. TellsOnly(s, u)'
    BY <2>1, <2>4 DEF TellsOnly, Pends, Waits, Current, CurrentProcessing, CurrentIndexing
  <2>6. sweep'.stage = s /\ sweep'.run = u /\ sweep'.stages \subseteq sweep.stages
    BY <2>2
  <2>7. \A x \in sweep.stages : x.stage = "processing" => x.attempt <= asset.generation
    BY <1>1, <2>1 DEF SweepFits
  <2> QED
    BY <1>7, <2>1, <2>5, <2>6, <2>7 DEF SweepFits
<1>8. ASSUME SweepFails
      PROVE  SweepFits'
  <2>1. sweep # NotSweeping
    BY <1>8 DEF SweepFails, NotSweeping
  <2>2. \/ sweep' = NotSweeping
        \/ sweep'.phase = "stranded" /\ sweep'.stages = sweep.stages
    BY <1>8 DEF SweepFails
  <2> QED
    BY <1>1, <1>3, <2>1, <2>2, HeldNumbered DEF SweepFits, NotSweeping
<1> QED
  BY <1>4, <1>5, <1>6, <1>7, <1>8, NextSweep DEF Sweep

\* Runs and work go on to agree.
LEMMA NextAgree ==
  ASSUME Ground, AgreeInv, [Next]_vars
  PROVE  AgreeInv'
<1>1. Moves
  BY NextMoves
<1> QED
  BY <1>1, NextWaits, NextUnbound, NextSavingRun, NextSweepFits, NextTells DEF AgreeInv

\* No run waits for work that nobody does any more, or is told of an end before
\* its present work has ended: whatever job, delivery, dead letter, save, request
\* or sweep gets there late tells the run it should, or none.
THEOREM RunsAgree == Spec => []RunsAgreeWithWork
<1>1. Init => AgreeInv
  BY DEF Init, AgreeInv, OneWaits, UnboundRuns, SavingRun, SweepFits, JobsTell, DeliveriesTell,
         Waits, Stages, NotSaving, NotSweeping, Idle
<1>2. Init => SavingSaw /\ Completes
  BY DEF Init, SavingSaw, NotSaving, Completes, Idle
<1>3. TypeOK /\ SavingSaw /\ Completes /\ [Next]_vars => SavingSaw' /\ Completes'
  BY NextSaw, NextCompletes
<1>4. FileInv /\ DeliveryStages /\ JobsFit /\ Completes /\ SavingSaw /\ AgreeInv /\ [Next]_vars => AgreeInv'
  BY NextAgree DEF Ground
<1>5. TypeOK /\ AgreeInv => RunsAgreeWithWork
  BY AgreeIsAgreement
<1> QED
  BY <1>1, <1>2, <1>3, <1>4, <1>5, TypeCorrect, FileInvariant, JobsInvariant, PTL DEF Spec

==============================================================================
