----------------------------- MODULE VideoStudio -----------------------------
(***************************************************************************)
(* apps/video-studio: one project of the video studio, from upload to the  *)
(* revocation of its consent.                                              *)
(*                                                                         *)
(* Public requests (threads of the web server), the proof-render thread,   *)
(* the requests of external workers and a restart of the server interleave *)
(* between any two of a handler's accesses to the database and the disk.   *)
(* sqlite3 opens a transaction at the first write, so a handler that reads *)
(* and then writes does it in two steps; only "BEGIN IMMEDIATE" joins them. *)
(*                                                                         *)
(* Abstracted: a file is an asset id or the number of the job it is the    *)
(* export of; a lease is the flag that claim_token_hash is set (a worker   *)
(* that holds a claim holds its lease token); subtitles, durations and     *)
(* media checks are "the step may fail".                                   *)
(***************************************************************************)
EXTENDS Naturals, FiniteSets

CONSTANTS
  Clients,    \* request threads of the public API
  Workers,    \* external workers
  Portraits,  \* asset ids of kind portrait
  Voices,     \* asset ids of kind voice
  MaxJobs     \* bound on the jobs ever queued

ASSUME MaxJobsAssumption == MaxJobs \in Nat \ {0}

Assets == Portraits \cup Voices
Jobs == 1..MaxJobs

ASSUME AssetsAssumption == Assets \cap Jobs = {}

Engines == {"proof_render", "external_clone"}
REVOCATION_BLOCKED_STATES == {"revoking", "revoked", "revocation_failed"}

VARIABLES
  project,     \* projects.status
  rows,        \* assets: the asset ids that have a row
  minted,      \* asset ids ever given out
  job,         \* the jobs table
  revocation,  \* is there a project_revocations row?
  files,       \* media on disk: asset ids and exported jobs
  client,      \* client -> its request under way
  render,      \* the proof-render thread
  working,     \* worker -> the job it processes, 0 if none
  upload,      \* job -> the output request under way for it
  report,      \* jobs with a failure report under way
  quiet,       \* a revocation began with nothing else under way (history)
  unfinished   \* a revocation stopped short of deleting its media (history)

database == <<project, rows, job, revocation>>
threads == <<client, render, working, upload, report>>
history == <<minted, quiet, unfinished>>
vars == <<database, files, threads, history>>

ProjectStatuses ==
  {"draft", "assets_ready", "queued", "review_ready", "approved", "rejected", "failed"}
    \cup REVOCATION_BLOCKED_STATES
JobStatuses ==
  {"ABSENT", "queued", "starting", "running", "claimed", "completed", "failed", "canceled"}
JobRow ==
  [status : JobStatuses, engine : Engines, worker : Workers \cup {0}, lease : BOOLEAN,
   output : BOOLEAN]
NoJob ==
  [status |-> "ABSENT", engine |-> "proof_render", worker |-> 0, lease |-> FALSE,
   output |-> FALSE]

ClientPlaces ==
  {"idle", "writing", "stored", "inserting", "queueing", "deciding",
   "revoking", "deleting", "recording", "failing"}
RenderPlaces ==
  {"idle", "picked", "loading", "prepared", "encoding", "encoded", "announcing"}
Ready == [pc |-> "idle", media |-> {}]

TypeOK ==
  /\ project \in ProjectStatuses
  /\ rows \subseteq Assets /\ minted \subseteq Assets
  /\ job \in [Jobs -> JobRow]
  /\ revocation \in BOOLEAN
  /\ files \subseteq Assets \cup Jobs
  /\ client \in [Clients -> [pc : ClientPlaces, media : SUBSET (Assets \cup Jobs)]]
  /\ render \in [pc : RenderPlaces, job : Jobs \cup {0}]
  /\ working \in [Workers -> Jobs \cup {0}]
  /\ upload \in [Jobs -> {"none", "writing", "stored"}]
  /\ report \subseteq Jobs
  /\ quiet \in BOOLEAN /\ unfinished \in BOOLEAN

Init ==
  /\ project = "draft"
  /\ rows = {} /\ minted = {}
  /\ job = [j \in Jobs |-> NoJob]
  /\ revocation = FALSE
  /\ files = {}
  /\ client = [c \in Clients |-> Ready]
  /\ render = [pc |-> "idle", job |-> 0]
  /\ working = [w \in Workers |-> 0]
  /\ upload = [j \in Jobs |-> "none"]
  /\ report = {}
  /\ quiet = FALSE /\ unfinished = FALSE

Blocked == project \in REVOCATION_BLOCKED_STATES
Existing == {j \in Jobs : job[j].status # "ABSENT"}
HasMaterial == rows \cap Portraits # {} /\ rows \cap Voices # {}
(* ORDER BY created_at LIMIT 1 *)
Oldest(engine, j) ==
  /\ job[j].status = "queued" /\ job[j].engine = engine
  /\ \A k \in Jobs : job[k].status = "queued" /\ job[k].engine = engine => j <= k

At(c, place) == client[c].pc = place
Goto(c, place) == client' = [client EXCEPT ![c].pc = place]
GotoWith(c, place, media) == client' = [client EXCEPT ![c] = [pc |-> place, media |-> media]]
Answer(c) == client' = [client EXCEPT ![c] = Ready]
-----------------------------------------------------------------------------
(* upload_asset: check, stream the file, check again, insert.              *)
UploadBegin(c, a) ==
  /\ At(c, "idle") /\ ~Blocked /\ a \notin minted
  /\ minted' = minted \cup {a}
  /\ GotoWith(c, "writing", {a})
  /\ UNCHANGED <<database, files, render, working, upload, report, quiet, unfinished>>

UploadStore(c) ==
  /\ At(c, "writing")
  /\ files' = files \cup client[c].media
  /\ Goto(c, "stored")
  /\ UNCHANGED <<database, render, working, upload, report, history>>

(* The stream fails or exceeds MAX_UPLOAD_BYTES.                           *)
UploadAbort(c) ==
  /\ At(c, "writing")
  /\ Answer(c)
  /\ UNCHANGED <<database, files, render, working, upload, report, history>>

UploadRecheck(c) ==
  /\ At(c, "stored")
  /\ \/ Blocked /\ files' = files \ client[c].media /\ Answer(c)
     \/ ~Blocked /\ Goto(c, "inserting") /\ UNCHANGED files
  /\ UNCHANGED <<database, render, working, upload, report, history>>

UploadInsert(c) ==
  /\ At(c, "inserting")
  /\ rows' = rows \cup client[c].media
  /\ project' = "assets_ready"
  /\ Answer(c)
  /\ UNCHANGED <<job, revocation, files, render, working, upload, report, history>>

(* Mutant: queue_job forgets the projects whose consent is being revoked.  *)
QueueCheckUnblocked(c) ==
  /\ At(c, "idle") /\ HasMaterial /\ Existing # Jobs
  /\ Goto(c, "queueing")
  /\ UNCHANGED <<database, files, render, working, upload, report, history>>

(* queue_job: checks, then the insert.                                     *)
QueueCheck(c) ==
  /\ At(c, "idle") /\ ~Blocked /\ HasMaterial /\ Existing # Jobs
  /\ Goto(c, "queueing")
  /\ UNCHANGED <<database, files, render, working, upload, report, history>>

QueueInsert(c, engine) ==
  LET j == Cardinality(Existing) + 1 IN
  /\ At(c, "queueing") /\ j \in Jobs
  /\ job' = [job EXCEPT ![j] = [NoJob EXCEPT !.status = "queued", !.engine = engine]]
  /\ project' = "queued"
  /\ Answer(c)
  /\ UNCHANGED <<rows, revocation, files, render, working, upload, report, history>>

(* record_approval: a completed job, then the decision.                    *)
DecideCheck(c) ==
  /\ At(c, "idle") /\ ~Blocked
  /\ \E j \in Jobs : job[j].status = "completed"
  /\ Goto(c, "deciding")
  /\ UNCHANGED <<database, files, render, working, upload, report, history>>

Decide(c, decision) ==
  /\ At(c, "deciding")
  /\ project' = decision
  /\ Answer(c)
  /\ UNCHANGED <<rows, job, revocation, files, render, working, upload, report, history>>
-----------------------------------------------------------------------------
(* revoke_project: what there is to delete is read first ...               *)
RevokeRead(c) ==
  /\ At(c, "idle") /\ ~revocation
  /\ GotoWith(c, "revoking", rows \cup {j \in Jobs : job[j].output})
  /\ UNCHANGED <<database, files, render, working, upload, report, history>>

(* Mutant: the lease survives the cancellation.                            *)
CanceledWithLease(row) == [row EXCEPT !.status = "canceled", !.output = FALSE]

(* ... then, in one transaction, every job is canceled ...                 *)
Canceled(row) == [row EXCEPT !.status = "canceled", !.output = FALSE, !.lease = FALSE]

NothingElseUnderWay(c) ==
  /\ \A d \in Clients \ {c} : At(d, "idle")
  /\ render.pc = "idle"
  /\ \A j \in Jobs : upload[j] = "none"
  /\ report = {}

RevokeCancel(c) ==
  /\ At(c, "revoking")
  /\ job' = [j \in Jobs |-> IF j \in Existing THEN Canceled(job[j]) ELSE job[j]]
  /\ project' = "revoking"
  /\ Goto(c, "deleting")
  /\ quiet' = (quiet \/ (~revocation /\ NothingElseUnderWay(c) /\ files \subseteq client[c].media))
  /\ UNCHANGED <<rows, revocation, files, render, working, upload, report, minted, unfinished>>

(* ... then the files go, or some of them do ...                           *)
RevokeDelete(c) ==
  /\ At(c, "deleting")
  /\ files' = files \ client[c].media
  /\ Goto(c, "recording")
  /\ UNCHANGED <<database, render, working, upload, report, history>>

RevokeDeleteFails(c) ==
  /\ At(c, "deleting")
  /\ \E kept \in SUBSET client[c].media :
       kept # {} /\ files' = files \ (client[c].media \ kept)
  /\ unfinished' = TRUE
  /\ Goto(c, "failing")
  /\ UNCHANGED <<database, render, working, upload, report, minted, quiet>>

RevokeFail(c) ==
  /\ At(c, "failing")
  /\ project' = "revocation_failed"
  /\ Answer(c)
  /\ UNCHANGED <<rows, job, revocation, files, render, working, upload, report, history>>

(* ... and the revocation is recorded.  A second row for the project       *)
(* violates UNIQUE(project_id): the transaction rolls back.                *)
RevokeRecord(c) ==
  /\ At(c, "recording")
  /\ IF revocation THEN UNCHANGED <<rows, revocation, project>>
                   ELSE rows' = {} /\ revocation' = TRUE /\ project' = "revoked"
  /\ Answer(c)
  /\ UNCHANGED <<job, files, render, working, upload, report, history>>
-----------------------------------------------------------------------------
(* The proof-render thread.  update_job is unconditional and, without an   *)
(* output_path argument, clears the column.                                *)
UpdatedJob(j, status, output) ==
  [job EXCEPT ![j].status = status, ![j].output = output]

RenderTo(place) == render' = [render EXCEPT !.pc = place]

RenderPick(j) ==
  /\ render.pc = "idle" /\ Oldest("proof_render", j)
  /\ job' = [job EXCEPT ![j].status = "starting"]
  /\ render' = [pc |-> "picked", job |-> j]
  /\ UNCHANGED <<project, rows, revocation, files, client, working, upload, report, history>>

RenderStart ==
  /\ render.pc = "picked"
  /\ job' = UpdatedJob(render.job, "running", FALSE)
  /\ RenderTo("loading")
  /\ UNCHANGED <<project, rows, revocation, files, client, working, upload, report, history>>

(* latest_asset of both kinds, and ffprobe on the voice recording.         *)
RenderLoad ==
  /\ render.pc = "loading" /\ HasMaterial
  /\ files \cap Voices # {}
  /\ RenderTo("prepared")
  /\ UNCHANGED <<database, files, client, working, upload, report, history>>

RenderMark ==
  /\ render.pc = "prepared"
  /\ job' = UpdatedJob(render.job, "running", FALSE)
  /\ RenderTo("encoding")
  /\ UNCHANGED <<project, rows, revocation, files, client, working, upload, report, history>>

(* FFmpeg reads the inputs, which must still be there when it starts.      *)
RenderEncode ==
  /\ render.pc = "encoding"
  /\ files \cap Portraits # {} /\ files \cap Voices # {}
  /\ files' = files \cup {render.job}
  /\ RenderTo("encoded")
  /\ UNCHANGED <<database, client, working, upload, report, history>>

RenderComplete ==
  /\ render.pc = "encoded"
  /\ job' = UpdatedJob(render.job, "completed", TRUE)
  /\ RenderTo("announcing")
  /\ UNCHANGED <<project, rows, revocation, files, client, working, upload, report, history>>

RenderAnnounce ==
  /\ render.pc = "announcing"
  /\ project' = "review_ready"
  /\ render' = [pc |-> "idle", job |-> 0]
  /\ UNCHANGED <<rows, job, revocation, files, client, working, upload, report, history>>

(* Missing inputs, a failing or hanging ffprobe or ffmpeg, which leaves    *)
(* what it has encoded so far.                                             *)
RenderFails ==
  /\ render.pc \in {"loading", "prepared", "encoding"}
  /\ job' = UpdatedJob(render.job, "failed", FALSE)
  /\ \/ UNCHANGED files
     \/ render.pc = "encoding" /\ files' = files \cup {render.job}
  /\ render' = [pc |-> "idle", job |-> 0]
  /\ UNCHANGED <<project, rows, revocation, client, working, upload, report, history>>
-----------------------------------------------------------------------------
(* External workers.  claim is one BEGIN IMMEDIATE transaction.            *)
Claim(w, j) ==
  /\ working[w] = 0 /\ Oldest("external_clone", j)
  /\ job' = [job EXCEPT ![j].status = "claimed", ![j].worker = w, ![j].lease = TRUE]
  /\ working' = [working EXCEPT ![w] = j]
  /\ UNCHANGED <<project, rows, revocation, files, client, render, upload, report, history>>

(* _require_claimed_job, for the lease the worker was given with its claim. *)
HoldsLease(w, j) == job[j].status = "claimed" /\ job[j].worker = w /\ job[j].lease

(* upload_worker_output: the lease is checked, the file is written and     *)
(* validated, and then the job and the project are updated.                *)
OutputBegin(w) ==
  LET j == working[w] IN
  /\ j # 0 /\ upload[j] = "none" /\ j \notin report
  /\ HoldsLease(w, j)
  /\ upload' = [upload EXCEPT ![j] = "writing"]
  /\ UNCHANGED <<database, files, client, render, working, report, history>>

OutputStore(j) ==
  /\ upload[j] = "writing"
  /\ files' = files \cup {j}
  /\ upload' = [upload EXCEPT ![j] = "stored"]
  /\ UNCHANGED <<database, client, render, working, report, history>>

OutputInvalid(j) ==
  /\ upload[j] = "stored"
  /\ files' = files \ {j}
  /\ upload' = [upload EXCEPT ![j] = "none"]
  /\ UNCHANGED <<database, client, render, working, report, history>>

Done(j) == working' = [w \in Workers |-> IF working[w] = j THEN 0 ELSE working[w]]

(* Mutant: the job is completed before the stream has been written.        *)
OutputFinishEarly(j) ==
  /\ upload[j] = "writing"
  /\ job' = [job EXCEPT ![j].status = "completed", ![j].output = TRUE, ![j].lease = FALSE]
  /\ project' = "review_ready"
  /\ upload' = [upload EXCEPT ![j] = "none"]
  /\ Done(j)
  /\ UNCHANGED <<rows, revocation, files, client, render, report, history>>

OutputFinish(j) ==
  /\ upload[j] = "stored"
  /\ job' = [job EXCEPT ![j].status = "completed", ![j].output = TRUE, ![j].lease = FALSE]
  /\ project' = "review_ready"
  /\ upload' = [upload EXCEPT ![j] = "none"]
  /\ Done(j)
  /\ UNCHANGED <<rows, revocation, files, client, render, report, history>>

(* The worker's engine or its upload failed, or its upload timed out while *)
(* the server is still busy with it: it reports the failure.               *)
ReportBegin(w) ==
  LET j == working[w] IN
  /\ j # 0
  /\ report' = IF HoldsLease(w, j) THEN report \cup {j} ELSE report
  /\ Done(j)
  /\ UNCHANGED <<database, files, client, render, upload, history>>

(* complete_external_job with status "failed", after its lease check.      *)
ReportFinish(j) ==
  /\ j \in report
  /\ job' = [job EXCEPT ![j].status = "failed", ![j].output = FALSE, ![j].lease = FALSE]
  /\ project' = "failed"
  /\ report' = report \ {j}
  /\ UNCHANGED <<rows, revocation, files, client, render, working, upload, history>>

(* A worker dies with its claim.                                           *)
WorkerLost(w) ==
  /\ working[w] # 0
  /\ working' = [working EXCEPT ![w] = 0]
  /\ UNCHANGED <<database, files, client, render, upload, report, history>>

(* The server restarts: every request and the render thread are gone, and  *)
(* a file that one of them was writing may stay behind.                    *)
BeingWritten ==
  (UNION {client[c].media : c \in {d \in Clients : At(d, "writing")}})
    \cup {j \in Jobs : upload[j] = "writing" \/ (render.pc = "encoding" /\ render.job = j)}

Restart ==
  /\ \E left \in SUBSET BeingWritten : files' = files \cup left
  /\ client' = [c \in Clients |-> Ready]
  /\ render' = [pc |-> "idle", job |-> 0]
  /\ upload' = [j \in Jobs |-> "none"]
  /\ report' = {}
  /\ unfinished' = (unfinished \/ \E c \in Clients : At(c, "deleting"))
  /\ UNCHANGED <<database, working, minted, quiet>>

Public(c) ==
  \/ \E a \in Assets : UploadBegin(c, a)
  \/ UploadStore(c) \/ UploadAbort(c) \/ UploadRecheck(c) \/ UploadInsert(c)
  \/ QueueCheck(c) \/ \E engine \in Engines : QueueInsert(c, engine)
  \/ DecideCheck(c) \/ \E decision \in {"approved", "rejected"} : Decide(c, decision)
  \/ RevokeRead(c) \/ RevokeCancel(c) \/ RevokeDelete(c) \/ RevokeDeleteFails(c)
  \/ RevokeFail(c) \/ RevokeRecord(c)

Rendering ==
  \/ \E j \in Jobs : RenderPick(j)
  \/ RenderStart \/ RenderLoad \/ RenderMark \/ RenderEncode
  \/ RenderComplete \/ RenderAnnounce \/ RenderFails

External ==
  \/ \E w \in Workers : (\E j \in Jobs : Claim(w, j)) \/ OutputBegin(w) \/ ReportBegin(w) \/ WorkerLost(w)
  \/ \E j \in Jobs : OutputStore(j) \/ OutputInvalid(j) \/ OutputFinish(j) \/ ReportFinish(j)

Next == (\E c \in Clients : Public(c)) \/ Rendering \/ External \/ Restart

Spec == Init /\ [][Next]_vars
-----------------------------------------------------------------------------
(* A job that can be downloaded has its export on disk: neither a late     *)
(* failure report, a rejected upload nor a revocation that raced with the  *)
(* job leaves a "completed" row behind without its file.                   *)
CompletedHasItsFile ==
  \A j \in Jobs : job[j].status = "completed" => job[j].output /\ j \in files

(* A lease ends with the claim it came with, whoever ends it: the worker's *)
(* upload, its failure report or the revocation of the project.            *)
LeaseEndsWithItsClaim ==
  \A j \in Jobs : job[j].lease => job[j].status = "claimed" /\ job[j].worker \in Workers

(* A recorded revocation, none of whose requests is still deleting.        *)
Revoked == revocation /\ \A c \in Clients : ~At(c, "deleting")

(* A revocation that cancels while nothing else is under way and that can  *)
(* delete what it finds is final: whatever is tried after it, the project  *)
(* stays blocked, its jobs stay canceled and no media comes back.          *)
QuietRevocationIsFinal ==
  Revoked /\ quiet /\ ~unfinished =>
    Blocked /\ files = {} /\ rows = {} /\ \A j \in Existing : job[j].status = "canceled"

(* README.md:16, "revocation cancels jobs, expires worker leases and       *)
(* removes source/output media": of any recorded revocation.               *)
RevocationIsFinal == Revoked => Blocked /\ \A j \in Existing : job[j].status = "canceled"

(* The same line, of a revocation with nothing else under way that is      *)
(* repeated because it could not delete everything at once.                *)
RepeatedRevocationRemovesMedia == Revoked /\ quiet => files = {}
=============================================================================
