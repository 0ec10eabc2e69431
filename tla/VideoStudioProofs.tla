--------------------------- MODULE VideoStudioProofs ---------------------------
(***************************************************************************)
(* The video studio's type invariant and three properties, proved for      *)
(* any number of clients, workers, assets and jobs.                        *)
(*                                                                         *)
(* LeaseEndsWithItsClaim rests on the two engines: the render thread, which *)
(* updates its job whatever the row says, never has a job that a worker    *)
(* could claim.  CompletedHasItsFile rests on Settled: once a job is in no  *)
(* hand and decided, it never completes again, so that a revocation deletes *)
(* no file that a row could still promise.  QuietRevocationIsFinal rests on *)
(* Concluded: what a revocation that was alone leaves behind.              *)
(***************************************************************************)
EXTENDS VideoStudio, FiniteSetTheorems, TLAPS

(* What a thread has in hand exists, and is a job of its own engine.       *)
RenderIsLocal ==
  render.pc # "idle" => render.job \in Existing /\ job[render.job].engine = "proof_render"

UploadsAreExternal ==
  \A j \in Jobs : upload[j] # "none" => j \in Existing /\ job[j].engine = "external_clone"

LeasesAreExternal ==
  \A j \in Jobs : job[j].lease =>
    job[j].status = "claimed" /\ job[j].worker \in Workers /\ job[j].engine = "external_clone"

ReportsExist == report \subseteq Existing

UploadsAreAssets ==
  \A c \in Clients :
    client[c].pc \in {"writing", "stored", "inserting"} => client[c].media \subseteq Assets

NumberedInOrder == \E n \in 0..MaxJobs : Existing = 1..n

Leases ==
  /\ TypeOK
  /\ RenderIsLocal
  /\ UploadsAreExternal
  /\ LeasesAreExternal
  /\ ReportsExist
  /\ UploadsAreAssets
  /\ NumberedInOrder

(* A job that a thread may still complete, and one that nobody will.       *)
InHand(j) ==
  \/ render.pc \in {"picked", "loading", "prepared", "encoding", "encoded"} /\ render.job = j
  \/ upload[j] # "none"

Settled(j) == job[j].status \in {"completed", "failed", "canceled"} /\ ~InHand(j)

CompletedIsSettled ==
  \A j \in Jobs : job[j].status = "completed" => job[j].output /\ j \in files /\ Settled(j)

OutputIsCompleted == \A j \in Jobs : job[j].output => job[j].status = "completed"

WrittenIsThere ==
  /\ \A j \in Jobs : upload[j] = "stored" => j \in files
  /\ render.pc = "encoded" => render.job \in files

(* A client that revokes has exports of settled jobs in hand, none of them *)
(* completed once it has canceled.                                         *)
MediaIsSettled ==
  \A c \in Clients :
    /\ client[c].pc \in {"revoking", "deleting"} => \A j \in Jobs \cap client[c].media : Settled(j)
    /\ client[c].pc = "deleting" =>
         \A j \in Jobs \cap client[c].media : job[j].status # "completed"

Completions ==
  /\ CompletedIsSettled
  /\ OutputIsCompleted
  /\ WrittenIsThere
  /\ MediaIsSettled

IInv == Leases /\ Completions
-----------------------------------------------------------------------------
(* The next job's number is new.                                           *)
LEMMA NextNumber ==
  ASSUME NumberedInOrder, TypeOK
  PROVE  \E n \in 0..MaxJobs : Existing = 1..n /\ Cardinality(Existing) = n
<1>1. PICK n \in 0..MaxJobs : Existing = 1..n
  BY DEF NumberedInOrder
<1>2. n \in Int /\ 1 \in Int /\ (1 > n => n = 0)
  BY MaxJobsAssumption
<1>3. Cardinality(1..n) = n
  BY <1>2, FS_Interval
<1> QED BY <1>1, <1>3

(* A client's own step leaves the others where they are, and what it does  *)
(* not touch alone.                                                        *)
ClientsTyped == client \in [Clients -> [pc : ClientPlaces, media : SUBSET (Assets \cup Jobs)]]

LEMMA PublicMoves ==
  ASSUME Leases, NEW c \in Clients, Public(c)
  PROVE  /\ ClientsTyped'
         /\ \A d \in Clients \ {c} : client'[d] = client[d]
         /\ UploadsAreAssets'
<1> USE DEF TypeOK, Leases, ClientsTyped, ClientPlaces, Ready, Goto, GotoWith, Answer, At
<1>1. ASSUME NEW place \in ClientPlaces \ {"writing", "stored", "inserting"},
             client' = [client EXCEPT ![c].pc = place]
      PROVE  ClientsTyped' /\ (\A d \in Clients \ {c} : client'[d] = client[d]) /\ UploadsAreAssets'
  BY <1>1 DEF UploadsAreAssets
<1>2. ASSUME client' = [client EXCEPT ![c] = Ready]
      PROVE  ClientsTyped' /\ (\A d \in Clients \ {c} : client'[d] = client[d]) /\ UploadsAreAssets'
  BY <1>2 DEF UploadsAreAssets
<1>3. ASSUME NEW a \in Assets, UploadBegin(c, a)
      PROVE  ClientsTyped' /\ (\A d \in Clients \ {c} : client'[d] = client[d]) /\ UploadsAreAssets'
  BY <1>3 DEF UploadBegin, UploadsAreAssets
<1>4. CASE UploadStore(c)
  BY <1>4 DEF UploadStore, UploadsAreAssets
<1>5. CASE UploadRecheck(c) /\ ~Blocked
  BY <1>5 DEF UploadRecheck, UploadsAreAssets
<1>6. CASE RevokeRead(c)
  BY <1>6 DEF RevokeRead, UploadsAreAssets
<1>7. CASE \/ UploadAbort(c) \/ (UploadRecheck(c) /\ Blocked) \/ UploadInsert(c) \/ RevokeFail(c) \/ RevokeRecord(c)
           \/ \E engine \in Engines : QueueInsert(c, engine)
           \/ \E decision \in {"approved", "rejected"} : Decide(c, decision)
  <2>1. client' = [client EXCEPT ![c] = Ready]
    BY <1>7 DEF UploadAbort, UploadRecheck, UploadInsert, RevokeFail, RevokeRecord, QueueInsert, Decide
  <2> QED BY <1>2, <2>1
<1>8. CASE QueueCheck(c) \/ DecideCheck(c) \/ RevokeCancel(c) \/ RevokeDelete(c) \/ RevokeDeleteFails(c)
  <2>1. PICK place \in {"queueing", "deciding", "deleting", "recording", "failing"} :
          client' = [client EXCEPT ![c].pc = place]
    BY <1>8 DEF QueueCheck, DecideCheck, RevokeCancel, RevokeDelete, RevokeDeleteFails
  <2> QED BY <1>1, <2>1
<1> HIDE DEF TypeOK, Leases, ClientsTyped, ClientPlaces, Ready, Goto, GotoWith, Answer, At
<1> QED BY <1>3, <1>4, <1>5, <1>6, <1>7, <1>8 DEF Public

Bystander == UNCHANGED <<render, working, upload, report>>

LEMMA CanceledTyped ==
  ASSUME NEW row \in JobRow
  PROVE  Canceled(row) \in JobRow
  BY DEF Canceled, JobRow, JobStatuses

(* What it does to the rest.                                               *)
LEMMA PublicTyped ==
  ASSUME Leases, NEW c \in Clients, Public(c)
  PROVE  TypeOK' /\ Bystander
<1> USE DEF TypeOK, Leases, database, history, Goto, GotoWith, Answer, At, Bystander
<1>1. ClientsTyped'
  BY PublicMoves
<1>2. ASSUME NEW a \in Assets, UploadBegin(c, a)
      PROVE  TypeOK' /\ Bystander
  BY <1>1, <1>2 DEF UploadBegin, ClientsTyped
<1>3. CASE UploadStore(c) \/ UploadRecheck(c) \/ RevokeDelete(c) \/ RevokeDeleteFails(c)
  <2>1. client[c].media \subseteq Assets \cup Jobs
    OBVIOUS
  <2> QED BY <1>1, <1>3, <2>1 DEF UploadStore, UploadRecheck, RevokeDelete, RevokeDeleteFails, ClientsTyped
<1>4. CASE UploadAbort(c) \/ QueueCheck(c) \/ DecideCheck(c) \/ RevokeRead(c)
  BY <1>1, <1>4 DEF UploadAbort, QueueCheck, DecideCheck, RevokeRead, ClientsTyped
<1>5. CASE UploadInsert(c)
  BY <1>1, <1>5 DEF UploadInsert, UploadsAreAssets, ClientsTyped, ProjectStatuses
<1>6. ASSUME NEW engine \in Engines, QueueInsert(c, engine)
      PROVE  TypeOK' /\ Bystander
  <2>1. job' \in [Jobs -> JobRow]
    BY <1>6 DEF QueueInsert, NoJob, JobRow, JobStatuses, Engines
  <2> QED BY <1>1, <1>6, <2>1 DEF QueueInsert, ClientsTyped, ProjectStatuses
<1>7. ASSUME NEW decision \in {"approved", "rejected"}, Decide(c, decision)
      PROVE  TypeOK' /\ Bystander
  BY <1>1, <1>7 DEF Decide, ClientsTyped, ProjectStatuses
<1>8. CASE RevokeCancel(c)
  <2>1. \A j \in Jobs : Canceled(job[j]) \in JobRow
    BY CanceledTyped
  <2>2. job' \in [Jobs -> JobRow] /\ quiet' \in BOOLEAN
    BY <1>8, <2>1 DEF RevokeCancel
  <2> QED BY <1>1, <1>8, <2>2 DEF RevokeCancel, ClientsTyped, ProjectStatuses, REVOCATION_BLOCKED_STATES
<1>9. CASE RevokeFail(c) \/ RevokeRecord(c)
  BY <1>1, <1>9 DEF RevokeFail, RevokeRecord, ClientsTyped, ProjectStatuses, REVOCATION_BLOCKED_STATES
<1> QED BY <1>2, <1>3, <1>4, <1>5, <1>6, <1>7, <1>8, <1>9 DEF Public

(* What it does to the jobs: none, one more, or all canceled.              *)
LEMMA PublicJobs ==
  ASSUME Leases, NEW c \in Clients, Public(c)
  PROVE  \/ job' = job
         \/ /\ job' = [j \in Jobs |-> IF j \in Existing THEN Canceled(job[j]) ELSE job[j]]
            /\ RevokeCancel(c)
         \/ \E engine \in Engines, k \in Jobs :
              /\ QueueInsert(c, engine)
              /\ \E n \in 0..MaxJobs : Existing = 1..n /\ k = n + 1
              /\ job' = [job EXCEPT ![k] = [NoJob EXCEPT !.status = "queued", !.engine = engine]]
<1>1. ASSUME NEW engine \in Engines, QueueInsert(c, engine)
      PROVE  \E k \in Jobs :
              /\ \E n \in 0..MaxJobs : Existing = 1..n /\ k = n + 1
              /\ job' = [job EXCEPT ![k] = [NoJob EXCEPT !.status = "queued", !.engine = engine]]
  BY <1>1, NextNumber DEF QueueInsert, Leases
<1>2. CASE RevokeCancel(c)
  BY <1>2 DEF RevokeCancel
<1>3. CASE ~RevokeCancel(c) /\ ~\E engine \in Engines : QueueInsert(c, engine)
  BY <1>3 DEF Public, UploadBegin, UploadStore, UploadAbort, UploadRecheck, UploadInsert, QueueCheck,
       DecideCheck, Decide, RevokeRead, RevokeDelete, RevokeDeleteFails, RevokeFail, RevokeRecord, database
<1> QED BY <1>1, <1>2, <1>3
-----------------------------------------------------------------------------
(* Columns of one row change.                                              *)
LEMMA StatusTyped ==
  ASSUME NEW jobs \in [Jobs -> JobRow], NEW j \in Jobs, NEW status \in JobStatuses
  PROVE  [jobs EXCEPT ![j].status = status] \in [Jobs -> JobRow]
  BY DEF JobRow

LEMMA OutputTyped ==
  ASSUME NEW jobs \in [Jobs -> JobRow], NEW j \in Jobs, NEW output \in BOOLEAN
  PROVE  [jobs EXCEPT ![j].output = output] \in [Jobs -> JobRow]
  BY DEF JobRow

LEMMA LeaseTyped ==
  ASSUME NEW jobs \in [Jobs -> JobRow], NEW j \in Jobs, NEW lease \in BOOLEAN
  PROVE  [jobs EXCEPT ![j].lease = lease] \in [Jobs -> JobRow]
  BY DEF JobRow

LEMMA WorkerTyped ==
  ASSUME NEW jobs \in [Jobs -> JobRow], NEW j \in Jobs, NEW worker \in Workers
  PROVE  [jobs EXCEPT ![j].worker = worker] \in [Jobs -> JobRow]
  BY DEF JobRow

(* What a restart may leave behind is media.                               *)
LEMMA WrittenTyped ==
  ASSUME TypeOK
  PROVE  BeingWritten \subseteq Assets \cup Jobs
<1> DEFINE uploading == {client[c].media : c \in {d \in Clients : At(d, "writing")}}
           written == {j \in Jobs : upload[j] = "writing" \/ (render.pc = "encoding" /\ render.job = j)}
<1>1. \A c \in Clients : client[c].media \subseteq Assets \cup Jobs
  BY DEF TypeOK
<1>2. \A media \in uploading : media \subseteq Assets \cup Jobs
  BY <1>1
<1>3. BeingWritten = (UNION uploading) \cup written
  BY DEF BeingWritten
<1>4. written \subseteq Jobs
  OBVIOUS
<1> HIDE DEF uploading, written
<1>5. UNION uploading \subseteq Assets \cup Jobs
  BY <1>2
<1> QED BY <1>3, <1>4, <1>5

(* The other actors keep the types, and no client moves but in a restart.  *)
LEMMA ActorsTyped ==
  ASSUME Leases, Rendering \/ External \/ Restart
  PROVE  TypeOK' /\ UploadsAreAssets'
<1> USE DEF TypeOK, Leases, database, history, threads
<1>1. ASSUME UNCHANGED client
      PROVE  UploadsAreAssets'
  BY <1>1 DEF UploadsAreAssets
<1>2. ASSUME NEW j \in Jobs, NEW status \in JobStatuses, NEW output \in BOOLEAN, job' = UpdatedJob(j, status, output)
      PROVE  job' \in [Jobs -> JobRow]
  <2> DEFINE started == [job EXCEPT ![j].status = status]
  <2>1. started \in [Jobs -> JobRow]
    BY StatusTyped
  <2>2. job' = [started EXCEPT ![j].output = output]
    BY <1>2 DEF UpdatedJob
  <2> HIDE DEF started
  <2> QED BY <2>1, <2>2, OutputTyped
<1>3. ASSUME NEW j \in Jobs, RenderPick(j)
      PROVE  TypeOK' /\ UploadsAreAssets'
  <2>1. job' \in [Jobs -> JobRow]
    BY <1>3 DEF RenderPick, JobRow, JobStatuses
  <2> QED BY <1>1, <1>3, <2>1 DEF RenderPick, RenderPlaces
<1>4. ASSUME RenderStart \/ RenderMark \/ RenderComplete \/ RenderFails
      PROVE  TypeOK' /\ UploadsAreAssets'
  <2>1. render.job \in Jobs
    BY <1>4 DEF RenderStart, RenderMark, RenderComplete, RenderFails, RenderIsLocal, Existing
  <2>2. job' \in [Jobs -> JobRow]
    <3>1. \E status \in JobStatuses, output \in BOOLEAN : job' = UpdatedJob(render.job, status, output)
      BY <1>4 DEF RenderStart, RenderMark, RenderComplete, RenderFails, JobStatuses
    <3> HIDE DEF TypeOK, Leases
    <3> QED BY <1>2, <2>1, <3>1
  <2>3. render' \in [pc : RenderPlaces, job : Jobs \cup {0}]
    <3>1. CASE RenderFails
      BY <3>1 DEF RenderFails, RenderPlaces
    <3>2. CASE \E place \in RenderPlaces : RenderTo(place)
      BY <3>2 DEF RenderTo
    <3> QED BY <1>4, <3>1, <3>2 DEF RenderStart, RenderMark, RenderComplete, RenderPlaces
  <2>4. files' \subseteq Assets \cup Jobs
    BY <1>4, <2>1 DEF RenderStart, RenderMark, RenderComplete, RenderFails
  <2>5. UNCHANGED <<project, rows, revocation, client, working, upload, report, history>>
    BY <1>4 DEF RenderStart, RenderMark, RenderComplete, RenderFails
  <2> QED BY <1>1, <2>2, <2>3, <2>4, <2>5
<1>5. ASSUME RenderLoad \/ RenderEncode \/ RenderAnnounce
      PROVE  TypeOK' /\ UploadsAreAssets'
  <2>1. RenderEncode => render.job \in Jobs
    BY DEF RenderEncode, RenderIsLocal, Existing
  <2> QED BY <1>1, <1>5, <2>1 DEF RenderLoad, RenderEncode, RenderAnnounce, RenderTo, RenderPlaces, ProjectStatuses
<1>6. ASSUME NEW w \in Workers, NEW j \in Jobs, Claim(w, j)
      PROVE  TypeOK' /\ UploadsAreAssets'
  <2> DEFINE one == [job EXCEPT ![j].status = "claimed"]
             two == [one EXCEPT ![j].worker = w]
  <2>1. one \in [Jobs -> JobRow]
    BY StatusTyped DEF JobStatuses
  <2>2. job' = [two EXCEPT ![j].lease = TRUE]
    BY <1>6 DEF Claim
  <2> HIDE DEF one
  <2>3. two \in [Jobs -> JobRow]
    BY <2>1, WorkerTyped
  <2> HIDE DEF two
  <2>4. job' \in [Jobs -> JobRow]
    BY <2>2, <2>3, LeaseTyped
  <2> QED BY <1>1, <1>6, <2>4 DEF Claim
<1>7. ASSUME NEW w \in Workers, OutputBegin(w) \/ ReportBegin(w) \/ WorkerLost(w)
      PROVE  TypeOK' /\ UploadsAreAssets'
  <2>1. working[w] \in Jobs \cup {0}
    OBVIOUS
  <2> QED BY <1>1, <1>7, <2>1 DEF OutputBegin, ReportBegin, WorkerLost, Done
<1>8. ASSUME NEW j \in Jobs, OutputStore(j) \/ OutputInvalid(j)
      PROVE  TypeOK' /\ UploadsAreAssets'
  BY <1>1, <1>8 DEF OutputStore, OutputInvalid
<1>9. ASSUME NEW j \in Jobs, OutputFinish(j) \/ ReportFinish(j)
      PROVE  TypeOK' /\ UploadsAreAssets'
  <2>1. PICK status \in JobStatuses, output \in BOOLEAN :
          job' = [job EXCEPT ![j].status = status, ![j].output = output, ![j].lease = FALSE]
    BY <1>9 DEF OutputFinish, ReportFinish, JobStatuses
  <2> DEFINE one == [job EXCEPT ![j].status = status]
             two == [one EXCEPT ![j].output = output]
  <2>2. one \in [Jobs -> JobRow]
    BY StatusTyped
  <2>3. job' = [two EXCEPT ![j].lease = FALSE]
    BY <2>1
  <2> HIDE DEF one
  <2>4. two \in [Jobs -> JobRow]
    BY <2>2, OutputTyped
  <2> HIDE DEF two
  <2>5. job' \in [Jobs -> JobRow]
    BY <2>3, <2>4, LeaseTyped
  <2> QED BY <1>1, <1>9, <2>5 DEF OutputFinish, ReportFinish, Done, ProjectStatuses
<1>10. ASSUME Restart
       PROVE  TypeOK' /\ UploadsAreAssets'
  <2>1. BeingWritten \subseteq Assets \cup Jobs
    BY WrittenTyped
  <2>2. files' \subseteq Assets \cup Jobs
    BY <1>10, <2>1 DEF Restart
  <2> QED BY <1>10, <2>2 DEF Restart, Ready, ClientPlaces, RenderPlaces, UploadsAreAssets
<1> HIDE DEF TypeOK, Leases, database, history, threads
<1> QED BY <1>3, <1>4, <1>5, <1>6, <1>7, <1>8, <1>9, <1>10 DEF Rendering, External

(* One row changes: the jobs stay numbered in order.                       *)
LEMMA OneRow ==
  ASSUME Leases, NEW k \in Existing, job'[k].status # "ABSENT",
         \A i \in Jobs \ {k} : job'[i] = job[i]
  PROVE  Existing' = Existing /\ NumberedInOrder'
<1>1. Existing' = Existing
  BY DEF Existing
<1> QED BY <1>1 DEF Leases, NumberedInOrder

LEMMA NoRow ==
  ASSUME Leases, job' = job
  PROVE  Existing' = Existing /\ NumberedInOrder' /\ LeasesAreExternal'
<1>1. Existing' = Existing
  BY DEF Existing
<1> QED BY <1>1 DEF Leases, NumberedInOrder, LeasesAreExternal

Kept == RenderIsLocal' /\ UploadsAreExternal' /\ LeasesAreExternal' /\ ReportsExist' /\ NumberedInOrder'

(* The render thread changes the row of its own job, which has no lease.    *)
LEMMA RenderRow ==
  ASSUME Leases, NEW k \in Existing, job[k].engine = "proof_render",
         NEW status \in JobStatuses \ {"ABSENT"}, NEW output \in BOOLEAN,
         job' = UpdatedJob(k, status, output) \/ job' = [job EXCEPT ![k].status = status],
         render'.pc # "idle" => render'.job = k,
         UNCHANGED <<upload, report>>
  PROVE  Kept
<1>1. /\ k \in Jobs
      /\ job'[k].status = status /\ job'[k].engine = "proof_render" /\ job'[k].lease = job[k].lease
      /\ \A i \in Jobs \ {k} : job'[i] = job[i]
  BY DEF Existing, UpdatedJob, Leases, TypeOK, JobRow
<1>2. ~job[k].lease
  BY <1>1 DEF Leases, LeasesAreExternal
<1>3. Existing' = Existing /\ NumberedInOrder'
  BY <1>1, OneRow
<1>4. RenderIsLocal'
  BY <1>1, <1>3 DEF RenderIsLocal
<1>5. UploadsAreExternal'
  BY <1>1, <1>3 DEF UploadsAreExternal, Leases
<1>6. LeasesAreExternal'
  BY <1>1, <1>2 DEF LeasesAreExternal, Leases, TypeOK, JobRow
<1>7. ReportsExist'
  BY <1>3 DEF ReportsExist, Leases
<1> QED BY <1>3, <1>4, <1>5, <1>6, <1>7 DEF Kept

LEMMA RenderingKeeps ==
  ASSUME Leases, Rendering
  PROVE  Kept
<1>1. ASSUME NEW j \in Jobs, RenderPick(j)
      PROVE  Kept
  <2>1. j \in Existing /\ job[j].engine = "proof_render"
    BY <1>1 DEF RenderPick, Oldest, Existing
  <2> QED BY <1>1, <2>1, RenderRow DEF RenderPick, JobStatuses
<1>2. ASSUME RenderStart \/ RenderMark \/ RenderComplete \/ RenderFails
      PROVE  Kept
  <2>1. render.job \in Existing /\ job[render.job].engine = "proof_render"
    BY <1>2 DEF RenderStart, RenderMark, RenderComplete, RenderFails, Leases, RenderIsLocal
  <2>2. render'.pc # "idle" => render'.job = render.job
    <3>1. render \in [pc : RenderPlaces, job : Jobs \cup {0}]
      BY DEF Leases, TypeOK
    <3>2. RenderFails \/ \E place \in RenderPlaces : RenderTo(place)
      BY <1>2 DEF RenderStart, RenderMark, RenderComplete, RenderPlaces
    <3>3. ASSUME NEW place \in RenderPlaces, RenderTo(place)
          PROVE  render'.job = render.job
      BY <3>1, <3>3 DEF RenderTo
    <3>4. RenderFails => render'.pc = "idle"
      BY DEF RenderFails
    <3> QED BY <3>2, <3>3, <3>4
  <2>3. \E status \in JobStatuses \ {"ABSENT"}, output \in BOOLEAN : job' = UpdatedJob(render.job, status, output)
    BY <1>2 DEF RenderStart, RenderMark, RenderComplete, RenderFails, JobStatuses
  <2>4. UNCHANGED <<upload, report>>
    BY <1>2 DEF RenderStart, RenderMark, RenderComplete, RenderFails
  <2> QED BY <2>1, <2>2, <2>3, <2>4, RenderRow
<1>3. ASSUME RenderLoad \/ RenderEncode \/ RenderAnnounce
      PROVE  Kept
  <2>1. UNCHANGED <<job, upload, report>> /\ (render'.pc # "idle" => render'.job = render.job /\ render.pc # "idle")
    BY <1>3 DEF RenderLoad, RenderEncode, RenderAnnounce, RenderTo, database, Leases, TypeOK
  <2> QED BY <2>1, NoRow DEF Kept, RenderIsLocal, UploadsAreExternal, ReportsExist, Leases
<1> QED BY <1>1, <1>2, <1>3 DEF Rendering

(* A worker's requests change the row of a job that a worker could claim,  *)
(* or of one that a report is for.                                         *)
LEMMA ExternalKeeps ==
  ASSUME Leases, External
  PROVE  Kept
<1>1. ASSUME NEW w \in Workers, NEW j \in Jobs, Claim(w, j)
      PROVE  Kept
  <2>1. /\ j \in Existing /\ job[j].engine = "external_clone"
        /\ job'[j].status = "claimed" /\ job'[j].worker = w /\ job'[j].engine = job[j].engine
        /\ \A i \in Jobs \ {j} : job'[i] = job[i]
        /\ UNCHANGED <<render, upload, report>>
    BY <1>1 DEF Claim, Oldest, Existing, Leases, TypeOK, JobRow
  <2>2. Existing' = Existing /\ NumberedInOrder'
    BY <2>1, OneRow
  <2>3. LeasesAreExternal'
    BY <2>1 DEF LeasesAreExternal, Leases
  <2>4. \A i \in Existing : job'[i].engine = job[i].engine
    BY <2>1 DEF Existing
  <2>5. RenderIsLocal' /\ UploadsAreExternal' /\ ReportsExist'
    BY <2>1, <2>2, <2>4 DEF RenderIsLocal, UploadsAreExternal, ReportsExist, Leases
  <2> QED BY <2>2, <2>3, <2>5 DEF Kept
<1>2. ASSUME NEW w \in Workers, OutputBegin(w) \/ ReportBegin(w) \/ WorkerLost(w)
      PROVE  Kept
  <2>1. ASSUME NEW j \in Jobs, HoldsLease(w, j)
        PROVE  j \in Existing /\ job[j].engine = "external_clone"
    BY <2>1 DEF HoldsLease, Existing, Leases, LeasesAreExternal
  <2>2. UNCHANGED <<job, render>>
    BY <1>2 DEF OutputBegin, ReportBegin, WorkerLost, database
  <2>3. working[w] \in Jobs \cup {0} /\ upload \in [Jobs -> {"none", "writing", "stored"}]
    BY DEF Leases, TypeOK
  <2>4. \A j \in Jobs : upload'[j] # "none" => upload[j] # "none" \/ HoldsLease(w, j)
    BY <1>2, <2>3 DEF OutputBegin, ReportBegin, WorkerLost
  <2>5. \A j \in report' : j \in report \/ (j \in Jobs /\ HoldsLease(w, j))
    BY <1>2, <2>3 DEF OutputBegin, ReportBegin, WorkerLost
  <2> QED BY <2>1, <2>2, <2>4, <2>5, NoRow DEF Kept, RenderIsLocal, UploadsAreExternal, ReportsExist, Leases
<1>3. ASSUME NEW j \in Jobs, OutputStore(j) \/ OutputInvalid(j)
      PROVE  Kept
  <2>1. UNCHANGED <<job, render, report>> /\ (\A i \in Jobs : upload'[i] # "none" => upload[i] # "none")
    BY <1>3 DEF OutputStore, OutputInvalid, database, Leases, TypeOK
  <2> QED BY <2>1, NoRow DEF Kept, RenderIsLocal, UploadsAreExternal, ReportsExist, Leases
<1>4. ASSUME NEW j \in Jobs, OutputFinish(j) \/ ReportFinish(j)
      PROVE  Kept
  <2>1. j \in Existing
    BY <1>4 DEF OutputFinish, ReportFinish, Leases, UploadsAreExternal, ReportsExist
  <2>2. /\ job'[j].status # "ABSENT" /\ ~job'[j].lease /\ job'[j].engine = job[j].engine
        /\ \A i \in Jobs \ {j} : job'[i] = job[i]
    BY <1>4 DEF OutputFinish, ReportFinish, Leases, TypeOK, JobRow
  <2>3. /\ UNCHANGED render /\ report' \subseteq report
        /\ \A i \in Jobs : upload'[i] # "none" => upload[i] # "none"
    BY <1>4 DEF OutputFinish, ReportFinish, Leases, TypeOK
  <2>4. Existing' = Existing /\ NumberedInOrder'
    BY <2>1, <2>2, OneRow
  <2> QED BY <2>1, <2>2, <2>3, <2>4 DEF Kept, RenderIsLocal, UploadsAreExternal, LeasesAreExternal, ReportsExist, Leases, Existing
<1> QED BY <1>1, <1>2, <1>3, <1>4 DEF External

(* A client adds a job that is in no hand, or cancels them all.            *)
LEMMA PublicKeeps ==
  ASSUME Leases, NEW c \in Clients, Public(c)
  PROVE  Kept
<1>1. UNCHANGED <<render, upload, report>>
  BY PublicTyped DEF Bystander
<1>2. CASE job' = job
  BY <1>1, <1>2, NoRow DEF Kept, RenderIsLocal, UploadsAreExternal, ReportsExist, Leases
<1>3. CASE job' = [j \in Jobs |-> IF j \in Existing THEN Canceled(job[j]) ELSE job[j]]
  <2>1. \A j \in Jobs :
          /\ job'[j].engine = job[j].engine
          /\ job'[j].status = IF j \in Existing THEN "canceled" ELSE job[j].status
          /\ job'[j].lease = IF j \in Existing THEN FALSE ELSE job[j].lease
          /\ job'[j].worker = job[j].worker
    <3>1. \A row \in JobRow :
            /\ Canceled(row).engine = row.engine /\ Canceled(row).status = "canceled"
            /\ Canceled(row).lease = FALSE /\ Canceled(row).worker = row.worker
      BY DEF Canceled, JobRow
    <3>2. \A j \in Jobs : job[j] \in JobRow
      BY DEF Leases, TypeOK
    <3> HIDE DEF Canceled
    <3> QED BY <1>3, <3>1, <3>2
  <2>2. Existing' = Existing
    BY <2>1 DEF Existing
  <2>3. \A j \in Jobs : job[j].lease => j \in Existing
    BY DEF Leases, LeasesAreExternal, Existing
  <2>4. LeasesAreExternal'
    BY <2>1, <2>3 DEF LeasesAreExternal
  <2>5. \A j \in Existing : job'[j].engine = job[j].engine
    BY <2>1 DEF Existing
  <2>6. RenderIsLocal' /\ UploadsAreExternal' /\ ReportsExist' /\ NumberedInOrder'
    BY <1>1, <2>2, <2>5 DEF RenderIsLocal, UploadsAreExternal, ReportsExist, NumberedInOrder, Leases
  <2> QED BY <2>4, <2>6 DEF Kept
<1>4. ASSUME NEW engine \in Engines, NEW k \in Jobs, NEW n \in 0..MaxJobs, Existing = 1..n, k = n + 1,
             job' = [job EXCEPT ![k] = [NoJob EXCEPT !.status = "queued", !.engine = engine]]
      PROVE  Kept
  <2>1. /\ job'[k].status = "queued" /\ ~job'[k].lease
        /\ \A i \in Jobs \ {k} : job'[i] = job[i]
    BY <1>4 DEF NoJob, Leases, TypeOK
  <2>2. k \notin Existing /\ Existing' = Existing \cup {k}
    <3>1. k \notin 1..n
      BY <1>4
    <3>2. Existing' = Existing \cup {k}
      BY <2>1 DEF Existing
    <3> QED BY <1>4, <3>1, <3>2
  <2>3. Existing' = 1..(n + 1) /\ n + 1 \in 0..MaxJobs
    BY <1>4, <2>2, MaxJobsAssumption DEF Jobs
  <2>4. NumberedInOrder'
    BY <2>3 DEF NumberedInOrder
  <2>5. \A j \in Existing : job'[j] = job[j] /\ j \in Jobs
    BY <2>1, <2>2 DEF Existing
  <2>6. RenderIsLocal' /\ UploadsAreExternal' /\ ReportsExist'
    BY <1>1, <2>2, <2>5 DEF RenderIsLocal, UploadsAreExternal, ReportsExist, Leases
  <2>7. LeasesAreExternal'
    BY <2>1 DEF LeasesAreExternal, Leases
  <2> QED BY <2>4, <2>6, <2>7 DEF Kept
<1> QED BY <1>2, <1>3, <1>4, PublicJobs

LEMMA LeasesHold == Spec => []Leases
<1>1. Init => Leases
  <2> SUFFICES ASSUME Init PROVE Leases
    OBVIOUS
  <2>1. TypeOK
    BY DEF Init, TypeOK, NoJob, JobRow, JobStatuses, Engines, Ready, ClientPlaces, RenderPlaces, ProjectStatuses
  <2>2. Existing = {}
    BY DEF Init, Existing, NoJob
  <2>3. 1..0 = {} /\ 0 \in 0..MaxJobs
    BY MaxJobsAssumption
  <2>4. NumberedInOrder
    BY <2>2, <2>3 DEF NumberedInOrder
  <2> QED BY <2>1, <2>4 DEF Init, Leases, RenderIsLocal, UploadsAreExternal, LeasesAreExternal, ReportsExist,
                            UploadsAreAssets, NoJob, Ready
<1>2. Leases /\ [Next]_vars => Leases'
  <2> SUFFICES ASSUME Leases, [Next]_vars PROVE Leases'
    OBVIOUS
  <2>1. ASSUME NEW c \in Clients, Public(c)
        PROVE  Leases'
    BY <2>1, PublicMoves, PublicTyped, PublicKeeps DEF Leases, Kept
  <2>2. ASSUME Rendering \/ External
        PROVE  Leases'
    BY <2>2, ActorsTyped, RenderingKeeps, ExternalKeeps DEF Leases, Kept
  <2>3. ASSUME Restart
        PROVE  Leases'
    <3>1. TypeOK' /\ UploadsAreAssets'
      BY <2>3, ActorsTyped
    <3>2. UNCHANGED job /\ render'.pc = "idle" /\ (\A j \in Jobs : upload'[j] = "none") /\ report' = {}
      BY <2>3 DEF Restart, database
    <3> QED BY <3>1, <3>2, NoRow DEF Leases, RenderIsLocal, UploadsAreExternal, ReportsExist
  <2>4. ASSUME UNCHANGED vars
        PROVE  Leases'
    BY <2>4 DEF vars, database, threads, history, Leases, TypeOK, RenderIsLocal, UploadsAreExternal,
                LeasesAreExternal, ReportsExist, UploadsAreAssets, NumberedInOrder, Existing
  <2> QED BY <2>1, <2>2, <2>3, <2>4 DEF Next
<1> QED BY <1>1, <1>2, PTL DEF Spec
-----------------------------------------------------------------------------
(* What every step keeps: a settled job stays settled.                     *)
StaysSettled ==
  \A j \in Jobs : Settled(j) =>
    Settled(j)' /\ (job[j].status # "completed" => job'[j].status # "completed")

LEMMA MediaStays ==
  ASSUME IInv, StaysSettled, client' = client
  PROVE  MediaIsSettled'
  BY DEF IInv, Completions, MediaIsSettled, StaysSettled

(* A client's step that changes no job: an upload deletes assets only, a   *)
(* revocation only exports that no row promises any more.                  *)
LEMMA MediaStep ==
  ASSUME IInv, NEW c \in Clients, Public(c), job' = job
  PROVE  Completions'
<1>1. UNCHANGED <<render, upload>>
  BY PublicTyped DEF IInv, Bystander
<1>2. \A j \in Jobs : Settled(j)' <=> Settled(j)
  BY <1>1 DEF Settled, InHand
<1>3. \A j \in files \cap Jobs : j \in files' \/ (Settled(j) /\ job[j].status # "completed")
  <2>1. CASE UploadRecheck(c) /\ files' # files
    BY <2>1, AssetsAssumption DEF UploadRecheck, At, IInv, Leases, UploadsAreAssets
  <2>2. CASE RevokeDelete(c) \/ RevokeDeleteFails(c)
    <3>1. files \ client[c].media \subseteq files' /\ client[c].pc = "deleting"
      BY <2>2 DEF RevokeDelete, RevokeDeleteFails, At
    <3> QED BY <3>1 DEF IInv, Completions, MediaIsSettled
  <2>3. CASE ~RevokeDelete(c) /\ ~RevokeDeleteFails(c) /\ ~UploadRecheck(c)
    BY <2>3 DEF Public, UploadBegin, UploadStore, UploadAbort, UploadInsert, QueueCheck, QueueInsert,
         DecideCheck, Decide, RevokeRead, RevokeCancel, RevokeFail, RevokeRecord
  <2> QED BY <2>1, <2>2, <2>3
<1>4. CompletedIsSettled'
  BY <1>2, <1>3 DEF IInv, Completions, CompletedIsSettled
<1>5. OutputIsCompleted'
  BY DEF IInv, Completions, OutputIsCompleted
<1>6. WrittenIsThere'
  <2>1. \A j \in Jobs : upload[j] = "stored" => ~Settled(j)
    BY DEF Settled, InHand
  <2>2. render.pc = "encoded" => render.job \in Jobs /\ ~Settled(render.job)
    BY DEF Settled, InHand, IInv, Leases, RenderIsLocal, Existing
  <2> QED BY <1>1, <1>3, <2>1, <2>2 DEF IInv, Completions, WrittenIsThere
<1>7. MediaIsSettled'
  <2>1. \A d \in Clients \ {c} : client'[d] = client[d]
    BY PublicMoves DEF IInv
  <2>2. client'[c].pc \in {"revoking", "deleting"} =>
          RevokeRead(c) \/ RevokeCancel(c)
    <3>1. client \in [Clients -> [pc : ClientPlaces, media : SUBSET (Assets \cup Jobs)]]
      BY DEF IInv, Leases, TypeOK
    <3>2. ASSUME ~RevokeRead(c), ~RevokeCancel(c)
          PROVE  \/ \E a \in Assets : client' = [client EXCEPT ![c] = [pc |-> "writing", media |-> {a}]]
                 \/ client' = [client EXCEPT ![c] = Ready]
                 \/ \E place \in ClientPlaces \ {"revoking", "deleting"} : client' = [client EXCEPT ![c].pc = place]
      BY <3>2 DEF Public, UploadBegin, UploadStore, UploadAbort, UploadRecheck, UploadInsert, QueueCheck,
           QueueInsert, DecideCheck, Decide, RevokeDelete, RevokeDeleteFails, RevokeFail, RevokeRecord,
           GotoWith, Goto, Answer, ClientPlaces
    <3> QED BY <3>1, <3>2 DEF Ready
  <2>3. CASE RevokeRead(c)
    <3>1. client'[c].pc = "revoking" /\ client'[c].media = rows \cup {j \in Jobs : job[j].output}
      BY <2>3 DEF RevokeRead, GotoWith, IInv, Leases, TypeOK
    <3>2. rows \cap Jobs = {}
      BY AssetsAssumption DEF IInv, Leases, TypeOK
    <3>3. \A j \in Jobs \cap client'[c].media : Settled(j)
      BY <3>1, <3>2 DEF IInv, Completions, OutputIsCompleted, CompletedIsSettled
    <3> QED BY <1>2, <2>1, <3>1, <3>3 DEF IInv, Completions, MediaIsSettled
  <2>4. CASE RevokeCancel(c)
    <3>1. client'[c].media = client[c].media /\ client[c].pc = "revoking"
      BY <2>4 DEF RevokeCancel, Goto, At, IInv, Leases, TypeOK
    <3>2. \A j \in Jobs : Settled(j) => job'[j].status = "canceled"
      <4>1. \A row \in JobRow : Canceled(row).status = "canceled"
        BY DEF Canceled, JobRow
      <4>2. \A j \in Jobs : job[j] \in JobRow /\ (Settled(j) => j \in Existing)
        BY DEF IInv, Leases, TypeOK, Settled, Existing
      <4> HIDE DEF Canceled
      <4> QED BY <2>4, <4>1, <4>2 DEF RevokeCancel
    <3> QED BY <1>2, <2>1, <3>1, <3>2 DEF IInv, Completions, MediaIsSettled
  <2>5. CASE ~RevokeRead(c) /\ ~RevokeCancel(c)
    BY <1>2, <2>1, <2>2, <2>5 DEF IInv, Completions, MediaIsSettled
  <2> QED BY <2>3, <2>4, <2>5
<1> QED BY <1>4, <1>5, <1>6, <1>7 DEF Completions

(* The cancellation: no job is completed any more.                         *)
LEMMA CancelStep ==
  ASSUME IInv, NEW c \in Clients, RevokeCancel(c)
  PROVE  Completions'
<1>1. UNCHANGED <<files, render, upload>>
  BY DEF RevokeCancel
<1>2. /\ \A j \in Existing : job'[j].status = "canceled" /\ ~job'[j].output
      /\ \A j \in Jobs \ Existing : job'[j] = job[j]
  <2>1. \A row \in JobRow : Canceled(row).status = "canceled" /\ ~Canceled(row).output
    BY DEF Canceled, JobRow
  <2>2. \A j \in Jobs : job[j] \in JobRow
    BY DEF IInv, Leases, TypeOK
  <2> HIDE DEF Canceled
  <2> QED BY <2>1, <2>2 DEF RevokeCancel, Existing
<1>3. \A j \in Jobs : job'[j].status # "completed" /\ ~job'[j].output
  BY <1>2 DEF Existing, IInv, Completions, OutputIsCompleted
<1>4. \A j \in Jobs : Settled(j) => Settled(j)'
  BY <1>1, <1>2 DEF Settled, InHand, Existing
<1>5. MediaIsSettled'
  <2>1. client[c].pc = "revoking" /\ client' = [client EXCEPT ![c].pc = "deleting"]
    BY DEF RevokeCancel, At, Goto
  <2>2. \A d \in Clients : client'[d].media = client[d].media
                          /\ (client'[d].pc \in {"revoking", "deleting"} => client[d].pc \in {"revoking", "deleting"})
    BY <2>1 DEF IInv, Leases, TypeOK
  <2> QED BY <1>3, <1>4, <2>2 DEF IInv, Completions, MediaIsSettled
<1> QED BY <1>1, <1>3, <1>5 DEF IInv, Completions, CompletedIsSettled, OutputIsCompleted, WrittenIsThere

(* A new job is queued: it was in no hand.                                 *)
LEMMA QueueStep ==
  ASSUME IInv, NEW c \in Clients, NEW engine \in Engines, NEW k \in Jobs, QueueInsert(c, engine),
         k \notin Existing, job' = [job EXCEPT ![k] = [NoJob EXCEPT !.status = "queued", !.engine = engine]]
  PROVE  Completions'
<1>1. UNCHANGED <<files, render, upload>>
  BY DEF QueueInsert
<1>2. /\ job'[k].status = "queued" /\ ~job'[k].output
      /\ \A i \in Jobs \ {k} : job'[i] = job[i]
  BY DEF NoJob, IInv, Leases, TypeOK
<1>3. \A j \in Jobs : Settled(j) => j # k
  BY DEF Settled, Existing
<1>4. \A j \in Jobs : Settled(j) => Settled(j)' /\ job'[j] = job[j]
  BY <1>1, <1>2, <1>3 DEF Settled, InHand
<1>5. MediaIsSettled'
  <2>1. client' = [client EXCEPT ![c] = Ready]
    BY DEF QueueInsert, Answer
  <2>2. \A d \in Clients : client'[d] = client[d] \/ client'[d].pc = "idle"
    BY <2>1 DEF IInv, Leases, TypeOK, Ready
  <2> QED BY <1>4, <2>2 DEF IInv, Completions, MediaIsSettled
<1>6. CompletedIsSettled' /\ OutputIsCompleted'
  BY <1>1, <1>2, <1>4 DEF IInv, Completions, CompletedIsSettled, OutputIsCompleted
<1> QED BY <1>1, <1>5, <1>6 DEF IInv, Completions, WrittenIsThere
-----------------------------------------------------------------------------
(* The render thread writes only to the job it has in hand, and to no other *)
(* file.                                                                   *)
LEMMA RenderWrites ==
  ASSUME IInv, NEW k \in Jobs, ~Settled(k), upload[k] = "none",
         NEW status \in JobStatuses, NEW output \in BOOLEAN,
         job' = UpdatedJob(k, status, output) \/ (job' = [job EXCEPT ![k].status = status] /\ output = job[k].output),
         status = "completed" <=> output,
         UNCHANGED <<client, upload>>, files \subseteq files',
         render'.pc # "idle" => render'.job = k,
         status = "completed" => k \in files' /\ render'.pc \notin {"picked", "loading", "prepared", "encoding", "encoded"},
         render'.pc # "encoded"
  PROVE  Completions'
<1>1. /\ job'[k].status = status /\ job'[k].output = output
      /\ \A i \in Jobs \ {k} : job'[i] = job[i]
  BY DEF UpdatedJob, IInv, Leases, TypeOK, JobRow
<1>2. \A j \in Jobs : Settled(j) => j # k /\ Settled(j)'
  BY <1>1 DEF Settled, InHand
<1>3. StaysSettled
  BY <1>1, <1>2 DEF StaysSettled
<1>4. status = "completed" => Settled(k)'
  BY <1>1 DEF Settled, InHand
<1>5. CompletedIsSettled'
  BY <1>1, <1>2, <1>4 DEF IInv, Completions, CompletedIsSettled
<1>6. OutputIsCompleted'
  BY <1>1 DEF IInv, Completions, OutputIsCompleted
<1>7. WrittenIsThere'
  BY DEF IInv, Completions, WrittenIsThere
<1> QED BY <1>3, <1>5, <1>6, <1>7, MediaStays DEF Completions

LEMMA RenderJob ==
  ASSUME IInv, render.pc # "idle"
  PROVE  /\ render.job \in Jobs /\ upload[render.job] = "none"
         /\ render.pc \in {"picked", "loading", "prepared", "encoding", "encoded"} => ~Settled(render.job)
<1>1. render.job \in Existing /\ job[render.job].engine = "proof_render"
  BY DEF IInv, Leases, RenderIsLocal
<1> QED BY <1>1 DEF Existing, IInv, Leases, UploadsAreExternal, Settled, InHand

LEMMA RenderingStep ==
  ASSUME IInv, Rendering
  PROVE  Completions'
<1>1. ASSUME NEW j \in Jobs, RenderPick(j)
      PROVE  Completions'
  <2>1. /\ job[j].status = "queued" /\ j \in Existing /\ job[j].engine = "proof_render"
        /\ render' = [pc |-> "picked", job |-> j]
        /\ job' = [job EXCEPT ![j].status = "starting"]
        /\ UNCHANGED <<client, upload, files>>
    BY <1>1 DEF RenderPick, Oldest, Existing
  <2>2. ~Settled(j) /\ upload[j] = "none" /\ ~job[j].output
    BY <2>1 DEF Settled, IInv, Leases, UploadsAreExternal, Completions, OutputIsCompleted
  <2>3. /\ job' = [job EXCEPT ![j].status = "starting"] /\ FALSE = job[j].output
        /\ files \subseteq files' /\ UNCHANGED <<client, upload>>
    BY <2>1, <2>2
  <2>4. render'.job = j /\ render'.pc = "picked"
    BY <2>1
  <2>5. "starting" \in JobStatuses /\ FALSE \in BOOLEAN
    BY DEF JobStatuses
  <2>6. ~Settled(j) /\ upload[j] = "none"
    BY <2>2
  <2> HIDE DEF JobStatuses
  <2> QED BY <1>1, <2>3, <2>4, <2>5, <2>6, RenderWrites
<1>2. CASE RenderStart \/ RenderMark
  <2>1. /\ render.pc \in {"picked", "prepared"} /\ job' = UpdatedJob(render.job, "running", FALSE)
        /\ UNCHANGED <<client, upload, files>>
        /\ RenderTo("loading") \/ RenderTo("encoding")
    BY <1>2 DEF RenderStart, RenderMark
  <2>2. render'.pc \in {"loading", "encoding"} /\ render'.job = render.job
    BY <2>1 DEF RenderTo, IInv, Leases, TypeOK
  <2> QED BY <2>1, <2>2, RenderJob, RenderWrites DEF JobStatuses
<1>3. CASE RenderComplete
  <2>1. /\ render.pc = "encoded" /\ job' = UpdatedJob(render.job, "completed", TRUE)
        /\ UNCHANGED <<client, upload, files>>
        /\ RenderTo("announcing")
    BY <1>3 DEF RenderComplete
  <2>2. render'.pc = "announcing" /\ render'.job = render.job
    BY <2>1 DEF RenderTo, IInv, Leases, TypeOK
  <2>3. render.job \in files
    BY <2>1 DEF IInv, Completions, WrittenIsThere
  <2> QED BY <2>1, <2>2, <2>3, RenderJob, RenderWrites DEF JobStatuses
<1>4. CASE RenderFails
  <2>1. /\ render.pc \in {"loading", "prepared", "encoding"} /\ job' = UpdatedJob(render.job, "failed", FALSE)
        /\ UNCHANGED <<client, upload>> /\ files \subseteq files'
        /\ render'.pc = "idle"
    BY <1>4 DEF RenderFails
  <2> QED BY <2>1, RenderJob, RenderWrites DEF JobStatuses
<1>5. CASE RenderLoad \/ RenderEncode \/ RenderAnnounce
  <2>1. /\ UNCHANGED <<job, client, upload>> /\ files \subseteq files'
        /\ render'.pc = "encoded" => render.job \in files'
        /\ render'.pc # "idle" => render.pc \in {"loading", "encoding"} /\ render'.job = render.job
    BY <1>5 DEF RenderLoad, RenderEncode, RenderAnnounce, RenderTo, database, IInv, Leases, TypeOK
  <2>2. \A j \in Jobs : Settled(j) => Settled(j)'
    BY <2>1 DEF Settled, InHand
  <2>3. StaysSettled
    BY <2>1, <2>2 DEF StaysSettled
  <2>4. CompletedIsSettled' /\ OutputIsCompleted'
    BY <2>1, <2>2 DEF IInv, Completions, CompletedIsSettled, OutputIsCompleted
  <2>5. WrittenIsThere'
    BY <2>1 DEF IInv, Completions, WrittenIsThere
  <2> QED BY <2>1, <2>3, <2>4, <2>5, MediaStays DEF Completions
<1> QED BY <1>1, <1>2, <1>3, <1>4, <1>5 DEF Rendering

(* A worker's requests: the job of an upload is in hand, and a job that is  *)
(* settled is reported on or uploaded to no more.                          *)
LEMMA ExternalStep ==
  ASSUME IInv, External
  PROVE  Completions'
<1>1. ASSUME NEW w \in Workers, NEW j \in Jobs, Claim(w, j)
      PROVE  Completions'
  <2>1. /\ job[j].status = "queued"
        /\ job'[j].status = "claimed" /\ job'[j].output = job[j].output
        /\ \A i \in Jobs \ {j} : job'[i] = job[i]
        /\ UNCHANGED <<client, upload, files, render>>
    BY <1>1 DEF Claim, Oldest, IInv, Leases, TypeOK, JobRow
  <2>2. \A i \in Jobs : Settled(i) => i # j /\ Settled(i)'
    BY <2>1 DEF Settled, InHand
  <2>3. StaysSettled
    BY <2>1, <2>2 DEF StaysSettled
  <2>4. ~job[j].output
    BY <2>1 DEF IInv, Completions, OutputIsCompleted
  <2>5. CompletedIsSettled' /\ OutputIsCompleted'
    BY <2>1, <2>2, <2>4 DEF IInv, Completions, CompletedIsSettled, OutputIsCompleted
  <2>6. WrittenIsThere'
    BY <2>1 DEF IInv, Completions, WrittenIsThere
  <2> QED BY <2>1, <2>3, <2>5, <2>6, MediaStays DEF Completions
<1>2. ASSUME NEW w \in Workers, OutputBegin(w) \/ ReportBegin(w) \/ WorkerLost(w)
      PROVE  Completions'
  <2>1. UNCHANGED <<job, files, client, render>>
    BY <1>2 DEF OutputBegin, ReportBegin, WorkerLost, database
  <2>2. working[w] \in Jobs \cup {0} /\ upload \in [Jobs -> {"none", "writing", "stored"}]
    BY DEF IInv, Leases, TypeOK
  <2>3. \A j \in Jobs : upload'[j] = upload[j] \/ (upload'[j] = "writing" /\ job[j].status = "claimed")
    BY <1>2, <2>2 DEF OutputBegin, ReportBegin, WorkerLost, HoldsLease
  <2>4. \A j \in Jobs : Settled(j) => Settled(j)'
    BY <2>1, <2>3 DEF Settled, InHand
  <2>5. StaysSettled
    BY <2>1, <2>4 DEF StaysSettled
  <2>6. CompletedIsSettled' /\ OutputIsCompleted'
    BY <2>1, <2>4 DEF IInv, Completions, CompletedIsSettled, OutputIsCompleted
  <2>7. WrittenIsThere'
    BY <2>1, <2>3 DEF IInv, Completions, WrittenIsThere
  <2> QED BY <2>1, <2>5, <2>6, <2>7, MediaStays DEF Completions
<1>3. ASSUME NEW j \in Jobs, OutputStore(j) \/ OutputInvalid(j)
      PROVE  Completions'
  <2>1. /\ UNCHANGED <<job, client, render>> /\ upload[j] # "none"
        /\ \A i \in Jobs \ {j} : upload'[i] = upload[i] /\ (i \in files => i \in files')
        /\ upload'[j] = "none" \/ (upload'[j] = "stored" /\ j \in files')
    BY <1>3 DEF OutputStore, OutputInvalid, database, IInv, Leases, TypeOK
  <2>2. \A i \in Jobs : Settled(i) => i # j /\ Settled(i)'
    BY <2>1 DEF Settled, InHand
  <2>3. StaysSettled
    BY <2>1, <2>2 DEF StaysSettled
  <2>4. CompletedIsSettled' /\ OutputIsCompleted'
    BY <2>1, <2>2 DEF IInv, Completions, CompletedIsSettled, OutputIsCompleted
  <2>5. WrittenIsThere'
    <3>1. render.pc = "encoded" => render.job \in Jobs \ {j}
      BY <2>1, RenderJob
    <3> QED BY <2>1, <3>1 DEF IInv, Completions, WrittenIsThere
  <2> QED BY <2>1, <2>3, <2>4, <2>5, MediaStays DEF Completions
<1>4. ASSUME NEW j \in Jobs, OutputFinish(j)
      PROVE  Completions'
  <2>1. /\ UNCHANGED <<files, client, render>> /\ upload[j] = "stored" /\ upload'[j] = "none"
        /\ job'[j].status = "completed" /\ job'[j].output
        /\ \A i \in Jobs \ {j} : job'[i] = job[i] /\ upload'[i] = upload[i]
    BY <1>4 DEF OutputFinish, IInv, Leases, TypeOK, JobRow
  <2>2. \A i \in Jobs : Settled(i) => i # j /\ Settled(i)'
    BY <2>1 DEF Settled, InHand
  <2>3. StaysSettled
    BY <2>1, <2>2 DEF StaysSettled
  <2>4. Settled(j)'
    <3>1. render.pc = "idle" \/ render.job # j
      BY <2>1, RenderJob
    <3> QED BY <2>1, <3>1 DEF Settled, InHand
  <2>5. j \in files
    BY <2>1 DEF IInv, Completions, WrittenIsThere
  <2>6. CompletedIsSettled' /\ OutputIsCompleted'
    BY <2>1, <2>2, <2>4, <2>5 DEF IInv, Completions, CompletedIsSettled, OutputIsCompleted
  <2>7. WrittenIsThere'
    BY <2>1 DEF IInv, Completions, WrittenIsThere
  <2> QED BY <2>1, <2>3, <2>6, <2>7, MediaStays DEF Completions
<1>5. ASSUME NEW j \in Jobs, ReportFinish(j)
      PROVE  Completions'
  <2>1. /\ UNCHANGED <<files, client, render, upload>>
        /\ job'[j].status = "failed" /\ ~job'[j].output
        /\ \A i \in Jobs \ {j} : job'[i] = job[i]
    BY <1>5 DEF ReportFinish, IInv, Leases, TypeOK, JobRow
  <2>2. \A i \in Jobs : Settled(i) => Settled(i)'
    BY <2>1 DEF Settled, InHand
  <2>3. StaysSettled
    BY <2>1, <2>2 DEF StaysSettled
  <2>4. CompletedIsSettled' /\ OutputIsCompleted'
    BY <2>1, <2>2 DEF IInv, Completions, CompletedIsSettled, OutputIsCompleted
  <2>5. WrittenIsThere'
    BY <2>1 DEF IInv, Completions, WrittenIsThere
  <2> QED BY <2>1, <2>3, <2>4, <2>5, MediaStays DEF Completions
<1> QED BY <1>1, <1>2, <1>3, <1>4, <1>5 DEF External

(* A restart leaves every job in no hand.                                  *)
LEMMA RestartStep ==
  ASSUME IInv, Restart
  PROVE  Completions'
<1>1. /\ UNCHANGED job /\ files \subseteq files' /\ render'.pc = "idle"
      /\ \A j \in Jobs : upload'[j] = "none"
      /\ \A c \in Clients : client'[c].pc = "idle"
  BY DEF Restart, database, Ready
<1>2. \A j \in Jobs : Settled(j) => Settled(j)'
  BY <1>1 DEF Settled, InHand
<1> QED BY <1>1, <1>2 DEF IInv, Completions, CompletedIsSettled, OutputIsCompleted, WrittenIsThere, MediaIsSettled

LEMMA CompletionsHold == Spec => []IInv
<1>1. Init => Completions
  BY DEF Init, Completions, CompletedIsSettled, OutputIsCompleted, WrittenIsThere, MediaIsSettled, NoJob, Ready
<1>2. IInv /\ [Next]_vars => Completions'
  <2> SUFFICES ASSUME IInv, [Next]_vars PROVE Completions'
    OBVIOUS
  <2>1. ASSUME NEW c \in Clients, Public(c)
        PROVE  Completions'
    <3>1. CASE job' = job
      BY <2>1, <3>1, MediaStep
    <3>2. CASE RevokeCancel(c)
      BY <3>2, CancelStep
    <3>3. ASSUME NEW engine \in Engines, NEW k \in Jobs, NEW n \in 0..MaxJobs, QueueInsert(c, engine),
                 Existing = 1..n, k = n + 1,
                 job' = [job EXCEPT ![k] = [NoJob EXCEPT !.status = "queued", !.engine = engine]]
          PROVE  Completions'
      <4>1. k \notin Existing
        BY <3>3
      <4> QED BY <3>3, <4>1, QueueStep
    <3> QED BY <2>1, <3>1, <3>2, <3>3, PublicJobs DEF IInv
  <2>2. ASSUME UNCHANGED vars
        PROVE  Completions'
    <3>1. UNCHANGED <<job, files, client, render, upload>>
      BY <2>2 DEF vars, database, threads
    <3>2. \A j \in Jobs : Settled(j)' <=> Settled(j)
      BY <3>1 DEF Settled, InHand
    <3> QED BY <3>1, <3>2 DEF IInv, Completions, CompletedIsSettled, OutputIsCompleted, WrittenIsThere, MediaIsSettled
  <2> QED BY <2>1, <2>2, RenderingStep, ExternalStep, RestartStep DEF Next
<1> QED BY <1>1, <1>2, LeasesHold, PTL DEF Spec, IInv
-----------------------------------------------------------------------------
(* After a revocation that began with nothing else under way, only further  *)
(* revocations can run, and one that is deleting has all that is left.      *)
Concluded ==
  /\ Blocked
  /\ \A j \in Existing : job[j].status = "canceled"
  /\ render.pc = "idle" /\ report = {} /\ \A j \in Jobs : upload[j] = "none"
  /\ \A c \in Clients : client[c].pc \in {"idle", "revoking", "deleting", "recording"}
  /\ files = {} \/ \E c \in Clients : At(c, "deleting") /\ files \subseteq client[c].media
  /\ revocation => rows = {}

QuietIsConcluded == quiet /\ ~unfinished => Concluded

(* Canceling leaves canceled jobs only, and makes the project blocked.      *)
LEMMA CancelBlocks ==
  ASSUME TypeOK, NEW c \in Clients, RevokeCancel(c)
  PROVE  /\ Blocked'
         /\ \A j \in Existing' : job'[j].status = "canceled"
         /\ client[c].pc = "revoking" /\ client' = [client EXCEPT ![c].pc = "deleting"]
         /\ UNCHANGED <<rows, revocation, files, render, upload, report, unfinished>>
<1>1. \A row \in JobRow : Canceled(row).status = "canceled"
  BY DEF Canceled, JobRow
<1>2. \A j \in Jobs : job[j] \in JobRow
  BY DEF TypeOK
<1>3. \A j \in Jobs : j \in Existing => job'[j].status = "canceled"
  <2> HIDE DEF Canceled
  <2> QED BY <1>1, <1>2 DEF RevokeCancel
<1>4. \A j \in Jobs \ Existing : job'[j] = job[j]
  BY DEF RevokeCancel
<1>5. Blocked'
  BY DEF RevokeCancel, Blocked, REVOCATION_BLOCKED_STATES
<1> QED BY <1>3, <1>4, <1>5 DEF Existing, RevokeCancel, At, Goto

(* The revocation that begins alone.                                       *)
LEMMA QuietBegins ==
  ASSUME TypeOK, NEW c \in Clients, RevokeCancel(c), ~revocation, NothingElseUnderWay(c),
         files \subseteq client[c].media
  PROVE  Concluded'
<1>1. \A d \in Clients : client'[d].pc \in {"idle", "deleting"}
  BY CancelBlocks DEF TypeOK, NothingElseUnderWay, At
<1>2. client'[c].pc = "deleting" /\ client'[c].media = client[c].media
  BY CancelBlocks DEF TypeOK
<1>3. \E d \in Clients : At(d, "deleting")' /\ files' \subseteq client'[d].media
  BY <1>2, CancelBlocks DEF At
<1> QED BY <1>1, <1>3, CancelBlocks DEF Concluded, NothingElseUnderWay

(* What public requests can still do, and what it does.                    *)
LEMMA PublicConcluded ==
  ASSUME TypeOK, Concluded, NEW c \in Clients, Public(c), ~unfinished'
  PROVE  Concluded'
<1>1. RevokeRead(c) \/ RevokeCancel(c) \/ RevokeDelete(c) \/ RevokeRecord(c)
  <2>1. Blocked /\ client[c].pc \in {"idle", "revoking", "deleting", "recording"}
    BY DEF Concluded
  <2> QED BY <2>1 DEF Public, UploadBegin, UploadStore, UploadAbort, UploadRecheck, UploadInsert, QueueCheck,
        QueueInsert, DecideCheck, Decide, RevokeDeleteFails, RevokeFail, At
<1>2. CASE RevokeRead(c)
  <2>1. /\ UNCHANGED <<project, rows, job, revocation, files, render, upload, report>>
        /\ client[c].pc = "idle" /\ client'[c].pc = "revoking"
        /\ \A d \in Clients \ {c} : client'[d] = client[d]
    BY <1>2 DEF RevokeRead, database, GotoWith, At, TypeOK
  <2> QED BY <2>1 DEF Concluded, Blocked, Existing, At
<1>3. CASE RevokeCancel(c)
  <2>1. \A d \in Clients :
          /\ client'[d].media = client[d].media
          /\ client'[d].pc = client[d].pc \/ client'[d].pc = "deleting"
    BY <1>3, CancelBlocks DEF TypeOK
  <2> QED BY <1>3, <2>1, CancelBlocks DEF Concluded, At
<1>4. CASE RevokeDelete(c)
  <2>1. /\ UNCHANGED <<project, rows, job, revocation, render, upload, report>>
        /\ files' = files \ client[c].media
        /\ client[c].pc = "deleting" /\ client'[c].pc = "recording"
        /\ \A d \in Clients \ {c} : client'[d] = client[d]
    BY <1>4 DEF RevokeDelete, database, Goto, At, TypeOK
  <2>2. files' = {} \/ \E d \in Clients \ {c} : At(d, "deleting") /\ files \subseteq client[d].media
    BY <2>1 DEF Concluded
  <2> QED BY <2>1, <2>2 DEF Concluded, Blocked, Existing, At
<1>5. CASE RevokeRecord(c)
  <2>1. /\ UNCHANGED <<job, files, render, upload, report>>
        /\ client[c].pc = "recording" /\ client'[c].pc = "idle"
        /\ \A d \in Clients \ {c} : client'[d] = client[d]
    BY <1>5 DEF RevokeRecord, Answer, Ready, At, TypeOK
  <2>2. Blocked' /\ (revocation' => rows' = {})
    BY <1>5 DEF RevokeRecord, Concluded, Blocked, REVOCATION_BLOCKED_STATES
  <2> QED BY <2>1, <2>2 DEF Concluded, Existing, At
<1> QED BY <1>1, <1>2, <1>3, <1>4, <1>5

(* The render thread finds no job, and a worker has lost its lease.        *)
LEMMA OthersConcluded ==
  ASSUME TypeOK, Concluded, Rendering \/ External \/ Restart, ~unfinished'
  PROVE  Concluded'
<1>1. /\ \A j \in Jobs : job[j].status \in {"ABSENT", "canceled"}
      /\ render.pc = "idle" /\ report = {} /\ \A j \in Jobs : upload[j] = "none"
  BY DEF Concluded, Existing
<1>2. ~Rendering
  BY <1>1 DEF Rendering, RenderPick, Oldest, RenderStart, RenderLoad, RenderMark, RenderEncode,
       RenderComplete, RenderAnnounce, RenderFails
<1>3. CASE External
  <2>1. \A w \in Workers, j \in Jobs : ~Claim(w, j) /\ ~HoldsLease(w, j)
    BY <1>1 DEF Claim, Oldest, HoldsLease
  <2>2. \A j \in Jobs : ~OutputStore(j) /\ ~OutputInvalid(j) /\ ~OutputFinish(j) /\ ~ReportFinish(j)
    BY <1>1 DEF OutputStore, OutputInvalid, OutputFinish, ReportFinish
  <2>3. PICK w \in Workers : OutputBegin(w) \/ ReportBegin(w) \/ WorkerLost(w)
    BY <1>3, <2>1, <2>2 DEF External
  <2>4. working[w] \in Jobs \cup {0}
    BY DEF TypeOK
  <2>5. UNCHANGED <<project, rows, job, revocation, files, client, render, upload, report>>
    BY <2>1, <2>3, <2>4 DEF OutputBegin, ReportBegin, WorkerLost, database
  <2> QED BY <2>5 DEF Concluded, Blocked, Existing, At
<1>4. CASE Restart
  <2>1. /\ UNCHANGED <<project, rows, job, revocation>>
        /\ render'.pc = "idle" /\ report' = {} /\ \A j \in Jobs : upload'[j] = "none"
        /\ \A c \in Clients : client'[c].pc = "idle" /\ ~At(c, "deleting")
    BY <1>4 DEF Restart, database, Ready
  <2>2. {d \in Clients : At(d, "writing")} = {}
    BY DEF Concluded, At
  <2>3. {j \in Jobs : upload[j] = "writing" \/ (render.pc = "encoding" /\ render.job = j)} = {}
    BY <1>1
  <2>4. BeingWritten = {}
    BY <2>2, <2>3 DEF BeingWritten
  <2>5. files = {} /\ files' = {}
    BY <1>4, <2>1, <2>4 DEF Restart, Concluded
  <2> QED BY <2>1, <2>5 DEF Concluded, Blocked, Existing
<1> QED BY <1>2, <1>3, <1>4

LEMMA QuietIsConcludedAlways == Spec => []QuietIsConcluded
<1>1. Init => QuietIsConcluded
  BY DEF Init, QuietIsConcluded
<1>2. TypeOK /\ QuietIsConcluded /\ [Next]_vars => QuietIsConcluded'
  <2> SUFFICES ASSUME TypeOK, QuietIsConcluded, [Next]_vars, quiet', ~unfinished'
               PROVE  Concluded'
    BY DEF QuietIsConcluded
  <2>1. ASSUME NEW c \in Clients, Public(c)
        PROVE  Concluded'
    <3>1. ~unfinished
      BY <2>1 DEF Public, UploadBegin, UploadStore, UploadAbort, UploadRecheck, UploadInsert, QueueCheck, QueueInsert,
           DecideCheck, Decide, RevokeRead, RevokeCancel, RevokeDelete, RevokeDeleteFails, RevokeFail,
           RevokeRecord, history
    <3>2. CASE quiet
      BY <2>1, <3>1, <3>2, PublicConcluded DEF QuietIsConcluded
    <3>3. CASE ~quiet
      <4>1. RevokeCancel(c) /\ ~revocation /\ NothingElseUnderWay(c) /\ files \subseteq client[c].media
        BY <2>1, <3>3 DEF Public, UploadBegin, UploadStore, UploadAbort, UploadRecheck, UploadInsert, QueueCheck,
             QueueInsert, DecideCheck, Decide, RevokeRead, RevokeCancel, RevokeDelete, RevokeDeleteFails, RevokeFail,
             RevokeRecord, history
      <4> QED BY <4>1, QuietBegins
    <3> QED BY <3>2, <3>3
  <2>2. ASSUME Rendering \/ External \/ Restart
        PROVE  Concluded'
    <3>1. quiet /\ ~unfinished
      <4>1. CASE Restart
        BY <4>1 DEF Restart
      <4>2. Rendering => quiet' = quiet /\ unfinished' = unfinished
        BY DEF Rendering, RenderPick, RenderStart, RenderLoad, RenderMark, RenderEncode, RenderComplete,
             RenderAnnounce, RenderFails, history
      <4>3. External => quiet' = quiet /\ unfinished' = unfinished
        BY DEF External, Claim, OutputBegin, OutputStore, OutputInvalid, OutputFinish, ReportBegin,
             ReportFinish, WorkerLost, history
      <4>4. CASE Rendering \/ External
        <5>1. quiet' = quiet /\ unfinished' = unfinished
          BY <4>2, <4>3, <4>4
        <5> QED BY <5>1
      <4> QED BY <2>2, <4>1, <4>4
    <3> QED BY <2>2, <3>1, OthersConcluded DEF QuietIsConcluded
  <2>3. ASSUME UNCHANGED vars
        PROVE  Concluded'
    <3>1. UNCHANGED <<project, rows, job, revocation, files, client, render, upload, report, quiet, unfinished>>
      BY <2>3 DEF vars, database, threads, history
    <3>2. Concluded
      BY <3>1 DEF QuietIsConcluded
    <3> QED BY <3>1, <3>2 DEF Concluded, Blocked, Existing, At
  <2> QED BY <2>1, <2>2, <2>3 DEF Next
<1> QED BY <1>1, <1>2, LeasesHold, PTL DEF Spec, Leases
-----------------------------------------------------------------------------
(* The tables, the files and the threads keep their types.                 *)
THEOREM StudioTypeOK == Spec => []TypeOK
<1>1. Leases => TypeOK
  BY DEF Leases
<1> QED BY <1>1, LeasesHold, PTL

(* routes_worker.py, routes_public.py, render.py: whoever ends a claim - the *)
(* upload, the failure report, a revocation - also ends its lease.          *)
THEOREM StudioLeaseEndsWithItsClaim == Spec => []LeaseEndsWithItsClaim
<1>1. Leases => LeaseEndsWithItsClaim
  BY DEF Leases, LeasesAreExternal, LeaseEndsWithItsClaim
<1> QED BY <1>1, LeasesHold, PTL

(* A job that can be downloaded has its export on disk, in spite of races   *)
(* between renders, uploads, reports, revocations and restarts.             *)
THEOREM StudioCompletedHasItsFile == Spec => []CompletedHasItsFile
<1>1. IInv => CompletedHasItsFile
  BY DEF IInv, Completions, CompletedIsSettled, CompletedHasItsFile
<1> QED BY <1>1, CompletionsHold, PTL
(* revoke_project: a revocation that cancels while nothing else is under    *)
(* way, and none of whose deletions fails, is final.  What is tried after   *)
(* it - uploads, renders, claims, decisions, restarts, a second revocation  *)
(* beside the first - brings back neither a job nor a file.                 *)
THEOREM StudioQuietRevocationIsFinal == Spec => []QuietRevocationIsFinal
<1>1. QuietIsConcluded => QuietRevocationIsFinal
  <2> SUFFICES ASSUME QuietIsConcluded, Revoked, quiet, ~unfinished
               PROVE  Blocked /\ files = {} /\ rows = {} /\ \A j \in Existing : job[j].status = "canceled"
    BY DEF QuietRevocationIsFinal
  <2> QED BY DEF QuietIsConcluded, Concluded, Revoked
<1> QED BY <1>1, QuietIsConcludedAlways, PTL
=============================================================================
