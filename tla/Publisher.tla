------------------------------ MODULE Publisher ------------------------------
(***************************************************************************)
(* apps/dominion_publisher: core.py with the Meta adapters behind it.      *)
(*                                                                         *)
(* The service runs each request in a thread of its own.  A request reads  *)
(* the job's status, calls the provider, writes the status and writes a    *)
(* receipt, each in a transaction of its own, so other requests for the    *)
(* same job, a failing database and a restart come between any two steps.  *)
(*                                                                         *)
(* Abstracted: a job is its idempotency key (one per campaign, platform,   *)
(* account, caption, destination and assets); validation and approval are  *)
(* done before anything is read, so a request that fails them changes      *)
(* nothing; Instagram's media container is a step of the provider call     *)
(* that posts nothing.                                                     *)
(***************************************************************************)
EXTENDS Naturals, FiniteSets

CONSTANTS
  Requests,      \* threads of the service
  Jobs,          \* idempotency keys
  Unregistered,  \* those whose platform has no adapter
  MaxPosts       \* bound on the posts made of one job

VARIABLES
  status,    \* jobs.status; "absent" is a missing row
  receipts,  \* job -> receipts with a provider_post_id
  claims,    \* job -> the statuses its receipts report
  request,   \* thread -> its request under way
  posts,     \* job -> posts the provider made (external)
  lost,      \* job -> posts whose id never reached the store (history)
  overlaps   \* jobs that two requests ever worked on at once (history)

vars == <<status, receipts, claims, request, posts, lost, overlaps>>

Statuses == {"queued", "published", "failed", "blocked"}
Places == {"queueing", "calling", "posted", "recording", "receipting"}
Idle == [at |-> "idle"]
Request == [at : Places, job : Jobs, outcome : Statuses \cup {"none"}, post : BOOLEAN]

TypeOK ==
  /\ status \in [Jobs -> Statuses \cup {"absent"}]
  /\ receipts \in [Jobs -> 0..MaxPosts]
  /\ claims \in [Jobs -> SUBSET Statuses]
  /\ request \in [Requests -> {Idle} \cup Request]
  /\ posts \in [Jobs -> 0..MaxPosts]
  /\ lost \in [Jobs -> 0..MaxPosts]
  /\ overlaps \subseteq Jobs

Init ==
  /\ status = [j \in Jobs |-> "absent"]
  /\ receipts = [j \in Jobs |-> 0]
  /\ claims = [j \in Jobs |-> {}]
  /\ request = [r \in Requests |-> Idle]
  /\ posts = [j \in Jobs |-> 0]
  /\ lost = [j \in Jobs |-> 0]
  /\ overlaps = {}

WorksOn(r, j) == request[r] # Idle /\ request[r].job = j
PostInHand(r, j) == WorksOn(r, j) /\ request[r].post

(* A request starts with what it does next, or with the status its receipt *)
(* will report.                                                            *)
Begin(r, j, place, outcome) ==
  /\ request[r] = Idle
  /\ request' = [request EXCEPT ![r] =
       [at |-> place, job |-> j, outcome |-> outcome, post |-> FALSE]]
  /\ overlaps' = IF \E q \in Requests : WorksOn(q, j) THEN overlaps \cup {j} ELSE overlaps
  /\ UNCHANGED <<status, receipts, claims, posts, lost>>

Becomes(r, place, outcome) ==
  request' = [request EXCEPT ![r].at = place, ![r].outcome = outcome]
-----------------------------------------------------------------------------
(* queue: a duplicate only gets a receipt.                                 *)
Queue(r, j) ==
  IF status[j] \in {"queued", "published"} THEN Begin(r, j, "receipting", status[j])
                                           ELSE Begin(r, j, "queueing", "queued")

QueueWrite(r) ==
  /\ request[r].at = "queueing"
  /\ status' = [status EXCEPT ![request[r].job] = "queued"]
  /\ Becomes(r, "receipting", "queued")
  /\ UNCHANGED <<receipts, claims, posts, lost, overlaps>>

(* publish: a published job only gets a receipt; one for a platform with   *)
(* no adapter is blocked; any other goes to its adapter.                   *)
Publish(r, j) ==
  IF status[j] = "published" THEN Begin(r, j, "receipting", "published")
  ELSE IF j \in Unregistered THEN Begin(r, j, "recording", "blocked")
  ELSE Begin(r, j, "calling", "none")

(* No credentials, an unacceptable asset, no media container, or an error  *)
(* or a timeout of the provider before it posted.                          *)
CallFails(r) ==
  /\ request[r].at = "calling"
  /\ Becomes(r, "recording", "failed")
  /\ UNCHANGED <<status, receipts, claims, posts, lost, overlaps>>

CallPosts(r) ==
  LET j == request[r].job IN
  /\ request[r].at = "calling"
  /\ posts[j] < MaxPosts
  /\ posts' = [posts EXCEPT ![j] = @ + 1]
  /\ request' = [request EXCEPT ![r].at = "posted", ![r].post = TRUE]
  /\ UNCHANGED <<status, receipts, claims, lost, overlaps>>

CallReturns(r) ==
  /\ request[r].at = "posted"
  /\ Becomes(r, "recording", "published")
  /\ UNCHANGED <<status, receipts, claims, posts, lost, overlaps>>

(* The provider's answer is lost or carries no id: the post is out and the *)
(* adapter raises.                                                         *)
AnswerLost(r) ==
  /\ request[r].at = "posted"
  /\ request' = [request EXCEPT ![r].at = "recording", ![r].outcome = "failed", ![r].post = FALSE]
  /\ lost' = [lost EXCEPT ![request[r].job] = @ + 1]
  /\ UNCHANGED <<status, receipts, claims, posts, overlaps>>

(* upsert_job, whatever the row says by now.                               *)
Record(r) ==
  /\ request[r].at = "recording"
  /\ status' = [status EXCEPT ![request[r].job] = request[r].outcome]
  /\ Becomes(r, "receipting", request[r].outcome)
  /\ UNCHANGED <<receipts, claims, posts, lost, overlaps>>

(* Mutant: every receipt of a published job is taken for a post of its own. *)
ReceiptCountsDuplicates(r) ==
  LET j == request[r].job IN
  /\ request[r].at = "receipting"
  /\ receipts' = [receipts EXCEPT ![j] = IF request[r].outcome = "published" THEN @ + 1 ELSE @]
  /\ claims' = [claims EXCEPT ![j] = @ \cup {request[r].outcome}]
  /\ request' = [request EXCEPT ![r] = Idle]
  /\ UNCHANGED <<status, posts, lost, overlaps>>

(* Mutant: a receipt of a failed call reports the job as published.        *)
ReceiptAssumesSuccess(r) ==
  LET j == request[r].job IN
  /\ request[r].at = "receipting"
  /\ receipts' = [receipts EXCEPT ![j] = IF request[r].post THEN @ + 1 ELSE @]
  /\ claims' = [claims EXCEPT ![j] = @ \cup
       {IF request[r].outcome = "failed" THEN "published" ELSE request[r].outcome}]
  /\ request' = [request EXCEPT ![r] = Idle]
  /\ UNCHANGED <<status, posts, lost, overlaps>>

(* write_receipt, and the answer to the caller.                            *)
WriteReceipt(r) ==
  LET j == request[r].job IN
  /\ request[r].at = "receipting"
  /\ receipts' = [receipts EXCEPT ![j] = IF request[r].post THEN @ + 1 ELSE @]
  /\ claims' = [claims EXCEPT ![j] = @ \cup {request[r].outcome}]
  /\ request' = [request EXCEPT ![r] = Idle]
  /\ UNCHANGED <<status, posts, lost, overlaps>>

(* SQLite raises (locked for longer than its timeout, disk full), or the   *)
(* service restarts: the request ends where it is.                         *)
Abandon(r) ==
  LET j == request[r].job IN
  /\ request[r] # Idle
  /\ lost' = [lost EXCEPT ![j] = IF request[r].post THEN @ + 1 ELSE @]
  /\ request' = [request EXCEPT ![r] = Idle]
  /\ UNCHANGED <<status, receipts, claims, posts, overlaps>>

Next ==
  \E r \in Requests :
    \/ \E j \in Jobs : Queue(r, j) \/ Publish(r, j)
    \/ QueueWrite(r) \/ CallFails(r) \/ CallPosts(r) \/ CallReturns(r) \/ AnswerLost(r)
    \/ Record(r) \/ WriteReceipt(r) \/ Abandon(r)

Spec == Init /\ [][Next]_vars
-----------------------------------------------------------------------------
(* publish is idempotent (tests/test_dominion_publisher.py:95) as long as  *)
(* the requests for a job never overlap and no post gets lost: whatever    *)
(* order of queueing, failing and publishing led here, one post at most.   *)
SequentiallyIdempotent ==
  \A j \in Jobs : j \notin overlaps /\ lost[j] = 0 => posts[j] <= 1

(* Every post the provider made has its id in a receipt, is still in the   *)
(* hands of a request, or was lost: receipts neither miss nor invent one.  *)
PostsAreAccountedFor ==
  \A j \in Jobs :
    posts[j] = receipts[j] + lost[j] + Cardinality({r \in Requests : PostInHand(r, j)})

(* "published" is never said, by a row or by a receipt, of a job that is   *)
(* not out; and it is only unsaid by a request that overlapped another.    *)
PublishedIsTrue ==
  \A j \in Jobs :
    /\ status[j] = "published" \/ "published" \in claims[j] => posts[j] > 0
    /\ "published" \in claims[j] /\ j \notin overlaps => status[j] = "published"
=============================================================================
