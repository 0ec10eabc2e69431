# A TLA+ model of dominion-ops

This directory specifies the parts of `dominion-ops` that take decisions which cannot be
taken back: the Founder's authorizations and the missions that act under them, what is
posted, mailed, ordered, sold or credited on somebody's behalf, the use and removal of a
person's media, and the ledgers, repairs and cutovers the rest relies on. Each part is a
state machine written from the source and model-checked with TLC on small instances; every
safety property the runs check is also proved with TLAPS, for every instance.

Paths below are relative to the repository.

## 1. Inventory

The repository is a collection of Python services that share one host, a few directories
of JSON state and some SQLite files. What follows names, for each part with state and a
protocol of its own, the state it keeps, its operations, and what has to hold.

| part | state | operations | hard behaviour | must hold |
|---|---|---|---|---|
| **authorization ledger** `buddy_core/core/authorization.py` | one JSON file per approval, `sequence.json`, a lock file, a receipts log | `request`, `grant`, `deny`, `verify_and_consume`, `load` | several processes; a lock per operation; two file replacements per grant; failing writes; expiry; damaged records | single use; decisions stay; grant numbers increase; implements the abstract authority |
| **mission operator** `core/operator.py`, `core/message_delivery.py` | held plans on disk, the mission log, the ledger | `handle`, `execute`, `grant_and_resume` | the plan is executed *again from step one* when resumed; request threads race; SMTP answers get lost; storage fails after a delivery | sent once, as approved; an answerable status; a hold can be resumed |
| **video studio** `apps/video-studio` | tables `projects`, `assets`, `jobs`, `approvals`, `project_revocations`; media files | upload, queue, approve, revoke; local render thread; claim, upload and report of external workers | handlers that read in one transaction and write in another; files outside any transaction; restart | revocation is final; completed jobs have their file; leases end |
| **publisher** `apps/dominion_publisher` (`core.py`, adapters) | tables `jobs`, `receipts`; posts at the provider | `queue`, `publish` | no transaction spans check, call and record; lost answers | idempotence; every post is accounted for |
| **publisher credentials** `vault.py`, `meta_binding.py`, `configure_meta.py` | one encrypted JSON file | configure, bind, OAuth state, nonces | lock per process, but two processes; a window of 200 nonces | no lost update; a state is used once |
| **revenue runtime** `apps/revenue_runtime` | tables `experiments`, `events`, `order_reconciliation`, `promotions`, bridge tokens and links; the shop's product text | create, activate, pause, click, bind, reconcile orders and refunds, evaluate, promote, roll back | the shop is changed outside any transaction; cycles overlap or stop half-way | one active experiment per product; a rollback restores the original; an order counts once, its refund where it counted |
| **council node** `apps/council_node/app` | hold file, tasks, receipts, sweep lock directory | hold, release, submit, execute, sweep | unlocked read-modify-write; a file that reads as no hold when it is lost; a lock that survives a crash | a held lane does not run; one sweep at a time |
| **control plane** `control_plane` | a hash-chained JSONL ledger | `append`, `verify` | a crash inside an append; edits of the file | what verifies is what was appended |
| **alpha engine** `alpha_engine/dominion_alpha` | governor state in memory, paper positions in SQLite | cycle, kill switch, emergency exit | coroutines interleave at every `await` | no buy after the kill switch; a position is sold once |
| **email drip** `services/email_drip` (with `gatekeeper.py`) | `leads_drip.json`, suppression list, a file lock | capture, drip cycle, unsubscribe | crash between SMTP and save; a lock that threads of one process pass | a step is sent at most once; nothing after an unsubscribe; a due step is taken |
| **proposal queue** `buddy_core/proposal_queue.py` | directories of JSON files, sessions | create session, log out, mark submitted | copy then remove, in threads; requests of one second share the file they write | no proposal is lost; sessions are bounded |
| **self-heal** `core/self_heal.py` | the runtime's files, a snapshot | diagnose, repair, roll back | a copy, a restart or the rollback itself fails half-way; a diagnosis that cannot see the repository; two repairs; deployments meanwhile | a repair is all or nothing |
| **audit trail** `watchmen/saraqael.py` | a signed log and its chain state, two files | log, verify, tail, report | a crash between the two files; readers without the lock; edits | what is trusted is complete |
| **order fulfilment** `apps/wix-agent/fulfillment.py` | table `fulfillments`; the shop, the supplier | reserve, order, track, fulfil | overlapping background runs; lost answers; restart | no order is delivered twice; the table is true |
| **store webhook** `ascendant_store/app.py` | tables `stripe_events`, `orders`; dead letters, leads, mails | one webhook | deliveries repeated by Stripe; steps that fail and are swallowed; checkouts without an email or a known product | a paid checkout is on record, and mailed if it can be |
| **social poster** `agents/social_poster.py` | `posted.json`, queue files | run of a slot | unlocked log of one entry per text, rewritten through one `.tmp` of all runs and read as empty when broken; runs that overlap or die | posted once |
| **guarded cutover** `scripts/runtime/stage2f_guarded_cutover.py` | containers, their names | stop, rename, start, verify; roll back | commands that fail or time out, having done their work | a failure restores the originals; the report is true |

How they interact: every Buddy surface (web, bridge, runtime scripts) calls the operator,
which calls the ledger and the mail server; the Founder's surface calls `grant_and_resume`:
`MissionOperator` is composed with the ledger's abstract specification, which the detailed
ledger implements. The publisher's service is called by the web front end and calls the
Meta API with a token from the credential vault. The revenue runtime's service, its
command line and its scheduled cycle share one database and one shop. The email drip and the
gatekeeper share the suppression list. Apart from these the parts share the host and no
state, so that composing them would only multiply states: `Services` puts them side by
side, one per behaviour.

The rest of the repository is listed in `PROJECT.json` with the reason it is not modelled.

## 2. Modules

| module | models | composed with |
|---|---|---|
| `FounderAuthority` | what the ledger promises: an approval is asked, granted, spent or void | abstract specification |
| `AuthorizationLedger` | the ledger as its files and its lock, one file access per step | implements `FounderAuthority` |
| `MissionOperator` | operator and message delivery | uses the variables and actions of `FounderAuthority` (`Ledger ==` `INSTANCE`) |
| `VideoStudio` | one project of the video studio | |
| `Publisher` | the publisher with the provider behind it | |
| `CredentialVault` | the vault and the OAuth round trip, two processes | |
| `RevenuePromotion`, `RevenueAttribution` | experiments, promotion and rollback; orders and refunds | |
| `EmailDrip` | capture, the drip's thread, the gatekeeper's unsubscribe | |
| `CouncilNode`, `GovernanceSweep`, `ControlPlaneLedger`, `AlphaGovernor`, `OrderFulfillment`, `SelfHeal`, `AuditTrail`, `GuardedCutover`, `SocialPoster`, `StoreWebhook`, `ProposalQueue` | the part of that name (`GovernanceSweep` is the council's) | |
| `Services` | thirteen services that share no state (the publisher, the vault and the eleven above), one per behaviour | extends `Publisher`, instantiates the others |
| `...Proofs` | theorems about a module; `OutboundProofs` and `ServicesProofs` share out those about `Services` and the publisher | extends that module |
| `MC...` | constants and symmetry for TLC | `MCServices` says which constants of `Services` are interchangeable; `MCTimers` puts the email drip and the attribution side by side, with the fairness of their timers |

`map` in `PROJECT.json` gives the source lines of every definition. Operators whose comment
starts with "Mutant:" are plausible slips in the definition that follows them; each property
is violated when its mutant takes the place of the definition.

### AuthorizationLedger

A call of `grant`, `deny` or `verify_and_consume` is `Acquire` (the lock file), `Load` (the
record, copied into `call[p].snapshot`), for a grant `Number` (the next number, written to
`sequence.json`), `Write` (the replaced record), `Return`. `Refuse` is every early return,
`Fail` an `OSError` at any of the accesses. `request` needs no lock, since the id it writes
is new. `Lapse` is the passing of `expires_at`, `Damage` a record whose MAC no longer
verifies. The audit receipts the ledger also writes are swallowed when they fail and read by
nobody; they are left out.

### MissionOperator

`run[s]` is one execution in a thread: the plan with the frozen content and the token per
step, the position, the last output, a mark per step (the receipt's status). `Start` is a fresh
mission; `Resume`, `Grant`, `AlreadyGranted`, `Recheck`, `GrantRefused` are the steps of
`grant_and_resume`, other surfaces' steps between them. In `execute`, `Internal...` runs an
internal step, `Request` and `Hold` stop at a boundary, `Redeem`, `Transmit` and the
`Delivery...` actions go through it; `Finish...` is the computation of the status and
`record_mission`. Which plans exist is the constant `Plans`; the MC module lists shapes
`plan()` produces. Since plans are executed from step one on every resume, an internal step
chooses a new draft each time.

### VideoStudio

Each handler is split where it reads and writes: `QueueCheck`/`QueueInsert`,
`UploadBegin`/`UploadStore`/`UploadRecheck`/`UploadInsert`, `RevokeRead`/`RevokeCancel`/
`RevokeDelete`/`RevokeRecord`. Python's `sqlite3` begins a transaction at the first write, so
a SELECT before it protects nothing; the claims of the render thread and the workers use
`BEGIN IMMEDIATE` and are one step. `files` is what is on disk, whatever the tables say;
`Restart` ends every request and leaves what was half-written. Two history variables (`quiet`,
`unfinished`) say under which circumstances the revocation ran.

### Publisher

A request is a job's status read (`Queue`, `Publish`), the provider's call (`CallPosts`,
`CallFails`, `CallReturns`, `AnswerLost`), the row (`QueueWrite`, `Record`) and the receipt
(`WriteReceipt`), each a transaction of its own; `Abandon` is SQLite or the process failing.
`posts` (external), `lost` and `overlaps` are not in the store: they say what really
happened, so that the properties can compare.

### RevenuePromotion

A runner is a request of the operator or an evaluation cycle. `Activate`, `ActivateCheck`,
`ActivateWrite` are the two SELECTs and the UPDATE of `activate`; `Cycle` is the list of active
experiments, `KeepRunning`, `WinnerReady` and `Promote` the outcomes of the gate, which does not
look at the status again; `ReadProduct`, `Patch` and `Verify` are `update_plain_description`, used by
promotions and rollbacks; `RecordPromotion` and `MarkRolledBack` end them. `shop` and `Edit` are
external: the product's text with the revision Wix checks, and the merchant. Every failure
after the write to the shop is `Abandon`, noted in `unrecorded`.

### RevenueAttribution

A click leaves an event and a token (`Click`), the shop's page binds the token to the
identities of a purchase (`Bind`, one transaction in the code and one step here), `Place`, `Pay`
and `Refund` are the shop (external). Both searches ask for the 100 orders created last and for no
second page: `page` is those of the orders here that are among them, and `Age` pushes the oldest
off it. A cycle is `Start` (the active experiments),
`SearchOrders`, and per order `Consider` (the reads), `Decide`, `RecordPurchase`,
`Reconcile`; then `SearchRefunds`, `ReadAttributions`, `RecordRefund`, `Finish`. Events are
inserted under the order's id and never overwritten (`INSERT OR IGNORE`), reconciliations
are. `contended` and `halfDone` are history: pairs that two cycles worked on at once, or one
left between its two writes. The model shows what the code gives up in these cases: a refund
booked on another visitor than the purchase, a refund never booked, and, in any case, an
order refunded before the first cycle that sees it, which is never credited at all
(only PAID orders are searched), and an order a hundred others followed before the cycle, or
before its refund, which is then never credited or never debited.

### CredentialVault

`Load`, `Save`/`SaveFails` are `_mutate` of either process; `Issue`, `Expire`, `Check`, `Mark`,
`Exchange`, `Offer`, `Bind` are the OAuth round trip of the service, whose requests come
between one another's steps. `Window` is the 200 nonces that are kept, here 1.

### EmailDrip

`CheckSuppression`, `LoadLeads`, `SaveLead` are a capture; `Wake`, `Skip`, `Plan` (pending_send is
saved), `Send` (accepted or not, and gone out or not), `RecordSent`, `EndCycle` the drip's
cycle over the copy it loaded. `Enter` is `LEADS_LOCK`, which keeps other processes out and
no thread of this one (`filelock.py:31`); `overlaps` counts threads that entered while
another was inside. `Ripen` is the time between two steps.

### CouncilNode, GovernanceSweep, ControlPlaneLedger, AuditTrail

`CouncilNode`: `Load` and `Save` are hold and release, not locked; `Saved` makes every copy another
request has loaded `stale`. `Damage` is a file that cannot be read or parsed, on which the gate fails
closed; `Lose` one that is removed, or is JSON but no object, which `_load` reads as `{}`. `Evaluate`
reads the holds and decides (`Verdicts`), `EvaluateRaises` is the error nobody catches, `Handle` runs the
handler, `Seal` writes the receipt. `gone` is history: the holds the file lost. `GovernanceSweep`:
`BeginSweep`, `RefuseSweep`, `EndSweep` are the sweep with its directory; `LeaveLock` a sweep that dies or
whose `rmdir` fails, which the code passes over.

`ControlPlaneLedger` and `AuditTrail`: a line is its payload with the history it was chained to, so a
hash is what it was computed from; an append is split at every file access, and `Alter`, `Delete`,
`Reorder` or `Exchange` edit the file without the lock or the key. In the ledger an append may be cut
off (`Tear`) inside the line or just before its newline: then `ended` is false, the file still verifies,
and the next append runs on from the line. The audit trail's readers take no lock: `BeginVerify` reads the
chain state and `EndVerify` the log; `ReadTail` is the second reading that `tail` returns, `ReadEntries`
the earlier one that `report` returns, and `Tell` the answer. `edited` notes that the log was edited
between a reader's readings.

### AlphaGovernor, OrderFulfillment, StoreWebhook

`AlphaGovernor`: a coroutine's step goes from one `await` to the next (`BeginCycle`, `Scanned`,
`Priced`, `BeginExit`, `Exit`); capital is counted in positions. `OrderFulfillment`: `Reserve` is the
`INSERT` that makes a retry harmless, `Submit` and `Fulfill` calls whose answer may be lost
(`Call`), `Record`, `RecordFailure`, `Update` the rows; `doubtful` is history. `StoreWebhook`: one action per
step of the handler, which swallows its failure (before or after the commit, in the database's
steps); `Deliver` is Stripe, again and again; `checkout` says whether there is an email and a product
(`HasEmail`, `IsMailable`), the guards of `Mail` and `SaveLead`.

### SocialPoster, ProposalQueue

Both rewrite a file through a temporary one of a name that others use as well, so the writing is split
into its file accesses. `SocialPoster`: `Check`, `Post`, `Load`, `Open`, `Write`, `Replace` per
platform. All runs use `posted.json.tmp`: `Open` empties it, and a run that has it open keeps its handle
when another run puts it in the log's place (`Moved`: the handle is then on the log, or on a file that is
gone). Two texts in one file may leave what is no JSON (`Landed`), and `Entries` reads such a log as
empty, as `_load_posted` does. `Raise` and `Die` may leave a part of a text. `ProposalQueue`: `Read`,
`Open`, `Write`, `Replace`, `RemoveOriginal` of threads that mark a proposal; the copy and its `.tmp` are
named after the second (`Tick`) the request came in, and shared in the same way by requests of one second.
Sessions are a sequence, the first to expire first.

### SelfHeal, GuardedCutover

`SelfHeal`: `Diagnose`, `Snapshot`, `Copy` per file, `Copied`, `Decide`, then `Report` or `Rollback`; a file
is the version it was copied from, `Deploy` and `Edit` happen meanwhile (`disturbed`). A diagnosis without
the state of the repository compares no file (`seen`). `Raise` is what raises in between; a rollback that
raises half-way is tried once more by the handler of the exception (`Undo`), and nothing is tried after
an undo that raises (`unrestored`). `GuardedCutover`: one action per docker command; one that fails may have
done its work (`GateFails` after either outcome).

## 3. Runs and what they show

| run | bounds | result |
|---|---|---|
| `authorization_ledger` | 3 processes, 2 approvals, 2 payloads | 34,818 states; four properties hold, one of them the refinement of `FounderAuthority` |
| `mission_operator` | 2 surfaces, 2 approvals, 2 drafts; three plans: one message, two messages, an action after optional evidence | 2,316,052 states; five properties hold |
| `second_hold` | 1 surface, 2 approvals, the plan with two messages | violated: finding 1 |
| `video_studio` | 2 clients, the render thread, 1 worker, 1 portrait, 1 voice, 2 jobs | 1,360,648 states; three properties hold |
| `video_revocation` | 1 client, 1 worker, 1 job | violated: finding 2 |
| `video_repeated_revocation` | 1 client, 1 job | violated: finding 3 |
| `revenue_promotion` | 2 runners, 2 experiments, 2 texts of the merchant, 4 revisions | 2,959,977 states; four properties hold |
| `revenue_snapshot` | 1 runner, 1 experiment, 2 revisions | violated: finding 4 |
| `revenue_attribution` | 2 visitors, 2 tokens, 2 cycles, 1 order, 1 failure | 1,010,784 states; two properties hold |
| `services` | thirteen services, with 2 items, 2 actors, 2 contents and failures as in `MCServices.cfg`; actors and items are interchangeable, and the publisher's requests are the actors | 982,528 states up to symmetry; sixteen properties hold |
| `timers` | the email drip (2 leads, 2 steps, 1 capture at a time, 1 failure, 1 restart) and the attribution cycle (2 visitors, 2 tokens, 1 order), with the fairness of their timers | 573,328 states; three safety and three liveness properties hold |
| `guarded_cutover` | 4 services of which 3 have a probed port, 2 failing commands | violated: finding 5 |

`Services` and `MCTimers` put services that share no state side by side: `service` is chosen at
the start and never changes, so that a behaviour is one of one service, and a property is that
service's own, stated and explained in its module. The `INSTANCE` lines of `Services` say what
the items, actors and contents are for each of them. One property, `TypesOK`, collects the
type invariants, the sweep's lock and the bound on the sessions.

Why the bounds suffice. A race here is between two actors: two calls on one approval (the
third process makes a waiting call observe both), two executions of the same held plan, two
overlapping requests or cycles, a thread and a request. A second element of what they work on
(approval, job, lead, lane, order, file, proposal) separates "this one" from "one". Failures,
restarts, crashes and edits of a file happen once or twice, at any place: every property
that fails after some number of them fails after two, because each undoes or repeats
one write. Some bounds are what the case needs: a second post or a second entry in a log is
the first that is wrong (`MaxPosts`, `MaxEntries`, `MaxQueued`); a window of one nonce makes the
second the one that is forgotten; four revisions let two experiments be promoted and both
be rolled back, in either order; two seconds let requests share a file or not
(`MaxSeconds`), and the queue of one proposal has all of its copies. The poster has one platform,
two slots and two texts, so that a text can lose its entry to the other slot's, and a run write an
old copy over the other text's. Every `Max...` constant is a guard of the model only and is
named in its module.

In `EmailDrip` and `CredentialVault` some properties hold "unless two actors
overlapped" and say nothing of a behaviour in which they did. There the runs set `MaxOverlaps`
to 0, which takes such behaviours away and loses nothing of these properties.
`SentOnceUnlessOverlapped` and the others were also checked with `MaxOverlaps = 1` (1.0 million
states of the vault, 3.4 million of the drip), where they hold too;
`UnsubscribeStopsEmails` and `StateIsUsedOnce`, which have exceptions of their own, do as well.
The proofs are for any `MaxOverlaps`.

Deadlock is checked in every run but `revenue_promotion` and `revenue_snapshot`, where every
experiment may be decided and the revisions used up; in the others something can always begin,
be asked again, expire or restart, or the module says in which states it is done.

### What holds

* An approval is redeemed at most once and a decision is never overwritten, between any
  number of processes that share the directory (`SingleUse`, `DecisionsAreDurable`; proved).
* What leaves the host is the payload the Founder saw, at most once per approval, although
  resuming runs the mission's internal steps again (`SentAsApproved`,
  `AtMostOnceUnderAnApproval`; proved). The freezing of the content in the held plan is what
  carries this. No approval can be granted whose plan was not stored (`AuthorityHasItsPlan`),
  no boundary is reached without the evidence its gate asks for (`EvidenceBeforeBoundary`),
  and the final answer never claims less or more than what happened (`AnswersAreTrue`; all three
  proved).
* A completed video has its file and a lease ends with its claim, through revocations, late
  reports and restarts (`CompletedHasItsFile`, `LeaseEndsWithItsClaim`; proved). A revocation of a
  project with nothing under way, all of whose deletions succeed, is final
  (`QuietRevocationIsFinal`, proved).
* `publish` is idempotent for requests that do not overlap and whose answers are not lost
  (`SequentiallyIdempotent`; proved); `PostsAreAccountedFor` says what is lost otherwise, and a row
  never claims a post that is not out (`PublishedIsTrue`).
* A product has one active experiment although `activate` checks and writes in separate
  transactions: the unique index decides (`OneActivePerProduct`). A promotion never swallows an
  edit of the merchant (`PromotionKeepsWhatItReplaces`: the revision in the request), a treatment
  in the shop is always explained by the table or by a failure (`ShopIsExplained`), and an experiment whose runners neither overlap nor fail is promoted once and can be
  undone (`SequentiallyReversible`; all four proved).
* A refund is debited to the visitor, hence the variant, its purchase was credited to, and an
  attribution never moves, unless two cycles worked on the order at once or one stopped
  between its two writes (`RefundFollowsItsPurchase`, `AttributionIsFinal`; proved).
* The email drip sends no step twice through lost answers, failing saves and restarts, as long as
  no two threads are in the lock at once (`SentOnceUnlessOverlapped`, `AnsweredLeadsAreKept`), and
  after an unsubscription at most the email in hand goes out (`UnsubscribeStopsEmails`; all three
  proved).
* A held lane runs no task evaluated after the hold was answered, also while the hold file cannot
  be read, unless the file lost the hold: was lost itself, or replaced by a request that had
  loaded it before (`NoRunUnderHold`). One sweep runs at a time; after one that died or could not
  remove its lock, none ever does (`SweepLockIsTrue`; proved, as all that follows).
* An OAuth state is good for one callback, but for two that check before either marks, and for
  nonces that left the window (`StateIsUsedOnce`); what the vault acknowledged stays, unless the
  configuration tool and the service wrote at once (`AnswersAreKept`).
* A control-plane ledger that verifies is what was appended, until lines are cut from its end, which
  nothing in the file shows (`WhatVerifiesIsTrue`); the audit trail, whose chain head is in a
  second file, notices that too: `verify_chain` always, `tail` and `report` unless the log is
  edited while they run (`TrustedIsComplete`).
* Nothing is bought while the kill switch is on, whatever a cycle was waiting for
  (`KillSwitchStopsBuying`), and a position is sold once unless the emergency exit and a cycle
  waited for its price together (`PositionIsSoldOnce`).
* The supplier is asked for an order once, however runs overlap and answers are lost: the
  reservation row is inserted first (`OrdersAreDeliveredOnce`). The webhook loses no paid
  checkout but where its own database and dead letters both failed; with an email and a product it is
  mailed, and with an email its lead is saved, unless that very step failed
  (`PaidIsAccountedFor`).
* A repair that was alone with the runtime is all or nothing unless the undo itself raised, and then
  only files of its snapshot are in doubt; what it calls healthy or repaired is so if it saw the
  repository (`RepairIsAllOrNothing`). The cutover's
  report is true (`ReportIsTrue`), though not always of every service (finding 5).
* A text is posted once per platform and slot unless its log entry was lost or never
  made, or two runs were at it, and it takes overlapping runs, a failure or the same text for another
  channel to lose one (`PostedOnceUnlessForgotten`). A staged proposal is lost only if requests of one
  second wrote over one another's file, or one of them raised or was cut off (`ProposalsAreKept`).

The exceptions in these statements ("unless ...") are behaviours the code really has. The
history variables that record them (`overlaps`, `contended`, `halfDone`, `raced`, `forgotten`,
`crossed`, `doubtful`, `shared`, `torn`, `unsaved`, `disturbed`, `gone`, `abandoned`) are set by the
very steps that meet, and each property
speaks of what is outside them.

### Findings

1. `second_hold`: a plan with two external steps can never complete. The second hold's
   stored plan carries the first step's authorization, which is spent; granting the second
   executes from the first step, is refused with `already_consumed`, and ends BLOCKED.
2. `video_revocation`: `README.md:16` of the studio promises that revocation cancels
   jobs and removes media. A job picked by the render thread (or being uploaded by a worker)
   is written "running" or "completed" afterwards by an UPDATE that does not look at the
   status, and its export reappears on disk.
3. `video_repeated_revocation`: the first transaction of a revocation erases
   `output_path`; if a deletion fails, the retry finds no exports to delete and reports
   success.
4. `revenue_snapshot`: the policy file requires a snapshot before a change and a rollback; the
   snapshot is written after the change, so a failure in between leaves a treatment that
   nothing can undo.
5. `guarded_cutover`: the docstring says that any failed gate restores the original containers.
   A service enters the list the rollback goes through only after its original was stopped and
   renamed; when a command between fails, or `docker stop` times out having stopped it, that
   service stays down, and for the one without a probed port the rollback reports no error.

What the code gives up besides is listed under the hazards, with the property that
delimits it:

* Overlapping `publish` requests can post twice, and the drip's lock lets threads of one process
  pass each other.
* A hold file that is missing, or is JSON but no object, reads as no hold (`founder_gate.py:53-57`).
  The comment that an unreadable file must not be read as "nothing is held" (`:59`, and its test at
  `test_founder_gate.py:80`) is kept for what raises only. Two overlapping requests of the Founder can drop each other's hold. A
  file that is not UTF-8 ends a task's evaluation without a receipt. A sweep that dies, or cannot
  remove its directory, ends all sweeps.
* A diagnosis that cannot see the repository finds no drift (`self_heal.py:458`), so a repair may
  answer HEALTHY or REPAIRED over files that drifted; and one whose undo raised answers BLOCKED like
  one whose undo worked (`:735-738`).
* `tail` and `report` of the audit trail return another reading than the one that was verified
  (`saraqael.py:643-648`, `654`, `666`): an edit between the two is returned as intact.
* A ledger line without its newline verifies, and spoils the append that follows it.
* The poster's log reads as empty when it is broken (`social_poster.py:74-79`), which two runs that
  share `posted.json.tmp` (`:89-92`), or one cut off in the other's file, can bring about: then
  everything may be posted again.
* Two requests that mark one proposal in one second share the `.tmp` (`proposal_queue.py:233-242`): one
  may empty what the other puts in place before it removes the original, and a restart or a full disk
  then loses the proposal.
* The attribution sees the 100 newest orders only (`evaluator.py:46`, `177`): an order or a refund
  beyond them is never booked.
* A checkout without an email, or of an amount that is no product's price, is acknowledged and not
  mailed (`app.py:433`, `437`); no letter says so.

## 4. Fairness and liveness

Two parts of the code run on a timer of their own, and only these are given fairness:

* `EmailDrip`: `WF_vars(DripThread)`, since `_drip_loop` is a daemon thread that catches what a
  cycle raises and sleeps, and `WF_vars(SaveLead(r))`, since a capture that has entered the lock
  leaves it. `DueStepIsTaken`: a step that is due does not stay due.
* `RevenueAttribution`: `WF_vars(Start(Scheduled) \/ Proceed(Scheduled))`, since the systemd timer
  `dominion-revenue-evaluator.timer` starts a cycle again and again, and a cycle that has begun
  goes on or fails. `LinkedOrderIsAttributed`, `RefundIsDebited`: what a cycle can attribute or
  debit does not stay so.

Failures and restarts are bounded and not fair; captures, clicks, payments, unsubscriptions and
the passing of time need never happen. `timers` checks the three with the drip's schedule
reduced to one step.

The other parts are driven by requests, which nobody has to send, and their steps may always be
cut off by a failure. The studio's render loop runs for ever as well, but a job it left
"starting" or "running" at a restart is never picked up again: there is nothing to state.

## 5. Proofs

Eight modules hold theorems, each for every value of the constants under the named assumptions of
the module it extends. Every invariant and action property of a passing run is the statement of
one of them. Each proof has an inductive invariant of the shapes (what a thread holds at each place)
and of the facts below; it has one lemma per action or per kind of write.

**`AuthorizationLedgerProofs`** (`Nobody` is no process, `NoPayload` no payload):
`LedgerTypeOK`, `LedgerSingleUse`, `LedgerDecisionsAreDurable`, `LedgerGrantNumbersIncrease`,
`LedgerImplementsFounderAuthority`. `SingleUse` is not inductive: a process may hold a copy of the
record that says GRANTED and is about to write CONSUMED. `IInv` adds `LockHeld` (a process is inside
a call exactly if it holds the lock), `CopyIsCurrent` (the copy in its hands agrees with the file,
up to the one change the call makes) and `AskedHasPayload`. The refinement maps statuses by
`Phase`; only `Request` and `Write` move it.

**`MissionOperatorProofs`** (plans are non-empty sequences of steps, of which only internal ones ask
for evidence, since `operator.py:780` is reached by no other; `Nothing` is no approval and no plan):
`MissionTypeOK`, `MissionSendsAtMostOnce`, `MissionSendsAsApproved`, `MissionAuthorityHasItsPlan`,
`MissionAnswersAreTrue`, `MissionEvidenceBeforeBoundary`, `MissionKeepsToTheLedger`. An approval that is spent could still be sent under
by two surfaces; `Redeemed` says that a surface between `Redeem` and the delivery is the only one with
its token, that nothing went out under it yet and that it has in hand what the approval is bound
to; `Unspent` that nothing leaves under an approval before that. Two more invariants carry the rest. `PlansAreKept`: the
plan stored under an approval is frozen as the authority's payload says, and nobody writes another
one there while it can be granted. `RunsAreSound`: each mark of an execution says truly what became
of its step (`Truthful`, over a plan of any length), and the steps before the present one are
marked as passed; it is proved by what each of `Stop`, `Pass`, `Place` and `FinishRun` does to a record that
is sound, and by what other surfaces can do to the facts a mark refers to, which only grow. That
the operator takes only steps of `FounderAuthority` is a step simulation on the shared variables.

**`VideoStudioProofs`** (`MaxJobs` positive, assets are not jobs): `StudioTypeOK`,
`StudioLeaseEndsWithItsClaim`, `StudioCompletedHasItsFile`, `StudioQuietRevocationIsFinal`. Leases rest on the two engines: the
render thread writes its job whatever the row says, but never has one a worker can claim. Files
rest on `Settled`: a job that is decided and in nobody's hands never completes again, and a
revocation has only such jobs' exports to delete. Finality rests on `Concluded`: once a revocation was
alone, only revocations can run, and while files are left one that is deleting has all of them.

**`RevenuePromotionProofs`** (the merchant writes something, and none of the treatments;
`MaxRevision \in Nat`): `PromotionTypeOK`, `PromotionOneActivePerProduct`,
`PromotionShopIsExplained`, `PromotionReplacesWhatItRead`, `PromotionIsReversible`. A rollback that has written to the shop is
about to take away a row which may be what explains the treatment somebody else has put there
meanwhile; `ShopIsAccounted` demands a row that no rollback has come so far with. `ReadIsKnown`
says that the text read belongs to the revision read, `ValueIsKnown` what a runner writes. `TextsAreKnown` says where a treatment in the shop, in a row or
in a runner's hands can have come from: it was recorded, is about to be, or its writer failed;
`Orderly` what holds of an experiment whose runners do not overlap, of which the treatment is then
not out before its promotion reads the shop.

**`RevenueAttributionProofs`** (there is an experiment and an order, `Nobody` is no visitor,
`MaxFailures \in Nat`): `AttributionTypeOK`, `AttributionRefundFollows`, `AttributionStaysFinal`. A
reconciliation, a credit under way, a debit read and a debit written must all name the visitor of
the purchase event (`CreditAgrees`), although a purchase that is there already is not written
again. What excludes a disagreement is what a cycle knows that is alone with an order: it is
noted when it is not (`TwoAreContended`), it found the order not attributed (`AloneIsFirst`), and
an order with an event is attributed or about to be (`PurchaseIsCredited`), so the event it writes
is the first.

**`EmailDripProofs`** (`Steps`, `MaxFailures`, `MaxOverlaps` and `MaxRestarts` are naturals, at least one
step and one lead): `DripTypes`, `DripSendsOnce`, `DripKeepsAnsweredLeads`, `DripRespectsUnsubscription`. While no two
threads were in the lock at once, whoever is in it is alone and its copy is the store
(`CopiesAreTrue`); then what has not been submitted is what the store says (`SentInOrder`): the steps
after the next, and the next one until its email is pending and out of the cycle's hand. The
pending mark, saved before the email is handed over, is what carries this through a crash. For the
unsubscription `OneIsLate` needs no such condition: the list is read before each email, so
the one in hand is the only one that can be late.

**`OutboundProofs`, `ServicesProofs`**: the services of the run `services`, those that post, order, mail,
sell or submit in the first and the others in the second; a theorem for each of the run's
properties. `OneRuns` says that a step is one of the service that runs; from
there each service has an inductive invariant of its own.

The publisher (finitely many requests, `MaxPosts \in Nat`): `PublisherTypeOK`,
`PublisherPostsAreAccountedFor`, `PublisherPublishedIsTrue`, `PublisherSequentiallyIdempotent`.
`Knows(r)` says what a request that is alone with its job knows of the row, `OverlapsAreNoted` when it
is alone, `ReceiptsAreBacked` that a receipt implies the row; the accounting rests on cardinalities of
the set of requests that have a post in hand. The others:

| theorem | what makes it inductive |
|---|---|
| `OrdersDeliveredOnce` | `OneServes`: the row is there before the supplier is asked, and only the run that inserted it is at its order; `FollowedOnce`: what is to be told to the shop is in one run's hands |
| `ProposalsKept` | `FilesSound`: a request has its files to itself unless they are shared, and what it puts in place is whole or being written, or the proposal is `torn`; `ReviewedOrCopied`: an original is removed only once there is such a copy; `OneMarks`: a proposal not in doubt is in the hands of one request |
| `PaidAccountedFor` | `NothingLeftBehind`: what the handler has passed is recorded, in the dead letters, not to be done for this checkout, or noted as unsaved, place by place |
| `PositionSoldOnce`, `KillSwitchStops` | `OneSells`: what was sold of a token and what a coroutine waits to sell is no more than was bought, and one coroutine at most waits for it |
| `NothingRunsUnderHold` | `HoldsAreThere`: a hold that stands and was not lost is in the file and in every copy that is not stale; `RunsAllowed`: no task runs that was evaluated under a hold that stood |
| `PostedOnce` | `OnePosts`: a post that is out and not forgotten is in the log, or the run that made it is at it, and no other is; `AloneSound`: while runs came one after the other and nothing raised, a run has the log it loaded and the temporary file to itself, and writes no text out of the log |
| `AllOrNothing` | `UndisturbedIsAlone`, `Sound`: what a repair that is alone has snapped (`Snapped`), copied (`Copied`) and may answer (`Outcome`), at each of its places, with or without sight of the repository |
| `StateUsedOnce`, `AnswersKept` | `ConsumedIsMarked`: a state that passed is marked as long as it is live, and who has checked it is the only one and before its mark; `CopiesAreFresh` while no two processes wrote at once; `WritesWhatIsAsked` |
| `ReportTrue` | `ProceedsInOrder`, `RollsBackInOrder`: which containers are replaced, half-replaced or as they were, before and after the one at hand |
| `VerifiesIsTrue` | `SealsAreTrue`: number and seal of a line are those it was entered with, whatever became of its payload and place; `LastIsThere`: the last line survives every edit but a cut from the end; `WritesTheNext`: the line about to be written has the next number |
| `TrustedSeesAll` | `ChainIsTrue`: the chain state holds what was promised and nothing that was not written, and a writer promises only after it saved; `ReadersKnow`: the same of the chain state a reader has read, and, unless the log is edited, of the log it read before (`Listed`) or will read again (`Verified`) |
| `ServicesTypes` | each module's `TypeOK`, with the counts within their bounds; the ledger needs that the appends under way are no more than the room left (`Pending`), the alpha engine that its session starts before anything is bought, the sweep's lock that a crash leaves no sweep |

Their assumptions, in `Services`: the bounds are naturals (`BoundsAssumption`, `PublisherAssumption`);
`nobody` is no channel and no actor is called "nobody" (`NobodyAssumption`, `ActorsAssumption`: they
stand for None and for a lock that is free); the windows of nonces and sessions hold at least
one (`WindowAssumption`: 200 and 20 in the code), and the clock shows a second; the repository has a
version of the files
(`HeadAssumption`); there is capital, and finitely many tokens and actors (`CapitalAssumption`,
`ActorsAssumption`); a cutover has a service (`CutoverAssumption`). Items, actors, contents and exits are otherwise
any sets. Sets of one element remain where an `INSTANCE` line says `Single`.

Two definitions were rewritten so that they could be reasoned about, and mean what they meant: the
log-out of the proposal queue and the sweep's lock used operators (`SelectSeq`, `Cardinality`) no
prover can expand, and now say the same by index and by equality. The types of
three services do not hold for every bound, which is where the assumptions on `MaxHead`, `Capital`
and `MaxSessions` come from.

Model-checked only: the three liveness properties, which are out of the prover's reach as are
fairness and ENABLED; and the counterexamples of the five runs that expect a violation. No
module uses a `RECURSIVE` operator. Where the code computes a hash along a file the models keep the
history it was computed from, so that no proof needs induction over a file.

## 6. What could come next

* Coverage: the council's release gate and memory store; the sentinel's probes and approvals;
  the assignment of visitors to variants and the statistics of the winner gate, as pure
  functions against reference definitions.
* Proofs: an abstract specification of the publisher and of the drip (one post per key, one
  message per step), and that they implement it under the conditions their properties now
  carry.

## 7. Not modelled

* Cryptography (a MAC, a hash chain or a signature is a flag or an identity), wording of answers and
  pages, what language models and capabilities compute, amounts of money where only who is
  credited matters, clocks (a time that passes is an event that may happen any time).
* The parts marked `not_modelled` in `PROJECT.json`, and what the notes of the `partly` ones name.
  Most of the repository by volume is front ends, content agents that call a language model and
  write a file, batch generators of offers, bots, CI workflows and governance documents: sequential
  data processing or configuration, with no state that two steps could leave inconsistent.
  Modelling them line by line would restate them.
* In modelled parts: a subtitle file and the consent records of the studio; the visitor's
  assignment to a variant; in the attribution, partly refunded orders, which the search for
  PAID orders never sees before the first cycle, so that they are neither credited nor
  debited; the audit receipts of the ledger, which nobody reads.
