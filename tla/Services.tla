------------------------------- MODULE Services -------------------------------
(***************************************************************************)
(* The services and tools that share no state with one another, in one     *)
(* module: a behaviour is one of `service`, chosen at the start, and the    *)
(* others stand still.  The publisher is this module's own Init and Next,   *)
(* over its own variables; a variable of another service has its name      *)
(* there, with the service's before it where two services use the same.    *)
(*                                                                         *)
(* Services work alike: actors (requests, processes, runs, repairs) that    *)
(* nothing keeps apart serve items (orders, files, slots, checkouts).       *)
(* Since one service runs, they share the sets and the bounds.             *)
(***************************************************************************)
EXTENDS Publisher

CONSTANTS
  Components,     \* the services under consideration
  Items,          \* what a service serves
  Actors,         \* what runs in it at once
  Contents,       \* payloads of the ledger, events of the audit trail, texts to post
  Single,         \* items and actors of which one is enough
  Exits,          \* requests for an emergency exit
  SessionTokens,  \* tokens of the founder's sessions
  nobody,         \* no checkout, no text
  Last, Probed,   \* the cutover's services, and those whose port is probed
  Window, MaxSessions, Capital, MaxOpen, MaxEntries, MaxLoss, MaxBuys,
  MaxFailures, MaxOverlaps, MaxEdits, MaxLength, MaxHead, MaxQueued, MaxRuns, MaxDeliveries,
  MaxSeconds

ASSUME BoundsAssumption ==
  /\ {MaxFailures, MaxOverlaps, MaxEdits, MaxLength} \subseteq Nat
  /\ {MaxQueued, MaxRuns, MaxDeliveries} \subseteq Nat

ASSUME PublisherAssumption == IsFiniteSet(Requests) /\ MaxPosts \in Nat

ASSUME NobodyAssumption ==
  LET texts == (Single \X Items) \X Contents
  IN nobody \notin texts /\ \A some \in SUBSET texts : nobody # some

ASSUME WindowAssumption == {Window, MaxSessions, MaxSeconds} \subseteq Nat \ {0}

(* The repository has a version of the files, past those of an edit.       *)
ASSUME HeadAssumption == MaxHead \in Nat \ {0, 1}

(* There is money to begin with, and some tokens to spend it on.            *)
ASSUME CapitalAssumption == Capital \in Nat \ {0} /\ MaxBuys \in Nat /\ IsFiniteSet(Items)

ASSUME CutoverAssumption == Last \in Nat \ {0} /\ Probed \subseteq 1..Last

ASSUME ActorsAssumption == IsFiniteSet(Actors) /\ "nobody" \notin Actors

VARIABLES
  service,
  holds, readable, councilRequest, standing, gone, councilTask, councilReceipts, ran,
  councilFailures,
  sweepLock, sweeping, abandoned, sweepFailures,
  vault, fresh, issued, vaultRequest, writer, passed, vaultRaced, vaultForgotten, answered,
  vaultOverlaps, vaultFailures,
  file, torn, ended, ledgerLock, append, ledgerLog, kept, cut, ledgerFailures, ledgerEdits,
  killed, start, book, alphaTask, alphaRaced,
  order, supplied, shipped, fulfilled, row, run, doubtful, fulfillmentFailures,
  head, runtime, repair, disturbed, healEdits, healFailures,
  audit, chain, auditLock, call, written, promised, auditEdits, auditFailures,
  original, new, cutoverPc, at, migrated, errors, report, cutoverFailures,
  queue, posterLog, tmp, posted, posterRun, posterForgotten, crossed, queued, runs, posterFailures,
  stripe, checkout, storeDelivered, events, orders, letters, mails, leads, storePc, session, unsaved,
  storeFailures,
  ready, copies, draft, staged, second, sessions, used, proposalRequest, proposalDoubtful, shared,
  proposalTorn, proposalFailures

Council == INSTANCE CouncilNode WITH
  Lanes <- Single \cup Exits, Busy <- Single, Requests <- Actors,
  request <- councilRequest, task <- councilTask, receipts <- councilReceipts,
  failures <- councilFailures

Sweep == INSTANCE GovernanceSweep WITH
  Sweeps <- Actors, lock <- sweepLock, failures <- sweepFailures

Vault == INSTANCE CredentialVault WITH
  States <- Items, Pages <- Single, Requests <- Actors,
  request <- vaultRequest, raced <- vaultRaced, forgotten <- vaultForgotten,
  overlaps <- vaultOverlaps, failures <- vaultFailures

Ledger == INSTANCE ControlPlaneLedger WITH
  Processes <- Actors, Payloads <- Contents, MaxLength <- MaxLength + 1, MaxEdits <- 2 * MaxEdits,
  lock <- ledgerLock, log <- ledgerLog, failures <- ledgerFailures, edits <- ledgerEdits

Alpha == INSTANCE AlphaGovernor WITH
  Tokens <- Items, Cycles <- Single, task <- alphaTask, raced <- alphaRaced

Fulfillment == INSTANCE OrderFulfillment WITH
  Orders <- Items, Runs <- Actors, failures <- fulfillmentFailures

Heal == INSTANCE SelfHeal WITH
  Files <- Items \cup Single, Protected <- Single, Repairs <- Actors,
  edits <- healEdits, failures <- healFailures

Audit == INSTANCE AuditTrail WITH
  Processes <- Actors, Events <- Contents,
  lock <- auditLock, edits <- auditEdits, failures <- auditFailures

Cutover == INSTANCE GuardedCutover WITH
  N <- Last, MaxFailures <- 2 * MaxFailures, pc <- cutoverPc, failures <- cutoverFailures

Poster == INSTANCE SocialPoster WITH
  Platforms <- Single, Slots <- Items, Texts <- Contents, Runs <- Actors, Nothing <- nobody,
  log <- posterLog, run <- posterRun, forgotten <- posterForgotten, failures <- posterFailures

Store == INSTANCE StoreWebhook WITH
  Sessions <- Items, Nobody <- nobody, MaxFailures <- 2 * MaxFailures,
  delivered <- storeDelivered, pc <- storePc, failures <- storeFailures

Proposals == INSTANCE ProposalQueue WITH
  Proposals <- Single, Requests <- Actors, Tokens <- SessionTokens,
  request <- proposalRequest, tmp <- draft, doubtful <- proposalDoubtful, torn <- proposalTorn,
  failures <- proposalFailures
-----------------------------------------------------------------------------
councilVars == <<holds, readable, councilRequest, standing, gone, councilTask, councilReceipts, ran,
  councilFailures>>
sweepVars == <<sweepLock, sweeping, abandoned, sweepFailures>>
vaultVars == <<vault, fresh, issued, vaultRequest, writer, passed, vaultRaced, vaultForgotten,
  answered, vaultOverlaps, vaultFailures>>
ledgerVars == <<file, torn, ended, ledgerLock, append, ledgerLog, kept, cut, ledgerFailures, ledgerEdits>>
alphaVars == <<killed, start, book, alphaTask, alphaRaced>>
fulfillmentVars == <<order, supplied, shipped, fulfilled, row, run, doubtful, fulfillmentFailures>>
healVars == <<head, runtime, repair, disturbed, healEdits, healFailures>>
auditVars == <<audit, chain, auditLock, call, written, promised, auditEdits, auditFailures>>
cutoverVars == <<original, new, cutoverPc, at, migrated, errors, report, cutoverFailures>>
posterVars == <<queue, posterLog, tmp, posted, posterRun, posterForgotten, crossed, queued, runs,
  posterFailures>>
storeVars == <<stripe, checkout, storeDelivered, events, orders, letters, mails, leads, storePc, session,
  unsaved, storeFailures>>
proposalVars == <<ready, copies, draft, staged, second, sessions, used, proposalRequest,
  proposalDoubtful, shared, proposalTorn, proposalFailures>>

all ==
  <<service, vars, councilVars, sweepVars, vaultVars, ledgerVars, alphaVars,
    fulfillmentVars, healVars, auditVars, cutoverVars, posterVars, storeVars, proposalVars>>

Is(name) == service = name

SumInit ==
  /\ service \in Components
  /\ Init /\ Council!Init /\ Sweep!Init /\ Vault!Init /\ Ledger!Init /\ Alpha!Init
  /\ Fulfillment!Init /\ Heal!Init /\ Audit!Init /\ Cutover!Init /\ Poster!Init /\ Store!Init
  /\ Proposals!Init

(* Nothing happens to the services but this one.                           *)
OthersStandStill(name) ==
  /\ UNCHANGED service
  /\ name # "publisher" => UNCHANGED vars
  /\ name # "council" => UNCHANGED councilVars
  /\ name # "sweep" => UNCHANGED sweepVars
  /\ name # "vault" => UNCHANGED vaultVars
  /\ name # "ledger" => UNCHANGED ledgerVars
  /\ name # "alpha" => UNCHANGED alphaVars
  /\ name # "fulfillment" => UNCHANGED fulfillmentVars
  /\ name # "heal" => UNCHANGED healVars
  /\ name # "audit" => UNCHANGED auditVars
  /\ name # "cutover" => UNCHANGED cutoverVars
  /\ name # "poster" => UNCHANGED posterVars
  /\ name # "store" => UNCHANGED storeVars
  /\ name # "proposals" => UNCHANGED proposalVars

SumNext ==
  \/ Is("publisher") /\ Next /\ OthersStandStill("publisher")
  \/ Is("council") /\ Council!Next /\ OthersStandStill("council")
  \/ Is("sweep") /\ Sweep!Next /\ OthersStandStill("sweep")
  \/ Is("vault") /\ Vault!Next /\ OthersStandStill("vault")
  \/ Is("ledger") /\ Ledger!Next /\ OthersStandStill("ledger")
  \/ Is("alpha") /\ Alpha!Next /\ OthersStandStill("alpha")
  \/ Is("fulfillment") /\ Fulfillment!Next /\ OthersStandStill("fulfillment")
  \/ Is("heal") /\ Heal!Next /\ OthersStandStill("heal")
  \/ Is("audit") /\ Audit!Next /\ OthersStandStill("audit")
  \/ Is("cutover") /\ Cutover!Next /\ OthersStandStill("cutover")
  \/ Is("poster") /\ Poster!Next /\ OthersStandStill("poster")
  \/ Is("store") /\ Store!Next /\ OthersStandStill("store")
  \/ Is("proposals") /\ Proposals!Next /\ OthersStandStill("proposals")

Behaviour == SumInit /\ [][SumNext]_all
-----------------------------------------------------------------------------
(* What each service promises, while it is the one that runs.  The modules  *)
(* say more of the code behaviour each property is about.                  *)

(* The variables of each service hold what they should; so do the sweep's   *)
(* lock and the table of sessions.                                         *)
TypesOK ==
  /\ TypeOK
  /\ Is("council") => Council!TypeOK
  /\ Is("sweep") => Sweep!TypeOK /\ Sweep!SweepLockIsTrue
  /\ Is("vault") => Vault!TypeOK
  /\ Is("ledger") => Ledger!TypeOK
  /\ Is("alpha") => Alpha!TypeOK
  /\ Is("fulfillment") => Fulfillment!TypeOK
  /\ Is("heal") => Heal!TypeOK
  /\ Is("audit") => Audit!TypeOK
  /\ Is("cutover") => Cutover!TypeOK
  /\ Is("poster") => Poster!TypeOK
  /\ Is("store") => Store!TypeOK
  /\ Is("proposals") => Proposals!TypeOK /\ Proposals!SessionsAreBounded

(* Council: a task evaluated after its lane's HOLD was answered and before  *)
(* the hold is lifted never has its handler called, unless the file lost   *)
(* the hold.                                                               *)
NoRunUnderHold == Is("council") => Council!NoRunUnderHold

(* Credential vault: a state is good for one callback, unless two checked   *)
(* it before either marked it or its nonce was dropped.                     *)
StateIsUsedOnce == Is("vault") => Vault!StateIsUsedOnce

(* Credential vault: a page answered BOUND stays bound and a configured app *)
(* stays configured.                                                        *)
AnswersAreKept == Is("vault") => Vault!AnswersAreKept

(* Ledger: a file that verify accepts is what was appended, line by line,   *)
(* but for lines removed from its end.                                      *)
WhatVerifiesIsTrue == Is("ledger") => Ledger!WhatVerifiesIsTrue

(* Alpha engine: no position is sold, and its money credited, twice.        *)
PositionIsSoldOnce == Is("alpha") => Alpha!PositionIsSoldOnce

(* Fulfillment: the supplier is asked for an order once, and the shop told  *)
(* of its delivery once.                                                    *)
OrdersAreDeliveredOnce == Is("fulfillment") => Fulfillment!OrdersAreDeliveredOnce

(* Self-heal: a repair that was alone leaves every drifted file as the      *)
(* repository has it, or every file as it found it, unless its undo raised; *)
(* what it calls healthy is, unless it did not see the repository.          *)
RepairIsAllOrNothing == Is("heal") => Heal!RepairIsAllOrNothing

(* Audit trail: who is told that the history is intact has seen every event *)
(* whose log call had returned - of tail and report, unless the log was     *)
(* edited meanwhile.                                                        *)
TrustedIsComplete == Is("audit") => Audit!TrustedIsComplete

(* Cutover: the report of a success, a rollback or a failure says what the  *)
(* containers are.                                                          *)
ReportIsTrue == Is("cutover") => Cutover!ReportIsTrue

(* Cutover: a failed cutover restores the original containers, as its       *)
(* docstring says.                                                          *)
FailureRestoresOriginals == Is("cutover") => Cutover!FailureRestoresOriginals

(* Social poster: a text goes once to a platform and slot, unless its log   *)
(* entry was lost or never made or two runs were at it; an entry is not     *)
(* lost while runs come one after the other and nothing raises.             *)
PostedOnceUnlessForgotten == Is("poster") => Poster!PostedOnceUnlessForgotten

(* Store: a checkout the webhook answered is on record, mailed if it has an *)
(* email and a product, and its lead saved if it has an email, unless that  *)
(* is what failed.                                                          *)
PaidIsAccountedFor == Is("store") => Store!PaidIsAccountedFor

(* Proposal queue: a staged proposal is to be reviewed or has its copy,     *)
(* whatever raises or restarts, unless requests of one second wrote over    *)
(* one another's file.                                                      *)
ProposalsAreKept == Is("proposals") => Proposals!ProposalsAreKept

(* Alpha engine: while the kill switch is on nothing is bought, not even by *)
(* a cycle that scanned when it was off.                                    *)
KillSwitchStopsBuying == [][Is("alpha") => Alpha!StaysOut]_all
=============================================================================
