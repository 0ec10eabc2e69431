--------------------------- MODULE RevenuePromotion ---------------------------
(***************************************************************************)
(* apps/revenue_runtime: the experiments on one product of the shop, their *)
(* promotion into its description and their rollback.                      *)
(*                                                                         *)
(* The operator's requests and the evaluation cycles (POST /control/evaluate *)
(* and the scheduled run of evaluator.py) are runners that share the       *)
(* database and the shop.  A SELECT begins no transaction and the shop     *)
(* takes part in none, so runners, the merchant and a crash come between   *)
(* any two accesses.                                                       *)
(*                                                                         *)
(* Abstracted: the winner gate over the metrics, the kill switch and a     *)
(* missing treatment text are the choice to promote or not; orders and     *)
(* events are left out; the text a treatment puts into the shop is the     *)
(* experiment itself.                                                      *)
(***************************************************************************)
EXTENDS Naturals, Sequences, FiniteSets

CONSTANTS
  Runners,      \* request threads and scheduled cycles
  Experiments,  \* experiment ids, all of one product
  Merchant,     \* texts the merchant writes
  MaxRevision   \* bound on the revisions of the product

ASSUME MerchantAssumption == Merchant # {} /\ Merchant \cap Experiments = {}
ASSUME MaxRevisionAssumption == MaxRevision \in Nat

VARIABLES
  status,      \* experiments.status; "absent" is a missing row
  automatic,   \* experiments.auto_promote: those that promote themselves
  promotions,  \* the promotions table in the order of created_at
  shop,        \* the product at Wix: its text and revision (external)
  runner,      \* runner -> what it is doing
  contended,   \* experiments two runners ever worked on at once (history)
  unrecorded   \* texts put into the shop by a runner that then failed (history)

vars == <<status, automatic, promotions, shop, runner, contended, unrecorded>>

Statuses == {"absent", "draft", "active", "paused", "winner_ready", "promoted", "rolled_back"}
Texts == Experiments \cup Merchant
Revisions == 0..MaxRevision
Promotion ==
  [experiment : Experiments, before : Texts, after : Texts, status : {"promoted", "rolled_back"}]
Idle == [pc |-> "idle"]

(* Inside activate ("checking", "activating"), evaluate_one ("evaluating")  *)
(* or update_plain_description; "row" is the promotion a rollback undoes,  *)
(* "value" the text to write, "before" and "revision" what was read.       *)
Runner ==
  [pc : {"checking", "activating", "evaluating", "reading", "patching", "verifying", "recording"},
   experiment : Experiments, row : Nat, value : Texts, before : Texts, revision : Revisions]

TypeOK ==
  /\ status \in [Experiments -> Statuses]
  /\ automatic \subseteq Experiments
  /\ promotions \in Seq(Promotion)
  /\ shop \in [text : Texts, revision : Revisions]
  /\ runner \in [Runners -> {Idle} \cup Runner]
  /\ \A r \in Runners : runner[r] # Idle => runner[r].row \in 0..Len(promotions)
  /\ contended \subseteq Experiments
  /\ unrecorded \subseteq Texts

Init ==
  /\ status = [e \in Experiments |-> "absent"]
  /\ automatic = {}
  /\ promotions = << >>
  /\ \E text \in Merchant : shop = [text |-> text, revision |-> 0]
  /\ runner = [r \in Runners |-> Idle]
  /\ contended = {} /\ unrecorded = {}

Active == {e \in Experiments : status[e] = "active"}
RowsOf(e) == {i \in DOMAIN promotions : promotions[i].experiment = e}
Live(e) == {i \in RowsOf(e) : promotions[i].status = "promoted"}
Latest(e, i) == i \in Live(e) /\ \A k \in Live(e) : k <= i

At(r, pc) == runner[r].pc = pc
Goes(r, pc) == runner' = [runner EXCEPT ![r].pc = pc]
Ends(r) == runner' = [runner EXCEPT ![r] = Idle]
HasPatched(r) == runner[r].pc \in {"verifying", "recording"}

Begin(r, e, pc, row, value) ==
  /\ runner[r] = Idle
  /\ runner' = [runner EXCEPT ![r] =
       [pc |-> pc, experiment |-> e, row |-> row, value |-> value,
        before |-> value, revision |-> 0]]
  /\ contended' = IF \E q \in Runners : runner[q] # Idle /\ runner[q].experiment = e
                  THEN contended \cup {e} ELSE contended
  /\ UNCHANGED <<automatic, status, promotions, shop, unrecorded>>
-----------------------------------------------------------------------------
Create(e) ==
  /\ status[e] = "absent"
  /\ status' = [status EXCEPT ![e] = "draft"]
  /\ automatic' \in {automatic, automatic \cup {e}}
  /\ UNCHANGED <<promotions, shop, runner, contended, unrecorded>>

(* activate: two SELECTs, then an UPDATE of the row whatever it says by     *)
(* now, which the index one_active_experiment_per_product may refuse.      *)
Activate(r, e) ==
  /\ status[e] \in {"draft", "paused"}
  /\ Begin(r, e, "checking", 0, e)

ActivateCheck(r) ==
  /\ At(r, "checking")
  /\ IF Active \ {runner[r].experiment} = {} THEN Goes(r, "activating") ELSE Ends(r)
  /\ UNCHANGED <<automatic, status, promotions, shop, contended, unrecorded>>

(* Mutant: the table has no such index.                                    *)
ActivateWriteUnindexed(r) ==
  /\ At(r, "activating")
  /\ status' = [status EXCEPT ![runner[r].experiment] = "active"]
  /\ Ends(r)
  /\ UNCHANGED <<automatic, promotions, shop, contended, unrecorded>>

ActivateWrite(r) ==
  /\ At(r, "activating")
  /\ status' = IF Active \ {runner[r].experiment} = {}
               THEN [status EXCEPT ![runner[r].experiment] = "active"] ELSE status
  /\ Ends(r)
  /\ UNCHANGED <<automatic, promotions, shop, contended, unrecorded>>

Pause(e) ==
  /\ status[e] = "active"
  /\ status' = [status EXCEPT ![e] = "paused"]
  /\ UNCHANGED <<automatic, promotions, shop, runner, contended, unrecorded>>
-----------------------------------------------------------------------------
(* run_cycle lists the active experiments, at most one for the product, and *)
(* hands each to evaluate_one, which does not look at its status again.    *)
Cycle(r, e) ==
  /\ status[e] = "active"
  /\ Begin(r, e, "evaluating", 0, e)

KeepRunning(r) ==
  /\ At(r, "evaluating")
  /\ Ends(r)
  /\ UNCHANGED <<automatic, status, promotions, shop, contended, unrecorded>>

(* mark_decision                                                           *)
WinnerReady(r) ==
  /\ At(r, "evaluating")
  /\ runner[r].experiment \notin automatic
  /\ status' = [status EXCEPT ![runner[r].experiment] = "winner_ready"]
  /\ Ends(r)
  /\ UNCHANGED <<automatic, promotions, shop, contended, unrecorded>>

Promote(r) ==
  /\ At(r, "evaluating")
  /\ runner[r].experiment \in automatic
  /\ Goes(r, "reading")
  /\ UNCHANGED <<automatic, status, promotions, shop, contended, unrecorded>>

(* rollback: the latest promotion of the experiment that still stands.     *)
Rollback(r, e) ==
  \E i \in DOMAIN promotions :
    Latest(e, i) /\ Begin(r, e, "reading", i, promotions[i].before)
-----------------------------------------------------------------------------
(* update_plain_description, for a promotion and for a rollback.           *)
ReadProduct(r) ==
  /\ At(r, "reading")
  /\ runner' = [runner EXCEPT ![r].pc = "patching",
                              ![r].before = shop.text, ![r].revision = shop.revision]
  /\ UNCHANGED <<automatic, status, promotions, shop, contended, unrecorded>>

(* A write that changes nothing may leave the revision as it is.           *)
Written(text) ==
  {[text |-> text, revision |-> n] : n \in
     {shop.revision + 1} \cup IF text = shop.text THEN {shop.revision} ELSE {}}

(* Mutant: the request names no revision.                                  *)
PatchUnversioned(r) ==
  /\ At(r, "patching")
  /\ shop.revision < MaxRevision
  /\ shop' \in Written(runner[r].value)
  /\ Goes(r, "verifying")
  /\ UNCHANGED <<automatic, status, promotions, contended, unrecorded>>

(* Wix refuses a revision that is not the current one.                     *)
Patch(r) ==
  /\ At(r, "patching")
  /\ runner[r].revision = shop.revision
  /\ shop.revision < MaxRevision
  /\ shop' \in Written(runner[r].value)
  /\ Goes(r, "verifying")
  /\ UNCHANGED <<automatic, status, promotions, contended, unrecorded>>

Verify(r) ==
  /\ At(r, "verifying")
  /\ shop.text = runner[r].value /\ shop.revision # runner[r].revision
  /\ Goes(r, "recording")
  /\ UNCHANGED <<automatic, status, promotions, shop, contended, unrecorded>>

NewPromotion(r) ==
  [experiment |-> runner[r].experiment, before |-> runner[r].before,
   after |-> runner[r].value, status |-> "promoted"]

(* Mutant: nothing is recorded for an experiment that was paused meanwhile. *)
RecordPromotionIfActive(r) ==
  LET e == runner[r].experiment
      still == status[e] = "active" IN
  /\ At(r, "recording") /\ runner[r].row = 0
  /\ promotions' = IF still THEN Append(promotions, NewPromotion(r)) ELSE promotions
  /\ status' = IF still THEN [status EXCEPT ![e] = "promoted"] ELSE status
  /\ Ends(r)
  /\ UNCHANGED <<automatic, shop, contended, unrecorded>>

(* Mutant: the experiment stays active.                                    *)
RecordPromotionOnly(r) ==
  /\ At(r, "recording") /\ runner[r].row = 0
  /\ promotions' = Append(promotions, NewPromotion(r))
  /\ Ends(r)
  /\ UNCHANGED <<automatic, status, shop, contended, unrecorded>>

(* record_promotion: both rows in one transaction.                         *)
RecordPromotion(r) ==
  /\ At(r, "recording") /\ runner[r].row = 0
  /\ promotions' = Append(promotions, NewPromotion(r))
  /\ status' = [status EXCEPT ![runner[r].experiment] = "promoted"]
  /\ Ends(r)
  /\ UNCHANGED <<automatic, shop, contended, unrecorded>>

(* mark_rolled_back                                                        *)
MarkRolledBack(r) ==
  /\ At(r, "recording") /\ runner[r].row # 0
  /\ promotions' = [promotions EXCEPT ![runner[r].row].status = "rolled_back"]
  /\ status' = [status EXCEPT ![runner[r].experiment] = "rolled_back"]
  /\ Ends(r)
  /\ UNCHANGED <<automatic, shop, contended, unrecorded>>

(* Wix refuses, times out before or after it wrote, or shows something else *)
(* than was written; the database stays locked; the process dies.          *)
Abandon(r) ==
  /\ runner[r] # Idle
  /\ unrecorded' = IF HasPatched(r) THEN unrecorded \cup {runner[r].value} ELSE unrecorded
  /\ Ends(r)
  /\ UNCHANGED <<automatic, status, promotions, shop, contended>>

(* The merchant edits the product in the shop's own interface.             *)
Edit ==
  /\ shop.revision < MaxRevision
  /\ \E text \in Merchant : shop' = [text |-> text, revision |-> shop.revision + 1]
  /\ UNCHANGED <<automatic, status, promotions, runner, contended, unrecorded>>

Next ==
  \/ \E e \in Experiments : Create(e) \/ Pause(e)
  \/ \E r \in Runners, e \in Experiments : Activate(r, e) \/ Cycle(r, e) \/ Rollback(r, e)
  \/ \E r \in Runners :
       \/ ActivateCheck(r) \/ ActivateWrite(r)
       \/ KeepRunning(r) \/ WinnerReady(r) \/ Promote(r)
       \/ ReadProduct(r) \/ Patch(r) \/ Verify(r)
       \/ RecordPromotion(r) \/ MarkRolledBack(r)
       \/ Abandon(r)
  \/ Edit

Spec == Init /\ [][Next]_vars
-----------------------------------------------------------------------------
(* governance/revenue_execution_policy.json:19: activations that read the  *)
(* table before either wrote still leave one active experiment.            *)
OneActivePerProduct == Cardinality(Active) <= 1

(* A promotion that stands says so, undoing a later promotion brought the   *)
(* treatment back, or its writer is on the way to record it.               *)
Explained(e) ==
  \/ \E i \in Live(e) : promotions[i].after = e
  \/ \E i \in DOMAIN promotions : promotions[i].status = "rolled_back" /\ promotions[i].before = e
  \/ \E r \in Runners : HasPatched(r) /\ runner[r].value = e

(* A treatment in the shop is explained by the database, unless a runner   *)
(* failed between the shop and the database.                               *)
ShopIsExplained ==
  \A e \in Experiments : shop.text = e => Explained(e) \/ e \in unrecorded

(* governance/revenue_execution_policy.json:21 and 23 require a snapshot of *)
(* the text before and a rollback: also after such a failure.              *)
TreatmentHasItsSnapshot == \A e \in Experiments : shop.text = e => Explained(e)

(* An experiment whose runners never overlapped and never failed on the way *)
(* is promoted once, and its snapshot is not the treatment itself: a       *)
(* rollback takes the treatment out of the shop.                           *)
SequentiallyReversible ==
  \A e \in Experiments \ (contended \cup unrecorded) :
    /\ Cardinality(RowsOf(e)) <= 1
    /\ \A i \in RowsOf(e) : promotions[i].before # e
    /\ status[e] = "promoted" <=> Live(e) # {}

(* A promotion replaces exactly the text it will record as before_value: an *)
(* edit of the merchant between its read and its write is never lost.      *)
PromotionKeepsWhatItReplaces ==
  [][\A r \in Runners :
       At(r, "patching") /\ HasPatched(r)' => runner[r].before = shop.text]_vars
=============================================================================
