------------------------ MODULE RevenuePromotionProofs ------------------------
(***************************************************************************)
(* The promotion's properties, proved for any sets of runners, experiments *)
(* and texts of the merchant and any bound on the revisions.               *)
(*                                                                         *)
(* ShopIsExplained is not inductive: a rollback that has already written   *)
(* to the shop is about to take away a row that explains the treatment     *)
(* which another runner has put there meanwhile.  Accounted says of such a *)
(* row that no rollback of it has come that far.  SequentiallyReversible    *)
(* rests on where a text can have come from (TextsAreKnown): a promotion    *)
(* never reads its own treatment, which is not out before.                 *)
(***************************************************************************)
EXTENDS RevenuePromotion, FiniteSetTheorems, SequenceTheorems, TLAPS

Places == {"checking", "activating", "evaluating", "reading", "patching", "verifying", "recording"}

OneActive == \A d, e \in Active : d = e

(* Of the text it read a runner knows the revision, and no other text ever *)
(* had this one.                                                           *)
ReadIsKnown ==
  \A r \in Runners : runner[r].pc = "patching" =>
    /\ runner[r].revision <= shop.revision
    /\ runner[r].revision = shop.revision => runner[r].before = shop.text

(* A promotion writes its experiment, a rollback what its row replaced.    *)
ValueIsKnown ==
  \A r \in Runners : runner[r].pc # "idle" =>
    /\ runner[r].row = 0 => runner[r].value = runner[r].experiment
    /\ runner[r].row # 0 => /\ promotions[runner[r].row].before = runner[r].value
                            /\ promotions[runner[r].row].experiment = runner[r].experiment

BeingUndone(i) == \E r \in Runners : HasPatched(r) /\ runner[r].row = i

Accounted(e) ==
  \/ \E i \in DOMAIN promotions :
       promotions[i].status = "promoted" /\ promotions[i].after = e /\ ~BeingUndone(i)
  \/ \E i \in DOMAIN promotions : promotions[i].status = "rolled_back" /\ promotions[i].before = e
  \/ \E r \in Runners : HasPatched(r) /\ runner[r].value = e

ShopIsAccounted ==
  \A e \in Experiments : shop.text = e => Accounted(e) \/ e \in unrecorded

(* A promotion that stands is one of the experiment it brought to the shop. *)
RowsAreTheirs ==
  \A i \in DOMAIN promotions : promotions[i].after = promotions[i].experiment

IInv == ReadIsKnown /\ ValueIsKnown /\ RowsAreTheirs /\ ShopIsAccounted
-----------------------------------------------------------------------------
LEMMA Busy ==
  ASSUME TypeOK, NEW r \in Runners, runner[r].pc # "idle"
  PROVE  runner[r] \in Runner /\ runner[r] # Idle
BY DEF TypeOK, Idle

LEMMA RunnerIsBusy ==
  ASSUME NEW x \in Runner
  PROVE  x.pc # "idle" /\ x # Idle
BY DEF Runner, Idle

(* A runner goes on to another place and keeps what it has in hand.        *)
LEMMA GoesOn ==
  ASSUME TypeOK, NEW r \in Runners, runner[r].pc # "idle", NEW pc \in Places, Goes(r, pc)
  PROVE  /\ runner' \in [Runners -> {Idle} \cup Runner]
         /\ runner'[r] \in Runner /\ runner'[r].pc = pc
         /\ runner'[r].experiment = runner[r].experiment /\ runner'[r].row = runner[r].row
         /\ runner'[r].value = runner[r].value /\ runner'[r].before = runner[r].before
         /\ runner'[r].revision = runner[r].revision
         /\ \A q \in Runners \ {r} : runner'[q] = runner[q]
<1> DEFINE x == [runner[r] EXCEPT !.pc = pc]
<1>1. runner[r] \in Runner
  BY Busy
<1>2. x \in Runner
  BY <1>1 DEF Runner, Places
<1>3. /\ x.pc = pc /\ x.experiment = runner[r].experiment /\ x.row = runner[r].row
      /\ x.value = runner[r].value /\ x.before = runner[r].before /\ x.revision = runner[r].revision
  BY <1>1 DEF Runner
<1>4. runner' = [runner EXCEPT ![r] = x] /\ runner \in [Runners -> {Idle} \cup Runner]
  BY DEF Goes, TypeOK
<1> HIDE DEF x
<1> QED BY <1>2, <1>3, <1>4

LEMMA EndsThere ==
  ASSUME TypeOK, NEW r \in Runners, Ends(r)
  PROVE  /\ runner' \in [Runners -> {Idle} \cup Runner]
         /\ runner'[r] = Idle /\ runner'[r].pc = "idle"
         /\ \A q \in Runners \ {r} : runner'[q] = runner[q]
<1>1. runner' = [runner EXCEPT ![r] = Idle] /\ runner \in [Runners -> {Idle} \cup Runner]
  BY DEF Ends, TypeOK
<1> QED BY <1>1 DEF Idle

LEMMA BeginsThere ==
  ASSUME TypeOK, NEW r \in Runners, NEW e \in Experiments,
         NEW pc \in {"checking", "evaluating", "reading"}, NEW row \in Nat, NEW value \in Texts,
         Begin(r, e, pc, row, value)
  PROVE  /\ runner' \in [Runners -> {Idle} \cup Runner]
         /\ runner[r] = Idle /\ runner'[r] \in Runner /\ runner'[r].pc = pc /\ runner'[r].row = row
         /\ runner'[r].value = value /\ runner'[r].experiment = e
         /\ \A q \in Runners \ {r} : runner'[q] = runner[q]
         /\ contended' \subseteq contended \cup {e}
         /\ UNCHANGED <<automatic, status, promotions, shop, unrecorded>>
<1> DEFINE x == [pc |-> pc, experiment |-> e, row |-> row, value |-> value,
                 before |-> value, revision |-> 0]
<1>1. x \in Runner /\ x.pc = pc /\ x.row = row /\ x.value = value /\ x.experiment = e
  BY MaxRevisionAssumption DEF Runner, Revisions
<1>2. runner' = [runner EXCEPT ![r] = x] /\ runner \in [Runners -> {Idle} \cup Runner]
  BY DEF Begin, TypeOK
<1>3. /\ runner[r] = Idle /\ contended' \subseteq contended \cup {e}
      /\ UNCHANGED <<automatic, status, promotions, shop, unrecorded>>
  BY DEF Begin
<1> HIDE DEF x
<1> QED BY <1>1, <1>2, <1>3
-----------------------------------------------------------------------------
(* The steps of a runner, by what it does with what it has in hand.        *)
Begins(r) ==
  \E e \in Experiments, pc \in {"checking", "evaluating", "reading"}, row \in Nat, value \in Texts :
    /\ Begin(r, e, pc, row, value)
    /\ IF row = 0 THEN value = e
       ELSE row \in RowsOf(e) /\ promotions[row].before = value

LEMMA RunnerBegins ==
  ASSUME TypeOK, NEW r \in Runners, NEW e \in Experiments,
         Activate(r, e) \/ Cycle(r, e) \/ Rollback(r, e)
  PROVE  Begins(r)
<1>1. CASE Activate(r, e) \/ Cycle(r, e)
  <2>1. e \in Texts /\ 0 \in Nat
    BY DEF Texts
  <2>2. Begin(r, e, "checking", 0, e) \/ Begin(r, e, "evaluating", 0, e)
    BY <1>1 DEF Activate, Cycle
  <2> QED BY <2>1, <2>2 DEF Begins
<1>2. CASE Rollback(r, e)
  <2>1. PICK i \in RowsOf(e) : Begin(r, e, "reading", i, promotions[i].before)
    BY <1>2 DEF Rollback, Latest, Live, RowsOf
  <2>2. promotions \in Seq(Promotion)
    BY DEF TypeOK
  <2>3. i \in Nat /\ i # 0 /\ promotions[i] \in Promotion
    BY <2>1, <2>2 DEF RowsOf
  <2>4. promotions[i].before \in Texts
    BY <2>3 DEF Promotion
  <2> QED BY <2>1, <2>3, <2>4 DEF Begins
<1> QED BY <1>1, <1>2

LEMMA TypeStep ==
  ASSUME TypeOK, [Next]_vars
  PROVE  TypeOK'
<1> USE DEF Statuses
<1>1. ASSUME NEW r \in Runners, Begins(r)
      PROVE  TypeOK'
  <2>1. PICK e \in Experiments, pc \in {"checking", "evaluating", "reading"}, row \in Nat, value \in Texts :
          /\ Begin(r, e, pc, row, value)
          /\ IF row = 0 THEN value = e ELSE row \in RowsOf(e) /\ promotions[row].before = value
    BY <1>1 DEF Begins
  <2>2. row \in 0..Len(promotions)
    BY <2>1 DEF TypeOK, RowsOf
  <2>3. /\ runner' \in [Runners -> {Idle} \cup Runner] /\ runner'[r].row = row
        /\ \A q \in Runners \ {r} : runner'[q] = runner[q]
        /\ contended' \subseteq contended \cup {e}
        /\ UNCHANGED <<automatic, status, promotions, shop, unrecorded>>
    BY <2>1, BeginsThere
  <2> QED BY <2>2, <2>3 DEF TypeOK
<1>2. ASSUME NEW r \in Runners, Ends(r), UNCHANGED <<automatic, shop, contended>>,
             status' \in [Experiments -> Statuses], unrecorded' \subseteq Texts,
             promotions' \in Seq(Promotion), Len(promotions') >= Len(promotions)
      PROVE  TypeOK'
  <2>1. /\ runner' \in [Runners -> {Idle} \cup Runner] /\ runner'[r] = Idle
        /\ \A q \in Runners \ {r} : runner'[q] = runner[q]
    BY <1>2, EndsThere
  <2>2. Len(promotions) \in Nat /\ Len(promotions') \in Nat
    BY <1>2 DEF TypeOK
  <2>3. ASSUME NEW q \in Runners, runner'[q] # Idle
        PROVE  runner'[q].row \in 0..Len(promotions')
    BY <2>1, <2>2, <2>3, <1>2 DEF TypeOK
  <2> QED BY <1>2, <2>1, <2>3 DEF TypeOK
<1>3. ASSUME NEW r \in Runners, runner[r].pc # "idle", NEW pc \in Places, Goes(r, pc),
             shop' \in [text : Texts, revision : Revisions],
             UNCHANGED <<automatic, status, promotions, contended, unrecorded>>
      PROVE  TypeOK'
  <2>1. runner[r] # Idle
    BY <1>3, Busy
  <2>2. /\ runner' \in [Runners -> {Idle} \cup Runner] /\ runner'[r].row = runner[r].row
        /\ \A q \in Runners \ {r} : runner'[q] = runner[q]
    BY <1>3, GoesOn
  <2> QED BY <1>3, <2>1, <2>2 DEF TypeOK
<1>4. ASSUME NEW r \in Runners, NEW e \in Experiments, Activate(r, e) \/ Cycle(r, e) \/ Rollback(r, e)
      PROVE  TypeOK'
  BY <1>1, <1>4, RunnerBegins
<1>5. ASSUME NEW e \in Experiments, Create(e) \/ Pause(e)
      PROVE  TypeOK'
  BY <1>5 DEF Create, Pause, TypeOK
<1>6. ASSUME NEW r \in Runners, ActivateCheck(r) \/ KeepRunning(r) \/ Promote(r)
      PROVE  TypeOK'
  <2>1. UNCHANGED <<automatic, status, promotions, shop, contended, unrecorded>>
    BY <1>6 DEF ActivateCheck, KeepRunning, Promote
  <2>2. /\ runner[r].pc # "idle"
        /\ Ends(r) \/ \E pc \in Places : Goes(r, pc)
    BY <1>6 DEF ActivateCheck, KeepRunning, Promote, At, Places
  <2> QED BY <2>1, <2>2, <1>2, <1>3 DEF TypeOK
<1>7. ASSUME NEW r \in Runners, ActivateWrite(r) \/ WinnerReady(r)
      PROVE  TypeOK'
  <2>1. Ends(r) /\ UNCHANGED <<automatic, promotions, shop, contended, unrecorded>>
    BY <1>7 DEF ActivateWrite, WinnerReady
  <2>2. status' \in [Experiments -> Statuses]
    BY <1>7 DEF ActivateWrite, WinnerReady, TypeOK
  <2> QED BY <2>1, <2>2, <1>2 DEF TypeOK
<1>8. ASSUME NEW r \in Runners, ReadProduct(r)
      PROVE  TypeOK'
  <2> DEFINE x == [runner[r] EXCEPT !.pc = "patching", !.before = shop.text, !.revision = shop.revision]
  <2>1. /\ runner[r].pc = "reading" /\ runner' = [runner EXCEPT ![r] = x]
        /\ UNCHANGED <<automatic, status, promotions, shop, contended, unrecorded>>
    BY <1>8 DEF ReadProduct, At
  <2>2. runner[r] \in Runner /\ runner[r] # Idle
    BY <2>1, Busy
  <2>3. x \in Runner /\ x.row = runner[r].row
    BY <2>2 DEF Runner, TypeOK
  <2> HIDE DEF x
  <2> QED BY <2>1, <2>2, <2>3 DEF TypeOK
<1>9. ASSUME NEW r \in Runners, Patch(r)
      PROVE  TypeOK'
  <2>1. /\ runner[r].pc = "patching" /\ shop.revision < MaxRevision
        /\ shop' \in Written(runner[r].value) /\ Goes(r, "verifying")
        /\ UNCHANGED <<automatic, status, promotions, contended, unrecorded>>
    BY <1>9 DEF Patch, At
  <2>2. runner[r].value \in Texts
    BY <2>1, Busy DEF Runner
  <2>3. shop.revision \in Revisions /\ shop.revision + 1 \in Revisions
    BY <2>1, MaxRevisionAssumption DEF TypeOK, Revisions
  <2>4. shop' \in [text : Texts, revision : Revisions]
    BY <2>1, <2>2, <2>3 DEF Written
  <2> QED BY <2>1, <2>4, <1>3 DEF Places
<1>10. ASSUME NEW r \in Runners, Verify(r)
       PROVE  TypeOK'
  BY <1>10, <1>3 DEF Verify, At, Places, TypeOK
<1>11. ASSUME NEW r \in Runners, RecordPromotion(r)
       PROVE  TypeOK'
  <2>1. runner[r].pc # "idle" /\ Ends(r) /\ UNCHANGED <<automatic, shop, contended, unrecorded>>
    BY <1>11 DEF RecordPromotion, At
  <2>2. NewPromotion(r) \in Promotion
    BY <2>1, Busy DEF NewPromotion, Promotion, Runner
  <2>3. promotions' = Append(promotions, NewPromotion(r)) /\ promotions \in Seq(Promotion)
    BY <1>11 DEF RecordPromotion, TypeOK
  <2>4. promotions' \in Seq(Promotion) /\ Len(promotions') = Len(promotions) + 1 /\ Len(promotions) \in Nat
    BY <2>2, <2>3, AppendProperties
  <2>5. status' \in [Experiments -> Statuses]
    BY <1>11 DEF RecordPromotion, TypeOK
  <2> QED BY <2>1, <2>4, <2>5, <1>2 DEF TypeOK
<1>12. ASSUME NEW r \in Runners, MarkRolledBack(r)
       PROVE  TypeOK'
  <2>1. runner[r].pc # "idle" /\ Ends(r) /\ UNCHANGED <<automatic, shop, contended, unrecorded>>
    BY <1>12 DEF MarkRolledBack, At
  <2> DEFINE i == runner[r].row
             x == [promotions[i] EXCEPT !.status = "rolled_back"]
  <2>2. promotions' = [promotions EXCEPT ![i] = x] /\ promotions \in Seq(Promotion) /\ i # 0
    BY <1>12 DEF MarkRolledBack, TypeOK
  <2>3. i \in 1..Len(promotions)
    BY <2>1, <2>2, Busy DEF TypeOK
  <2>4. promotions[i] \in Promotion
    BY <2>2, <2>3
  <2>5. x \in Promotion
    BY <2>4 DEF Promotion
  <2>6. status' \in [Experiments -> Statuses]
    BY <1>12 DEF MarkRolledBack, TypeOK
  <2> HIDE DEF x, i
  <2>7. promotions' \in Seq(Promotion) /\ Len(promotions') = Len(promotions) /\ Len(promotions) \in Nat
    BY <2>2, <2>3, <2>5, ExceptSeq
  <2> QED BY <2>1, <2>6, <2>7, <1>2 DEF TypeOK
<1>13. ASSUME NEW r \in Runners, Abandon(r)
       PROVE  TypeOK'
  <2>1. Ends(r) /\ UNCHANGED <<automatic, status, promotions, shop, contended>>
    BY <1>13 DEF Abandon
  <2>2. HasPatched(r) => runner[r].value \in Texts
    BY Busy DEF HasPatched, Runner
  <2>3. unrecorded' \subseteq Texts
    BY <1>13, <2>2 DEF Abandon, TypeOK
  <2> QED BY <2>1, <2>3, <1>2 DEF TypeOK
<1>14. CASE Edit
  <2>1. PICK text \in Merchant : shop' = [text |-> text, revision |-> shop.revision + 1]
    BY <1>14 DEF Edit
  <2>2. shop.revision < MaxRevision /\ UNCHANGED <<automatic, status, promotions, runner, contended, unrecorded>>
    BY <1>14 DEF Edit
  <2>3. shop' \in [text : Texts, revision : Revisions]
    BY <2>1, <2>2, MaxRevisionAssumption DEF TypeOK, Texts, Revisions
  <2> QED BY <2>2, <2>3 DEF TypeOK
<1>15. CASE UNCHANGED vars
  BY <1>15 DEF vars, TypeOK
<1> QED BY <1>4, <1>5, <1>6, <1>7, <1>8, <1>9, <1>10, <1>11, <1>12, <1>13, <1>14, <1>15 DEF Next

LEMMA Typed == Spec => []TypeOK
<1>1. Init => TypeOK
  BY MaxRevisionAssumption DEF Init, TypeOK, Statuses, Texts, Revisions, Idle
<1> QED BY <1>1, TypeStep, PTL DEF Spec
-----------------------------------------------------------------------------
(* A step makes at most one experiment active, and none while another is.  *)
LEMMA ActiveMoves ==
  ASSUME TypeOK, [Next]_vars
  PROVE  Active' \subseteq Active \/ \E e \in Experiments : Active \ {e} = {} /\ Active' \subseteq {e}
<1>1. ASSUME NEW e \in Experiments, NEW s \in Statuses, s # "active", status' = [status EXCEPT ![e] = s]
      PROVE  Active' \subseteq Active
  BY <1>1 DEF Active, TypeOK
<1>2. CASE UNCHANGED status
  BY <1>2 DEF Active
<1>3. ASSUME NEW e \in Experiments, Create(e) \/ Pause(e)
      PROVE  Active' \subseteq Active
  BY <1>3, <1>1 DEF Create, Pause, Statuses
<1>4. ASSUME NEW r \in Runners, NEW e \in Experiments, Activate(r, e) \/ Cycle(r, e) \/ Rollback(r, e)
      PROVE  UNCHANGED status
  BY <1>4 DEF Activate, Cycle, Rollback, Begin
<1>5. ASSUME NEW r \in Runners,
             ActivateCheck(r) \/ KeepRunning(r) \/ Promote(r) \/ ReadProduct(r) \/ Patch(r) \/ Verify(r) \/ Abandon(r)
      PROVE  UNCHANGED status
  BY <1>5 DEF ActivateCheck, KeepRunning, Promote, ReadProduct, Patch, Verify, Abandon
<1>6. ASSUME NEW r \in Runners, WinnerReady(r) \/ RecordPromotion(r) \/ MarkRolledBack(r)
      PROVE  Active' \subseteq Active
  <2>1. runner[r].experiment \in Experiments
    BY <1>6, Busy DEF WinnerReady, RecordPromotion, MarkRolledBack, At, Runner
  <2> QED BY <2>1, <1>1, <1>6 DEF WinnerReady, RecordPromotion, MarkRolledBack, Statuses
<1>7. ASSUME NEW r \in Runners, ActivateWrite(r)
      PROVE  UNCHANGED status \/ \E e \in Experiments : Active \ {e} = {} /\ Active' \subseteq {e}
  <2>1. runner[r].experiment \in Experiments
    BY <1>7, Busy DEF ActivateWrite, At, Runner
  <2>2. CASE Active \ {runner[r].experiment} = {}
    <3>1. status' = [status EXCEPT ![runner[r].experiment] = "active"]
      BY <2>2, <1>7 DEF ActivateWrite
    <3> QED BY <2>1, <2>2, <3>1 DEF Active, TypeOK
  <2>3. CASE Active \ {runner[r].experiment} # {}
    BY <2>3, <1>7 DEF ActivateWrite
  <2> QED BY <2>2, <2>3
<1>8. CASE Edit \/ UNCHANGED vars
  BY <1>8, <1>2 DEF Edit, vars
<1> QED BY <1>2, <1>3, <1>4, <1>5, <1>6, <1>7, <1>8 DEF Next

LEMMA OneActiveHolds == Spec => []OneActive
<1>1. Init => OneActive
  BY DEF Init, OneActive, Active
<1>2. TypeOK /\ OneActive /\ [Next]_vars => OneActive'
  BY ActiveMoves DEF OneActive
<1> QED BY <1>1, <1>2, Typed, PTL DEF Spec

LEMMA OneActiveCounts ==
  ASSUME OneActive
  PROVE  OneActivePerProduct
<1>1. CASE Active = {}
  BY <1>1, FS_EmptySet DEF OneActivePerProduct
<1>2. ASSUME NEW e \in Active
      PROVE  OneActivePerProduct
  <2>1. Active = {e}
    BY <1>2 DEF OneActive
  <2>2. Cardinality({e}) = 1
    BY FS_Singleton
  <2> QED BY <2>1, <2>2 DEF OneActivePerProduct
<1> QED BY <1>1, <1>2
-----------------------------------------------------------------------------
(* What the steps that leave the shop alone do to the runners' knowledge.  *)
LEMMA ReadIsKnownStep ==
  ASSUME TypeOK, ReadIsKnown, [Next]_vars
  PROVE  ReadIsKnown'
<1>1. ASSUME UNCHANGED shop,
             \A q \in Runners : runner'[q] = runner[q] \/ runner'[q].pc # "patching"
      PROVE  ReadIsKnown'
  BY <1>1 DEF ReadIsKnown
<1>2. ASSUME NEW r \in Runners, NEW e \in Experiments, Activate(r, e) \/ Cycle(r, e) \/ Rollback(r, e)
      PROVE  ReadIsKnown'
  <2>1. UNCHANGED shop /\ \A q \in Runners : runner'[q] = runner[q] \/ runner'[q].pc # "patching"
    BY <1>2, RunnerBegins, BeginsThere DEF Begins
  <2> QED BY <2>1, <1>1
<1>3. ASSUME NEW r \in Runners,
             \/ ActivateCheck(r) \/ ActivateWrite(r) \/ KeepRunning(r) \/ WinnerReady(r) \/ Promote(r)
             \/ Verify(r) \/ RecordPromotion(r) \/ MarkRolledBack(r) \/ Abandon(r)
      PROVE  ReadIsKnown'
  <2>1. UNCHANGED shop
    BY <1>3 DEF ActivateCheck, ActivateWrite, KeepRunning, WinnerReady, Promote, Verify,
                RecordPromotion, MarkRolledBack, Abandon
  <2>2. \/ Ends(r)
        \/ runner[r].pc # "idle" /\ \E pc \in Places \ {"patching"} : Goes(r, pc)
    BY <1>3 DEF ActivateCheck, ActivateWrite, KeepRunning, WinnerReady, Promote, Verify,
                RecordPromotion, MarkRolledBack, Abandon, At, Places
  <2>3. \A q \in Runners : runner'[q] = runner[q] \/ runner'[q].pc # "patching"
    BY <2>2, EndsThere, GoesOn
  <2> QED BY <2>1, <2>3, <1>1
<1>4. ASSUME NEW r \in Runners, ReadProduct(r)
      PROVE  ReadIsKnown'
  <2>1. /\ runner[r].pc = "reading" /\ UNCHANGED shop
        /\ runner' = [runner EXCEPT ![r].pc = "patching",
                                    ![r].before = shop.text, ![r].revision = shop.revision]
    BY <1>4 DEF ReadProduct, At
  <2>2. runner[r] \in Runner /\ shop.revision \in Nat
    BY <2>1, Busy DEF TypeOK, Revisions
  <2>3. /\ runner'[r].before = shop.text /\ runner'[r].revision = shop.revision
        /\ \A q \in Runners \ {r} : runner'[q] = runner[q]
    BY <2>1, <2>2 DEF TypeOK, Runner
  <2>4. shop' = shop /\ shop.revision <= shop.revision
    BY <2>1, <2>2
  <2> QED BY <2>3, <2>4 DEF ReadIsKnown
<1>5. ASSUME \A q \in Runners : runner'[q] = runner[q] \/ runner'[q].pc # "patching",
             shop'.revision \in Nat,
             shop'.revision > shop.revision \/ (shop'.revision = shop.revision /\ shop'.text = shop.text)
      PROVE  ReadIsKnown'
  <2>1. shop.revision \in Nat
    BY DEF TypeOK, Revisions
  <2>2. \A q \in Runners : runner[q].pc = "patching" => runner[q].revision \in Nat
    BY Busy DEF Runner, Revisions
  <2> QED BY <1>5, <2>1, <2>2 DEF ReadIsKnown
<1>6. ASSUME NEW r \in Runners, Patch(r)
      PROVE  ReadIsKnown'
  <2>1. \A q \in Runners : runner'[q] = runner[q] \/ runner'[q].pc # "patching"
    BY <1>6, GoesOn DEF Patch, At, Places
  <2>2. shop' \in Written(runner[r].value) /\ shop.revision \in Nat
    BY <1>6 DEF Patch, TypeOK, Revisions
  <2>3. /\ shop'.revision \in Nat
        /\ shop'.revision > shop.revision \/ (shop'.revision = shop.revision /\ shop'.text = shop.text)
    BY <2>2 DEF Written
  <2> QED BY <2>1, <2>3, <1>5
<1>7. CASE Edit
  <2>1. PICK text \in Merchant : shop' = [text |-> text, revision |-> shop.revision + 1]
    BY <1>7 DEF Edit
  <2>2. UNCHANGED runner /\ shop.revision \in Nat
    BY <1>7 DEF Edit, TypeOK, Revisions
  <2> QED BY <2>1, <2>2, <1>5
<1>8. CASE UNCHANGED <<shop, runner>>
  BY <1>8 DEF ReadIsKnown
<1>9. ASSUME NEW e \in Experiments, Create(e) \/ Pause(e)
      PROVE  ReadIsKnown'
  BY <1>9, <1>8 DEF Create, Pause
<1> QED BY <1>2, <1>3, <1>4, <1>6, <1>7, <1>8, <1>9 DEF Next, vars

LEMMA ReadIsKnownHolds == Spec => []ReadIsKnown
<1>1. Init => ReadIsKnown
  BY DEF Init, ReadIsKnown, Idle
<1> QED BY <1>1, ReadIsKnownStep, Typed, PTL DEF Spec
-----------------------------------------------------------------------------
(* The two writes to the table.                                            *)
LEMMA RowIsAdded ==
  ASSUME TypeOK, NEW r \in Runners, RecordPromotion(r)
  PROVE  /\ runner[r].pc # "idle" /\ Len(promotions) \in Nat
         /\ DOMAIN promotions = 1..Len(promotions) /\ DOMAIN promotions' = 1..(Len(promotions) + 1)
         /\ \A i \in DOMAIN promotions : promotions'[i] = promotions[i]
         /\ promotions'[Len(promotions) + 1] = NewPromotion(r)
<1>1. runner[r].pc # "idle"
  BY DEF RecordPromotion, At
<1>2. NewPromotion(r) \in Promotion
  BY <1>1, Busy DEF NewPromotion, Promotion, Runner
<1>3. promotions' = Append(promotions, NewPromotion(r)) /\ promotions \in Seq(Promotion)
  BY DEF RecordPromotion, TypeOK
<1> QED BY <1>1, <1>2, <1>3, AppendProperties

LEMMA RowIsUndone ==
  ASSUME TypeOK, NEW r \in Runners, MarkRolledBack(r)
  PROVE  /\ runner[r].row \in DOMAIN promotions /\ DOMAIN promotions' = DOMAIN promotions
         /\ \A i \in DOMAIN promotions :
              /\ promotions'[i].before = promotions[i].before /\ promotions'[i].after = promotions[i].after
              /\ promotions'[i].experiment = promotions[i].experiment
              /\ promotions'[i].status = IF i = runner[r].row THEN "rolled_back" ELSE promotions[i].status
<1> DEFINE k == runner[r].row
           x == [promotions[k] EXCEPT !.status = "rolled_back"]
<1>1. promotions \in Seq(Promotion) /\ runner[r].pc # "idle"
  BY DEF MarkRolledBack, At, TypeOK
<1>2. k \in 1..Len(promotions)
  BY <1>1, Busy DEF MarkRolledBack, TypeOK
<1>3. promotions[k] \in Promotion
  BY <1>1, <1>2
<1>4. /\ x.before = promotions[k].before /\ x.after = promotions[k].after
      /\ x.experiment = promotions[k].experiment /\ x.status = "rolled_back"
  BY <1>3 DEF Promotion
<1>5. promotions' = [promotions EXCEPT ![k] = x]
  BY DEF MarkRolledBack
<1> HIDE DEF x, k
<1>6. /\ k \in DOMAIN promotions /\ DOMAIN promotions' = DOMAIN promotions
      /\ \A i \in DOMAIN promotions : promotions'[i] = IF i = k THEN x ELSE promotions[i]
  BY <1>1, <1>2, <1>5
<1> QED BY <1>4, <1>6 DEF k

(* A row keeps what it says but for its status, which is rolled back once. *)
LEMMA RowsStay ==
  ASSUME TypeOK, [Next]_vars
  PROVE  \A i \in DOMAIN promotions :
           /\ i \in DOMAIN promotions' /\ promotions'[i].before = promotions[i].before
           /\ promotions'[i].after = promotions[i].after
           /\ promotions'[i].experiment = promotions[i].experiment
           /\ promotions[i].status = "rolled_back" => promotions'[i].status = "rolled_back"
<1>1. CASE UNCHANGED promotions
  BY <1>1
<1>2. ASSUME NEW r \in Runners, NEW e \in Experiments, Activate(r, e) \/ Cycle(r, e) \/ Rollback(r, e)
      PROVE  UNCHANGED promotions
  BY <1>2 DEF Activate, Cycle, Rollback, Begin
<1>3. ASSUME NEW r \in Runners,
             \/ ActivateCheck(r) \/ ActivateWrite(r) \/ KeepRunning(r) \/ WinnerReady(r) \/ Promote(r)
             \/ ReadProduct(r) \/ Patch(r) \/ Verify(r) \/ Abandon(r)
      PROVE  UNCHANGED promotions
  BY <1>3 DEF ActivateCheck, ActivateWrite, KeepRunning, WinnerReady, Promote, ReadProduct, Patch, Verify, Abandon
<1>4. CASE Edit \/ UNCHANGED vars
  BY <1>4, <1>1 DEF Edit, vars
<1>5. ASSUME NEW e \in Experiments, Create(e) \/ Pause(e)
      PROVE  UNCHANGED promotions
  BY <1>5 DEF Create, Pause
<1>6. ASSUME NEW r \in Runners, RecordPromotion(r)
      PROVE  \A i \in DOMAIN promotions : i \in DOMAIN promotions' /\ promotions'[i] = promotions[i]
  BY <1>6, RowIsAdded
<1> QED BY <1>1, RowIsUndone, <1>2, <1>3, <1>4, <1>5, <1>6 DEF Next
-----------------------------------------------------------------------------
(* What a runner has in hand when it begins stays until it ends.           *)
Keeps(q) ==
  \/ runner'[q] = runner[q]
  \/ runner'[q].pc = "idle"
  \/ /\ runner[q].pc # "idle"
     /\ runner'[q].row = runner[q].row /\ runner'[q].value = runner[q].value
     /\ runner'[q].experiment = runner[q].experiment
  \/ /\ ~HasPatched(q)'
     /\ runner'[q].row = 0 => runner'[q].value = runner'[q].experiment
     /\ runner'[q].row # 0 => /\ runner'[q].row \in RowsOf(runner'[q].experiment)
                              /\ promotions[runner'[q].row].before = runner'[q].value

LEMMA RunnersKeep ==
  ASSUME TypeOK, [Next]_vars
  PROVE  \A q \in Runners : Keeps(q)
<1>1. CASE UNCHANGED runner
  BY <1>1 DEF Keeps
<1>2. ASSUME NEW r \in Runners, Ends(r)
      PROVE  \A q \in Runners : Keeps(q)
  BY <1>2, EndsThere DEF Keeps
<1>3. ASSUME NEW r \in Runners, runner[r].pc # "idle", NEW pc \in Places, Goes(r, pc)
      PROVE  \A q \in Runners : Keeps(q)
  BY <1>3, GoesOn DEF Keeps
<1>4. ASSUME NEW r \in Runners, NEW e \in Experiments, Activate(r, e) \/ Cycle(r, e) \/ Rollback(r, e)
      PROVE  \A q \in Runners : Keeps(q)
  <2>1. Begins(r)
    BY <1>4, RunnerBegins
  <2>2. PICK d \in Experiments, pc \in {"checking", "evaluating", "reading"}, row \in Nat, value \in Texts :
          /\ Begin(r, d, pc, row, value)
          /\ IF row = 0 THEN value = d ELSE row \in RowsOf(d) /\ promotions[row].before = value
    BY <2>1 DEF Begins
  <2>3. /\ runner'[r].pc = pc /\ runner'[r].row = row
        /\ runner'[r].value = value /\ runner'[r].experiment = d
        /\ \A q \in Runners \ {r} : runner'[q] = runner[q]
    BY <2>2, BeginsThere
  <2> QED BY <2>2, <2>3 DEF Keeps, HasPatched
<1>5. ASSUME NEW r \in Runners,
             \/ ActivateCheck(r) \/ ActivateWrite(r) \/ KeepRunning(r) \/ WinnerReady(r) \/ Promote(r)
             \/ Patch(r) \/ Verify(r) \/ RecordPromotion(r) \/ MarkRolledBack(r) \/ Abandon(r)
      PROVE  \A q \in Runners : Keeps(q)
  <2>1. \/ Ends(r)
        \/ runner[r].pc # "idle" /\ \E pc \in Places : Goes(r, pc)
    BY <1>5 DEF ActivateCheck, ActivateWrite, KeepRunning, WinnerReady, Promote, Patch, Verify,
                RecordPromotion, MarkRolledBack, Abandon, At, Places
  <2> QED BY <2>1, <1>2, <1>3
<1>6. ASSUME NEW r \in Runners, ReadProduct(r)
      PROVE  \A q \in Runners : Keeps(q)
  <2>1. /\ runner[r].pc = "reading"
        /\ runner' = [runner EXCEPT ![r].pc = "patching",
                                    ![r].before = shop.text, ![r].revision = shop.revision]
    BY <1>6 DEF ReadProduct, At
  <2>2. runner[r] \in Runner
    BY <2>1, Busy
  <2>3. /\ runner[r].pc # "idle"
        /\ runner'[r].row = runner[r].row /\ runner'[r].value = runner[r].value
        /\ runner'[r].experiment = runner[r].experiment
        /\ \A q \in Runners \ {r} : runner'[q] = runner[q]
    BY <2>1, <2>2 DEF TypeOK, Runner
  <2> QED BY <2>3 DEF Keeps
<1>7. ASSUME NEW e \in Experiments, Create(e) \/ Pause(e)
      PROVE  UNCHANGED runner
  BY <1>7 DEF Create, Pause
<1> QED BY <1>1, <1>4, <1>5, <1>6, <1>7 DEF Next, Edit, vars

LEMMA ValueIsKnownStep ==
  ASSUME TypeOK, ValueIsKnown, [Next]_vars
  PROVE  ValueIsKnown'
<1> SUFFICES ASSUME NEW q \in Runners, runner'[q].pc # "idle"
             PROVE  /\ runner'[q].row = 0 => runner'[q].value = runner'[q].experiment
                    /\ runner'[q].row # 0 => /\ promotions'[runner'[q].row].before = runner'[q].value
                                             /\ promotions'[runner'[q].row].experiment = runner'[q].experiment
  BY DEF ValueIsKnown
<1>1. \A i \in DOMAIN promotions :
        promotions'[i].before = promotions[i].before /\ promotions'[i].experiment = promotions[i].experiment
  BY RowsStay
<1>2. runner[q].pc # "idle" => runner[q].row \in Nat /\ runner[q].row <= Len(promotions)
  BY Busy DEF TypeOK, Runner
<1>3. DOMAIN promotions = 1..Len(promotions) /\ Len(promotions) \in Nat
  BY DEF TypeOK
<1>4. runner[q].pc # "idle" /\ runner[q].row # 0 => runner[q].row \in DOMAIN promotions
  BY <1>2, <1>3
<1>5. Keeps(q)
  BY RunnersKeep
<1> QED BY <1>1, <1>4, <1>5 DEF Keeps, ValueIsKnown, RowsOf

LEMMA RowsAreTheirsStep ==
  ASSUME TypeOK, ValueIsKnown, RowsAreTheirs, [Next]_vars
  PROVE  RowsAreTheirs'
<1>1. ASSUME DOMAIN promotions' = DOMAIN promotions
      PROVE  RowsAreTheirs'
  BY <1>1, RowsStay DEF RowsAreTheirs
<1>2. ASSUME NEW r \in Runners, RecordPromotion(r)
      PROVE  RowsAreTheirs'
  <2>1. /\ runner[r].pc # "idle" /\ Len(promotions) \in Nat
        /\ DOMAIN promotions = 1..Len(promotions) /\ DOMAIN promotions' = 1..(Len(promotions) + 1)
        /\ \A i \in DOMAIN promotions : promotions'[i] = promotions[i]
        /\ promotions'[Len(promotions) + 1] = NewPromotion(r)
    BY <1>2, RowIsAdded
  <2>2. runner[r].row = 0 /\ runner[r].value = runner[r].experiment
    BY <1>2, <2>1 DEF RecordPromotion, ValueIsKnown
  <2>3. NewPromotion(r).after = NewPromotion(r).experiment
    BY <2>2 DEF NewPromotion
  <2> QED BY <2>1, <2>3 DEF RowsAreTheirs
<1>3. ASSUME NEW r \in Runners, MarkRolledBack(r)
      PROVE  DOMAIN promotions' = DOMAIN promotions
  BY <1>3, RowIsUndone
<1>4. ASSUME NEW r \in Runners, NEW e \in Experiments, Activate(r, e) \/ Cycle(r, e) \/ Rollback(r, e)
      PROVE  UNCHANGED promotions
  BY <1>4 DEF Activate, Cycle, Rollback, Begin
<1>5. ASSUME NEW r \in Runners,
             \/ ActivateCheck(r) \/ ActivateWrite(r) \/ KeepRunning(r) \/ WinnerReady(r) \/ Promote(r)
             \/ ReadProduct(r) \/ Patch(r) \/ Verify(r) \/ Abandon(r)
      PROVE  UNCHANGED promotions
  BY <1>5 DEF ActivateCheck, ActivateWrite, KeepRunning, WinnerReady, Promote, ReadProduct, Patch, Verify, Abandon
<1>6. ASSUME NEW e \in Experiments, Create(e) \/ Pause(e)
      PROVE  UNCHANGED promotions
  BY <1>6 DEF Create, Pause
<1> QED BY <1>1, <1>2, <1>3, <1>4, <1>5, <1>6 DEF Next, Edit, vars
-----------------------------------------------------------------------------
(* A step that changes neither the shop nor the table, and nobody's writing *)
(* to the shop.                                                            *)
LEMMA NothingWritten ==
  ASSUME ShopIsAccounted, UNCHANGED <<promotions, shop>>, unrecorded \subseteq unrecorded',
         \A q \in Runners : /\ HasPatched(q)' <=> HasPatched(q)
                            /\ HasPatched(q) => /\ runner'[q].row = runner[q].row
                                                /\ runner'[q].value = runner[q].value
  PROVE  ShopIsAccounted'
<1> SUFFICES ASSUME NEW e \in Experiments, shop.text = e, e \notin unrecorded
             PROVE  Accounted(e)'
  BY DEF ShopIsAccounted
<1>1. \A i \in DOMAIN promotions : BeingUndone(i)' => BeingUndone(i)
  BY DEF BeingUndone
<1>2. Accounted(e)
  BY DEF ShopIsAccounted
<1> QED BY <1>1, <1>2 DEF Accounted

LEMMA ShopIsAccountedStep ==
  ASSUME TypeOK, ValueIsKnown, ShopIsAccounted, [Next]_vars
  PROVE  ShopIsAccounted'
<1>1. ASSUME NEW r \in Runners, NEW e \in Experiments, Activate(r, e) \/ Cycle(r, e) \/ Rollback(r, e)
      PROVE  ShopIsAccounted'
  <2>1. PICK d \in Experiments, pc \in {"checking", "evaluating", "reading"}, row \in Nat, value \in Texts :
          Begin(r, d, pc, row, value)
    BY <1>1, RunnerBegins DEF Begins
  <2>2. /\ runner[r] = Idle /\ runner'[r].pc = pc
        /\ \A q \in Runners \ {r} : runner'[q] = runner[q]
        /\ UNCHANGED <<promotions, shop, unrecorded>>
    BY <2>1, BeginsThere
  <2>3. \A q \in Runners : /\ HasPatched(q)' <=> HasPatched(q)
                           /\ HasPatched(q) => runner'[q] = runner[q]
    BY <2>2 DEF HasPatched, Idle
  <2> QED BY <2>2, <2>3, NothingWritten
<1>2. ASSUME NEW r \in Runners, ActivateCheck(r) \/ ActivateWrite(r) \/ KeepRunning(r) \/ WinnerReady(r) \/ Promote(r)
      PROVE  ShopIsAccounted'
  <2>1. /\ runner[r].pc \in {"checking", "activating", "evaluating"}
        /\ Ends(r) \/ \E pc \in {"activating", "reading"} : Goes(r, pc)
        /\ UNCHANGED <<promotions, shop, unrecorded>>
    BY <1>2 DEF ActivateCheck, ActivateWrite, KeepRunning, WinnerReady, Promote, At
  <2>2. /\ runner'[r].pc \in {"idle", "activating", "reading"}
        /\ \A q \in Runners \ {r} : runner'[q] = runner[q]
    BY <2>1, EndsThere, GoesOn DEF Places
  <2>3. \A q \in Runners : /\ HasPatched(q)' <=> HasPatched(q)
                           /\ HasPatched(q) => runner'[q] = runner[q]
    BY <2>1, <2>2 DEF HasPatched
  <2> QED BY <2>1, <2>3, NothingWritten
<1>3. ASSUME NEW r \in Runners, ReadProduct(r)
      PROVE  ShopIsAccounted'
  <2>1. /\ runner[r].pc = "reading" /\ UNCHANGED <<promotions, shop, unrecorded>>
        /\ runner' = [runner EXCEPT ![r].pc = "patching",
                                    ![r].before = shop.text, ![r].revision = shop.revision]
    BY <1>3 DEF ReadProduct, At
  <2>2. runner[r] \in Runner
    BY <2>1, Busy
  <2>3. runner'[r].pc = "patching" /\ \A q \in Runners \ {r} : runner'[q] = runner[q]
    BY <2>1, <2>2 DEF TypeOK, Runner
  <2>4. runner[r].pc = "reading" /\ UNCHANGED <<promotions, shop, unrecorded>>
    BY <2>1
  <2>5. \A q \in Runners : /\ HasPatched(q)' <=> HasPatched(q)
                           /\ HasPatched(q) => runner'[q] = runner[q]
    BY <2>3, <2>4 DEF HasPatched
  <2> QED BY <2>4, <2>5, NothingWritten
<1>4. ASSUME NEW r \in Runners, Verify(r)
      PROVE  ShopIsAccounted'
  <2>1. runner[r].pc = "verifying" /\ Goes(r, "recording") /\ UNCHANGED <<promotions, shop, unrecorded>>
    BY <1>4 DEF Verify, At
  <2>2. /\ runner'[r].pc = "recording" /\ runner'[r].row = runner[r].row
        /\ runner'[r].value = runner[r].value
        /\ \A q \in Runners \ {r} : runner'[q] = runner[q]
    BY <2>1, GoesOn DEF Places
  <2>3. \A q \in Runners : /\ HasPatched(q)' <=> HasPatched(q)
                           /\ HasPatched(q) => runner'[q].row = runner[q].row /\ runner'[q].value = runner[q].value
    BY <2>1, <2>2 DEF HasPatched
  <2> QED BY <2>1, <2>3, NothingWritten
<1>5. ASSUME NEW r \in Runners, Patch(r)
      PROVE  ShopIsAccounted'
  <2>1. runner[r].pc = "patching" /\ shop' \in Written(runner[r].value) /\ Goes(r, "verifying")
    BY <1>5 DEF Patch, At
  <2>2. shop'.text = runner[r].value
    BY <2>1 DEF Written
  <2>3. HasPatched(r)' /\ runner'[r].value = runner[r].value
    BY <2>1, GoesOn DEF HasPatched, Places
  <2> QED BY <2>2, <2>3 DEF ShopIsAccounted, Accounted
<1>6. ASSUME NEW r \in Runners, Abandon(r)
      PROVE  ShopIsAccounted'
  <2>1. /\ Ends(r) /\ UNCHANGED <<promotions, shop>> /\ unrecorded \subseteq unrecorded'
        /\ HasPatched(r) => runner[r].value \in unrecorded'
    BY <1>6 DEF Abandon
  <2>2. ~HasPatched(r)' /\ \A q \in Runners \ {r} : runner'[q] = runner[q]
    BY <2>1, EndsThere DEF HasPatched
  <2> SUFFICES ASSUME NEW e \in Experiments, shop.text = e, e \notin unrecorded'
               PROVE  Accounted(e)'
    BY <2>1 DEF ShopIsAccounted
  <2>3. \A i \in DOMAIN promotions : BeingUndone(i)' => BeingUndone(i)
    BY <2>2 DEF BeingUndone, HasPatched
  <2>4. Accounted(e)
    BY <2>1 DEF ShopIsAccounted
  <2>5. (\E q \in Runners : HasPatched(q) /\ runner[q].value = e)
          => \E q \in Runners : HasPatched(q)' /\ runner'[q].value = e
    BY <2>1, <2>2 DEF HasPatched
  <2> QED BY <2>1, <2>3, <2>4, <2>5 DEF Accounted
<1>7. ASSUME NEW r \in Runners, RecordPromotion(r)
      PROVE  ShopIsAccounted'
  <2>1. PICK n \in Nat : n = Len(promotions) + 1
    BY DEF TypeOK
  <2>2. Ends(r) /\ UNCHANGED <<shop, unrecorded>> /\ runner[r].row = 0
    BY <1>7 DEF RecordPromotion
  <2>3. ~HasPatched(r)' /\ \A q \in Runners \ {r} : runner'[q] = runner[q]
    BY <2>2, EndsThere DEF HasPatched
  <2>4. /\ Len(promotions) \in Nat /\ DOMAIN promotions = 1..Len(promotions)
        /\ DOMAIN promotions' = 1..n
        /\ \A i \in DOMAIN promotions : promotions'[i] = promotions[i]
        /\ promotions'[n] = NewPromotion(r)
    BY <1>7, <2>1, RowIsAdded
  <2>5. promotions'[n].status = "promoted" /\ promotions'[n].after = runner[r].value
    BY <2>4 DEF NewPromotion
  <2>6. \A q \in Runners : HasPatched(q) => runner[q].row \in Nat /\ runner[q].row <= Len(promotions)
    BY Busy DEF HasPatched, TypeOK, Runner
  <2>7. ~BeingUndone(n)'
    BY <2>1, <2>3, <2>4, <2>6 DEF BeingUndone, HasPatched
  <2>8. \A i \in DOMAIN promotions : BeingUndone(i)' => BeingUndone(i)
    BY <2>3 DEF BeingUndone, HasPatched
  <2>9. \A i \in DOMAIN promotions : i \in DOMAIN promotions'
    BY <2>1, <2>4
  <2>10. n \in DOMAIN promotions'
    BY <2>1, <2>4
  <2> SUFFICES ASSUME NEW e \in Experiments, shop.text = e, e \notin unrecorded
               PROVE  Accounted(e)'
    BY <2>2 DEF ShopIsAccounted
  <2>11. Accounted(e)
    BY DEF ShopIsAccounted
  <2>12. CASE runner[r].value = e
    BY <2>5, <2>7, <2>10, <2>12 DEF Accounted
  <2>13. CASE runner[r].value # e
    <3>1. (\E q \in Runners : HasPatched(q) /\ runner[q].value = e)
            => \E q \in Runners : HasPatched(q)' /\ runner'[q].value = e
      BY <2>3, <2>13 DEF HasPatched
    <3> QED BY <2>4, <2>8, <2>9, <2>11, <3>1 DEF Accounted
  <2> QED BY <2>12, <2>13
<1>8. ASSUME NEW r \in Runners, MarkRolledBack(r)
      PROVE  ShopIsAccounted'
  <2> DEFINE k == runner[r].row
  <2>1. Ends(r) /\ UNCHANGED <<shop, unrecorded>> /\ k # 0 /\ HasPatched(r) /\ runner[r].pc # "idle"
    BY <1>8 DEF MarkRolledBack, At, HasPatched
  <2>2. ~HasPatched(r)' /\ \A q \in Runners \ {r} : runner'[q] = runner[q]
    BY <2>1, EndsThere DEF HasPatched
  <2>3. /\ k \in DOMAIN promotions /\ DOMAIN promotions' = DOMAIN promotions
        /\ \A i \in DOMAIN promotions :
             /\ promotions'[i].before = promotions[i].before /\ promotions'[i].after = promotions[i].after
             /\ promotions'[i].status = IF i = k THEN "rolled_back" ELSE promotions[i].status
    BY <1>8, RowIsUndone
  <2>4. promotions[k].before = runner[r].value /\ BeingUndone(k)
    BY <2>1 DEF ValueIsKnown, BeingUndone
  <2>5. \A i \in DOMAIN promotions : BeingUndone(i)' => BeingUndone(i)
    BY <2>2 DEF BeingUndone, HasPatched
  <2> HIDE DEF k
  <2> SUFFICES ASSUME NEW e \in Experiments, shop.text = e, e \notin unrecorded
               PROVE  Accounted(e)'
    BY <2>1 DEF ShopIsAccounted
  <2>6. Accounted(e)
    BY DEF ShopIsAccounted
  <2>7. CASE runner[r].value = e
    BY <2>3, <2>4, <2>7 DEF Accounted
  <2>8. CASE runner[r].value # e
    <3>1. (\E q \in Runners : HasPatched(q) /\ runner[q].value = e)
            => \E q \in Runners : HasPatched(q)' /\ runner'[q].value = e
      BY <2>2, <2>8 DEF HasPatched
    <3> QED BY <2>3, <2>4, <2>5, <2>6, <3>1 DEF Accounted
  <2> QED BY <2>7, <2>8
<1>9. CASE Edit
  <2>1. shop'.text \in Merchant
    BY <1>9 DEF Edit
  <2> QED BY <2>1, MerchantAssumption DEF ShopIsAccounted
<1>10. ASSUME NEW e \in Experiments, Create(e) \/ Pause(e)
      PROVE  UNCHANGED <<promotions, shop, runner, unrecorded>>
  BY <1>10 DEF Create, Pause
<1>11. ASSUME UNCHANGED <<promotions, shop, runner, unrecorded>>
      PROVE  ShopIsAccounted'
  BY <1>11, NothingWritten DEF HasPatched
<1> QED BY <1>1, <1>2, <1>3, <1>4, <1>5, <1>6, <1>7, <1>8, <1>9, <1>10, <1>11 DEF Next, vars

LEMMA Invariance == Spec => []IInv
<1>1. Init => IInv
  BY MerchantAssumption DEF Init, IInv, ReadIsKnown, ValueIsKnown, RowsAreTheirs, ShopIsAccounted, Idle
<1>2. TypeOK /\ IInv /\ [Next]_vars => IInv'
  BY ReadIsKnownStep, ValueIsKnownStep, RowsAreTheirsStep, ShopIsAccountedStep DEF IInv
<1> QED BY <1>1, <1>2, Typed, PTL DEF Spec
-----------------------------------------------------------------------------
(* Where the treatment of e can come from: it was recorded, its writer is   *)
(* about to record it, or failed to.                                       *)
HasRead(r) == runner[r].pc \in {"patching", "verifying", "recording"}

Out(e) ==
  \/ RowsOf(e) # {}
  \/ e \in unrecorded
  \/ \E r \in Runners : HasPatched(r) /\ runner[r].row = 0 /\ runner[r].experiment = e

TextsAreKnown ==
  \A e \in Experiments :
    /\ shop.text = e => Out(e)
    /\ \A i \in DOMAIN promotions : promotions[i].before = e => Out(e)
    /\ \A r \in Runners : HasRead(r) /\ runner[r].before = e => Out(e)

(* What holds of an experiment whose runners do not overlap and record what *)
(* they wrote: before a promotion and during one there is no row, which    *)
(* keeps its own treatment out of what the promotion reads.                *)
WorksOn(r, e) == runner[r].pc # "idle" /\ runner[r].experiment = e
Before == {"checking", "activating", "evaluating"}

Orderly(e) ==
  /\ \A q, r \in Runners : WorksOn(q, e) /\ WorksOn(r, e) => q = r
  /\ \A i, k \in RowsOf(e) : i = k
  /\ \A i \in RowsOf(e) : promotions[i].before # e
  /\ status[e] = "promoted" <=> Live(e) # {}
  /\ status[e] \notin {"promoted", "rolled_back"} => RowsOf(e) = {}
  /\ \A r \in Runners : WorksOn(r, e) =>
       IF runner[r].row = 0
       THEN status[e] \in {"draft", "active", "paused"} /\ (HasRead(r) => runner[r].before # e)
       ELSE status[e] = "promoted" /\ runner[r].pc \notin Before

OthersAreOrderly == \A e \in Experiments \ (contended \cup unrecorded) : Orderly(e)
-----------------------------------------------------------------------------
(* The text a runner goes on with, and the places where it gets it.        *)
ReadsOn(q) ==
  HasRead(q)' =>
    \/ HasRead(q) /\ runner'[q].before = runner[q].before
    \/ ReadProduct(q) /\ runner'[q].before = shop.text

LEMMA BeginningIsFirst ==
  ASSUME TypeOK, NEW r \in Runners, NEW e \in Experiments, Activate(r, e) \/ Cycle(r, e) \/ Rollback(r, e)
  PROVE  ReadsOn(r) /\ \A q \in Runners \ {r} : runner'[q] = runner[q]
<1>1. PICK d \in Experiments, pc \in {"checking", "evaluating", "reading"}, row \in Nat, value \in Texts :
        Begin(r, d, pc, row, value)
  BY RunnerBegins DEF Begins
<1>2. runner'[r].pc = pc /\ \A q \in Runners \ {r} : runner'[q] = runner[q]
  BY <1>1, BeginsThere
<1> QED BY <1>2 DEF ReadsOn, HasRead

LEMMA ReadingThere ==
  ASSUME TypeOK, NEW r \in Runners, ReadProduct(r)
  PROVE  /\ runner[r].pc = "reading" /\ runner'[r].pc = "patching" /\ runner'[r].before = shop.text
         /\ runner'[r].row = runner[r].row /\ runner'[r].experiment = runner[r].experiment
         /\ \A q \in Runners \ {r} : runner'[q] = runner[q]
         /\ UNCHANGED <<status, promotions, shop, contended, unrecorded>>
<1>1. /\ runner[r].pc = "reading"
      /\ runner' = [runner EXCEPT ![r].pc = "patching",
                                  ![r].before = shop.text, ![r].revision = shop.revision]
  BY DEF ReadProduct, At
<1>2. runner[r] \in Runner
  BY <1>1, Busy
<1> QED BY <1>1, <1>2 DEF TypeOK, Runner, ReadProduct

LEMMA ReadersRead ==
  ASSUME TypeOK, [Next]_vars
  PROVE  \A q \in Runners : ReadsOn(q)
<1>1. CASE UNCHANGED runner
  BY <1>1 DEF ReadsOn, HasRead
<1>2. ASSUME NEW r \in Runners, Ends(r)
      PROVE  \A q \in Runners : ReadsOn(q)
  BY <1>2, EndsThere DEF ReadsOn, HasRead
<1>3. ASSUME NEW r \in Runners, NEW e \in Experiments, Activate(r, e) \/ Cycle(r, e) \/ Rollback(r, e)
      PROVE  \A q \in Runners : ReadsOn(q)
  BY <1>3, BeginningIsFirst DEF ReadsOn, HasRead
<1>4. ASSUME NEW r \in Runners,
             \/ runner[r].pc \in Before /\ (Goes(r, "activating") \/ Goes(r, "reading"))
             \/ HasRead(r) /\ (Goes(r, "verifying") \/ Goes(r, "recording"))
      PROVE  \A q \in Runners : ReadsOn(q)
  <2>1. runner[r].pc # "idle"
    BY <1>4 DEF Before, HasRead
  <2>2. PICK pc \in Places : Goes(r, pc) /\ (pc \in {"verifying", "recording"} => HasRead(r)) /\ pc # "patching"
    BY <1>4 DEF Places
  <2>3. /\ runner'[r].pc = pc /\ runner'[r].before = runner[r].before
        /\ \A q \in Runners \ {r} : runner'[q] = runner[q]
    BY <2>1, <2>2, GoesOn
  <2> QED BY <2>2, <2>3 DEF ReadsOn, HasRead
<1>5. ASSUME NEW r \in Runners,
             \/ ActivateCheck(r) \/ ActivateWrite(r) \/ KeepRunning(r) \/ WinnerReady(r) \/ Promote(r)
             \/ Patch(r) \/ Verify(r) \/ RecordPromotion(r) \/ MarkRolledBack(r) \/ Abandon(r)
      PROVE  \A q \in Runners : ReadsOn(q)
  <2>1. \/ Ends(r)
        \/ runner[r].pc \in Before /\ (Goes(r, "activating") \/ Goes(r, "reading"))
        \/ HasRead(r) /\ (Goes(r, "verifying") \/ Goes(r, "recording"))
    BY <1>5 DEF ActivateCheck, ActivateWrite, KeepRunning, WinnerReady, Promote, Patch, Verify,
                RecordPromotion, MarkRolledBack, Abandon, At, Before, HasRead
  <2> QED BY <2>1, <1>2, <1>4
<1>6. ASSUME NEW r \in Runners, ReadProduct(r)
      PROVE  \A q \in Runners : ReadsOn(q)
  BY <1>6, ReadingThere DEF ReadsOn, HasRead
<1>7. CASE Edit \/ UNCHANGED vars \/ \E e \in Experiments : Create(e) \/ Pause(e)
  BY <1>7, <1>1 DEF Edit, vars, Create, Pause
<1> QED BY <1>3, <1>5, <1>6, <1>7 DEF Next

(* A treatment that is out stays out.                                      *)
LEMMA OutStays ==
  ASSUME TypeOK, ValueIsKnown, [Next]_vars, NEW e \in Experiments, Out(e)
  PROVE  Out(e)'
<1>1. CASE RowsOf(e) # {}
  BY <1>1, RowsStay DEF Out, RowsOf
<1>2. CASE e \in unrecorded
  <2>1. unrecorded \subseteq unrecorded'
    BY DEF Next, Create, Pause, Activate, Cycle, Rollback, Begin, ActivateCheck, ActivateWrite, KeepRunning,
           WinnerReady, Promote, ReadProduct, Patch, Verify, RecordPromotion, MarkRolledBack, Abandon, Edit, vars
  <2> QED BY <1>2, <2>1 DEF Out
<1>3. ASSUME NEW r \in Runners, HasPatched(r), runner[r].row = 0, runner[r].experiment = e
      PROVE  Out(e)'
  <2>1. runner[r].pc # "idle" /\ runner[r] # Idle /\ runner[r].value = e
    BY <1>3, Busy DEF HasPatched, ValueIsKnown
  <2>2. CASE runner'[r] = runner[r]
    BY <1>3, <2>2 DEF Out, HasPatched
  <2>3. CASE RecordPromotion(r)
    <3>1. /\ Len(promotions) + 1 \in DOMAIN promotions'
          /\ promotions'[Len(promotions) + 1] = NewPromotion(r)
      BY <2>3, RowIsAdded
    <3>2. NewPromotion(r).experiment = e
      BY <1>3 DEF NewPromotion
    <3> QED BY <3>1, <3>2 DEF Out, RowsOf
  <2>4. CASE Abandon(r)
    BY <1>3, <2>1, <2>4 DEF Abandon, Out
  <2>5. CASE Verify(r)
    <3>1. "recording" \in Places /\ Goes(r, "recording")
      BY <2>5 DEF Places, Verify
    <3>2. runner'[r].pc = "recording" /\ runner'[r].row = 0 /\ runner'[r].experiment = e
      BY <1>3, <2>1, <3>1, GoesOn
    <3> QED BY <3>2 DEF Out, HasPatched
  <2>6. ASSUME NEW q \in Runners \ {r}, Ends(q) \/ \E pc \in Places : runner[q].pc # "idle" /\ Goes(q, pc)
        PROVE  runner'[r] = runner[r]
    BY <2>6, EndsThere, GoesOn
  <2>7. ASSUME NEW q \in Runners,
               \/ ActivateCheck(q) \/ ActivateWrite(q) \/ KeepRunning(q) \/ WinnerReady(q) \/ Promote(q)
               \/ Patch(q) \/ Verify(q) \/ RecordPromotion(q) \/ MarkRolledBack(q) \/ Abandon(q)
        PROVE  Out(e)'
    <3>1. CASE q = r
      BY <1>3, <2>3, <2>4, <2>5, <2>7, <3>1 DEF ActivateCheck, ActivateWrite, KeepRunning, WinnerReady, Promote,
           Patch, MarkRolledBack, At, HasPatched
    <3>2. CASE q # r
      <4>1. Ends(q) \/ \E pc \in Places : runner[q].pc # "idle" /\ Goes(q, pc)
        BY <2>7 DEF ActivateCheck, ActivateWrite, KeepRunning, WinnerReady, Promote, Patch, Verify,
                    RecordPromotion, MarkRolledBack, Abandon, At, Places
      <4> QED BY <2>2, <2>6, <3>2, <4>1
    <3> QED BY <3>1, <3>2
  <2>8. ASSUME NEW q \in Runners, NEW d \in Experiments, Activate(q, d) \/ Cycle(q, d) \/ Rollback(q, d)
        PROVE  Out(e)'
    <3>1. q # r
      BY <2>1, <2>8 DEF Activate, Cycle, Rollback, Begin
    <3> QED BY <2>2, <2>8, <3>1, BeginningIsFirst
  <2>9. ASSUME NEW q \in Runners, ReadProduct(q)
        PROVE  Out(e)'
    <3>1. q # r
      BY <1>3, <2>9, ReadingThere DEF HasPatched
    <3> QED BY <2>2, <2>9, <3>1, ReadingThere
  <2>10. CASE Edit \/ UNCHANGED vars \/ \E d \in Experiments : Create(d) \/ Pause(d)
    BY <2>2, <2>10 DEF Edit, vars, Create, Pause
  <2> QED BY <2>7, <2>8, <2>9, <2>10 DEF Next
<1> QED BY <1>1, <1>2, <1>3 DEF Out

(* What is in the shop, was read or was recorded is the merchant's or out.  *)
LEMMA TextsAreKnownStep ==
  ASSUME TypeOK, ValueIsKnown, TextsAreKnown, [Next]_vars
  PROVE  TextsAreKnown'
<1> SUFFICES ASSUME NEW e \in Experiments
             PROVE  /\ shop'.text = e => Out(e)'
                    /\ \A i \in DOMAIN promotions' : promotions'[i].before = e => Out(e)'
                    /\ \A r \in Runners : HasRead(r)' /\ runner'[r].before = e => Out(e)'
  BY DEF TextsAreKnown
<1>1. shop'.text = e => Out(e)'
  <2>1. CASE UNCHANGED shop
    BY <2>1, OutStays DEF TextsAreKnown
  <2>2. CASE Edit
    BY <2>2, MerchantAssumption DEF Edit
  <2>3. ASSUME NEW r \in Runners, Patch(r), shop'.text = e
        PROVE  Out(e)'
    <3>1. /\ runner[r].pc = "patching" /\ runner[r].pc # "idle"
          /\ Goes(r, "verifying") /\ "verifying" \in Places
      BY <2>3 DEF Patch, At, Places
    <3>2. runner[r].value = e
      BY <2>3 DEF Patch, Written
    <3>3. CASE runner[r].row = 0
      <4>1. runner[r].experiment = e
        BY <3>1, <3>2, <3>3 DEF ValueIsKnown
      <4>2. runner'[r].pc = "verifying" /\ runner'[r].row = 0 /\ runner'[r].experiment = e
        BY <3>1, <3>3, <4>1, GoesOn
      <4> QED BY <4>2 DEF Out, HasPatched
    <3>4. CASE runner[r].row # 0
      <4>1. runner[r].row \in DOMAIN promotions
        BY <3>1, <3>4, Busy DEF TypeOK
      <4>2. promotions[runner[r].row].before = e
        BY <3>1, <3>2, <3>4 DEF ValueIsKnown
      <4> QED BY <4>1, <4>2, OutStays DEF TextsAreKnown
    <3> QED BY <3>3, <3>4
  <2>4. UNCHANGED shop \/ Edit \/ \E r \in Runners : Patch(r)
    BY DEF Next, Create, Pause, Activate, Cycle, Rollback, Begin, ActivateCheck, ActivateWrite, KeepRunning,
           WinnerReady, Promote, ReadProduct, Verify, RecordPromotion, MarkRolledBack, Abandon, vars
  <2> QED BY <2>1, <2>2, <2>3, <2>4
<1>2. ASSUME NEW i \in DOMAIN promotions', promotions'[i].before = e
      PROVE  Out(e)'
  <2>1. CASE i \in DOMAIN promotions
    BY <1>2, <2>1, RowsStay, OutStays DEF TextsAreKnown
  <2>2. ASSUME NEW r \in Runners, RecordPromotion(r), i \notin DOMAIN promotions
        PROVE  Out(e)'
    <3>1. promotions'[i] = NewPromotion(r)
      BY <2>2, RowIsAdded
    <3>2. runner[r].before = e /\ HasRead(r)
      BY <1>2, <2>2, <3>1 DEF NewPromotion, RecordPromotion, At, HasRead
    <3> QED BY <3>2, OutStays DEF TextsAreKnown
  <2>3. DOMAIN promotions' = DOMAIN promotions \/ \E r \in Runners : RecordPromotion(r)
    <3>1. UNCHANGED promotions \/ \E r \in Runners : RecordPromotion(r) \/ MarkRolledBack(r)
      BY DEF Next, Create, Pause, Activate, Cycle, Rollback, Begin, ActivateCheck, ActivateWrite, KeepRunning,
             WinnerReady, Promote, ReadProduct, Patch, Verify, Abandon, Edit, vars
    <3> QED BY <3>1, RowIsUndone
  <2> QED BY <2>1, <2>2, <2>3
<1>3. ASSUME NEW r \in Runners, HasRead(r)', runner'[r].before = e
      PROVE  Out(e)'
  <2>1. ReadsOn(r)
    BY ReadersRead
  <2> QED BY <1>3, <2>1, OutStays DEF ReadsOn, TextsAreKnown
<1> QED BY <1>1, <1>2, <1>3
-----------------------------------------------------------------------------
(* A step that does nothing to e, nor to what a runner that works on it has *)
(* read: it may end or go on.                                              *)
Undisturbed(e) ==
  /\ status'[e] = status[e]
  /\ RowsOf(e)' = RowsOf(e)
  /\ \A i \in RowsOf(e) : promotions'[i] = promotions[i]
  /\ \A q \in Runners : WorksOn(q, e)' =>
       /\ WorksOn(q, e) /\ runner'[q].row = runner[q].row
       /\ HasRead(q)' => HasRead(q) /\ runner'[q].before = runner[q].before
       /\ runner'[q].pc \in Before => runner[q].pc \in Before

LEMMA UndisturbedStays ==
  ASSUME NEW e \in Experiments, Orderly(e), Undisturbed(e)
  PROVE  Orderly(e)'
<1>1. Live(e)' = Live(e)
  BY DEF Undisturbed, Live
<1> QED BY <1>1 DEF Undisturbed, Orderly

(* The rows of e after a write to a row of another experiment.             *)
LEMMA OtherRow ==
  ASSUME TypeOK, ValueIsKnown, NEW r \in Runners, NEW e \in Experiments, runner[r].experiment # e,
         RecordPromotion(r) \/ MarkRolledBack(r)
  PROVE  RowsOf(e)' = RowsOf(e) /\ \A i \in RowsOf(e) : promotions'[i] = promotions[i]
<1>1. CASE RecordPromotion(r)
  <2>1. /\ Len(promotions) \in Nat
        /\ DOMAIN promotions = 1..Len(promotions) /\ DOMAIN promotions' = 1..(Len(promotions) + 1)
        /\ \A i \in DOMAIN promotions : promotions'[i] = promotions[i]
        /\ promotions'[Len(promotions) + 1] = NewPromotion(r)
    BY <1>1, RowIsAdded
  <2>2. NewPromotion(r).experiment # e
    BY DEF NewPromotion
  <2>3. \A i \in DOMAIN promotions' : i \in DOMAIN promotions \/ i = Len(promotions) + 1
    BY <2>1
  <2> QED BY <2>1, <2>2, <2>3 DEF RowsOf
<1>2. CASE MarkRolledBack(r)
  <2>1. /\ runner[r].row \in DOMAIN promotions /\ DOMAIN promotions' = DOMAIN promotions
        /\ \A i \in DOMAIN promotions : promotions'[i].experiment = promotions[i].experiment
    BY <1>2, RowIsUndone
  <2>2. runner[r].pc # "idle" /\ runner[r].row # 0
    BY <1>2 DEF MarkRolledBack, At
  <2>3. runner[r].row \notin RowsOf(e)
    BY <2>2 DEF RowsOf, ValueIsKnown
  <2>4. \A i \in RowsOf(e) : promotions'[i] = promotions[i]
    BY <1>2, <2>3 DEF MarkRolledBack, RowsOf, TypeOK
  <2> QED BY <2>1, <2>4 DEF RowsOf
<1> QED BY <1>1, <1>2

(* A runner ends, and nothing is written of e.                             *)
LEMMA EndsQuietly ==
  ASSUME TypeOK, NEW r \in Runners, NEW e \in Experiments, Ends(r), status'[e] = status[e],
         RowsOf(e)' = RowsOf(e), \A i \in RowsOf(e) : promotions'[i] = promotions[i]
  PROVE  Undisturbed(e)
<1>1. runner'[r].pc = "idle" /\ \A q \in Runners \ {r} : runner'[q] = runner[q]
  BY EndsThere
<1> QED BY <1>1 DEF Undisturbed, WorksOn, HasRead

(* A runner goes on with what it has in hand.                              *)
LEMMA GoesQuietly ==
  ASSUME TypeOK, NEW r \in Runners, NEW e \in Experiments, NEW pc \in Places, Goes(r, pc), runner[r].pc # "idle",
         UNCHANGED <<status, promotions>>,
         pc \in {"patching", "verifying", "recording"} => HasRead(r),
         pc \in Before => runner[r].pc \in Before
  PROVE  Undisturbed(e)
<1>1. /\ runner'[r].pc = pc /\ runner'[r].experiment = runner[r].experiment
      /\ runner'[r].row = runner[r].row /\ runner'[r].before = runner[r].before
      /\ \A q \in Runners \ {r} : runner'[q] = runner[q]
  BY GoesOn
<1>2. RowsOf(e)' = RowsOf(e)
  BY DEF RowsOf
<1> QED BY <1>1, <1>2 DEF Undisturbed, WorksOn, HasRead

(* The steps that are not a runner's.                                      *)
LEMMA TableOrderly ==
  ASSUME TypeOK, NEW e \in Experiments, Orderly(e),
         \/ Edit \/ UNCHANGED vars
         \/ \E d \in Experiments : Create(d) \/ Pause(d)
  PROVE  Orderly(e)'
<1>1. UNCHANGED <<promotions, runner>>
  BY DEF Edit, vars, Create, Pause
<1>2. RowsOf(e)' = RowsOf(e) /\ Live(e)' = Live(e)
  BY <1>1 DEF RowsOf, Live
<1>3. \/ status'[e] = status[e]
      \/ status[e] = "absent" /\ status'[e] = "draft"
      \/ status[e] = "active" /\ status'[e] = "paused"
  BY DEF Edit, vars, Create, Pause, TypeOK
<1> QED BY <1>1, <1>2, <1>3 DEF Orderly, WorksOn, HasRead

(* A runner begins with e only where no other works on it.                 *)
LEMMA BeginOrderly ==
  ASSUME TypeOK, NEW e \in Experiments, Orderly(e), NEW r \in Runners, NEW d \in Experiments,
         Activate(r, d) \/ Cycle(r, d) \/ Rollback(r, d), e \notin contended'
  PROVE  Orderly(e)'
<1>1. PICK pc \in {"checking", "evaluating", "reading"}, row \in Nat, value \in Texts :
        /\ Begin(r, d, pc, row, value)
        /\ IF row = 0 THEN status[d] \in {"draft", "paused", "active"}
           ELSE row \in Live(d) /\ pc = "reading"
  <2>1. CASE Activate(r, d) \/ Cycle(r, d)
    <3>1. d \in Texts /\ 0 \in Nat
      BY DEF Texts
    <3>2. \E pc \in {"checking", "evaluating"} :
            Begin(r, d, pc, 0, d) /\ status[d] \in {"draft", "paused", "active"}
      BY <2>1 DEF Activate, Cycle
    <3> QED BY <3>1, <3>2
  <2>2. CASE Rollback(r, d)
    <3>1. PICK i \in Live(d) : Begin(r, d, "reading", i, promotions[i].before)
      BY <2>2 DEF Rollback, Latest
    <3>2. promotions \in Seq(Promotion) /\ i \in DOMAIN promotions
      BY DEF TypeOK, Live, RowsOf
    <3>3. i \in Nat /\ i # 0 /\ promotions[i] \in Promotion
      BY <3>2
    <3>4. promotions[i].before \in Texts
      BY <3>3 DEF Promotion
    <3> QED BY <3>1, <3>3, <3>4
  <2> QED BY <2>1, <2>2
<1>2. /\ runner[r] = Idle /\ runner'[r].pc = pc /\ runner'[r].row = row /\ runner'[r].experiment = d
      /\ \A q \in Runners \ {r} : runner'[q] = runner[q]
      /\ UNCHANGED <<status, promotions>>
  BY <1>1, BeginsThere
<1>3. RowsOf(e)' = RowsOf(e) /\ Live(e)' = Live(e)
  BY <1>2 DEF RowsOf, Live
<1>4. CASE d # e
  BY <1>2, <1>3, <1>4, UndisturbedStays DEF Undisturbed, WorksOn, HasRead
<1>5. CASE d = e
  <2>1. \A q \in Runners : ~WorksOn(q, e)
    <3>1. \A q \in Runners : runner[q] # Idle => runner[q].experiment # e
      BY <1>1, <1>5 DEF Begin
    <3> QED BY <3>1 DEF WorksOn, Idle
  <2>2. \A q \in Runners : WorksOn(q, e)' => q = r
    BY <1>2, <2>1 DEF WorksOn
  <2>3. ~HasRead(r)' /\ (row # 0 => runner'[r].pc \notin Before)
    BY <1>1, <1>2 DEF HasRead, Before
  <2>4. IF row = 0 THEN status[e] \in {"draft", "active", "paused"} ELSE status[e] = "promoted"
    BY <1>1, <1>5 DEF Orderly
  <2> QED BY <1>2, <1>3, <2>2, <2>3, <2>4 DEF Orderly
<1> QED BY <1>4, <1>5

(* What a runner that ends writes of the experiment it worked on.          *)
LEMMA WriteOrderly ==
  ASSUME TypeOK, ValueIsKnown, NEW e \in Experiments, Orderly(e), NEW r \in Runners, WorksOn(r, e),
         \/ ActivateWrite(r) /\ status' # status
         \/ WinnerReady(r) \/ RecordPromotion(r) \/ MarkRolledBack(r)
  PROVE  Orderly(e)'
<1>1. \A q \in Runners : ~WorksOn(q, e)'
  <2>1. runner'[r].pc = "idle" /\ \A q \in Runners \ {r} : runner'[q] = runner[q]
    BY EndsThere DEF ActivateWrite, WinnerReady, RecordPromotion, MarkRolledBack
  <2> QED BY <2>1 DEF Orderly, WorksOn
<1>2. CASE (ActivateWrite(r) /\ status' # status) \/ WinnerReady(r)
  <2>1. runner[r].pc \in Before /\ UNCHANGED promotions
    BY <1>2 DEF ActivateWrite, WinnerReady, At, Before
  <2>2. status'[e] \in {"active", "winner_ready"}
    BY <1>2 DEF ActivateWrite, WinnerReady, WorksOn, TypeOK
  <2>3. status[e] \in {"draft", "active", "paused"}
    BY <2>1 DEF Orderly
  <2>4. RowsOf(e) = {} /\ RowsOf(e)' = {} /\ Live(e)' = {}
    BY <2>1, <2>3 DEF Orderly, RowsOf, Live
  <2> QED BY <1>1, <2>2, <2>4 DEF Orderly
<1>3. CASE RecordPromotion(r)
  <2> DEFINE n == Len(promotions) + 1
  <2>1. /\ Len(promotions) \in Nat
        /\ DOMAIN promotions = 1..Len(promotions) /\ DOMAIN promotions' = 1..n
        /\ \A i \in DOMAIN promotions : promotions'[i] = promotions[i]
        /\ promotions'[n] = NewPromotion(r)
    BY <1>3, RowIsAdded
  <2>2. runner[r].row = 0 /\ HasRead(r)
    BY <1>3 DEF RecordPromotion, At, HasRead
  <2>3. RowsOf(e) = {} /\ runner[r].before # e
    BY <2>2 DEF Orderly
  <2>4. /\ NewPromotion(r).experiment = e /\ NewPromotion(r).before # e
        /\ NewPromotion(r).status = "promoted"
    BY <2>3 DEF NewPromotion, WorksOn
  <2>5. RowsOf(e)' = {n} /\ Live(e)' = {n}
    <3>1. \A i \in DOMAIN promotions' : i \in DOMAIN promotions \/ i = n
      BY <2>1
    <3>2. n \in DOMAIN promotions'
      BY <2>1
    <3> HIDE DEF n
    <3> QED BY <2>1, <2>3, <2>4, <3>1, <3>2 DEF RowsOf, Live
  <2>6. status'[e] = "promoted"
    BY <1>3 DEF RecordPromotion, WorksOn, TypeOK
  <2> HIDE DEF n
  <2> QED BY <1>1, <2>1, <2>4, <2>5, <2>6 DEF Orderly
<1>4. CASE MarkRolledBack(r)
  <2>1. /\ runner[r].row \in DOMAIN promotions /\ DOMAIN promotions' = DOMAIN promotions
        /\ \A i \in DOMAIN promotions :
             /\ promotions'[i].before = promotions[i].before
             /\ promotions'[i].experiment = promotions[i].experiment
             /\ promotions'[i].status = IF i = runner[r].row THEN "rolled_back" ELSE promotions[i].status
    BY <1>4, RowIsUndone
  <2>2. runner[r].row # 0
    BY <1>4 DEF MarkRolledBack
  <2>3. runner[r].row \in RowsOf(e)
    BY <2>1, <2>2 DEF WorksOn, ValueIsKnown, RowsOf
  <2>4. RowsOf(e)' = RowsOf(e)
    BY <2>1 DEF RowsOf
  <2>5. \A i \in RowsOf(e) : i = runner[r].row /\ i \in DOMAIN promotions
    BY <2>3 DEF Orderly, RowsOf
  <2>6. Live(e)' = {}
    BY <2>1, <2>4, <2>5 DEF Live
  <2>7. status'[e] = "rolled_back"
    BY <1>4 DEF MarkRolledBack, WorksOn, TypeOK
  <2> QED BY <1>1, <2>1, <2>4, <2>5, <2>6, <2>7 DEF Orderly
<1> QED BY <1>2, <1>3, <1>4

(* What a promotion reads is not its own treatment: that is not out yet.   *)
LEMMA ReadOrderly ==
  ASSUME TypeOK, TextsAreKnown, NEW e \in Experiments, Orderly(e), NEW r \in Runners, ReadProduct(r),
         e \notin unrecorded
  PROVE  Orderly(e)'
<1>1. /\ runner[r].pc = "reading" /\ runner'[r].pc = "patching" /\ runner'[r].before = shop.text
      /\ runner'[r].row = runner[r].row /\ runner'[r].experiment = runner[r].experiment
      /\ \A q \in Runners \ {r} : runner'[q] = runner[q]
      /\ UNCHANGED <<status, promotions>>
  BY ReadingThere
<1>2. RowsOf(e)' = RowsOf(e) /\ Live(e)' = Live(e)
  BY <1>1 DEF RowsOf, Live
<1>3. CASE ~WorksOn(r, e)
  BY <1>1, <1>2, <1>3, UndisturbedStays DEF Undisturbed, WorksOn, HasRead
<1>4. CASE WorksOn(r, e)
  <2>1. runner[r].row = 0 => shop.text # e
    <3> SUFFICES ASSUME runner[r].row = 0, Out(e) PROVE FALSE
      BY DEF TextsAreKnown
    <3>1. status[e] \in {"draft", "active", "paused"} /\ RowsOf(e) = {}
      BY <1>4 DEF Orderly
    <3>2. PICK q \in Runners : HasPatched(q) /\ runner[q].experiment = e
      BY <3>1 DEF Out
    <3>3. q = r
      BY <1>4, <3>2 DEF Orderly, WorksOn, HasPatched
    <3> QED BY <1>1, <3>2, <3>3 DEF HasPatched
  <2>2. \A q \in Runners : WorksOn(q, e)' => WorksOn(q, e) /\ q = r
    BY <1>1, <1>4 DEF Orderly, WorksOn
  <2>3. runner'[r].pc \notin Before
    BY <1>1 DEF Before
  <2> QED BY <1>1, <1>2, <1>4, <2>1, <2>2, <2>3 DEF Orderly
<1> QED BY <1>3, <1>4

LEMMA OrderlyStep ==
  ASSUME TypeOK, ValueIsKnown, TextsAreKnown, NEW e \in Experiments, Orderly(e), [Next]_vars,
         e \notin contended', e \notin unrecorded
  PROVE  Orderly(e)'
<1>1. ASSUME UNCHANGED promotions
      PROVE  RowsOf(e)' = RowsOf(e) /\ \A i \in RowsOf(e) : promotions'[i] = promotions[i]
  BY <1>1 DEF RowsOf
<1>2. ASSUME NEW r \in Runners, ActivateCheck(r) \/ KeepRunning(r) \/ Promote(r) \/ Patch(r) \/ Verify(r) \/ Abandon(r)
      PROVE  Orderly(e)'
  <2>1. UNCHANGED <<status, promotions>>
    BY <1>2 DEF ActivateCheck, KeepRunning, Promote, Patch, Verify, Abandon
  <2>2. CASE Ends(r)
    BY <1>1, <2>1, <2>2, EndsQuietly, UndisturbedStays
  <2>3. CASE ~Ends(r)
    <3>1. \E pc \in Places :
            /\ Goes(r, pc) /\ runner[r].pc # "idle"
            /\ pc \in {"patching", "verifying", "recording"} => HasRead(r)
            /\ pc \in Before => runner[r].pc \in Before
      BY <1>2, <2>3 DEF ActivateCheck, KeepRunning, Promote, Patch, Verify, Abandon, At, Places, Before, HasRead
    <3> QED BY <2>1, <3>1, GoesQuietly, UndisturbedStays
  <2> QED BY <2>2, <2>3
<1>3. ASSUME NEW r \in Runners, ActivateWrite(r) \/ WinnerReady(r) \/ RecordPromotion(r) \/ MarkRolledBack(r)
      PROVE  Orderly(e)'
  <2>1. runner[r].pc # "idle" /\ Ends(r)
    BY <1>3 DEF ActivateWrite, WinnerReady, RecordPromotion, MarkRolledBack, At
  <2>2. CASE WorksOn(r, e) /\ ~(ActivateWrite(r) /\ status' = status)
    BY <1>3, <2>2, WriteOrderly
  <2>3. CASE ActivateWrite(r) /\ status' = status
    <3>1. UNCHANGED promotions
      BY <2>3 DEF ActivateWrite
    <3> QED BY <1>1, <2>1, <2>3, <3>1, EndsQuietly, UndisturbedStays
  <2>4. CASE ~WorksOn(r, e)
    <3>1. runner[r].experiment # e
      BY <2>1, <2>4 DEF WorksOn
    <3>2. status'[e] = status[e]
      BY <1>3, <3>1 DEF ActivateWrite, WinnerReady, RecordPromotion, MarkRolledBack, TypeOK
    <3>3. UNCHANGED promotions \/ RecordPromotion(r) \/ MarkRolledBack(r)
      BY <1>3 DEF ActivateWrite, WinnerReady
    <3>4. RowsOf(e)' = RowsOf(e) /\ \A i \in RowsOf(e) : promotions'[i] = promotions[i]
      BY <1>1, <3>1, <3>3, OtherRow
    <3> QED BY <2>1, <3>2, <3>4, EndsQuietly, UndisturbedStays
  <2> QED BY <2>2, <2>3, <2>4
<1> QED BY <1>2, <1>3, TableOrderly, BeginOrderly, ReadOrderly DEF Next

LEMMA OrderlyAlways == Spec => [](TextsAreKnown /\ OthersAreOrderly)
<1>1. Init => TextsAreKnown /\ OthersAreOrderly
  <2> SUFFICES ASSUME Init PROVE TextsAreKnown /\ OthersAreOrderly
    OBVIOUS
  <2>1. /\ \A e \in Experiments : shop.text # e /\ RowsOf(e) = {} /\ Live(e) = {} /\ status[e] = "absent"
        /\ DOMAIN promotions = {} /\ \A r \in Runners : runner[r].pc = "idle"
    BY MerchantAssumption DEF Init, RowsOf, Live, Idle
  <2> QED BY <2>1 DEF TextsAreKnown, OthersAreOrderly, Orderly, WorksOn, HasRead
<1>2. TypeOK /\ ValueIsKnown /\ TextsAreKnown /\ OthersAreOrderly /\ [Next]_vars
        => TextsAreKnown' /\ OthersAreOrderly'
  <2> SUFFICES ASSUME TypeOK, ValueIsKnown, TextsAreKnown, OthersAreOrderly, [Next]_vars
               PROVE  TextsAreKnown' /\ OthersAreOrderly'
    OBVIOUS
  <2>1. contended \subseteq contended' /\ unrecorded \subseteq unrecorded'
    BY DEF Next, Create, Pause, Activate, Cycle, Rollback, Begin, ActivateCheck, ActivateWrite, KeepRunning,
           WinnerReady, Promote, ReadProduct, Patch, Verify, RecordPromotion, MarkRolledBack, Abandon, Edit, vars
  <2> QED BY <2>1, TextsAreKnownStep, OrderlyStep DEF OthersAreOrderly
<1> QED BY <1>1, <1>2, Typed, Invariance, PTL DEF Spec, IInv
-----------------------------------------------------------------------------
(* Every reachable state has the types of TypeOK.                          *)
THEOREM PromotionTypeOK == Spec => []TypeOK
BY Typed

(* revenue_runtime/store.py, the index one_active_experiment_per_product:  *)
(* whoever activates at the same time, one experiment of the product is    *)
(* active at most.                                                         *)
THEOREM PromotionOneActivePerProduct == Spec => []OneActivePerProduct
BY OneActiveHolds, OneActiveCounts, PTL

(* Whatever runners, merchant and failures do, a treatment in the shop is   *)
(* explained by the database, a runner on the way to it, or one that failed. *)
THEOREM PromotionShopIsExplained == Spec => []ShopIsExplained
<1>1. RowsAreTheirs /\ ShopIsAccounted => ShopIsExplained
  <2> SUFFICES ASSUME RowsAreTheirs, NEW e \in Experiments, Accounted(e)
               PROVE  Explained(e)
    BY DEF ShopIsAccounted, ShopIsExplained
  <2>1. \A i \in DOMAIN promotions :
          promotions[i].status = "promoted" /\ promotions[i].after = e => i \in Live(e)
    BY DEF RowsAreTheirs, Live, RowsOf
  <2> QED BY <2>1 DEF Accounted, Explained
<1> QED BY <1>1, Invariance, PTL DEF IInv

(* What a write to the shop replaces is what its runner read.              *)
LEMMA WriteReplaces ==
  ASSUME TypeOK, ReadIsKnown, [Next]_vars, NEW r \in Runners, At(r, "patching"), HasPatched(r)'
  PROVE  runner[r].before = shop.text
<1>1. CASE runner'[r] = runner[r]
  BY <1>1 DEF At, HasPatched
<1>2. CASE Patch(r)
  BY <1>2 DEF Patch, At, ReadIsKnown
<1>3. runner'[r] = runner[r] \/ ~HasPatched(r)' \/ Patch(r)
  <2>1. ASSUME NEW q \in Runners, Ends(q)
        PROVE  runner'[r] = runner[r] \/ ~HasPatched(r)'
    BY <2>1, EndsThere DEF HasPatched
  <2>2. ASSUME NEW q \in Runners, NEW e \in Experiments, Activate(q, e) \/ Cycle(q, e) \/ Rollback(q, e)
        PROVE  runner'[r] = runner[r] \/ ~HasPatched(r)'
    BY <2>2, RunnerBegins, BeginsThere DEF Begins, HasPatched
  <2>3. ASSUME NEW q \in Runners,
               \/ ActivateCheck(q) \/ ActivateWrite(q) \/ KeepRunning(q) \/ WinnerReady(q) \/ Promote(q)
               \/ ReadProduct(q) \/ Verify(q) \/ RecordPromotion(q) \/ MarkRolledBack(q) \/ Abandon(q)
        PROVE  runner'[r] = runner[r] \/ ~HasPatched(r)'
    <3>1. CASE q = r
      <4>1. Ends(r)
        BY <2>3, <3>1 DEF ActivateCheck, ActivateWrite, KeepRunning, WinnerReady, Promote,
                          ReadProduct, Verify, RecordPromotion, MarkRolledBack, Abandon, At
      <4> QED BY <4>1, <2>1
    <3>2. CASE q # r
      BY <2>3, <3>2 DEF ActivateCheck, ActivateWrite, KeepRunning, WinnerReady, Promote, ReadProduct, Verify,
                        RecordPromotion, MarkRolledBack, Abandon, Goes, Ends, TypeOK
    <3> QED BY <3>1, <3>2
  <2>4. ASSUME NEW q \in Runners, Patch(q)
        PROVE  runner'[r] = runner[r] \/ Patch(r)
    BY <2>4 DEF Patch, Goes, TypeOK
  <2>5. ASSUME NEW e \in Experiments, Create(e) \/ Pause(e)
        PROVE  runner'[r] = runner[r]
    BY <2>5 DEF Create, Pause
  <2> QED BY <2>2, <2>3, <2>4, <2>5 DEF Next, Edit, vars
<1> QED BY <1>1, <1>2, <1>3

(* The revision in the request: no write to the shop replaces a text other *)
(* than the one that will be recorded, so no edit is lost.                 *)
THEOREM PromotionReplacesWhatItRead == Spec => PromotionKeepsWhatItReplaces
<1>1. ASSUME TypeOK, ReadIsKnown, [Next]_vars
      PROVE  \A r \in Runners : At(r, "patching") /\ HasPatched(r)' => runner[r].before = shop.text
  BY <1>1, WriteReplaces
<1> QED BY <1>1, Typed, ReadIsKnownHolds, PTL DEF Spec, PromotionKeepsWhatItReplaces

(* evaluate_one and rollback, of an experiment whose runners neither        *)
(* overlapped nor failed between the shop and the table: it is promoted    *)
(* once, what its row keeps for the rollback is not its own treatment, and  *)
(* it says promoted exactly while there is something to roll back.         *)
THEOREM PromotionIsReversible == Spec => []SequentiallyReversible
<1>1. OthersAreOrderly => SequentiallyReversible
  <2> SUFFICES ASSUME NEW e \in Experiments, Orderly(e)
               PROVE  /\ Cardinality(RowsOf(e)) <= 1
                      /\ \A i \in RowsOf(e) : promotions[i].before # e
                      /\ status[e] = "promoted" <=> Live(e) # {}
    BY DEF OthersAreOrderly, SequentiallyReversible
  <2>1. CASE RowsOf(e) = {}
    BY <2>1, FS_EmptySet DEF Orderly
  <2>2. ASSUME NEW i \in RowsOf(e)
        PROVE  Cardinality(RowsOf(e)) <= 1
    <3>1. RowsOf(e) = {i}
      BY <2>2 DEF Orderly
    <3>2. Cardinality({i}) = 1
      BY FS_Singleton
    <3> QED BY <3>1, <3>2
  <2> QED BY <2>1, <2>2 DEF Orderly
<1> QED BY <1>1, OrderlyAlways, PTL
=============================================================================
