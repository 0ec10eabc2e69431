---------------------------- MODULE ServicesProofs ----------------------------
(***************************************************************************)
(* What keeps the host in order: the council node, self-heal, the vault,   *)
(* the cutover, the ledger and the audit trail, proved like the services   *)
(* of OutboundProofs; and the type invariants of them all.                 *)
(***************************************************************************)
EXTENDS OutboundProofs

-----------------------------------------------------------------------------
(* The council node.                                                       *)
CouncilLanes == Single \cup Exits
HoldRequest ==
  [op : {"hold", "release"}, lane : CouncilLanes, copy : SUBSET CouncilLanes, stale : BOOLEAN]
LaneTask ==
  [pc : {"over", "evaluating", "running", "sealing"},
   state : {"IN_PROGRESS"} \cup Council!Outcomes, forbidden : BOOLEAN]

CouncilTyped ==
  /\ holds \subseteq CouncilLanes /\ standing \subseteq CouncilLanes /\ gone \subseteq CouncilLanes
  /\ readable \in BOOLEAN
  /\ councilRequest \in [Actors -> {Council!Idle} \cup HoldRequest]
  /\ councilTask \in [Single -> LaneTask]
  /\ ran \subseteq Single

(* What a request wrote before another loaded the file is in the copy the   *)
(* other has: but for a copy that is stale, a hold that stands and was not *)
(* lost is in the file and in every copy, and no release is about to take  *)
(* it out.                                                                 *)
HoldsAreThere ==
  /\ standing \ gone \subseteq holds
  /\ \A r \in Actors : councilRequest[r] # Council!Idle /\ ~councilRequest[r].stale =>
       /\ standing \ gone \subseteq councilRequest[r].copy
       /\ councilRequest[r].op = "release" => councilRequest[r].lane \notin standing \ gone

RunsAllowed ==
  \A l \in Single :
    /\ councilTask[l].pc \in {"evaluating", "running"} => l \notin ran
    /\ councilTask[l].pc = "running" \/ l \in ran => ~councilTask[l].forbidden

CouncilInv == CouncilTyped /\ HoldsAreThere /\ RunsAllowed

LEMMA CouncilRequestRow ==
  ASSUME CouncilTyped, NEW r \in Actors, NEW x \in {Council!Idle} \cup HoldRequest,
         Council!Becomes(r, x)
  PROVE  /\ councilRequest' \in [Actors -> {Council!Idle} \cup HoldRequest]
         /\ councilRequest'[r] = x
         /\ \A q \in Actors \ {r} : councilRequest'[q] = councilRequest[q]
BY DEF CouncilTyped, Council!Becomes

LEMMA CouncilTaskRow ==
  ASSUME CouncilTyped, NEW l \in Single, NEW x \in LaneTask,
         councilTask' = [councilTask EXCEPT ![l] = x]
  PROVE  /\ councilTask' \in [Single -> LaneTask]
         /\ councilTask'[l] = x /\ \A m \in Single \ {l} : councilTask'[m] = councilTask[m]
BY DEF CouncilTyped

(* Both operations begin by loading the holds, ...                         *)
LEMMA LoadKeeps ==
  ASSUME CouncilInv, NEW r \in Actors, NEW l \in CouncilLanes, NEW op \in {"hold", "release"},
         Council!Load(r, op, l)
  PROVE  CouncilInv'
<1> DEFINE x == [op |-> op, lane |-> l, copy |-> holds, stale |-> FALSE]
<1>1. x \in HoldRequest /\ x # Council!Idle /\ x.copy = holds /\ x.op = op /\ x.lane = l
  BY DEF HoldRequest, Council!Idle, CouncilInv, CouncilTyped
<1>2. /\ Council!Becomes(r, x)
      /\ UNCHANGED <<holds, readable, gone, councilTask, ran>>
      /\ standing' = IF op = "release" THEN standing \ {l} ELSE standing
  BY DEF Council!Load, Council!executor
<1> HIDE DEF x
<1>3. /\ councilRequest' \in [Actors -> {Council!Idle} \cup HoldRequest]
      /\ councilRequest'[r] = x
      /\ \A q \in Actors \ {r} : councilRequest'[q] = councilRequest[q]
  BY <1>1, <1>2, CouncilRequestRow DEF CouncilInv
<1>4. CouncilTyped'
  BY <1>2, <1>3 DEF CouncilInv, CouncilTyped
<1>5. HoldsAreThere'
  BY <1>1, <1>2, <1>3 DEF CouncilInv, HoldsAreThere
<1>6. RunsAllowed'
  BY <1>2 DEF CouncilInv, RunsAllowed
<1> QED BY <1>4, <1>5, <1>6 DEF CouncilInv

(* ... and save them, after which every other copy is stale, ...           *)
LEMMA CouncilSaveKeeps ==
  ASSUME CouncilInv, NEW r \in Actors, Council!Save(r)
  PROVE  CouncilInv'
<1>1. councilRequest[r] # Council!Idle /\ councilRequest[r] \in HoldRequest
  BY DEF Council!Save, CouncilInv, CouncilTyped
<1> DEFINE l == councilRequest[r].lane
           held == IF councilRequest[r].op = "hold" THEN {l} ELSE {}
<1>2. /\ councilRequest' = Council!Saved(r)
      /\ UNCHANGED <<councilTask, ran>> /\ readable' \in BOOLEAN
      /\ holds' = (councilRequest[r].copy \ {l}) \cup held
      /\ standing' = standing \cup held
      /\ gone' = (gone \cup (IF councilRequest[r].stale THEN standing \ holds' ELSE {})) \ held
  BY DEF Council!Save, Council!executor
<1>3. /\ l \in CouncilLanes /\ held \subseteq {l} /\ councilRequest[r].copy \subseteq CouncilLanes
      /\ councilRequest[r].op = "release" \/ held = {l}
  BY <1>1 DEF HoldRequest
<1> HIDE DEF held, l
<1>4. ASSUME NEW q \in Actors
      PROVE  /\ councilRequest'[q] \in {Council!Idle} \cup HoldRequest
             /\ councilRequest'[q] # Council!Idle => councilRequest'[q].stale
  <2> DEFINE y == [councilRequest[q] EXCEPT !.stale = TRUE]
  <2>1. councilRequest[q] # Council!Idle => y \in HoldRequest /\ y.stale
    BY DEF CouncilInv, CouncilTyped, HoldRequest
  <2>2. councilRequest'[q] = IF q = r \/ councilRequest[q] = Council!Idle THEN Council!Idle ELSE y
    BY <1>2 DEF Council!Saved
  <2> HIDE DEF y
  <2> QED BY <2>1, <2>2
<1>5. councilRequest' \in [Actors -> {Council!Idle} \cup HoldRequest]
  <2>1. DOMAIN councilRequest' = Actors /\ councilRequest' = [q \in Actors |-> councilRequest'[q]]
    BY <1>2 DEF Council!Saved
  <2> QED BY <1>4, <2>1
<1>6. CouncilTyped'
  BY <1>2, <1>3, <1>5 DEF CouncilInv, CouncilTyped
<1>7. standing' \ gone' \subseteq holds'
  BY <1>1, <1>2, <1>3 DEF CouncilInv, HoldsAreThere, l
<1>8. HoldsAreThere'
  BY <1>4, <1>7 DEF HoldsAreThere
<1>9. RunsAllowed'
  BY <1>2 DEF CouncilInv, RunsAllowed
<1> QED BY <1>6, <1>8, <1>9 DEF CouncilInv

(* ... or fail.  A file that is lost loses every hold.                     *)
LEMMA CouncilFailsKeep ==
  ASSUME CouncilInv, (\E r \in Actors : Council!SaveFails(r)) \/ Council!Damage \/ Council!Lose
  PROVE  CouncilInv'
<1>1. CASE \E r \in Actors : Council!SaveFails(r)
  <2> PICK r \in Actors : Council!SaveFails(r)
    BY <1>1
  <2>1. Council!Becomes(r, Council!Idle) /\ UNCHANGED <<holds, readable, standing, gone, councilTask, ran>>
    BY DEF Council!SaveFails, Council!executor
  <2>2. /\ councilRequest' \in [Actors -> {Council!Idle} \cup HoldRequest]
        /\ councilRequest'[r] = Council!Idle
        /\ \A q \in Actors \ {r} : councilRequest'[q] = councilRequest[q]
    BY <2>1, CouncilRequestRow DEF CouncilInv
  <2> QED BY <2>1, <2>2 DEF CouncilInv, CouncilTyped, HoldsAreThere, RunsAllowed
<1>2. CASE Council!Damage
  BY <1>2 DEF Council!Damage, Council!executor, CouncilInv, CouncilTyped, HoldsAreThere, RunsAllowed
<1>3. CASE Council!Lose
  <2>1. /\ holds' = {} /\ readable' = TRUE /\ gone' = gone \cup standing
        /\ UNCHANGED <<councilRequest, standing, councilTask, ran>>
    BY <1>3 DEF Council!Lose, Council!executor
  <2> QED BY <2>1 DEF CouncilInv, CouncilTyped, HoldsAreThere, RunsAllowed
<1> QED BY <1>1, <1>2, <1>3

(* A task is evaluated against the holds and is handled, or not.           *)
LEMMA TaskKeeps ==
  ASSUME CouncilInv, NEW l \in Single,
         \/ Council!Submit(l) \/ Council!EvaluateRaises(l) \/ Council!Seal(l) \/ Council!SealFails(l)
         \/ \E verdict \in Council!Refusals \cup {"ALLOW"} : Council!Evaluate(l, verdict)
         \/ \E state \in Council!Outcomes : Council!Handle(l, state)
  PROVE  CouncilInv'
<1>1. councilTask[l] \in LaneTask
  BY DEF CouncilInv, CouncilTyped
<1>2. UNCHANGED <<holds, readable, standing, gone, councilRequest>>
  BY DEF Council!Submit, Council!EvaluateRaises, Council!Seal, Council!SealFails, Council!Evaluate, Council!Handle, Council!gate
<1>3. PICK x \in LaneTask :
        /\ councilTask' = [councilTask EXCEPT ![l] = x]
        /\ \/ x.pc = "evaluating" /\ ran' = ran \ {l}
           \/ /\ councilTask[l].pc = "evaluating" /\ x.pc \in {"running", "sealing"} /\ ran' = ran
              /\ x.pc = "running" => readable /\ l \notin holds /\ x.forbidden = (l \in standing \ gone)
           \/ /\ councilTask[l].pc = "running" /\ x.pc = "sealing" /\ ran' = ran \cup {l}
              /\ x.forbidden = councilTask[l].forbidden
           \/ /\ councilTask[l].pc \in {"evaluating", "sealing"} /\ x.pc = "over" /\ ran' = ran
              /\ x.forbidden = councilTask[l].forbidden
  <2>1. CASE Council!Submit(l)
    <3> DEFINE x == [pc |-> "evaluating", state |-> "IN_PROGRESS", forbidden |-> FALSE]
    <3>1. x \in LaneTask /\ x.pc = "evaluating"
      BY DEF LaneTask
    <3>2. councilTask' = [councilTask EXCEPT ![l] = x] /\ ran' = ran \ {l}
      BY <2>1 DEF Council!Submit
    <3> HIDE DEF x
    <3> QED BY <3>1, <3>2
  <2>2. CASE \E verdict \in Council!Refusals \cup {"ALLOW"} : Council!Evaluate(l, verdict)
    <3>1. PICK verdict \in Council!Refusals \cup {"ALLOW"} : Council!Evaluate(l, verdict)
      BY <2>2
    <3> DEFINE f == l \in standing \ gone
               x == [pc |-> IF verdict = "ALLOW" THEN "running" ELSE "sealing",
                     state |-> IF verdict = "ALLOW" THEN "IN_PROGRESS" ELSE verdict, forbidden |-> f]
    <3>2. f \in BOOLEAN /\ (f <=> l \in standing \ gone)
      OBVIOUS
    <3>3. councilTask' = [councilTask EXCEPT ![l] = x]
      BY <3>1 DEF Council!Evaluate
    <3>4. /\ councilTask[l].pc = "evaluating" /\ ran' = ran
          /\ verdict = "ALLOW" => readable /\ l \notin holds
      BY <3>1 DEF Council!Evaluate, Council!At, Council!Verdicts
    <3> HIDE DEF f
    <3>5. /\ x \in LaneTask /\ x.forbidden = f
          /\ x.pc = IF verdict = "ALLOW" THEN "running" ELSE "sealing"
      BY <3>2 DEF LaneTask, Council!Outcomes
    <3> HIDE DEF x
    <3> QED BY <3>2, <3>3, <3>4, <3>5 DEF f
  <2>3. CASE \E state \in Council!Outcomes : Council!Handle(l, state)
    <3>1. PICK state \in Council!Outcomes : Council!Handle(l, state)
      BY <2>3
    <3> DEFINE x == [councilTask[l] EXCEPT !.pc = "sealing", !.state = state]
    <3>2. x \in LaneTask /\ x.pc = "sealing" /\ x.forbidden = councilTask[l].forbidden
      BY <1>1 DEF LaneTask
    <3>3. /\ councilTask' = [councilTask EXCEPT ![l] = x]
          /\ councilTask[l].pc = "running" /\ ran' = ran \cup {l}
      BY <3>1 DEF Council!Handle, Council!Reaches, Council!At, CouncilInv, CouncilTyped
    <3> HIDE DEF x
    <3> QED BY <3>2, <3>3
  <2>4. CASE Council!Seal(l) \/ Council!SealFails(l) \/ Council!EvaluateRaises(l)
    <3> DEFINE x == [councilTask[l] EXCEPT !.pc = "over",
                       !.state = IF councilTask[l].pc = "sealing" THEN councilTask[l].state ELSE "IN_PROGRESS"]
    <3>1. x \in LaneTask /\ x.pc = "over" /\ x.forbidden = councilTask[l].forbidden
      BY <1>1 DEF LaneTask
    <3>2. /\ councilTask' = [councilTask EXCEPT ![l] = x]
          /\ councilTask[l].pc \in {"evaluating", "sealing"} /\ ran' = ran
      BY <2>4 DEF Council!Seal, Council!SealFails, Council!EvaluateRaises, Council!Reaches, Council!At, CouncilInv, CouncilTyped
    <3> HIDE DEF x
    <3> QED BY <3>1, <3>2
  <2> QED BY <2>1, <2>2, <2>3, <2>4
<1>4. /\ councilTask' \in [Single -> LaneTask]
      /\ councilTask'[l] = x /\ \A m \in Single \ {l} : councilTask'[m] = councilTask[m]
  BY <1>3, CouncilTaskRow DEF CouncilInv
<1>5. ran' \subseteq Single
  BY <1>3 DEF CouncilInv, CouncilTyped
<1>6. CouncilTyped' /\ HoldsAreThere'
  BY <1>2, <1>4, <1>5 DEF CouncilInv, CouncilTyped, HoldsAreThere
<1>7. RunsAllowed'
  BY <1>2, <1>3, <1>4 DEF CouncilInv, RunsAllowed, HoldsAreThere
<1> QED BY <1>6, <1>7 DEF CouncilInv

LEMMA CouncilStep ==
  ASSUME CouncilInv, Council!Next
  PROVE  CouncilInv'
BY LoadKeeps, CouncilSaveKeeps, CouncilFailsKeep, TaskKeeps DEF Council!Next, CouncilLanes

LEMMA CouncilInvariance == Behaviour => [](Is("council") => CouncilInv)
<1>1. SumInit => (Is("council") => CouncilInv)
  <2>1. Council!Init => CouncilInv
    BY DEF Council!Init, CouncilInv, CouncilTyped, HoldsAreThere, RunsAllowed, LaneTask
  <2> QED BY <2>1 DEF SumInit
<1>2. (Is("council") => CouncilInv) /\ [SumNext]_all => (Is("council") => CouncilInv)'
  <2> SUFFICES ASSUME Is("council") => CouncilInv, [SumNext]_all, Is("council")'
               PROVE  CouncilInv'
    OBVIOUS
  <2>1. CouncilInv /\ (Council!Next \/ UNCHANGED councilVars)
    BY OneRuns DEF Is
  <2>2. CASE UNCHANGED councilVars
    BY <2>1, <2>2 DEF councilVars, CouncilInv, CouncilTyped, HoldsAreThere, RunsAllowed
  <2> QED BY <2>1, <2>2, CouncilStep
<1> QED BY <1>1, <1>2, PTL DEF Behaviour

(* No task runs that was evaluated while a hold of its lane stood that the  *)
(* file had not lost, for any lanes, requests, failures and damage.        *)
THEOREM NothingRunsUnderHold == Behaviour => []NoRunUnderHold
<1>1. (Is("council") => CouncilInv) => NoRunUnderHold
  BY DEF NoRunUnderHold, Council!NoRunUnderHold, CouncilInv, CouncilTyped, RunsAllowed
<1> QED BY <1>1, CouncilInvariance, PTL
-----------------------------------------------------------------------------
(* Self-heal.                                                              *)
RuntimeFiles == Items \cup Single
Snapshots == {<<>>} \cup UNION {[some -> Nat] : some \in SUBSET RuntimeFiles}
Repairing ==
  [pc : Heal!Steps, found : [RuntimeFiles -> Nat], snapshot : Snapshots, todo : SUBSET RuntimeFiles,
   status : {"none", "BLOCKED", "HELD", "HEALTHY", "REPAIRED"},
   seen : BOOLEAN, unrestored : BOOLEAN]

HealTyped ==
  /\ head \in Nat /\ runtime \in [RuntimeFiles -> Nat]
  /\ repair \in [Actors -> {Heal!Idle} \cup Repairing]

Runs(r) == repair[r] # Heal!Idle

(* What a repair that is alone with the runtime has done to it: x is the    *)
(* repair, files the versions of the files and h the repository's.           *)
DriftOf(x, h) == {f \in RuntimeFiles \ Single : x.found[f] # h}
Snapped(x, files, h) ==
  /\ DOMAIN x.snapshot = DriftOf(x, h)
  /\ \A f \in DriftOf(x, h) : x.snapshot[f] = x.found[f]
  /\ \A f \in RuntimeFiles \ DriftOf(x, h) : files[f] = x.found[f]
Begun(x, files, h) ==
  /\ files = x.found /\ x.snapshot = <<>>
  /\ x.todo = IF x.seen THEN DriftOf(x, h) ELSE {}
Underway(x, files, h) ==
  /\ x.snapshot = <<>> => files = x.found
  /\ x.snapshot # <<>> => Snapped(x, files, h)
Copied(x, files, h) ==
  /\ x.snapshot = <<>> /\ x.seen => DriftOf(x, h) = {}
  /\ x.snapshot # <<>> => \A f \in DriftOf(x, h) : files[f] = h
Outcome(x, files, h) ==
  /\ x.status = "BLOCKED" => files = x.found
  /\ x.status # "BLOCKED" =>
       \/ \A f \in RuntimeFiles : files[f] = IF f \in Single THEN x.found[f] ELSE h
       \/ ~x.seen /\ files = x.found
  /\ x.status \in {"HEALTHY", "REPAIRED"} /\ x.seen => \A f \in RuntimeFiles : files[f] = h
Sound(x, files, h) ==
  /\ x.pc # "answered" => ~x.unrestored
  /\ x.pc = "diagnosed" => Begun(x, files, h)
  /\ x.pc \in {"copying", "restarting", "rollback", "undo", "reporting"} => Underway(x, files, h)
  /\ x.pc \in {"copying", "rollback", "undo"} => x.snapshot # <<>>
  /\ x.pc = "copying" =>
       x.todo \subseteq DriftOf(x, h) /\ \A f \in DriftOf(x, h) \ x.todo : files[f] = h
  /\ x.pc = "restarting" => Copied(x, files, h)
  /\ x.pc \in {"reporting", "answered"} /\ ~x.unrestored => Outcome(x, files, h)
  /\ x.unrestored =>
       x.status = "BLOCKED" /\ \A f \in RuntimeFiles \ DOMAIN x.snapshot : files[f] = x.found[f]

UndisturbedIsAlone ==
  \A r \in Actors \ disturbed :
    Runs(r) => Sound(repair[r], runtime, head) /\ \A q \in Actors : Runs(q) => q = r

HealInv == HealTyped /\ UndisturbedIsAlone

LEMMA HealRow ==
  ASSUME HealTyped, NEW r \in Actors, NEW x \in {Heal!Idle} \cup Repairing, Heal!Becomes(r, x)
  PROVE  /\ repair' \in [Actors -> {Heal!Idle} \cup Repairing]
         /\ repair'[r] = x /\ \A q \in Actors \ {r} : repair'[q] = repair[q]
BY DEF HealTyped, Heal!Becomes

LEMMA HealRuns ==
  ASSUME HealTyped, NEW r \in Actors
  PROVE  /\ repair[r].pc \in Heal!Steps => Runs(r) /\ repair[r] \in Repairing
         /\ Runs(r) => repair[r] \in Repairing
BY DEF HealTyped, Heal!Idle, Runs, Repairing, Heal!Steps

(* A repair that goes on disturbs nobody: it is enough that what it has     *)
(* done stays sound if it was.                                             *)
LEMMA GoesOn ==
  ASSUME HealInv, NEW r \in Actors, Runs(r), NEW w \in Repairing, Heal!Becomes(r, w),
         runtime' \in [RuntimeFiles -> Nat], head' = head, disturbed' = disturbed,
         Sound(repair[r], runtime, head) => Sound(w, runtime', head)
  PROVE  HealInv'
<1>1. /\ repair' \in [Actors -> {Heal!Idle} \cup Repairing]
      /\ repair'[r] = w /\ \A q \in Actors \ {r} : repair'[q] = repair[q]
  BY HealRow DEF HealInv
<1>2. HealTyped'
  BY <1>1 DEF HealInv, HealTyped
<1>3. ASSUME NEW q \in Actors \ disturbed', Runs(q)'
      PROVE  Sound(repair'[q], runtime', head') /\ \A p \in Actors : Runs(p)' => p = q
  <2>1. \A p \in Actors \ {r} : Runs(p)' => Runs(p)
    BY <1>1 DEF Runs
  <2>2. q = r /\ \A p \in Actors : Runs(p) => p = q
    BY <1>3, <2>1 DEF HealInv, UndisturbedIsAlone
  <2>3. Sound(repair[r], runtime, head)
    BY <2>2, <1>3 DEF HealInv, UndisturbedIsAlone
  <2> QED BY <1>1, <2>1, <2>2, <2>3
<1> QED BY <1>2, <1>3 DEF HealInv, UndisturbedIsAlone

(* The fields of the repair after a step, one shape at a time.             *)
LEMMA GoesFields ==
  ASSUME HealInv, NEW r \in Actors, repair[r] \in Repairing, NEW pc \in Heal!Steps, Heal!Goes(r, pc)
  PROVE  \E w \in Repairing :
           /\ Heal!Becomes(r, w) /\ w.pc = pc /\ w.found = repair[r].found /\ w.todo = repair[r].todo
           /\ w.snapshot = repair[r].snapshot /\ w.status = repair[r].status
           /\ w.seen = repair[r].seen /\ w.unrestored = repair[r].unrestored
<1> DEFINE w == [repair[r] EXCEPT !.pc = pc]
<1>1. /\ w \in Repairing /\ w.pc = pc /\ w.found = repair[r].found /\ w.todo = repair[r].todo
      /\ w.snapshot = repair[r].snapshot /\ w.status = repair[r].status
      /\ w.seen = repair[r].seen /\ w.unrestored = repair[r].unrestored
  BY DEF Repairing, Heal!Steps
<1>2. Heal!Becomes(r, w)
  BY DEF Heal!Goes
<1> QED BY <1>1, <1>2

LEMMA AnswersFields ==
  ASSUME HealInv, NEW r \in Actors, repair[r] \in Repairing, Heal!Answers(r, "BLOCKED")
  PROVE  \E w \in Repairing :
           /\ Heal!Becomes(r, w) /\ w.pc = "answered" /\ w.found = repair[r].found
           /\ w.snapshot = repair[r].snapshot /\ w.status = "BLOCKED"
           /\ w.seen = repair[r].seen /\ w.unrestored = repair[r].unrestored
<1> DEFINE w == [repair[r] EXCEPT !.pc = "answered", !.status = "BLOCKED"]
<1>1. /\ w \in Repairing /\ w.pc = "answered" /\ w.found = repair[r].found
      /\ w.snapshot = repair[r].snapshot /\ w.status = "BLOCKED"
      /\ w.seen = repair[r].seen /\ w.unrestored = repair[r].unrestored
  BY DEF Repairing, Heal!Steps
<1>2. Heal!Becomes(r, w)
  BY DEF Heal!Answers
<1> QED BY <1>1, <1>2

(* What a restored snapshot makes of the runtime.                          *)
LEMMA RestoredFilesOf ==
  ASSUME HealInv, NEW r \in Actors, repair[r] \in Repairing
  PROVE  /\ Heal!Restored(repair[r].snapshot) \in [RuntimeFiles -> Nat]
         /\ \A f \in RuntimeFiles :
              Heal!Restored(repair[r].snapshot)[f] =
                IF f \in DOMAIN repair[r].snapshot THEN repair[r].snapshot[f] ELSE runtime[f]
         /\ \A f \in DOMAIN repair[r].snapshot : repair[r].snapshot[f] \in Nat
<1>1. runtime \in [RuntimeFiles -> Nat]
  BY DEF HealInv, HealTyped
<1>2. \A f \in DOMAIN repair[r].snapshot : repair[r].snapshot[f] \in Nat
  <2>1. CASE repair[r].snapshot = <<>>
    <3>1. DOMAIN <<>> = {}
      OBVIOUS
    <3> QED BY <2>1, <3>1
  <2>2. CASE \E some \in SUBSET RuntimeFiles : repair[r].snapshot \in [some -> Nat]
    BY <2>2
  <2>3. repair[r].snapshot \in Snapshots
    BY DEF Repairing
  <2> QED BY <2>1, <2>2, <2>3 DEF Snapshots
<1> QED BY <1>1, <1>2 DEF Heal!Restored, RuntimeFiles

LEMMA RestoresAsFound ==
  ASSUME HealInv, NEW r \in Actors, repair[r] \in Repairing, Snapped(repair[r], runtime, head)
  PROVE  Heal!Restored(repair[r].snapshot) = repair[r].found
<1> DEFINE later == Heal!Restored(repair[r].snapshot)
<1>1. later \in [RuntimeFiles -> Nat] /\ \A f \in RuntimeFiles : later[f] = repair[r].found[f]
  BY RestoredFilesOf DEF Snapped
<1>2. repair[r].found \in [RuntimeFiles -> Nat]
  BY DEF Repairing
<1> HIDE DEF later
<1>3. later = repair[r].found
  BY <1>1, <1>2
<1> QED BY <1>3 DEF later

LEMMA RestoresSomeFiles ==
  ASSUME HealInv, NEW r \in Actors, repair[r] \in Repairing, Heal!RestoresSome(repair[r].snapshot)
  PROVE  /\ runtime' \in [RuntimeFiles -> Nat]
         /\ \A f \in RuntimeFiles \ DOMAIN repair[r].snapshot : runtime'[f] = runtime[f]
<1> PICK done \in SUBSET DOMAIN repair[r].snapshot, here \in DOMAIN repair[r].snapshot :
      \E left \in {runtime[here], repair[r].snapshot[here], Heal!Edited} :
        runtime' = [f \in RuntimeFiles |-> IF f = here THEN left ELSE IF f \in done
                                          THEN repair[r].snapshot[f] ELSE runtime[f]]
  BY DEF Heal!RestoresSome, RuntimeFiles
<1> PICK left \in {runtime[here], repair[r].snapshot[here], Heal!Edited} :
        runtime' = [f \in RuntimeFiles |-> IF f = here THEN left ELSE IF f \in done
                                          THEN repair[r].snapshot[f] ELSE runtime[f]]
  OBVIOUS
<1>1. runtime \in [RuntimeFiles -> Nat] /\ \A f \in DOMAIN repair[r].snapshot : repair[r].snapshot[f] \in Nat
  BY RestoredFilesOf DEF HealInv, HealTyped
<1>2. here \in RuntimeFiles => left \in Nat
  BY <1>1 DEF Heal!Edited
<1> QED BY <1>1, <1>2

LEMMA SnapshotKeeps ==
  ASSUME HealInv, NEW r \in Actors, Heal!Snapshot(r)
  PROVE  HealInv'
<1>1. repair[r].pc = "diagnosed" /\ repair[r] \in Repairing /\ Runs(r)
  BY HealRuns DEF HealInv, Heal!Snapshot, Heal!At, Heal!Steps
<1>2. UNCHANGED <<head, runtime, disturbed>> /\ runtime \in [RuntimeFiles -> Nat]
  BY DEF Heal!Snapshot, HealInv, HealTyped
<1>3. CASE repair[r].todo = {} /\ Heal!Goes(r, "restarting")
  <2> PICK w \in Repairing :
        /\ Heal!Becomes(r, w) /\ w.pc = "restarting" /\ w.found = repair[r].found /\ w.todo = repair[r].todo
        /\ w.snapshot = repair[r].snapshot /\ w.status = repair[r].status
        /\ w.seen = repair[r].seen /\ w.unrestored = repair[r].unrestored
    BY <1>1, <1>3, GoesFields DEF Heal!Steps
  <2>1. Sound(repair[r], runtime, head) => Sound(w, runtime, head)
    BY <1>1, <1>3 DEF Sound, Begun, Underway, Copied, DriftOf
  <2> QED BY <1>1, <1>2, <2>1, GoesOn
<1>4. CASE Heal!Answers(r, "BLOCKED")
  <2> PICK w \in Repairing :
        /\ Heal!Becomes(r, w) /\ w.pc = "answered" /\ w.found = repair[r].found
        /\ w.snapshot = repair[r].snapshot /\ w.status = "BLOCKED"
        /\ w.seen = repair[r].seen /\ w.unrestored = repair[r].unrestored
    BY <1>1, <1>4, AnswersFields
  <2>1. Sound(repair[r], runtime, head) => Sound(w, runtime, head)
    BY <1>1 DEF Sound, Begun, Outcome
  <2> QED BY <1>1, <1>2, <2>1, GoesOn
<1> DEFINE taken == [f \in repair[r].todo |-> runtime[f]]
           y == [repair[r] EXCEPT !.pc = "copying", !.snapshot = taken]
<1>5. CASE repair[r].todo # {} /\ Heal!Becomes(r, y)
  <2>1. taken \in Snapshots /\ DOMAIN taken = repair[r].todo
        /\ \A f \in repair[r].todo : taken[f] = runtime[f]
    <3>1. repair[r].todo \subseteq RuntimeFiles
      BY <1>1 DEF Repairing
    <3>2. taken \in [repair[r].todo -> Nat]
      BY <1>2, <3>1
    <3> QED BY <3>1, <3>2 DEF Snapshots
  <2> HIDE DEF taken
  <2>2. /\ y \in Repairing /\ y.pc = "copying" /\ y.found = repair[r].found /\ y.snapshot = taken
        /\ y.todo = repair[r].todo /\ y.seen = repair[r].seen /\ y.unrestored = repair[r].unrestored
    BY <1>1, <2>1 DEF Repairing, Heal!Steps
  <2>3. taken # <<>>
    <3>1. DOMAIN <<>> = {}
      OBVIOUS
    <3> QED BY <1>5, <2>1, <3>1
  <2> HIDE DEF y
  <2>4. ASSUME Sound(repair[r], runtime, head) PROVE Sound(y, runtime, head)
    <3>1. Begun(repair[r], runtime, head) /\ ~repair[r].unrestored
      BY <1>1, <2>4 DEF Sound
    <3>2. DriftOf(y, head) = DriftOf(repair[r], head) /\ repair[r].todo = DriftOf(repair[r], head)
      BY <1>5, <2>2, <3>1 DEF DriftOf, Begun
    <3>3. Snapped(y, runtime, head)
      BY <2>1, <2>2, <3>1, <3>2 DEF Snapped, Begun, DriftOf
    <3> QED BY <2>2, <2>3, <3>1, <3>2, <3>3 DEF Sound, Underway
  <2>5. Heal!Becomes(r, y)
    BY <1>5
  <2> QED BY <1>1, <1>2, <2>2, <2>4, <2>5, GoesOn
<1> QED BY <1>3, <1>4, <1>5 DEF Heal!Snapshot

LEMMA CopyFileKeeps ==
  ASSUME HealInv, NEW r \in Actors, NEW f \in RuntimeFiles, Heal!Copy(r, f)
  PROVE  HealInv'
<1>1. repair[r].pc = "copying" /\ repair[r] \in Repairing /\ Runs(r)
  BY HealRuns DEF HealInv, Heal!Copy, Heal!At, Heal!Steps
<1>2. /\ UNCHANGED <<head, disturbed>> /\ runtime' = [runtime EXCEPT ![f] = head]
      /\ f \in repair[r].todo
  BY DEF Heal!Copy
<1> DEFINE x == [repair[r] EXCEPT !.todo = @ \ {f}]
<1>3. /\ x \in Repairing /\ x.pc = "copying" /\ x.found = repair[r].found
      /\ x.snapshot = repair[r].snapshot /\ x.todo = repair[r].todo \ {f}
      /\ x.seen = repair[r].seen /\ x.unrestored = repair[r].unrestored
  BY <1>1 DEF Repairing
<1>4. Heal!Becomes(r, x)
  BY DEF Heal!Copy
<1> HIDE DEF x
<1>5. /\ runtime' \in [RuntimeFiles -> Nat] /\ runtime'[f] = head
      /\ \A g \in RuntimeFiles \ {f} : runtime'[g] = runtime[g]
  BY <1>2 DEF HealInv, HealTyped
<1>6. ASSUME Sound(repair[r], runtime, head) PROVE Sound(x, runtime', head)
  <2>1. /\ Snapped(repair[r], runtime, head) /\ repair[r].snapshot # <<>> /\ ~repair[r].unrestored
        /\ repair[r].todo \subseteq DriftOf(repair[r], head)
        /\ \A g \in DriftOf(repair[r], head) \ repair[r].todo : runtime[g] = head
    BY <1>1, <1>6 DEF Sound, Underway
  <2>2. DriftOf(x, head) = DriftOf(repair[r], head) /\ DriftOf(x, head) \subseteq RuntimeFiles
    BY <1>3 DEF DriftOf
  <2>3. Snapped(x, runtime', head)
    BY <1>2, <1>3, <1>5, <2>1, <2>2 DEF Snapped
  <2>4. \A g \in DriftOf(x, head) \ x.todo : runtime'[g] = head
    BY <1>3, <1>5, <2>1, <2>2
  <2> QED BY <1>3, <2>1, <2>2, <2>3, <2>4 DEF Sound, Underway
<1> QED BY <1>1, <1>2, <1>3, <1>4, <1>5, <1>6, GoesOn

LEMMA CopiedKeeps ==
  ASSUME HealInv, NEW r \in Actors, Heal!Copied(r)
  PROVE  HealInv'
<1>1. repair[r].pc = "copying" /\ repair[r] \in Repairing /\ Runs(r) /\ repair[r].todo = {}
  BY HealRuns DEF HealInv, Heal!Copied, Heal!At, Heal!Steps
<1>2. UNCHANGED <<head, runtime, disturbed>> /\ runtime \in [RuntimeFiles -> Nat]
  BY DEF Heal!Copied, HealInv, HealTyped
<1> PICK w \in Repairing :
      /\ Heal!Becomes(r, w) /\ w.pc = "restarting" /\ w.found = repair[r].found /\ w.todo = repair[r].todo
      /\ w.snapshot = repair[r].snapshot /\ w.status = repair[r].status
      /\ w.seen = repair[r].seen /\ w.unrestored = repair[r].unrestored
  BY <1>1, GoesFields DEF Heal!Copied, Heal!Steps
<1>3. Sound(repair[r], runtime, head) => Sound(w, runtime, head)
  BY <1>1 DEF Sound, Underway, Copied, DriftOf, Snapped
<1> QED BY <1>1, <1>2, <1>3, GoesOn

(* A step that raises leaves a file it was copying whatever it is, or the   *)
(* receipt is not written: the snapshot, if there is one, is to be undone. *)
LEMMA RaiseKeeps ==
  ASSUME HealInv, NEW r \in Actors, Heal!Raise(r)
  PROVE  HealInv'
<1>1. repair[r].pc \in {"copying", "restarting"} /\ repair[r] \in Repairing /\ Runs(r)
  BY HealRuns DEF HealInv, Heal!Raise, Heal!At, Heal!Steps
<1>2. /\ UNCHANGED <<head, disturbed>> /\ runtime' \in [RuntimeFiles -> Nat]
      /\ \/ runtime' = runtime
         \/ repair[r].pc = "copying" /\ \A g \in RuntimeFiles \ repair[r].todo : runtime'[g] = runtime[g]
  BY DEF Heal!Raise, HealInv, HealTyped, Heal!Edited, Heal!At
<1>3. CASE repair[r].snapshot # <<>> /\ Heal!Goes(r, "undo")
  <2> PICK w \in Repairing :
        /\ Heal!Becomes(r, w) /\ w.pc = "undo" /\ w.found = repair[r].found /\ w.todo = repair[r].todo
        /\ w.snapshot = repair[r].snapshot /\ w.status = repair[r].status
        /\ w.seen = repair[r].seen /\ w.unrestored = repair[r].unrestored
    BY <1>1, <1>3, GoesFields DEF Heal!Steps
  <2>1. ASSUME Sound(repair[r], runtime, head) PROVE Sound(w, runtime', head)
    <3>1. /\ Snapped(repair[r], runtime, head) /\ ~repair[r].unrestored
          /\ repair[r].pc = "copying" => repair[r].todo \subseteq DriftOf(repair[r], head)
      BY <1>1, <1>3, <2>1 DEF Sound, Underway
    <3>2. DriftOf(w, head) = DriftOf(repair[r], head)
      BY DEF DriftOf
    <3>3. Snapped(w, runtime', head)
      BY <1>2, <3>1, <3>2 DEF Snapped
    <3> QED BY <1>3, <3>1, <3>3 DEF Sound, Underway
  <2> QED BY <1>1, <1>2, <2>1, GoesOn
<1>4. CASE repair[r].snapshot = <<>> /\ Heal!Answers(r, "BLOCKED")
  <2> PICK w \in Repairing :
        /\ Heal!Becomes(r, w) /\ w.pc = "answered" /\ w.found = repair[r].found
        /\ w.snapshot = repair[r].snapshot /\ w.status = "BLOCKED"
        /\ w.seen = repair[r].seen /\ w.unrestored = repair[r].unrestored
    BY <1>1, <1>4, AnswersFields
  <2>1. Sound(repair[r], runtime, head) => Sound(w, runtime', head)
    BY <1>1, <1>2, <1>4 DEF Sound, Underway, Outcome
  <2> QED BY <1>1, <1>2, <2>1, GoesOn
<1> QED BY <1>3, <1>4 DEF Heal!Raise

(* The second diagnosis decides what came of the repair.                   *)
LEMMA DecideKeeps ==
  ASSUME HealInv, NEW r \in Actors, NEW otherIssues \in BOOLEAN, NEW acted \in BOOLEAN,
         NEW sight \in BOOLEAN, Heal!Decide(r, otherIssues, acted, sight)
  PROVE  HealInv'
<1>1. repair[r].pc = "restarting" /\ repair[r] \in Repairing /\ Runs(r)
  BY HealRuns DEF HealInv, Heal!Decide, Heal!At, Heal!Steps
<1>2. UNCHANGED <<head, runtime, disturbed>> /\ runtime \in [RuntimeFiles -> Nat]
  BY DEF Heal!Decide, HealInv, HealTyped
<1>3. CASE repair[r].snapshot # <<>> /\ Heal!Goes(r, "rollback")
  <2> PICK w \in Repairing :
        /\ Heal!Becomes(r, w) /\ w.pc = "rollback" /\ w.found = repair[r].found /\ w.todo = repair[r].todo
        /\ w.snapshot = repair[r].snapshot /\ w.status = repair[r].status
        /\ w.seen = repair[r].seen /\ w.unrestored = repair[r].unrestored
    BY <1>1, <1>3, GoesFields DEF Heal!Steps
  <2>1. Sound(repair[r], runtime, head) => Sound(w, runtime, head)
    BY <1>1, <1>3 DEF Sound, Underway, Snapped, DriftOf
  <2> QED BY <1>1, <1>2, <2>1, GoesOn
<1> DEFINE y(answer) == [repair[r] EXCEPT !.pc = "reporting", !.status = answer, !.seen = @ /\ sight]
<1>4. CASE \E answer \in {"BLOCKED", "HELD", "REPAIRED", "HEALTHY"} :
             /\ Heal!Becomes(r, y(answer))
             /\ answer = "BLOCKED" => repair[r].snapshot = <<>>
             /\ answer # "BLOCKED" /\ sight => Heal!Drift = {}
             /\ answer \in {"REPAIRED", "HEALTHY"} /\ sight => Heal!ProtectedDrift = {}
  <2> PICK answer \in {"BLOCKED", "HELD", "REPAIRED", "HEALTHY"} :
             /\ Heal!Becomes(r, y(answer))
             /\ answer = "BLOCKED" => repair[r].snapshot = <<>>
             /\ answer # "BLOCKED" /\ sight => Heal!Drift = {}
             /\ answer \in {"REPAIRED", "HEALTHY"} /\ sight => Heal!ProtectedDrift = {}
    BY <1>4
  <2> DEFINE w == y(answer)
  <2>1. /\ w \in Repairing /\ w.pc = "reporting" /\ w.found = repair[r].found
        /\ w.snapshot = repair[r].snapshot /\ w.status = answer
        /\ w.seen = (repair[r].seen /\ sight) /\ w.unrestored = repair[r].unrestored
    BY <1>1 DEF Repairing, Heal!Steps
  <2>2. Heal!Becomes(r, w)
    OBVIOUS
  <2> HIDE DEF w, y
  <2>3. ASSUME Sound(repair[r], runtime, head) PROVE Sound(w, runtime, head)
    <3>1. /\ Underway(repair[r], runtime, head) /\ Copied(repair[r], runtime, head)
          /\ ~repair[r].unrestored
      BY <1>1, <2>3 DEF Sound
    <3>2. DriftOf(w, head) = DriftOf(repair[r], head)
      BY <2>1 DEF DriftOf
    <3>3. Underway(w, runtime, head)
      BY <2>1, <3>1, <3>2 DEF Underway, Snapped
    <3>4. answer # "BLOCKED" =>
            \/ \A f \in RuntimeFiles : runtime[f] = IF f \in Single THEN w.found[f] ELSE head
            \/ ~w.seen /\ runtime = w.found
      <4>1. CASE repair[r].snapshot # <<>>
        BY <2>1, <3>1, <4>1 DEF Underway, Copied, Snapped, DriftOf
      <4>2. CASE repair[r].snapshot = <<>> /\ repair[r].seen
        BY <2>1, <3>1, <4>2 DEF Underway, Copied, DriftOf
      <4>3. CASE repair[r].snapshot = <<>> /\ ~repair[r].seen
        BY <2>1, <3>1, <4>3 DEF Underway
      <4> QED BY <4>1, <4>2, <4>3
    <3>5. answer \in {"HEALTHY", "REPAIRED"} /\ w.seen => \A f \in RuntimeFiles : runtime[f] = head
      BY <2>1 DEF Heal!Drift, Heal!ProtectedDrift, Heal!Mutable, RuntimeFiles
    <3>6. answer = "BLOCKED" => runtime = w.found
      BY <2>1, <3>1 DEF Underway
    <3> QED BY <2>1, <3>1, <3>3, <3>4, <3>5, <3>6 DEF Sound, Outcome
  <2> QED BY <1>1, <1>2, <2>1, <2>2, <2>3, GoesOn
<1>5. CASE otherIssues \/ (IF sight THEN Heal!Drift ELSE {}) # {}
  BY <1>3, <1>4, <1>5 DEF Heal!Decide
<1>6. CASE /\ ~otherIssues /\ (IF sight THEN Heal!Drift ELSE {}) = {}
           /\ (IF sight THEN Heal!ProtectedDrift ELSE {}) # {}
  BY <1>4, <1>6 DEF Heal!Decide
<1>7. CASE /\ ~otherIssues /\ (IF sight THEN Heal!Drift ELSE {}) = {}
           /\ (IF sight THEN Heal!ProtectedDrift ELSE {}) = {}
  BY <1>4, <1>7 DEF Heal!Decide
<1> QED BY <1>5, <1>6, <1>7

(* A rollback puts every file back, or is to be tried again.               *)
LEMMA RollbackKeeps ==
  ASSUME HealInv, NEW r \in Actors, Heal!Rollback(r)
  PROVE  HealInv'
<1>1. repair[r].pc = "rollback" /\ repair[r] \in Repairing /\ Runs(r)
  BY HealRuns DEF HealInv, Heal!Rollback, Heal!At, Heal!Steps
<1>2. UNCHANGED <<head, disturbed>>
  BY DEF Heal!Rollback
<1>3. CASE Heal!RestoresSome(repair[r].snapshot) /\ Heal!Goes(r, "undo")
  <2> PICK w \in Repairing :
        /\ Heal!Becomes(r, w) /\ w.pc = "undo" /\ w.found = repair[r].found /\ w.todo = repair[r].todo
        /\ w.snapshot = repair[r].snapshot /\ w.status = repair[r].status
        /\ w.seen = repair[r].seen /\ w.unrestored = repair[r].unrestored
    BY <1>1, <1>3, GoesFields DEF Heal!Steps
  <2>1. /\ runtime' \in [RuntimeFiles -> Nat]
        /\ \A f \in RuntimeFiles \ DOMAIN repair[r].snapshot : runtime'[f] = runtime[f]
    BY <1>1, <1>3, RestoresSomeFiles
  <2>2. ASSUME Sound(repair[r], runtime, head) PROVE Sound(w, runtime', head)
    <3>1. Snapped(repair[r], runtime, head) /\ repair[r].snapshot # <<>> /\ ~repair[r].unrestored
      BY <1>1, <2>2 DEF Sound, Underway
    <3>2. DriftOf(w, head) = DriftOf(repair[r], head)
      BY DEF DriftOf
    <3>3. Snapped(w, runtime', head)
      BY <2>1, <3>1, <3>2 DEF Snapped
    <3> QED BY <3>1, <3>3 DEF Sound, Underway
  <2> QED BY <1>1, <1>2, <2>1, <2>2, GoesOn
<1> DEFINE y == [repair[r] EXCEPT !.pc = "reporting", !.status = "BLOCKED"]
<1>4. CASE runtime' = Heal!Restored(repair[r].snapshot) /\ Heal!Becomes(r, y)
  <2>1. /\ y \in Repairing /\ y.pc = "reporting" /\ y.found = repair[r].found
        /\ y.snapshot = repair[r].snapshot /\ y.status = "BLOCKED" /\ y.unrestored = repair[r].unrestored
    BY <1>1 DEF Repairing, Heal!Steps
  <2>2. Heal!Becomes(r, y) /\ runtime' \in [RuntimeFiles -> Nat]
    BY <1>1, <1>4, RestoredFilesOf
  <2> HIDE DEF y
  <2>3. ASSUME Sound(repair[r], runtime, head) PROVE Sound(y, runtime', head)
    <3>1. Snapped(repair[r], runtime, head) /\ repair[r].snapshot # <<>> /\ ~repair[r].unrestored
      BY <1>1, <2>3 DEF Sound, Underway
    <3>2. runtime' = repair[r].found
      BY <1>1, <1>4, <3>1, RestoresAsFound
    <3>3. Snapped(y, runtime', head)
      BY <2>1, <3>1, <3>2 DEF Snapped, DriftOf
    <3> QED BY <2>1, <3>1, <3>2, <3>3 DEF Sound, Underway, Outcome
  <2> QED BY <1>1, <1>2, <2>1, <2>2, <2>3, GoesOn
<1> QED BY <1>3, <1>4 DEF Heal!Rollback

(* An undo puts every file back, or is told of by the history.             *)
LEMMA UndoKeeps ==
  ASSUME HealInv, NEW r \in Actors, Heal!Undo(r)
  PROVE  HealInv'
<1>1. repair[r].pc = "undo" /\ repair[r] \in Repairing /\ Runs(r)
  BY HealRuns DEF HealInv, Heal!Undo, Heal!At, Heal!Steps
<1>2. UNCHANGED <<head, disturbed>>
  BY DEF Heal!Undo
<1> DEFINE y == [repair[r] EXCEPT !.pc = "answered", !.status = "BLOCKED", !.unrestored = TRUE]
<1>3. CASE Heal!RestoresSome(repair[r].snapshot) /\ Heal!Becomes(r, y)
  <2>1. /\ y \in Repairing /\ y.pc = "answered" /\ y.found = repair[r].found
        /\ y.snapshot = repair[r].snapshot /\ y.status = "BLOCKED" /\ y.unrestored
    BY <1>1 DEF Repairing, Heal!Steps
  <2>2. Heal!Becomes(r, y)
    BY <1>3
  <2> HIDE DEF y
  <2>3. /\ runtime' \in [RuntimeFiles -> Nat]
        /\ \A f \in RuntimeFiles \ DOMAIN repair[r].snapshot : runtime'[f] = runtime[f]
    BY <1>1, <1>3, RestoresSomeFiles
  <2>4. ASSUME Sound(repair[r], runtime, head) PROVE Sound(y, runtime', head)
    <3>1. Snapped(repair[r], runtime, head)
      BY <1>1, <2>4 DEF Sound, Underway
    <3>2. \A f \in RuntimeFiles \ DOMAIN y.snapshot : runtime'[f] = y.found[f]
      BY <2>1, <2>3, <3>1 DEF Snapped
    <3> QED BY <2>1, <3>2 DEF Sound
  <2> QED BY <1>1, <1>2, <2>1, <2>2, <2>3, <2>4, GoesOn
<1>4. CASE runtime' = Heal!Restored(repair[r].snapshot) /\ Heal!Answers(r, "BLOCKED")
  <2> PICK w \in Repairing :
        /\ Heal!Becomes(r, w) /\ w.pc = "answered" /\ w.found = repair[r].found
        /\ w.snapshot = repair[r].snapshot /\ w.status = "BLOCKED"
        /\ w.seen = repair[r].seen /\ w.unrestored = repair[r].unrestored
    BY <1>1, <1>4, AnswersFields
  <2>1. runtime' \in [RuntimeFiles -> Nat]
    BY <1>1, <1>4, RestoredFilesOf
  <2>2. ASSUME Sound(repair[r], runtime, head) PROVE Sound(w, runtime', head)
    <3>1. Snapped(repair[r], runtime, head) /\ ~repair[r].unrestored
      BY <1>1, <2>2 DEF Sound, Underway
    <3>2. runtime' = repair[r].found
      BY <1>1, <1>4, <3>1, RestoresAsFound
    <3> QED BY <3>1, <3>2 DEF Sound, Outcome
  <2> QED BY <1>1, <1>2, <2>1, <2>2, GoesOn
<1> QED BY <1>3, <1>4 DEF Heal!Undo

LEMMA ReportKeeps ==
  ASSUME HealInv, NEW r \in Actors, Heal!Report(r)
  PROVE  HealInv'
<1>1. repair[r].pc = "reporting" /\ repair[r] \in Repairing /\ Runs(r)
  BY HealRuns DEF HealInv, Heal!Report, Heal!At, Heal!Steps
<1>2. UNCHANGED <<head, runtime, disturbed>> /\ runtime \in [RuntimeFiles -> Nat]
  BY DEF Heal!Report, HealInv, HealTyped
<1>3. CASE \E pc \in {"answered", "undo"} :
             Heal!Goes(r, pc) /\ (pc = "undo" => repair[r].snapshot # <<>>)
  <2> PICK pc \in {"answered", "undo"} : Heal!Goes(r, pc) /\ (pc = "undo" => repair[r].snapshot # <<>>)
    BY <1>3
  <2> PICK w \in Repairing :
        /\ Heal!Becomes(r, w) /\ w.pc = pc /\ w.found = repair[r].found /\ w.todo = repair[r].todo
        /\ w.snapshot = repair[r].snapshot /\ w.status = repair[r].status
        /\ w.seen = repair[r].seen /\ w.unrestored = repair[r].unrestored
    BY <1>1, GoesFields DEF Heal!Steps
  <2>1. Sound(repair[r], runtime, head) => Sound(w, runtime, head)
    BY <1>1 DEF Sound, Underway, Snapped, DriftOf, Outcome
  <2> QED BY <1>1, <1>2, <2>1, GoesOn
<1>4. CASE repair[r].snapshot = <<>> /\ Heal!Answers(r, "BLOCKED")
  <2> PICK w \in Repairing :
        /\ Heal!Becomes(r, w) /\ w.pc = "answered" /\ w.found = repair[r].found
        /\ w.snapshot = repair[r].snapshot /\ w.status = "BLOCKED"
        /\ w.seen = repair[r].seen /\ w.unrestored = repair[r].unrestored
    BY <1>1, <1>4, AnswersFields
  <2>1. Sound(repair[r], runtime, head) => Sound(w, runtime, head)
    BY <1>1, <1>4 DEF Sound, Underway, Outcome
  <2> QED BY <1>1, <1>2, <2>1, GoesOn
<1> QED BY <1>3, <1>4 DEF Heal!Report

LEMMA RepairEnds ==
  ASSUME HealInv, NEW r \in Actors, Heal!End(r) \/ Heal!Crash(r)
  PROVE  HealInv'
<1>1. UNCHANGED <<head, runtime, disturbed>> /\ Heal!Becomes(r, Heal!Idle)
  BY DEF Heal!End, Heal!Crash
<1>2. /\ repair' \in [Actors -> {Heal!Idle} \cup Repairing]
      /\ repair'[r] = Heal!Idle /\ \A q \in Actors \ {r} : repair'[q] = repair[q]
  BY <1>1, HealRow DEF HealInv
<1>3. HealTyped' /\ ~Runs(r)' /\ \A q \in Actors : Runs(q)' => Runs(q)
  BY <1>1, <1>2 DEF HealInv, HealTyped, Runs
<1>4. \A q \in Actors : Runs(q)' => repair'[q] = repair[q]
  BY <1>2, <1>3
<1> QED BY <1>1, <1>3, <1>4 DEF HealInv, UndisturbedIsAlone

(* A repair begins, alone or not.                                          *)
LEMMA DiagnoseKeeps ==
  ASSUME HealInv, NEW r \in Actors, NEW sight \in BOOLEAN, Heal!Diagnose(r, sight)
  PROVE  HealInv'
<1> DEFINE x == [pc |-> "diagnosed", found |-> runtime, snapshot |-> <<>>,
                 todo |-> IF sight THEN Heal!Drift ELSE {}, status |-> "none",
                 seen |-> sight, unrestored |-> FALSE]
<1>1. /\ Heal!Becomes(r, x) /\ ~Runs(r) /\ UNCHANGED <<head, runtime>>
      /\ disturbed' = IF \A q \in Actors : ~Runs(q) THEN disturbed \ {r}
                      ELSE disturbed \cup {q \in Actors : Runs(q)} \cup {r}
  <2>1. Heal!Running = {q \in Actors : Runs(q)}
    BY DEF Heal!Running, Runs
  <2>2. disturbed' = IF Heal!Running = {} THEN disturbed \ {r} ELSE disturbed \cup Heal!Running \cup {r}
    BY DEF Heal!Diagnose
  <2>3. Heal!Running = {} <=> \A q \in Actors : ~Runs(q)
    BY <2>1
  <2> QED BY <2>1, <2>2, <2>3 DEF Heal!Diagnose, Runs
<1>2. /\ x \in Repairing /\ x.pc = "diagnosed" /\ x.found = runtime /\ x.snapshot = <<>>
      /\ x.todo = IF sight THEN Heal!Drift ELSE {}
      /\ x.seen = sight /\ ~x.unrestored
  <2>1. Heal!Drift \subseteq RuntimeFiles
    BY DEF Heal!Drift, Heal!Mutable, RuntimeFiles
  <2>2. <<>> \in Snapshots /\ runtime \in [RuntimeFiles -> Nat]
    BY DEF Snapshots, HealInv, HealTyped
  <2> QED BY <2>1, <2>2 DEF Repairing, Heal!Steps
<1> HIDE DEF x
<1>3. /\ repair' \in [Actors -> {Heal!Idle} \cup Repairing]
      /\ repair'[r] = x /\ \A q \in Actors \ {r} : repair'[q] = repair[q]
  BY <1>1, <1>2, HealRow DEF HealInv
<1>4. HealTyped'
  BY <1>1, <1>3 DEF HealInv, HealTyped
<1>5. Sound(x, runtime, head)
  <2>1. DriftOf(x, head) = Heal!Drift
    BY <1>2 DEF DriftOf, Heal!Drift, Heal!Mutable, RuntimeFiles
  <2> QED BY <1>2, <2>1 DEF Sound, Begun
<1>6. \A q \in Actors \ {r} : Runs(q)' <=> Runs(q)
  BY <1>3 DEF Runs
<1>7. UndisturbedIsAlone'
  <2> SUFFICES ASSUME NEW q \in Actors, q \notin disturbed', Runs(q)'
               PROVE  Sound(repair'[q], runtime', head') /\ \A p \in Actors : Runs(p)' => p = q
    BY DEF UndisturbedIsAlone
  <2>1. CASE \A p \in Actors : ~Runs(p)
    BY <1>1, <1>3, <1>5, <1>6, <2>1
  <2>2. CASE ~\A p \in Actors : ~Runs(p)
    BY <1>1, <1>6, <2>2
  <2> QED BY <2>1, <2>2
<1> QED BY <1>4, <1>7 DEF HealInv

LEMMA HealStep ==
  ASSUME HealInv, Heal!Next
  PROVE  HealInv'
<1>1. CASE Heal!Deploy \/ \E f \in RuntimeFiles, version \in {Heal!Absent, Heal!Edited} : Heal!Edit(f, version)
  <2>1. /\ repair' = repair /\ disturbed' = disturbed \cup {r \in Actors : Runs(r)}
        /\ head' \in Nat /\ runtime' \in [RuntimeFiles -> Nat]
    <3>1. CASE Heal!Deploy
      BY <3>1 DEF Heal!Deploy, Heal!Running, Runs, HealInv, HealTyped, RuntimeFiles
    <3>2. CASE \E f \in RuntimeFiles, version \in {Heal!Absent, Heal!Edited} : Heal!Edit(f, version)
      BY <3>2 DEF Heal!Edit, Heal!Running, Runs, HealInv, HealTyped, Heal!Absent, Heal!Edited
    <3> QED BY <1>1, <3>1, <3>2
  <2> QED BY <2>1 DEF HealInv, HealTyped, UndisturbedIsAlone, Runs
<1> QED BY <1>1, DiagnoseKeeps, SnapshotKeeps, CopyFileKeeps, CopiedKeeps, RaiseKeeps, DecideKeeps,
      RollbackKeeps, UndoKeeps, ReportKeeps, RepairEnds
    DEF Heal!Next, RuntimeFiles

LEMMA HealInvariance == Behaviour => [](Is("heal") => HealInv)
<1>1. SumInit => (Is("heal") => HealInv)
  <2>1. Heal!Init => HealInv
    BY DEF Heal!Init, HealInv, HealTyped, UndisturbedIsAlone, Runs, RuntimeFiles
  <2> QED BY <2>1 DEF SumInit
<1>2. (Is("heal") => HealInv) /\ [SumNext]_all => (Is("heal") => HealInv)'
  <2> SUFFICES ASSUME Is("heal") => HealInv, [SumNext]_all, Is("heal")'
               PROVE  HealInv'
    OBVIOUS
  <2>1. HealInv /\ (Heal!Next \/ UNCHANGED healVars)
    BY OneRuns DEF Is
  <2>2. CASE UNCHANGED healVars
    BY <2>1, <2>2 DEF healVars, HealInv, HealTyped, UndisturbedIsAlone, Runs
  <2> QED BY <2>1, <2>2, HealStep
<1> QED BY <1>1, <1>2, PTL DEF Behaviour

(* A repair that was alone with the runtime is all or nothing, for any      *)
(* files, protected or not, and any number of repairs and edits.           *)
THEOREM AllOrNothing == Behaviour => []RepairIsAllOrNothing
<1>1. (Is("heal") => HealInv) => RepairIsAllOrNothing
  <2> SUFFICES ASSUME HealInv, NEW r \in Actors, r \notin disturbed, repair[r].pc = "answered"
               PROVE  /\ repair[r].status = "BLOCKED" =>
                           IF repair[r].unrestored
                           THEN \A f \in RuntimeFiles \ DOMAIN repair[r].snapshot :
                                  runtime[f] = repair[r].found[f]
                           ELSE Heal!AsFound(r)
                      /\ repair[r].status # "BLOCKED" =>
                           Heal!AsRepository(r) \/ (~repair[r].seen /\ Heal!AsFound(r))
                      /\ repair[r].status \in {"HEALTHY", "REPAIRED"} /\ repair[r].seen =>
                           \A f \in RuntimeFiles : runtime[f] = head
    BY DEF RepairIsAllOrNothing, Heal!RepairIsAllOrNothing, Heal!At, RuntimeFiles
  <2>1. Sound(repair[r], runtime, head)
    BY HealRuns DEF HealInv, UndisturbedIsAlone, Heal!Steps
  <2> QED BY <2>1 DEF Sound, Outcome, Heal!AsFound, Heal!AsRepository, RuntimeFiles
<1> QED BY <1>1, HealInvariance, PTL
-----------------------------------------------------------------------------
(* The vault of credentials.                                               *)
Credentials ==
  [app : BOOLEAN, pending : SUBSET Single, bound : SUBSET Single, used : Vault!Nonces]
Editing == [op : {"editing"}, change : Vault!Change, copy : Credentials]
Consuming == [pc : {"marking", "exchanging", "offering"}, state : Items]

VaultTyped ==
  /\ vault \in Credentials
  /\ issued \in [Items -> {"unissued", "live", "expired"}]
  /\ vaultRequest \in [Actors -> {Vault!Quiet} \cup Consuming]
  /\ writer \in [Vault!Processes -> {Vault!Idle} \cup Editing]
  /\ passed \in [Items -> 0..2]
  /\ vaultOverlaps \in Nat

Edits(p) == writer[p] \in Editing

(* The tool configures the app and nothing else does; what the service      *)
(* writes for a callback, that callback is waiting for.                    *)
WritesWhatIsAsked ==
  \A p \in Vault!Processes : Edits(p) =>
    LET change == writer[p].change
    IN /\ change.op = "app" <=> p = "tool"
       /\ change.op = "mark" => vaultRequest[change.request].pc = "marking"
                                /\ vaultRequest[change.request].state = change.state
       /\ change.op = "offer" => vaultRequest[change.request].pc = "offering"

(* Without an overlap one process at most is changing the vault, and what   *)
(* it loaded is what is there.                                             *)
CopiesAreFresh ==
  vaultOverlaps = 0 =>
    \A p \in Vault!Processes : Edits(p) =>
      writer[p].copy = vault /\ \A q \in Vault!Processes : Edits(q) => q = p

Checked(r, s) == vaultRequest[r].pc = "marking" /\ vaultRequest[r].state = s

(* A state that was consumed is marked as long as it is live, and who has   *)
(* checked a state is the only one and before its mark.                    *)
ConsumedIsMarked ==
  vaultOverlaps = 0 =>
    \A s \in Items \ (vaultRaced \cup vaultForgotten) :
      /\ passed[s] <= 1
      /\ passed[s] = 1 => issued[s] = "expired" \/ (issued[s] = "live" /\ s \in Vault!Range(vault.used))
      /\ \A r \in Actors : Checked(r, s) =>
           passed[s] = 0 /\ issued[s] # "unissued" /\ \A q \in Actors : Checked(q, s) => q = r

VaultInv ==
  VaultTyped /\ WritesWhatIsAsked /\ CopiesAreFresh /\ ConsumedIsMarked /\ Vault!AnswersAreKept

(* A nonce that is marked is among the nonces kept.                         *)
LEMMA MarkedIsKept ==
  ASSUME NEW n \in Vault!Nonces, NEW s \in Items
  PROVE  Vault!Marked(n, s) \in Vault!Nonces /\ s \in Vault!Range(Vault!Marked(n, s))
<1>1. Window \in Nat \ {0}
  BY WindowAssumption
<1>2. n \in Seq(Items) /\ Len(n) <= Window
  BY <1>1 DEF Vault!Nonces
<1>3. \A m \in Seq(Items) : Len(m) <= Window => m \in Vault!Nonces
  BY <1>1 DEF Vault!Nonces
<1>4. CASE s \in Vault!Range(n)
  <2>1. Vault!Marked(n, s) = n
    BY <1>1, <1>2, <1>4 DEF Vault!Marked
  <2> QED BY <1>4, <2>1
<1>5. CASE s \notin Vault!Range(n)
  <2> DEFINE m == Append(n, s)
  <2>1. m \in Seq(Items) /\ Len(m) = Len(n) + 1 /\ m[Len(m)] = s
    BY <1>2
  <2>2. Vault!Marked(n, s) = IF Len(m) > Window THEN Tail(m) ELSE m
    BY <1>5 DEF Vault!Marked
  <2> HIDE DEF m
  <2>3. CASE Len(m) > Window
    <3> DEFINE t == Tail(m)
    <3>1. t \in Seq(Items) /\ Len(t) = Len(m) - 1
      BY <1>1, <1>2, <2>1, <2>3
    <3>2. Len(t) \in 1..Len(t) /\ t[Len(t)] = m[Len(t) + 1]
      BY <1>1, <1>2, <2>1, <2>3
    <3>3. t[Len(t)] = s /\ Len(t) <= Window
      BY <1>1, <1>2, <2>1, <2>3, <3>1, <3>2
    <3> HIDE DEF t
    <3>4. s \in Vault!Range(t)
      BY <3>1, <3>2, <3>3 DEF Vault!Range
    <3> QED BY <1>3, <2>2, <2>3, <3>1, <3>3, <3>4 DEF t
  <2>4. CASE ~(Len(m) > Window)
    <3>1. Len(m) \in 1..Len(m) /\ Len(m) <= Window
      BY <1>1, <1>2, <2>1, <2>4
    <3>2. s \in Vault!Range(m)
      BY <2>1, <3>1 DEF Vault!Range
    <3> QED BY <1>3, <2>1, <2>2, <2>4, <3>1, <3>2
  <2> QED BY <2>3, <2>4
<1> QED BY <1>4, <1>5

LEMMA RequestStep ==
  ASSUME VaultTyped, NEW r \in Actors, NEW x \in {Vault!Quiet} \cup Consuming,
         vaultRequest' = [vaultRequest EXCEPT ![r] = x]
  PROVE  /\ vaultRequest' \in [Actors -> {Vault!Quiet} \cup Consuming]
         /\ vaultRequest'[r] = x /\ \A q \in Actors \ {r} : vaultRequest'[q] = vaultRequest[q]
BY DEF VaultTyped

LEMMA WriterStep ==
  ASSUME VaultTyped, NEW p \in Vault!Processes, NEW x \in {Vault!Idle} \cup Editing,
         writer' = [writer EXCEPT ![p] = x]
  PROVE  /\ writer' \in [Vault!Processes -> {Vault!Idle} \cup Editing]
         /\ writer'[p] = x /\ \A q \in Vault!Processes \ {p} : writer'[q] = writer[q]
BY DEF VaultTyped

LEMMA WriterRow ==
  ASSUME VaultTyped, NEW p \in Vault!Processes
  PROVE  /\ Edits(p) <=> ~Vault!Unlocked(p)
         /\ Edits(p) => writer[p].change \in Vault!Change /\ writer[p].copy \in Credentials
<1>1. Vault!Idle \notin Editing
  BY DEF Vault!Idle, Editing
<1> QED BY <1>1 DEF VaultTyped, Edits, Vault!Unlocked, Editing

LEMMA RequestRow ==
  ASSUME VaultTyped, NEW r \in Actors
  PROVE  /\ vaultRequest[r].pc # "quiet" => vaultRequest[r] \in Consuming
         /\ vaultRequest[r] = Vault!Quiet => vaultRequest[r].pc = "quiet"
BY DEF VaultTyped, Consuming, Vault!Quiet

(* A change that is loaded is one the callback, or the tool, asks for.      *)
LEMMA LoadKeepsVault ==
  ASSUME VaultInv, NEW p \in Vault!Processes, NEW change \in Vault!Change,
         Vault!Load(p, change), UNCHANGED vaultRequest,
         change.op = "app" <=> p = "tool",
         change.op = "mark" => vaultRequest[change.request].pc = "marking"
                               /\ vaultRequest[change.request].state = change.state,
         change.op = "offer" => vaultRequest[change.request].pc = "offering"
  PROVE  VaultInv'
<1> DEFINE x == [op |-> "editing", change |-> change, copy |-> vault]
<1>1. VaultTyped
  BY DEF VaultInv
<1>2. x \in Editing /\ x.change = change /\ x.copy = vault
  BY <1>1 DEF Editing, VaultTyped
<1>3. /\ ~Edits(p) /\ writer' = [writer EXCEPT ![p] = x]
      /\ UNCHANGED <<vault, issued, passed, vaultRaced, vaultForgotten, answered>>
  BY <1>1, WriterRow DEF Vault!Load, Vault!history
<1>4. /\ vaultOverlaps' \in Nat
      /\ vaultOverlaps' = 0 => vaultOverlaps = 0 /\ \A q \in Vault!Processes : ~Edits(q)
  BY <1>1, <1>3, WriterRow DEF Vault!Load, VaultTyped
<1> HIDE DEF x
<1>5. /\ writer' \in [Vault!Processes -> {Vault!Idle} \cup Editing]
      /\ writer'[p] = x /\ \A q \in Vault!Processes \ {p} : writer'[q] = writer[q]
  BY <1>1, <1>2, <1>3, WriterStep
<1>6. VaultTyped'
  BY <1>1, <1>3, <1>4, <1>5 DEF VaultTyped
<1>7. WritesWhatIsAsked'
  BY <1>2, <1>5 DEF VaultInv, WritesWhatIsAsked, Edits
<1>8. CopiesAreFresh'
  BY <1>2, <1>3, <1>4, <1>5 DEF CopiesAreFresh, Edits
<1>9. ConsumedIsMarked' /\ Vault!AnswersAreKept'
  BY <1>3, <1>4 DEF VaultInv, ConsumedIsMarked, Checked, Vault!AnswersAreKept
<1> QED BY <1>6, <1>7, <1>8, <1>9 DEF VaultInv

LEMMA ChangeRow ==
  ASSUME NEW change \in Vault!Change
  PROVE  /\ change.op \in {"app", "mark", "offer", "bind"}
         /\ change.op = "mark" => change.request \in Actors /\ change.state \in Items
         /\ change.op = "offer" => change.request \in Actors /\ change.pages \subseteq Single
         /\ change.op = "bind" => change.page \in Single
BY DEF Vault!Change

(* What a change makes of the copy it is applied to: the pages bound and    *)
(* the app stay, and all that is used but for the nonces a mark drops.     *)
LEMMA AppliedKeeps ==
  ASSUME NEW copy \in Credentials, NEW change \in Vault!Change, NEW later,
         later = Vault!Applied(copy, change)
  PROVE  /\ later \in Credentials
         /\ copy.bound \subseteq later.bound
         /\ change.op = "bind" => change.page \in later.bound
         /\ later.app <=> (copy.app \/ change.op = "app")
         /\ change.op # "mark" => later.used = copy.used
         /\ change.op = "mark" => change.state \in Vault!Range(later.used)
<1>1. CASE change.op = "app"
  <2>1. later = [copy EXCEPT !.app = TRUE]
    BY <1>1 DEF Vault!Applied
  <2> QED BY <1>1, <2>1 DEF Credentials
<1>2. CASE change.op = "mark"
  <2> DEFINE nonces == Vault!Marked(copy.used, change.state)
  <2>1. later = [copy EXCEPT !.used = nonces]
    BY <1>2 DEF Vault!Applied
  <2>2. nonces \in Vault!Nonces /\ change.state \in Vault!Range(nonces)
    BY <1>2, ChangeRow, MarkedIsKept DEF Credentials
  <2> HIDE DEF nonces
  <2>3. later \in Credentials /\ later.used = nonces /\ later.bound = copy.bound /\ later.app = copy.app
    BY <2>1, <2>2 DEF Credentials
  <2> QED BY <1>2, <2>2, <2>3
<1>3. CASE change.op = "offer"
  <2>1. later = [copy EXCEPT !.pending = change.pages]
    BY <1>3 DEF Vault!Applied
  <2> QED BY <1>3, <2>1, ChangeRow DEF Credentials
<1>4. CASE change.op = "bind"
  <2> DEFINE pages == copy.bound \cup {change.page}
  <2>1. later = [copy EXCEPT !.bound = pages, !.pending = {}]
    BY <1>4 DEF Vault!Applied
  <2>2. pages \in SUBSET Single /\ copy.bound \subseteq pages /\ change.page \in pages
    BY <1>4, ChangeRow DEF Credentials
  <2> HIDE DEF pages
  <2>3. /\ later \in Credentials /\ later.bound = pages
        /\ later.app = copy.app /\ later.used = copy.used
    BY <2>1, <2>2 DEF Credentials
  <2> QED BY <1>4, <2>2, <2>3
<1> QED BY <1>1, <1>2, <1>3, <1>4, ChangeRow

(* A change is written over what it was made from, ...                      *)
LEMMA SaveKeepsVault ==
  ASSUME VaultInv, NEW p \in Vault!Processes, Vault!Save(p)
  PROVE  VaultInv'
<1> DEFINE change == writer[p].change
           copy == writer[p].copy
<1>1. VaultTyped
  BY DEF VaultInv
<1>2. /\ Edits(p) /\ change \in Vault!Change /\ copy \in Credentials
      /\ writer' = [writer EXCEPT ![p] = Vault!Idle]
      /\ UNCHANGED <<issued, vaultRaced, vaultOverlaps>>
  BY <1>1, WriterRow DEF Vault!Save
<1>3. /\ vault' = Vault!Applied(copy, change)
      /\ vaultRequest' = CASE change.op = "mark" ->
                                [vaultRequest EXCEPT ![change.request].pc = "exchanging"]
                           [] change.op = "offer" -> [vaultRequest EXCEPT ![change.request] = Vault!Quiet]
                           [] OTHER -> vaultRequest
      /\ passed' = IF change.op = "mark" /\ passed[change.state] < 2
                   THEN [passed EXCEPT ![change.state] = @ + 1] ELSE passed
      /\ vaultForgotten' =
           IF change.op = "mark"
           THEN vaultForgotten \cup
                  {s \in Vault!Range(vault.used) \ Vault!Range(Vault!Applied(copy, change).used) :
                     issued[s] = "live"}
           ELSE vaultForgotten
      /\ answered' = IF change.op = "bind" THEN answered \cup {change.page} ELSE answered
  BY DEF Vault!Save
<1>4. /\ change.op = "mark" => vaultRequest[change.request].pc = "marking"
                               /\ vaultRequest[change.request].state = change.state
      /\ change.op = "offer" => vaultRequest[change.request].pc = "offering"
      /\ change.op = "app" <=> p = "tool"
  BY <1>2 DEF VaultInv, WritesWhatIsAsked
<1>5. vaultOverlaps = 0 => copy = vault /\ \A q \in Vault!Processes : Edits(q) => q = p
  BY <1>2 DEF VaultInv, CopiesAreFresh
<1> HIDE DEF change, copy
<1>6. /\ writer' \in [Vault!Processes -> {Vault!Idle} \cup Editing]
      /\ writer'[p] = Vault!Idle /\ \A q \in Vault!Processes \ {p} : writer'[q] = writer[q]
  BY <1>1, <1>2, WriterStep
<1>7. ~Edits(p)' /\ \A q \in Vault!Processes \ {p} : Edits(q)' => Edits(q)
  <2>1. Vault!Idle \notin Editing
    BY DEF Vault!Idle, Editing
  <2> QED BY <1>6, <2>1 DEF Edits
<1>8. /\ vault' \in Credentials
      /\ copy.bound \subseteq vault'.bound
      /\ change.op = "bind" => change.page \in vault'.bound
      /\ vault'.app <=> (copy.app \/ change.op = "app")
      /\ change.op # "mark" => vault'.used = copy.used
      /\ change.op = "mark" => change.state \in Vault!Range(vault'.used)
  BY <1>2, <1>3, AppliedKeeps
<1>9. /\ vaultRequest' \in [Actors -> {Vault!Quiet} \cup Consuming]
      /\ \A r \in Actors : vaultRequest'[r] # vaultRequest[r] =>
           /\ change.op = "mark" \/ change.op = "offer"
           /\ r = change.request
      /\ change.op = "mark" => vaultRequest'[change.request].pc = "exchanging"
      /\ change.op = "offer" => vaultRequest'[change.request].pc = "quiet"
  <2>1. CASE change.op = "mark"
    <3> DEFINE r == change.request
               x == [vaultRequest[r] EXCEPT !.pc = "exchanging"]
    <3>1. r \in Actors /\ vaultRequest[r] \in Consuming
      BY <1>1, <1>2, <1>4, <2>1, ChangeRow, RequestRow
    <3>2. x \in Consuming /\ x.pc = "exchanging" /\ vaultRequest' = [vaultRequest EXCEPT ![r] = x]
      BY <1>3, <2>1, <3>1 DEF Consuming
    <3> HIDE DEF x
    <3>3. /\ vaultRequest' \in [Actors -> {Vault!Quiet} \cup Consuming]
          /\ vaultRequest'[r] = x /\ \A q \in Actors \ {r} : vaultRequest'[q] = vaultRequest[q]
      BY <1>1, <3>1, <3>2, RequestStep
    <3> QED BY <2>1, <3>1, <3>2, <3>3
  <2>2. CASE change.op = "offer"
    <3>1. change.request \in Actors /\ vaultRequest' = [vaultRequest EXCEPT ![change.request] = Vault!Quiet]
      BY <1>2, <1>3, <2>2, ChangeRow
    <3>2. /\ vaultRequest' \in [Actors -> {Vault!Quiet} \cup Consuming]
          /\ vaultRequest'[change.request] = Vault!Quiet
          /\ \A q \in Actors \ {change.request} : vaultRequest'[q] = vaultRequest[q]
      BY <1>1, <3>1, RequestStep
    <3> QED BY <2>2, <3>1, <3>2 DEF Vault!Quiet
  <2>3. CASE change.op \notin {"mark", "offer"}
    BY <1>1, <1>3, <2>3 DEF VaultTyped
  <2> QED BY <2>1, <2>2, <2>3
<1>10. /\ passed' \in [Items -> 0..2]
       /\ \A s \in Items : s # change.state => passed'[s] = passed[s]
       /\ change.op = "mark" =>
            change.state \in Items /\ (passed[change.state] = 0 => passed'[change.state] = 1)
       /\ change.op # "mark" => passed' = passed
  <2>1. CASE change.op = "mark" /\ passed[change.state] < 2
    BY <1>1, <1>2, <1>3, <2>1, ChangeRow DEF VaultTyped
  <2>2. CASE ~(change.op = "mark" /\ passed[change.state] < 2)
    BY <1>1, <1>2, <1>3, <2>2, ChangeRow DEF VaultTyped
  <2> QED BY <2>1, <2>2
<1>11. VaultTyped'
  BY <1>1, <1>2, <1>6, <1>8, <1>9, <1>10 DEF VaultTyped
<1>12. WritesWhatIsAsked'
  <2> SUFFICES ASSUME NEW q \in Vault!Processes, Edits(q)'
               PROVE  LET ask == writer[q].change
                      IN /\ ask.op = "app" <=> q = "tool"
                         /\ ask.op = "mark" => vaultRequest'[ask.request].pc = "marking"
                                               /\ vaultRequest'[ask.request].state = ask.state
                         /\ ask.op = "offer" => vaultRequest'[ask.request].pc = "offering"
    BY <1>6, <1>7 DEF WritesWhatIsAsked, Edits
  <2>1. Edits(q) /\ q # p
    BY <1>7
  <2>2. writer[q].change.op = "app" <=> q = "tool"
    BY <2>1 DEF VaultInv, WritesWhatIsAsked
  <2>3. CASE q = "tool"
    BY <2>2, <2>3
  <2>4. CASE q # "tool"
    <3>1. p = "tool" /\ change.op = "app"
      BY <1>4, <2>1, <2>4 DEF Vault!Processes
    <3>2. vaultRequest' = vaultRequest
      BY <1>3, <3>1
    <3> QED BY <2>1, <3>2 DEF VaultInv, WritesWhatIsAsked
  <2> QED BY <2>3, <2>4
<1>13. CopiesAreFresh'
  BY <1>2, <1>5, <1>7 DEF CopiesAreFresh
<1>14. ConsumedIsMarked'
  <2> SUFFICES ASSUME vaultOverlaps = 0, NEW s \in Items \ (vaultRaced \cup vaultForgotten')
               PROVE  /\ passed'[s] <= 1
                      /\ passed'[s] = 1 => issued[s] = "expired"
                                           \/ (issued[s] = "live" /\ s \in Vault!Range(vault'.used))
                      /\ \A r \in Actors : Checked(r, s)' =>
                           /\ passed'[s] = 0 /\ issued[s] # "unissued"
                           /\ \A q \in Actors : Checked(q, s)' => q = r
    BY <1>2 DEF ConsumedIsMarked
  <2>1. /\ s \notin vaultForgotten
        /\ change.op = "mark" /\ s \in Vault!Range(vault.used) /\ issued[s] = "live"
             => s \in Vault!Range(vault'.used)
    BY <1>3
  <2>2. /\ passed[s] <= 1
        /\ passed[s] = 1 => issued[s] = "expired" \/ (issued[s] = "live" /\ s \in Vault!Range(vault.used))
        /\ \A r \in Actors : Checked(r, s) =>
             passed[s] = 0 /\ issued[s] # "unissued" /\ \A q \in Actors : Checked(q, s) => q = r
    BY <2>1 DEF VaultInv, ConsumedIsMarked
  <2>3. \A r \in Actors : Checked(r, s)' => Checked(r, s) /\ ~(change.op = "mark" /\ r = change.request)
    BY <1>9 DEF Checked
  <2>4. CASE change.op # "mark"
    <3>1. passed' = passed /\ vault'.used = vault.used
      BY <1>5, <1>8, <1>10, <2>4
    <3> QED BY <2>2, <2>3, <3>1
  <2>5. CASE change.op = "mark" /\ s = change.state
    <3>1. change.request \in Actors /\ Checked(change.request, s)
      BY <1>2, <1>4, <2>5, ChangeRow DEF Checked
    <3>2. passed'[s] = 1 /\ s \in Vault!Range(vault'.used) /\ issued[s] \in {"live", "expired"}
      BY <1>1, <1>8, <1>10, <2>2, <2>5, <3>1 DEF VaultTyped
    <3>3. \A r \in Actors : ~Checked(r, s)'
      BY <2>2, <2>3, <2>5, <3>1
    <3> QED BY <3>2, <3>3
  <2>6. CASE change.op = "mark" /\ s # change.state
    <3>1. passed'[s] = passed[s]
      BY <1>10, <2>6
    <3>2. passed'[s] = 1 => issued[s] = "expired" \/ (issued[s] = "live" /\ s \in Vault!Range(vault'.used))
      BY <2>1, <2>2, <2>6, <3>1
    <3>3. \A r \in Actors : Checked(r, s)' => Checked(r, s)
      BY <2>3
    <3> QED BY <2>2, <3>1, <3>2, <3>3
  <2> QED BY <2>4, <2>5, <2>6
<1>15. Vault!AnswersAreKept'
  <2> SUFFICES ASSUME vaultOverlaps = 0
               PROVE  /\ answered' \subseteq vault'.bound
                      /\ vault'.app \/ \A s \in Items : issued[s] = "unissued"
    BY <1>2 DEF Vault!AnswersAreKept
  <2>1. answered \subseteq vault.bound /\ (vault.app \/ \A s \in Items : issued[s] = "unissued")
    BY DEF VaultInv, Vault!AnswersAreKept
  <2> QED BY <1>3, <1>5, <1>8, <2>1
<1> QED BY <1>11, <1>12, <1>13, <1>14, <1>15 DEF VaultInv

(* ... or not at all, ...                                                   *)
LEMMA SaveFailsKeepsVault ==
  ASSUME VaultInv, NEW p \in Vault!Processes, Vault!SaveFails(p)
  PROVE  VaultInv'
<1> DEFINE change == writer[p].change
<1>1. VaultTyped
  BY DEF VaultInv
<1>2. /\ Edits(p) /\ change \in Vault!Change
      /\ writer' = [writer EXCEPT ![p] = Vault!Idle]
      /\ vaultRequest' = IF change.op \in {"mark", "offer"}
                         THEN [vaultRequest EXCEPT ![change.request] = Vault!Quiet] ELSE vaultRequest
      /\ UNCHANGED <<vault, issued, passed, vaultRaced, vaultForgotten, answered, vaultOverlaps>>
  BY <1>1, WriterRow DEF Vault!SaveFails, Vault!history
<1>3. change.op = "app" <=> p = "tool"
  BY <1>2 DEF VaultInv, WritesWhatIsAsked
<1> HIDE DEF change
<1>4. /\ writer' \in [Vault!Processes -> {Vault!Idle} \cup Editing]
      /\ writer'[p] = Vault!Idle /\ \A q \in Vault!Processes \ {p} : writer'[q] = writer[q]
  BY <1>1, <1>2, WriterStep
<1>5. ~Edits(p)' /\ \A q \in Vault!Processes \ {p} : Edits(q)' => Edits(q)
  <2>1. Vault!Idle \notin Editing
    BY DEF Vault!Idle, Editing
  <2> QED BY <1>4, <2>1 DEF Edits
<1>6. /\ vaultRequest' \in [Actors -> {Vault!Quiet} \cup Consuming]
      /\ \A r \in Actors : vaultRequest'[r] = vaultRequest[r] \/ vaultRequest'[r].pc = "quiet"
  <2>1. CASE change.op \in {"mark", "offer"}
    <3>1. change.request \in Actors /\ vaultRequest' = [vaultRequest EXCEPT ![change.request] = Vault!Quiet]
      BY <1>2, <2>1, ChangeRow
    <3>2. /\ vaultRequest' \in [Actors -> {Vault!Quiet} \cup Consuming]
          /\ vaultRequest'[change.request] = Vault!Quiet
          /\ \A q \in Actors \ {change.request} : vaultRequest'[q] = vaultRequest[q]
      BY <1>1, <3>1, RequestStep
    <3> QED BY <3>1, <3>2 DEF Vault!Quiet
  <2>2. CASE change.op \notin {"mark", "offer"}
    BY <1>1, <1>2, <2>2 DEF VaultTyped
  <2> QED BY <2>1, <2>2
<1>7. VaultTyped'
  BY <1>1, <1>2, <1>4, <1>6 DEF VaultTyped
<1>8. WritesWhatIsAsked'
  <2> SUFFICES ASSUME NEW q \in Vault!Processes, Edits(q)'
               PROVE  LET ask == writer[q].change
                      IN /\ ask.op = "app" <=> q = "tool"
                         /\ ask.op = "mark" => vaultRequest'[ask.request].pc = "marking"
                                               /\ vaultRequest'[ask.request].state = ask.state
                         /\ ask.op = "offer" => vaultRequest'[ask.request].pc = "offering"
    BY <1>4, <1>5 DEF WritesWhatIsAsked, Edits
  <2>1. Edits(q) /\ q # p
    BY <1>5
  <2>2. writer[q].change.op = "app" <=> q = "tool"
    BY <2>1 DEF VaultInv, WritesWhatIsAsked
  <2>3. CASE q = "tool"
    BY <2>2, <2>3
  <2>4. CASE q # "tool"
    <3>1. p = "tool" /\ change.op = "app"
      BY <1>3, <2>1, <2>4 DEF Vault!Processes
    <3>2. vaultRequest' = vaultRequest
      BY <1>2, <3>1
    <3> QED BY <2>1, <3>2 DEF VaultInv, WritesWhatIsAsked
  <2> QED BY <2>3, <2>4
<1>9. CopiesAreFresh'
  BY <1>2, <1>4, <1>5 DEF VaultInv, CopiesAreFresh
<1>10. ConsumedIsMarked' /\ Vault!AnswersAreKept'
  BY <1>2, <1>6 DEF VaultInv, ConsumedIsMarked, Checked, Vault!AnswersAreKept
<1> QED BY <1>7, <1>8, <1>9, <1>10 DEF VaultInv

(* ... and a callback goes on while it is asking for no change.             *)
LEMMA RequestKeepsVault ==
  ASSUME VaultInv, NEW r \in Actors, vaultRequest[r].pc \in {"quiet", "exchanging"},
         NEW x \in {Vault!Quiet} \cup Consuming, x.pc # "marking",
         vaultRequest' = [vaultRequest EXCEPT ![r] = x],
         UNCHANGED <<vault, issued, writer, passed, vaultRaced, vaultForgotten, answered, vaultOverlaps>>
  PROVE  VaultInv'
<1>1. /\ vaultRequest' \in [Actors -> {Vault!Quiet} \cup Consuming]
      /\ vaultRequest'[r] = x /\ \A q \in Actors \ {r} : vaultRequest'[q] = vaultRequest[q]
  BY RequestStep DEF VaultInv
<1>2. VaultTyped'
  BY <1>1 DEF VaultInv, VaultTyped
<1>3. WritesWhatIsAsked'
  <2>1. \A p \in Vault!Processes : Edits(p) => writer[p].change \in Vault!Change
    BY WriterRow DEF VaultInv
  <2>2. \A p \in Vault!Processes : Edits(p) /\ writer[p].change.op \in {"mark", "offer"} =>
          writer[p].change.request \in Actors /\ writer[p].change.request # r
    BY <2>1, ChangeRow DEF VaultInv, WritesWhatIsAsked
  <2> QED BY <1>1, <2>2 DEF VaultInv, WritesWhatIsAsked, Edits
<1>4. CopiesAreFresh'
  BY DEF VaultInv, CopiesAreFresh, Edits
<1>5. ConsumedIsMarked' /\ Vault!AnswersAreKept'
  BY <1>1 DEF VaultInv, ConsumedIsMarked, Checked, Vault!AnswersAreKept
<1> QED BY <1>2, <1>3, <1>4, <1>5 DEF VaultInv

(* A state that is checked was not consumed, unless another checked it too. *)
LEMMA CheckKeepsVault ==
  ASSUME VaultInv, NEW r \in Actors, NEW s \in Items, Vault!Check(r, s)
  PROVE  VaultInv'
<1> DEFINE x == [pc |-> "marking", state |-> s]
<1>1. x \in Consuming /\ x.pc = "marking" /\ x.state = s
  BY DEF Consuming
<1>2. /\ vaultRequest[r] = Vault!Quiet /\ issued[s] = "live" /\ s \notin Vault!Range(vault.used)
      /\ vaultRequest' = [vaultRequest EXCEPT ![r] = x]
      /\ ~Edits("service")
      /\ UNCHANGED <<vault, issued, writer, passed, vaultForgotten, answered, vaultOverlaps>>
  BY WriterRow DEF Vault!Check, VaultInv, Vault!Processes
<1>3. /\ vaultRaced \subseteq vaultRaced'
      /\ s \in vaultRaced' \/ \A q \in Actors : ~Checked(q, s)
  BY DEF Vault!Check, Checked
<1> HIDE DEF x
<1>4. /\ vaultRequest' \in [Actors -> {Vault!Quiet} \cup Consuming]
      /\ vaultRequest'[r] = x /\ \A q \in Actors \ {r} : vaultRequest'[q] = vaultRequest[q]
  BY <1>1, <1>2, RequestStep DEF VaultInv
<1>5. VaultTyped'
  BY <1>2, <1>4 DEF VaultInv, VaultTyped
<1>6. WritesWhatIsAsked'
  <2>1. \A p \in Vault!Processes : Edits(p) => p = "tool" /\ writer[p].change.op = "app"
    BY <1>2 DEF VaultInv, WritesWhatIsAsked, Vault!Processes
  <2> QED BY <1>2, <2>1 DEF WritesWhatIsAsked, Edits
<1>7. CopiesAreFresh'
  BY <1>2 DEF VaultInv, CopiesAreFresh, Edits
<1>8. \A q \in Actors, t \in Items : Checked(q, t)' <=> IF q = r THEN t = s ELSE Checked(q, t)
  BY <1>1, <1>4 DEF Checked
<1>9. ConsumedIsMarked'
  <2> SUFFICES ASSUME vaultOverlaps = 0, NEW t \in Items \ (vaultRaced' \cup vaultForgotten)
               PROVE  /\ passed[t] <= 1
                      /\ passed[t] = 1 => issued[t] = "expired"
                                          \/ (issued[t] = "live" /\ t \in Vault!Range(vault.used))
                      /\ \A q \in Actors : Checked(q, t)' =>
                           /\ passed[t] = 0 /\ issued[t] # "unissued"
                           /\ \A o \in Actors : Checked(o, t)' => o = q
    BY <1>2 DEF ConsumedIsMarked
  <2>1. t \notin vaultRaced /\ passed[t] \in 0..2
    BY <1>3 DEF VaultInv, VaultTyped
  <2>2. /\ passed[t] <= 1
        /\ passed[t] = 1 => issued[t] = "expired" \/ (issued[t] = "live" /\ t \in Vault!Range(vault.used))
        /\ \A q \in Actors : Checked(q, t) =>
             passed[t] = 0 /\ issued[t] # "unissued" /\ \A o \in Actors : Checked(o, t) => o = q
    BY <2>1 DEF VaultInv, ConsumedIsMarked
  <2>3. CASE t = s
    <3>1. passed[t] = 0 /\ \A q \in Actors : ~Checked(q, t)
      BY <1>2, <1>3, <2>1, <2>2, <2>3
    <3> QED BY <1>2, <1>8, <2>3, <3>1
  <2>4. CASE t # s
    <3>1. \A q \in Actors : Checked(q, t)' => Checked(q, t)
      BY <1>8, <2>4
    <3> QED BY <2>2, <3>1
  <2> QED BY <2>3, <2>4
<1>10. Vault!AnswersAreKept'
  BY <1>2 DEF VaultInv, Vault!AnswersAreKept
<1> QED BY <1>5, <1>6, <1>7, <1>9, <1>10 DEF VaultInv

(* Only an app that is configured issues a state.                           *)
LEMMA IssuedKeepsVault ==
  ASSUME VaultInv, NEW s \in Items,
         \/ issued[s] = "unissued" /\ vault.app /\ issued' = [issued EXCEPT ![s] = "live"]
         \/ issued[s] = "live" /\ issued' = [issued EXCEPT ![s] = "expired"],
         UNCHANGED <<vault, vaultRequest, writer, passed, vaultRaced, vaultForgotten, answered,
                     vaultOverlaps>>
  PROVE  VaultInv'
<1>1. /\ issued' \in [Items -> {"unissued", "live", "expired"}]
      /\ \A t \in Items : t # s => issued'[t] = issued[t]
      /\ \/ issued[s] = "unissued" /\ vault.app /\ issued'[s] = "live"
         \/ issued[s] = "live" /\ issued'[s] = "expired"
  BY DEF VaultInv, VaultTyped
<1>2. VaultTyped'
  BY <1>1 DEF VaultInv, VaultTyped
<1>3. WritesWhatIsAsked' /\ CopiesAreFresh'
  BY DEF VaultInv, WritesWhatIsAsked, CopiesAreFresh, Edits
<1>4. ConsumedIsMarked'
  BY <1>1 DEF VaultInv, ConsumedIsMarked, Checked
<1>5. Vault!AnswersAreKept'
  <2>1. vault.app \/ \A t \in Items : issued[t] = "unissued" => issued'[t] = "unissued"
    BY <1>1
  <2>2. vaultOverlaps = 0 /\ ~vault.app => \A t \in Items : issued[t] = "unissued"
    BY DEF VaultInv, Vault!AnswersAreKept
  <2> QED BY <2>1, <2>2 DEF VaultInv, Vault!AnswersAreKept
<1> QED BY <1>2, <1>3, <1>4, <1>5 DEF VaultInv

LEMMA VaultStands ==
  ASSUME VaultInv,
         UNCHANGED <<vault, issued, vaultRequest, writer, passed, vaultRaced, vaultForgotten, answered,
                     vaultOverlaps>>
  PROVE  VaultInv'
BY DEF VaultInv, VaultTyped, WritesWhatIsAsked, CopiesAreFresh, ConsumedIsMarked, Checked, Edits,
  Vault!AnswersAreKept

LEMMA VaultStep ==
  ASSUME VaultInv, Vault!Next
  PROVE  VaultInv'
<1> USE DEF Vault!history
<1>1. CASE Vault!Configure
  <2>1. [op |-> "app"] \in Vault!Change /\ "tool" \in Vault!Processes
    BY DEF Vault!Change, Vault!Processes
  <2>2. Vault!Load("tool", [op |-> "app"]) /\ UNCHANGED vaultRequest
    BY <1>1 DEF Vault!Configure
  <2> QED BY <2>1, <2>2, LoadKeepsVault
<1>2. CASE \E p \in Vault!Processes : Vault!Save(p) \/ Vault!SaveFails(p)
  BY <1>2, SaveKeepsVault, SaveFailsKeepsVault
<1>3. CASE \E s \in Items : Vault!Issue(s) \/ Vault!Expire(s)
  BY <1>3, IssuedKeepsVault DEF Vault!Issue, Vault!Expire
<1>4. CASE \E r \in Actors, s \in Items : Vault!Check(r, s)
  BY <1>4, CheckKeepsVault
<1>5. CASE \E r \in Actors : Vault!Mark(r)
  <2> PICK r \in Actors : Vault!Mark(r)
    BY <1>5
  <2> DEFINE change == [op |-> "mark", request |-> r, state |-> vaultRequest[r].state]
  <2>1. /\ vaultRequest[r].pc = "marking"
        /\ Vault!Load("service", change) /\ UNCHANGED vaultRequest
    BY DEF Vault!Mark
  <2>2. vaultRequest[r].state \in Items
    BY <2>1, RequestRow DEF VaultInv, Consuming
  <2>3. /\ change \in Vault!Change /\ "service" \in Vault!Processes
        /\ change.op = "mark" /\ change.request = r /\ change.state = vaultRequest[r].state
    BY <2>2 DEF Vault!Change, Vault!Processes
  <2> HIDE DEF change
  <2> QED BY <2>1, <2>3, LoadKeepsVault
<1>6. CASE \E r \in Actors : Vault!Exchange(r)
  <2> PICK r \in Actors : Vault!Exchange(r)
    BY <1>6
  <2> DEFINE x == [vaultRequest[r] EXCEPT !.pc = "offering"]
  <2>1. vaultRequest[r].pc = "exchanging" /\ vaultRequest[r] \in Consuming
    BY RequestRow DEF Vault!Exchange, VaultInv
  <2>2. x \in Consuming /\ x.pc = "offering"
    BY <2>1 DEF Consuming
  <2>3. /\ vaultRequest' = [vaultRequest EXCEPT ![r] = x]
        /\ UNCHANGED <<vault, issued, writer, passed, vaultRaced, vaultForgotten, answered, vaultOverlaps>>
    BY DEF Vault!Exchange
  <2> HIDE DEF x
  <2> QED BY <2>1, <2>2, <2>3, RequestKeepsVault
<1>7. CASE \E r \in Actors : Vault!ExchangeFails(r)
  <2> PICK r \in Actors : Vault!ExchangeFails(r)
    BY <1>7
  <2>1. /\ vaultRequest[r].pc = "exchanging"
        /\ vaultRequest' = [vaultRequest EXCEPT ![r] = Vault!Quiet]
        /\ UNCHANGED <<vault, issued, writer, passed, vaultRaced, vaultForgotten, answered, vaultOverlaps>>
    BY DEF Vault!ExchangeFails
  <2>2. Vault!Quiet.pc # "marking"
    BY DEF Vault!Quiet
  <2> QED BY <2>1, <2>2, RequestKeepsVault
<1>8. CASE \E r \in Actors, pages \in (SUBSET Single) \ {{}} : Vault!Offer(r, pages)
  <2> PICK r \in Actors, pages \in (SUBSET Single) \ {{}} : Vault!Offer(r, pages)
    BY <1>8
  <2> DEFINE change == [op |-> "offer", request |-> r, pages |-> pages]
  <2>1. /\ vaultRequest[r].pc = "offering"
        /\ Vault!Load("service", change) /\ UNCHANGED vaultRequest
    BY DEF Vault!Offer
  <2>2. /\ change \in Vault!Change /\ "service" \in Vault!Processes
        /\ change.op = "offer" /\ change.request = r
    BY DEF Vault!Change, Vault!Processes
  <2> HIDE DEF change
  <2> QED BY <2>1, <2>2, LoadKeepsVault
<1>9. CASE Vault!Lapse
  BY <1>9, VaultStands DEF Vault!Lapse
<1>10. CASE \E page \in Single : Vault!Bind(page)
  <2> PICK page \in Single : Vault!Bind(page)
    BY <1>10
  <2>1. Vault!Load("service", [op |-> "bind", page |-> page]) /\ UNCHANGED vaultRequest
    BY DEF Vault!Bind
  <2>2. [op |-> "bind", page |-> page] \in Vault!Change /\ "service" \in Vault!Processes
    BY DEF Vault!Change, Vault!Processes
  <2> QED BY <2>1, <2>2, LoadKeepsVault
<1> QED BY <1>1, <1>2, <1>3, <1>4, <1>5, <1>6, <1>7, <1>8, <1>9, <1>10 DEF Vault!Next

LEMMA VaultInvariance == Behaviour => [](Is("vault") => VaultInv)
<1>1. SumInit => (Is("vault") => VaultInv)
  <2> SUFFICES ASSUME Vault!Init
               PROVE  VaultInv
    BY DEF SumInit
  <2>1. Window \in Nat
    BY WindowAssumption
  <2>2. <<>> \in Vault!Nonces
    BY <2>1 DEF Vault!Nonces
  <2>3. vault \in Credentials /\ vault.bound = {}
    BY <2>2 DEF Vault!Init, Credentials
  <2>4. \A p \in Vault!Processes : writer[p] = Vault!Idle /\ ~Edits(p)
    BY DEF Vault!Init, Edits, Vault!Idle, Editing
  <2>5. \A r \in Actors : vaultRequest[r].pc = "quiet"
    BY DEF Vault!Init, Vault!Quiet
  <2>6. VaultTyped
    BY <2>3 DEF Vault!Init, VaultTyped
  <2>7. WritesWhatIsAsked /\ CopiesAreFresh
    BY <2>4 DEF WritesWhatIsAsked, CopiesAreFresh
  <2>8. ConsumedIsMarked /\ Vault!AnswersAreKept
    BY <2>3, <2>5 DEF Vault!Init, ConsumedIsMarked, Checked, Vault!AnswersAreKept
  <2> QED BY <2>6, <2>7, <2>8 DEF VaultInv
<1>2. (Is("vault") => VaultInv) /\ [SumNext]_all => (Is("vault") => VaultInv)'
  <2> SUFFICES ASSUME Is("vault") => VaultInv, [SumNext]_all, Is("vault")'
               PROVE  VaultInv'
    OBVIOUS
  <2>1. VaultInv /\ (Vault!Next \/ UNCHANGED vaultVars)
    BY OneRuns DEF Is
  <2>2. CASE UNCHANGED vaultVars
    BY <2>1, <2>2, VaultStands DEF vaultVars
  <2> QED BY <2>1, <2>2, VaultStep
<1> QED BY <1>1, <1>2, PTL DEF Behaviour

(* A state is good for one callback, but for the exceptions the property    *)
(* names, for any number of states, callbacks, nonces kept and failures.   *)
THEOREM StateUsedOnce == Behaviour => []StateIsUsedOnce
<1>1. (Is("vault") => VaultInv) => StateIsUsedOnce
  <2> SUFFICES ASSUME VaultInv, NEW s \in Items, passed[s] > 1
               PROVE  s \in vaultRaced \cup vaultForgotten \/ vaultOverlaps > 0
    BY DEF StateIsUsedOnce, Vault!StateIsUsedOnce
  <2>1. vaultOverlaps \in Nat /\ passed[s] \in 0..2
    BY DEF VaultInv, VaultTyped
  <2> QED BY <2>1 DEF VaultInv, ConsumedIsMarked
<1> QED BY <1>1, VaultInvariance, PTL

(* A page that was answered for stays bound, and the app configured, but    *)
(* for changes of the two processes at once, for any number of them.       *)
THEOREM AnswersKept == Behaviour => []AnswersAreKept
<1>1. (Is("vault") => VaultInv) => AnswersAreKept
  BY DEF AnswersAreKept, VaultInv
<1> QED BY <1>1, VaultInvariance, PTL
-----------------------------------------------------------------------------
(* The cutover.                                                            *)
Container == [running : BOOLEAN, renamed : BOOLEAN]
Proceeds == {"precheck", "stop", "rename", "policy", "up", "verify", "postcheck"}
RollsBack == {"remove", "return", "start", "probe"}

CutoverTyped ==
  /\ original \in [1..Last -> Container] /\ new \in [1..Last -> {"none", "broken", "up"}]
  /\ cutoverPc \in Proceeds \cup RollsBack \cup {"done", "killed"}
  /\ at \in 0..Last + 1 /\ migrated \in 0..Last
  /\ errors \in BOOLEAN
  /\ report \in {"none", "success", "failed", "rolled back", "rollback failed"}

AsItWas(s) == original[s].running /\ ~original[s].renamed /\ new[s] = "none"
Replaced(s) == ~original[s].running /\ original[s].renamed /\ new[s] = "up"

(* Up to the service it is at, all are replaced; those after it are as they *)
(* were.                                                                   *)
ProceedsInOrder ==
  cutoverPc \in Proceeds =>
    /\ at >= 1 /\ report = "none" /\ errors = FALSE
    /\ cutoverPc = "postcheck" <=> at = Last + 1
    /\ migrated = IF cutoverPc \in {"policy", "up", "verify"} THEN at ELSE at - 1
    /\ \A s \in 1..Last : s < at => Replaced(s)
    /\ \A s \in 1..Last : s > at => AsItWas(s)
    /\ cutoverPc \in {"precheck", "stop"} => AsItWas(at)
    /\ cutoverPc = "rename" => ~original[at].running /\ ~original[at].renamed
    /\ cutoverPc \in {"policy", "up", "verify"} => ~original[at].running /\ original[at].renamed
    /\ cutoverPc \in {"rename", "policy", "up"} => new[at] = "none"

(* Unless it has met an error the rollback has restored the services after  *)
(* the one it is at.  Nothing new was started for those it does not look   *)
(* at, and but for the first of them they were not touched.                *)
RollsBackInOrder ==
  cutoverPc \in RollsBack =>
    /\ migrated >= 1 /\ report = "none"
    /\ cutoverPc # "probe" => at \in 1..migrated
    /\ \A s \in 1..Last : s > migrated => new[s] = "none"
    /\ \A s \in 1..Last : s > migrated + 1 => AsItWas(s)
    /\ cutoverPc \in {"return", "start"} /\ errors = FALSE =>
         \A s \in 1..migrated : s > at => AsItWas(s)
    /\ cutoverPc = "start" /\ errors = FALSE => new[at] = "none" /\ ~original[at].renamed
    /\ cutoverPc = "probe" /\ errors = FALSE => \A s \in 1..migrated : AsItWas(s)

ReportsWhatIs ==
  /\ report # "none" => cutoverPc = "done"
  /\ report = "success" => \A s \in 1..Last : Replaced(s)
  /\ report = "rolled back" => \A s \in (1..migrated) \cup Probed : AsItWas(s)
  /\ report = "failed" => \A s \in 2..Last : AsItWas(s)

CutoverInv == CutoverTyped /\ ProceedsInOrder /\ RollsBackInOrder /\ ReportsWhatIs

LEMMA RunningRow ==
  ASSUME CutoverTyped, NEW s \in 1..Last, NEW yes \in BOOLEAN, Cutover!Running(s, yes)
  PROVE  /\ original' \in [1..Last -> Container]
         /\ original'[s].running = yes /\ original'[s].renamed = original[s].renamed
         /\ \A t \in 1..Last : t # s => original'[t] = original[t]
<1> DEFINE x == [original[s] EXCEPT !.running = yes]
<1>1. x \in Container /\ x.running = yes /\ x.renamed = original[s].renamed
  BY DEF CutoverTyped, Container
<1>2. original' = [original EXCEPT ![s] = x]
  BY DEF Cutover!Running
<1> HIDE DEF x
<1> QED BY <1>1, <1>2 DEF CutoverTyped

LEMMA RenamedRow ==
  ASSUME CutoverTyped, NEW s \in 1..Last, NEW yes \in BOOLEAN, Cutover!Renamed(s, yes)
  PROVE  /\ original' \in [1..Last -> Container]
         /\ original'[s].renamed = yes /\ original'[s].running = original[s].running
         /\ \A t \in 1..Last : t # s => original'[t] = original[t]
<1> DEFINE x == [original[s] EXCEPT !.renamed = yes]
<1>1. x \in Container /\ x.renamed = yes /\ x.running = original[s].running
  BY DEF CutoverTyped, Container
<1>2. original' = [original EXCEPT ![s] = x]
  BY DEF Cutover!Renamed
<1> HIDE DEF x
<1> QED BY <1>1, <1>2 DEF CutoverTyped

LEMMA NewRow ==
  ASSUME CutoverTyped, NEW s \in 1..Last, NEW state \in {"none", "broken", "up"},
         new' = [new EXCEPT ![s] = state]
  PROVE  /\ new' \in [1..Last -> {"none", "broken", "up"}]
         /\ new'[s] = state /\ \A t \in 1..Last : t # s => new'[t] = new[t]
BY DEF CutoverTyped

LEMMA MigratedAreServices ==
  ASSUME CutoverTyped
  PROVE  /\ migrated >= 1 => migrated \in 1..Last
         /\ \A s \in (1..migrated) \cup Probed : s \in 1..Last /\ (s \in 1..migrated \/ s > migrated)
<1>1. migrated \in 0..Last
  BY DEF CutoverTyped
<1> HIDE DEF CutoverTyped
<1> QED BY <1>1, CutoverAssumption

(* At a gate that fails the rollback begins, if there is anything to roll   *)
(* back.                                                                   *)
LEMMA GateFailsKeeps ==
  ASSUME CutoverInv, cutoverPc \in Proceeds, Cutover!GateFails, UNCHANGED <<migrated, errors>>,
         original' \in [1..Last -> Container], new' \in [1..Last -> {"none", "broken", "up"}],
         \A s \in 1..Last : s > migrated => new'[s] = "none",
         \A s \in 1..Last : s > migrated + 1 => AsItWas(s)'
  PROVE  CutoverInv'
<1> USE CutoverAssumption
<1>1. /\ cutoverPc' = IF migrated = 0 THEN "done" ELSE "remove"
      /\ at' = migrated /\ migrated' = migrated /\ errors' = errors
      /\ report' = IF migrated = 0 THEN "failed" ELSE report
  BY DEF Cutover!GateFails
<1>2. /\ migrated \in 0..Last /\ report = "none" /\ errors = FALSE
  BY DEF CutoverInv, CutoverTyped, ProceedsInOrder
<1>3. CutoverTyped'
  <2>1. errors' \in BOOLEAN
    BY <1>1, <1>2
  <2>2. /\ at' \in 0..Last + 1 /\ migrated' \in 0..Last
        /\ cutoverPc' \in {"done", "remove"} /\ report' \in {"failed", "none"}
    BY <1>1, <1>2
  <2> QED BY <2>1, <2>2 DEF CutoverTyped, RollsBack
<1>4. CASE migrated = 0
  <2>1. cutoverPc' = "done" /\ report' = "failed"
    BY <1>1, <1>4
  <2>2. \A s \in 2..Last : AsItWas(s)'
    BY <1>4
  <2> QED BY <1>3, <2>1, <2>2
        DEF CutoverInv, ProceedsInOrder, RollsBackInOrder, ReportsWhatIs, Proceeds, RollsBack
<1>5. CASE migrated # 0
  <2>1. cutoverPc' = "remove" /\ report' = "none" /\ migrated >= 1
    BY <1>1, <1>2, <1>5
  <2>2. RollsBackInOrder'
    BY <1>1, <1>2, <2>1 DEF RollsBackInOrder
  <2> QED BY <1>3, <2>1, <2>2 DEF CutoverInv, ProceedsInOrder, ReportsWhatIs, Proceeds
<1> QED BY <1>4, <1>5

LEMMA ServicesOn ==
  ASSUME CutoverInv, cutoverPc \in Proceeds \ {"postcheck"}
  PROVE  at \in 1..Last
BY CutoverAssumption DEF CutoverInv, CutoverTyped, ProceedsInOrder

LEMMA PrecheckKeeps ==
  ASSUME CutoverInv, Cutover!Precheck
  PROVE  CutoverInv'
<1> USE CutoverAssumption DEF CutoverInv
<1>1. cutoverPc = "precheck" /\ UNCHANGED <<original, new, migrated, errors>>
  BY DEF Cutover!Precheck, Cutover!script
<1>2. CASE Cutover!Goes("stop") /\ UNCHANGED Cutover!script
  BY <1>1, <1>2
    DEF Cutover!Goes, Cutover!script, CutoverTyped, ProceedsInOrder, RollsBackInOrder, ReportsWhatIs,
        Proceeds, RollsBack, AsItWas, Replaced
<1>3. CASE Cutover!GateFails
  <2>1. cutoverPc \in Proceeds
    BY <1>1 DEF Proceeds
  <2>2. at \in 1..Last
    BY <1>1, <2>1, ServicesOn
  <2>3. migrated = at - 1 /\ AsItWas(at) /\ \A s \in 1..Last : s > at => AsItWas(s)
    BY <1>1, <2>1 DEF ProceedsInOrder
  <2>4. \A s \in 1..Last : s > migrated => AsItWas(s)
    BY <2>2, <2>3
  <2>5. \A s \in 1..Last : AsItWas(s)' <=> AsItWas(s)
    BY <1>1 DEF AsItWas
  <2>6. /\ \A s \in 1..Last : s > migrated => new'[s] = "none"
        /\ \A s \in 1..Last : s > migrated + 1 => AsItWas(s)'
    BY <2>2, <2>3, <2>4, <2>5 DEF AsItWas
  <2> HIDE DEF CutoverInv
  <2>7. original' \in [1..Last -> Container] /\ new' \in [1..Last -> {"none", "broken", "up"}]
    BY <1>1 DEF CutoverInv, CutoverTyped
  <2> QED BY <1>1, <1>3, <2>1, <2>6, <2>7, GateFailsKeeps
<1> QED BY <1>2, <1>3 DEF Cutover!Precheck

LEMMA StopKeeps ==
  ASSUME CutoverInv, Cutover!Stop
  PROVE  CutoverInv'
<1> USE CutoverAssumption
<1>1. cutoverPc = "stop" /\ UNCHANGED <<new, migrated, errors>>
  BY DEF Cutover!Stop, Cutover!script
<1>2. cutoverPc \in Proceeds /\ at \in 1..Last
  BY <1>1, ServicesOn DEF Proceeds
<1>3. PICK yes \in BOOLEAN : Cutover!Running(at, yes)
  BY DEF Cutover!Stop
<1>4. /\ original' \in [1..Last -> Container]
      /\ original'[at].running = yes /\ original'[at].renamed = original[at].renamed
      /\ \A t \in 1..Last : t # at => original'[t] = original[t]
  BY <1>2, <1>3, RunningRow DEF CutoverInv
<1>5. \A t \in 1..Last : t # at => (AsItWas(t)' <=> AsItWas(t)) /\ (Replaced(t)' <=> Replaced(t))
  BY <1>1, <1>4 DEF AsItWas, Replaced
<1>6. /\ migrated = at - 1 /\ report = "none" /\ errors = FALSE /\ AsItWas(at)
      /\ \A s \in 1..Last : s > at => AsItWas(s)
      /\ \A s \in 1..Last : s < at => Replaced(s)
  BY <1>1, <1>2 DEF CutoverInv, ProceedsInOrder
<1>7. CASE Cutover!Running(at, FALSE) /\ Cutover!Goes("rename") /\ UNCHANGED Cutover!script
  <2>1. /\ ~original'[at].running
    <3>1. original'[at].running = FALSE
      BY <1>2, <1>7, RunningRow DEF CutoverInv
    <3> QED BY <3>1
  <2>2. cutoverPc' = "rename" /\ UNCHANGED <<at, report>>
    BY <1>7 DEF Cutover!Goes, Cutover!script
  <2>3. CutoverTyped'
    BY <1>1, <1>4, <2>2 DEF CutoverInv, CutoverTyped, Proceeds
  <2>4. ProceedsInOrder'
    BY <1>1, <1>2, <1>4, <1>5, <1>6, <2>1, <2>2 DEF ProceedsInOrder, AsItWas
  <2> QED BY <1>6, <2>2, <2>3, <2>4 DEF CutoverInv, RollsBackInOrder, ReportsWhatIs, RollsBack
<1>8. CASE Cutover!GateFails
  <2>1. /\ \A s \in 1..Last : s > migrated => new'[s] = "none"
        /\ \A s \in 1..Last : s > migrated + 1 => AsItWas(s)'
    <3>1. \A s \in 1..Last : s > migrated => s = at \/ s > at
      BY <1>2, <1>6
    <3>2. \A s \in 1..Last : s > migrated + 1 => s > at /\ s # at
      BY <1>2, <1>6
    <3> QED BY <1>1, <1>5, <1>6, <3>1, <3>2 DEF AsItWas
  <2>2. new' \in [1..Last -> {"none", "broken", "up"}]
    BY <1>1 DEF CutoverInv, CutoverTyped
  <2> QED BY <1>1, <1>2, <1>4, <1>8, <2>1, <2>2, GateFailsKeeps
<1> QED BY <1>7, <1>8 DEF Cutover!Stop

LEMMA RenameKeeps ==
  ASSUME CutoverInv, Cutover!Rename
  PROVE  CutoverInv'
<1> USE CutoverAssumption
<1>1. cutoverPc = "rename" /\ UNCHANGED <<new, errors>>
  BY DEF Cutover!Rename, Cutover!script
<1>2. cutoverPc \in Proceeds /\ at \in 1..Last
  BY <1>1, ServicesOn DEF Proceeds
<1>3. PICK yes \in BOOLEAN : Cutover!Renamed(at, yes)
  BY DEF Cutover!Rename
<1>4. /\ original' \in [1..Last -> Container]
      /\ original'[at].renamed = yes /\ original'[at].running = original[at].running
      /\ \A t \in 1..Last : t # at => original'[t] = original[t]
  BY <1>2, <1>3, RenamedRow DEF CutoverInv
<1>5. \A t \in 1..Last : t # at => (AsItWas(t)' <=> AsItWas(t)) /\ (Replaced(t)' <=> Replaced(t))
  BY <1>1, <1>4 DEF AsItWas, Replaced
<1>6. /\ migrated = at - 1 /\ report = "none" /\ errors = FALSE
      /\ ~original[at].running /\ new[at] = "none"
      /\ \A s \in 1..Last : s > at => AsItWas(s)
      /\ \A s \in 1..Last : s < at => Replaced(s)
  BY <1>1, <1>2 DEF CutoverInv, ProceedsInOrder
<1>7. CASE /\ Cutover!Renamed(at, TRUE) /\ Cutover!Goes("policy")
           /\ migrated' = at /\ UNCHANGED <<at, errors, report>>
  <2>1. original'[at].renamed /\ ~original'[at].running
    <3>1. original'[at].renamed = TRUE
      BY <1>2, <1>7, RenamedRow DEF CutoverInv
    <3> QED BY <1>4, <1>6, <3>1
  <2>2. cutoverPc' = "policy" /\ migrated' = at /\ UNCHANGED <<at, report>>
    BY <1>7 DEF Cutover!Goes
  <2>3. CutoverTyped'
    <3>1. migrated' \in 0..Last
      BY <1>2, <2>2
    <3> QED BY <1>1, <1>4, <2>2, <3>1 DEF CutoverInv, CutoverTyped, Proceeds
  <2>4. ProceedsInOrder'
    BY <1>1, <1>2, <1>4, <1>5, <1>6, <2>1, <2>2 DEF ProceedsInOrder
  <2> QED BY <1>6, <2>2, <2>3, <2>4 DEF CutoverInv, RollsBackInOrder, ReportsWhatIs, RollsBack
<1>8. CASE Cutover!GateFails /\ UNCHANGED <<migrated, errors>>
  <2>1. /\ \A s \in 1..Last : s > migrated => new'[s] = "none"
        /\ \A s \in 1..Last : s > migrated + 1 => AsItWas(s)'
    <3>1. \A s \in 1..Last : s > migrated => s = at \/ s > at
      BY <1>2, <1>6
    <3>2. \A s \in 1..Last : s > migrated + 1 => s > at /\ s # at
      BY <1>2, <1>6
    <3> QED BY <1>1, <1>5, <1>6, <3>1, <3>2 DEF AsItWas
  <2>2. new' \in [1..Last -> {"none", "broken", "up"}]
    BY <1>1 DEF CutoverInv, CutoverTyped
  <2> QED BY <1>1, <1>2, <1>4, <1>8, <2>1, <2>2, GateFailsKeeps
<1> QED BY <1>7, <1>8 DEF Cutover!Rename

LEMMA PolicyKeeps ==
  ASSUME CutoverInv, Cutover!Policy
  PROVE  CutoverInv'
<1> USE CutoverAssumption
<1>1. cutoverPc = "policy" /\ UNCHANGED <<original, new, migrated, errors>>
  BY DEF Cutover!Policy, Cutover!script
<1>2. cutoverPc \in Proceeds /\ at \in 1..Last
  BY <1>1, ServicesOn DEF Proceeds
<1>3. \A t \in 1..Last : (AsItWas(t)' <=> AsItWas(t)) /\ (Replaced(t)' <=> Replaced(t))
  BY <1>1 DEF AsItWas, Replaced
<1>4. /\ migrated = at /\ report = "none" /\ errors = FALSE
      /\ ~original[at].running /\ original[at].renamed /\ new[at] = "none"
      /\ \A s \in 1..Last : s > at => AsItWas(s)
      /\ \A s \in 1..Last : s < at => Replaced(s)
  BY <1>1, <1>2 DEF CutoverInv, ProceedsInOrder
<1>5. CASE Cutover!Goes("up") /\ UNCHANGED Cutover!script
  <2>1. cutoverPc' = "up" /\ UNCHANGED <<at, report>>
    BY <1>5 DEF Cutover!Goes, Cutover!script
  <2>2. CutoverTyped'
    BY <1>1, <2>1 DEF CutoverInv, CutoverTyped, Proceeds
  <2>3. ProceedsInOrder'
    BY <1>1, <1>2, <1>3, <1>4, <2>1 DEF ProceedsInOrder
  <2> QED BY <1>4, <2>1, <2>2, <2>3 DEF CutoverInv, RollsBackInOrder, ReportsWhatIs, RollsBack
<1>6. CASE Cutover!GateFails
  <2>1. /\ \A s \in 1..Last : s > migrated => new'[s] = "none"
        /\ \A s \in 1..Last : s > migrated + 1 => AsItWas(s)'
    <3>1. \A s \in 1..Last : s > migrated + 1 => s > migrated
      BY <1>2, <1>4
    <3> QED BY <1>1, <1>3, <1>4, <3>1 DEF AsItWas
  <2>2. original' \in [1..Last -> Container] /\ new' \in [1..Last -> {"none", "broken", "up"}]
    BY <1>1 DEF CutoverInv, CutoverTyped
  <2> QED BY <1>1, <1>2, <1>6, <2>1, <2>2, GateFailsKeeps
<1> QED BY <1>5, <1>6 DEF Cutover!Policy

LEMMA UpKeeps ==
  ASSUME CutoverInv, Cutover!Up
  PROVE  CutoverInv'
<1> USE CutoverAssumption
<1>1. cutoverPc = "up" /\ UNCHANGED <<original, migrated, errors>>
  BY DEF Cutover!Up, Cutover!script
<1>2. cutoverPc \in Proceeds /\ at \in 1..Last
  BY <1>1, ServicesOn DEF Proceeds
<1>3. PICK state \in {"none", "broken", "up"} : new' = [new EXCEPT ![at] = state]
  BY DEF Cutover!Up
<1>4. /\ new' \in [1..Last -> {"none", "broken", "up"}]
      /\ \A t \in 1..Last : t # at => new'[t] = new[t]
  BY <1>2, <1>3, NewRow DEF CutoverInv
<1>5. \A t \in 1..Last : t # at => (AsItWas(t)' <=> AsItWas(t)) /\ (Replaced(t)' <=> Replaced(t))
  BY <1>1, <1>4 DEF AsItWas, Replaced
<1>6. /\ migrated = at /\ report = "none" /\ errors = FALSE
      /\ ~original[at].running /\ original[at].renamed
      /\ \A s \in 1..Last : s > at => AsItWas(s)
      /\ \A s \in 1..Last : s < at => Replaced(s)
  BY <1>1, <1>2 DEF CutoverInv, ProceedsInOrder
<1>7. CASE Cutover!Goes("verify") /\ UNCHANGED Cutover!script
  <2>1. cutoverPc' = "verify" /\ UNCHANGED <<at, report>>
    BY <1>7 DEF Cutover!Goes, Cutover!script
  <2>2. CutoverTyped'
    BY <1>1, <1>4, <2>1 DEF CutoverInv, CutoverTyped, Proceeds
  <2>3. ProceedsInOrder'
    BY <1>1, <1>2, <1>5, <1>6, <2>1 DEF ProceedsInOrder
  <2> QED BY <1>6, <2>1, <2>2, <2>3 DEF CutoverInv, RollsBackInOrder, ReportsWhatIs, RollsBack
<1>8. CASE Cutover!GateFails
  <2>1. /\ \A s \in 1..Last : s > migrated => new'[s] = "none"
        /\ \A s \in 1..Last : s > migrated + 1 => AsItWas(s)'
    <3>1. \A s \in 1..Last : s > migrated + 1 => s > migrated
      BY <1>2, <1>6
    <3>2. \A s \in 1..Last : s > migrated => AsItWas(s)'
      BY <1>2, <1>5, <1>6
    <3> QED BY <3>1, <3>2 DEF AsItWas
  <2>2. original' \in [1..Last -> Container]
    BY <1>1 DEF CutoverInv, CutoverTyped
  <2> QED BY <1>1, <1>2, <1>4, <1>8, <2>1, <2>2, GateFailsKeeps
<1> QED BY <1>7, <1>8 DEF Cutover!Up

LEMMA VerifyKeeps ==
  ASSUME CutoverInv, Cutover!Verify
  PROVE  CutoverInv'
<1> USE CutoverAssumption
<1>1. cutoverPc = "verify" /\ UNCHANGED <<original, new, migrated, errors>>
  BY DEF Cutover!Verify
<1>2. cutoverPc \in Proceeds /\ at \in 1..Last
  BY <1>1, ServicesOn DEF Proceeds
<1>3. \A t \in 1..Last : (AsItWas(t)' <=> AsItWas(t)) /\ (Replaced(t)' <=> Replaced(t))
  BY <1>1 DEF AsItWas, Replaced
<1>4. /\ migrated = at /\ report = "none" /\ errors = FALSE
      /\ ~original[at].running /\ original[at].renamed
      /\ \A s \in 1..Last : s > at => AsItWas(s)
      /\ \A s \in 1..Last : s < at => Replaced(s)
  BY <1>1, <1>2 DEF CutoverInv, ProceedsInOrder
<1>5. CASE /\ new[at] = "up"
           /\ Cutover!Goes(IF at = Last THEN "postcheck" ELSE "stop")
           /\ at' = at + 1 /\ UNCHANGED <<migrated, errors, report>>
  <2>1. /\ cutoverPc' = IF at = Last THEN "postcheck" ELSE "stop"
        /\ at' = at + 1 /\ migrated' = migrated /\ report' = report
    BY <1>5 DEF Cutover!Goes
  <2>2. cutoverPc' \in {"postcheck", "stop"} /\ (cutoverPc' = "postcheck" <=> at' = Last + 1)
    BY <1>2, <2>1
  <2>3. CutoverTyped'
    <3>1. at' \in 0..Last + 1
      BY <1>2, <2>1
    <3> QED BY <1>1, <2>1, <2>2, <3>1 DEF CutoverInv, CutoverTyped, Proceeds
  <2>4. /\ \A s \in 1..Last : s < at + 1 => Replaced(s)
        /\ \A s \in 1..Last : s > at + 1 => AsItWas(s)
    BY <1>2, <1>4, <1>5 DEF Replaced
  <2>5. /\ \A s \in 1..Last : s < at' => Replaced(s)'
        /\ \A s \in 1..Last : s > at' => AsItWas(s)'
    BY <1>3, <2>1, <2>4
  <2>6. cutoverPc' = "stop" => AsItWas(at + 1)
    BY <1>2, <1>4, <2>1
  <2>7. cutoverPc' = "stop" => AsItWas(at)'
    BY <1>1, <2>1, <2>6 DEF AsItWas
  <2>8. ProceedsInOrder'
    BY <1>1, <1>2, <1>4, <2>1, <2>2, <2>5, <2>7 DEF ProceedsInOrder
  <2> QED BY <1>4, <2>1, <2>2, <2>3, <2>8 DEF CutoverInv, RollsBackInOrder, ReportsWhatIs, RollsBack
<1>6. CASE Cutover!GateFails
  <2>1. /\ \A s \in 1..Last : s > migrated => new'[s] = "none"
        /\ \A s \in 1..Last : s > migrated + 1 => AsItWas(s)'
    <3>1. \A s \in 1..Last : s > migrated + 1 => s > migrated
      BY <1>2, <1>4
    <3> QED BY <1>1, <1>3, <1>4, <3>1 DEF AsItWas
  <2>2. original' \in [1..Last -> Container] /\ new' \in [1..Last -> {"none", "broken", "up"}]
    BY <1>1 DEF CutoverInv, CutoverTyped
  <2> QED BY <1>1, <1>2, <1>6, <2>1, <2>2, GateFailsKeeps
<1> QED BY <1>5, <1>6 DEF Cutover!Verify

LEMMA PostcheckKeeps ==
  ASSUME CutoverInv, Cutover!Postcheck
  PROVE  CutoverInv'
<1> USE CutoverAssumption
<1>1. cutoverPc = "postcheck" /\ UNCHANGED <<original, migrated, errors>>
  BY DEF Cutover!Postcheck
<1>2. cutoverPc \in Proceeds
  BY <1>1 DEF Proceeds
<1>3. /\ at = Last + 1 /\ migrated = Last /\ report = "none"
      /\ \A s \in 1..Last : Replaced(s)
  BY <1>1, <1>2 DEF CutoverInv, ProceedsInOrder
<1>4. CASE /\ Cutover!Goes("done")
           /\ report' = "success" /\ UNCHANGED <<at, migrated, errors, new>>
  <2>1. cutoverPc' = "done" /\ report' = "success" /\ UNCHANGED <<at, new>>
    BY <1>4 DEF Cutover!Goes
  <2>2. CutoverTyped'
    BY <1>1, <2>1 DEF CutoverInv, CutoverTyped
  <2>3. \A s \in 1..Last : Replaced(s)'
    BY <1>1, <1>3, <2>1 DEF Replaced
  <2> QED BY <2>1, <2>2, <2>3
        DEF CutoverInv, ProceedsInOrder, RollsBackInOrder, ReportsWhatIs, Proceeds, RollsBack
<1>5. CASE /\ \E s \in 1..Last, state \in {"broken", "up"} : new' = [new EXCEPT ![s] = state]
           /\ Cutover!GateFails /\ UNCHANGED <<migrated, errors>>
  <2>1. PICK s \in 1..Last, state \in {"broken", "up"} : new' = [new EXCEPT ![s] = state]
    BY <1>5
  <2>2. new' \in [1..Last -> {"none", "broken", "up"}] /\ original' \in [1..Last -> Container]
    BY <1>1, <2>1 DEF CutoverInv, CutoverTyped
  <2>3. \A t \in 1..Last : ~(t > migrated) /\ ~(t > migrated + 1)
    BY <1>3
  <2> QED BY <1>2, <1>5, <2>2, <2>3, GateFailsKeeps
<1> QED BY <1>4, <1>5 DEF Cutover!Postcheck, Cutover!Services

(* The rollback is heedless of what it cannot remove, ...                   *)
LEMMA RemoveKeepsCutover ==
  ASSUME CutoverInv, Cutover!Remove
  PROVE  CutoverInv'
<1> USE CutoverAssumption
<1>1. cutoverPc = "remove" /\ UNCHANGED <<original, migrated, errors, report>>
  BY DEF Cutover!Remove
<1>2. /\ migrated \in 1..Last /\ report = "none" /\ at \in 1..migrated
      /\ \A s \in 1..Last : s > migrated => new[s] = "none"
      /\ \A s \in 1..Last : s > migrated + 1 => AsItWas(s)
  BY <1>1 DEF CutoverInv, CutoverTyped, RollsBackInOrder, RollsBack
<1>3. at \in 1..Last
  BY <1>2
<1>4. PICK state \in {"none", new[at]} : new' = [new EXCEPT ![at] = state]
  BY DEF Cutover!Remove
<1>5. /\ new' \in [1..Last -> {"none", "broken", "up"}]
      /\ \A t \in 1..Last : t # at => new'[t] = new[t]
  <2>1. state \in {"none", "broken", "up"}
    BY <1>3, <1>4 DEF CutoverInv, CutoverTyped
  <2> QED BY <1>3, <1>4, <2>1, NewRow DEF CutoverInv
<1>6. /\ \A s \in 1..Last : s > migrated => new'[s] = "none"
      /\ \A s \in 1..Last : s > migrated + 1 => AsItWas(s)'
  <2>1. \A s \in 1..Last : (s > migrated => s # at) /\ (s > migrated + 1 => s # at)
    BY <1>2
  <2> QED BY <1>1, <1>2, <1>5, <2>1 DEF AsItWas
<1>7. \/ cutoverPc' = "return" /\ at' = migrated
      \/ cutoverPc' = "remove" /\ at' = at - 1 /\ at # 1
  BY <1>1 DEF Cutover!Remove
<1>8. at' \in 1..migrated /\ at' \in 0..Last + 1 /\ cutoverPc' \in {"remove", "return"}
  BY <1>2, <1>7
<1>9. CutoverTyped'
  BY <1>1, <1>5, <1>8 DEF CutoverInv, CutoverTyped, RollsBack
<1>10. cutoverPc' = "return" => \A s \in 1..migrated : ~(s > at')
  BY <1>2, <1>7
<1>11. RollsBackInOrder'
  BY <1>1, <1>2, <1>6, <1>8, <1>10 DEF RollsBackInOrder
<1> QED BY <1>1, <1>2, <1>8, <1>9, <1>11 DEF CutoverInv, ProceedsInOrder, ReportsWhatIs, Proceeds

(* After a service the rollback goes on to the one before.                  *)
LEMMA ProceedKeeps ==
  ASSUME CutoverInv, cutoverPc \in {"return", "start"}, Cutover!Proceed,
         UNCHANGED <<new, migrated, report>>,
         original' \in [1..Last -> Container],
         \A t \in 1..Last : t # at => original'[t] = original[t],
         errors' \in BOOLEAN,
         errors' = FALSE => /\ errors = FALSE /\ original'[at].running
                           /\ ~original'[at].renamed /\ new'[at] = "none"
  PROVE  CutoverInv'
<1> USE CutoverAssumption
<1>1. /\ migrated \in 1..Last /\ report = "none" /\ at \in 1..migrated
      /\ \A s \in 1..Last : s > migrated => new[s] = "none"
      /\ \A s \in 1..Last : s > migrated + 1 => AsItWas(s)
      /\ errors = FALSE => \A s \in 1..migrated : s > at => AsItWas(s)
  <2>1. cutoverPc \in RollsBack /\ cutoverPc # "probe"
    BY DEF RollsBack
  <2>2. migrated \in 0..Last
    BY DEF CutoverInv, CutoverTyped
  <2> QED BY <2>1, <2>2 DEF CutoverInv, RollsBackInOrder
<1>2. \A t \in 1..Last : t # at => (AsItWas(t)' <=> AsItWas(t))
  BY DEF AsItWas
<1>3. \/ cutoverPc' = "probe" /\ at' = at /\ at = 1
      \/ cutoverPc' = "return" /\ at' = at - 1 /\ at # 1
  BY DEF Cutover!Proceed
<1>4. /\ at' \in 1..migrated /\ at' \in 0..Last + 1 /\ cutoverPc' \in {"probe", "return"}
      /\ \A s \in 1..migrated : s > at' \/ cutoverPc' = "probe" => s = at \/ s > at
  BY <1>1, <1>3
<1>5. CutoverTyped'
  BY <1>4 DEF CutoverInv, CutoverTyped, RollsBack
<1>6. \A s \in 1..Last : s > migrated + 1 => AsItWas(s)'
  <2>1. \A s \in 1..Last : s > migrated + 1 => s # at
    BY <1>1
  <2> QED BY <1>1, <1>2, <2>1
<1>7. errors' = FALSE => \A s \in 1..migrated : (s > at' \/ cutoverPc' = "probe") => AsItWas(s)'
  <2> SUFFICES ASSUME errors' = FALSE, NEW s \in 1..migrated, s > at' \/ cutoverPc' = "probe"
               PROVE  AsItWas(s)'
    OBVIOUS
  <2>1. s \in 1..Last /\ (s = at \/ s > at)
    BY <1>1, <1>4
  <2>2. CASE s = at
    BY <2>2 DEF AsItWas
  <2>3. CASE s # at
    BY <1>1, <1>2, <2>1, <2>3
  <2> QED BY <2>2, <2>3
<1>8. RollsBackInOrder'
  BY <1>1, <1>4, <1>6, <1>7 DEF RollsBackInOrder
<1> QED BY <1>1, <1>4, <1>5, <1>8 DEF CutoverInv, ProceedsInOrder, ReportsWhatIs, Proceeds

(* ... of what it cannot give its name back, ...                            *)
LEMMA ReturnKeeps ==
  ASSUME CutoverInv, Cutover!Return
  PROVE  CutoverInv'
<1> USE CutoverAssumption
<1>1. cutoverPc = "return" /\ UNCHANGED <<new, migrated, report>>
  BY DEF Cutover!Return
<1>2. /\ migrated \in 1..Last /\ report = "none" /\ at \in 1..migrated /\ at \in 1..Last
      /\ \A s \in 1..Last : s > migrated => new[s] = "none"
      /\ \A s \in 1..Last : s > migrated + 1 => AsItWas(s)
      /\ errors = FALSE => \A s \in 1..migrated : s > at => AsItWas(s)
  BY <1>1 DEF CutoverInv, CutoverTyped, RollsBackInOrder, RollsBack
<1>3. CASE /\ new[at] = "none" /\ Cutover!Renamed(at, FALSE)
           /\ cutoverPc' = "start" /\ UNCHANGED <<at, errors>>
  <2>1. /\ original' \in [1..Last -> Container]
        /\ original'[at].renamed = FALSE
        /\ \A t \in 1..Last : t # at => original'[t] = original[t]
    BY <1>2, <1>3, RenamedRow DEF CutoverInv
  <2>2. \A t \in 1..Last : t # at => (AsItWas(t)' <=> AsItWas(t))
    BY <1>1, <2>1 DEF AsItWas
  <2>3. /\ \A s \in 1..Last : s > migrated + 1 => AsItWas(s)'
        /\ errors' = FALSE => \A s \in 1..migrated : s > at => AsItWas(s)'
    <3>1. /\ \A s \in 1..Last : s > migrated + 1 => s # at
          /\ \A s \in 1..migrated : s > at => s # at /\ s \in 1..Last
      BY <1>2
    <3> QED BY <1>2, <1>3, <2>2, <3>1
  <2>4. CutoverTyped'
    BY <1>1, <1>3, <2>1 DEF CutoverInv, CutoverTyped, RollsBack
  <2>5. RollsBackInOrder'
    BY <1>1, <1>2, <1>3, <2>1, <2>3 DEF RollsBackInOrder
  <2> QED BY <1>1, <1>2, <1>3, <2>4, <2>5 DEF CutoverInv, ProceedsInOrder, ReportsWhatIs, Proceeds
<1>4. CASE new[at] # "none" /\ errors' = TRUE /\ Cutover!Proceed /\ UNCHANGED original
  <2>1. original' \in [1..Last -> Container] /\ errors' \in BOOLEAN /\ ~(errors' = FALSE)
    BY <1>4 DEF CutoverInv, CutoverTyped
  <2> QED BY <1>1, <1>4, <2>1, ProceedKeeps
<1>5. CASE /\ \E yes \in BOOLEAN : Cutover!Renamed(at, yes)
           /\ errors' = TRUE /\ Cutover!Proceed
  <2>1. /\ original' \in [1..Last -> Container] /\ errors' \in BOOLEAN /\ ~(errors' = FALSE)
        /\ \A t \in 1..Last : t # at => original'[t] = original[t]
    BY <1>2, <1>5, RenamedRow DEF CutoverInv
  <2> QED BY <1>1, <1>5, <2>1, ProceedKeeps
<1> QED BY <1>3, <1>4, <1>5 DEF Cutover!Return

(* ... and of what it cannot start, but it takes note.                      *)
LEMMA StartKeeps ==
  ASSUME CutoverInv, Cutover!Start
  PROVE  CutoverInv'
<1> USE CutoverAssumption
<1>1. cutoverPc = "start" /\ UNCHANGED <<new, migrated, report>> /\ Cutover!Proceed
  BY DEF Cutover!Start
<1>2. /\ at \in 1..Last /\ errors \in BOOLEAN
      /\ errors = FALSE => new[at] = "none" /\ ~original[at].renamed
  BY <1>1 DEF CutoverInv, CutoverTyped, RollsBackInOrder, RollsBack
<1>3. CASE Cutover!Running(at, TRUE) /\ UNCHANGED errors
  <2>1. /\ original' \in [1..Last -> Container]
        /\ original'[at].running = TRUE /\ original'[at].renamed = original[at].renamed
        /\ \A t \in 1..Last : t # at => original'[t] = original[t]
    BY <1>2, <1>3, RunningRow DEF CutoverInv
  <2>2. errors' = FALSE => /\ errors = FALSE /\ original'[at].running
                           /\ ~original'[at].renamed /\ new'[at] = "none"
    BY <1>1, <1>2, <1>3, <2>1
  <2>3. errors' \in BOOLEAN
    BY <1>2, <1>3
  <2> QED BY <1>1, <2>1, <2>2, <2>3, ProceedKeeps
<1>4. CASE /\ \E yes \in BOOLEAN : Cutover!Running(at, yes)
           /\ errors' = TRUE
  <2>1. /\ original' \in [1..Last -> Container] /\ errors' \in BOOLEAN /\ ~(errors' = FALSE)
        /\ \A t \in 1..Last : t # at => original'[t] = original[t]
    BY <1>2, <1>4, RunningRow DEF CutoverInv
  <2> QED BY <1>1, <2>1, ProceedKeeps
<1> QED BY <1>3, <1>4 DEF Cutover!Start

(* A rollback that met no error and finds the protected services answering  *)
(* has restored them all: also the one it did not have to look at.         *)
LEMMA ProbeKeeps ==
  ASSUME CutoverInv, Cutover!Probe
  PROVE  CutoverInv'
<1>1. /\ cutoverPc = "probe" /\ cutoverPc' = "done"
      /\ UNCHANGED <<original, new, at, migrated, errors>>
      /\ \/ report' = "rollback failed"
         \/ report' = "rolled back" /\ errors = FALSE /\ Cutover!ProtectedAnswer
  BY DEF Cutover!Probe, CutoverInv, CutoverTyped
<1>2. /\ migrated \in 1..Last
      /\ \A s \in 1..Last : s > migrated => new[s] = "none"
      /\ errors = FALSE => \A s \in 1..migrated : AsItWas(s)
  <2>1. cutoverPc \in RollsBack
    BY <1>1 DEF RollsBack
  <2>2. migrated >= 1 => migrated \in 1..Last
    BY MigratedAreServices DEF CutoverInv
  <2> QED BY <1>1, <2>1, <2>2 DEF CutoverInv, RollsBackInOrder
<1>3. \A s \in 1..Last : AsItWas(s)' <=> AsItWas(s)
  BY <1>1 DEF AsItWas
<1>4. CutoverTyped'
  BY <1>1 DEF CutoverInv, CutoverTyped
<1>5. report' = "rolled back" => \A s \in (1..migrated) \cup Probed : AsItWas(s)'
  <2> SUFFICES ASSUME report' = "rolled back", NEW s \in (1..migrated) \cup Probed
               PROVE  AsItWas(s)
    <3>1. \A s \in (1..migrated) \cup Probed : s \in 1..Last
      BY MigratedAreServices DEF CutoverInv
    <3> QED BY <1>3, <3>1
  <2>1. errors = FALSE /\ Cutover!ProtectedAnswer
    BY <1>1
  <2>2. CASE s \in 1..migrated
    BY <1>2, <2>1, <2>2
  <2>3. CASE s \in Probed /\ s \in 1..Last /\ s > migrated
    <3>1. new[s] = "none" /\ Cutover!Serves(s)
      BY <1>2, <2>1, <2>3 DEF Cutover!ProtectedAnswer
    <3> QED BY <3>1 DEF Cutover!Serves, AsItWas
  <2>4. s \in 1..migrated \/ (s \in Probed /\ s \in 1..Last /\ s > migrated)
    BY MigratedAreServices DEF CutoverInv
  <2> QED BY <2>2, <2>3, <2>4
<1>6. ReportsWhatIs'
  BY <1>1, <1>5 DEF ReportsWhatIs
<1> QED BY <1>1, <1>4, <1>6 DEF CutoverInv, ProceedsInOrder, RollsBackInOrder, Proceeds, RollsBack

LEMMA CutoverStands ==
  ASSUME CutoverInv, UNCHANGED <<original, new, at, migrated, errors, report>>,
         cutoverPc' \in {cutoverPc, "killed"}, cutoverPc' = "killed" => report = "none"
  PROVE  CutoverInv'
<1>1. CutoverTyped'
  BY DEF CutoverInv, CutoverTyped
<1>2. \A s : (AsItWas(s)' <=> AsItWas(s)) /\ (Replaced(s)' <=> Replaced(s))
  BY DEF AsItWas, Replaced
<1>3. CASE cutoverPc' = cutoverPc
  BY <1>1, <1>3
    DEF CutoverInv, ProceedsInOrder, RollsBackInOrder, ReportsWhatIs, AsItWas, Replaced
<1>4. CASE cutoverPc' = "killed"
  BY <1>1, <1>4
    DEF CutoverInv, ProceedsInOrder, RollsBackInOrder, ReportsWhatIs, Proceeds, RollsBack
<1> QED BY <1>3, <1>4

LEMMA CutoverStep ==
  ASSUME CutoverInv, Cutover!Next
  PROVE  CutoverInv'
<1>1. CASE Cutover!Kill
  <2>1. cutoverPc # "done" /\ cutoverPc' = "killed" /\ UNCHANGED <<original, new, at, migrated, errors, report>>
    BY <1>1 DEF Cutover!Kill, Cutover!script
  <2> QED BY <2>1, CutoverStands DEF CutoverInv, ReportsWhatIs
<1>2. CASE Cutover!Ended
  <2>1. UNCHANGED <<original, new, cutoverPc, at, migrated, errors, report>> /\ (cutoverPc' = "killed" => cutoverPc # "done")
    BY <1>2 DEF Cutover!Ended, Cutover!vars
  <2> QED BY <2>1, CutoverStands DEF CutoverInv, ReportsWhatIs
<1> QED
  BY <1>1, <1>2, PrecheckKeeps, StopKeeps, RenameKeeps, PolicyKeeps, UpKeeps, VerifyKeeps, PostcheckKeeps,
     RemoveKeepsCutover, ReturnKeeps, StartKeeps, ProbeKeeps
  DEF Cutover!Next

LEMMA CutoverInvariance == Behaviour => [](Is("cutover") => CutoverInv)
<1> USE CutoverAssumption
<1>1. SumInit => (Is("cutover") => CutoverInv)
  <2> SUFFICES ASSUME Cutover!Init
               PROVE  CutoverInv
    BY DEF SumInit
  <2>1. /\ original \in [1..Last -> Container] /\ new \in [1..Last -> {"none", "broken", "up"}]
        /\ \A s \in 1..Last : AsItWas(s)
    BY DEF Cutover!Init, Cutover!Services, Container, AsItWas
  <2>2. cutoverPc = "precheck" /\ at = 1 /\ migrated = 0 /\ errors = FALSE /\ report = "none"
    BY DEF Cutover!Init
  <2>3. CutoverTyped
    <3>1. at \in 0..Last + 1 /\ migrated \in 0..Last
      BY <2>2
    <3> QED BY <2>1, <2>2, <3>1 DEF CutoverTyped, Proceeds
  <2>4. ProceedsInOrder
    BY <2>1, <2>2 DEF ProceedsInOrder
  <2> QED BY <2>2, <2>3, <2>4 DEF CutoverInv, RollsBackInOrder, ReportsWhatIs, RollsBack
<1>2. (Is("cutover") => CutoverInv) /\ [SumNext]_all => (Is("cutover") => CutoverInv)'
  <2> SUFFICES ASSUME Is("cutover") => CutoverInv, [SumNext]_all, Is("cutover")'
               PROVE  CutoverInv'
    OBVIOUS
  <2>1. CutoverInv /\ (Cutover!Next \/ UNCHANGED cutoverVars)
    BY OneRuns DEF Is
  <2>2. CASE UNCHANGED cutoverVars
    <3>1. UNCHANGED <<original, new, cutoverPc, at, migrated, errors, report>>
      BY <2>2 DEF cutoverVars
    <3>2. cutoverPc = "killed" => report = "none"
      BY <2>1 DEF CutoverInv, ReportsWhatIs
    <3> QED BY <2>1, <3>1, <3>2, CutoverStands
  <2> QED BY <2>1, <2>2, CutoverStep
<1> QED BY <1>1, <1>2, PTL DEF Behaviour

(* What the cutover reports is so, for any number of services, of failures  *)
(* and of protected ports.                                                 *)
THEOREM ReportTrue == Behaviour => []ReportIsTrue
<1> USE CutoverAssumption
<1>1. (Is("cutover") => CutoverInv) => ReportIsTrue
  <2> SUFFICES ASSUME CutoverInv
               PROVE  Cutover!ReportIsTrue
    BY DEF ReportIsTrue
  <2>1. \A s \in 1..Last : original[s] \in Container
    BY DEF CutoverInv, CutoverTyped
  <2>2. \A s \in 1..Last : AsItWas(s) => Cutover!Untouched(s)
    <3> SUFFICES ASSUME NEW s \in 1..Last, AsItWas(s)
                 PROVE  Cutover!Untouched(s)
      OBVIOUS
    <3>1. original[s] \in [running : {TRUE}, renamed : {FALSE}]
      BY <2>1 DEF AsItWas, Container
    <3>2. original[s] = [running |-> TRUE, renamed |-> FALSE]
      BY <3>1
    <3> QED BY <3>2 DEF AsItWas, Cutover!Untouched
  <2>3. \A s \in 1..Last : Replaced(s) => new[s] = "up" /\ original[s] = [running |-> FALSE, renamed |-> TRUE]
    <3> SUFFICES ASSUME NEW s \in 1..Last, Replaced(s)
                 PROVE  new[s] = "up" /\ original[s] = [running |-> FALSE, renamed |-> TRUE]
      OBVIOUS
    <3>1. original[s] \in [running : {FALSE}, renamed : {TRUE}]
      BY <2>1 DEF Replaced, Container
    <3>2. original[s] = [running |-> FALSE, renamed |-> TRUE]
      BY <3>1
    <3> QED BY <3>2 DEF Replaced
  <2>4. \A s \in (1..migrated) \cup Probed : s \in 1..Last
    BY MigratedAreServices DEF CutoverInv
  <2>5. report = "success" =>
          \A s \in 1..Last : new[s] = "up" /\ original[s] = [running |-> FALSE, renamed |-> TRUE]
    BY <2>3 DEF CutoverInv, ReportsWhatIs
  <2>6. report = "rolled back" => \A s \in (1..migrated) \cup Probed : Cutover!Untouched(s)
    BY <2>2, <2>4 DEF CutoverInv, ReportsWhatIs
  <2>7. report = "failed" => \A s \in 2..Last : Cutover!Untouched(s)
    BY <2>2 DEF CutoverInv, ReportsWhatIs
  <2> QED BY <2>5, <2>6, <2>7 DEF Cutover!ReportIsTrue, Cutover!Services
<1> QED BY <1>1, CutoverInvariance, PTL
-----------------------------------------------------------------------------
(* The ledger of the control plane.                                        *)
SealedLine == [sequence : Nat, payload : Contents, previous : Seq(Contents), sealed : Contents]
Appending ==
  [pc : {"asked", "locked", "checking"}, payload : Contents] \cup [pc : {"writing"}, line : SealedLine]
  \cup [pc : {"reading"}]

LedgerTyped ==
  /\ file \in Seq(SealedLine) /\ torn \in BOOLEAN /\ cut \in BOOLEAN
  /\ append \in [Actors -> {Ledger!Idle} \cup Appending]
  /\ ledgerLog \in Seq(Contents) /\ kept \in Nat

WriterHasLock ==
  \A p \in Actors : append[p].pc \in {"locked", "writing", "checking"} => ledgerLock = p

(* A line's number and seal are those it was entered with, whatever became  *)
(* of its payload and its place.                                           *)
SealsAreTrue ==
  \A i \in DOMAIN file :
    file[i].sequence \in 1..Len(ledgerLog) /\ file[i].sealed = ledgerLog[file[i].sequence]

LastIsThere == Len(ledgerLog) > 0 => \E i \in DOMAIN file : file[i].sequence = Len(ledgerLog)

(* The line that is about to be written is the next one.                    *)
WritesTheNext ==
  \A p \in Actors : append[p].pc = "writing" =>
    append[p].line.sequence = Len(ledgerLog) + 1 /\ append[p].line.sealed = append[p].line.payload

LedgerInv ==
  /\ LedgerTyped /\ WriterHasLock /\ kept <= Len(ledgerLog)
  /\ ~cut => SealsAreTrue /\ LastIsThere /\ WritesTheNext

LEMMA AppendRow ==
  ASSUME LedgerTyped, NEW p \in Actors, NEW x \in {Ledger!Idle} \cup Appending,
         append' = [append EXCEPT ![p] = x]
  PROVE  /\ append' \in [Actors -> {Ledger!Idle} \cup Appending]
         /\ append'[p] = x /\ \A q \in Actors \ {p} : append'[q] = append[q]
BY DEF LedgerTyped

LEMMA AppendingRow ==
  ASSUME LedgerTyped, NEW p \in Actors
  PROVE  /\ append[p].pc \in {"asked", "locked", "checking"} =>
              append[p] \in [pc : {"asked", "locked", "checking"}, payload : Contents]
         /\ append[p].pc = "writing" => append[p].line \in SealedLine
         /\ append[p] = Ledger!Idle => append[p].pc = "idle"
BY DEF LedgerTyped, Appending, Ledger!Idle

(* An append goes on that neither takes the lock nor writes.                *)
LEMMA AppendGoesOn ==
  ASSUME LedgerInv, NEW p \in Actors, NEW x \in {Ledger!Idle} \cup Appending,
         append' = [append EXCEPT ![p] = x],
         x.pc \in {"idle", "asked", "reading"},
         \A q \in Actors \ {p} : append[q].pc \in {"locked", "writing", "checking"} => ledgerLock' = q,
         torn' \in BOOLEAN, kept' \in Nat, kept' <= Len(ledgerLog),
         UNCHANGED <<file, ledgerLog, cut>>
  PROVE  LedgerInv'
<1>1. /\ append' \in [Actors -> {Ledger!Idle} \cup Appending]
      /\ append'[p] = x /\ \A q \in Actors \ {p} : append'[q] = append[q]
  BY AppendRow DEF LedgerInv
<1>2. LedgerTyped'
  BY <1>1 DEF LedgerInv, LedgerTyped
<1>3. WriterHasLock'
  BY <1>1 DEF WriterHasLock
<1>4. ~cut => (SealsAreTrue /\ LastIsThere /\ WritesTheNext)'
  BY <1>1 DEF LedgerInv, SealsAreTrue, LastIsThere, WritesTheNext
<1> QED BY <1>2, <1>3, <1>4 DEF LedgerInv

LEMMA AcquireKeeps ==
  ASSUME LedgerInv, NEW p \in Actors, Ledger!Acquire(p)
  PROVE  LedgerInv'
<1> DEFINE x == [append[p] EXCEPT !.pc = "locked"]
<1>1. /\ append[p].pc = "asked" /\ ledgerLock = Ledger!Nobody /\ ledgerLock' = p
      /\ append' = [append EXCEPT ![p] = x]
      /\ UNCHANGED <<file, torn, ledgerLog, kept, cut>>
  BY DEF Ledger!Acquire, Ledger!history
<1>2. x \in Appending /\ x.pc = "locked"
  BY <1>1, AppendingRow DEF LedgerInv, Appending
<1> HIDE DEF x
<1>3. /\ append' \in [Actors -> {Ledger!Idle} \cup Appending]
      /\ append'[p] = x /\ \A q \in Actors \ {p} : append'[q] = append[q]
  BY <1>1, <1>2, AppendRow DEF LedgerInv
<1>4. LedgerTyped'
  BY <1>1, <1>3 DEF LedgerInv, LedgerTyped
<1>5. WriterHasLock'
  BY <1>1, <1>2, <1>3, ActorsAssumption DEF LedgerInv, WriterHasLock, Ledger!Nobody
<1>6. ~cut => (SealsAreTrue /\ LastIsThere /\ WritesTheNext)'
  BY <1>1, <1>2, <1>3 DEF LedgerInv, SealsAreTrue, LastIsThere, WritesTheNext
<1> QED BY <1>1, <1>4, <1>5, <1>6 DEF LedgerInv

(* Whoever has the lock prepares his line on a file that verifies: the      *)
(* entries are then all that was appended.                                 *)
LEMMA WhatVerifies ==
  ASSUME LedgerInv, Ledger!Valid, ~cut
  PROVE  Ledger!Entered(file) = ledgerLog /\ kept <= Len(file)
<1>1. /\ file \in Seq(SealedLine) /\ ledgerLog \in Seq(Contents)
      /\ kept \in Nat /\ kept <= Len(ledgerLog)
  BY DEF LedgerInv, LedgerTyped
<1>2. \A i \in 1..Len(file) :
        /\ file[i].sequence = i /\ file[i].payload = file[i].sealed
        /\ i \in 1..Len(ledgerLog) /\ file[i].sealed = ledgerLog[i]
  BY <1>1 DEF LedgerInv, SealsAreTrue, Ledger!Valid, Ledger!Verifies
<1>3. Len(file) \in Nat /\ Len(ledgerLog) \in Nat
  BY <1>1
<1>4. Len(file) <= Len(ledgerLog)
  BY <1>2, <1>3
<1>5. Len(ledgerLog) <= Len(file)
  <2>1. Len(ledgerLog) > 0 => \E i \in 1..Len(file) : file[i].sequence = Len(ledgerLog)
    BY <1>1 DEF LedgerInv, LastIsThere
  <2> QED BY <1>2, <1>3, <2>1
<1>6. Len(file) = Len(ledgerLog)
  BY <1>3, <1>4, <1>5
<1>7. Ledger!Entered(file) = [i \in 1..Len(ledgerLog) |-> ledgerLog[i]]
  BY <1>1, <1>2, <1>6 DEF Ledger!Entered
<1>8. ledgerLog = [i \in 1..Len(ledgerLog) |-> ledgerLog[i]]
  BY <1>1
<1> QED BY <1>1, <1>6, <1>7, <1>8

LEMMA PrepareKeeps ==
  ASSUME LedgerInv, NEW p \in Actors, Ledger!Prepare(p)
  PROVE  LedgerInv'
<1> DEFINE line == [sequence |-> Len(file) + 1, payload |-> append[p].payload,
                    previous |-> Ledger!Entered(file), sealed |-> append[p].payload]
           x == [pc |-> "writing", line |-> line]
<1>1. /\ append[p].pc = "locked" /\ Ledger!Valid
      /\ append' = [append EXCEPT ![p] = x]
      /\ UNCHANGED <<file, torn, ledgerLock, ledgerLog, kept, cut>>
  BY DEF Ledger!Prepare, Ledger!history
<1>2. append[p].payload \in Contents
  BY <1>1, AppendingRow DEF LedgerInv
<1>3. file \in Seq(SealedLine) /\ Len(file) \in Nat /\ ledgerLog \in Seq(Contents)
  BY DEF LedgerInv, LedgerTyped
<1>4. Ledger!Entered(file) \in Seq(Contents)
  <2>1. \A i \in 1..Len(file) : file[i].payload \in Contents
    <3>1. \A i \in 1..Len(file) : file[i] \in SealedLine
      BY <1>3, ElementOfSeq
    <3> QED BY <3>1 DEF SealedLine
  <2>2. Ledger!Entered(file) \in [1..Len(file) -> Contents]
    BY <1>3, <2>1 DEF Ledger!Entered
  <2> QED BY <1>3, <2>2
<1>5. /\ line \in SealedLine
      /\ line.sequence = Len(file) + 1 /\ line.sealed = line.payload
  BY <1>2, <1>3, <1>4 DEF SealedLine
<1> HIDE DEF line
<1>6. x \in Appending /\ x.pc = "writing" /\ x.line = line
  BY <1>5 DEF Appending
<1> HIDE DEF x
<1>7. /\ append' \in [Actors -> {Ledger!Idle} \cup Appending]
      /\ append'[p] = x /\ \A q \in Actors \ {p} : append'[q] = append[q]
  BY <1>1, <1>6, AppendRow DEF LedgerInv
<1>8. LedgerTyped'
  BY <1>1, <1>7 DEF LedgerInv, LedgerTyped
<1>9. WriterHasLock'
  BY <1>1, <1>7 DEF LedgerInv, WriterHasLock
<1>10. ~cut => Len(file) = Len(ledgerLog)
  <2> SUFFICES ASSUME ~cut
               PROVE  Len(file) = Len(ledgerLog)
    OBVIOUS
  <2>1. Ledger!Entered(file) = ledgerLog
    BY <1>1, WhatVerifies
  <2>2. Len(Ledger!Entered(file)) = Len(file)
    BY <1>3 DEF Ledger!Entered
  <2> QED BY <2>1, <2>2
<1>11. ~cut => WritesTheNext'
  BY <1>1, <1>5, <1>6, <1>7, <1>10 DEF LedgerInv, WritesTheNext
<1>12. ~cut => SealsAreTrue' /\ LastIsThere'
  BY <1>1 DEF LedgerInv, SealsAreTrue, LastIsThere
<1> QED BY <1>1, <1>8, <1>9, <1>11, <1>12 DEF LedgerInv

(* A line that is entered, by an append that goes on or that ends there.    *)
LEMMA EntryKeeps ==
  ASSUME LedgerInv, NEW p \in Actors, append[p].pc = "writing", Ledger!Enters(append[p].line),
         NEW x \in {Ledger!Idle} \cup Appending, append' = [append EXCEPT ![p] = x],
         x.pc \in {"idle", "checking"}, x.pc = "checking" => UNCHANGED ledgerLock,
         UNCHANGED <<kept, cut>>
  PROVE  LedgerInv'
<1> DEFINE line == append[p].line
<1>1. file' = Append(file, line) /\ ledgerLog' = Append(ledgerLog, line.payload) /\ UNCHANGED torn
  BY DEF Ledger!Enters
<1>2. line \in SealedLine
  BY AppendingRow DEF LedgerInv
<1>4. ~cut => line.sequence = Len(ledgerLog) + 1 /\ line.sealed = line.payload
  BY DEF LedgerInv, WritesTheNext
<1> HIDE DEF line
<1>5. /\ append' \in [Actors -> {Ledger!Idle} \cup Appending]
      /\ append'[p] = x /\ \A q \in Actors \ {p} : append'[q] = append[q]
  BY AppendRow DEF LedgerInv
<1>6. /\ file \in Seq(SealedLine) /\ ledgerLog \in Seq(Contents) /\ line.payload \in Contents
      /\ kept \in Nat /\ kept <= Len(ledgerLog)
  BY <1>2 DEF LedgerInv, LedgerTyped, SealedLine
<1>7. /\ file' \in Seq(SealedLine) /\ Len(file') = Len(file) + 1
      /\ \A i \in 1..Len(file) : file'[i] = file[i]
      /\ file'[Len(file) + 1] = line
  BY <1>1, <1>2, <1>6
<1>8. /\ ledgerLog' \in Seq(Contents) /\ Len(ledgerLog') = Len(ledgerLog) + 1
      /\ \A i \in 1..Len(ledgerLog) : ledgerLog'[i] = ledgerLog[i]
      /\ ledgerLog'[Len(ledgerLog) + 1] = line.payload
  BY <1>1, <1>6
<1>9. LedgerTyped'
  BY <1>1, <1>5, <1>7, <1>8 DEF LedgerInv, LedgerTyped
<1>10. WriterHasLock'
  BY <1>5 DEF LedgerInv, WriterHasLock
<1>11. kept' <= Len(ledgerLog')
  BY <1>1, <1>6, <1>8
<1>12. ASSUME ~cut
       PROVE  SealsAreTrue' /\ LastIsThere' /\ WritesTheNext'
  <2>1. Len(file) \in Nat /\ Len(ledgerLog) \in Nat
    BY <1>6
  <2>2. \A i \in 1..Len(file) :
          file[i].sequence \in 1..Len(ledgerLog) /\ file[i].sealed = ledgerLog[file[i].sequence]
    BY <1>6, <1>12 DEF LedgerInv, SealsAreTrue
  <2>3. \A i \in 1..Len(file) + 1 :
          /\ file'[i].sequence \in 1..Len(ledgerLog) + 1
          /\ file'[i].sealed = ledgerLog'[file'[i].sequence]
    <3> SUFFICES ASSUME NEW i \in 1..Len(file) + 1
                 PROVE  /\ file'[i].sequence \in 1..Len(ledgerLog) + 1
                        /\ file'[i].sealed = ledgerLog'[file'[i].sequence]
      OBVIOUS
    <3>1. CASE i = Len(file) + 1
      BY <1>4, <1>7, <1>8, <1>12, <2>1, <3>1
    <3>2. CASE i \in 1..Len(file)
      <4>1. file'[i] = file[i] /\ file[i].sequence \in 1..Len(ledgerLog)
            /\ file[i].sealed = ledgerLog[file[i].sequence]
        BY <1>7, <2>2, <3>2
      <4>2. ledgerLog'[file[i].sequence] = ledgerLog[file[i].sequence]
        BY <1>8, <4>1
      <4> QED BY <2>1, <4>1, <4>2
    <3> QED BY <2>1, <3>1, <3>2
  <2>4. DOMAIN file' = 1..Len(file) + 1
    BY <1>7, <2>1
  <2>5. SealsAreTrue'
    BY <1>8, <2>3, <2>4 DEF SealsAreTrue
  <2>6. LastIsThere'
    BY <1>4, <1>7, <1>8, <1>12, <2>1, <2>4 DEF LastIsThere
  <2>7. \A q \in Actors : append'[q].pc # "writing"
    BY <1>5 DEF LedgerInv, WriterHasLock
  <2> QED BY <2>5, <2>6, <2>7 DEF WritesTheNext
<1> QED BY <1>1, <1>9, <1>10, <1>11, <1>12 DEF LedgerInv

(* A line that runs on from another one, or is written in part.             *)
LEMMA NoLineKeeps ==
  ASSUME LedgerInv, NEW p \in Actors, append[p].pc = "writing", Ledger!NoLine,
         NEW x \in {Ledger!Idle} \cup Appending, append' = [append EXCEPT ![p] = x],
         x.pc \in {"idle", "checking"}, x.pc = "checking" => UNCHANGED ledgerLock,
         UNCHANGED <<kept, cut>>
  PROVE  LedgerInv'
<1>1. torn' = TRUE /\ UNCHANGED <<file, ledgerLog>>
  BY DEF Ledger!NoLine
<1>2. /\ append' \in [Actors -> {Ledger!Idle} \cup Appending]
      /\ append'[p] = x /\ \A q \in Actors \ {p} : append'[q] = append[q]
  BY AppendRow DEF LedgerInv
<1>3. LedgerTyped'
  BY <1>1, <1>2 DEF LedgerInv, LedgerTyped
<1>4. WriterHasLock'
  BY <1>2 DEF LedgerInv, WriterHasLock
<1>5. ~cut => (SealsAreTrue /\ LastIsThere /\ WritesTheNext)'
  BY <1>1, <1>2 DEF LedgerInv, SealsAreTrue, LastIsThere, WritesTheNext
<1> QED BY <1>1, <1>3, <1>4, <1>5 DEF LedgerInv

LEMMA WriteKeeps ==
  ASSUME LedgerInv, NEW p \in Actors, Ledger!Write(p)
  PROVE  LedgerInv'
<1> DEFINE x == [pc |-> "checking", payload |-> append[p].line.payload]
<1>1. /\ append[p].pc = "writing" /\ append' = [append EXCEPT ![p] = x]
      /\ UNCHANGED <<ledgerLock, kept, cut>>
      /\ Ledger!Enters(append[p].line) \/ Ledger!NoLine
  BY DEF Ledger!Write
<1>2. append[p].line \in SealedLine
  BY <1>1, AppendingRow DEF LedgerInv
<1>3. x \in Appending /\ x.pc = "checking"
  BY <1>2 DEF Appending, SealedLine
<1> HIDE DEF x
<1> QED BY <1>1, <1>3, EntryKeeps, NoLineKeeps

LEMMA TearKeeps ==
  ASSUME LedgerInv, NEW p \in Actors, Ledger!Tear(p)
  PROVE  LedgerInv'
<1>1. /\ append[p].pc = "writing" /\ append' = [append EXCEPT ![p] = Ledger!Idle]
      /\ UNCHANGED <<kept, cut>>
      /\ Ledger!Enters(append[p].line) \/ Ledger!NoLine
  BY DEF Ledger!Tear
<1>2. Ledger!Idle.pc = "idle"
  BY DEF Ledger!Idle
<1> QED BY <1>1, <1>2, EntryKeeps, NoLineKeeps

(* Edits, which need no lock.                                               *)
LEMMA EditKeeps ==
  ASSUME LedgerInv, file' \in Seq(SealedLine), cut' \in BOOLEAN, cut => cut',
         UNCHANGED <<torn, ledgerLock, append, ledgerLog, kept>>,
         ~cut' => \A i \in DOMAIN file' : \E j \in DOMAIN file :
                    file'[i].sequence = file[j].sequence /\ file'[i].sealed = file[j].sealed,
         ~cut' => \A j \in DOMAIN file : file[j].sequence = Len(ledgerLog) =>
                    \E i \in DOMAIN file' : file'[i].sequence = file[j].sequence
  PROVE  LedgerInv'
<1>1. LedgerTyped'
  BY DEF LedgerInv, LedgerTyped
<1>2. WriterHasLock' /\ kept' <= Len(ledgerLog')
  BY DEF LedgerInv, WriterHasLock
<1>3. ~cut' => SealsAreTrue'
  BY DEF LedgerInv, SealsAreTrue
<1>4. ~cut' => LastIsThere'
  BY DEF LedgerInv, LastIsThere
<1>5. ~cut' => WritesTheNext'
  BY DEF LedgerInv, WritesTheNext
<1> QED BY <1>1, <1>2, <1>3, <1>4, <1>5 DEF LedgerInv

(* An edit that is no deletion from the end leaves the last line.           *)
LEMMA DeleteKeeps ==
  ASSUME LedgerInv, NEW i \in DOMAIN file, Ledger!Delete(i)
  PROVE  LedgerInv'
<1>1. /\ file' = LineWithout(file, i)
      /\ cut' = (cut \/ \A k \in DOMAIN file : file[k].sequence <= file[i].sequence)
      /\ UNCHANGED <<torn, ledgerLock, append, ledgerLog, kept>>
  BY DEF Ledger!Delete, Ledger!Edit, LineWithout
<1>2. file \in Seq(SealedLine) /\ i \in 1..Len(file) /\ cut \in BOOLEAN
  BY LenProperties DEF LedgerInv, LedgerTyped
<1>3. /\ file' \in Seq(SealedLine)
      /\ \A j \in DOMAIN file' : \E k \in DOMAIN file : file'[j] = file[k]
      /\ \A k \in DOMAIN file : k # i => \E j \in DOMAIN file' : file'[j] = file[k]
  BY <1>1, <1>2, LineRemoved
<1>4. cut' \in BOOLEAN /\ (cut => cut')
  BY <1>1, <1>2
<1>5. ASSUME ~cut', NEW k \in DOMAIN file, file[k].sequence = Len(ledgerLog)
      PROVE  \E j \in DOMAIN file' : file'[j].sequence = file[k].sequence
  <2>1. ~cut /\ SealsAreTrue
    BY <1>1, <1>5 DEF LedgerInv
  <2>2. PICK l \in DOMAIN file : ~(file[l].sequence <= file[i].sequence)
    BY <1>1, <1>5
  <2>3. /\ file[l].sequence \in 1..Len(ledgerLog) /\ file[i].sequence \in 1..Len(ledgerLog)
        /\ Len(ledgerLog) \in Nat
    BY <2>1 DEF SealsAreTrue, LedgerInv, LedgerTyped
  <2>4. file[i].sequence # Len(ledgerLog)
    BY <2>2, <2>3
  <2>5. k # i
    BY <1>5, <2>4
  <2> QED BY <1>3, <2>5
<1> QED BY <1>1, <1>3, <1>4, <1>5, EditKeeps

LEMMA AlterKeeps ==
  ASSUME LedgerInv, NEW i \in DOMAIN file, NEW d \in Contents, Ledger!Alter(i, d)
  PROVE  LedgerInv'
<1> DEFINE x == [file[i] EXCEPT !.payload = d]
<1>1. /\ file' = [file EXCEPT ![i] = x]
      /\ UNCHANGED <<torn, ledgerLock, append, ledgerLog, kept, cut>>
  BY DEF Ledger!Alter, Ledger!Edit
<1>2. file \in Seq(SealedLine) /\ i \in 1..Len(file) /\ DOMAIN file = 1..Len(file)
  BY LenProperties DEF LedgerInv, LedgerTyped
<1>3. file[i] \in SealedLine
  BY <1>2, ElementOfSeq
<1>4. x \in SealedLine /\ x.sequence = file[i].sequence /\ x.sealed = file[i].sealed
  BY <1>3 DEF SealedLine
<1> HIDE DEF x
<1>5. /\ file' \in Seq(SealedLine) /\ DOMAIN file' = DOMAIN file
      /\ file'[i] = x /\ \A j \in DOMAIN file : j # i => file'[j] = file[j]
  BY <1>1, <1>2, <1>4
<1>6. \A j \in DOMAIN file : file'[j].sequence = file[j].sequence /\ file'[j].sealed = file[j].sealed
  BY <1>4, <1>5
<1>7. cut' \in BOOLEAN /\ (cut => cut')
  BY <1>1 DEF LedgerInv, LedgerTyped
<1> QED BY <1>1, <1>5, <1>6, <1>7, EditKeeps

LEMMA ReorderKeeps ==
  ASSUME LedgerInv, NEW i \in DOMAIN file, NEW j \in DOMAIN file, Ledger!Reorder(i, j)
  PROVE  LedgerInv'
<1>1. /\ file' = [file EXCEPT ![i] = file[j], ![j] = file[i]] /\ i < j
      /\ UNCHANGED <<torn, ledgerLock, append, ledgerLog, kept, cut>>
  BY DEF Ledger!Reorder, Ledger!Edit
<1>2. /\ file \in Seq(SealedLine) /\ DOMAIN file = 1..Len(file)
      /\ i \in 1..Len(file) /\ j \in 1..Len(file)
  BY LenProperties DEF LedgerInv, LedgerTyped
<1>3. file[i] \in SealedLine /\ file[j] \in SealedLine /\ i # j
  BY <1>1, <1>2, ElementOfSeq
<1>4. /\ file' \in Seq(SealedLine) /\ DOMAIN file' = DOMAIN file
      /\ file'[i] = file[j] /\ file'[j] = file[i]
      /\ \A k \in DOMAIN file : k # i /\ k # j => file'[k] = file[k]
  BY <1>1, <1>2, <1>3
<1>5. /\ \A k \in DOMAIN file' : \E l \in DOMAIN file : file'[k] = file[l]
      /\ \A l \in DOMAIN file : \E k \in DOMAIN file' : file'[k] = file[l]
  BY <1>4
<1>6. cut' \in BOOLEAN /\ (cut => cut')
  BY <1>1 DEF LedgerInv, LedgerTyped
<1> QED BY <1>1, <1>4, <1>5, <1>6, EditKeeps

LEMMA LedgerStep ==
  ASSUME LedgerInv, Ledger!Next
  PROVE  LedgerInv'
<1> USE DEF Ledger!history
<1> DEFINE Started == [pc : {"idle"}] \cup [pc : {"reading"}] \cup [pc : {"asked"}, payload : Contents]
<1>1. /\ Started \subseteq {Ledger!Idle} \cup Appending
      /\ \A x \in Started : x.pc \in {"idle", "asked", "reading"}
  BY DEF Ledger!Idle, Appending
<1>2. Ledger!Idle \in Started /\ [pc |-> "reading"] \in Started
      /\ \A d \in Contents : [pc |-> "asked", payload |-> d] \in Started
  BY DEF Ledger!Idle
<1> HIDE DEF Started
<1>3. ASSUME NEW p \in Actors, NEW x \in Started, append' = [append EXCEPT ![p] = x],
             \/ append[p].pc \in {"locked", "checking", "writing"} /\ ledgerLock' = Ledger!Nobody
             \/ ledgerLock' = IF ledgerLock = p THEN Ledger!Nobody ELSE ledgerLock
             \/ UNCHANGED ledgerLock,
             torn' \in BOOLEAN, kept' \in Nat, kept' <= Len(ledgerLog),
             UNCHANGED <<file, ledgerLog, cut>>
      PROVE  LedgerInv'
  <2>1. x \in {Ledger!Idle} \cup Appending /\ x.pc \in {"idle", "asked", "reading"}
    BY <1>1
  <2>2. \A q \in Actors \ {p} :
          append[q].pc \in {"locked", "writing", "checking"} => ledgerLock' = q
    BY <1>3 DEF LedgerInv, WriterHasLock
  <2> QED BY <1>3, <2>1, <2>2, AppendGoesOn
<1>4. /\ torn \in BOOLEAN /\ kept \in Nat /\ kept <= Len(ledgerLog)
      /\ Len(ledgerLog) \in Nat
  BY DEF LedgerInv, LedgerTyped
<1>5. CASE \E p \in Actors, d \in Contents : Ledger!Ask(p, d)
  BY <1>2, <1>3, <1>4, <1>5 DEF Ledger!Ask
<1>6. CASE \E p \in Actors : Ledger!BeginVerify(p) \/ Ledger!EndVerify(p)
  BY <1>2, <1>3, <1>4, <1>6 DEF Ledger!BeginVerify, Ledger!EndVerify
<1>7. CASE \E p \in Actors : Ledger!Refuse(p)
  BY <1>2, <1>3, <1>4, <1>7 DEF Ledger!Refuse
<1>8. CASE \E p \in Actors : Ledger!Tear(p)
  BY <1>8, TearKeeps
<1>9. CASE \E p \in Actors : Ledger!Crash(p)
  BY <1>2, <1>3, <1>4, <1>9 DEF Ledger!Crash
<1>10. CASE \E p \in Actors : Ledger!Acknowledge(p)
  <2> PICK p \in Actors : Ledger!Acknowledge(p)
    BY <1>10
  <2>1. /\ append[p].pc = "checking" /\ ledgerLock' = Ledger!Nobody /\ kept' = Len(ledgerLog)
        /\ append' = [append EXCEPT ![p] = Ledger!Idle]
        /\ UNCHANGED <<file, torn, ledgerLog, cut>>
    BY DEF Ledger!Acknowledge
  <2>2. torn' \in BOOLEAN /\ kept' \in Nat /\ kept' <= Len(ledgerLog)
    BY <1>4, <2>1
  <2> QED BY <1>2, <1>3, <2>1, <2>2
<1>11. CASE \E p \in Actors : Ledger!Acquire(p) \/ Ledger!Prepare(p) \/ Ledger!Write(p)
  BY <1>11, AcquireKeeps, PrepareKeeps, WriteKeeps
<1>12. CASE \E i \in DOMAIN file, d \in Contents : Ledger!Alter(i, d)
  BY <1>12, AlterKeeps
<1>13. CASE \E i \in DOMAIN file : Ledger!Delete(i)
  BY <1>13, DeleteKeeps
<1>14. CASE \E i, j \in DOMAIN file : Ledger!Reorder(i, j)
  BY <1>14, ReorderKeeps
<1> QED BY <1>5, <1>6, <1>7, <1>8, <1>9, <1>10, <1>11, <1>12, <1>13, <1>14 DEF Ledger!Next

LEMMA LedgerInvariance == Behaviour => [](Is("ledger") => LedgerInv)
<1>1. SumInit => (Is("ledger") => LedgerInv)
  <2> SUFFICES ASSUME Ledger!Init
               PROVE  LedgerInv
    BY DEF SumInit
  <2>1. /\ file = <<>> /\ ledgerLog = <<>> /\ kept = 0 /\ torn = FALSE /\ cut = FALSE
        /\ append \in [Actors -> {Ledger!Idle} \cup Appending]
        /\ \A p \in Actors : append[p].pc = "idle"
    BY DEF Ledger!Init, Ledger!Idle
  <2>2. LedgerTyped /\ kept <= Len(ledgerLog)
    <3>1. <<>> \in Seq(SealedLine) /\ <<>> \in Seq(Contents) /\ Len(<<>>) = 0
      OBVIOUS
    <3>2. kept \in Nat /\ kept <= Len(ledgerLog)
      BY <2>1, <3>1
    <3> QED BY <2>1, <3>1, <3>2 DEF LedgerTyped
  <2>3. WriterHasLock /\ SealsAreTrue /\ LastIsThere /\ WritesTheNext
    BY <2>1 DEF WriterHasLock, SealsAreTrue, LastIsThere, WritesTheNext
  <2> QED BY <2>2, <2>3 DEF LedgerInv
<1>2. (Is("ledger") => LedgerInv) /\ [SumNext]_all => (Is("ledger") => LedgerInv)'
  <2> SUFFICES ASSUME Is("ledger") => LedgerInv, [SumNext]_all, Is("ledger")'
               PROVE  LedgerInv'
    OBVIOUS
  <2>1. LedgerInv /\ (Ledger!Next \/ UNCHANGED ledgerVars)
    BY OneRuns DEF Is
  <2>2. CASE UNCHANGED ledgerVars
    BY <2>1, <2>2
      DEF ledgerVars, LedgerInv, LedgerTyped, WriterHasLock, SealsAreTrue, LastIsThere, WritesTheNext
  <2> QED BY <2>1, <2>2, LedgerStep
<1> QED BY <1>1, <1>2, PTL DEF Behaviour

(* A file that verifies is what was appended and holds all that was         *)
(* acknowledged, unless lines were removed from its end, for any number of *)
(* processes and payloads, any length and any number of edits.             *)
THEOREM VerifiesIsTrue == Behaviour => []WhatVerifiesIsTrue
<1>1. (Is("ledger") => LedgerInv) => WhatVerifiesIsTrue
  BY WhatVerifies DEF WhatVerifiesIsTrue, Ledger!WhatVerifiesIsTrue
<1> QED BY <1>1, LedgerInvariance, PTL
-----------------------------------------------------------------------------
(* The audit trail.                                                        *)
Placed(s) == {<<i, s[i]>> : i \in DOMAIN s}
Noted(a) == {<<i, a[i].event>> : i \in DOMAIN a}
Notes == SUBSET (Nat \X Contents)
AuditLine == {Audit!Torn} \cup [event : Contents, signed : Contents, previous : Seq(Contents)]
Logging == [pc : {"locked", "append", "save", "return"}, event : Contents]
Reading == [pc : {"listed", "reading", "verified", "trusted"}, op : {"verify", "tail", "report"},
            chain : Seq(Contents), seen : Seq(Contents), promised : Notes, edited : BOOLEAN]

AuditTyped ==
  /\ audit \in Seq(AuditLine) /\ chain \in Seq(Contents) /\ promised \in Notes
  /\ call \in [Actors -> {Audit!Idle} \cup Logging \cup Reading]

LoggerHasLock ==
  \A p \in Actors : call[p].pc \in {"locked", "append", "save", "return"} => auditLock = p

(* The chain state holds what log returned for, and was written.           *)
ChainIsTrue ==
  /\ promised \subseteq Placed(chain) /\ Placed(chain) \subseteq written
  /\ \A p \in Actors :
       /\ call[p].pc = "save" => <<Len(chain) + 1, call[p].event>> \in written
       /\ call[p].pc = "return" => Len(chain) > 0 /\ chain[Len(chain)] = call[p].event

(* What a reader x knows, of a log a, a chain state c, what was written, w, *)
(* and promised, g, while a process is about to append, b.  What was        *)
(* appended after report's reading follows all that log had returned for;  *)
(* what will be appended after tail's verification follows what it saw.    *)
Listed(x, a) ==
  /\ Len(x.seen) =< Len(a) /\ \A i \in 1..Len(x.seen) : x.seen[i] = a[i].event
  /\ Len(x.seen) < Len(a) =>
       \/ a[Len(x.seen) + 1] = Audit!Torn
       \/ \A t \in x.promised : t[1] =< Len(a[Len(x.seen) + 1].previous)
Verified(x, a, c, w, b) ==
  /\ b => Len(a) = Len(c)
  /\ x.promised \subseteq Noted(a)
  /\ \A i \in DOMAIN a : a[i] # Audit!Torn => <<i, a[i].event>> \in w
Reads(x, a, c, w, g, b) ==
  /\ x.pc \in {"listed", "reading", "verified"} => x.promised \subseteq g
  /\ x.pc = "reading" => x.promised \subseteq Placed(x.chain) /\ Placed(x.chain) \subseteq w
  /\ x.pc \in {"listed", "reading"} /\ x.op = "report" /\ ~x.edited => Listed(x, a)
  /\ x.pc = "reading" /\ x.op = "tail" /\ ~x.edited /\ b => Len(a) = Len(c) \/ x.chain = c
  /\ x.pc = "verified" => x.op = "tail"
  /\ x.pc = "verified" /\ ~x.edited => Verified(x, a, c, w, b)
  /\ x.pc = "trusted" /\ (x.op = "verify" \/ ~x.edited) =>
       x.promised \subseteq Placed(x.seen) /\ Placed(x.seen) \subseteq w

AppendOpen == \E p \in Actors : call[p].pc = "append"
ReadersKnow == \A p \in Actors : Reads(call[p], audit, chain, written, promised, AppendOpen)

AuditInv == AuditTyped /\ LoggerHasLock /\ ChainIsTrue /\ ReadersKnow

LEMMA CallRow ==
  ASSUME AuditTyped, NEW p \in Actors
  PROVE  /\ call[p].pc \in {"locked", "append", "save", "return"} => call[p] \in Logging
         /\ call[p].pc \in {"listed", "reading", "verified", "trusted"} => call[p] \in Reading
         /\ call[p] = Audit!Idle => call[p].pc = "idle"
         /\ call[p].pc \in {"idle", "locked", "append", "save", "return",
                            "listed", "reading", "verified", "trusted"}
BY DEF AuditTyped, Logging, Reading, Audit!Idle

LEMMA CallBecomes ==
  ASSUME AuditTyped, NEW p \in Actors, NEW x \in {Audit!Idle} \cup Logging \cup Reading,
         Audit!Becomes(p, x)
  PROVE  /\ call' \in [Actors -> {Audit!Idle} \cup Logging \cup Reading]
         /\ call'[p] = x /\ \A q \in Actors \ {p} : call'[q] = call[q]
BY DEF AuditTyped, Audit!Becomes

LEMMA LoggingBecomes ==
  ASSUME AuditTyped, NEW p \in Actors, NEW pc \in {"append", "save", "return"},
         call[p] \in Logging, Audit!Goes(p, pc)
  PROVE  /\ call' \in [Actors -> {Audit!Idle} \cup Logging \cup Reading]
         /\ call'[p].pc = pc /\ call'[p].event = call[p].event
         /\ \A q \in Actors \ {p} : call'[q] = call[q]
<1> DEFINE x == [call[p] EXCEPT !.pc = pc]
<1>1. x \in Logging /\ x.pc = pc /\ x.event = call[p].event
  BY DEF Logging
<1>2. Audit!Becomes(p, x)
  BY DEF Audit!Goes
<1> HIDE DEF x
<1> QED BY <1>1, <1>2, CallBecomes

(* What was entered, as a sequence.                                        *)
LEMMA EnteredEvents ==
  ASSUME NEW a \in Seq(AuditLine), \A i \in DOMAIN a : a[i] # Audit!Torn
  PROVE  /\ Audit!Entered(a) \in Seq(Contents) /\ Len(Audit!Entered(a)) = Len(a)
         /\ DOMAIN a = 1..Len(a) /\ Placed(Audit!Entered(a)) = Noted(a)
         /\ \A i \in 1..Len(a) : Audit!Entered(a)[i] = a[i].event
<1> DEFINE e == Audit!Entered(a)
<1>1. DOMAIN a = 1..Len(a) /\ Len(a) \in Nat /\ \A i \in 1..Len(a) : a[i] \in AuditLine
  BY LenProperties, ElementOfSeq
<1>2. \A i \in 1..Len(a) : a[i].event \in Contents
  BY <1>1 DEF AuditLine
<1>3. e = [i \in 1..Len(a) |-> a[i].event]
  BY <1>1 DEF Audit!Entered
<1>4. e \in [1..Len(a) -> Contents] /\ DOMAIN e = 1..Len(a) /\ \A i \in 1..Len(a) : e[i] = a[i].event
  BY <1>2, <1>3
<1> HIDE DEF e
<1>5. e \in Seq(Contents)
  BY <1>1, <1>4
<1>6. Len(e) = Len(a)
  BY <1>1, <1>4, <1>5, LenProperties
<1>7. Placed(e) = Noted(a)
  BY <1>1, <1>4 DEF Placed, Noted
<1> QED BY <1>1, <1>4, <1>5, <1>6, <1>7 DEF e

LEMMA PlacedAppended ==
  ASSUME NEW s \in Seq(Contents), NEW e \in Contents
  PROVE  /\ Append(s, e) \in Seq(Contents)
         /\ Len(Append(s, e)) = Len(s) + 1 /\ Append(s, e)[Len(s) + 1] = e
         /\ Placed(Append(s, e)) = Placed(s) \cup {<<Len(s) + 1, e>>}
<1> DEFINE t == Append(s, e)
<1>1. /\ t \in Seq(Contents) /\ Len(t) = Len(s) + 1 /\ Len(s) \in Nat
      /\ t[Len(s) + 1] = e /\ \A i \in 1..Len(s) : t[i] = s[i]
  OBVIOUS
<1>2. DOMAIN s = 1..Len(s) /\ DOMAIN t = 1..Len(s) + 1
  BY <1>1, LenProperties
<1> HIDE DEF t
<1>3. Placed(t) = Placed(s) \cup {<<Len(s) + 1, e>>}
  <2>1. \A i : i \in 1..Len(s) + 1 <=> (i \in 1..Len(s) \/ i = Len(s) + 1)
    BY <1>1
  <2>2. Placed(t) = {<<i, t[i]>> : i \in 1..Len(s)} \cup {<<Len(s) + 1, t[Len(s) + 1]>>}
    BY <1>2, <2>1 DEF Placed
  <2>3. {<<i, t[i]>> : i \in 1..Len(s)} = {<<i, s[i]>> : i \in 1..Len(s)}
    BY <1>1
  <2> QED BY <1>1, <1>2, <2>2, <2>3 DEF Placed
<1> QED BY <1>1, <1>3 DEF t

(* Readers are not disturbed by what is written or promised, ...           *)
LEMMA ReadsStay ==
  ASSUME NEW x, NEW a, NEW c, NEW w, NEW g, NEW b, Reads(x, a, c, w, g, b),
         NEW w2, NEW g2, NEW b2, w \subseteq w2, g \subseteq g2, b2 => b
  PROVE  Reads(x, a, c, w2, g2, b2)
BY DEF Reads, Verified

(* ... by a chain state that is replaced when nobody is about to append, ... *)
LEMMA ReadsWhenSaved ==
  ASSUME NEW x, NEW a, NEW c, NEW w, NEW g, NEW b, Reads(x, a, c, w, g, b), NEW c2
  PROVE  Reads(x, a, c2, w, g, FALSE)
BY DEF Reads, Verified

(* ... by a process that has verified that the log is the chain state's, ... *)
LEMMA ReadsWhenVerified ==
  ASSUME NEW x, NEW a, NEW c, NEW w, NEW g, NEW b, Reads(x, a, c, w, g, b), Len(a) = Len(c)
  PROVE  Reads(x, a, c, w, g, TRUE)
BY DEF Reads, Verified

(* ... by an entry, or a part of one, that it appends then.                *)
LEMMA ReadsWhenAppended ==
  ASSUME NEW a \in Seq(AuditLine), NEW c \in Seq(Contents), NEW w, NEW g, NEW x,
         Reads(x, a, c, w, g, TRUE), x \in Reading \/ x.pc \notin {"listed", "reading", "verified", "trusted"},
         g \subseteq Placed(c),
         NEW line \in AuditLine, NEW w2, w \subseteq w2,
         line # Audit!Torn => line.previous = c /\ <<Len(c) + 1, line.event>> \in w2
  PROVE  Reads(x, Append(a, line), c, w2, g, FALSE)
<1> DEFINE a2 == Append(a, line)
<1>1. /\ Len(a) \in Nat /\ Len(a2) = Len(a) + 1 /\ a2[Len(a) + 1] = line
      /\ \A i \in 1..Len(a) : a2[i] = a[i]
      /\ DOMAIN a = 1..Len(a) /\ DOMAIN a2 = 1..Len(a) + 1
  <2>1. a2 \in Seq(AuditLine) /\ Len(a2) = Len(a) + 1 /\ Len(a) \in Nat
    OBVIOUS
  <2>2. a2[Len(a) + 1] = line /\ \A i \in 1..Len(a) : a2[i] = a[i]
    OBVIOUS
  <2> QED BY <2>1, <2>2, LenProperties
<1> HIDE DEF a2
<1>2. ASSUME x \in Reading, Listed(x, a), x.promised \subseteq g PROVE Listed(x, a2)
  <2>1. Len(x.seen) \in Nat
    BY <1>2 DEF Reading
  <2>2. Len(x.seen) =< Len(a2) /\ \A i \in 1..Len(x.seen) : x.seen[i] = a2[i].event
    BY <1>1, <1>2, <2>1 DEF Listed
  <2>3. CASE Len(x.seen) < Len(a)
    <3>1. a2[Len(x.seen) + 1] = a[Len(x.seen) + 1]
      BY <1>1, <2>1, <2>3
    <3> QED BY <1>2, <2>2, <2>3, <3>1 DEF Listed
  <2>4. CASE Len(x.seen) = Len(a)
    <3>1. \A t \in x.promised : t[1] =< Len(c)
      <4>1. \A i \in DOMAIN c : i =< Len(c)
        BY LenProperties
      <4> QED BY <1>2, <4>1 DEF Placed
    <3> QED BY <1>1, <2>2, <2>4, <3>1 DEF Listed
  <2> QED BY <1>1, <1>2, <2>1, <2>3, <2>4 DEF Listed
<1>3. ASSUME Verified(x, a, c, w, TRUE) PROVE Verified(x, a2, c, w2, FALSE)
  <2>1. Noted(a) \subseteq Noted(a2)
    BY <1>1 DEF Noted
  <2>2. \A i \in DOMAIN a2 : a2[i] # Audit!Torn => <<i, a2[i].event>> \in w2
    <3> SUFFICES ASSUME NEW i \in 1..Len(a) + 1, a2[i] # Audit!Torn
                 PROVE  <<i, a2[i].event>> \in w2
      BY <1>1
    <3>1. CASE i \in 1..Len(a)
      BY <1>1, <1>3, <3>1 DEF Verified
    <3>2. CASE i = Len(a) + 1
      BY <1>1, <1>3, <3>2 DEF Verified
    <3> QED BY <1>1, <3>1, <3>2
  <2> QED BY <1>3, <2>1, <2>2 DEF Verified
<1>4. Reads(x, a2, c, w2, g, FALSE)
  BY <1>2, <1>3 DEF Reads
<1> QED BY <1>4 DEF a2

(* A call goes on, and neither the log nor the chain state changes.         *)
LEMMA CallKeeps ==
  ASSUME AuditInv, NEW p \in Actors,
         call' \in [Actors -> {Audit!Idle} \cup Logging \cup Reading],
         \A q \in Actors \ {p} : call'[q] = call[q],
         call'[p].pc \in {"locked", "append", "save", "return"} => auditLock' = p,
         \A q \in Actors \ {p} :
           call[q].pc \in {"locked", "append", "save", "return"} => auditLock' = q,
         UNCHANGED <<audit, chain, written, promised>>,
         call'[p].pc \notin {"save", "return"},
         call'[p].pc = "append" => Len(audit) = Len(chain),
         Reads(call'[p], audit, chain, written, promised, AppendOpen)
  PROVE  AuditInv'
<1>1. AuditTyped'
  BY DEF AuditInv, AuditTyped
<1>2. LoggerHasLock'
  BY DEF LoggerHasLock
<1>3. ChainIsTrue'
  BY DEF AuditInv, ChainIsTrue, Placed
<1>4. \A q \in Actors : Reads(call'[q], audit, chain, written, promised, AppendOpen)
  BY DEF AuditInv, ReadersKnow
<1>5. CASE call'[p].pc = "append"
  <2>1. \A q \in Actors : Reads(call'[q], audit, chain, written, promised, TRUE)
    BY <1>4, <1>5, ReadsWhenVerified
  <2>2. AppendOpen'
    BY <1>5 DEF AppendOpen
  <2>3. \A q \in Actors : Reads(call'[q], audit, chain, written, promised, AppendOpen')
    BY <2>1, <2>2, ReadsStay
  <2> QED BY <1>1, <1>2, <1>3, <2>3 DEF AuditInv, ReadersKnow
<1>6. CASE call'[p].pc # "append"
  <2>1. AppendOpen' => AppendOpen
    BY <1>6 DEF AppendOpen
  <2>2. \A q \in Actors : Reads(call'[q], audit, chain, written, promised, AppendOpen')
    BY <1>4, <2>1, ReadsStay
  <2> QED BY <1>1, <1>2, <1>3, <2>2 DEF AuditInv, ReadersKnow
<1> QED BY <1>5, <1>6

LEMMA NoReader ==
  ASSUME NEW x, x.pc \notin {"listed", "reading", "verified", "trusted"},
         NEW a, NEW c, NEW w, NEW g, NEW b
  PROVE  Reads(x, a, c, w, g, b)
BY DEF Reads

LEMMA LogKeeps ==
  ASSUME AuditInv, NEW p \in Actors, NEW event \in Contents, Audit!Log(p, event)
  PROVE  AuditInv'
<1> DEFINE x == [pc |-> "locked", event |-> event]
<1>1. x \in Logging /\ x.pc = "locked"
  BY DEF Logging
<1>2. /\ auditLock = Audit!Nobody /\ auditLock' = p /\ Audit!Becomes(p, x)
      /\ UNCHANGED <<audit, chain, written, promised>>
  BY DEF Audit!Log
<1> HIDE DEF x
<1>3. \A q \in Actors : call[q].pc \notin {"locked", "append", "save", "return"}
  BY <1>2, ActorsAssumption DEF AuditInv, LoggerHasLock, Audit!Nobody
<1>4. /\ call' \in [Actors -> {Audit!Idle} \cup Logging \cup Reading]
      /\ call'[p] = x /\ \A q \in Actors \ {p} : call'[q] = call[q]
  BY <1>1, <1>2, CallBecomes DEF AuditInv
<1>5. Reads(call'[p], audit, chain, written, promised, AppendOpen)
  BY <1>1, <1>4, NoReader
<1> QED BY <1>1, <1>2, <1>3, <1>4, <1>5, CallKeeps

LEMMA AuditVerifyKeeps ==
  ASSUME AuditInv, NEW p \in Actors, Audit!Verify(p)
  PROVE  AuditInv'
<1>1. /\ call[p].pc = "locked" /\ UNCHANGED <<audit, chain, written, promised>> /\ auditLock = p
      /\ \A q \in Actors \ {p} : call[q].pc \notin {"locked", "append", "save", "return"}
  BY DEF Audit!Verify, Audit!At, AuditInv, LoggerHasLock
<1>2. CASE Audit!Goes(p, "append") /\ UNCHANGED auditLock /\ Audit!Valid(audit, chain)
  <2>1. call[p] \in Logging /\ AuditTyped
    BY <1>1, CallRow DEF AuditInv
  <2>2. /\ call' \in [Actors -> {Audit!Idle} \cup Logging \cup Reading]
        /\ call'[p].pc = "append" /\ \A q \in Actors \ {p} : call'[q] = call[q]
    BY <1>2, <2>1, LoggingBecomes
  <2>3. Len(audit) = Len(chain)
    <3>1. (\A i \in DOMAIN audit : audit[i] # Audit!Torn) /\ Audit!Entered(audit) = chain
      BY <1>2 DEF Audit!Valid, Audit!Links
    <3> QED BY <2>1, <3>1, EnteredEvents DEF AuditTyped
  <2>4. Reads(call'[p], audit, chain, written, promised, AppendOpen)
    BY <2>2, NoReader
  <2> QED BY <1>1, <1>2, <2>2, <2>3, <2>4, CallKeeps
<1>3. CASE Audit!Becomes(p, Audit!Idle)
  <2>1. /\ call' \in [Actors -> {Audit!Idle} \cup Logging \cup Reading]
        /\ call'[p].pc = "idle" /\ \A q \in Actors \ {p} : call'[q] = call[q]
    BY <1>3, CallBecomes DEF AuditInv, Audit!Idle
  <2>2. Reads(call'[p], audit, chain, written, promised, AppendOpen)
    BY <2>1, NoReader
  <2> QED BY <1>1, <2>1, <2>2, CallKeeps
<1> QED BY <1>2, <1>3 DEF Audit!Verify

LEMMA AppendEntryKeeps ==
  ASSUME AuditInv, NEW p \in Actors, Audit!AppendEntry(p)
  PROVE  AuditInv'
<1>1. /\ call[p].pc = "append" /\ UNCHANGED <<chain, promised>> /\ auditLock = p
      /\ \A q \in Actors \ {p} : call[q].pc \notin {"locked", "append", "save", "return"}
  BY DEF Audit!AppendEntry, Audit!At, AuditInv, LoggerHasLock
<1>2. call[p] \in Logging /\ AuditTyped
  BY <1>1, CallRow DEF AuditInv
<1> DEFINE event == call[p].event
           entry == [event |-> event, signed |-> event, previous |-> chain]
<1>3. event \in Contents /\ chain \in Seq(Contents)
  BY <1>2 DEF Logging, AuditTyped
<1>4. entry \in AuditLine /\ Audit!Torn \in AuditLine /\ entry.event = event /\ entry.previous = chain
  BY <1>3 DEF AuditLine
<1>5. PICK line \in AuditLine :
        /\ audit' = Append(audit, line) /\ written \subseteq written'
        /\ line # Audit!Torn => line.previous = chain /\ <<Len(chain) + 1, line.event>> \in written'
        /\ \/ /\ Audit!Goes(p, "save") /\ UNCHANGED auditLock
              /\ <<Len(chain) + 1, event>> \in written'
           \/ Audit!Becomes(p, Audit!Idle)
  <2>1. \/ /\ audit' = Append(audit, entry) /\ written' = written \cup {<<Len(chain) + 1, event>>}
           /\ (Audit!Goes(p, "save") /\ UNCHANGED auditLock) \/ Audit!Becomes(p, Audit!Idle)
        \/ audit' = Append(audit, Audit!Torn) /\ written' = written /\ Audit!Becomes(p, Audit!Idle)
    BY DEF Audit!AppendEntry
  <2> HIDE DEF entry, event
  <2> QED BY <1>4, <2>1
<1> HIDE DEF entry, event
<1>6. /\ call' \in [Actors -> {Audit!Idle} \cup Logging \cup Reading]
      /\ \A q \in Actors \ {p} : call'[q] = call[q]
      /\ \/ /\ call'[p].pc = "save" /\ call'[p].event = event /\ UNCHANGED auditLock
            /\ <<Len(chain) + 1, event>> \in written'
         \/ call'[p].pc = "idle"
  <2>1. CASE Audit!Goes(p, "save") /\ UNCHANGED auditLock /\ <<Len(chain) + 1, event>> \in written'
    BY <1>2, <2>1, LoggingBecomes DEF event
  <2>2. CASE Audit!Becomes(p, Audit!Idle)
    BY <1>2, <2>2, CallBecomes DEF Audit!Idle
  <2> QED BY <1>5, <2>1, <2>2
<1>7. AuditTyped'
  <2>1. audit' \in Seq(AuditLine)
    BY <1>2, <1>5, AppendProperties DEF AuditTyped
  <2> QED BY <1>1, <1>2, <1>6, <2>1 DEF AuditTyped
<1>8. LoggerHasLock'
  BY <1>1, <1>6 DEF LoggerHasLock
<1>9. ChainIsTrue'
  <2>1. promised \subseteq Placed(chain) /\ Placed(chain) \subseteq written'
    BY <1>5 DEF AuditInv, ChainIsTrue
  <2>2. \A q \in Actors :
          /\ call'[q].pc = "save" => <<Len(chain) + 1, call'[q].event>> \in written'
          /\ call'[q].pc # "return"
    BY <1>1, <1>6
  <2> QED BY <1>1, <2>1, <2>2 DEF ChainIsTrue, Placed
<1>10. ~AppendOpen'
  BY <1>1, <1>6 DEF AppendOpen
<1>11. ASSUME NEW q \in Actors PROVE Reads(call'[q], audit', chain, written', promised, FALSE)
  <2>1. CASE q = p
    BY <1>6, <2>1, NoReader
  <2>2. CASE q # p
    <3>1. AppendOpen /\ Reads(call[q], audit, chain, written, promised, AppendOpen)
      BY <1>1 DEF AppendOpen, AuditInv, ReadersKnow
    <3>2. Reads(call[q], audit, chain, written, promised, TRUE)
      BY <3>1, ReadsStay
    <3>3. call[q] \in Reading \/ call[q].pc \notin {"listed", "reading", "verified", "trusted"}
      BY <1>2, CallRow
    <3>4. audit \in Seq(AuditLine) /\ promised \subseteq Placed(chain)
      BY <1>2 DEF AuditTyped, AuditInv, ChainIsTrue
    <3>5. Reads(call[q], Append(audit, line), chain, written', promised, FALSE)
      BY <1>3, <1>5, <3>2, <3>3, <3>4, ReadsWhenAppended
    <3> QED BY <1>5, <1>6, <2>2, <3>5
  <2> QED BY <2>1, <2>2
<1>12. \A q \in Actors : Reads(call'[q], audit', chain', written', promised', AppendOpen')
  BY <1>1, <1>10, <1>11, ReadsStay
<1> QED BY <1>7, <1>8, <1>9, <1>12 DEF AuditInv, ReadersKnow

(* _save_chain gives the chain state the event that was just entered.       *)
LEMMA ChainSaved ==
  ASSUME AuditInv, NEW p \in Actors, call[p].pc = "save",
         call' \in [Actors -> {Audit!Idle} \cup Logging \cup Reading],
         \A q \in Actors \ {p} : call'[q] = call[q],
         chain' = Append(chain, call[p].event), UNCHANGED <<audit, written, promised>>,
         \/ call'[p].pc = "idle"
         \/ call'[p].pc = "return" /\ call'[p].event = call[p].event /\ UNCHANGED auditLock
  PROVE  AuditInv'
<1> DEFINE event == call[p].event
<1>1. event \in Contents /\ chain \in Seq(Contents) /\ promised \in Notes
  BY CallRow DEF AuditInv, AuditTyped, Logging
<1>2. <<Len(chain) + 1, event>> \in written
  BY DEF AuditInv, ChainIsTrue
<1> HIDE DEF event
<1>3. /\ chain' \in Seq(Contents) /\ Len(chain') = Len(chain) + 1 /\ chain'[Len(chain) + 1] = event
      /\ Placed(chain') = Placed(chain) \cup {<<Len(chain) + 1, event>>}
  BY <1>1, PlacedAppended DEF event
<1>4. \A q \in Actors \ {p} : call[q].pc \notin {"locked", "append", "save", "return"}
  BY DEF AuditInv, LoggerHasLock
<1>5. AuditTyped'
  BY <1>1, <1>3 DEF AuditInv, AuditTyped
<1>6. LoggerHasLock'
  BY <1>4 DEF AuditInv, LoggerHasLock
<1>7. promised' \subseteq Placed(chain') /\ Placed(chain') \subseteq written'
  BY <1>2, <1>3 DEF AuditInv, ChainIsTrue
<1>8. Len(chain') > 0
  BY <1>1, <1>3
<1>9. \A q \in Actors : call'[q].pc \notin {"save", "append"} /\ (call'[q].pc = "return" => call'[q].event = event)
  BY <1>4 DEF event
<1>10. ChainIsTrue'
  BY <1>3, <1>7, <1>8, <1>9 DEF ChainIsTrue
<1>11. \A q \in Actors : Reads(call'[q], audit, chain, written, promised, AppendOpen)
  BY NoReader DEF AuditInv, ReadersKnow
<1>12. \A q \in Actors : Reads(call'[q], audit, chain', written, promised, FALSE)
  BY <1>11, ReadsWhenSaved
<1>13. ~AppendOpen'
  BY <1>9 DEF AppendOpen
<1>14. \A q \in Actors : Reads(call'[q], audit', chain', written', promised', AppendOpen')
  BY <1>12, <1>13, ReadsStay
<1> QED BY <1>5, <1>6, <1>10, <1>14 DEF AuditInv, ReadersKnow

LEMMA SaveKeeps ==
  ASSUME AuditInv, NEW p \in Actors, Audit!Save(p)
  PROVE  AuditInv'
<1>1. /\ call[p].pc = "save" /\ UNCHANGED <<audit, written, promised>>
      /\ \/ /\ chain' = Append(chain, call[p].event)
            /\ Audit!Goes(p, "return") /\ UNCHANGED auditLock
         \/ /\ chain' = Append(chain, call[p].event) \/ UNCHANGED chain
            /\ Audit!Becomes(p, Audit!Idle)
  BY DEF Audit!Save, Audit!At
<1>2. call[p] \in Logging /\ AuditTyped
  BY <1>1, CallRow DEF AuditInv
<1>3. CASE /\ chain' = Append(chain, call[p].event)
           /\ Audit!Goes(p, "return") /\ UNCHANGED auditLock
  <2>1. /\ call' \in [Actors -> {Audit!Idle} \cup Logging \cup Reading]
        /\ call'[p].pc = "return" /\ call'[p].event = call[p].event
        /\ \A q \in Actors \ {p} : call'[q] = call[q]
    BY <1>2, <1>3, LoggingBecomes
  <2> QED BY <1>1, <1>3, <2>1, ChainSaved
<1>4. CASE Audit!Becomes(p, Audit!Idle)
  <2>1. /\ call' \in [Actors -> {Audit!Idle} \cup Logging \cup Reading]
        /\ call'[p].pc = "idle" /\ \A q \in Actors \ {p} : call'[q] = call[q]
    BY <1>2, <1>4, CallBecomes DEF Audit!Idle
  <2>2. CASE chain' = Append(chain, call[p].event)
    BY <1>1, <2>1, <2>2, ChainSaved
  <2>3. CASE UNCHANGED chain
    <3>1. Reads(call'[p], audit, chain, written, promised, AppendOpen)
      BY <2>1, NoReader
    <3>2. \A q \in Actors \ {p} : call[q].pc \notin {"locked", "append", "save", "return"}
      BY <1>1 DEF AuditInv, LoggerHasLock
    <3> QED BY <1>1, <2>1, <2>3, <3>1, <3>2, CallKeeps
  <2> QED BY <1>1, <1>4, <2>2, <2>3 DEF Audit!Save
<1> QED BY <1>1, <1>3, <1>4

LEMMA AuditReturnKeeps ==
  ASSUME AuditInv, NEW p \in Actors, Audit!Return(p)
  PROVE  AuditInv'
<1>1. /\ call[p].pc = "return" /\ UNCHANGED <<audit, chain, written>>
      /\ promised' = promised \cup {<<Len(chain), call[p].event>>}
      /\ Audit!Becomes(p, Audit!Idle) /\ AuditTyped
  BY DEF Audit!Return, Audit!At, AuditInv
<1>2. /\ call' \in [Actors -> {Audit!Idle} \cup Logging \cup Reading]
      /\ call'[p].pc = "idle" /\ \A q \in Actors \ {p} : call'[q] = call[q]
  BY <1>1, CallBecomes DEF Audit!Idle
<1>3. Len(chain) \in 1..Len(chain) /\ chain[Len(chain)] = call[p].event /\ DOMAIN chain = 1..Len(chain)
  <2>1. chain \in Seq(Contents) /\ Len(chain) > 0 /\ chain[Len(chain)] = call[p].event
    BY <1>1 DEF AuditInv, AuditTyped, ChainIsTrue
  <2>2. Len(chain) \in Nat /\ DOMAIN chain = 1..Len(chain)
    BY <2>1, LenProperties
  <2> QED BY <2>1, <2>2
<1>4. promised' \subseteq Placed(chain)
  <2>1. <<Len(chain), call[p].event>> \in Placed(chain)
    BY <1>3 DEF Placed
  <2> QED BY <1>1, <2>1 DEF AuditInv, ChainIsTrue
<1>5. promised' \in Notes
  <2>1. Len(chain) \in Nat /\ call[p].event \in Contents
    BY <1>1, <1>3, CallRow DEF Logging
  <2> QED BY <1>1, <2>1 DEF AuditTyped, Notes
<1>6. AuditTyped'
  BY <1>1, <1>2, <1>5 DEF AuditTyped
<1>7. LoggerHasLock'
  <2>1. \A q \in Actors \ {p} : call[q].pc \notin {"locked", "append", "save", "return"}
    BY <1>1 DEF AuditInv, LoggerHasLock
  <2> QED BY <1>2, <2>1 DEF LoggerHasLock
<1>8. \A q \in Actors : call'[q] = call[q] \/ call'[q].pc = "idle"
  BY <1>2
<1>9. ChainIsTrue'
  BY <1>1, <1>4, <1>8 DEF AuditInv, ChainIsTrue, Placed
<1>10. \A q \in Actors : Reads(call'[q], audit, chain, written, promised, AppendOpen)
  BY <1>8, NoReader DEF AuditInv, ReadersKnow
<1>11. AppendOpen' => AppendOpen
  BY <1>8 DEF AppendOpen
<1>12. promised \subseteq promised'
  BY <1>1
<1>13. \A q \in Actors : Reads(call'[q], audit', chain', written', promised', AppendOpen')
  BY <1>1, <1>10, <1>11, <1>12, ReadsStay
<1> QED BY <1>6, <1>7, <1>9, <1>13 DEF AuditInv, ReadersKnow

LEMMA CallEnds ==
  ASSUME AuditInv, NEW p \in Actors, Audit!Crash(p) \/ Audit!Tell(p)
  PROVE  AuditInv'
<1>1. Audit!Becomes(p, Audit!Idle) /\ UNCHANGED <<audit, chain, written, promised>>
  BY DEF Audit!Crash, Audit!Tell
<1>2. /\ call' \in [Actors -> {Audit!Idle} \cup Logging \cup Reading]
      /\ call'[p].pc = "idle" /\ \A q \in Actors \ {p} : call'[q] = call[q]
  BY <1>1, CallBecomes DEF AuditInv, Audit!Idle
<1>3. \A q \in Actors \ {p} : call[q].pc \in {"locked", "append", "save", "return"} => auditLock' = q
  BY DEF Audit!Crash, Audit!Tell, AuditInv, LoggerHasLock
<1>4. Reads(call'[p], audit, chain, written, promised, AppendOpen)
  BY <1>2, NoReader
<1> QED BY <1>1, <1>2, <1>3, <1>4, CallKeeps

(* A reader goes on: it is enough that it knows what it should.             *)
LEMMA ReaderKeeps ==
  ASSUME AuditInv, NEW p \in Actors, NEW x \in {Audit!Idle} \cup Reading, Audit!Becomes(p, x),
         UNCHANGED <<audit, chain, auditLock, written, promised>>,
         Reads(x, audit, chain, written, promised, AppendOpen)
  PROVE  AuditInv'
<1>1. /\ call' \in [Actors -> {Audit!Idle} \cup Logging \cup Reading]
      /\ call'[p] = x /\ \A q \in Actors \ {p} : call'[q] = call[q]
  BY CallBecomes DEF AuditInv
<1>2. x.pc \in {"idle", "listed", "reading", "verified", "trusted"}
  BY DEF Reading, Audit!Idle
<1>3. \A q \in Actors \ {p} : call[q].pc \in {"locked", "append", "save", "return"} => auditLock' = q
  BY DEF AuditInv, LoggerHasLock
<1> QED BY <1>1, <1>2, <1>3, CallKeeps

LEMMA ReaderStops ==
  ASSUME AuditInv, NEW p \in Actors, Audit!Becomes(p, Audit!Idle),
         UNCHANGED <<audit, chain, auditLock, written, promised>>
  PROVE  AuditInv'
<1>1. Audit!Idle.pc = "idle"
  BY DEF Audit!Idle
<1> QED BY <1>1, NoReader, ReaderKeeps

LEMMA ReadEntriesKeeps ==
  ASSUME AuditInv, NEW p \in Actors, Audit!ReadEntries(p)
  PROVE  AuditInv'
<1> DEFINE x == [pc |-> "listed", op |-> "report", chain |-> <<>>, seen |-> Audit!Entered(audit),
                 promised |-> promised, edited |-> FALSE]
<1>1. Audit!Becomes(p, x) /\ UNCHANGED <<audit, chain, auditLock, written, promised>>
  BY DEF Audit!ReadEntries
<1>2. /\ Audit!Entered(audit) \in Seq(Contents) /\ Len(Audit!Entered(audit)) = Len(audit)
      /\ \A i \in 1..Len(audit) : Audit!Entered(audit)[i] = audit[i].event
      /\ Len(audit) \in Nat
  BY EnteredEvents DEF Audit!ReadEntries, Audit!Legible, AuditInv, AuditTyped
<1>3. /\ x \in Reading /\ x.pc = "listed" /\ x.seen = Audit!Entered(audit) /\ x.promised = promised
  BY <1>2 DEF Reading, AuditInv, AuditTyped
<1> HIDE DEF x
<1>4. Reads(x, audit, chain, written, promised, AppendOpen)
  BY <1>2, <1>3 DEF Reads, Listed
<1> QED BY <1>1, <1>3, <1>4, ReaderKeeps

LEMMA BeginVerifyKeeps ==
  ASSUME AuditInv, NEW p \in Actors, Audit!BeginVerify(p)
  PROVE  AuditInv'
<1>1. UNCHANGED <<audit, chain, auditLock, written, promised>> /\ AuditTyped
  BY DEF Audit!BeginVerify, AuditInv
<1>2. promised \subseteq Placed(chain) /\ Placed(chain) \subseteq written
  BY DEF AuditInv, ChainIsTrue
<1> DEFINE y == [call[p] EXCEPT !.pc = "reading", !.chain = chain]
<1>3. CASE call[p].pc = "listed" /\ Audit!Becomes(p, y)
  <2>1. call[p] \in Reading
    BY <1>1, <1>3, CallRow
  <2>2. /\ y \in Reading /\ y.pc = "reading" /\ y.op = call[p].op /\ y.chain = chain
        /\ y.seen = call[p].seen /\ y.promised = call[p].promised /\ y.edited = call[p].edited
    BY <1>1, <2>1 DEF Reading, AuditTyped
  <2>3. Audit!Becomes(p, y)
    BY <1>3
  <2> HIDE DEF y
  <2>4. Reads(call[p], audit, chain, written, promised, AppendOpen)
    BY DEF AuditInv, ReadersKnow
  <2>5. Reads(y, audit, chain, written, promised, AppendOpen)
    BY <1>2, <1>3, <2>2, <2>4 DEF Reads, Listed
  <2> QED BY <1>1, <2>2, <2>3, <2>5, ReaderKeeps
<1>4. ASSUME NEW op \in {"verify", "tail"},
             Audit!Becomes(p, [pc |-> "reading", op |-> op, chain |-> chain, seen |-> <<>>,
                               promised |-> promised, edited |-> FALSE])
      PROVE  AuditInv'
  <2> DEFINE x == [pc |-> "reading", op |-> op, chain |-> chain, seen |-> <<>>,
                   promised |-> promised, edited |-> FALSE]
  <2>1. /\ x \in Reading /\ x.pc = "reading" /\ x.op = op /\ x.chain = chain /\ x.promised = promised
    BY <1>1 DEF Reading, AuditTyped
  <2>2. Audit!Becomes(p, x)
    BY <1>4
  <2> HIDE DEF x
  <2>3. Reads(x, audit, chain, written, promised, AppendOpen)
    BY <1>2, <2>1 DEF Reads
  <2> QED BY <1>1, <2>1, <2>2, <2>3, ReaderKeeps
<1> QED BY <1>3, <1>4 DEF Audit!BeginVerify, Audit!At

(* What a log that verifies shows to who reads it.                         *)
LEMMA ValidShows ==
  ASSUME AuditInv, NEW p \in Actors, call[p].pc = "reading", Audit!Valid(audit, call[p].chain)
  PROVE  /\ Audit!Entered(audit) = call[p].chain /\ Len(audit) = Len(call[p].chain)
         /\ Noted(audit) = Placed(call[p].chain) /\ DOMAIN audit = 1..Len(audit) /\ Len(audit) \in Nat
         /\ call[p].promised \subseteq Noted(audit) /\ Noted(audit) \subseteq written
         /\ \A i \in 1..Len(audit) : audit[i] # Audit!Torn
<1>1. (\A i \in DOMAIN audit : audit[i] # Audit!Torn) /\ Audit!Entered(audit) = call[p].chain
  BY DEF Audit!Valid, Audit!Links
<1>2. audit \in Seq(AuditLine)
  BY DEF AuditInv, AuditTyped
<1>3. call[p].promised \subseteq Placed(call[p].chain) /\ Placed(call[p].chain) \subseteq written
  BY DEF AuditInv, ReadersKnow, Reads
<1> QED BY <1>1, <1>2, <1>3, EnteredEvents

(* What report had read before is all that log had returned for: what was   *)
(* appended since comes after it.                                          *)
LEMMA ListedIsAll ==
  ASSUME AuditInv, NEW p \in Actors, call[p].pc = "reading", Audit!Valid(audit, call[p].chain),
         Listed(call[p], audit)
  PROVE  call[p].promised \subseteq Placed(call[p].seen) /\ Placed(call[p].seen) \subseteq written
<1> DEFINE x == call[p]
           n == Len(x.seen)
<1>1. x \in Reading /\ audit \in Seq(AuditLine)
  BY CallRow DEF AuditInv, AuditTyped
<1>2. /\ DOMAIN audit = 1..Len(audit) /\ Len(audit) \in Nat
      /\ x.promised \subseteq Noted(audit) /\ Noted(audit) \subseteq written
      /\ \A i \in 1..Len(audit) : audit[i] # Audit!Torn
  BY ValidShows
<1>3. n \in Nat /\ DOMAIN x.seen = 1..n
  BY <1>1, LenProperties DEF Reading
<1>4. n =< Len(audit) /\ \A i \in 1..n : x.seen[i] = audit[i].event
  BY DEF Listed
<1> HIDE DEF n
<1>5. Placed(x.seen) \subseteq Noted(audit)
  BY <1>2, <1>3, <1>4 DEF Placed, Noted
<1>6. \A t \in x.promised : t[1] =< n
  <2>1. CASE n = Len(audit)
    BY <1>2, <2>1 DEF Noted
  <2>2. CASE n < Len(audit)
    <3>1. n + 1 \in 1..Len(audit) /\ n + 1 - 1 = n
      BY <1>2, <1>3, <2>2
    <3>2. audit[n + 1].previous = Audit!Entered(SubSeq(audit, 1, n))
      <4>1. \A i \in DOMAIN audit : audit[i].previous = Audit!Entered(SubSeq(audit, 1, i - 1))
        BY DEF Audit!Valid, Audit!Links
      <4>2. n + 1 \in DOMAIN audit
        BY <1>2, <3>1
      <4> DEFINE m == n + 1
      <4>3. m \in DOMAIN audit
        BY <4>2
      <4>6. m - 1 = n
        BY <1>3
      <4> HIDE DEF m
      <4>4. audit[m].previous = Audit!Entered(SubSeq(audit, 1, m - 1))
        BY <4>1, <4>3
      <4>5. audit[m].previous = Audit!Entered(SubSeq(audit, 1, n))
        BY <4>6, <4>4
      <4> QED BY <4>5 DEF m
    <3>3. /\ SubSeq(audit, 1, n) \in Seq(AuditLine) /\ Len(SubSeq(audit, 1, n)) = n
          /\ \A i \in 1..n : SubSeq(audit, 1, n)[i] = audit[i]
      BY <1>1, <1>2, <1>3, <2>2
    <3>4. \A i \in DOMAIN SubSeq(audit, 1, n) : SubSeq(audit, 1, n)[i] # Audit!Torn
      <4>1. DOMAIN SubSeq(audit, 1, n) = 1..n
        BY <3>3, LenProperties
      <4> QED BY <1>2, <1>3, <2>2, <3>3, <4>1
    <3>5. Len(audit[n + 1].previous) = n
      BY <3>2, <3>3, <3>4, EnteredEvents
    <3> QED BY <1>2, <2>2, <3>1, <3>5 DEF Listed, n
  <2>3. n = Len(audit) \/ n < Len(audit)
    <3>1. n \in Nat /\ Len(audit) \in Nat /\ n =< Len(audit)
      BY <1>2, <1>3, <1>4
    <3> QED BY <3>1
  <2> QED BY <2>1, <2>2, <2>3
<1>7. x.promised \subseteq Placed(x.seen)
  <2> SUFFICES ASSUME NEW t \in x.promised PROVE t \in Placed(x.seen)
    OBVIOUS
  <2>1. PICK i \in 1..Len(audit) : t = <<i, audit[i].event>>
    BY <1>2 DEF Noted
  <2>2. i \in 1..n
    BY <1>2, <1>3, <1>6, <2>1
  <2> QED BY <1>3, <1>4, <2>1, <2>2 DEF Placed
<1> QED BY <1>2, <1>5, <1>7

LEMMA EndVerifyKeeps ==
  ASSUME AuditInv, NEW p \in Actors, Audit!EndVerify(p)
  PROVE  AuditInv'
<1>1. /\ UNCHANGED <<audit, chain, auditLock, written, promised>> /\ AuditTyped
      /\ call[p].pc = "reading" /\ call[p] \in Reading
  BY CallRow DEF Audit!EndVerify, Audit!At, AuditInv
<1>2. Reads(call[p], audit, chain, written, promised, AppendOpen)
  BY DEF AuditInv, ReadersKnow
<1>3. CASE Audit!Becomes(p, Audit!Idle)
  BY <1>1, <1>3, ReaderStops
<1> DEFINE y == [call[p] EXCEPT !.pc = "trusted", !.seen = Audit!Entered(audit)]
<1>4. CASE call[p].op = "verify" /\ Audit!Valid(audit, call[p].chain) /\ Audit!Becomes(p, y)
  <2>1. /\ Audit!Entered(audit) = call[p].chain /\ Noted(audit) = Placed(call[p].chain)
        /\ call[p].promised \subseteq Noted(audit) /\ Noted(audit) \subseteq written
    BY <1>1, <1>4, ValidShows
  <2>2. /\ y \in Reading /\ y.pc = "trusted" /\ y.seen = call[p].chain /\ y.promised = call[p].promised
    BY <1>1, <2>1 DEF Reading
  <2>3. Audit!Becomes(p, y)
    BY <1>4
  <2> HIDE DEF y
  <2>4. Reads(y, audit, chain, written, promised, AppendOpen)
    BY <2>1, <2>2 DEF Reads
  <2> QED BY <1>1, <2>2, <2>3, <2>4, ReaderKeeps
<1>5. CASE call[p].op = "tail" /\ Audit!Valid(audit, call[p].chain) /\ Audit!Goes(p, "verified")
  <2> DEFINE x == [call[p] EXCEPT !.pc = "verified"]
  <2>1. /\ Len(audit) = Len(call[p].chain) /\ DOMAIN audit = 1..Len(audit)
        /\ call[p].promised \subseteq Noted(audit) /\ Noted(audit) \subseteq written
    BY <1>1, <1>5, ValidShows
  <2>2. /\ x \in Reading /\ x.pc = "verified" /\ x.promised = call[p].promised
        /\ x.edited = call[p].edited /\ x.op = call[p].op
    BY <1>1 DEF Reading
  <2>3. Audit!Becomes(p, x)
    BY <1>5 DEF Audit!Goes
  <2> HIDE DEF x
  <2>4. ASSUME ~call[p].edited PROVE Verified(x, audit, chain, written, AppendOpen)
    <3>1. AppendOpen => Len(audit) = Len(chain)
      BY <1>1, <1>2, <1>5, <2>1, <2>4 DEF Reads
    <3>2. \A i \in DOMAIN audit : <<i, audit[i].event>> \in written
      BY <2>1 DEF Noted
    <3> QED BY <2>1, <2>2, <3>1, <3>2 DEF Verified
  <2>5. x.promised \subseteq promised
    BY <1>1, <1>2, <2>2 DEF Reads
  <2>6. Reads(x, audit, chain, written, promised, AppendOpen)
    BY <1>5, <2>2, <2>4, <2>5 DEF Reads
  <2> QED BY <1>1, <2>2, <2>3, <2>6, ReaderKeeps
<1>6. CASE call[p].op = "report" /\ Audit!Valid(audit, call[p].chain) /\ Audit!Goes(p, "trusted")
  <2> DEFINE x == [call[p] EXCEPT !.pc = "trusted"]
  <2>1. /\ x \in Reading /\ x.pc = "trusted" /\ x.promised = call[p].promised /\ x.op = "report"
        /\ x.edited = call[p].edited /\ x.seen = call[p].seen
    BY <1>1, <1>6 DEF Reading
  <2>2. Audit!Becomes(p, x)
    BY <1>6 DEF Audit!Goes
  <2> HIDE DEF x
  <2>3. ASSUME ~call[p].edited
        PROVE  call[p].promised \subseteq Placed(call[p].seen) /\ Placed(call[p].seen) \subseteq written
    <3>1. Listed(call[p], audit)
      BY <1>1, <1>2, <1>6, <2>3 DEF Reads
    <3> QED BY <1>1, <1>6, <3>1, ListedIsAll
  <2>4. Reads(x, audit, chain, written, promised, AppendOpen)
    BY <2>1, <2>3 DEF Reads
  <2> QED BY <1>1, <2>1, <2>2, <2>4, ReaderKeeps
<1>7. call[p].op \in {"verify", "tail", "report"}
  BY <1>1 DEF Reading
<1> QED BY <1>3, <1>4, <1>5, <1>6, <1>7 DEF Audit!EndVerify

LEMMA ReadTailKeeps ==
  ASSUME AuditInv, NEW p \in Actors, Audit!ReadTail(p)
  PROVE  AuditInv'
<1>1. /\ UNCHANGED <<audit, chain, auditLock, written, promised>> /\ AuditTyped
      /\ call[p].pc = "verified" /\ call[p] \in Reading
  BY CallRow DEF Audit!ReadTail, Audit!At, AuditInv
<1>2. CASE Audit!Becomes(p, Audit!Idle)
  BY <1>1, <1>2, ReaderStops
<1> DEFINE y == [call[p] EXCEPT !.pc = "trusted", !.seen = Audit!Entered(audit)]
<1>3. CASE Audit!Legible /\ Audit!Becomes(p, y)
  <2>1. /\ Audit!Entered(audit) \in Seq(Contents) /\ Placed(Audit!Entered(audit)) = Noted(audit)
        /\ \A i \in DOMAIN audit : audit[i] # Audit!Torn
    BY <1>1, <1>3, EnteredEvents DEF Audit!Legible, AuditTyped
  <2>2. /\ y \in Reading /\ y.pc = "trusted" /\ y.seen = Audit!Entered(audit)
        /\ y.promised = call[p].promised /\ y.op = call[p].op /\ y.edited = call[p].edited
    BY <1>1, <2>1 DEF Reading
  <2>3. Audit!Becomes(p, y)
    BY <1>3
  <2> HIDE DEF y
  <2>4. ~call[p].edited => Verified(call[p], audit, chain, written, AppendOpen)
    BY <1>1 DEF AuditInv, ReadersKnow, Reads
  <2>5. Verified(call[p], audit, chain, written, AppendOpen) =>
          call[p].promised \subseteq Noted(audit) /\ Noted(audit) \subseteq written
    BY <2>1 DEF Verified, Noted
  <2>6. call[p].op # "verify"
    BY <1>1 DEF AuditInv, ReadersKnow, Reads
  <2>7. Reads(y, audit, chain, written, promised, AppendOpen)
    BY <2>1, <2>2, <2>4, <2>5, <2>6 DEF Reads
  <2> QED BY <1>1, <2>2, <2>3, <2>7, ReaderKeeps
<1> QED BY <1>2, <1>3 DEF Audit!ReadTail

LEMMA EditedLines ==
  ASSUME NEW Lines, audit \in Seq(Lines), NEW i \in DOMAIN audit,
         \A x \in Lines, event \in Contents : x # Audit!Torn => [x EXCEPT !.event = event] \in Lines,
         \/ \E event \in Contents : Audit!Alter(i, event)
         \/ Audit!Delete(i)
         \/ \E j \in DOMAIN audit : Audit!Exchange(i, j)
  PROVE  audit' \in Seq(Lines) /\ Len(audit') =< Len(audit)
<1>1. i \in 1..Len(audit) /\ DOMAIN audit = 1..Len(audit) /\ Len(audit) \in Nat
  BY LenProperties
<1>2. \A k \in 1..Len(audit) : audit[k] \in Lines
  BY <1>1, ElementOfSeq
<1>3. CASE \E event \in Contents : Audit!Alter(i, event)
  <2> PICK event \in Contents : Audit!Alter(i, event)
    BY <1>3
  <2> DEFINE x == [audit[i] EXCEPT !.event = event]
  <2>1. audit' = [audit EXCEPT ![i] = x] /\ audit[i] # Audit!Torn
    BY DEF Audit!Alter, Audit!Edit
  <2>2. x \in Lines
    BY <1>1, <1>2, <2>1
  <2> HIDE DEF x
  <2> QED BY <1>1, <2>1, <2>2
<1>4. CASE Audit!Delete(i)
  <2>1. audit' = LineWithout(audit, i)
    BY <1>4 DEF Audit!Delete, Audit!Edit, LineWithout
  <2>2. audit' \in Seq(Lines) /\ Len(audit') = Len(audit) - 1
    BY <1>1, <2>1, LineRemoved
  <2> QED BY <1>1, <2>2
<1>5. CASE \E j \in DOMAIN audit : Audit!Exchange(i, j)
  <2> PICK j \in DOMAIN audit : Audit!Exchange(i, j)
    BY <1>5
  <2>1. audit' = [audit EXCEPT ![i] = audit[j], ![j] = audit[i]]
    BY DEF Audit!Exchange, Audit!Edit
  <2> QED BY <1>1, <1>2, <2>1
<1> QED BY <1>3, <1>4, <1>5

(* Those who read are marked with an edit.                                 *)
LEMMA EditMarks ==
  ASSUME AuditTyped, NEW edited, Audit!Edit(edited)
  PROVE  /\ call' \in [Actors -> {Audit!Idle} \cup Logging \cup Reading]
         /\ \A q \in Actors :
              \/ call'[q] = call[q] /\ call[q].pc \notin {"listed", "reading", "verified"}
              \/ /\ call[q] \in Reading /\ call'[q] \in Reading /\ call'[q].pc = call[q].pc
                 /\ call'[q].op = call[q].op /\ call'[q].chain = call[q].chain
                 /\ call'[q].seen = call[q].seen /\ call'[q].promised = call[q].promised
                 /\ call'[q].edited /\ call[q].pc \in {"listed", "reading", "verified"}
<1>1. call' = [q \in Actors |-> IF call[q].pc \in {"listed", "reading", "verified"}
                               THEN [call[q] EXCEPT !.edited = TRUE] ELSE call[q]]
  BY DEF Audit!Edit
<1>2. ASSUME NEW q \in Actors
      PROVE  /\ call'[q] \in {Audit!Idle} \cup Logging \cup Reading
             /\ \/ call'[q] = call[q] /\ call[q].pc \notin {"listed", "reading", "verified"}
                \/ /\ call[q] \in Reading /\ call'[q] \in Reading /\ call'[q].pc = call[q].pc
                   /\ call'[q].op = call[q].op /\ call'[q].chain = call[q].chain
                   /\ call'[q].seen = call[q].seen /\ call'[q].promised = call[q].promised
                   /\ call'[q].edited /\ call[q].pc \in {"listed", "reading", "verified"}
  <2>1. CASE call[q].pc \in {"listed", "reading", "verified"}
    <3> DEFINE x == [call[q] EXCEPT !.edited = TRUE]
    <3>1. call[q] \in Reading
      BY <2>1, CallRow
    <3>2. x \in Reading /\ x.pc = call[q].pc /\ x.op = call[q].op /\ x.chain = call[q].chain
          /\ x.seen = call[q].seen /\ x.promised = call[q].promised /\ x.edited
      BY <3>1 DEF Reading
    <3>3. call'[q] = x
      BY <1>1, <2>1
    <3> HIDE DEF x
    <3> QED BY <2>1, <3>1, <3>2, <3>3
  <2>2. CASE call[q].pc \notin {"listed", "reading", "verified"}
    BY <1>1, <2>2 DEF AuditTyped
  <2> QED BY <2>1, <2>2
<1> QED BY <1>1, <1>2

LEMMA AuditEditKeeps ==
  ASSUME AuditInv, NEW edited, Audit!Edit(edited), audit' \in Seq(AuditLine)
  PROVE  AuditInv'
<1>1. UNCHANGED <<chain, auditLock, written, promised>> /\ AuditTyped
  BY DEF Audit!Edit, AuditInv
<1>2. /\ call' \in [Actors -> {Audit!Idle} \cup Logging \cup Reading]
      /\ \A q \in Actors :
           \/ call'[q] = call[q] /\ call[q].pc \notin {"listed", "reading", "verified"}
           \/ /\ call[q] \in Reading /\ call'[q] \in Reading /\ call'[q].pc = call[q].pc
              /\ call'[q].op = call[q].op /\ call'[q].chain = call[q].chain
              /\ call'[q].seen = call[q].seen /\ call'[q].promised = call[q].promised
              /\ call'[q].edited /\ call[q].pc \in {"listed", "reading", "verified"}
  BY <1>1, EditMarks
<1>3. AuditTyped'
  BY <1>1, <1>2 DEF AuditTyped
<1>4. LoggerHasLock'
  BY <1>1, <1>2 DEF AuditInv, LoggerHasLock
<1>5. ChainIsTrue'
  BY <1>1, <1>2 DEF AuditInv, ChainIsTrue, Placed
<1>6. AppendOpen' <=> AppendOpen
  BY <1>2 DEF AppendOpen
<1>7. ASSUME NEW q \in Actors PROVE Reads(call'[q], audit', chain, written, promised, AppendOpen)
  <2>1. Reads(call[q], audit, chain, written, promised, AppendOpen)
    BY DEF AuditInv, ReadersKnow
  <2>2. CASE call'[q] = call[q] /\ call[q].pc \notin {"listed", "reading", "verified"}
    BY <2>1, <2>2 DEF Reads
  <2>3. CASE call'[q].edited /\ call[q].pc \in {"listed", "reading", "verified"}
    BY <1>2, <2>1, <2>3 DEF Reads
  <2> QED BY <1>2, <2>2, <2>3
<1>8. \A q \in Actors : Reads(call'[q], audit', chain', written', promised', AppendOpen')
  BY <1>1, <1>6, <1>7, ReadsStay
<1> QED BY <1>3, <1>4, <1>5, <1>8 DEF AuditInv, ReadersKnow

LEMMA AuditStep ==
  ASSUME AuditInv, Audit!Next
  PROVE  AuditInv'
<1>1. ASSUME NEW i \in DOMAIN audit,
             \/ \E event \in Contents : Audit!Alter(i, event)
             \/ Audit!Delete(i)
             \/ \E j \in DOMAIN audit : Audit!Exchange(i, j)
      PROVE  AuditInv'
  <2>1. audit' \in Seq(AuditLine)
    <3>1. \A x \in AuditLine, event \in Contents : x # Audit!Torn => [x EXCEPT !.event = event] \in AuditLine
      BY DEF AuditLine
    <3> QED BY <1>1, <3>1, EditedLines DEF AuditInv, AuditTyped
  <2>2. \E edited : Audit!Edit(edited)
    BY <1>1 DEF Audit!Alter, Audit!Delete, Audit!Exchange
  <2> QED BY <2>1, <2>2, AuditEditKeeps
<1> QED BY <1>1, LogKeeps, AuditVerifyKeeps, AppendEntryKeeps, SaveKeeps, AuditReturnKeeps, CallEnds, ReadEntriesKeeps,
      BeginVerifyKeeps, EndVerifyKeeps, ReadTailKeeps
    DEF Audit!Next

LEMMA AuditInvariance == Behaviour => [](Is("audit") => AuditInv)
<1>1. SumInit => (Is("audit") => AuditInv)
  <2> SUFFICES ASSUME Audit!Init
               PROVE  AuditInv
    BY DEF SumInit
  <2>1. /\ audit = <<>> /\ chain = <<>> /\ promised = {} /\ written = {}
        /\ call \in [Actors -> {Audit!Idle} \cup Logging \cup Reading]
        /\ \A p \in Actors : call[p].pc = "idle"
    BY DEF Audit!Init, Audit!Idle
  <2>2. AuditTyped
    BY <2>1 DEF AuditTyped, Notes
  <2>3. LoggerHasLock
    BY <2>1 DEF LoggerHasLock
  <2>4. Placed(chain) = {}
    BY <2>1 DEF Placed
  <2>5. ChainIsTrue
    BY <2>1, <2>4 DEF ChainIsTrue
  <2>6. ReadersKnow
    BY <2>1, NoReader DEF ReadersKnow
  <2> QED BY <2>2, <2>3, <2>5, <2>6 DEF AuditInv
<1>2. (Is("audit") => AuditInv) /\ [SumNext]_all => (Is("audit") => AuditInv)'
  <2> SUFFICES ASSUME Is("audit") => AuditInv, [SumNext]_all, Is("audit")'
               PROVE  AuditInv'
    OBVIOUS
  <2>1. AuditInv /\ (Audit!Next \/ UNCHANGED auditVars)
    BY OneRuns DEF Is
  <2>2. CASE UNCHANGED auditVars
    <3>1. UNCHANGED <<audit, chain, auditLock, call, written, promised>>
      BY <2>2 DEF auditVars
    <3>2. AuditTyped' /\ LoggerHasLock' /\ ChainIsTrue'
      BY <2>1, <3>1 DEF AuditInv, AuditTyped, LoggerHasLock, ChainIsTrue, Placed
    <3>3. ReadersKnow'
      BY <2>1, <3>1 DEF AuditInv, ReadersKnow, Reads, Verified, Listed, Placed, Noted, AppendOpen
    <3> QED BY <3>2, <3>3 DEF AuditInv
  <2> QED BY <2>1, <2>2, AuditStep
<1> QED BY <1>1, <1>2, PTL DEF Behaviour

(* Who is told that the history is intact has seen all that log had         *)
(* returned for and nothing it did not write, for any number of processes  *)
(* and events, any length of the log and any number of edits and failures. *)
THEOREM TrustedSeesAll == Behaviour => []TrustedIsComplete
<1>1. (Is("audit") => AuditInv) => TrustedIsComplete
  BY DEF AuditInv, ReadersKnow, Reads, Placed, TrustedIsComplete, Audit!TrustedIsComplete, Audit!At
<1> QED BY <1>1, AuditInvariance, PTL
(* The receipts and the bounds of the council node.                        *)
CouncilRest ==
  /\ councilReceipts \in [Single -> {Council!None} \cup Council!Outcomes]
  /\ councilFailures \in 0..MaxFailures
  /\ \A l \in Single : councilTask[l].pc = "sealing" => councilTask[l].state \in Council!Outcomes

(* Of a task that goes from one state to another, the rest stays.           *)
LEMMA CouncilTasks ==
  ASSUME CouncilInv, NEW l \in Single, NEW p, NEW state,
         councilTask' = [councilTask EXCEPT ![l].pc = p, ![l].state = state]
  PROVE  /\ councilTask'[l].pc = p /\ councilTask'[l].state = state
         /\ \A m \in Single \ {l} : councilTask'[m] = councilTask[m]
BY DEF CouncilInv, CouncilTyped, LaneTask

LEMMA CouncilRestKeeps ==
  ASSUME CouncilInv, CouncilRest, Council!Next
  PROVE  CouncilRest'
<1>0. /\ MaxFailures \in Nat
      /\ councilFailures < MaxFailures => councilFailures + 1 \in 0..MaxFailures
  BY BoundsAssumption, OneMore DEF CouncilRest
<1> USE <1>0 DEF CouncilRest, CouncilLanes
<1>1. CASE \E r \in Actors : Council!Save(r) \/ Council!SaveFails(r)
  BY <1>1 DEF Council!Save, Council!SaveFails, Council!executor
<1>2. CASE \E r \in Actors, l \in CouncilLanes, op \in {"hold", "release"} : Council!Load(r, op, l)
  BY <1>2 DEF Council!Load, Council!executor
<1>3. CASE Council!Damage \/ Council!Lose
  BY <1>3 DEF Council!Damage, Council!Lose, Council!executor
<1>4. CASE \E l \in Single : Council!Submit(l)
  BY <1>4 DEF Council!Submit, Council!gate, CouncilInv, CouncilTyped
<1>5. CASE \E l \in Single : Council!Seal(l)
  <2> PICK l \in Single : Council!Seal(l)
    BY <1>5
  <2>1. councilTask[l].state \in Council!Outcomes
    BY DEF Council!Seal, Council!At
  <2>2. \A m \in Single : councilTask'[m].pc = "sealing" => councilTask'[m].state \in Council!Outcomes
    <3>1. councilTask' = [councilTask EXCEPT ![l].pc = "over", ![l].state = councilTask[l].state]
      BY DEF Council!Seal, Council!Reaches
    <3>2. councilTask'[l].pc = "over" /\ \A m \in Single \ {l} : councilTask'[m] = councilTask[m]
      BY <3>1, CouncilTasks
    <3> QED BY <3>2
  <2> QED BY <2>1, <2>2 DEF Council!Seal, Council!gate
<1>6. CASE \E l \in Single : Council!SealFails(l)
  <2>1. \A m \in Single : councilTask'[m].pc = "sealing" => councilTask'[m].state \in Council!Outcomes
    <3>1. PICK l \in Single : Council!SealFails(l)
      BY <1>6
    <3>2. councilTask' = [councilTask EXCEPT ![l].pc = "over", ![l].state = councilTask[l].state]
      BY <3>1 DEF Council!SealFails, Council!Reaches
    <3>3. councilTask'[l].pc = "over" /\ \A m \in Single \ {l} : councilTask'[m] = councilTask[m]
      BY <3>2, CouncilTasks
    <3> QED BY <3>3
  <2> QED BY <1>6, <2>1 DEF Council!SealFails, Council!gate
<1>7. CASE \E l \in Single, verdict \in Council!Refusals \cup {"ALLOW"} : Council!Evaluate(l, verdict)
  <2> PICK l \in Single, verdict \in Council!Refusals \cup {"ALLOW"} : Council!Evaluate(l, verdict)
    BY <1>7
  <2>1. \A m \in Single : councilTask'[m].pc = "sealing" => councilTask'[m].state \in Council!Outcomes
    BY DEF Council!Evaluate, Council!Outcomes, CouncilInv, CouncilTyped
  <2> QED BY <2>1 DEF Council!Evaluate, Council!gate
<1>8. CASE \E l \in Single, state \in Council!Outcomes : Council!Handle(l, state)
  <2>1. \A m \in Single : councilTask'[m].pc = "sealing" => councilTask'[m].state \in Council!Outcomes
    <3>1. PICK l \in Single, state \in Council!Outcomes : Council!Handle(l, state)
      BY <1>8
    <3>2. councilTask' = [councilTask EXCEPT ![l].pc = "sealing", ![l].state = state]
      BY <3>1 DEF Council!Handle, Council!Reaches
    <3>3. councilTask'[l].state = state /\ \A m \in Single \ {l} : councilTask'[m] = councilTask[m]
      BY <3>2, CouncilTasks
    <3> QED BY <3>3
  <2> QED BY <1>8, <2>1 DEF Council!Handle, Council!gate
<1>9. CASE \E l \in Single : Council!EvaluateRaises(l)
  <2>1. \A m \in Single : councilTask'[m].pc = "sealing" => councilTask'[m].state \in Council!Outcomes
    <3>1. PICK l \in Single : Council!EvaluateRaises(l)
      BY <1>9
    <3>2. councilTask' = [councilTask EXCEPT ![l].pc = "over", ![l].state = "IN_PROGRESS"]
      BY <3>1 DEF Council!EvaluateRaises, Council!Reaches
    <3>3. councilTask'[l].pc = "over" /\ \A m \in Single \ {l} : councilTask'[m] = councilTask[m]
      BY <3>2, CouncilTasks
    <3> QED BY <3>3
  <2> QED BY <1>9, <2>1 DEF Council!EvaluateRaises, Council!gate
<1> QED BY <1>1, <1>2, <1>3, <1>4, <1>5, <1>6, <1>7, <1>8, <1>9 DEF Council!Next

LEMMA CouncilTypesAlways ==
  Behaviour => [](Is("council") => Council!TypeOK)
<1>1. SumInit => (Is("council") => CouncilRest)
  <2>1. 0 \in 0..MaxFailures
    BY BoundsAssumption
  <2> SUFFICES ASSUME Council!Init PROVE CouncilRest
    BY DEF SumInit
  <2>2. councilReceipts \in [Single -> {Council!None} \cup Council!Outcomes]
    BY DEF Council!Init
  <2>3. \A l \in Single : councilTask[l].pc = "sealing" => councilTask[l].state \in Council!Outcomes
    BY DEF Council!Init
  <2>4. councilFailures = 0
    BY DEF Council!Init
  <2> QED BY <2>1, <2>2, <2>3, <2>4 DEF CouncilRest
<1>2. /\ Is("council") => CouncilInv
      /\ Is("council") => CouncilRest
      /\ [SumNext]_all
      => (Is("council") => CouncilRest)'
  <2> SUFFICES ASSUME Is("council") => CouncilInv /\ CouncilRest, [SumNext]_all, Is("council")'
               PROVE  CouncilRest'
    OBVIOUS
  <2>1. CouncilInv /\ CouncilRest /\ (Council!Next \/ UNCHANGED councilVars)
    BY OneRuns DEF Is
  <2>2. CASE UNCHANGED councilVars
    BY <2>1, <2>2 DEF councilVars, CouncilRest
  <2> QED BY <2>1, <2>2, CouncilRestKeeps
<1>3. CouncilInv /\ CouncilRest => Council!TypeOK
  BY DEF CouncilInv, CouncilTyped, HoldRequest, CouncilLanes, LaneTask, CouncilRest, Council!TypeOK
<1> QED BY <1>1, <1>2, <1>3, CouncilInvariance, PTL DEF Behaviour

(* The governance sweep: a lock that was left ends all sweeps.             *)
SweepInv == Sweep!TypeOK /\ Sweep!SweepLockIsTrue /\ (abandoned => sweeping = {})

LEMMA SweepStep ==
  ASSUME SweepInv, Sweep!Next
  PROVE  SweepInv'
<1> PICK p \in Actors :
      Sweep!BeginSweep(p) \/ Sweep!EndSweep(p) \/ Sweep!LeaveLock(p) \/ Sweep!RefuseSweep(p)
  BY DEF Sweep!Next
<1>0. MaxFailures \in Nat /\ (sweepFailures < MaxFailures => sweepFailures + 1 \in 0..MaxFailures)
  BY BoundsAssumption, OneMore DEF SweepInv, Sweep!TypeOK
<1> USE DEF SweepInv, Sweep!TypeOK, Sweep!SweepLockIsTrue
<1>1. CASE Sweep!BeginSweep(p)
  BY <1>1 DEF Sweep!BeginSweep
<1>2. CASE Sweep!EndSweep(p)
  <2>1. sweeping = {p} /\ abandoned = FALSE
    BY <1>2 DEF Sweep!EndSweep
  <2>2. sweeping' = {} /\ sweepLock' = FALSE /\ abandoned' = FALSE /\ sweepFailures' = sweepFailures
    BY <1>2, <2>1 DEF Sweep!EndSweep
  <2> QED BY <2>2
<1>3. CASE Sweep!LeaveLock(p)
  <2>1. sweeping = {p} /\ sweepLock
    BY <1>3 DEF Sweep!LeaveLock
  <2>2. sweeping' = {} /\ sweepLock' = sweepLock /\ abandoned' = TRUE
    BY <1>3, <2>1 DEF Sweep!LeaveLock
  <2>3. sweepFailures' \in 0..MaxFailures
    BY <1>0, <1>3 DEF Sweep!LeaveLock
  <2> QED BY <2>1, <2>2, <2>3
<1>4. CASE Sweep!RefuseSweep(p)
  BY <1>4 DEF Sweep!RefuseSweep, Sweep!vars
<1> QED BY <1>1, <1>2, <1>3, <1>4

LEMMA SweepTypesAlways == Behaviour => [](Is("sweep") => Sweep!TypeOK /\ Sweep!SweepLockIsTrue)
<1>1. SumInit => (Is("sweep") => SweepInv)
  <2>1. 0 \in 0..MaxFailures
    BY BoundsAssumption
  <2> QED BY <2>1 DEF SumInit, Sweep!Init, SweepInv, Sweep!TypeOK, Sweep!SweepLockIsTrue
<1>2. (Is("sweep") => SweepInv) /\ [SumNext]_all => (Is("sweep") => SweepInv)'
  <2> SUFFICES ASSUME Is("sweep") => SweepInv, [SumNext]_all, Is("sweep")'
               PROVE  SweepInv'
    OBVIOUS
  <2>1. SweepInv /\ (Sweep!Next \/ UNCHANGED sweepVars)
    BY OneRuns DEF Is
  <2>2. CASE UNCHANGED sweepVars
    BY <2>1, <2>2 DEF sweepVars, SweepInv, Sweep!TypeOK, Sweep!SweepLockIsTrue
  <2> QED BY <2>1, <2>2, SweepStep
<1>3. SweepInv => Sweep!TypeOK /\ Sweep!SweepLockIsTrue
  BY DEF SweepInv
<1> QED BY <1>1, <1>2, <1>3, PTL DEF Behaviour

(* The versions of the files, and the bounds of the repairs.                *)
HealRest ==
  /\ head \in 2..MaxHead
  /\ \A f \in RuntimeFiles : runtime[f] \in 0..MaxHead
  /\ \A r \in Actors : Runs(r) =>
       /\ \A f \in RuntimeFiles : repair[r].found[f] \in 0..MaxHead
       /\ \A f \in DOMAIN repair[r].snapshot : repair[r].snapshot[f] \in 0..MaxHead
  /\ disturbed \subseteq Actors
  /\ healEdits \in 0..MaxEdits /\ healFailures \in 0..MaxFailures

LEMMA HealCounts ==
  ASSUME HealRest, Heal!Next
  PROVE  /\ head' \in 2..MaxHead /\ disturbed' \subseteq Actors
         /\ healEdits' \in 0..MaxEdits /\ healFailures' \in 0..MaxFailures
<1>1. /\ head < MaxHead => head + 1 \in 2..MaxHead
      /\ healEdits < MaxEdits => healEdits + 1 \in 0..MaxEdits
      /\ healFailures < MaxFailures => healFailures + 1 \in 0..MaxFailures
  BY BoundsAssumption, HeadAssumption, OneMore DEF HealRest
<1>2. /\ head' = head \/ (head < MaxHead /\ head' = head + 1)
      /\ healEdits' = healEdits \/ (healEdits < MaxEdits /\ healEdits' = healEdits + 1)
      /\ healFailures' = healFailures \/ (healFailures < MaxFailures /\ healFailures' = healFailures + 1)
  BY DEF Heal!Next, Heal!Deploy, Heal!Edit, Heal!Diagnose, Heal!Snapshot, Heal!Copied, Heal!Raise,
    Heal!Rollback, Heal!Undo, Heal!Report, Heal!End, Heal!Crash, Heal!Copy, Heal!Decide, Heal!Fails
<1>3. disturbed' \subseteq Actors
  BY DEF HealRest, Heal!Next, Heal!Deploy, Heal!Edit, Heal!Diagnose, Heal!Snapshot, Heal!Copied, Heal!Raise,
    Heal!Rollback, Heal!Undo, Heal!Report, Heal!End, Heal!Crash, Heal!Copy, Heal!Decide, Heal!Running
<1> QED BY <1>1, <1>2, <1>3 DEF HealRest

(* A file is put at the version of the repository, of an edit or of a       *)
(* snapshot.                                                               *)
LEMMA RuntimeVersions ==
  ASSUME HealInv, HealRest, Heal!Next
  PROVE  \A f \in RuntimeFiles : runtime'[f] \in 0..MaxHead
<1>1. runtime \in [RuntimeFiles -> Nat] /\ \A f \in RuntimeFiles : runtime[f] \in 0..MaxHead
  BY DEF HealInv, HealTyped, HealRest
<1>2. /\ head \in 0..MaxHead /\ {0, 1} \subseteq 0..MaxHead
      /\ head < MaxHead => head + 1 \in 0..MaxHead
  BY HeadAssumption DEF HealRest
<1>3. CASE Heal!Deploy
  BY <1>2, <1>3 DEF Heal!Deploy, RuntimeFiles
<1>4. CASE \E f \in RuntimeFiles, version \in {Heal!Absent, Heal!Edited} : Heal!Edit(f, version)
  BY <1>1, <1>2, <1>4 DEF Heal!Edit, Heal!Absent, Heal!Edited
<1>5. CASE \E r \in Actors : \E f \in RuntimeFiles : Heal!Copy(r, f)
  BY <1>1, <1>2, <1>5 DEF Heal!Copy
<1>6. CASE \E r \in Actors : Heal!Rollback(r) \/ Heal!Undo(r)
  <2> PICK r \in Actors : Heal!Rollback(r) \/ Heal!Undo(r)
    BY <1>6
  <2> DEFINE later == Heal!Restored(repair[r].snapshot)
  <2>1. Runs(r)
    BY HealRuns DEF HealInv, Heal!Rollback, Heal!Undo, Heal!At, Heal!Steps
  <2>2. later \in [RuntimeFiles -> 0..MaxHead]
    BY <1>1, <2>1 DEF Heal!Restored, RuntimeFiles, HealRest
  <2>3. CASE runtime' = later
    BY <2>2, <2>3
  <2>4. CASE Heal!RestoresSome(repair[r].snapshot)
    <3> PICK done \in SUBSET DOMAIN repair[r].snapshot, here \in DOMAIN repair[r].snapshot :
          \E left \in {runtime[here], repair[r].snapshot[here], Heal!Edited} :
            runtime' = [f \in RuntimeFiles |-> IF f = here THEN left ELSE IF f \in done
                                              THEN repair[r].snapshot[f] ELSE runtime[f]]
      BY <2>4 DEF Heal!RestoresSome, RuntimeFiles
    <3> PICK left \in {runtime[here], repair[r].snapshot[here], Heal!Edited} :
            runtime' = [f \in RuntimeFiles |-> IF f = here THEN left ELSE IF f \in done
                                              THEN repair[r].snapshot[f] ELSE runtime[f]]
      OBVIOUS
    <3>1. here \in RuntimeFiles => left \in 0..MaxHead
      BY <1>1, <1>2, <2>1 DEF HealRest, Heal!Edited
    <3> QED BY <1>1, <2>1, <3>1 DEF HealRest
  <2> QED BY <2>3, <2>4 DEF Heal!Rollback, Heal!Undo
<1>7. CASE \E r \in Actors : Heal!Raise(r)
  BY <1>1, <1>2, <1>7 DEF Heal!Raise, Heal!Edited
<1>8. CASE UNCHANGED runtime
  BY <1>1, <1>8
<1> QED BY <1>3, <1>4, <1>5, <1>6, <1>7, <1>8 DEF Heal!Next, Heal!Diagnose, Heal!Snapshot, Heal!Copied,
      Heal!Decide, Heal!Report, Heal!End, Heal!Crash, RuntimeFiles

LEMMA RepairVersions ==
  ASSUME HealInv, HealRest, Heal!Next, NEW r \in Actors, Runs(r)'
  PROVE  /\ \A f \in RuntimeFiles : repair'[r].found[f] \in 0..MaxHead
         /\ \A f \in DOMAIN repair'[r].snapshot : repair'[r].snapshot[f] \in 0..MaxHead
<1> DEFINE Kept(x) ==
             /\ \A f \in RuntimeFiles : x.found[f] \in 0..MaxHead
             /\ \A f \in DOMAIN x.snapshot : x.snapshot[f] \in 0..MaxHead
<1>1. CASE repair'[r] = repair[r]
  BY <1>1 DEF HealRest, Runs
<1>2. CASE \E sight \in BOOLEAN : Heal!Diagnose(r, sight)
  <2> PICK sight \in BOOLEAN : Heal!Diagnose(r, sight)
    BY <1>2
  <2> DEFINE x == [pc |-> "diagnosed", found |-> runtime, snapshot |-> <<>>,
                   todo |-> IF sight THEN Heal!Drift ELSE {}, status |-> "none",
                   seen |-> sight, unrestored |-> FALSE]
  <2>1. repair'[r] = x
    BY DEF Heal!Diagnose, Heal!Becomes, HealInv, HealTyped
  <2>2. DOMAIN <<>> = {}
    OBVIOUS
  <2>3. x.found = runtime /\ x.snapshot = <<>>
    OBVIOUS
  <2> QED BY <2>1, <2>2, <2>3 DEF HealRest
<1>3. CASE Heal!Snapshot(r) \/ Heal!Copied(r) \/ Heal!Raise(r) \/ Heal!Rollback(r)
           \/ Heal!Undo(r) \/ Heal!Report(r) \/ (\E f \in RuntimeFiles : Heal!Copy(r, f))
           \/ (\E otherIssues, acted, sight \in BOOLEAN : Heal!Decide(r, otherIssues, acted, sight))
  <2> DEFINE taken == [f \in repair[r].todo |-> runtime[f]]
  <2>1. repair[r] \in Repairing /\ Kept(repair[r])
    BY <1>3, HealRuns DEF HealInv, HealRest, Heal!Snapshot, Heal!Copied, Heal!Raise, Heal!Rollback,
      Heal!Undo, Heal!Report, Heal!Copy, Heal!Decide, Heal!At, Heal!Steps
  <2>2. \E p, s, d, b : \/ Heal!Becomes(r, [repair[r] EXCEPT !.pc = p])
                        \/ Heal!Becomes(r, [repair[r] EXCEPT !.pc = p, !.status = s])
                        \/ Heal!Becomes(r, [repair[r] EXCEPT !.todo = d])
                        \/ Heal!Becomes(r, [repair[r] EXCEPT !.pc = p, !.snapshot = taken])
                        \/ Heal!Becomes(r, [repair[r] EXCEPT !.pc = p, !.status = s, !.unrestored = b])
                        \/ Heal!Becomes(r, [repair[r] EXCEPT !.pc = p, !.status = s, !.seen = @ /\ b])
    BY <1>3 DEF Heal!Snapshot, Heal!Copied, Heal!Raise, Heal!Rollback, Heal!Undo, Heal!Report,
      Heal!Copy, Heal!Decide, Heal!Goes, Heal!Answers
  <2>3. \A x : Heal!Becomes(r, x) => repair'[r] = x
    BY DEF Heal!Becomes, HealInv, HealTyped
  <2>4. /\ repair'[r].found = repair[r].found
        /\ repair'[r].snapshot \in {repair[r].snapshot, taken}
    <3> HIDE DEF taken
    <3> QED BY <2>1, <2>2, <2>3 DEF Repairing
  <2>5. \A f \in DOMAIN taken : taken[f] \in 0..MaxHead
    BY <2>1 DEF HealRest, Repairing
  <2> QED BY <2>1, <2>4, <2>5
<1>4. CASE Heal!End(r) \/ Heal!Crash(r)
  BY <1>4 DEF Heal!End, Heal!Crash, Heal!Becomes, HealInv, HealTyped, Runs
<1>5. CASE ~(repair'[r] = repair[r])
  <2>1. \A q \in Actors \ {r} : \A x : ~Heal!Becomes(q, x)
    BY <1>5 DEF Heal!Becomes, HealInv, HealTyped
  <2>2. ASSUME NEW q \in Actors \ {r}
        PROVE  /\ \A sight \in BOOLEAN : ~Heal!Diagnose(q, sight)
               /\ ~Heal!Snapshot(q) /\ ~Heal!Copied(q) /\ ~Heal!Raise(q) /\ ~Heal!Report(q)
    BY <2>1 DEF Heal!Diagnose, Heal!Snapshot, Heal!Copied, Heal!Raise, Heal!Report, Heal!Goes, Heal!Answers
  <2>3. ASSUME NEW q \in Actors \ {r}
        PROVE  /\ ~Heal!Rollback(q) /\ ~Heal!Undo(q) /\ ~Heal!End(q) /\ ~Heal!Crash(q)
               /\ \A f \in RuntimeFiles : ~Heal!Copy(q, f)
               /\ \A otherIssues, acted, sight \in BOOLEAN : ~Heal!Decide(q, otherIssues, acted, sight)
    BY <2>1 DEF Heal!Rollback, Heal!Undo, Heal!End, Heal!Crash, Heal!Copy, Heal!Decide, Heal!Goes, Heal!Answers
  <2>4. ~Heal!Deploy /\ \A f \in RuntimeFiles, version \in {Heal!Absent, Heal!Edited} : ~Heal!Edit(f, version)
    BY <1>5 DEF Heal!Deploy, Heal!Edit
  <2> QED BY <1>2, <1>3, <1>4, <2>2, <2>3, <2>4 DEF Heal!Next, RuntimeFiles
<1> QED BY <1>1, <1>5

LEMMA HealRestKeeps ==
  ASSUME HealInv, HealRest, Heal!Next
  PROVE  HealRest'
BY HealCounts, RuntimeVersions, RepairVersions DEF HealRest

LEMMA HealTypes ==
  ASSUME HealInv, HealRest
  PROVE  Heal!TypeOK
<1>1. ASSUME NEW r \in Actors, Runs(r)
      PROVE  repair[r].found \in [RuntimeFiles -> 0..MaxHead] /\ repair[r].snapshot \in Heal!Copies
  <2>1. repair[r] \in Repairing
    BY <1>1, HealRuns DEF HealInv
  <2>2. repair[r].found \in [RuntimeFiles -> 0..MaxHead]
    BY <1>1, <2>1 DEF HealRest, Repairing
  <2>3. <<>> \in [{} -> 0..MaxHead]
    <3>1. <<>> \in Seq(0..MaxHead) /\ Len(<<>>) = 0
      BY EmptySeq
    <3>2. <<>> \in [1..0 -> 0..MaxHead]
      BY <3>1, LenProperties
    <3>3. 1..0 = {}
      OBVIOUS
    <3> QED BY <3>2, <3>3
  <2>4. repair[r].snapshot \in Heal!Copies
    <3>1. CASE repair[r].snapshot = <<>>
      BY <2>3, <3>1 DEF Heal!Copies, Heal!Versions
    <3>2. CASE \E some \in SUBSET RuntimeFiles : repair[r].snapshot \in [some -> Nat]
      <4> PICK some \in SUBSET RuntimeFiles : repair[r].snapshot \in [some -> Nat]
        BY <3>2
      <4>1. repair[r].snapshot \in [some -> 0..MaxHead]
        BY <1>1 DEF HealRest
      <4> QED BY <4>1 DEF Heal!Copies, Heal!Versions, RuntimeFiles
    <3>3. repair[r].snapshot \in Snapshots
      BY <2>1 DEF Repairing
    <3> QED BY <3>1, <3>2, <3>3 DEF Snapshots
  <2> QED BY <2>2, <2>4
<1>2. ASSUME NEW r \in Actors, Runs(r)
      PROVE  /\ repair[r].pc \in Heal!Steps
             /\ repair[r].seen \in BOOLEAN /\ repair[r].unrestored \in BOOLEAN
             /\ repair[r].todo \subseteq RuntimeFiles
             /\ repair[r].status \in {"none", "BLOCKED", "HELD", "HEALTHY", "REPAIRED"}
  BY <1>2, HealRuns DEF HealInv, Repairing
<1>3. runtime \in [RuntimeFiles -> 0..MaxHead]
  BY DEF HealInv, HealTyped, HealRest
<1> QED BY <1>1, <1>2, <1>3 DEF Heal!TypeOK, Heal!Versions, RuntimeFiles, HealRest, Runs

LEMMA HealTypesAlways ==
  Behaviour => [](Is("heal") => Heal!TypeOK)
<1>1. SumInit => (Is("heal") => HealRest)
  <2> SUFFICES ASSUME Heal!Init PROVE HealRest
    BY DEF SumInit
  <2>1. /\ head = 2 /\ runtime = [f \in RuntimeFiles |-> head] /\ repair = [r \in Actors |-> Heal!Idle]
        /\ disturbed = {} /\ healEdits = 0 /\ healFailures = 0
    BY DEF Heal!Init, RuntimeFiles
  <2>2. 2 \in 0..MaxHead /\ 2 \in 2..MaxHead /\ 0 \in 0..MaxEdits /\ 0 \in 0..MaxFailures
    BY HeadAssumption, BoundsAssumption
  <2> QED BY <2>1, <2>2 DEF HealRest, Runs
<1>2. /\ Is("heal") => HealInv
      /\ Is("heal") => HealRest
      /\ [SumNext]_all
      => (Is("heal") => HealRest)'
  <2> SUFFICES ASSUME Is("heal") => HealInv /\ HealRest, [SumNext]_all, Is("heal")'
               PROVE  HealRest'
    OBVIOUS
  <2>1. HealInv /\ HealRest /\ (Heal!Next \/ UNCHANGED healVars)
    BY OneRuns DEF Is
  <2>2. CASE UNCHANGED healVars
    BY <2>1, <2>2 DEF healVars, HealRest, Runs
  <2> QED BY <2>1, <2>2, HealRestKeeps
<1>3. HealInv /\ HealRest => Heal!TypeOK
  BY HealTypes
<1> QED BY <1>1, <1>2, <1>3, HealInvariance, PTL DEF Behaviour

(* The rest of the vault's variables.                                      *)
VaultRest ==
  /\ fresh \in BOOLEAN
  /\ vaultRaced \subseteq Items /\ vaultForgotten \subseteq Items /\ answered \subseteq Single
  /\ vaultOverlaps \in 0..MaxOverlaps /\ vaultFailures \in 0..MaxFailures

LEMMA NoncesAreStates ==
  ASSUME NEW n \in Vault!Nonces
  PROVE  Vault!Range(n) \subseteq Items
<1>1. n \in Seq(Items)
  BY DEF Vault!Nonces
<1>2. DOMAIN n = 1..Len(n) /\ \A i \in 1..Len(n) : n[i] \in Items
  BY <1>1, LenProperties, ElementOfSeq
<1> QED BY <1>2 DEF Vault!Range

LEMMA VaultRestKeeps ==
  ASSUME VaultInv, VaultRest, Vault!Next
  PROVE  VaultRest'
<1>0. /\ vaultOverlaps < MaxOverlaps => vaultOverlaps + 1 \in 0..MaxOverlaps
      /\ vaultFailures < MaxFailures => vaultFailures + 1 \in 0..MaxFailures
  BY BoundsAssumption, OneMore DEF VaultRest
<1>1. ASSUME NEW p, NEW change, Vault!Load(p, change)
      PROVE  VaultRest'
  BY <1>0, <1>1 DEF Vault!Load, Vault!history, VaultRest
<1>2. ASSUME NEW p \in Vault!Processes, Vault!Save(p)
      PROVE  VaultRest'
  <2> DEFINE change == writer[p].change
  <2>1. Edits(p) /\ change \in Vault!Change
    BY <1>2, WriterRow DEF VaultInv, Vault!Save
  <2>2. change.op = "bind" => change.page \in Single
    BY <2>1 DEF Vault!Change
  <2>3. Vault!Range(vault.used) \subseteq Items
    BY NoncesAreStates DEF VaultInv, VaultTyped, Credentials
  <2>4. /\ answered' \in {answered, answered \cup {change.page}}
        /\ answered' = answered \/ change.op = "bind"
    BY <1>2 DEF Vault!Save
  <2>5. vaultForgotten' \subseteq vaultForgotten \cup Vault!Range(vault.used)
    BY <1>2 DEF Vault!Save
  <2>6. fresh' = (fresh \/ change.op = "offer")
    BY <1>2 DEF Vault!Save
  <2>7. UNCHANGED <<vaultRaced, vaultOverlaps, vaultFailures>>
    BY <1>2 DEF Vault!Save
  <2> HIDE DEF change
  <2>8. fresh' \in BOOLEAN
    BY <2>6
  <2> QED BY <2>2, <2>3, <2>4, <2>5, <2>7, <2>8 DEF VaultRest
<1>3. ASSUME NEW p \in Vault!Processes, Vault!SaveFails(p)
      PROVE  VaultRest'
  BY <1>0, <1>3 DEF Vault!SaveFails, Vault!history, VaultRest
<1>4. ASSUME NEW s \in Items, Vault!Issue(s) \/ Vault!Expire(s)
      PROVE  VaultRest'
  BY <1>4 DEF Vault!Issue, Vault!Expire, Vault!history, VaultRest
<1>5. ASSUME NEW r \in Actors, NEW s \in Items, Vault!Check(r, s)
      PROVE  VaultRest'
  BY <1>5 DEF Vault!Check, VaultRest
<1>6. ASSUME NEW r \in Actors, Vault!Exchange(r) \/ Vault!ExchangeFails(r)
      PROVE  VaultRest'
  BY <1>6 DEF Vault!Exchange, Vault!ExchangeFails, Vault!history, VaultRest
<1>7. ASSUME Vault!Lapse
      PROVE  VaultRest'
  BY <1>7 DEF Vault!Lapse, Vault!history, VaultRest
<1> QED BY <1>1, <1>2, <1>3, <1>4, <1>5, <1>6, <1>7 DEF Vault!Next, Vault!Configure, Vault!Mark,
      Vault!Offer, Vault!Bind

LEMMA VaultTypes ==
  ASSUME VaultInv, VaultRest
  PROVE  Vault!TypeOK
<1>1. \A p \in Vault!Processes : Vault!Unlocked(p) \/ writer[p].change \in Vault!Change
  BY WriterRow DEF VaultInv
<1> QED BY <1>1 DEF Vault!TypeOK, VaultInv, VaultTyped, Credentials, Consuming, VaultRest

LEMMA VaultTypesAlways ==
  Behaviour => [](Is("vault") => Vault!TypeOK)
<1>1. SumInit => (Is("vault") => VaultRest)
  <2> SUFFICES ASSUME Vault!Init PROVE VaultRest
    BY DEF SumInit
  <2>1. /\ fresh = FALSE /\ vaultRaced = {} /\ vaultForgotten = {} /\ answered = {}
        /\ vaultOverlaps = 0 /\ vaultFailures = 0
    BY DEF Vault!Init
  <2>2. fresh \in BOOLEAN
    BY <2>1
  <2> QED BY <2>1, <2>2, BoundsAssumption DEF VaultRest
<1>2. /\ Is("vault") => VaultInv
      /\ Is("vault") => VaultRest
      /\ [SumNext]_all
      => (Is("vault") => VaultRest)'
  <2> SUFFICES ASSUME Is("vault") => VaultInv /\ VaultRest, [SumNext]_all, Is("vault")'
               PROVE  VaultRest'
    OBVIOUS
  <2>1. VaultInv /\ VaultRest /\ (Vault!Next \/ UNCHANGED vaultVars)
    BY OneRuns DEF Is
  <2>2. CASE UNCHANGED vaultVars
    BY <2>1, <2>2 DEF vaultVars, VaultRest
  <2> QED BY <2>1, <2>2, VaultRestKeeps
<1>3. VaultInv /\ VaultRest => Vault!TypeOK
  BY VaultTypes
<1> QED BY <1>1, <1>2, <1>3, VaultInvariance, PTL DEF Behaviour

(* The appends that are asked for; each takes up room for a line.           *)
Pending == {p \in Actors : append[p].pc \in {"asked", "locked", "writing"}}

Fits(line) == line.sequence \in 1..MaxLength + 1 /\ Len(line.previous) <= MaxLength + 1

LedgerRest ==
  /\ Len(file) <= Len(ledgerLog)
  /\ Len(ledgerLog) + Cardinality(Pending) <= MaxLength + 1
  /\ \A i \in DOMAIN file : Fits(file[i])
  /\ \A p \in Actors : append[p].pc = "writing" => Fits(append[p].line)
  /\ ledgerLock \in Actors \cup {Ledger!Nobody} /\ ended \in BOOLEAN
  /\ ledgerFailures \in 0..MaxFailures /\ ledgerEdits \in 0..2 * MaxEdits

LEMMA PendingIsFinite ==
  /\ IsFiniteSet(Pending) /\ Cardinality(Pending) \in Nat
  /\ Ledger!Cardinality(Pending) = Cardinality(Pending)
<1>1. Ledger!Cardinality(Pending) = Cardinality(Pending)
  BY DEF Ledger!Cardinality, Cardinality
<1> QED BY <1>1, ActorsAssumption, FS_Subset, FS_CardinalityType DEF Pending

(* An append that goes on needs no more room, ...                          *)
LEMMA RoomStays ==
  ASSUME LedgerInv, LedgerRest, Pending' \subseteq Pending, UNCHANGED ledgerLog,
         Len(file') <= Len(file), file' \in Seq(SealedLine)
  PROVE  Len(file') <= Len(ledgerLog') /\ Len(ledgerLog') + Cardinality(Pending') <= MaxLength + 1
<1>1. Cardinality(Pending') <= Cardinality(Pending) /\ Cardinality(Pending') \in Nat
  BY PendingIsFinite, FS_Subset, FS_CardinalityType
<1>2. /\ Len(ledgerLog) \in Nat /\ Len(file) \in Nat /\ Len(file') \in Nat /\ Cardinality(Pending) \in Nat
      /\ MaxLength \in Nat
  BY PendingIsFinite, BoundsAssumption DEF LedgerInv, LedgerTyped
<1> QED BY <1>1, <1>2 DEF LedgerRest

LEMMA GoesOnPending ==
  ASSUME LedgerInv, NEW p \in Actors, NEW x, append' = [append EXCEPT ![p] = x],
         x.pc \in {"asked", "locked", "writing"} => p \in Pending
  PROVE  Pending' \subseteq Pending
BY DEF LedgerInv, LedgerTyped, Pending

(* ... one that is asked for finds it, ...                                 *)
LEMMA AskHasRoom ==
  ASSUME LedgerInv, LedgerRest, NEW p \in Actors, NEW d \in Contents, Ledger!Ask(p, d)
  PROVE  Len(ledgerLog') + Cardinality(Pending') <= MaxLength + 1
<1>1. Len(ledgerLog) + Cardinality(Pending) < MaxLength + 1 /\ UNCHANGED ledgerLog
  BY PendingIsFinite DEF Ledger!Ask, Ledger!history, Pending
<1>2. Pending' = Pending \cup {p}
  <2> DEFINE x == [pc |-> "asked", payload |-> d]
  <2>1. append' = [append EXCEPT ![p] = x] /\ x.pc = "asked"
    BY DEF Ledger!Ask
  <2> HIDE DEF x
  <2> QED BY <2>1 DEF LedgerInv, LedgerTyped, Pending
<1>3. /\ Cardinality(Pending \cup {p}) \in {Cardinality(Pending), Cardinality(Pending) + 1}
      /\ Cardinality(Pending) \in Nat
  <2>1. CASE p \in Pending
    <3>1. Pending \cup {p} = Pending
      BY <2>1
    <3> QED BY <3>1, PendingIsFinite
  <2>2. CASE p \notin Pending
    BY <2>2, PendingIsFinite, FS_AddElement
  <2> QED BY <2>1, <2>2
<1>4. Len(ledgerLog) \in Nat /\ MaxLength \in Nat
  BY BoundsAssumption DEF LedgerInv, LedgerTyped
<1> QED BY <1>1, <1>2, <1>3, <1>4

(* ... and one that writes takes its room.                                 *)
LEMMA EntryHasRoom ==
  ASSUME LedgerInv, LedgerRest, LedgerInv', NEW p \in Actors, append[p].pc = "writing",
         Ledger!Enters(append[p].line), NEW x, append' = [append EXCEPT ![p] = x],
         x.pc \in {"idle", "checking"}
  PROVE  Len(file') <= Len(ledgerLog') /\ Len(ledgerLog') + Cardinality(Pending') <= MaxLength + 1
<1>1. p \in Pending /\ \E line, d : file' = Append(file, line) /\ ledgerLog' = Append(ledgerLog, d)
  BY DEF Ledger!Enters, Pending
<1>3. Pending' = Pending \ {p}
  BY DEF LedgerInv, LedgerTyped, Pending
<1>4. Cardinality(Pending \ {p}) = Cardinality(Pending) - 1 /\ Cardinality(Pending) \in Nat
  BY <1>1, PendingIsFinite, FS_RemoveElement
<1>6. Len(file') = Len(file) + 1 /\ Len(ledgerLog') = Len(ledgerLog) + 1
  BY <1>1 DEF LedgerInv, LedgerTyped
<1>7. Len(ledgerLog) \in Nat /\ Len(file) \in Nat /\ MaxLength \in Nat
  BY BoundsAssumption DEF LedgerInv, LedgerTyped
<1> QED BY <1>3, <1>4, <1>6, <1>7 DEF LedgerRest

LEMMA LedgerCounts ==
  ASSUME LedgerRest, Ledger!Next
  PROVE  /\ ledgerLock' \in Actors \cup {Ledger!Nobody} /\ ended' \in BOOLEAN
         /\ ledgerFailures' \in 0..MaxFailures /\ ledgerEdits' \in 0..2 * MaxEdits
<1>1. /\ 2 * MaxEdits \in Nat
      /\ ledgerFailures < MaxFailures => ledgerFailures + 1 \in 0..MaxFailures
      /\ ledgerEdits < 2 * MaxEdits => ledgerEdits + 1 \in 0..2 * MaxEdits
  <2>1. 2 * MaxEdits \in Nat /\ MaxFailures \in Nat
    BY BoundsAssumption
  <2> QED BY <2>1, OneMore DEF LedgerRest
<1>2. /\ ledgerFailures' = ledgerFailures
            \/ (ledgerFailures < MaxFailures /\ ledgerFailures' = ledgerFailures + 1)
      /\ ledgerEdits' = ledgerEdits \/ (ledgerEdits < 2 * MaxEdits /\ ledgerEdits' = ledgerEdits + 1)
  BY DEF Ledger!Next, Ledger!Ask, Ledger!BeginVerify, Ledger!EndVerify, Ledger!Acquire, Ledger!Prepare,
    Ledger!Refuse, Ledger!Write, Ledger!Tear, Ledger!Crash, Ledger!Acknowledge, Ledger!Alter,
    Ledger!Delete, Ledger!Reorder, Ledger!Edit
<1>3. ledgerLock' \in Actors \cup {Ledger!Nobody}
  BY DEF LedgerRest, Ledger!Next, Ledger!Ask, Ledger!BeginVerify, Ledger!EndVerify, Ledger!Acquire,
    Ledger!Prepare, Ledger!Refuse, Ledger!Write, Ledger!Tear, Ledger!Crash, Ledger!Acknowledge,
    Ledger!Alter, Ledger!Delete, Ledger!Reorder, Ledger!Edit
<1>4. ended' \in BOOLEAN
  BY DEF LedgerRest, Ledger!Next, Ledger!Ask, Ledger!BeginVerify, Ledger!EndVerify, Ledger!Acquire,
    Ledger!Prepare, Ledger!Refuse, Ledger!Write, Ledger!Tear, Ledger!Crash, Ledger!Acknowledge,
    Ledger!Alter, Ledger!Delete, Ledger!Reorder, Ledger!Edit
<1> QED BY <1>1, <1>2, <1>3, <1>4 DEF LedgerRest

(* Edits exchange, remove or alter lines that fit.                         *)
LEMMA EditFits ==
  ASSUME LedgerInv, LedgerRest,
         \/ \E i \in DOMAIN file, d \in Contents : Ledger!Alter(i, d)
         \/ \E i \in DOMAIN file : Ledger!Delete(i)
         \/ \E i, j \in DOMAIN file : Ledger!Reorder(i, j)
  PROVE  /\ Len(file') <= Len(file) /\ \A i \in DOMAIN file' : Fits(file'[i])
         /\ UNCHANGED <<append, ledgerLog>>
<1>1. file \in Seq(SealedLine) /\ DOMAIN file = 1..Len(file) /\ Len(file) \in Nat
  BY LenProperties DEF LedgerInv, LedgerTyped
<1>2. UNCHANGED <<append, ledgerLog>>
  BY DEF Ledger!Alter, Ledger!Delete, Ledger!Reorder, Ledger!Edit
<1>3. CASE \E i \in DOMAIN file, d \in Contents : Ledger!Alter(i, d)
  <2> PICK i \in DOMAIN file, d \in Contents : Ledger!Alter(i, d)
    BY <1>3
  <2> DEFINE x == [file[i] EXCEPT !.payload = d]
  <2>1. file' = [file EXCEPT ![i] = x]
    BY DEF Ledger!Alter, Ledger!Edit
  <2>2. x.sequence = file[i].sequence /\ x.previous = file[i].previous /\ x \in SealedLine
    <3>1. file[i] \in SealedLine
      BY <1>1, ElementOfSeq
    <3> QED BY <3>1 DEF SealedLine
  <2> HIDE DEF x
  <2>3. file' \in Seq(SealedLine) /\ DOMAIN file' = DOMAIN file
    BY <1>1, <2>1, <2>2
  <2>4. Len(file') = Len(file)
    BY <1>1, <2>3, LenProperties
  <2>5. \A k \in DOMAIN file : Fits(file'[k])
    BY <2>1, <2>2 DEF LedgerRest, Fits
  <2> QED BY <1>1, <1>2, <2>3, <2>4, <2>5
<1>4. CASE \E i \in DOMAIN file : Ledger!Delete(i)
  <2> PICK i \in DOMAIN file : Ledger!Delete(i)
    BY <1>4
  <2>1. file' = LineWithout(file, i)
    BY DEF Ledger!Delete, Ledger!Edit, LineWithout
  <2>2. i \in 1..Len(file)
    BY <1>1
  <2>3. /\ file' \in Seq(SealedLine) /\ Len(file') = Len(file) - 1
        /\ \A j \in DOMAIN file' : \E k \in DOMAIN file : file'[j] = file[k]
    <3>1. file \in Seq(SealedLine)
      BY <1>1
    <3> QED BY <2>1, <2>2, <3>1, LineRemoved
  <2> QED BY <1>1, <1>2, <2>3 DEF LedgerRest
<1>5. CASE \E i, j \in DOMAIN file : Ledger!Reorder(i, j)
  <2> PICK i \in DOMAIN file, j \in DOMAIN file : Ledger!Reorder(i, j)
    BY <1>5
  <2>1. file' = [file EXCEPT ![i] = file[j], ![j] = file[i]]
    BY DEF Ledger!Reorder, Ledger!Edit
  <2>2. file[i] \in SealedLine /\ file[j] \in SealedLine
    BY <1>1, ElementOfSeq
  <2>3. file' \in Seq(SealedLine) /\ DOMAIN file' = DOMAIN file
    BY <1>1, <2>1, <2>2
  <2>4. Len(file') = Len(file)
    BY <1>1, <2>3, LenProperties
  <2>5. \A k \in DOMAIN file : file'[k] \in {file[k], file[i], file[j]}
    BY <1>1, <2>1
  <2> QED BY <1>1, <1>2, <2>3, <2>4, <2>5 DEF LedgerRest
<1> QED BY <1>3, <1>4, <1>5

(* The line that is prepared follows those of the file.                    *)
LEMMA PreparedFits ==
  ASSUME LedgerInv, LedgerRest, NEW p \in Actors, Ledger!Prepare(p)
  PROVE  Fits(append'[p].line)
<1> DEFINE line == [sequence |-> Len(file) + 1, payload |-> append[p].payload,
                    previous |-> Ledger!Entered(file), sealed |-> append[p].payload]
           x == [pc |-> "writing", line |-> line]
<1>1. p \in Pending /\ append'[p] = x
  BY DEF Ledger!Prepare, Pending, LedgerInv, LedgerTyped
<1>2. file \in Seq(SealedLine) /\ Len(file) \in Nat /\ Len(ledgerLog) \in Nat /\ MaxLength \in Nat
  BY BoundsAssumption DEF LedgerInv, LedgerTyped
<1>3. Cardinality(Pending) \in Nat /\ Cardinality(Pending) # 0
  BY <1>1, PendingIsFinite, FS_EmptySet
<1>4. Len(file) + 1 \in 1..MaxLength + 1 /\ Len(file) <= MaxLength + 1
  BY <1>2, <1>3 DEF LedgerRest
<1>5. Len(Ledger!Entered(file)) = Len(file)
  BY <1>2 DEF Ledger!Entered
<1>6. x.line = line /\ line.sequence = Len(file) + 1 /\ line.previous = Ledger!Entered(file)
  OBVIOUS
<1> HIDE DEF line, x
<1> QED BY <1>1, <1>4, <1>5, <1>6 DEF Fits

LEMMA LedgerRestKeeps ==
  ASSUME LedgerInv, LedgerRest, Ledger!Next
  PROVE  LedgerRest'
<1> USE LedgerCounts
<1>0. /\ file \in Seq(SealedLine) /\ Len(file) <= Len(file) /\ append \in [Actors -> {Ledger!Idle} \cup Appending]
      /\ Ledger!Idle.pc = "idle"
  BY DEF LedgerInv, LedgerTyped, Ledger!Idle
<1>1. ASSUME NEW p \in Actors, NEW x, append' = [append EXCEPT ![p] = x],
             x.pc \in {"locked", "writing"} => p \in Pending, x.pc # "asked",
             x.pc = "writing" => Fits(x.line), UNCHANGED <<file, ledgerLog>>
      PROVE  LedgerRest'
  <2>1. Pending' \subseteq Pending
    BY <1>1, GoesOnPending
  <2>2. Len(file') <= Len(ledgerLog') /\ Len(ledgerLog') + Cardinality(Pending') <= MaxLength + 1
    BY <1>0, <1>1, <2>1, RoomStays
  <2>3. \A q \in Actors : append'[q].pc = "writing" => Fits(append'[q].line)
    BY <1>0, <1>1 DEF LedgerRest
  <2> QED BY <1>1, <2>2, <2>3 DEF LedgerRest
<1>2. CASE \E p \in Actors, d \in Contents : Ledger!Ask(p, d)
  <2> PICK p \in Actors, d \in Contents : Ledger!Ask(p, d)
    BY <1>2
  <2> DEFINE x == [pc |-> "asked", payload |-> d]
  <2>1. append' = [append EXCEPT ![p] = x] /\ x.pc = "asked" /\ UNCHANGED <<file, ledgerLog>>
    BY DEF Ledger!Ask, Ledger!history
  <2> HIDE DEF x
  <2>2. \A q \in Actors : append'[q].pc = "writing" => Fits(append'[q].line)
    BY <1>0, <2>1 DEF LedgerRest
  <2> QED BY <2>1, <2>2, AskHasRoom DEF LedgerRest
<1>3. CASE \E p \in Actors : Ledger!BeginVerify(p)
  <2> DEFINE x == [pc |-> "reading"]
  <2>1. x.pc = "reading" /\ \E p \in Actors : append' = [append EXCEPT ![p] = x]
    BY <1>3 DEF Ledger!BeginVerify
  <2>2. UNCHANGED <<file, ledgerLog>>
    BY <1>3 DEF Ledger!BeginVerify, Ledger!history
  <2> HIDE DEF x
  <2> QED BY <1>1, <2>1, <2>2
<1>4. CASE \E p \in Actors : Ledger!EndVerify(p) \/ Ledger!Refuse(p) \/ Ledger!Crash(p)
                             \/ Ledger!Acknowledge(p)
  <2>1. UNCHANGED <<file, ledgerLog>> /\ \E p \in Actors : append' = [append EXCEPT ![p] = Ledger!Idle]
    BY <1>4 DEF Ledger!EndVerify, Ledger!Refuse, Ledger!Crash, Ledger!Acknowledge, Ledger!history
  <2> QED BY <1>0, <1>1, <2>1
<1>5. CASE \E p \in Actors : Ledger!Acquire(p)
  <2> PICK p \in Actors : Ledger!Acquire(p)
    BY <1>5
  <2> DEFINE x == [append[p] EXCEPT !.pc = "locked"]
  <2>1. append' = [append EXCEPT ![p] = x] /\ p \in Pending /\ UNCHANGED <<file, ledgerLog>>
    BY DEF Ledger!Acquire, Ledger!history, Pending
  <2>2. x.pc = "locked"
    BY AppendingRow DEF Ledger!Acquire, LedgerInv
  <2> HIDE DEF x
  <2> QED BY <1>1, <2>1, <2>2
<1>6. CASE \E p \in Actors : Ledger!Prepare(p)
  <2> PICK p \in Actors : Ledger!Prepare(p)
    BY <1>6
  <2> DEFINE line == [sequence |-> Len(file) + 1, payload |-> append[p].payload,
                      previous |-> Ledger!Entered(file), sealed |-> append[p].payload]
             x == [pc |-> "writing", line |-> line]
  <2>1. append' = [append EXCEPT ![p] = x] /\ x.pc = "writing"
    BY DEF Ledger!Prepare
  <2> HIDE DEF x
  <2>2. p \in Pending /\ UNCHANGED <<file, ledgerLog>> /\ append'[p] = x
    BY <1>0, <2>1 DEF Ledger!Prepare, Ledger!history, Pending
  <2> QED BY <1>1, <2>1, <2>2, PreparedFits
<1>7. CASE \E p \in Actors : Ledger!Write(p) \/ Ledger!Tear(p)
  <2> PICK p \in Actors : Ledger!Write(p) \/ Ledger!Tear(p)
    BY <1>7
  <2>1. LedgerInv'
    BY WriteKeeps, TearKeeps
  <2>2. PICK x : append' = [append EXCEPT ![p] = x] /\ x.pc \in {"idle", "checking"}
    <3>1. [pc |-> "checking", payload |-> append[p].line.payload].pc = "checking"
      OBVIOUS
    <3> QED BY <1>0, <3>1 DEF Ledger!Write, Ledger!Tear
  <2>3. Ledger!Enters(append[p].line) \/ Ledger!NoLine
    BY DEF Ledger!Write, Ledger!Tear
  <2>4. CASE Ledger!NoLine
    BY <1>1, <2>2, <2>4 DEF Ledger!NoLine
  <2>5. CASE Ledger!Enters(append[p].line)
    <3>1. append[p].pc = "writing" /\ file' = Append(file, append[p].line)
      BY <2>5 DEF Ledger!Write, Ledger!Tear, Ledger!Enters
    <3>2. \A q \in Actors : append'[q].pc = "writing" => Fits(append'[q].line)
      BY <1>0, <2>2 DEF LedgerRest
    <3>3. append[p].line \in SealedLine /\ Fits(append[p].line)
      BY <3>1, AppendingRow DEF LedgerInv, LedgerRest
    <3>4. \A i \in DOMAIN file' : file'[i] = append[p].line \/ (i \in DOMAIN file /\ file'[i] = file[i])
      BY <1>0, <3>1, <3>3, AppendProperties
    <3>5. Len(file') <= Len(ledgerLog') /\ Len(ledgerLog') + Cardinality(Pending') <= MaxLength + 1
      BY <2>1, <2>2, <2>5, <3>1, EntryHasRoom
    <3> QED BY <3>2, <3>3, <3>4, <3>5 DEF LedgerRest
  <2> QED BY <2>3, <2>4, <2>5
<1>8. CASE \/ \E i \in DOMAIN file, d \in Contents : Ledger!Alter(i, d)
           \/ \E i \in DOMAIN file : Ledger!Delete(i)
           \/ \E i, j \in DOMAIN file : Ledger!Reorder(i, j)
  <2>1. /\ Len(file') <= Len(file) /\ \A i \in DOMAIN file' : Fits(file'[i])
        /\ UNCHANGED <<append, ledgerLog>>
    BY <1>8, EditFits
  <2>2. LedgerInv'
    BY LedgerStep
  <2>3. Pending' = Pending
    BY <2>1 DEF Pending
  <2>4. Len(file') <= Len(ledgerLog') /\ Len(ledgerLog') + Cardinality(Pending') <= MaxLength + 1
    BY <2>1, <2>2, <2>3, RoomStays DEF LedgerInv, LedgerTyped
  <2> QED BY <2>1, <2>4 DEF LedgerRest
<1> QED BY <1>2, <1>3, <1>4, <1>5, <1>6, <1>7, <1>8 DEF Ledger!Next

LEMMA LedgerTypes ==
  ASSUME LedgerInv, LedgerRest
  PROVE  Ledger!TypeOK
<1>1. \A line \in SealedLine : Fits(line) => line \in Ledger!Line
  BY DEF SealedLine, Fits, Ledger!Line, Ledger!Histories
<1>2. \A i \in DOMAIN file : file[i] \in Ledger!Line
  <2>1. \A i \in DOMAIN file : file[i] \in SealedLine
    BY LenProperties, ElementOfSeq DEF LedgerInv, LedgerTyped
  <2> QED BY <1>1, <2>1 DEF LedgerRest
<1>3. ASSUME NEW p \in Actors
      PROVE  append[p] \in {Ledger!Idle} \cup [pc : {"reading"}]
               \cup [pc : {"asked", "locked", "checking"}, payload : Contents]
               \cup [pc : {"writing"}, line : Ledger!Line]
  <2>1. CASE append[p].pc = "writing"
    <3>1. append[p].line \in Ledger!Line
      BY <1>1, <2>1, AppendingRow DEF LedgerInv, LedgerRest
    <3>2. append[p] \in [pc : {"writing"}, line : SealedLine]
      BY <2>1 DEF LedgerInv, LedgerTyped, Appending, Ledger!Idle
    <3> QED BY <3>1, <3>2
  <2>2. CASE append[p].pc # "writing"
    BY <2>2 DEF LedgerInv, LedgerTyped, Appending
  <2> QED BY <2>1, <2>2
<1>4. append \in [Actors -> {Ledger!Idle} \cup [pc : {"reading"}]
               \cup [pc : {"asked", "locked", "checking"}, payload : Contents]
               \cup [pc : {"writing"}, line : Ledger!Line]]
  BY <1>3 DEF LedgerInv, LedgerTyped
<1>5. ledgerLog \in Ledger!Histories /\ kept \in 0..MaxLength + 1
  <2>1. ledgerLog \in Seq(Contents) /\ Len(ledgerLog) \in Nat /\ Cardinality(Pending) \in Nat /\ MaxLength \in Nat
    BY PendingIsFinite, BoundsAssumption DEF LedgerInv, LedgerTyped
  <2>2. Len(ledgerLog) <= MaxLength + 1
    BY <2>1 DEF LedgerRest
  <2>3. kept \in Nat /\ kept <= Len(ledgerLog)
    BY DEF LedgerInv, LedgerTyped
  <2>4. ledgerLog \in Ledger!Histories
    BY <2>1, <2>2 DEF Ledger!Histories
  <2> QED BY <2>1, <2>2, <2>3, <2>4
<1>6. torn \in BOOLEAN /\ cut \in BOOLEAN
  BY DEF LedgerInv, LedgerTyped
<1> QED BY <1>2, <1>4, <1>5, <1>6 DEF Ledger!TypeOK, LedgerRest

LEMMA LedgerTypesAlways ==
  Behaviour => [](Is("ledger") => Ledger!TypeOK)
<1>1. SumInit => (Is("ledger") => LedgerRest)
  <2> SUFFICES ASSUME Ledger!Init PROVE LedgerRest
    BY DEF SumInit
  <2>1. /\ file = <<>> /\ ledgerLog = <<>> /\ ledgerLock = Ledger!Nobody /\ ended = TRUE
        /\ ledgerFailures = 0 /\ ledgerEdits = 0 /\ \A p \in Actors : append[p].pc = "idle"
    BY DEF Ledger!Init, Ledger!Idle
  <2>2. Pending = {} /\ Cardinality({}) = 0
    BY <2>1, FS_EmptySet DEF Pending
  <2>3. Len(<<>>) = 0 /\ DOMAIN <<>> = {}
    OBVIOUS
  <2>4. MaxLength \in Nat /\ MaxFailures \in Nat /\ 2 * MaxEdits \in Nat
    BY BoundsAssumption
  <2>5. Len(file) <= Len(ledgerLog) /\ Len(ledgerLog) + Cardinality(Pending) <= MaxLength + 1
    BY <2>1, <2>2, <2>3, <2>4
  <2> QED BY <2>1, <2>3, <2>4, <2>5 DEF LedgerRest
<1>2. /\ Is("ledger") => LedgerInv
      /\ Is("ledger") => LedgerRest
      /\ [SumNext]_all
      => (Is("ledger") => LedgerRest)'
  <2> SUFFICES ASSUME Is("ledger") => LedgerInv /\ LedgerRest, [SumNext]_all, Is("ledger")'
               PROVE  LedgerRest'
    OBVIOUS
  <2>1. LedgerInv /\ LedgerRest /\ (Ledger!Next \/ UNCHANGED ledgerVars)
    BY OneRuns DEF Is
  <2>2. CASE UNCHANGED ledgerVars
    BY <2>1, <2>2 DEF ledgerVars, LedgerRest, Pending, Fits
  <2> QED BY <2>1, <2>2, LedgerRestKeeps
<1>3. LedgerInv /\ LedgerRest => Ledger!TypeOK
  BY LedgerTypes
<1> QED BY <1>1, <1>2, <1>3, LedgerInvariance, PTL DEF Behaviour

(* What a call holds is within the bounds, and so is the entry it makes.    *)
WithinBounds(x) ==
  /\ x.pc = "append" => Len(chain) < MaxLength
  /\ x.pc = "save" => Len(chain) < MaxLength
  /\ x.pc \in {"listed", "reading", "verified", "trusted"} =>
       Len(x.chain) <= MaxLength /\ x.promised \subseteq Audit!Numbered

BoundLine == {Audit!Torn} \cup Audit!Entry
AuditRest ==
  /\ audit \in Seq(BoundLine)
  /\ Len(chain) <= MaxLength /\ \A p \in Actors : WithinBounds(call[p])
  /\ written \subseteq Audit!Numbered
  /\ auditLock \in Actors \cup {Audit!Nobody}
  /\ auditEdits \in 0..MaxEdits /\ auditFailures \in 0..MaxFailures

LEMMA AuditCounts ==
  ASSUME AuditRest, Audit!Next
  PROVE  /\ auditLock' \in Actors \cup {Audit!Nobody}
         /\ auditEdits' \in 0..MaxEdits /\ auditFailures' \in 0..MaxFailures
<1>1. /\ auditFailures < MaxFailures => auditFailures + 1 \in 0..MaxFailures
      /\ auditEdits < MaxEdits => auditEdits + 1 \in 0..MaxEdits
  BY BoundsAssumption, OneMore DEF AuditRest
<1>2. /\ auditFailures' = auditFailures
            \/ (auditFailures < MaxFailures /\ auditFailures' = auditFailures + 1)
      /\ auditEdits' = auditEdits \/ (auditEdits < MaxEdits /\ auditEdits' = auditEdits + 1)
  BY DEF Audit!Next, Audit!Log, Audit!Verify, Audit!AppendEntry, Audit!Save, Audit!Return, Audit!Crash,
    Audit!ReadEntries, Audit!BeginVerify, Audit!EndVerify, Audit!ReadTail,
    Audit!Tell, Audit!Alter, Audit!Delete, Audit!Exchange, Audit!Edit,
    Audit!Fails
<1>3. auditLock' \in Actors \cup {Audit!Nobody}
  BY DEF AuditRest, Audit!Next, Audit!Log, Audit!Verify, Audit!AppendEntry, Audit!Save, Audit!Return,
    Audit!Crash, Audit!ReadEntries, Audit!BeginVerify, Audit!EndVerify, Audit!ReadTail,
    Audit!Tell, Audit!Alter, Audit!Delete,
    Audit!Exchange, Audit!Edit
<1> QED BY <1>1, <1>2, <1>3 DEF AuditRest

(* The entry that is made is one, and has a number.                        *)
LEMMA EntryIsMade ==
  ASSUME AuditInv, AuditRest, NEW p \in Actors, Audit!AppendEntry(p)
  PROVE  audit' \in Seq(BoundLine) /\ written' \subseteq Audit!Numbered
<1> DEFINE event == call[p].event
           entry == [event |-> event, signed |-> event, previous |-> chain]
           number == Len(chain) + 1
<1>1. call[p].pc = "append" /\ call[p] \in Logging
  BY CallRow DEF Audit!AppendEntry, Audit!At, AuditInv
<1>2. event \in Contents
  BY <1>1 DEF Logging
<1>3. chain \in Seq(Contents) /\ Len(chain) \in Nat /\ MaxLength \in Nat /\ Len(chain) < MaxLength
  BY <1>1, BoundsAssumption DEF AuditInv, AuditTyped, AuditRest, WithinBounds
<1>4. chain \in Audit!Histories
  BY <1>3 DEF Audit!Histories
<1>5. entry \in BoundLine /\ Audit!Torn \in BoundLine
  BY <1>2, <1>4 DEF BoundLine, Audit!Entry
<1>6. <<number, event>> \in Audit!Numbered
  BY <1>2, <1>3 DEF Audit!Numbered
<1>7. /\ audit' \in {Append(audit, entry), Append(audit, Audit!Torn)}
      /\ written' \in {written, written \cup {<<number, event>>}}
  BY DEF Audit!AppendEntry
<1> HIDE DEF entry, number, event
<1>8. Append(audit, entry) \in Seq(BoundLine) /\ Append(audit, Audit!Torn) \in Seq(BoundLine)
  BY <1>5, AppendProperties DEF AuditRest
<1> QED BY <1>6, <1>7, <1>8 DEF AuditRest

LEMMA LinesStay ==
  ASSUME AuditInv, AuditRest, Audit!Next
  PROVE  audit' \in Seq(BoundLine) /\ written' \subseteq Audit!Numbered
<1>1. CASE UNCHANGED <<audit, written>>
  BY <1>1 DEF AuditRest
<1>2. CASE \E p \in Actors : Audit!AppendEntry(p)
  BY <1>2, EntryIsMade
<1>3. CASE \E i \in DOMAIN audit :
             \/ \E event \in Contents : Audit!Alter(i, event)
             \/ Audit!Delete(i)
             \/ \E j \in DOMAIN audit : Audit!Exchange(i, j)
  <2>1. UNCHANGED written
    BY <1>3 DEF Audit!Alter, Audit!Delete, Audit!Exchange, Audit!Edit
  <2>2. \A x \in BoundLine, event \in Contents : x # Audit!Torn => [x EXCEPT !.event = event] \in BoundLine
    BY DEF BoundLine, Audit!Entry
  <2> QED BY <1>3, <2>1, <2>2, EditedLines DEF AuditRest
<1> QED BY <1>1, <1>2, <1>3 DEF Audit!Next, Audit!Log, Audit!Verify, Audit!Save, Audit!Return, Audit!Crash,
      Audit!ReadEntries, Audit!BeginVerify, Audit!EndVerify, Audit!ReadTail,
    Audit!Tell

(* A call that goes on stays within the bounds, ...                        *)
LEMMA CallStays ==
  ASSUME AuditInv, AuditRest, NEW p \in Actors, NEW x, Audit!Becomes(p, x), WithinBounds(x), UNCHANGED chain
  PROVE  Len(chain') <= MaxLength /\ \A q \in Actors : WithinBounds(call[q])'
BY DEF AuditInv, AuditTyped, AuditRest, WithinBounds, Audit!Becomes

(* ... and so does the chain state that is saved for the one with the lock. *)
LEMMA SaveStays ==
  ASSUME AuditInv, AuditRest, NEW p \in Actors, Audit!Save(p)
  PROVE  Len(chain') <= MaxLength /\ \A q \in Actors : WithinBounds(call[q])'
<1>1. call[p].pc = "save" /\ call[p] \in Logging
  BY CallRow DEF Audit!Save, Audit!At, AuditInv
<1>2. \A q \in Actors \ {p} : call[q].pc \notin {"append", "save"}
  BY <1>1 DEF AuditInv, LoggerHasLock
<1>3. /\ chain \in Seq(Contents) /\ call[p].event \in Contents /\ Len(chain) \in Nat
      /\ MaxLength \in Nat /\ Len(chain) < MaxLength
  BY <1>1, BoundsAssumption DEF AuditInv, AuditTyped, AuditRest, WithinBounds, Logging
<1>4. chain' = Append(chain, call[p].event) \/ chain' = chain
  BY DEF Audit!Save
<1>5. Len(chain') <= MaxLength
  BY <1>3, <1>4, PlacedAppended
<1>6. Audit!Goes(p, "return") \/ Audit!Becomes(p, Audit!Idle)
  BY DEF Audit!Save
<1>7. call'[p].pc \in {"return", "idle"} /\ \A q \in Actors \ {p} : call'[q] = call[q]
  <2>1. CASE Audit!Goes(p, "return")
    BY <1>1, <2>1, LoggingBecomes DEF AuditInv
  <2>2. CASE Audit!Becomes(p, Audit!Idle)
    BY <2>2 DEF Audit!Becomes, Audit!Idle, AuditInv, AuditTyped
  <2> QED BY <1>6, <2>1, <2>2
<1> QED BY <1>2, <1>5, <1>7 DEF AuditRest, WithinBounds

(* A reader goes on with what it has, or with the chain state of now.       *)
LEMMA ReaderStays ==
  ASSUME AuditInv, AuditRest, NEW p \in Actors, NEW x, Audit!Becomes(p, x), UNCHANGED chain,
         x.pc \in {"listed", "reading", "verified", "trusted"},
         x.chain = <<>> \/ x.chain = chain \/ (call[p] \in Reading /\ x.chain = call[p].chain),
         x.promised = promised \/ (call[p] \in Reading /\ x.promised = call[p].promised)
  PROVE  Len(chain') <= MaxLength /\ \A q \in Actors : WithinBounds(call[q])'
<1>1. Len(<<>>) = 0 /\ MaxLength \in Nat
  BY BoundsAssumption
<1>2. promised \subseteq Audit!Numbered
  BY DEF AuditInv, ChainIsTrue, AuditRest
<1>3. call[p] \in Reading => Len(call[p].chain) <= MaxLength /\ call[p].promised \subseteq Audit!Numbered
  BY DEF AuditRest, WithinBounds, Reading
<1>4. WithinBounds(x)
  BY <1>1, <1>2, <1>3 DEF WithinBounds, AuditRest
<1> QED BY <1>4, CallStays

LEMMA ReadersStay ==
  ASSUME AuditInv, AuditRest, NEW p \in Actors,
         Audit!ReadEntries(p) \/ Audit!BeginVerify(p) \/ Audit!EndVerify(p) \/ Audit!ReadTail(p)
  PROVE  Len(chain') <= MaxLength /\ \A q \in Actors : WithinBounds(call[q])'
<1>1. UNCHANGED chain
  BY DEF Audit!ReadEntries, Audit!BeginVerify, Audit!EndVerify, Audit!ReadTail
<1>2. WithinBounds(Audit!Idle)
  BY DEF WithinBounds, Audit!Idle
<1>3. CASE Audit!Becomes(p, Audit!Idle)
  BY <1>1, <1>2, <1>3, CallStays
<1>4. CASE Audit!ReadEntries(p)
  <2> DEFINE x == [pc |-> "listed", op |-> "report", chain |-> <<>>, seen |-> Audit!Entered(audit),
                   promised |-> promised, edited |-> FALSE]
  <2>1. Audit!Becomes(p, x) /\ x.pc = "listed" /\ x.chain = <<>> /\ x.promised = promised
    BY <1>4 DEF Audit!ReadEntries
  <2> HIDE DEF x
  <2> QED BY <1>1, <2>1, ReaderStays
<1>5. CASE Audit!BeginVerify(p)
  <2>1. ASSUME NEW op, Audit!Becomes(p, [pc |-> "reading", op |-> op, chain |-> chain, seen |-> <<>>,
                                         promised |-> promised, edited |-> FALSE])
        PROVE  Len(chain') <= MaxLength /\ \A q \in Actors : WithinBounds(call[q])'
    <3> DEFINE x == [pc |-> "reading", op |-> op, chain |-> chain, seen |-> <<>>,
                     promised |-> promised, edited |-> FALSE]
    <3>1. Audit!Becomes(p, x) /\ x.pc = "reading" /\ x.chain = chain /\ x.promised = promised
      BY <2>1
    <3> HIDE DEF x
    <3> QED BY <1>1, <3>1, ReaderStays
  <2>2. CASE call[p].pc = "listed" /\ Audit!Becomes(p, [call[p] EXCEPT !.pc = "reading", !.chain = chain])
    <3> DEFINE x == [call[p] EXCEPT !.pc = "reading", !.chain = chain]
    <3>1. call[p] \in Reading
      BY <2>2, CallRow DEF AuditInv
    <3>2. Audit!Becomes(p, x) /\ x.pc = "reading" /\ x.chain = chain /\ x.promised = call[p].promised
      BY <2>2, <3>1 DEF Reading
    <3> HIDE DEF x
    <3> QED BY <1>1, <3>1, <3>2, ReaderStays
  <2> QED BY <1>5, <2>1, <2>2 DEF Audit!BeginVerify, Audit!At
<1>6. CASE Audit!EndVerify(p) \/ Audit!ReadTail(p)
  <2>1. call[p] \in Reading
    BY <1>6, CallRow DEF Audit!EndVerify, Audit!ReadTail, Audit!At, AuditInv
  <2>2. ASSUME NEW pc \in {"verified", "trusted"}, NEW s, NEW x,
               \/ x = [call[p] EXCEPT !.pc = pc] \/ x = [call[p] EXCEPT !.pc = pc, !.seen = s]
        PROVE  x.pc = pc /\ x.chain = call[p].chain /\ x.promised = call[p].promised
    BY <2>1, <2>2 DEF Reading
  <2>3. CASE Audit!Becomes(p, [call[p] EXCEPT !.pc = "trusted", !.seen = Audit!Entered(audit)])
    <3> DEFINE x == [call[p] EXCEPT !.pc = "trusted", !.seen = Audit!Entered(audit)]
    <3>1. x.pc = "trusted" /\ x.chain = call[p].chain /\ x.promised = call[p].promised
      BY <2>2
    <3>2. Audit!Becomes(p, x)
      BY <2>3
    <3> HIDE DEF x
    <3> QED BY <1>1, <2>1, <3>1, <3>2, ReaderStays
  <2>4. ASSUME NEW pc \in {"verified", "trusted"}, Audit!Goes(p, pc)
        PROVE  Len(chain') <= MaxLength /\ \A q \in Actors : WithinBounds(call[q])'
    <3> DEFINE x == [call[p] EXCEPT !.pc = pc]
    <3>1. x.pc = pc /\ x.chain = call[p].chain /\ x.promised = call[p].promised
      BY <2>2
    <3>2. Audit!Becomes(p, x)
      BY <2>4 DEF Audit!Goes
    <3> HIDE DEF x
    <3> QED BY <1>1, <2>1, <3>1, <3>2, ReaderStays
  <2>5. CASE Audit!EndVerify(p)
    <3>1. call[p].op \in {"verify", "tail", "report"}
      BY <2>1 DEF Reading
    <3> QED BY <1>3, <2>3, <2>4, <2>5, <3>1 DEF Audit!EndVerify
  <2>6. CASE Audit!ReadTail(p)
    BY <1>3, <2>3, <2>6 DEF Audit!ReadTail
  <2> QED BY <1>6, <2>5, <2>6
<1> QED BY <1>4, <1>5, <1>6

LEMMA CallsStay ==
  ASSUME AuditInv, AuditRest, Audit!Next
  PROVE  Len(chain') <= MaxLength /\ \A q \in Actors : WithinBounds(call[q])'
<1>1. WithinBounds(Audit!Idle)
  BY DEF WithinBounds, Audit!Idle
<1>2. CASE \E edited : Audit!Edit(edited)
  <2> PICK edited : Audit!Edit(edited)
    BY <1>2
  <2>1. UNCHANGED chain /\ AuditTyped
    BY DEF Audit!Edit, AuditInv
  <2>2. \A q \in Actors :
           \/ call'[q] = call[q]
           \/ /\ call'[q].pc = call[q].pc /\ call'[q].chain = call[q].chain
              /\ call'[q].promised = call[q].promised
    BY <2>1, EditMarks
  <2> QED BY <2>1, <2>2 DEF AuditRest, WithinBounds
<1>3. CASE \E p \in Actors, event \in Contents : Audit!Log(p, event)
  <2> PICK p \in Actors, event \in Contents : Audit!Log(p, event)
    BY <1>3
  <2> DEFINE x == [pc |-> "locked", event |-> event]
  <2>1. WithinBounds(x)
    BY DEF WithinBounds
  <2>2. Audit!Becomes(p, x) /\ UNCHANGED chain
    BY DEF Audit!Log
  <2> HIDE DEF x
  <2> QED BY <2>1, <2>2, CallStays
<1>4. CASE \E p \in Actors : Audit!Verify(p) \/ Audit!AppendEntry(p)
  <2> PICK p \in Actors : Audit!Verify(p) \/ Audit!AppendEntry(p)
    BY <1>4
  <2>1. /\ UNCHANGED chain
        /\ \/ \E pc \in {"append", "save"} : Audit!Goes(p, pc) /\ Len(chain) < MaxLength
           \/ Audit!Becomes(p, Audit!Idle)
    BY DEF Audit!Verify, Audit!AppendEntry, Audit!At, AuditRest, WithinBounds
  <2>2. CASE Audit!Becomes(p, Audit!Idle)
    BY <1>1, <2>1, <2>2, CallStays
  <2>3. ASSUME NEW pc \in {"append", "save"}, Audit!Goes(p, pc), Len(chain) < MaxLength
        PROVE  \A q \in Actors : WithinBounds(call[q])'
    <3>1. call[p] \in Logging
      BY CallRow DEF Audit!Verify, Audit!AppendEntry, Audit!At, AuditInv
    <3>2. call'[p].pc = pc /\ \A q \in Actors \ {p} : call'[q] = call[q]
      BY <2>3, <3>1, LoggingBecomes DEF AuditInv
    <3> QED BY <2>1, <2>3, <3>2 DEF AuditRest, WithinBounds
  <2> QED BY <2>1, <2>2, <2>3 DEF AuditRest
<1>5. CASE \E p \in Actors : Audit!Save(p)
  BY <1>5, SaveStays
<1>6. CASE \E p \in Actors : Audit!Return(p) \/ Audit!Crash(p) \/ Audit!Tell(p)
  BY <1>1, <1>6, CallStays DEF Audit!Return, Audit!Crash, Audit!Tell
<1>7. CASE \E p \in Actors : \/ Audit!ReadEntries(p) \/ Audit!BeginVerify(p)
                            \/ Audit!EndVerify(p) \/ Audit!ReadTail(p)
  BY <1>7, ReadersStay
<1> QED BY <1>2, <1>3, <1>4, <1>5, <1>6, <1>7 DEF Audit!Next, Audit!Alter, Audit!Delete, Audit!Exchange

LEMMA AuditRestKeeps ==
  ASSUME AuditInv, AuditRest, Audit!Next
  PROVE  AuditRest'
BY AuditCounts, LinesStay, CallsStay DEF AuditRest

LEMMA AuditTypes ==
  ASSUME AuditInv, AuditRest
  PROVE  Audit!TypeOK
<1>1. \A i \in DOMAIN audit : audit[i] = Audit!Torn \/ audit[i] \in Audit!Entry
  BY LenProperties, ElementOfSeq DEF AuditRest, BoundLine
<1>2. chain \in Audit!Histories
  BY DEF AuditInv, AuditTyped, AuditRest, Audit!Histories
<1>3. promised \subseteq Audit!Numbered
  BY DEF AuditInv, ChainIsTrue, AuditRest
<1>4. ASSUME NEW p \in Actors
      PROVE  call[p] \in {Audit!Idle} \cup [pc : {"locked", "append", "save", "return"}, event : Contents]
               \cup Audit!Reader
  <2>1. CASE call[p] \in {Audit!Idle} \cup Logging
    BY <2>1 DEF Logging
  <2>2. CASE call[p] \in Reading
    <3>1. Len(call[p].chain) <= MaxLength /\ call[p].promised \subseteq Audit!Numbered
      BY <2>2 DEF Reading, AuditRest, WithinBounds
    <3>2. call[p].chain \in Audit!Histories
      BY <2>2, <3>1 DEF Reading, Audit!Histories
    <3> QED BY <2>2, <3>1, <3>2 DEF Reading, Audit!Reader
  <2> QED BY <2>1, <2>2 DEF AuditInv, AuditTyped
<1>5. call \in [Actors ->
        {Audit!Idle} \cup [pc : {"locked", "append", "save", "return"}, event : Contents] \cup Audit!Reader]
  BY <1>4 DEF AuditInv, AuditTyped
<1> QED BY <1>1, <1>2, <1>3, <1>5 DEF Audit!TypeOK, AuditRest

LEMMA AuditTypesAlways ==
  Behaviour => [](Is("audit") => Audit!TypeOK)
<1>1. SumInit => (Is("audit") => AuditRest)
  <2> SUFFICES ASSUME Audit!Init PROVE AuditRest
    BY DEF SumInit
  <2>1. /\ audit = <<>> /\ chain = <<>> /\ written = {} /\ auditLock = Audit!Nobody
        /\ auditEdits = 0 /\ auditFailures = 0 /\ \A p \in Actors : call[p].pc = "idle"
    BY DEF Audit!Init, Audit!Idle
  <2>2. audit \in Seq(BoundLine) /\ Len(chain) = 0
    BY <2>1
  <2> QED BY <2>1, <2>2, BoundsAssumption DEF AuditRest, WithinBounds
<1>2. /\ Is("audit") => AuditInv
      /\ Is("audit") => AuditRest
      /\ [SumNext]_all
      => (Is("audit") => AuditRest)'
  <2> SUFFICES ASSUME Is("audit") => AuditInv /\ AuditRest, [SumNext]_all, Is("audit")'
               PROVE  AuditRest'
    OBVIOUS
  <2>1. AuditInv /\ AuditRest /\ (Audit!Next \/ UNCHANGED auditVars)
    BY OneRuns DEF Is
  <2>2. CASE UNCHANGED auditVars
    BY <2>1, <2>2 DEF auditVars, AuditRest, WithinBounds
  <2> QED BY <2>1, <2>2, AuditRestKeeps
<1>3. AuditInv /\ AuditRest => Audit!TypeOK
  BY AuditTypes
<1> QED BY <1>1, <1>2, <1>3, AuditInvariance, PTL DEF Behaviour

CutoverRest == cutoverFailures \in 0..2 * MaxFailures

LEMMA CutoverRestKeeps ==
  ASSUME CutoverInv, CutoverRest, Cutover!Next
  PROVE  CutoverRest'
<1>1. cutoverFailures' = cutoverFailures
      \/ (cutoverFailures < 2 * MaxFailures /\ cutoverFailures' = cutoverFailures + 1)
  BY DEF Cutover!Next, Cutover!Precheck, Cutover!Stop, Cutover!Rename, Cutover!Policy, Cutover!Up,
    Cutover!Verify, Cutover!Postcheck, Cutover!Remove, Cutover!Return, Cutover!Start, Cutover!Probe,
    Cutover!Kill, Cutover!Ended, Cutover!vars, Cutover!Goes, Cutover!GateFails, Cutover!Fails
<1>2. 2 * MaxFailures \in Nat
  BY BoundsAssumption
<1> QED BY <1>1, <1>2, OneMore DEF CutoverRest

LEMMA CutoverTypesAlways ==
  Behaviour => [](Is("cutover") => Cutover!TypeOK)
<1>1. SumInit => (Is("cutover") => CutoverRest)
  <2> SUFFICES ASSUME Cutover!Init PROVE CutoverRest
    BY DEF SumInit
  <2>1. cutoverFailures = 0
    BY DEF Cutover!Init
  <2>2. 2 * MaxFailures \in Nat
    BY BoundsAssumption
  <2> QED BY <2>1, <2>2 DEF CutoverRest
<1>2. /\ Is("cutover") => CutoverInv
      /\ Is("cutover") => CutoverRest
      /\ [SumNext]_all
      => (Is("cutover") => CutoverRest)'
  <2> SUFFICES ASSUME Is("cutover") => CutoverInv /\ CutoverRest, [SumNext]_all, Is("cutover")'
               PROVE  CutoverRest'
    OBVIOUS
  <2>1. CutoverInv /\ CutoverRest /\ (Cutover!Next \/ UNCHANGED cutoverVars)
    BY OneRuns DEF Is
  <2>2. CASE UNCHANGED cutoverVars
    BY <2>1, <2>2 DEF cutoverVars, CutoverRest
  <2> QED BY <2>1, <2>2, CutoverRestKeeps
<1>3. CutoverInv /\ CutoverRest => Cutover!TypeOK
  BY DEF Cutover!TypeOK, Cutover!Services, CutoverInv, CutoverTyped, Container, Proceeds, RollsBack, CutoverRest
<1> QED BY <1>1, <1>2, <1>3, CutoverInvariance, PTL DEF Behaviour

(* The publisher is its own specification while it is the one that runs.    *)
LEMMA PublisherRuns == Behaviour => Spec
<1>1. SumInit => Init
  BY DEF SumInit
<1>2. [SumNext]_all => [Next]_vars
  BY DEF SumNext, OthersStandStill, all, vars
<1> QED BY <1>1, <1>2, PTL DEF Behaviour, Spec

(* The variables of every service hold what they should, whichever runs     *)
(* and whatever bounds it is given.                                        *)
THEOREM ServicesTypes == Behaviour => []TypesOK
<1>1. Behaviour => []TypeOK
  BY PublisherRuns, PublisherTypeOK, PublisherAssumption, PTL
<1>2. /\ TypeOK
      /\ Is("council") => Council!TypeOK
      /\ Is("sweep") => Sweep!TypeOK /\ Sweep!SweepLockIsTrue
      /\ Is("vault") => Vault!TypeOK
      /\ Is("ledger") => Ledger!TypeOK
      /\ Is("alpha") => Alpha!TypeOK
      /\ Is("fulfillment") => Fulfillment!TypeOK
      /\ Is("heal") => Heal!TypeOK
      /\ Is("audit") => Audit!TypeOK
      /\ Is("cutover") => Cutover!TypeOK
      /\ Is("poster") => Poster!TypeOK
      /\ Is("store") => Store!TypeOK
      /\ Is("proposals") => Proposals!TypeOK /\ Proposals!SessionsAreBounded
      => TypesOK
  BY DEF TypesOK
<1> QED BY <1>1, <1>2, CouncilTypesAlways, SweepTypesAlways, VaultTypesAlways, LedgerTypesAlways,
      AlphaTypesAlways, FulfillmentTypesAlways, HealTypesAlways, AuditTypesAlways, CutoverTypesAlways,
      PosterTypesAlways, StoreTypesAlways, ProposalsTypesAlways, PTL
=============================================================================
