----------------------------- MODULE CouncilNode -----------------------------
(***************************************************************************)
(* apps/council_node: the Founder's holds, and the executor that obeys      *)
(* them.                                                                   *)
(*                                                                         *)
(* Holds are one file that hold and release load, change and replace       *)
(* without a lock; the endpoints run in threads.  A file that is missing,  *)
(* or is JSON but no object, reads as no hold at all.  A task is evaluated *)
(* before its handler runs and leaves a receipt whatever comes of it,      *)
(* unless the evaluation itself raises.  A lane has one task at a time     *)
(* here, and tasks do nothing to one another; which agent asks, for what   *)
(* and at which risk is whether it would be allowed.                       *)
(***************************************************************************)
EXTENDS Naturals

CONSTANTS
  Lanes,
  Busy,         \* those that are given tasks
  Requests,     \* the Founder's requests
  MaxFailures   \* bound on damage to files, failed writes and crashes

VARIABLES
  holds,      \* founder_holds.json
  readable,   \* whether it can be read
  request,    \* the Founder's requests
  standing,   \* lanes whose hold was answered and not lifted since (history)
  gone,       \* those whose hold the file lost: it was lost itself, or replaced by a
              \* request that had loaded it before the hold was saved (history)
  task,       \* the task of a lane
  receipts,   \* lane -> status of its task's receipt
  ran,        \* lanes whose task's handler was called (history)
  failures

vars == <<holds, readable, request, standing, gone, task, receipts, ran, failures>>
gate == <<holds, readable, request, standing, gone>>
executor == <<task, receipts, ran>>

Refusals == {"BLOCKED", "UNKNOWN", "HOLD"}
Outcomes == Refusals \cup {"DONE"}
None == "none"
Idle == [op |-> "idle"]

TypeOK ==
  /\ holds \subseteq Lanes /\ standing \subseteq Lanes /\ gone \subseteq Lanes
  /\ readable \in BOOLEAN
  /\ request \in [Requests -> {Idle} \cup
       [op : {"hold", "release"}, lane : Lanes, copy : SUBSET Lanes, stale : BOOLEAN]]
  /\ task \in [Busy ->
       [pc : {"over", "evaluating", "running", "sealing"},
        state : {"IN_PROGRESS"} \cup Outcomes, forbidden : BOOLEAN]]
  /\ receipts \in [Busy -> {None} \cup Outcomes]
  /\ ran \subseteq Busy
  /\ failures \in 0..MaxFailures

Init ==
  /\ holds = {} /\ standing = {} /\ gone = {} /\ readable = TRUE
  /\ request = [r \in Requests |-> Idle]
  /\ task = [l \in Busy |-> [pc |-> "over", state |-> "IN_PROGRESS", forbidden |-> FALSE]]
  /\ receipts = [l \in Busy |-> None]
  /\ ran = {}
  /\ failures = 0
-----------------------------------------------------------------------------
(* The Founder's gate.                                                     *)
Becomes(r, state) == request' = [request EXCEPT ![r] = state]

(* Both operations begin with _load; an unreadable file ends them, and so   *)
(* does a release of what is not held.                                     *)
Load(r, op, l) ==
  /\ request[r] = Idle /\ readable
  /\ op = "release" => l \in holds
  /\ Becomes(r, [op |-> op, lane |-> l, copy |-> holds, stale |-> FALSE])
  /\ standing' = IF op = "release" THEN standing \ {l} ELSE standing
  /\ UNCHANGED <<holds, readable, gone, executor, failures>>

(* Whoever else has loaded the file has an old copy from now on.           *)
Saved(r) ==
  [q \in Requests |->
     IF q = r \/ request[q] = Idle THEN Idle ELSE [request[q] EXCEPT !.stale = TRUE]]

Save(r) ==
  LET l == request[r].lane
      held == IF request[r].op = "hold" THEN {l} ELSE {}
  IN /\ request[r] # Idle
     /\ holds' = (request[r].copy \ {l}) \cup held
     /\ standing' = standing \cup held
     /\ gone' = (gone \cup (IF request[r].stale THEN standing \ holds' ELSE {})) \ held
     /\ readable' = TRUE
     /\ request' = Saved(r)
     /\ UNCHANGED <<executor, failures>>

(* The file is as it was, and the answer an error.                         *)
SaveFails(r) ==
  /\ request[r] # Idle /\ failures < MaxFailures
  /\ failures' = failures + 1
  /\ Becomes(r, Idle)
  /\ UNCHANGED <<holds, readable, standing, gone, executor>>

(* The file cannot be read or parsed any more.                             *)
Damage ==
  /\ readable /\ failures < MaxFailures
  /\ failures' = failures + 1
  /\ readable' = FALSE
  /\ UNCHANGED <<holds, request, standing, gone, executor>>

(* The file is removed, or holds JSON that is no object: _load takes either *)
(* for no hold.                                                            *)
Lose ==
  /\ failures < MaxFailures
  /\ failures' = failures + 1
  /\ holds' = {} /\ readable' = TRUE
  /\ gone' = gone \cup standing
  /\ UNCHANGED <<request, standing, executor>>
-----------------------------------------------------------------------------
(* The executor.                                                           *)
At(l, pc) == task[l].pc = pc
Reaches(l, pc, state) == task' = [task EXCEPT ![l].pc = pc, ![l].state = state]

Submit(l) ==
  /\ At(l, "over")
  /\ task' = [task EXCEPT ![l] =
       [pc |-> "evaluating", state |-> "IN_PROGRESS", forbidden |-> FALSE]]
  /\ receipts' = [receipts EXCEPT ![l] = None]
  /\ ran' = ran \ {l}
  /\ UNCHANGED <<gate, failures>>

(* Mutant: holds that cannot be read are taken for none.                   *)
VerdictsFailOpen(l) ==
  IF readable /\ l \in holds THEN {"HOLD"} ELSE {"BLOCKED", "UNKNOWN", "ALLOW"}

(* An agent that is not registered is BLOCKED before, and an advisory one,  *)
(* or a task without a handler, is stopped after the policy.               *)
Verdicts(l) ==
  {"BLOCKED"} \cup (IF ~readable THEN {"UNKNOWN"}
                    ELSE IF l \in holds THEN {"HOLD"} ELSE {"UNKNOWN", "ALLOW"})

(* forbidden notes that a hold of the lane was answered, and not lost.     *)
Evaluate(l, verdict) ==
  /\ At(l, "evaluating") /\ verdict \in Verdicts(l)
  /\ task' = [task EXCEPT ![l] =
       [pc |-> IF verdict = "ALLOW" THEN "running" ELSE "sealing",
        state |-> IF verdict = "ALLOW" THEN "IN_PROGRESS" ELSE verdict,
        forbidden |-> l \in standing \ gone]]
  /\ UNCHANGED <<gate, receipts, ran, failures>>

(* Bytes that are not UTF-8 raise what nobody catches: no receipt.         *)
EvaluateRaises(l) ==
  /\ At(l, "evaluating") /\ ~readable
  /\ Reaches(l, "over", "IN_PROGRESS")
  /\ UNCHANGED <<gate, receipts, ran, failures>>

(* The handler raises, or what it observed is not, or is, the objective.   *)
Handle(l, state) ==
  /\ At(l, "running") /\ state \in {"BLOCKED", "UNKNOWN", "DONE"}
  /\ ran' = ran \cup {l}
  /\ Reaches(l, "sealing", state)
  /\ UNCHANGED <<gate, receipts, failures>>

Seal(l) ==
  /\ At(l, "sealing")
  /\ receipts' = [receipts EXCEPT ![l] = task[l].state]
  /\ Reaches(l, "over", task[l].state)
  /\ UNCHANGED <<gate, ran, failures>>

SealFails(l) ==
  /\ At(l, "sealing") /\ failures < MaxFailures
  /\ failures' = failures + 1
  /\ Reaches(l, "over", task[l].state)
  /\ UNCHANGED <<gate, receipts, ran>>

Next ==
  \/ \E r \in Requests : Save(r) \/ SaveFails(r)
  \/ \E r \in Requests, l \in Lanes, op \in {"hold", "release"} : Load(r, op, l)
  \/ Damage \/ Lose
  \/ \E l \in Busy : Submit(l) \/ EvaluateRaises(l) \/ Seal(l) \/ SealFails(l)
  \/ \E l \in Busy, verdict \in Refusals \cup {"ALLOW"} : Evaluate(l, verdict)
  \/ \E l \in Busy, state \in Outcomes : Handle(l, state)

Spec == Init /\ [][Next]_vars
-----------------------------------------------------------------------------
(* A HOLD blocks execution in its lane: a task evaluated after the hold was *)
(* answered and before it is lifted never has its handler called, whatever *)
(* other requests, failed writes and damage come between - unless the file *)
(* lost the hold, by being lost or replaced from an older copy.            *)
NoRunUnderHold == \A l \in ran : ~task[l].forbidden
=============================================================================
