------------------------------ MODULE EmailDrip ------------------------------
(***************************************************************************)
(* services/email_drip, which mails a lead one step of a sequence after    *)
(* another, beside the gatekeeper, which takes unsubscriptions.            *)
(*                                                                         *)
(* The drip thread and the threads of capture requests each load the lead  *)
(* store, change their copy and write all of it back, inside LEADS_LOCK.   *)
(* The lock is one object of the module, and acquire returns at once when  *)
(* it has a descriptor (filelock.py:31) - also one another thread opened:  *)
(* it keeps other processes out and nobody in this one.  overlaps counts   *)
(* how often a thread entered while another was inside.                    *)
(*                                                                         *)
(* A book is only whether it is the hold of a free audit, which has no     *)
(* emails; malformed records, which the planner skips, are left out.       *)
(***************************************************************************)
EXTENDS Naturals

CONSTANTS
  Leads,       \* email addresses
  Requests,    \* threads that serve visitors
  Steps,       \* the length of DRIP_SCHEDULE
  MaxFailures, \* bound on files that cannot be read or written
  MaxOverlaps, \* bound on threads that enter LEADS_LOCK while one is inside
  MaxRestarts  \* bound on restarts

(* A thread's record names some lead, also while it has none in hand.      *)
ASSUME LeadsAssumption == Leads # {}
ASSUME StepsAssumption ==
  /\ Steps \in Nat \ {0}
  /\ MaxFailures \in Nat /\ MaxOverlaps \in Nat /\ MaxRestarts \in Nat

VARIABLES
  store,       \* leads_drip.json
  suppressed,  \* email_suppression.json
  live,        \* DRIP_SEND_MODE, decided when the process starts
  rested,      \* how many of a lead's steps time has made due
  drip,        \* the drip thread
  request,     \* the capture requests
  delivered,   \* lead -> step -> emails that went out, 2 for more (external)
  late,        \* lead -> emails that went out after its unsubscription, 2 for more
  answer,      \* lead -> what a capture was answered (history)
  overlaps, failures, restarts

vars == <<store, suppressed, live, rested, drip, request, delivered,
          late, answer, overlaps, failures, restarts>>
environment == <<suppressed, live>>
mail == <<delivered, late>>
bounds == <<overlaps, failures, restarts>>

Record == [captured : BOOLEAN, sent : 0..Steps, pending : BOOLEAN, held : BOOLEAN]
Absent == [captured |-> FALSE, sent |-> 0, pending |-> FALSE, held |-> FALSE]
Store == [Leads -> Record]

Asleep == [pc |-> "asleep"]
Idle == [pc |-> "idle"]

TypeOK ==
  /\ store \in Store
  /\ suppressed \subseteq Leads /\ live \in BOOLEAN
  /\ rested \in [Leads -> 0..Steps]
  /\ drip \in {Asleep} \cup
       [pc : {"planning", "sending", "recording"}, copy : Store, now : [Leads -> 0..Steps],
        todo : SUBSET Leads, lead : Leads]
  /\ request \in [Requests -> {Idle}
       \cup [pc : {"checked"}, lead : Leads, hold : BOOLEAN]
       \cup [pc : {"loaded"}, lead : Leads, hold : BOOLEAN, copy : Store]]
  /\ delivered \in [Leads -> [1..Steps -> 0..2]]
  /\ late \in [Leads -> 0..2]
  /\ answer \in [Leads -> {"none", "ok", "hold"}]
  /\ overlaps \in 0..MaxOverlaps /\ failures \in 0..MaxFailures /\ restarts \in 0..MaxRestarts

Init ==
  /\ store = [l \in Leads |-> Absent]
  /\ suppressed = {}
  /\ live \in BOOLEAN
  /\ rested = [l \in Leads |-> 0]
  /\ drip = Asleep
  /\ request = [r \in Requests |-> Idle]
  /\ delivered = [l \in Leads |-> [k \in 1..Steps |-> 0]]
  /\ late = [l \in Leads |-> 0]
  /\ answer = [l \in Leads |-> "none"]
  /\ overlaps = 0 /\ failures = 0 /\ restarts = 0

Clear(l) == l \notin suppressed

(* Entering LEADS_LOCK, which nobody inside prevents.                      *)
Enter(inside) ==
  /\ inside => overlaps < MaxOverlaps
  /\ overlaps' = IF inside THEN overlaps + 1 ELSE overlaps
  /\ UNCHANGED <<failures, restarts>>
Capturing(requests) == \E r \in requests : request[r].pc = "loaded"

OrMore(n) == IF n < 2 THEN n + 1 ELSE n
-----------------------------------------------------------------------------
(* A capture.                                                              *)
Becomes(r, state) == request' = [request EXCEPT ![r] = state]

(* The suppression list is read before the store, under another lock.      *)
CheckSuppression(r, l, hold) ==
  /\ request[r] = Idle /\ Clear(l)
  /\ Becomes(r, [pc |-> "checked", lead |-> l, hold |-> hold])
  /\ UNCHANGED <<store, environment, rested, drip, mail, answer, bounds>>

Answer(l, hold) ==
  answer' = [answer EXCEPT ![l] = IF hold \/ @ = "hold" THEN "hold" ELSE "ok"]

(* Mutant: a lead that is known is not put on hold.                        *)
NothingToSaveIfKnown(found, hold) == found.captured

NothingToSave(found, hold) == found.captured /\ (hold => found.held)

LoadLeads(r) ==
  LET l == request[r].lead
      hold == request[r].hold
  IN /\ request[r].pc = "checked"
     /\ Enter(drip # Asleep \/ Capturing(Requests \ {r}))
     /\ IF NothingToSave(store[l], hold)
        THEN Answer(l, hold) /\ Becomes(r, Idle)
        ELSE /\ Becomes(r, [pc |-> "loaded", lead |-> l, hold |-> hold, copy |-> store])
             /\ UNCHANGED answer
     /\ UNCHANGED <<store, environment, rested, drip, mail>>

(* A new lead's first step is due at once.                                 *)
SaveLead(r) ==
  LET l == request[r].lead
      copy == request[r].copy
  IN /\ request[r].pc = "loaded"
     /\ store' = [copy EXCEPT ![l].captured = TRUE, ![l].held = @ \/ request[r].hold]
     /\ rested' = [rested EXCEPT ![l] = IF copy[l].captured THEN @ ELSE 1]
     /\ Answer(l, request[r].hold)
     /\ Becomes(r, Idle)
     /\ UNCHANGED <<environment, drip, mail, bounds>>

(* Neither store can be lost sight of without an error, which is answered. *)
CaptureFails(r) ==
  /\ request[r] # Idle /\ failures < MaxFailures
  /\ failures' = failures + 1
  /\ Becomes(r, Idle)
  /\ UNCHANGED <<store, environment, rested, drip, mail, answer, overlaps, restarts>>
-----------------------------------------------------------------------------
(* A cycle of the drip thread; it decides everything by the time, and in    *)
(* the copy of the store, that it began with.                              *)
Wake ==
  /\ drip = Asleep
  /\ drip' = [pc |-> "planning", copy |-> store, now |-> rested,
              todo |-> {l \in Leads : store[l].captured}, lead |-> CHOOSE l \in Leads : TRUE]
  /\ Enter(Capturing(Requests))
  /\ UNCHANGED <<store, environment, rested, request, mail, answer>>

(* Mutant: a send of unknown outcome is tried again.                       *)
DueAgain(l) ==
  LET lead == drip.copy[l] IN ~lead.held /\ lead.sent < drip.now[l]

(* _plan_due_message, but for the suppression list.                        *)
Due(l) ==
  LET lead == drip.copy[l] IN ~lead.pending /\ ~lead.held /\ lead.sent < drip.now[l]

(* Mutant: who unsubscribed is not asked.                                  *)
CandidateUnasked(l) == Due(l) /\ live

Candidate(l) == Due(l) /\ Clear(l) /\ live

Planning(l) == drip.pc = "planning" /\ l \in drip.todo

(* Mutant: the cycle ends at the first lead with nothing due.              *)
SkipAll(l) ==
  /\ Planning(l) /\ ~Candidate(l)
  /\ drip' = Asleep
  /\ UNCHANGED <<store, environment, rested, request, mail, answer, bounds>>

Skip(l) ==
  /\ Planning(l) /\ ~Candidate(l)
  /\ drip' = [drip EXCEPT !.todo = @ \ {l}]
  /\ UNCHANGED <<store, environment, rested, request, mail, answer, bounds>>

(* The suppression list cannot be read.                                    *)
SkipOnError(l) ==
  /\ Planning(l) /\ failures < MaxFailures
  /\ failures' = failures + 1
  /\ drip' = [drip EXCEPT !.todo = @ \ {l}]
  /\ UNCHANGED <<store, environment, rested, request, mail, answer, overlaps, restarts>>

(* pending_send is on disk before the email is submitted.                  *)
Plan(l) ==
  /\ Planning(l) /\ Candidate(l)
  /\ store' = [drip.copy EXCEPT ![l].pending = TRUE]
  /\ drip' = [drip EXCEPT !.pc = "sending", !.lead = l, !.copy[l].pending = TRUE]
  /\ UNCHANGED <<environment, rested, request, mail, answer, bounds>>

(* _send_email: an error may come before or after the server took it.      *)
Send(accepted, delivers) ==
  LET l == drip.lead
      k == drip.copy[l].sent + 1
  IN /\ drip.pc = "sending"
     /\ accepted => delivers
     /\ IF delivers
        THEN /\ delivered' = [delivered EXCEPT ![l][k] = OrMore(@)]
             /\ late' = [late EXCEPT ![l] = IF l \in suppressed THEN OrMore(@) ELSE @]
        ELSE UNCHANGED mail
     /\ drip' = IF accepted THEN [drip EXCEPT !.pc = "recording"]
                ELSE [drip EXCEPT !.pc = "planning", !.todo = @ \ {l}]
     /\ UNCHANGED <<store, environment, rested, request, answer, bounds>>

RecordSent ==
  LET l == drip.lead
      copy == [drip.copy EXCEPT ![l].sent = @ + 1, ![l].pending = FALSE]
  IN /\ drip.pc = "recording"
     /\ store' = copy
     /\ drip' = [drip EXCEPT !.pc = "planning", !.copy = copy, !.todo = @ \ {l}]
     /\ UNCHANGED <<environment, rested, request, mail, answer, bounds>>

EndCycle ==
  /\ drip.pc = "planning" /\ drip.todo = {}
  /\ drip' = Asleep
  /\ UNCHANGED <<store, environment, rested, request, mail, answer, bounds>>

(* A save that fails, of pending_send or of the step, ends the cycle.      *)
CycleFails ==
  /\ drip.pc = "recording" \/ \E l \in Leads : Planning(l) /\ Candidate(l)
  /\ failures < MaxFailures
  /\ failures' = failures + 1
  /\ drip' = Asleep
  /\ UNCHANGED <<store, environment, rested, request, mail, answer, overlaps, restarts>>
-----------------------------------------------------------------------------
(* Everything else.                                                        *)
Unsubscribe(l) ==
  /\ Clear(l)
  /\ suppressed' = suppressed \cup {l}
  /\ UNCHANGED <<store, live, rested, drip, request, mail, answer, bounds>>

(* The days between two steps pass.                                        *)
Ripen(l) ==
  /\ store[l].captured /\ rested[l] = store[l].sent /\ rested[l] < Steps
  /\ rested' = [rested EXCEPT ![l] = @ + 1]
  /\ UNCHANGED <<store, environment, drip, request, mail, answer, bounds>>

(* The process ends and starts, with or without a fresh authorization.      *)
Restart(mode) ==
  /\ restarts < MaxRestarts
  /\ restarts' = restarts + 1
  /\ live' = mode
  /\ drip' = Asleep
  /\ request' = [r \in Requests |-> Idle]
  /\ UNCHANGED <<store, suppressed, rested, mail, answer, overlaps, failures>>

DripThread ==
  \/ Wake \/ RecordSent \/ EndCycle
  \/ \E l \in Leads : Skip(l) \/ Plan(l)
  \/ \E accepted, delivers \in BOOLEAN : Send(accepted, delivers)

Next ==
  \/ DripThread \/ CycleFails
  \/ \E r \in Requests : LoadLeads(r) \/ SaveLead(r) \/ CaptureFails(r)
  \/ \E r \in Requests, l \in Leads, hold \in BOOLEAN : CheckSuppression(r, l, hold)
  \/ \E l \in Leads : Unsubscribe(l) \/ Ripen(l) \/ SkipOnError(l)
  \/ \E mode \in BOOLEAN : Restart(mode)

(* _drip_loop never ends and survives what a cycle raises; a request that  *)
(* has loaded the store ends.                                              *)
Fairness == WF_vars(DripThread) /\ \A r \in Requests : WF_vars(SaveLead(r))

Spec == Init /\ [][Next]_vars /\ Fairness
-----------------------------------------------------------------------------
(* No step of the sequence reaches a lead twice.  The tests say so          *)
(* (test_success_advances_once_and_does_not_duplicate), of one thread.     *)
NoStepTwice == \A l \in Leads, k \in 1..Steps : delivered[l][k] < 2

(* ... which holds, through lost answers of the mail server, failing saves  *)
(* and restarts at any point, while no two threads are in the lock at once. *)
SentOnceUnlessOverlapped == overlaps = 0 => NoStepTwice

(* A lead whose capture was answered is in the store, and on hold if that   *)
(* was the answer, with the same exception.                                *)
AnsweredLeadsAreKept ==
  \A l \in Leads : answer[l] # "none" /\ overlaps = 0 =>
    store[l].captured /\ (answer[l] = "hold" => store[l].held)

(* After an unsubscription at most the email in hand still goes out, also   *)
(* when the store the cycle works on is older than the unsubscription.     *)
UnsubscribeStopsEmails == \A l \in Leads : late[l] < 2

(* A step is due and nothing forbids it.                                   *)
IsReady(l) ==
  /\ store[l].captured /\ ~store[l].pending /\ ~store[l].held
  /\ store[l].sent < rested[l] /\ Clear(l) /\ live

(* A step that is due does not stay due: it is sent, or its outcome is      *)
(* unknown and it waits for a person, or something forbids it.             *)
DueStepIsTaken == \A l \in Leads : []<>~IsReady(l)
=============================================================================
