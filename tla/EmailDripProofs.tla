---------------------------- MODULE EmailDripProofs ----------------------------
(***************************************************************************)
(* The email drip's type invariant and three properties, proved for any    *)
(* number of leads, requests, steps, failures and restarts.                *)
(***************************************************************************)
EXTENDS EmailDrip, TLAPS

Cycle ==
  [pc : {"planning", "sending", "recording"}, copy : Store, now : [Leads -> 0..Steps],
   todo : SUBSET Leads, lead : Leads]
Checked == [pc : {"checked"}, lead : Leads, hold : BOOLEAN]
Loaded == [pc : {"loaded"}, lead : Leads, hold : BOOLEAN, copy : Store]

(* An email in hand is a step of the sequence, and its lead's is pending.  *)
StepIsThere ==
  drip.pc \in {"sending", "recording"} =>
    drip.copy[drip.lead].sent < Steps /\ drip.copy[drip.lead].pending

(* While no two threads have been in the lock at once, whoever is in it is  *)
(* alone, and its copy is the store.                                       *)
CopiesAreTrue ==
  /\ drip # Asleep => drip.copy = store /\ ~Capturing(Requests)
  /\ \A r \in Requests : request[r].pc = "loaded" =>
       request[r].copy = store /\ ~Capturing(Requests \ {r})

(* What has not been submitted yet: the steps after the next one, and the   *)
(* next one until its email is pending and out of the cycle's hand.        *)
Unsent(l, k) ==
  \/ k > store[l].sent + 1
  \/ k = store[l].sent + 1 /\ (~store[l].pending \/ (drip.pc = "sending" /\ drip.lead = l))

SentInOrder ==
  \A l \in Leads, k \in 1..Steps : delivered[l][k] <= 1 /\ (Unsent(l, k) => delivered[l][k] = 0)

AnswersAreTrue ==
  \A l \in Leads : answer[l] # "none" =>
    store[l].captured /\ (answer[l] = "hold" => store[l].held)

WhileAlone == overlaps = 0 => CopiesAreTrue /\ SentInOrder /\ AnswersAreTrue

(* An email in hand was begun before its lead unsubscribed.                *)
OneIsLate ==
  \A l \in Leads :
    /\ late[l] <= 1 /\ (late[l] = 1 => l \in suppressed)
    /\ drip.pc = "sending" /\ drip.lead = l => late[l] = 0

(* What the two kinds of threads hold.                                     *)
LEMMA Rows ==
  ASSUME TypeOK
  PROVE  /\ drip = Asleep \/ drip \in Cycle
         /\ drip # Asleep <=> drip.pc \in {"planning", "sending", "recording"}
         /\ \A r \in Requests :
              /\ request[r] = Idle \/ request[r] \in Checked \/ request[r] \in Loaded
              /\ request[r] = Idle <=> request[r].pc = "idle"
              /\ request[r].pc = "checked" => request[r] \in Checked
              /\ request[r].pc = "loaded" => request[r] \in Loaded
BY DEF TypeOK, Cycle, Checked, Loaded, Asleep, Idle

LEMMA RequestBecomes ==
  ASSUME TypeOK, NEW r \in Requests, NEW x \in {Idle} \cup Checked \cup Loaded, Becomes(r, x)
  PROVE  /\ request' \in [Requests -> {Idle} \cup Checked \cup Loaded]
         /\ request'[r] = x
         /\ \A s \in Requests \ {r} : request'[s] = request[s]
BY DEF TypeOK, Becomes, Checked, Loaded

LEMMA LoadRow ==
  ASSUME TypeOK, NEW r \in Requests, LoadLeads(r)
  PROVE  /\ request[r] \in Checked
         /\ \/ /\ NothingToSave(store[request[r].lead], request[r].hold)
               /\ Answer(request[r].lead, request[r].hold) /\ Becomes(r, Idle)
            \/ /\ UNCHANGED answer
               /\ \E x \in Loaded : Becomes(r, x) /\ x.copy = store
<1> DEFINE x == [pc |-> "loaded", lead |-> request[r].lead, hold |-> request[r].hold, copy |-> store]
<1>1. request[r] \in Checked
  BY Rows DEF LoadLeads
<1>2. x \in Loaded
  BY <1>1 DEF TypeOK, Checked, Loaded
<1> QED BY <1>1, <1>2 DEF LoadLeads

LEMMA AnswerTyped ==
  ASSUME TypeOK, NEW l \in Leads, NEW hold \in BOOLEAN, Answer(l, hold)
  PROVE  answer' \in [Leads -> {"none", "ok", "hold"}]
BY DEF TypeOK, Answer

LEMMA Saved ==
  ASSUME NEW copy \in Store, NEW l \in Leads, NEW x \in Record
  PROVE  /\ [copy EXCEPT ![l] = x] \in Store
         /\ [copy EXCEPT ![l] = x][l] = x
         /\ \A k \in Leads \ {l} : [copy EXCEPT ![l] = x][k] = copy[k]
BY DEF Store

(* A lead's record after its email.                                        *)
LEMMA Counted ==
  ASSUME NEW row \in Record, row.sent < Steps,
         NEW x, x = [row EXCEPT !.sent = @ + 1, !.pending = FALSE]
  PROVE  /\ x \in Record /\ ~x.pending /\ x.sent = row.sent + 1
         /\ x.captured = row.captured /\ x.held = row.held
<1>1. row.sent + 1 \in 0..Steps
  BY StepsAssumption DEF Record
<1> QED BY <1>1 DEF Record

LEMMA SaveRow ==
  ASSUME TypeOK, NEW r \in Requests, SaveLead(r)
  PROVE  LET l == request[r].lead
             copy == request[r].copy
         IN /\ request[r] \in Loaded /\ store' \in Store
            /\ store'[l].captured /\ store'[l].held = (copy[l].held \/ request[r].hold)
            /\ store'[l].sent = copy[l].sent /\ store'[l].pending = copy[l].pending
            /\ \A k \in Leads \ {l} : store'[k] = copy[k]
            /\ rested' \in [Leads -> 0..Steps]
<1> DEFINE l == request[r].lead
           copy == request[r].copy
           x == [copy[l] EXCEPT !.captured = TRUE, !.held = @ \/ request[r].hold]
<1>1. request[r] \in Loaded
  BY Rows DEF SaveLead
<1>2. l \in Leads /\ copy \in Store /\ copy[l] \in Record /\ request[r].hold \in BOOLEAN
  BY <1>1 DEF Loaded, Store
<1>3. x \in Record /\ x.captured /\ x.held = (copy[l].held \/ request[r].hold)
       /\ x.sent = copy[l].sent /\ x.pending = copy[l].pending
  <2> DEFINE row == copy[l]
             held == copy[l].held \/ request[r].hold
  <2>1. row \in Record /\ held \in BOOLEAN /\ x = [row EXCEPT !.captured = TRUE, !.held = held]
    BY <1>2
  <2> HIDE DEF x, row, held
  <2>2. /\ x \in Record /\ x.captured /\ x.held = held
        /\ x.sent = row.sent /\ x.pending = row.pending
    BY <2>1 DEF Record
  <2> QED BY <2>2 DEF row, held
<1>4. store' = [copy EXCEPT ![l] = x]
  BY DEF SaveLead
<1>5. rested' \in [Leads -> 0..Steps]
  BY <1>2, StepsAssumption DEF SaveLead, TypeOK
<1>6. store' \in Store /\ store'[l] = x /\ \A k \in Leads \ {l} : store'[k] = copy[k]
  <2> HIDE DEF x, l, copy
  <2>1. store' = [copy EXCEPT ![l] = x] /\ x \in Record /\ copy \in Store /\ l \in Leads
    BY <1>2, <1>3, <1>4
  <2>2. [copy EXCEPT ![l] = x] \in Store
    BY <2>1, Saved
  <2>3. [copy EXCEPT ![l] = x][l] = x /\ \A k \in Leads \ {l} : [copy EXCEPT ![l] = x][k] = copy[k]
    BY <2>1, Saved
  <2> QED BY <2>1, <2>2, <2>3
<1> QED BY <1>1, <1>3, <1>5, <1>6, Zenon

(* The cycle's steps, by what they leave in its hands.                     *)
LEMMA WakeRow ==
  ASSUME TypeOK, Wake
  PROVE  /\ drip = Asleep /\ drip' \in Cycle /\ drip'.pc = "planning" /\ drip'.copy = store
<1>1. (CHOOSE l \in Leads : TRUE) \in Leads
  BY LeadsAssumption
<1>2. {l \in Leads : store[l].captured} \subseteq Leads
  OBVIOUS
<1> QED BY <1>1, <1>2 DEF Wake, TypeOK, Cycle

LEMMA SkipRow ==
  ASSUME TypeOK, NEW l \in Leads, Planning(l), drip' = [drip EXCEPT !.todo = @ \ {l}]
  PROVE  drip' \in Cycle /\ drip'.pc = "planning" /\ drip'.copy = drip.copy
<1>1. drip \in Cycle /\ drip.pc = "planning"
  BY Rows DEF Planning
<1> QED BY <1>1 DEF Cycle

LEMMA PlanRow ==
  ASSUME TypeOK, NEW l \in Leads, Plan(l)
  PROVE  /\ drip \in Cycle /\ drip.pc = "planning" /\ ~drip.copy[l].pending
         /\ drip.copy[l].sent < Steps /\ Clear(l)
         /\ drip' \in Cycle /\ drip'.pc = "sending" /\ drip'.lead = l /\ drip'.copy = store'
         /\ store' \in Store /\ store'[l].pending /\ store'[l].sent = drip.copy[l].sent
         /\ store'[l].captured = drip.copy[l].captured /\ store'[l].held = drip.copy[l].held
         /\ \A k \in Leads \ {l} : store'[k] = drip.copy[k]
<1>1. drip \in Cycle /\ drip.pc = "planning"
  BY Rows DEF Plan, Planning
<1>2. drip.copy \in Store /\ drip.copy[l] \in Record /\ drip.now[l] \in 0..Steps
  BY <1>1 DEF Cycle, Store
<1>3. ~drip.copy[l].pending /\ drip.copy[l].sent < Steps /\ Clear(l)
  BY <1>2, StepsAssumption DEF Plan, Candidate, Due, Record
<1> DEFINE x == [drip.copy[l] EXCEPT !.pending = TRUE]
           copy == [drip.copy EXCEPT ![l] = x]
<1>4. x \in Record /\ x.pending /\ x.sent = drip.copy[l].sent
       /\ x.captured = drip.copy[l].captured /\ x.held = drip.copy[l].held
  BY <1>2 DEF Record
<1>5. store' = copy /\ drip' = [drip EXCEPT !.pc = "sending", !.lead = l, !.copy = copy]
  BY <1>1 DEF Plan, Cycle
<1> HIDE DEF x
<1>6. copy \in Store /\ copy[l] = x /\ \A k \in Leads \ {l} : copy[k] = drip.copy[k]
  BY <1>2, <1>4, Saved
<1> HIDE DEF copy
<1>7. drip' \in Cycle /\ drip'.pc = "sending" /\ drip'.lead = l /\ drip'.copy = copy
  BY <1>1, <1>5, <1>6 DEF Cycle
<1> QED BY <1>1, <1>3, <1>4, <1>5, <1>6, <1>7

LEMMA SendRow ==
  ASSUME TypeOK, NEW accepted \in BOOLEAN, NEW delivers \in BOOLEAN, Send(accepted, delivers)
  PROVE  /\ drip \in Cycle /\ drip.pc = "sending"
         /\ drip' \in Cycle /\ drip'.copy = drip.copy /\ drip'.pc \in {"planning", "recording"}
         /\ drip'.pc = "recording" => drip'.lead = drip.lead
<1>1. drip \in Cycle /\ drip.pc = "sending"
  BY Rows DEF Send
<1> QED BY <1>1 DEF Send, Cycle

LEMMA RecordRow ==
  ASSUME TypeOK, StepIsThere, RecordSent
  PROVE  LET l == drip.lead
         IN /\ drip \in Cycle /\ drip.pc = "recording"
            /\ drip' \in Cycle /\ drip'.pc = "planning" /\ drip'.copy = store'
            /\ store' \in Store /\ ~store'[l].pending /\ store'[l].sent = drip.copy[l].sent + 1
            /\ store'[l].captured = drip.copy[l].captured /\ store'[l].held = drip.copy[l].held
            /\ \A k \in Leads \ {l} : store'[k] = drip.copy[k]
<1> DEFINE l == drip.lead
           x == [drip.copy[l] EXCEPT !.sent = @ + 1, !.pending = FALSE]
           copy == [drip.copy EXCEPT ![l] = x]
<1>1. drip \in Cycle /\ drip.pc = "recording"
  BY Rows DEF RecordSent
<1>2. l \in Leads /\ drip.copy \in Store /\ drip.copy[l] \in Record
  BY <1>1 DEF Cycle, Store
<1>3. drip.copy[l].sent < Steps
  BY <1>1 DEF StepIsThere
<1>4. x \in Record /\ ~x.pending /\ x.sent = drip.copy[l].sent + 1
       /\ x.captured = drip.copy[l].captured /\ x.held = drip.copy[l].held
  <2> HIDE DEF l
  <2> QED BY <1>2, <1>3, Counted
<1>5. store' = copy /\ drip' = [drip EXCEPT !.pc = "planning", !.copy = copy, !.todo = @ \ {l}]
  <2>1. [drip.copy EXCEPT ![drip.lead].sent = @ + 1, ![drip.lead].pending = FALSE] = copy
    BY <1>2 DEF Store, Record
  <2> QED BY <2>1 DEF RecordSent
<1> HIDE DEF x
<1>6. copy \in Store /\ copy[l] = x /\ \A k \in Leads \ {l} : copy[k] = drip.copy[k]
  BY <1>2, <1>4, Saved
<1> HIDE DEF copy
<1>7. drip' \in Cycle /\ drip'.pc = "planning" /\ drip'.copy = copy
  BY <1>1, <1>2, <1>5, <1>6 DEF Cycle
<1> QED BY <1>1, <1>4, <1>5, <1>6, <1>7

(* The same of all the cycle's steps that leave the store alone.           *)
LEMMA EndRow ==
  ASSUME EndCycle \/ CycleFails \/ \E mode \in BOOLEAN : Restart(mode)
  PROVE  drip' = Asleep /\ store' = store
BY DEF EndCycle, CycleFails, Restart
-----------------------------------------------------------------------------
LEMMA StoreTyped == TypeOK /\ StepIsThere /\ [Next]_vars => store' \in Store
<1> SUFFICES ASSUME TypeOK, StepIsThere, [Next]_vars
             PROVE  store' \in Store
  OBVIOUS
<1>1. CASE \E r \in Requests : SaveLead(r)
  BY <1>1, SaveRow
<1>2. CASE \E l \in Leads : Plan(l)
  BY <1>2, PlanRow
<1>3. CASE RecordSent
  BY <1>3, RecordRow
<1>4. CASE UNCHANGED store
  BY <1>4 DEF TypeOK
<1>5. \/ \E r \in Requests : SaveLead(r)
      \/ \E l \in Leads : Plan(l)
      \/ RecordSent
      \/ UNCHANGED store
  BY DEF Next, vars, DripThread, Wake, EndCycle, Skip, Send, CycleFails, LoadLeads, CaptureFails,
         CheckSuppression, Unsubscribe, Ripen, SkipOnError, Restart
<1> QED BY <1>1, <1>2, <1>3, <1>4, <1>5

LEMMA DripTyped ==
  TypeOK /\ StepIsThere /\ [Next]_vars => (drip' = Asleep \/ drip' \in Cycle) /\ StepIsThere'
<1> SUFFICES ASSUME TypeOK, StepIsThere, [Next]_vars
             PROVE  (drip' = Asleep \/ drip' \in Cycle) /\ StepIsThere'
  OBVIOUS
<1>1. CASE Wake
  BY <1>1, WakeRow DEF StepIsThere
<1>2. CASE \E l \in Leads : Skip(l) \/ SkipOnError(l)
  BY <1>2, SkipRow DEF Skip, SkipOnError, StepIsThere
<1>3. ASSUME NEW l \in Leads, Plan(l)
      PROVE  drip' \in Cycle /\ StepIsThere'
  BY <1>3, PlanRow DEF StepIsThere
<1>4. CASE \E accepted, delivers \in BOOLEAN : Send(accepted, delivers)
  BY <1>4, SendRow DEF StepIsThere
<1>5. CASE RecordSent
  BY <1>5, RecordRow DEF StepIsThere
<1>6. CASE EndCycle \/ CycleFails \/ \E mode \in BOOLEAN : Restart(mode)
  BY <1>6, EndRow DEF Asleep, StepIsThere
<1>7. CASE UNCHANGED drip
  BY <1>7, Rows DEF StepIsThere
<1>8. \/ Wake
      \/ \E l \in Leads : Skip(l) \/ SkipOnError(l)
      \/ \E l \in Leads : Plan(l)
      \/ \E accepted, delivers \in BOOLEAN : Send(accepted, delivers)
      \/ RecordSent
      \/ EndCycle \/ CycleFails \/ \E mode \in BOOLEAN : Restart(mode)
      \/ UNCHANGED drip
  BY DEF Next, vars, DripThread, LoadLeads, SaveLead, CaptureFails, CheckSuppression,
         Unsubscribe, Ripen
<1> QED BY <1>1, <1>2, <1>3, <1>4, <1>5, <1>6, <1>7, <1>8

LEMMA RequestTyped ==
  TypeOK /\ [Next]_vars => request' \in [Requests -> {Idle} \cup Checked \cup Loaded]
<1> SUFFICES ASSUME TypeOK, [Next]_vars
             PROVE  request' \in [Requests -> {Idle} \cup Checked \cup Loaded]
  OBVIOUS
<1>1. ASSUME NEW r \in Requests, NEW l \in Leads, NEW hold \in BOOLEAN, CheckSuppression(r, l, hold)
      PROVE  request' \in [Requests -> {Idle} \cup Checked \cup Loaded]
  <2>1. [pc |-> "checked", lead |-> l, hold |-> hold] \in Checked
    BY DEF Checked
  <2> QED BY <1>1, <2>1, RequestBecomes DEF CheckSuppression
<1>2. ASSUME NEW r \in Requests, LoadLeads(r)
      PROVE  request' \in [Requests -> {Idle} \cup Checked \cup Loaded]
  BY <1>2, LoadRow, RequestBecomes
<1>3. ASSUME NEW r \in Requests, SaveLead(r) \/ CaptureFails(r)
      PROVE  request' \in [Requests -> {Idle} \cup Checked \cup Loaded]
  BY <1>3, RequestBecomes DEF SaveLead, CaptureFails
<1>4. CASE \E mode \in BOOLEAN : Restart(mode)
  BY <1>4 DEF Restart
<1>5. CASE UNCHANGED request
  BY <1>5 DEF TypeOK, Checked, Loaded
<1>6. \/ \E r \in Requests, l \in Leads, hold \in BOOLEAN : CheckSuppression(r, l, hold)
      \/ \E r \in Requests : LoadLeads(r) \/ SaveLead(r) \/ CaptureFails(r)
      \/ \E mode \in BOOLEAN : Restart(mode)
      \/ UNCHANGED request
  BY DEF Next, vars, DripThread, Wake, Skip, Plan, Send, RecordSent, EndCycle, CycleFails,
         Unsubscribe, Ripen, SkipOnError
<1> QED BY <1>1, <1>2, <1>3, <1>4, <1>5, <1>6

LEMMA AnswersTyped ==
  TypeOK /\ [Next]_vars => answer' \in [Leads -> {"none", "ok", "hold"}]
<1> SUFFICES ASSUME TypeOK, [Next]_vars
             PROVE  answer' \in [Leads -> {"none", "ok", "hold"}]
  OBVIOUS
<1>1. ASSUME NEW r \in Requests, LoadLeads(r)
      PROVE  answer' \in [Leads -> {"none", "ok", "hold"}]
  <2>1. request[r].lead \in Leads /\ request[r].hold \in BOOLEAN
    BY <1>1, LoadRow DEF Checked
  <2>2. answer' = answer \/ Answer(request[r].lead, request[r].hold)
    BY <1>1, LoadRow
  <2>3. CASE answer' = answer
    BY <2>3 DEF TypeOK
  <2>4. CASE Answer(request[r].lead, request[r].hold)
    BY <2>1, <2>4, AnswerTyped
  <2> QED BY <2>2, <2>3, <2>4
<1>2. ASSUME NEW r \in Requests, SaveLead(r)
      PROVE  answer' \in [Leads -> {"none", "ok", "hold"}]
  <2>1. request[r].lead \in Leads /\ request[r].hold \in BOOLEAN
    BY <1>2, SaveRow DEF Loaded
  <2> QED BY <1>2, <2>1, AnswerTyped DEF SaveLead
<1>3. CASE UNCHANGED answer
  BY <1>3 DEF TypeOK
<1>4. (\E r \in Requests : LoadLeads(r) \/ SaveLead(r)) \/ UNCHANGED answer
  BY DEF Next, vars, DripThread, Wake, Skip, Plan, Send, RecordSent, EndCycle, CycleFails,
         CaptureFails, CheckSuppression, Unsubscribe, Ripen, SkipOnError, Restart
<1> QED BY <1>1, <1>2, <1>3, <1>4

LEMMA MailRow ==
  ASSUME TypeOK
  PROVE  /\ \A l \in Leads, k \in 1..Steps : delivered[l][k] \in 0..2
         /\ \A l \in Leads : late[l] \in 0..2
<1>1. delivered \in [Leads -> [1..Steps -> 0..2]] /\ late \in [Leads -> 0..2]
  BY DEF TypeOK
<1> QED BY <1>1

LEMMA MailTyped ==
  TypeOK /\ StepIsThere /\ [Next]_vars =>
    delivered' \in [Leads -> [1..Steps -> 0..2]] /\ late' \in [Leads -> 0..2]
<1> SUFFICES ASSUME TypeOK, StepIsThere, [Next]_vars
             PROVE  delivered' \in [Leads -> [1..Steps -> 0..2]] /\ late' \in [Leads -> 0..2]
  OBVIOUS
<1>1. ASSUME NEW accepted \in BOOLEAN, NEW delivers \in BOOLEAN, Send(accepted, delivers)
      PROVE  delivered' \in [Leads -> [1..Steps -> 0..2]] /\ late' \in [Leads -> 0..2]
  <2> DEFINE l == drip.lead
             k == drip.copy[l].sent + 1
  <2>1. l \in Leads /\ k \in 1..Steps
    BY <1>1, SendRow, StepsAssumption DEF StepIsThere, Cycle, Store, Record
  <2>2. delivered[l][k] \in 0..2 /\ late[l] \in 0..2
    BY <2>1, MailRow
  <2>3. OrMore(delivered[l][k]) \in 0..2 /\ OrMore(late[l]) \in 0..2
    BY <2>2 DEF OrMore
  <2>4. \/ UNCHANGED mail
        \/ /\ delivered' = [delivered EXCEPT ![l][k] = OrMore(@)]
           /\ late' = [late EXCEPT ![l] = IF l \in suppressed THEN OrMore(@) ELSE @]
    BY <1>1 DEF Send
  <2> HIDE DEF l, k
  <2>5. delivered' \in [Leads -> [1..Steps -> 0..2]]
    <3>1. delivered \in [Leads -> [1..Steps -> 0..2]]
      BY DEF TypeOK
    <3>2. delivered' = delivered \/ delivered' = [delivered EXCEPT ![l][k] = OrMore(delivered[l][k])]
      BY <2>4 DEF mail
    <3>3. delivered[l] \in [1..Steps -> 0..2]
      BY <2>1, <3>1
    <3>4. [delivered[l] EXCEPT ![k] = OrMore(delivered[l][k])] \in [1..Steps -> 0..2]
      BY <2>1, <2>3, <3>3
    <3> QED BY <2>1, <3>1, <3>2, <3>4
  <2>6. late' \in [Leads -> 0..2]
    BY <2>1, <2>3, <2>4 DEF TypeOK, mail
  <2> QED BY <2>5, <2>6
<1>2. CASE UNCHANGED mail
  BY <1>2 DEF TypeOK, mail
<1>3. (\E accepted, delivers \in BOOLEAN : Send(accepted, delivers)) \/ UNCHANGED mail
  BY DEF Next, vars, mail, DripThread, Wake, Skip, Plan, RecordSent, EndCycle, CycleFails, LoadLeads,
         SaveLead, CaptureFails, CheckSuppression, Unsubscribe, Ripen, SkipOnError, Restart
<1> QED BY <1>1, <1>2, <1>3

LEMMA BoundsRise ==
  ASSUME [Next]_vars
  PROVE  /\ overlaps' = overlaps \/ (overlaps < MaxOverlaps /\ overlaps' = overlaps + 1)
         /\ failures' = failures \/ (failures < MaxFailures /\ failures' = failures + 1)
         /\ restarts' = restarts \/ (restarts < MaxRestarts /\ restarts' = restarts + 1)
<1>1. CASE Wake
  BY <1>1 DEF Wake, Enter
<1>2. CASE \E r \in Requests : LoadLeads(r)
  BY <1>2 DEF LoadLeads, Enter
<1>3. CASE CycleFails
  BY <1>3 DEF CycleFails
<1>4. CASE \E r \in Requests : CaptureFails(r)
  BY <1>4 DEF CaptureFails
<1>5. CASE \E l \in Leads : SkipOnError(l)
  BY <1>5 DEF SkipOnError
<1>6. CASE \E mode \in BOOLEAN : Restart(mode)
  BY <1>6 DEF Restart
<1>7. CASE UNCHANGED bounds
  BY <1>7 DEF bounds
<1>8. \/ Wake \/ CycleFails
      \/ \E r \in Requests : LoadLeads(r)
      \/ \E r \in Requests : CaptureFails(r)
      \/ \E l \in Leads : SkipOnError(l)
      \/ \E mode \in BOOLEAN : Restart(mode)
      \/ UNCHANGED bounds
  BY DEF Next, vars, bounds, DripThread, Skip, Plan, Send, RecordSent, EndCycle, SaveLead,
         CheckSuppression, Unsubscribe, Ripen
<1> QED BY <1>1, <1>2, <1>3, <1>4, <1>5, <1>6, <1>7, <1>8

LEMMA RestTyped ==
  TypeOK /\ [Next]_vars =>
    /\ suppressed' \subseteq Leads /\ live' \in BOOLEAN
    /\ rested' \in [Leads -> 0..Steps]
    /\ overlaps' \in 0..MaxOverlaps /\ failures' \in 0..MaxFailures /\ restarts' \in 0..MaxRestarts
<1> SUFFICES ASSUME TypeOK, [Next]_vars
             PROVE  /\ suppressed' \subseteq Leads /\ live' \in BOOLEAN
                    /\ rested' \in [Leads -> 0..Steps]
                    /\ overlaps' \in 0..MaxOverlaps /\ failures' \in 0..MaxFailures
                    /\ restarts' \in 0..MaxRestarts
  OBVIOUS
<1>1. rested' \in [Leads -> 0..Steps]
  <2>1. CASE \E r \in Requests : SaveLead(r)
    BY <2>1, SaveRow
  <2>2. CASE \E l \in Leads : Ripen(l)
    BY <2>2, StepsAssumption DEF Ripen, TypeOK
  <2>3. CASE UNCHANGED rested
    BY <2>3 DEF TypeOK
  <2>4. (\E r \in Requests : SaveLead(r)) \/ (\E l \in Leads : Ripen(l)) \/ UNCHANGED rested
    BY DEF Next, vars, DripThread, Wake, Skip, Plan, Send, RecordSent, EndCycle, CycleFails, LoadLeads,
           CaptureFails, CheckSuppression, Unsubscribe, SkipOnError, Restart
  <2> QED BY <2>1, <2>2, <2>3, <2>4
<1>2. suppressed' \subseteq Leads /\ live' \in BOOLEAN
  BY DEF TypeOK, Next, vars, environment, DripThread, Wake, Skip, Plan, Send, RecordSent, EndCycle,
         CycleFails, LoadLeads, SaveLead, CaptureFails, CheckSuppression, Unsubscribe, Ripen,
         SkipOnError, Restart
<1>3. /\ overlaps' = overlaps \/ (overlaps < MaxOverlaps /\ overlaps' = overlaps + 1)
      /\ failures' = failures \/ (failures < MaxFailures /\ failures' = failures + 1)
      /\ restarts' = restarts \/ (restarts < MaxRestarts /\ restarts' = restarts + 1)
  BY BoundsRise
<1> QED BY <1>1, <1>2, <1>3, StepsAssumption DEF TypeOK

LEMMA Typed == Spec => [](TypeOK /\ StepIsThere)
<1>1. Init => TypeOK /\ StepIsThere
  <2>1. Init => TypeOK
    BY StepsAssumption DEF Init, TypeOK, Store, Record, Absent, Idle, Asleep
  <2> QED BY <2>1 DEF Init, StepIsThere, Asleep
<1>2. TypeOK /\ StepIsThere /\ [Next]_vars => TypeOK' /\ StepIsThere'
  <2> SUFFICES ASSUME TypeOK, StepIsThere, [Next]_vars
               PROVE  TypeOK' /\ StepIsThere'
    OBVIOUS
  <2>1. drip' \in {Asleep} \cup Cycle /\ StepIsThere'
    BY DripTyped
  <2> QED BY <2>1, StoreTyped, RequestTyped, AnswersTyped, MailTyped, RestTyped
          DEF TypeOK, Cycle, Checked, Loaded
<1> QED BY <1>1, <1>2, PTL DEF Spec
-----------------------------------------------------------------------------
(* The actions by what they do to the lock, the store and the threads.     *)
LEMMA StepsByThread ==
  ASSUME [Next]_vars
  PROVE  \/ Wake \/ RecordSent
         \/ EndCycle \/ CycleFails \/ \E mode \in BOOLEAN : Restart(mode)
         \/ \E l \in Leads : Skip(l) \/ SkipOnError(l)
         \/ \E l \in Leads : Plan(l)
         \/ \E accepted, delivers \in BOOLEAN : Send(accepted, delivers)
         \/ \E r \in Requests : LoadLeads(r)
         \/ \E r \in Requests : SaveLead(r)
         \/ \E r \in Requests : CaptureFails(r)
         \/ \E r \in Requests, l \in Leads, hold \in BOOLEAN : CheckSuppression(r, l, hold)
         \/ UNCHANGED <<store, drip, request, delivered, answer, overlaps>>
BY DEF Next, vars, mail, bounds, DripThread, Unsubscribe, Ripen

LEMMA CopiesStay ==
  ASSUME TypeOK, StepIsThere, CopiesAreTrue, overlaps = 0, overlaps' = 0, [Next]_vars
  PROVE  CopiesAreTrue'
<1>1. CASE Wake
  <2>1. ~Capturing(Requests) /\ UNCHANGED <<store, request>>
    BY <1>1 DEF Wake, Enter
  <2> QED BY <1>1, <2>1, WakeRow DEF CopiesAreTrue, Capturing
<1>2. CASE RecordSent
  <2>1. drip # Asleep /\ drip'.copy = store'
    BY <1>2, Rows, RecordRow
  <2> QED BY <1>2, <2>1 DEF CopiesAreTrue, Capturing, RecordSent
<1>3. CASE EndCycle \/ CycleFails
  BY <1>3 DEF CopiesAreTrue, Capturing, EndCycle, CycleFails
<1>4. CASE \E mode \in BOOLEAN : Restart(mode)
  BY <1>4 DEF CopiesAreTrue, Capturing, Restart, Idle
<1>5. ASSUME NEW l \in Leads, Skip(l) \/ SkipOnError(l)
      PROVE  CopiesAreTrue'
  <2>1. drip # Asleep /\ drip'.copy = drip.copy /\ UNCHANGED <<store, request>>
    BY <1>5, SkipRow DEF Skip, SkipOnError, Planning, Asleep
  <2> QED BY <2>1 DEF CopiesAreTrue, Capturing
<1>6. ASSUME NEW l \in Leads, Plan(l)
      PROVE  CopiesAreTrue'
  <2>1. drip # Asleep /\ drip'.copy = store' /\ UNCHANGED request
    BY <1>6, PlanRow, Rows DEF Plan
  <2> QED BY <2>1 DEF CopiesAreTrue, Capturing
<1>7. ASSUME NEW accepted \in BOOLEAN, NEW delivers \in BOOLEAN, Send(accepted, delivers)
      PROVE  CopiesAreTrue'
  <2>1. drip # Asleep /\ drip'.copy = drip.copy /\ UNCHANGED <<store, request>>
    BY <1>7, SendRow, Rows DEF Send
  <2> QED BY <2>1 DEF CopiesAreTrue, Capturing
<1>8. ASSUME NEW r \in Requests, LoadLeads(r)
      PROVE  CopiesAreTrue'
  <2>1. drip = Asleep /\ ~Capturing(Requests \ {r}) /\ UNCHANGED <<store, drip>>
    BY <1>8 DEF LoadLeads, Enter
  <2>2. PICK x \in {Idle} \cup Loaded : Becomes(r, x) /\ (x \in Loaded => x.copy = store)
    BY <1>8, LoadRow DEF Loaded, Idle
  <2>3. request'[r] = x /\ \A s \in Requests \ {r} : request'[s] = request[s]
    BY <2>2, RequestBecomes
  <2>4. \A s \in Requests \ {r} : request'[s].pc # "loaded"
    BY <2>1, <2>3 DEF Capturing
  <2>5. request'[r].pc = "loaded" => request'[r].copy = store'
    BY <2>1, <2>2, <2>3 DEF Idle
  <2> QED BY <2>1, <2>4, <2>5 DEF CopiesAreTrue, Capturing
<1>9. ASSUME NEW r \in Requests, SaveLead(r) \/ CaptureFails(r)
      PROVE  CopiesAreTrue'
  <2>1. Becomes(r, Idle) /\ UNCHANGED drip
    BY <1>9 DEF SaveLead, CaptureFails
  <2>2. request'[r] = Idle /\ \A s \in Requests \ {r} : request'[s] = request[s]
    BY <2>1, RequestBecomes
  <2>3. SaveLead(r) => request[r].pc = "loaded"
    BY DEF SaveLead
  <2>4. CaptureFails(r) => UNCHANGED store
    BY DEF CaptureFails
  <2> QED BY <1>9, <2>1, <2>2, <2>3, <2>4 DEF CopiesAreTrue, Capturing, Idle
<1>10. ASSUME NEW r \in Requests, NEW l \in Leads, NEW hold \in BOOLEAN, CheckSuppression(r, l, hold)
       PROVE  CopiesAreTrue'
  <2> DEFINE x == [pc |-> "checked", lead |-> l, hold |-> hold]
  <2>1. Becomes(r, x) /\ UNCHANGED <<drip, store>> /\ x \in Checked /\ x.pc # "loaded"
    BY <1>10 DEF CheckSuppression, Checked
  <2> HIDE DEF x
  <2>2. request'[r] = x /\ \A s \in Requests \ {r} : request'[s] = request[s]
    BY <2>1, RequestBecomes
  <2> QED BY <2>1, <2>2 DEF CopiesAreTrue, Capturing
<1>11. CASE UNCHANGED <<store, drip, request, delivered, answer, overlaps>>
  BY <1>11 DEF CopiesAreTrue, Capturing
<1> QED BY <1>1, <1>2, <1>3, <1>4, <1>5, <1>6, <1>7, <1>8, <1>9, <1>10, <1>11, StepsByThread

(* A capture leaves what was sent as it is.                                *)
LEMMA OrderStays ==
  ASSUME TypeOK, StepIsThere, CopiesAreTrue, SentInOrder, [Next]_vars
  PROVE  SentInOrder'
<1> SUFFICES ASSUME NEW l \in Leads, NEW k \in 1..Steps
             PROVE  delivered'[l][k] <= 1 /\ (Unsent(l, k)' => delivered'[l][k] = 0)
  BY DEF SentInOrder
<1>0. delivered[l][k] <= 1 /\ (Unsent(l, k) => delivered[l][k] = 0)
  BY DEF SentInOrder
<1>s. store[l].sent \in Nat /\ k \in Nat
  BY DEF TypeOK, Store, Record
<1>1. CASE Wake
  BY <1>0, <1>1, WakeRow DEF Unsent, Wake, mail
<1>2. CASE RecordSent
  <2>1. delivered' = delivered /\ drip'.pc = "planning"
    BY <1>2, RecordRow DEF RecordSent, mail
  <2>2. store'[l] = store[l] \/ store'[l].sent = store[l].sent + 1
    BY <1>2, RecordRow, Rows DEF CopiesAreTrue
  <2> QED BY <1>0, <1>s, <2>1, <2>2 DEF Unsent
<1>3. CASE EndCycle \/ CycleFails \/ \E mode \in BOOLEAN : Restart(mode)
  BY <1>0, <1>3 DEF Unsent, EndCycle, CycleFails, Restart, mail, Asleep
<1>4. CASE \E x \in Leads : Skip(x) \/ SkipOnError(x)
  BY <1>0, <1>4, SkipRow DEF Unsent, Skip, SkipOnError, mail
<1>5. ASSUME NEW x \in Leads, Plan(x)
      PROVE  delivered'[l][k] <= 1 /\ (Unsent(l, k)' => delivered'[l][k] = 0)
  <2>1. delivered' = delivered /\ drip'.lead = x
    BY <1>5, PlanRow DEF Plan, mail
  <2>2. drip.copy = store
    BY <1>5, PlanRow, Rows DEF CopiesAreTrue
  <2>3. store'[l].sent = store[l].sent /\ (l # x => store'[l] = store[l])
       /\ (l = x => ~store[l].pending)
    BY <1>5, <2>2, PlanRow
  <2> QED BY <1>0, <2>1, <2>3 DEF Unsent
<1>6. ASSUME NEW accepted \in BOOLEAN, NEW delivers \in BOOLEAN, Send(accepted, delivers)
      PROVE  delivered'[l][k] <= 1 /\ (Unsent(l, k)' => delivered'[l][k] = 0)
  <2>1. drip.pc = "sending" /\ drip'.pc # "sending" /\ store' = store /\ drip.copy = store
    BY <1>6, SendRow, Rows DEF Send, CopiesAreTrue
  <2>2. CASE drip.lead = l /\ store[l].sent + 1 = k
    <3>1. store[l].pending /\ delivered[l][k] = 0
      BY <1>0, <2>1, <2>2 DEF StepIsThere, Unsent
    <3>2. delivered'[l][k] \in {0, 1}
      <4>1. delivered \in [Leads -> [1..Steps -> 0..2]]
        BY DEF TypeOK
      <4>2. delivered' = delivered \/ delivered' = [delivered EXCEPT ![l][k] = OrMore(delivered[l][k])]
        BY <1>6, <2>1, <2>2 DEF Send, mail
      <4> QED BY <3>1, <4>1, <4>2 DEF OrMore
    <3> QED BY <1>s, <2>1, <2>2, <3>1, <3>2 DEF Unsent
  <2>3. CASE ~(drip.lead = l /\ store[l].sent + 1 = k)
    <3>1. delivered'[l][k] = delivered[l][k]
      <4>1. delivered \in [Leads -> [1..Steps -> 0..2]]
        BY DEF TypeOK
      <4>2. \/ delivered' = delivered
            \/ delivered' = [delivered EXCEPT ![drip.lead][store[drip.lead].sent + 1] = OrMore(@)]
        BY <1>6, <2>1 DEF Send, mail
      <4> DEFINE m == drip.lead
                 n == store[m].sent + 1
      <4>3. m # l \/ n # k
        BY <2>3
      <4> HIDE DEF m, n
      <4>4. [delivered EXCEPT ![m][n] = OrMore(@)][l][k] = delivered[l][k]
        BY <4>1, <4>3
      <4> QED BY <4>2, <4>4 DEF m, n
    <3> QED BY <1>0, <2>1, <3>1 DEF Unsent
  <2> QED BY <2>2, <2>3
<1>7. CASE \E r \in Requests : SaveLead(r)
  <2>1. PICK r \in Requests : SaveLead(r)
    BY <1>7
  <2>2. delivered' = delivered /\ drip' = drip /\ request[r].pc = "loaded"
    BY <2>1 DEF SaveLead, mail
  <2>3. request[r].copy = store
    BY <2>2 DEF CopiesAreTrue
  <2>4. store'[l].sent = store[l].sent /\ store'[l].pending = store[l].pending
    BY <2>1, <2>3, SaveRow
  <2> QED BY <1>0, <2>2, <2>4 DEF Unsent
<1>8. CASE \E r \in Requests : LoadLeads(r) \/ CaptureFails(r)
  BY <1>0, <1>8 DEF Unsent, LoadLeads, CaptureFails, mail
<1>9. CASE \E r \in Requests, x \in Leads, hold \in BOOLEAN : CheckSuppression(r, x, hold)
  BY <1>0, <1>9 DEF Unsent, CheckSuppression, mail
<1>10. CASE UNCHANGED <<store, drip, request, delivered, answer, overlaps>>
  BY <1>0, <1>10 DEF Unsent
<1> QED BY <1>1, <1>2, <1>3, <1>4, <1>5, <1>6, <1>7, <1>8, <1>9, <1>10, StepsByThread

LEMMA AnswersStay ==
  ASSUME TypeOK, StepIsThere, CopiesAreTrue, AnswersAreTrue, [Next]_vars
  PROVE  AnswersAreTrue'
<1> SUFFICES ASSUME NEW l \in Leads, answer'[l] # "none"
             PROVE  store'[l].captured /\ (answer'[l] = "hold" => store'[l].held)
  BY DEF AnswersAreTrue
<1>0. answer[l] # "none" => store[l].captured /\ (answer[l] = "hold" => store[l].held)
  BY DEF AnswersAreTrue
<1>1. CASE RecordSent
  <2>1. drip.copy = store /\ answer' = answer
    BY <1>1, RecordRow, Rows DEF CopiesAreTrue, RecordSent
  <2> QED BY <1>0, <1>1, <2>1, RecordRow
<1>2. CASE \E x \in Leads : Plan(x)
  <2>1. PICK x \in Leads : Plan(x)
    BY <1>2
  <2>2. drip.copy = store /\ answer' = answer
    BY <2>1, PlanRow, Rows DEF CopiesAreTrue, Plan
  <2> QED BY <1>0, <2>1, <2>2, PlanRow
<1>3. ASSUME NEW r \in Requests, LoadLeads(r)
      PROVE  store'[l].captured /\ (answer'[l] = "hold" => store'[l].held)
  <2>1. store' = store /\ request[r] \in Checked
    BY <1>3, LoadRow DEF LoadLeads
  <2>2. CASE answer' = answer
    BY <1>0, <2>1, <2>2
  <2>3. CASE /\ NothingToSave(store[request[r].lead], request[r].hold)
             /\ Answer(request[r].lead, request[r].hold)
    BY <1>0, <2>1, <2>3 DEF NothingToSave, Answer, Checked, TypeOK
  <2> QED BY <1>3, <2>2, <2>3, LoadRow
<1>4. ASSUME NEW r \in Requests, SaveLead(r)
      PROVE  store'[l].captured /\ (answer'[l] = "hold" => store'[l].held)
  <2>1. request[r].copy = store
    BY <1>4 DEF CopiesAreTrue, SaveLead
  <2>2. Answer(request[r].lead, request[r].hold) /\ request[r].lead \in Leads
    BY <1>4, SaveRow DEF SaveLead, Loaded
  <2>3. CASE l = request[r].lead
    BY <1>0, <1>4, <2>1, <2>2, <2>3, SaveRow DEF Answer, TypeOK
  <2>4. CASE l # request[r].lead
    BY <1>0, <1>4, <2>1, <2>2, <2>4, SaveRow DEF Answer, TypeOK
  <2> QED BY <2>3, <2>4
<1>5. CASE UNCHANGED <<store, answer>>
  BY <1>0, <1>5
<1>6. \/ RecordSent
      \/ \E x \in Leads : Plan(x)
      \/ \E r \in Requests : LoadLeads(r)
      \/ \E r \in Requests : SaveLead(r)
      \/ UNCHANGED <<store, answer>>
  BY StepsByThread DEF Wake, EndCycle, CycleFails, Restart, Skip, SkipOnError, Send, CaptureFails,
                CheckSuppression
<1> QED BY <1>1, <1>2, <1>3, <1>4, <1>5, <1>6

LEMMA WhileAloneAlways == Spec => []WhileAlone
<1>1. Init => WhileAlone
  BY DEF Init, WhileAlone, CopiesAreTrue, SentInOrder, Unsent, AnswersAreTrue, Capturing, Idle, Asleep
<1>2. TypeOK /\ StepIsThere /\ WhileAlone /\ [Next]_vars => WhileAlone'
  <2> SUFFICES ASSUME TypeOK, StepIsThere, WhileAlone, [Next]_vars, overlaps' = 0
               PROVE  CopiesAreTrue' /\ SentInOrder' /\ AnswersAreTrue'
    BY DEF WhileAlone
  <2>1. overlaps = 0
    BY BoundsRise DEF TypeOK
  <2>2. CopiesAreTrue /\ SentInOrder /\ AnswersAreTrue
    BY <2>1 DEF WhileAlone
  <2> QED BY <2>1, <2>2, CopiesStay, OrderStays, AnswersStay
<1> QED BY <1>1, <1>2, Typed, PTL DEF Spec

LEMMA OneIsLateAlways == Spec => []OneIsLate
<1>1. Init => OneIsLate
  <2> SUFFICES ASSUME Init, NEW l \in Leads
               PROVE  /\ late[l] <= 1 /\ (late[l] = 1 => l \in suppressed)
                      /\ drip.pc = "sending" /\ drip.lead = l => late[l] = 0
    BY DEF OneIsLate
  <2> QED BY DEF Init, Asleep
<1>2. TypeOK /\ StepIsThere /\ OneIsLate /\ [Next]_vars => OneIsLate'
  <2> SUFFICES ASSUME TypeOK, StepIsThere, OneIsLate, [Next]_vars, NEW l \in Leads
               PROVE  /\ late'[l] <= 1 /\ (late'[l] = 1 => l \in suppressed')
                      /\ drip'.pc = "sending" /\ drip'.lead = l => late'[l] = 0
    BY DEF OneIsLate
  <2>0. /\ late[l] \in Nat /\ late[l] <= 1 /\ (late[l] = 1 => l \in suppressed)
        /\ drip.pc = "sending" /\ drip.lead = l => late[l] = 0
    BY DEF OneIsLate, TypeOK
  <2>1. CASE \E x \in Leads : Plan(x)
    <3>1. PICK x \in Leads : Plan(x)
      BY <2>1
    <3>2. UNCHANGED <<late, suppressed>> /\ drip'.lead = x /\ x \notin suppressed
      BY <3>1, PlanRow DEF Plan, mail, environment, Clear
    <3> QED BY <2>0, <3>2
  <2>2. ASSUME NEW accepted \in BOOLEAN, NEW delivers \in BOOLEAN, Send(accepted, delivers)
        PROVE  /\ late'[l] <= 1 /\ (late'[l] = 1 => l \in suppressed')
               /\ drip'.pc = "sending" /\ drip'.lead = l => late'[l] = 0
    <3>1. drip.pc = "sending" /\ drip'.pc # "sending" /\ suppressed' = suppressed
      BY <2>2, SendRow DEF Send, environment
    <3>2. \/ late' = late
          \/ late' = [late EXCEPT ![drip.lead] = IF drip.lead \in suppressed THEN OrMore(@) ELSE @]
      BY <2>2 DEF Send, mail
    <3> QED BY <2>0, <3>1, <3>2 DEF TypeOK, OrMore
  <2>3. CASE late' = late /\ suppressed \subseteq suppressed' /\ drip'.pc # "sending"
    BY <2>0, <2>3
  <2>4. CASE late' = late /\ suppressed \subseteq suppressed' /\ drip' = drip
    BY <2>0, <2>4
  <2>5. \/ \E x \in Leads : Plan(x)
        \/ \E accepted, delivers \in BOOLEAN : Send(accepted, delivers)
        \/ late' = late /\ suppressed \subseteq suppressed' /\ drip'.pc # "sending"
        \/ late' = late /\ suppressed \subseteq suppressed' /\ drip' = drip
    <3>1. CASE Wake \/ RecordSent
      BY <3>1, WakeRow, RecordRow DEF Wake, RecordSent, mail, environment
    <3>2. CASE EndCycle \/ CycleFails \/ \E mode \in BOOLEAN : Restart(mode)
      BY <3>2 DEF EndCycle, CycleFails, Restart, Asleep, mail, environment
    <3>3. CASE \E x \in Leads : Skip(x) \/ SkipOnError(x)
      BY <3>3, SkipRow DEF Skip, SkipOnError, mail, environment
    <3> QED BY <3>1, <3>2, <3>3
            DEF Next, vars, mail, environment, DripThread, LoadLeads, SaveLead, CaptureFails,
                CheckSuppression, Unsubscribe, Ripen
  <2> QED BY <2>1, <2>2, <2>3, <2>4, <2>5
<1> QED BY <1>1, <1>2, Typed, PTL DEF Spec
-----------------------------------------------------------------------------
(* The type invariant.                                                     *)
THEOREM DripTypes == Spec => []TypeOK
BY Typed, PTL

(* No step of the sequence reaches a lead twice, through lost answers of    *)
(* the mail server, failing saves and restarts at any point, while no two  *)
(* threads are in the lock at once.                                        *)
THEOREM DripSendsOnce == Spec => []SentOnceUnlessOverlapped
<1>1. TypeOK /\ WhileAlone => SentOnceUnlessOverlapped
  <2> SUFFICES ASSUME TypeOK, WhileAlone, overlaps = 0, NEW l \in Leads, NEW k \in 1..Steps
               PROVE  delivered[l][k] < 2
    BY DEF SentOnceUnlessOverlapped, NoStepTwice
  <2>1. delivered[l][k] <= 1 /\ delivered[l][k] \in 0..2
    BY MailRow DEF WhileAlone, SentInOrder
  <2> QED BY <2>1
<1> QED BY <1>1, Typed, WhileAloneAlways, PTL

(* A lead whose capture was answered is in the store, and on hold if that   *)
(* was the answer, with the same exception.                                *)
THEOREM DripKeepsAnsweredLeads == Spec => []AnsweredLeadsAreKept
<1>1. WhileAlone => AnsweredLeadsAreKept
  BY DEF WhileAlone, AnswersAreTrue, AnsweredLeadsAreKept
<1> QED BY <1>1, WhileAloneAlways, PTL

(* After an unsubscription at most the email in hand still goes out, also   *)
(* when the threads overlap and the store the cycle works on is stale.     *)
THEOREM DripRespectsUnsubscription == Spec => []UnsubscribeStopsEmails
<1>1. TypeOK /\ OneIsLate => UnsubscribeStopsEmails
  <2> SUFFICES ASSUME TypeOK, OneIsLate, NEW l \in Leads
               PROVE  late[l] < 2
    BY DEF UnsubscribeStopsEmails
  <2>1. late[l] <= 1 /\ late[l] \in 0..2
    BY DEF OneIsLate, TypeOK
  <2> QED BY <2>1
<1> QED BY <1>1, Typed, OneIsLateAlways, PTL
=============================================================================
