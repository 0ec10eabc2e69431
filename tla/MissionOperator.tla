--------------------------- MODULE MissionOperator ---------------------------
(***************************************************************************)
(* buddy_core/core/operator.py (BuddyOperator.execute, grant_and_resume)   *)
(* with core/message_delivery.py: missions that run internal steps, stop   *)
(* at an external boundary until the Founder authorizes its exact payload, *)
(* and are then executed again from the first step.                        *)
(*                                                                         *)
(* Several surfaces (request threads of the web and bridge servers, the    *)
(* runtime scripts) run missions at once and share the held-plan directory *)
(* and the authorization ledger.  The ledger is FounderAuthority, one step *)
(* per operation: AuthorizationLedgerProofs shows that the real one        *)
(* implements it.                                                          *)
(*                                                                         *)
(* Abstracted: what a step produces is a member of Drafts, chosen afresh   *)
(* each time the step runs (a language model writes it); an instruction    *)
(* stands for capability, instruction and destination; the retries of an   *)
(* internal step are one outcome.                                          *)
(***************************************************************************)
EXTENDS Naturals, Sequences

CONSTANTS
  Surfaces,    \* threads that call execute or grant_and_resume
  Approvals,   \* approval ids the ledger may mint
  Plans,       \* step sequences plan() may produce
  Drafts,      \* texts an internal step may produce
  Receipt,     \* the result of a delivery: a dict with no text in it
  Nothing      \* None

Kinds == {"internal", "message", "action"}
Contents == Drafts \cup {Receipt}

ASSUME PlansAssumption ==
  \A plan \in Plans :
    /\ Len(plan) \in Nat \ {0} /\ DOMAIN plan = 1..Len(plan)
    /\ \A i \in 1..Len(plan) :
         /\ plan[i].kind \in Kinds
         /\ plan[i].required \in BOOLEAN
         /\ plan[i].anyOf \subseteq 1..(i - 1)
         /\ plan[i].kind # "internal" => plan[i].anyOf = {}

Instructions == UNION {{plan[i].instruction : i \in 1..Len(plan)} : plan \in Plans}

VARIABLES
  authority, bound,  \* the ledger, as in FounderAuthority
  held,              \* approval -> the plan persisted for it
  run,               \* surface -> its execution under way
  sent               \* approval -> payloads transmitted under it (history)

vars == <<authority, bound, held, run, sent>>

Payloads == [instruction : Instructions, content : Contents \cup {Nothing}]

Ledger == INSTANCE FounderAuthority WITH NoPayload <- Nothing

Marks == {"none", "VERIFIED", "SKIPPED", "BLOCKED", "HELD",
          "DELIVERED_UNVERIFIED", "DELIVERED_AUDIT_UNAVAILABLE"}
Delivered == {"VERIFIED", "DELIVERED_UNVERIFIED", "DELIVERED_AUDIT_UNAVAILABLE"}

(* A plan as it is held on disk: its steps, and per step the frozen content *)
(* and the authorization_id written into it; "at" is step_index.           *)
HeldPlans(plan) ==
  [steps : {plan}, at : DOMAIN plan, content : [DOMAIN plan -> Contents \cup {Nothing}],
   token : [DOMAIN plan -> Approvals \cup {Nothing}]]

ASSUME NothingAssumption ==
  Nothing \notin Approvals /\ \A plan \in Plans : Nothing \notin HeldPlans(plan)

(* An execution: where it is ("reading" and "granted" inside grant_and_resume, *)
(* then inside execute), the approval it resumes, the approval it asked for,   *)
(* the last output, the receipts, the token the ledger refused, the status.    *)
Places == {"reading", "granted", "step", "requested", "redeemed", "sent", "finish", "done"}
Statuses == {"none", "COMPLETE", "HELD", "BLOCKED", "DELIVERED_AUDIT_UNAVAILABLE"}
Idle == [pc |-> "idle"]
Runs(plan) ==
  [pc : Places, plan : HeldPlans(plan), resuming : Approvals \cup {Nothing},
   asked : Approvals \cup {Nothing}, output : Contents \cup {Nothing},
   marks : [DOMAIN plan -> Marks], refused : Approvals \cup {Nothing}, status : Statuses]

TypeOK ==
  /\ Ledger!TypeOK
  /\ DOMAIN held = Approvals /\ DOMAIN run = Surfaces
  /\ \A a \in Approvals : held[a] = Nothing \/ \E plan \in Plans : held[a] \in HeldPlans(plan)
  /\ \A s \in Surfaces : run[s] = Idle \/ \E plan \in Plans : run[s] \in Runs(plan)
  /\ sent \in [Approvals -> Seq(Payloads)]

Init ==
  /\ Ledger!Init
  /\ held = [a \in Approvals |-> Nothing]
  /\ run = [s \in Surfaces |-> Idle]
  /\ sent = [a \in Approvals |-> <<>>]
-----------------------------------------------------------------------------
(* The execution that a call of execute(plan) begins.                      *)
Execution(plan, pc, approval) ==
  [pc |-> pc, plan |-> plan, resuming |-> approval, asked |-> Nothing, output |-> Nothing,
   marks |-> [i \in DOMAIN plan.steps |-> "none"], refused |-> Nothing, status |-> "none"]

Fresh(plan) ==
  [steps |-> plan, at |-> 1, content |-> [i \in DOMAIN plan |-> Nothing],
   token |-> [i \in DOMAIN plan |-> Nothing]]

(* The current step of an execution, and the payload freezing gives it: the *)
(* content it already carries, or else the latest output.                  *)
Step(r) == r.plan.steps[r.plan.at]
Token(r) == r.plan.token[r.plan.at]

FrozenContent(r) ==
  LET content == r.plan.content[r.plan.at] IN IF content # Nothing THEN content ELSE r.output
Frozen(r) == [instruction |-> Step(r).instruction, content |-> FrozenContent(r)]
Freezable(r) == Step(r).kind = "message" => FrozenContent(r) \in Drafts

(* The receipt of the current step: the loop breaks, or goes on.           *)
Stop(r, mark) == [r EXCEPT !.pc = "finish", !.marks[r.plan.at] = mark]

Pass(r, mark, output) ==
  [r EXCEPT !.pc = IF r.plan.at = Len(r.plan.steps) THEN "finish" ELSE "step",
            !.plan.at = IF r.plan.at = Len(r.plan.steps) THEN @ ELSE @ + 1,
            !.marks[r.plan.at] = mark,
            !.output = output]

AtBoundary(r) == r.pc = "step" /\ Step(r).kind # "internal"
-----------------------------------------------------------------------------
(* handle: plan the objective and execute it.                              *)
Start(s, plan) ==
  /\ run[s] = Idle
  /\ run' = [run EXCEPT ![s] = Execution(Fresh(plan), "step", Nothing)]
  /\ UNCHANGED <<authority, bound, held, sent>>

(* grant_and_resume reads the held plan; one that is not there is refused. *)
Resume(s, a) ==
  /\ run[s] = Idle
  /\ held[a] # Nothing
  /\ run' = [run EXCEPT ![s] = Execution(held[a], "reading", a)]
  /\ UNCHANGED <<authority, bound, held, sent>>

(* The execution of the held plan, from its first step, with the approval  *)
(* written into the step it was held at.                                   *)
Authorized(r) ==
  [r EXCEPT !.pc = "step", !.plan.at = 1, !.plan.token[r.plan.at] = r.resuming]

Grant(s) ==
  /\ run[s].pc = "reading"
  /\ Ledger!Allow(run[s].resuming)
  /\ run' = [run EXCEPT ![s] = Authorized(@)]
  /\ UNCHANGED <<held, sent>>

(* grant says already_granted: another surface was first, or an earlier    *)
(* resume did not reach the boundary.                                      *)
AlreadyGranted(s) ==
  /\ run[s].pc = "reading"
  /\ authority[run[s].resuming] = "live"
  /\ run' = [run EXCEPT ![s].pc = "granted"]
  /\ UNCHANGED <<authority, bound, held, sent>>

Recheck(s) ==
  /\ run[s].pc = "granted"
  /\ authority[run[s].resuming] = "live"
  /\ run' = [run EXCEPT ![s] = Authorized(@)]
  /\ UNCHANGED <<authority, bound, held, sent>>

GrantRefused(s) ==
  /\ \/ run[s].pc = "reading" /\ authority[run[s].resuming] \in {"spent", "void"}
     \/ run[s].pc = "granted" /\ authority[run[s].resuming] # "live"
  /\ run' = [run EXCEPT ![s] = Idle]
  /\ UNCHANGED <<authority, bound, held, sent>>
-----------------------------------------------------------------------------
(* Mutant: a skipped evidence step is good enough.                         *)
HasNoFailedEvidence(r) ==
  Step(r).anyOf = {} \/ \E i \in Step(r).anyOf : r.marks[i] \in {"VERIFIED", "SKIPPED"}

(* evidence_any_of: one of the named steps was VERIFIED in this execution. *)
HasEvidence(r) ==
  Step(r).anyOf = {} \/ \E i \in Step(r).anyOf : r.marks[i] = "VERIFIED"

(* An internal step: done, or failed after its retries.                    *)
InternalDone(s) ==
  LET r == run[s] IN
  /\ r.pc = "step" /\ Step(r).kind = "internal"
  /\ HasEvidence(r)
  /\ \E draft \in Drafts : run' = [run EXCEPT ![s] = Pass(r, "VERIFIED", draft)]
  /\ UNCHANGED <<authority, bound, held, sent>>

InternalFails(s) ==
  LET r == run[s] IN
  /\ r.pc = "step" /\ Step(r).kind = "internal"
  /\ run' = [run EXCEPT ![s] =
       IF Step(r).required \/ ~HasEvidence(r) THEN Stop(r, "BLOCKED")
                                              ELSE Pass(r, "SKIPPED", r.output)]
  /\ UNCHANGED <<authority, bound, held, sent>>

(* An external step that cannot be frozen: no text to send, or, for a      *)
(* message not frozen before, no single destination or no staged artifact. *)
PreparationFails(s) ==
  LET r == run[s] IN
  /\ AtBoundary(r)
  /\ \/ ~Freezable(r)
     \/ Step(r).kind = "message" /\ r.plan.content[r.plan.at] = Nothing
  /\ run' = [run EXCEPT ![s] = Stop(r, "BLOCKED")]
  /\ UNCHANGED <<authority, bound, held, sent>>

(* An external step without authority: ask for it ...                      *)
Request(s, a) ==
  LET r == run[s] IN
  /\ AtBoundary(r) /\ Freezable(r) /\ Token(r) = Nothing
  /\ Ledger!Ask(a, Frozen(r))
  /\ run' = [run EXCEPT ![s].pc = "requested", ![s].asked = a]
  /\ UNCHANGED <<held, sent>>

(* Mutant: the plan as it was before freezing.                             *)
HeldUnfrozen(r) == r.plan

(* ... and persist the plan it is for, with the frozen content.            *)
HeldBy(r) == [r.plan EXCEPT !.content[r.plan.at] = FrozenContent(r)]

Hold(s) ==
  LET r == run[s] IN
  /\ r.pc = "requested"
  /\ held' = [held EXCEPT ![r.asked] = HeldBy(r)]
  /\ run' = [run EXCEPT ![s] = Stop(r, "HELD")]
  /\ UNCHANGED <<authority, bound, sent>>

(* request() or _persist_held_plan() raises, before or after its file is   *)
(* in place: the record or the plan may be there all the same.             *)
HoldFails(s) ==
  LET r == run[s] IN
  /\ \/ /\ AtBoundary(r) /\ Freezable(r) /\ Token(r) = Nothing
        /\ \/ \E a \in Approvals : Ledger!Ask(a, Frozen(r))
           \/ UNCHANGED <<authority, bound>>
        /\ UNCHANGED held
     \/ /\ r.pc = "requested"
        /\ held' \in {held, [held EXCEPT ![r.asked] = HeldBy(r)]}
        /\ UNCHANGED <<authority, bound>>
  /\ run' = [run EXCEPT ![s] = Stop(r, "BLOCKED")]
  /\ UNCHANGED sent
-----------------------------------------------------------------------------
(* Mutant: redemption verifies and does not consume.                       *)
RedeemWithoutConsuming(s) ==
  LET r == run[s] IN
  /\ AtBoundary(r) /\ Freezable(r) /\ Token(r) # Nothing
  /\ authority[Token(r)] = "live" /\ bound[Token(r)] = Frozen(r)
  /\ run' = [run EXCEPT ![s].pc = "redeemed"]
  /\ UNCHANGED <<authority, bound, held, sent>>

(* An external step with a token: redeem it for exactly this payload.      *)
Redeem(s) ==
  LET r == run[s] IN
  /\ AtBoundary(r) /\ Freezable(r) /\ Token(r) # Nothing
  /\ Ledger!Spend(Token(r), Frozen(r))
  /\ run' = [run EXCEPT ![s].pc = "redeemed"]
  /\ UNCHANGED <<held, sent>>

(* The ledger refuses it.                                                  *)
Reject(s) ==
  LET r == run[s] IN
  /\ AtBoundary(r) /\ Freezable(r) /\ Token(r) # Nothing
  /\ authority[Token(r)] # "live" \/ bound[Token(r)] # Frozen(r)
  /\ run' = [run EXCEPT ![s] = [Stop(r, "BLOCKED") EXCEPT !.refused = Token(r)]]
  /\ UNCHANGED <<authority, bound, held, sent>>

(* The ledger's storage fails: the redemption may be on disk or not.       *)
RedeemFails(s) ==
  LET r == run[s] IN
  /\ AtBoundary(r) /\ Freezable(r) /\ Token(r) # Nothing
  /\ Ledger!Spend(Token(r), Frozen(r)) \/ UNCHANGED <<authority, bound>>
  /\ run' = [run EXCEPT ![s] = Stop(r, "BLOCKED")]
  /\ UNCHANGED <<held, sent>>

(* Mutant: the executor takes the ambient context instead of the payload.  *)
TransmitLatestOutput(s) ==
  LET r == run[s] IN
  /\ r.pc = "redeemed" /\ Step(r).kind = "message"
  /\ sent' = [sent EXCEPT ![Token(r)] =
       Append(@, [instruction |-> Step(r).instruction, content |-> r.output])]
  /\ run' = [run EXCEPT ![s].pc = "sent"]
  /\ UNCHANGED <<authority, bound, held>>

(* deliver_authorized_email: SMTP takes the message ...                    *)
Transmit(s) ==
  LET r == run[s] IN
  /\ r.pc = "redeemed" /\ Step(r).kind = "message"
  /\ sent' = [sent EXCEPT ![Token(r)] = Append(@, Frozen(r))]
  /\ run' = [run EXCEPT ![s].pc = "sent"]
  /\ UNCHANGED <<authority, bound, held>>

(* ... or it is never handed over: mode "hold", no configuration, refused  *)
(* before DATA, or a capability with no delivery backend.                  *)
NotDelivered(s) ==
  /\ run[s].pc = "redeemed"
  /\ run' = [run EXCEPT ![s] = Stop(@, "BLOCKED")]
  /\ UNCHANGED <<authority, bound, held, sent>>

DeliveryVerified(s) ==
  /\ run[s].pc = "sent"
  /\ run' = [run EXCEPT ![s] = Pass(@, "VERIFIED", Receipt)]
  /\ UNCHANGED <<authority, bound, held, sent>>

(* The connection broke after DATA began, before the server took anything:  *)
(* the code cannot tell, and says that it may have been delivered.         *)
DeliveryAmbiguous(s) ==
  /\ run[s].pc = "redeemed" /\ Step(run[s]).kind = "message"
  /\ run' = [run EXCEPT ![s] = Stop(@, "DELIVERED_UNVERIFIED")]
  /\ UNCHANGED <<authority, bound, held, sent>>

(* No receipt came back after DATA began, or the governed audit log failed. *)
DeliveryUnconfirmed(s) ==
  /\ run[s].pc = "sent"
  /\ \E mark \in {"DELIVERED_UNVERIFIED", "DELIVERED_AUDIT_UNAVAILABLE"} :
       run' = [run EXCEPT ![s] = Stop(@, mark)]
  /\ UNCHANGED <<authority, bound, held, sent>>
-----------------------------------------------------------------------------
(* The mission's status, from its receipts.                                *)
MarksOf(r) == {r.marks[i] : i \in DOMAIN r.marks} \ {"none"}

(* Mutant: complete as soon as the last receipt is not a failure.          *)
StatusOfAnySuccess(r) ==
  IF "HELD" \in MarksOf(r) THEN "HELD"
  ELSE IF "VERIFIED" \in MarksOf(r) THEN "COMPLETE" ELSE "BLOCKED"

StatusOf(r) ==
  IF "HELD" \in MarksOf(r) THEN "HELD"
  ELSE IF MarksOf(r) \subseteq {"VERIFIED", "SKIPPED"} THEN "COMPLETE" ELSE "BLOCKED"

(* An external receipt of a delivery: an internal one has no authority_ref. *)
HasDelivery(r) ==
  \E i \in DOMAIN r.marks : r.plan.steps[i].kind # "internal" /\ r.marks[i] \in Delivered

Finish(s) ==
  /\ run[s].pc = "finish"
  /\ run' = [run EXCEPT ![s].pc = "done", ![s].status = StatusOf(run[s])]
  /\ UNCHANGED <<authority, bound, held, sent>>

(* missions.jsonl cannot be written: the status says what is still true.   *)
FinishUnrecorded(s) ==
  /\ run[s].pc = "finish"
  /\ run' = [run EXCEPT ![s].pc = "done",
       ![s].status = IF HasDelivery(run[s]) THEN "DELIVERED_AUDIT_UNAVAILABLE" ELSE "BLOCKED"]
  /\ UNCHANGED <<authority, bound, held, sent>>

(* The surface answers its caller.                                         *)
Answer(s) ==
  /\ run[s].pc = "done"
  /\ run' = [run EXCEPT ![s] = Idle]
  /\ UNCHANGED <<authority, bound, held, sent>>

(* The process dies, or an exception leaves grant_and_resume.              *)
Crash(s) ==
  /\ run[s] # Idle
  /\ run' = [run EXCEPT ![s] = Idle]
  /\ UNCHANGED <<authority, bound, held, sent>>

(* The Founder denies an approval, or it expires.                          *)
Withdraw(a) ==
  /\ Ledger!Withdraw(a)
  /\ UNCHANGED <<held, run, sent>>

Resuming(s) ==
  \/ \E a \in Approvals : Resume(s, a)
  \/ Grant(s) \/ AlreadyGranted(s) \/ Recheck(s) \/ GrantRefused(s)

Executing(s) ==
  \/ \E plan \in Plans : Start(s, plan)
  \/ InternalDone(s) \/ InternalFails(s) \/ PreparationFails(s)
  \/ \E a \in Approvals : Request(s, a)
  \/ Hold(s) \/ HoldFails(s)
  \/ Redeem(s) \/ Reject(s) \/ RedeemFails(s)
  \/ Transmit(s) \/ NotDelivered(s) \/ DeliveryAmbiguous(s)
  \/ DeliveryVerified(s) \/ DeliveryUnconfirmed(s)
  \/ Finish(s) \/ FinishUnrecorded(s) \/ Answer(s) \/ Crash(s)

Next ==
  \/ \E s \in Surfaces : Resuming(s) \/ Executing(s)
  \/ \E a \in Approvals : Withdraw(a)

Spec == Init /\ [][Next]_vars
-----------------------------------------------------------------------------
(* However many surfaces resume an approval, however often, and wherever   *)
(* they die, at most one message leaves under it (message_delivery.py:193, *)
(* "instead of blindly sending a duplicate").                              *)
AtMostOnceUnderAnApproval == \A a \in Approvals : Len(sent[a]) <= 1

(* What left is what the Founder was shown, although every internal step   *)
(* ran again and wrote something else, and the approval is used up.        *)
SentAsApproved ==
  \A a \in Approvals : \A i \in DOMAIN sent[a] :
    sent[a][i] = bound[a] /\ authority[a] = "spent"

(* No approval can be granted that was asked for but whose plan was lost   *)
(* between the ledger's file and the held plan's: authority always has the *)
(* plan it belongs to, frozen to the very payload it is bound to.          *)
AuthorityHasItsPlan ==
  \A a \in Approvals :
    authority[a] \in {"live", "spent"} =>
      /\ held[a] # Nothing
      /\ bound[a] = [instruction |-> held[a].steps[held[a].at].instruction,
                     content |-> held[a].content[held[a].at]]

(* The answer to the caller is true: COMPLETE means that every message of  *)
(* the plan went out under its own approval and that no step failed; HELD  *)
(* that the plan can be resumed; a receipt that says delivered, and        *)
(* DELIVERED_AUDIT_UNAVAILABLE, that a message is out, unless the receipt  *)
(* says that delivery is unverified.                                       *)
AnswersAreTrue ==
  \A s \in Surfaces : run[s].pc = "done" =>
    LET r == run[s]
        Out(i) == r.plan.token[i] # Nothing /\ sent[r.plan.token[i]] # <<>> IN
    /\ r.status = "COMPLETE" => \A i \in DOMAIN r.marks :
         r.plan.steps[i].kind # "internal" => Out(i)
    /\ r.status = "HELD" => held[r.asked] # Nothing
    /\ r.status = "DELIVERED_AUDIT_UNAVAILABLE" =>
         \E i \in DOMAIN r.marks :
           r.plan.steps[i].kind # "internal" /\ (Out(i) \/ r.marks[i] = "DELIVERED_UNVERIFIED")
    /\ \A i \in DOMAIN r.marks :
         r.plan.steps[i].kind # "internal" /\ r.marks[i] \in Delivered \ {"DELIVERED_UNVERIFIED"}
           => Out(i)

(* Nothing is asked of the Founder, redeemed or sent by an execution whose *)
(* required work failed or whose evidence gate was met by skipped steps.   *)
EvidenceBeforeBoundary ==
  \A s \in Surfaces :
    run[s] # Idle /\ (AtBoundary(run[s]) \/ run[s].pc \in {"requested", "redeemed", "sent"}) =>
      LET r == run[s] IN
      \A i \in 1..(r.plan.at - 1) :
        /\ r.marks[i] \in {"VERIFIED"} \cup IF r.plan.steps[i].required THEN {} ELSE {"SKIPPED"}
        /\ r.plan.steps[i].anyOf # {} =>
             \E j \in r.plan.steps[i].anyOf : r.marks[j] = "VERIFIED"

(* grant_and_resume resumes the hold it was called for (operator.py:598,   *)
(* "grant and resume one stored hold"): it is never stopped by the         *)
(* authorization of another step.                                          *)
ResumeReachesItsHold ==
  \A s \in Surfaces :
    run[s] # Idle /\ run[s].resuming # Nothing => run[s].refused \in {Nothing, run[s].resuming}
=============================================================================
