------------------------ MODULE MissionOperatorProofs ------------------------
(***************************************************************************)
(* What leaves under an approval, proved for any plans, any number of      *)
(* surfaces and approvals: at most one message, and the approved one;      *)
(* whatever can be granted has its plan, the final answer is true, and no  *)
(* boundary comes before its evidence.                                     *)
(*                                                                         *)
(* The first two are not inductive.  What protects an approval that is      *)
(* spent is that the one surface that spent it has not sent yet, and has   *)
(* in hand the very payload it was spent for (Redeemed).                   *)
(***************************************************************************)
EXTENDS MissionOperator, SequenceTheorems, TLAPS

RunTyped(r) == \E plan \in Plans : r \in Runs(plan)

(* An approval whose message is not out, and the surface that will send it. *)
Redeemed ==
  /\ \A s \in Surfaces : run[s].pc = "redeemed" =>
       LET a == Token(run[s]) IN
       authority[a] = "spent" /\ bound[a] = Frozen(run[s]) /\ sent[a] = <<>>
  /\ \A s, t \in Surfaces :
       run[s].pc = "redeemed" /\ run[t].pc = "redeemed" /\ Token(run[s]) = Token(run[t]) => s = t
  /\ \A s \in Surfaces : run[s].pc = "redeemed" => Token(run[s]) \in Approvals

Unspent == \A a \in Approvals : authority[a] # "spent" => sent[a] = <<>>

IInv ==
  /\ TypeOK
  /\ Redeemed
  /\ Unspent
  /\ AtMostOnceUnderAnApproval
  /\ SentAsApproved
-----------------------------------------------------------------------------
(* The records an execution is made of keep their types.                   *)
LEMMA StopTyped ==
  ASSUME NEW plan \in Plans, NEW r \in Runs(plan), NEW mark \in Marks
  PROVE  Stop(r, mark) \in Runs(plan)
  BY DEF Stop, Runs, HeldPlans, Places

LEMMA PassTyped ==
  ASSUME NEW plan \in Plans, NEW r \in Runs(plan), NEW mark \in Marks,
         NEW output \in Contents \cup {Nothing}
  PROVE  Pass(r, mark, output) \in Runs(plan)
<1>1. Len(plan) \in Nat \ {0} /\ DOMAIN plan = 1..Len(plan)
  BY PlansAssumption
<1>2. r.plan.steps = plan /\ r.plan.at \in 1..Len(plan)
  BY <1>1 DEF Runs, HeldPlans
<1>3. CASE r.plan.at = Len(plan)
  BY <1>1, <1>2, <1>3 DEF Pass, Runs, HeldPlans, Places
<1>4. CASE r.plan.at # Len(plan)
  <2>1. r.plan.at + 1 \in 1..Len(plan)
    BY <1>1, <1>2, <1>4
  <2>2. [r.plan EXCEPT !.at = r.plan.at + 1] \in HeldPlans(plan)
    BY <1>1, <2>1 DEF Runs, HeldPlans
  <2>3. [r.marks EXCEPT ![r.plan.at] = mark] \in [DOMAIN plan -> Marks]
    BY DEF Runs
  <2> QED BY <1>2, <1>4, <2>2, <2>3 DEF Pass, Runs, Places
<1> QED BY <1>3, <1>4

LEMMA ExecutionTyped ==
  ASSUME NEW plan \in Plans, NEW h \in HeldPlans(plan), NEW pc \in Places,
         NEW a \in Approvals \cup {Nothing}
  PROVE  Execution(h, pc, a) \in Runs(plan)
  BY DEF Execution, Runs, HeldPlans, Marks, Statuses

LEMMA FreshTyped ==
  ASSUME NEW plan \in Plans
  PROVE  Fresh(plan) \in HeldPlans(plan)
  BY PlansAssumption DEF Fresh, HeldPlans

LEMMA AuthorizedTyped ==
  ASSUME NEW plan \in Plans, NEW r \in Runs(plan)
  PROVE  Authorized(r) \in Runs(plan)
<1>1. 1 \in DOMAIN plan
  BY PlansAssumption
<1> QED BY <1>1 DEF Authorized, Runs, HeldPlans, Places

LEMMA FrozenContentTyped ==
  ASSUME NEW plan \in Plans, NEW r \in Runs(plan)
  PROVE  FrozenContent(r) \in Contents \cup {Nothing}
  BY DEF FrozenContent, Runs, HeldPlans

LEMMA HeldByTyped ==
  ASSUME NEW plan \in Plans, NEW r \in Runs(plan)
  PROVE  HeldBy(r) \in HeldPlans(plan)
  BY FrozenContentTyped DEF HeldBy, Runs, HeldPlans

LEMMA FrozenTyped ==
  ASSUME NEW plan \in Plans, NEW r \in Runs(plan)
  PROVE  Frozen(r) \in Payloads
<1>1. Len(plan) \in Nat \ {0} /\ DOMAIN plan = 1..Len(plan)
  BY PlansAssumption
<1>2. r.plan.steps = plan /\ r.plan.at \in 1..Len(plan)
  BY <1>1 DEF Runs, HeldPlans
<1>3. Step(r).instruction \in Instructions
  BY <1>2 DEF Step, Instructions
<1> QED BY <1>3, FrozenContentTyped DEF Frozen, Payloads
-----------------------------------------------------------------------------
(* An execution that is somewhere is an execution of some plan.            *)
LEMMA RunIsTyped ==
  ASSUME TypeOK, NEW s \in Surfaces, run[s].pc # "idle" \/ run[s] # Idle
  PROVE  RunTyped(run[s]) /\ run[s] # Idle
  BY DEF TypeOK, RunTyped, Idle

RunsTyped ==
  /\ DOMAIN run = Surfaces
  /\ \A s \in Surfaces : run[s] = Idle \/ \E plan \in Plans : run[s] \in Runs(plan)

(* One surface steps: the executions keep their types if its own does.     *)
LEMMA RunsStep ==
  ASSUME TypeOK, NEW s \in Surfaces, NEW new, run' = [run EXCEPT ![s] = new],
         new = Idle \/ RunTyped(new)
  PROVE  RunsTyped'
  BY DEF TypeOK, RunTyped, RunsTyped

LEMMA PlaceTyped ==
  ASSUME NEW plan \in Plans, NEW r \in Runs(plan), NEW pc \in Places
  PROVE  [r EXCEPT !.pc = pc] \in Runs(plan)
  BY DEF Runs

LEMMA AskTyped ==
  ASSUME NEW plan \in Plans, NEW r \in Runs(plan), NEW a \in Approvals
  PROVE  [r EXCEPT !.pc = "requested", !.asked = a] \in Runs(plan)
  BY DEF Runs, Places

LEMMA RejectTyped ==
  ASSUME NEW plan \in Plans, NEW r \in Runs(plan), NEW mark \in Marks
  PROVE  [Stop(r, mark) EXCEPT !.refused = Token(r)] \in Runs(plan)
<1>1. Token(r) \in Approvals \cup {Nothing}
  BY DEF Token, Runs, HeldPlans
<1>2. Stop(r, mark) \in Runs(plan)
  BY StopTyped
<1> QED BY <1>1, <1>2 DEF Runs

LEMMA StatusTyped ==
  ASSUME NEW plan \in Plans, NEW r \in Runs(plan), NEW status \in Statuses
  PROVE  [r EXCEPT !.pc = "done", !.status = status] \in Runs(plan)
  BY DEF Runs, Places

(* The steps of a surface, by what becomes of its execution.               *)
LEMMA ExecutionStep ==
  ASSUME TypeOK, NEW s \in Surfaces, Resuming(s) \/ Executing(s)
  PROVE  RunsTyped'
<1>1. ASSUME NEW plan \in Plans, Start(s, plan)
      PROVE  RunsTyped'
  BY <1>1, FreshTyped, ExecutionTyped, RunsStep DEF Start, RunTyped, Places
<1>2. ASSUME NEW a \in Approvals, Resume(s, a)
      PROVE  RunsTyped'
  <2>1. PICK plan \in Plans : held[a] \in HeldPlans(plan)
    BY <1>2 DEF Resume, TypeOK
  <2> QED BY <1>2, <2>1, ExecutionTyped, RunsStep DEF Resume, RunTyped, Places
<1>3. CASE Grant(s) \/ Recheck(s)
  BY <1>3, RunIsTyped, AuthorizedTyped, RunsStep DEF Grant, Recheck, RunTyped
<1>4. CASE AlreadyGranted(s)
  BY <1>4, RunIsTyped, PlaceTyped, RunsStep DEF AlreadyGranted, RunTyped, Places
<1>5. CASE GrantRefused(s) \/ Answer(s) \/ Crash(s)
  BY <1>5, RunsStep DEF GrantRefused, Answer, Crash
<1>6. CASE InternalDone(s)
  <2>1. PICK draft \in Drafts : run' = [run EXCEPT ![s] = Pass(run[s], "VERIFIED", draft)]
    BY <1>6 DEF InternalDone
  <2>2. PICK plan \in Plans : run[s] \in Runs(plan)
    BY <1>6, RunIsTyped DEF InternalDone, RunTyped
  <2> QED BY <2>1, <2>2, PassTyped, RunsStep DEF RunTyped, Contents, Marks
<1>7. CASE InternalFails(s)
  <2>1. PICK plan \in Plans : run[s] \in Runs(plan)
    BY <1>7, RunIsTyped DEF InternalFails, RunTyped
  <2>2. Stop(run[s], "BLOCKED") \in Runs(plan)
    BY <2>1, StopTyped DEF Marks
  <2>3. Pass(run[s], "SKIPPED", run[s].output) \in Runs(plan)
    <3>1. run[s].output \in Contents \cup {Nothing}
      BY <2>1 DEF Runs
    <3> QED BY <2>1, <3>1, PassTyped DEF Marks
  <2> QED BY <1>7, <2>2, <2>3, RunsStep DEF InternalFails, RunTyped
<1>8. CASE PreparationFails(s) \/ HoldFails(s) \/ RedeemFails(s) \/ NotDelivered(s)
  BY <1>8, RunIsTyped, StopTyped, RunsStep
     DEF PreparationFails, HoldFails, RedeemFails, NotDelivered, AtBoundary, RunTyped, Marks
<1>9. ASSUME NEW a \in Approvals, Request(s, a)
      PROVE  RunsTyped'
  <2>1. PICK plan \in Plans : run[s] \in Runs(plan)
    BY <1>9, RunIsTyped DEF Request, AtBoundary, RunTyped
  <2>2. run' = [run EXCEPT ![s] = [run[s] EXCEPT !.pc = "requested", !.asked = a]]
    BY <1>9, <2>1 DEF Request, TypeOK, Runs
  <2> QED BY <2>1, <2>2, AskTyped, RunsStep DEF RunTyped
<1>10. CASE Hold(s)
  BY <1>10, RunIsTyped, StopTyped, RunsStep DEF Hold, RunTyped, Marks
<1>11. CASE Redeem(s) \/ Transmit(s)
  BY <1>11, RunIsTyped, PlaceTyped, RunsStep DEF Redeem, Transmit, AtBoundary, RunTyped, Places
<1>12. CASE Reject(s)
  BY <1>12, RunIsTyped, RejectTyped, RunsStep DEF Reject, AtBoundary, RunTyped, Marks
<1>13. CASE DeliveryAmbiguous(s) \/ DeliveryUnconfirmed(s)
  BY <1>13, RunIsTyped, StopTyped, RunsStep DEF DeliveryAmbiguous, DeliveryUnconfirmed, RunTyped, Marks
<1>14. CASE DeliveryVerified(s)
  BY <1>14, RunIsTyped, PassTyped, RunsStep DEF DeliveryVerified, RunTyped, Marks, Contents
<1>15. CASE Finish(s) \/ FinishUnrecorded(s)
  <2>1. PICK plan \in Plans : run[s] \in Runs(plan)
    BY <1>15, RunIsTyped DEF Finish, FinishUnrecorded, RunTyped
  <2>2. PICK status \in Statuses : run' = [run EXCEPT ![s] = [run[s] EXCEPT !.pc = "done", !.status = status]]
    BY <1>15, <2>1 DEF Finish, FinishUnrecorded, StatusOf, Statuses, TypeOK, Runs
  <2> QED BY <2>1, <2>2, StatusTyped, RunsStep DEF RunTyped
<1> QED BY <1>1, <1>2, <1>3, <1>4, <1>5, <1>6, <1>7, <1>8, <1>9, <1>10, <1>11, <1>12, <1>13, <1>14, <1>15
       DEF Resuming, Executing
-----------------------------------------------------------------------------
(* What the ledger does to an approval that is spent: nothing.             *)
SpentStaysSpent ==
  \A a \in Approvals : authority[a] = "spent" => authority'[a] = "spent" /\ bound'[a] = bound[a]

LEMMA LedgerStep ==
  ASSUME Ledger!TypeOK, NEW a,
         \/ \E p \in Payloads : Ledger!Ask(a, p)
         \/ \E p : Ledger!Spend(a, p)
         \/ Ledger!Allow(a) \/ Ledger!Withdraw(a)
         \/ UNCHANGED <<authority, bound>>
  PROVE  SpentStaysSpent /\ Ledger!TypeOK'
  BY DEF Ledger!TypeOK, Ledger!Ask, Ledger!Spend, Ledger!Allow, Ledger!Withdraw, Ledger!Move,
         Ledger!Phases, SpentStaysSpent

(* Every step of a surface is one of the ledger's for one approval.        *)
LEMMA SurfaceLedgerStep ==
  ASSUME TypeOK, NEW s \in Surfaces, Resuming(s) \/ Executing(s)
  PROVE  SpentStaysSpent /\ Ledger!TypeOK'
<1>1. Ledger!TypeOK
  BY DEF TypeOK
<1>2. CASE UNCHANGED <<authority, bound>>
  BY <1>1, <1>2, LedgerStep
<1>3. CASE Grant(s)
  BY <1>1, <1>3, LedgerStep DEF Grant
<1>4. ASSUME NEW a \in Approvals, Request(s, a)
      PROVE  SpentStaysSpent /\ Ledger!TypeOK'
  <2>1. Frozen(run[s]) \in Payloads
    BY <1>4, RunIsTyped, FrozenTyped DEF Request, AtBoundary, RunTyped
  <2> QED BY <1>1, <1>4, <2>1, LedgerStep DEF Request
<1>5. CASE HoldFails(s)
  <2>1. \A a : Ledger!Ask(a, Frozen(run[s])) /\ AtBoundary(run[s]) => SpentStaysSpent /\ Ledger!TypeOK'
    <3>1. AtBoundary(run[s]) => Frozen(run[s]) \in Payloads
      BY RunIsTyped, FrozenTyped DEF AtBoundary, RunTyped
    <3> QED BY <1>1, <3>1, LedgerStep
  <2> QED BY <1>2, <1>5, <2>1 DEF HoldFails
<1>6. CASE Redeem(s) \/ RedeemFails(s)
  <2>1. Ledger!Spend(Token(run[s]), Frozen(run[s])) \/ UNCHANGED <<authority, bound>>
    BY <1>6 DEF Redeem, RedeemFails
  <2>2. CASE Ledger!Spend(Token(run[s]), Frozen(run[s]))
    <3> DEFINE b == Token(run[s])
    <3>1. authority' = [authority EXCEPT ![b] = "spent"] /\ bound' = bound /\ authority[b] = "live"
      BY <2>2 DEF Ledger!Spend, Ledger!Move
    <3> HIDE DEF b
    <3> QED BY <1>1, <3>1 DEF Ledger!TypeOK, Ledger!Phases, SpentStaysSpent
  <2> QED BY <1>2, <2>1, <2>2
<1>7. (\A a \in Approvals : ~Request(s, a)) /\ ~Grant(s) /\ ~HoldFails(s) /\ ~Redeem(s) /\ ~RedeemFails(s)
      => UNCHANGED <<authority, bound>>
  BY DEF Resuming, Executing, Start, Resume, AlreadyGranted, Recheck, GrantRefused, InternalDone,
         InternalFails, PreparationFails, Hold, Reject, Transmit, NotDelivered, DeliveryAmbiguous,
         DeliveryVerified, DeliveryUnconfirmed, Finish, FinishUnrecorded, Answer, Crash
<1> QED BY <1>2, <1>3, <1>4, <1>5, <1>6, <1>7

(* The plans on disk and what was sent keep their types.                   *)
LEMMA HeldStep ==
  ASSUME TypeOK, NEW s \in Surfaces, Resuming(s) \/ Executing(s)
  PROVE  /\ DOMAIN held' = Approvals
         /\ \A a \in Approvals : held'[a] = Nothing \/ \E plan \in Plans : held'[a] \in HeldPlans(plan)
<1>1. CASE Hold(s) \/ (HoldFails(s) /\ run[s].pc = "requested")
  <2>1. PICK plan \in Plans : HeldBy(run[s]) \in HeldPlans(plan)
    BY <1>1, RunIsTyped, HeldByTyped DEF Hold, RunTyped
  <2> QED BY <1>1, <2>1 DEF TypeOK, Hold, HoldFails, AtBoundary
<1>2. CASE ~Hold(s) /\ ~(HoldFails(s) /\ run[s].pc = "requested")
  <2>1. held' = held
    BY <1>2 DEF Resuming, Executing, Start, Resume, Grant, AlreadyGranted, Recheck, GrantRefused, InternalDone,
         InternalFails, PreparationFails, Request, HoldFails, Redeem, RedeemFails, Reject, Transmit, NotDelivered,
         DeliveryAmbiguous, DeliveryVerified, DeliveryUnconfirmed, Finish, FinishUnrecorded, Answer, Crash
  <2> QED BY <2>1 DEF TypeOK
<1> QED BY <1>1, <1>2

LEMMA SentStep ==
  ASSUME TypeOK, NEW s \in Surfaces, Resuming(s) \/ Executing(s)
  PROVE  sent' \in [Approvals -> Seq(Payloads)] /\ (~Transmit(s) => sent' = sent)
<1>1. CASE Transmit(s)
  <2>1. Frozen(run[s]) \in Payloads
    BY <1>1, RunIsTyped, FrozenTyped DEF Transmit, RunTyped
  <2> DEFINE b == Token(run[s])
             f == Frozen(run[s])
  <2>2. sent' = [sent EXCEPT ![b] = Append(@, f)]
    BY <1>1 DEF Transmit
  <2> HIDE DEF b, f
  <2>3. \A a \in Approvals : Append(sent[a], f) \in Seq(Payloads)
    BY <2>1, AppendProperties DEF TypeOK, f
  <2> QED BY <1>1, <2>2, <2>3 DEF TypeOK
<1>2. ~Transmit(s) => sent' = sent
  BY DEF Resuming, Executing, Start, Resume, Grant, AlreadyGranted, Recheck, GrantRefused, InternalDone,
         InternalFails, PreparationFails, Request, Hold, HoldFails, Redeem, RedeemFails, Reject, NotDelivered,
         DeliveryAmbiguous, DeliveryVerified, DeliveryUnconfirmed, Finish, FinishUnrecorded, Answer, Crash
<1> QED BY <1>1, <1>2 DEF TypeOK

LEMMA TypeStep ==
  ASSUME TypeOK, [Next]_vars
  PROVE  TypeOK'
<1>1. ASSUME NEW s \in Surfaces, Resuming(s) \/ Executing(s)
      PROVE  TypeOK'
  BY <1>1, ExecutionStep, SurfaceLedgerStep, HeldStep, SentStep DEF TypeOK, RunsTyped
<1>2. ASSUME NEW a \in Approvals, Withdraw(a)
      PROVE  TypeOK'
  <2>1. Ledger!TypeOK'
    BY <1>2, LedgerStep DEF Withdraw, TypeOK
  <2> QED BY <1>2, <2>1 DEF Withdraw, TypeOK
<1>3. CASE UNCHANGED vars
  BY <1>3 DEF vars, TypeOK, Ledger!TypeOK
<1> QED BY <1>1, <1>2, <1>3 DEF Next
-----------------------------------------------------------------------------
(* A step that sends nothing and leaves its surface with nothing redeemed. *)
LEMMA NothingSent ==
  ASSUME IInv, NEW s \in Surfaces, \A t \in Surfaces \ {s} : run'[t] = run[t],
         run'[s].pc # "redeemed", sent' = sent, SpentStaysSpent
  PROVE  Redeemed' /\ Unspent' /\ AtMostOnceUnderAnApproval' /\ SentAsApproved'
<1> USE DEF IInv
<1>1. Redeemed'
  <2>1. ASSUME NEW t \in Surfaces, run'[t].pc = "redeemed"
        PROVE  /\ t # s /\ run'[t] = run[t] /\ run[t].pc = "redeemed" /\ Token(run[t]) \in Approvals
               /\ authority[Token(run[t])] = "spent"
    BY <2>1 DEF Redeemed
  <2>2. ASSUME NEW t \in Surfaces, run'[t].pc = "redeemed"
        PROVE  /\ authority'[Token(run[t])] = "spent" /\ bound'[Token(run[t])] = bound[Token(run[t])]
    BY <2>1, <2>2 DEF SpentStaysSpent
  <2>3. ASSUME NEW t \in Surfaces, run'[t].pc = "redeemed"
        PROVE  LET a == Token(run'[t]) IN
               a \in Approvals /\ authority'[a] = "spent" /\ bound'[a] = Frozen(run'[t]) /\ sent'[a] = <<>>
    <3>1. bound[Token(run[t])] = Frozen(run[t]) /\ sent[Token(run[t])] = <<>>
      BY <2>1, <2>3 DEF Redeemed
    <3> QED BY <2>1, <2>2, <2>3, <3>1
  <2>4. ASSUME NEW t \in Surfaces, NEW u \in Surfaces, run'[t].pc = "redeemed", run'[u].pc = "redeemed",
               Token(run'[t]) = Token(run'[u])
        PROVE  t = u
    BY <2>1, <2>4 DEF Redeemed
  <2> QED BY <2>3, <2>4 DEF Redeemed, Token, Frozen, FrozenContent, Step
<1>2. Unspent'
  BY DEF Unspent, SpentStaysSpent
<1>3. AtMostOnceUnderAnApproval'
  BY DEF AtMostOnceUnderAnApproval
<1>4. SentAsApproved'
  BY DEF SentAsApproved, SpentStaysSpent
<1> QED BY <1>1, <1>2, <1>3, <1>4

(* A redemption takes an approval nothing was sent under.                  *)
LEMMA RedeemStep ==
  ASSUME IInv, NEW s \in Surfaces, Redeem(s)
  PROVE  Redeemed' /\ Unspent' /\ AtMostOnceUnderAnApproval' /\ SentAsApproved'
<1> USE DEF IInv
<1> DEFINE r == run[s]
           b == Token(r)
<1>1. PICK plan \in Plans : r \in Runs(plan)
  BY RunIsTyped DEF Redeem, AtBoundary, RunTyped
<1>2. b \in Approvals
  <2>1. b \in Approvals \cup {Nothing}
    BY <1>1 DEF Token, Runs, HeldPlans
  <2> QED BY <2>1 DEF Redeem
<1>3. /\ authority[b] = "live" /\ bound[b] = Frozen(r) /\ sent[b] = <<>>
      /\ authority' = [authority EXCEPT ![b] = "spent"] /\ bound' = bound /\ sent' = sent
  BY <1>2 DEF Redeem, Ledger!Spend, Ledger!Move, Unspent
<1>4. /\ run'[s] = [r EXCEPT !.pc = "redeemed"]
      /\ \A t \in Surfaces \ {s} : run'[t] = run[t]
  BY DEF Redeem, TypeOK
<1>5. Token(run'[s]) = b /\ Frozen(run'[s]) = Frozen(r)
  BY <1>1, <1>4 DEF Token, Frozen, FrozenContent, Step, Runs
<1>6. \A a \in Approvals : authority'[a] = IF a = b THEN "spent" ELSE authority[a]
  BY <1>3 DEF TypeOK, Ledger!TypeOK
<1>7. \A t \in Surfaces \ {s} : run[t].pc = "redeemed" => Token(run[t]) # b
  BY <1>3 DEF Redeemed
<1>8. Redeemed'
  <2> HIDE DEF r, b
  <2>1. ASSUME NEW t \in Surfaces, run'[t].pc = "redeemed"
        PROVE  LET a == Token(run'[t]) IN
               a \in Approvals /\ authority'[a] = "spent" /\ bound'[a] = Frozen(run'[t]) /\ sent'[a] = <<>>
    <3>1. CASE t = s
      BY <1>2, <1>3, <1>5, <1>6, <3>1
    <3>2. CASE t # s
      BY <1>3, <1>4, <1>6, <2>1, <3>2 DEF Redeemed
    <3> QED BY <3>1, <3>2
  <2>2. ASSUME NEW t \in Surfaces, NEW u \in Surfaces, run'[t].pc = "redeemed", run'[u].pc = "redeemed",
               Token(run'[t]) = Token(run'[u])
        PROVE  t = u
    BY <1>4, <1>5, <1>7, <2>2 DEF Redeemed
  <2> QED BY <2>1, <2>2 DEF Redeemed, Token, Frozen, FrozenContent, Step
<1>9. Unspent' /\ SentAsApproved'
  BY <1>3, <1>6 DEF Unspent, SentAsApproved
<1>10. AtMostOnceUnderAnApproval'
  BY <1>3 DEF AtMostOnceUnderAnApproval
<1> QED BY <1>8, <1>9, <1>10

(* A delivery is the first under its approval, and of its payload.         *)
LEMMA TransmitStep ==
  ASSUME IInv, NEW s \in Surfaces, Transmit(s)
  PROVE  Redeemed' /\ Unspent' /\ AtMostOnceUnderAnApproval' /\ SentAsApproved'
<1> USE DEF IInv
<1> DEFINE r == run[s]
           b == Token(r)
<1>1. b \in Approvals /\ authority[b] = "spent" /\ bound[b] = Frozen(r) /\ sent[b] = <<>>
  BY DEF Transmit, Redeemed
<1>2. /\ run'[s].pc = "sent"
      /\ \A t \in Surfaces \ {s} : run'[t] = run[t]
      /\ UNCHANGED <<authority, bound>>
  <2>1. PICK plan \in Plans : r \in Runs(plan)
    BY RunIsTyped DEF Transmit, RunTyped
  <2> QED BY <2>1 DEF Transmit, TypeOK, Runs
<1>3. sent'[b] = <<Frozen(r)>> /\ \A a \in Approvals \ {b} : sent'[a] = sent[a]
  BY <1>1 DEF Transmit, TypeOK
<1>4. Redeemed'
  <2> HIDE DEF r, b
  <2>1. \A t \in Surfaces : run'[t].pc = "redeemed" => t # s /\ run'[t] = run[t] /\ run[t].pc = "redeemed"
    BY <1>2
  <2>2. \A t \in Surfaces : run'[t].pc = "redeemed" => Token(run[t]) # b
    BY <2>1 DEF Transmit, Redeemed, r, b
  <2>3. ASSUME NEW t \in Surfaces, run'[t].pc = "redeemed"
        PROVE  LET a == Token(run'[t]) IN
               a \in Approvals /\ authority'[a] = "spent" /\ bound'[a] = Frozen(run'[t]) /\ sent'[a] = <<>>
    <3> DEFINE a == Token(run[t])
    <3>1. /\ a \in Approvals \ {b}
          /\ authority[a] = "spent" /\ bound[a] = Frozen(run[t]) /\ sent[a] = <<>>
      BY <2>1, <2>2, <2>3 DEF Redeemed
    <3>2. authority'[a] = "spent" /\ bound'[a] = Frozen(run[t]) /\ sent'[a] = <<>>
      BY <1>2, <1>3, <3>1
    <3>3. run'[t] = run[t]
      BY <2>1, <2>3
    <3> HIDE DEF a
    <3> QED BY <3>1, <3>2, <3>3 DEF a
  <2>4. ASSUME NEW t \in Surfaces, NEW u \in Surfaces, run'[t].pc = "redeemed", run'[u].pc = "redeemed",
               Token(run'[t]) = Token(run'[u])
        PROVE  t = u
    BY <2>1, <2>4 DEF Redeemed
  <2> QED BY <2>3, <2>4 DEF Redeemed, Token, Frozen, FrozenContent, Step
<1>5. Unspent'
  BY <1>1, <1>2, <1>3 DEF Unspent
<1>6. AtMostOnceUnderAnApproval'
  <2> HIDE DEF r, b
  <2>1. Len(<<Frozen(r)>>) = 1
    OBVIOUS
  <2>2. Len(sent'[b]) <= 1
    BY <1>3, <2>1
  <2>3. \A a \in Approvals \ {b} : Len(sent'[a]) <= 1
    BY <1>3 DEF AtMostOnceUnderAnApproval
  <2> QED BY <2>2, <2>3 DEF AtMostOnceUnderAnApproval
<1>7. SentAsApproved'
  BY <1>1, <1>2, <1>3 DEF SentAsApproved
<1> QED BY <1>4, <1>5, <1>6, <1>7

(* Where the steps of a surface lead.                                       *)
Arrives(s) ==
  /\ run'[s].pc = "redeemed" => Redeem(s)
  /\ run'[s].pc = "requested" => \E a \in Approvals : Request(s, a)
  /\ run'[s].pc = "reading" => \E a \in Approvals : Resume(s, a)
  /\ run'[s].pc = "granted" => AlreadyGranted(s)

LEMMA StepsOn ==
  ASSUME TypeOK, NEW s \in Surfaces, Resuming(s) \/ Executing(s)
  PROVE  Arrives(s)
<1> DEFINE Elsewhere == run'[s].pc \in {"idle", "step", "finish", "done", "sent"}
<1>1. ASSUME \E plan \in Plans : Start(s, plan)
      PROVE  Elsewhere
  BY <1>1 DEF TypeOK, Start, Execution
<1>2. ASSUME NEW a \in Approvals, Resume(s, a)
      PROVE  Arrives(s)
  <2>1. run' = [run EXCEPT ![s] = Execution(held[a], "reading", a)]
    BY <1>2 DEF Resume
  <2>2. Execution(held[a], "reading", a).pc = "reading"
    BY DEF Execution
  <2>3. run'[s].pc = "reading"
    BY <2>1, <2>2 DEF TypeOK
  <2> QED BY <1>2, <2>3 DEF Arrives
<1>3. CASE GrantRefused(s) \/ Answer(s) \/ Crash(s)
  <2>1. Elsewhere
    BY <1>3 DEF TypeOK, GrantRefused, Answer, Crash, Idle
  <2> QED BY <2>1 DEF Arrives
<1>4. ASSUME NEW plan \in Plans, run[s] \in Runs(plan)
      PROVE  /\ \A mark : Stop(run[s], mark).pc = "finish"
             /\ \A mark, output : Pass(run[s], mark, output).pc \in {"finish", "step"}
             /\ Authorized(run[s]).pc = "step"
             /\ \A status : [run[s] EXCEPT !.pc = "done", !.status = status].pc = "done"
             /\ \A pc, a : [run[s] EXCEPT !.pc = pc, !.asked = a].pc = pc
             /\ \A pc : [run[s] EXCEPT !.pc = pc].pc = pc
             /\ \A mark, token : [Stop(run[s], mark) EXCEPT !.refused = token].pc = "finish"
  BY <1>4 DEF Stop, Pass, Authorized, Runs
<1>5. CASE Grant(s) \/ Recheck(s)
  <2>1. Authorized(run[s]).pc = "step"
    BY <1>4, <1>5, RunIsTyped DEF Grant, Recheck, RunTyped
  <2>2. run' = [run EXCEPT ![s] = Authorized(run[s])]
    BY <1>5 DEF Grant, Recheck
  <2> HIDE DEF Authorized
  <2>3. Elsewhere
    BY <2>1, <2>2 DEF TypeOK
  <2> QED BY <2>3 DEF Arrives
<1>6. CASE AlreadyGranted(s)
  <2>1. run'[s].pc = "granted"
    BY <1>4, <1>6, RunIsTyped DEF AlreadyGranted, RunTyped, TypeOK
  <2> QED BY <1>6, <2>1 DEF Arrives
<1>7. CASE InternalDone(s) \/ InternalFails(s) \/ DeliveryVerified(s)
  <2>1. PICK plan \in Plans : run[s] \in Runs(plan)
    BY <1>7, RunIsTyped DEF InternalDone, InternalFails, DeliveryVerified, RunTyped
  <2>2. \/ \E mark, output : run' = [run EXCEPT ![s] = Pass(run[s], mark, output)]
        \/ \E mark : run' = [run EXCEPT ![s] = Stop(run[s], mark)]
    BY <1>7 DEF InternalDone, InternalFails, DeliveryVerified
  <2>3. Elsewhere
    BY <1>4, <2>1, <2>2 DEF TypeOK
  <2> QED BY <2>3 DEF Arrives
<1>8. CASE PreparationFails(s) \/ Hold(s) \/ HoldFails(s) \/ RedeemFails(s) \/ NotDelivered(s)
           \/ DeliveryAmbiguous(s) \/ DeliveryUnconfirmed(s)
  <2>1. Elsewhere
    BY <1>4, <1>8, RunIsTyped DEF PreparationFails, Hold, HoldFails, RedeemFails, NotDelivered,
       DeliveryAmbiguous, DeliveryUnconfirmed, AtBoundary, RunTyped, TypeOK
  <2> QED BY <2>1 DEF Arrives
<1>9. ASSUME NEW a \in Approvals, Request(s, a)
      PROVE  Arrives(s)
  <2>1. run'[s].pc = "requested"
    BY <1>9, RunIsTyped DEF Request, AtBoundary, RunTyped, TypeOK, Runs
  <2> QED BY <1>9, <2>1 DEF Arrives
<1>10. CASE Reject(s)
  <2>1. Elsewhere
    BY <1>4, <1>10, RunIsTyped DEF Reject, AtBoundary, RunTyped, TypeOK
  <2> QED BY <2>1 DEF Arrives
<1>11. CASE Transmit(s)
  <2>1. Elsewhere
    BY <1>4, <1>11, RunIsTyped DEF Transmit, RunTyped, TypeOK
  <2> QED BY <2>1 DEF Arrives
<1>12. CASE Finish(s) \/ FinishUnrecorded(s)
  <2>1. Elsewhere
    BY <1>12, RunIsTyped DEF Finish, FinishUnrecorded, RunTyped, TypeOK, Runs
  <2> QED BY <2>1 DEF Arrives
<1>13. CASE Redeem(s)
  <2>1. run'[s].pc = "redeemed"
    BY <1>4, <1>13, RunIsTyped DEF Redeem, AtBoundary, RunTyped, TypeOK
  <2> QED BY <1>13, <2>1 DEF Arrives
<1>14. Elsewhere => Arrives(s)
  BY DEF Arrives
<1> HIDE DEF Elsewhere
<1> QED BY <1>1, <1>2, <1>3, <1>5, <1>6, <1>7, <1>8, <1>9, <1>10, <1>11, <1>12, <1>13, <1>14
       DEF Resuming, Executing

(* The other surfaces stand still meanwhile.                               *)
LEMMA OthersStand ==
  ASSUME TypeOK, NEW s \in Surfaces, Resuming(s) \/ Executing(s), NEW t \in Surfaces \ {s}
  PROVE  run'[t] = run[t]
  BY DEF TypeOK, Resuming, Executing, Start, Resume, Grant, AlreadyGranted, Recheck, GrantRefused,
         InternalDone, InternalFails, PreparationFails, Request, Hold, HoldFails, Redeem, RedeemFails, Reject,
         Transmit, NotDelivered, DeliveryAmbiguous, DeliveryVerified, DeliveryUnconfirmed, Finish,
         FinishUnrecorded, Answer, Crash

LEMMA Invariance == Spec => []IInv
<1>1. Init => IInv
  <2> SUFFICES ASSUME Init PROVE IInv
    OBVIOUS
  <2>1. Ledger!TypeOK
    BY DEF Init, Ledger!Init, Ledger!TypeOK, Ledger!Phases
  <2>2. sent \in [Approvals -> Seq(Payloads)] /\ \A a \in Approvals : sent[a] = <<>>
    BY DEF Init
  <2>3. TypeOK
    BY <2>1, <2>2 DEF Init, TypeOK
  <2>4. Redeemed /\ Unspent
    BY <2>2 DEF Init, Redeemed, Unspent, Idle
  <2>5. AtMostOnceUnderAnApproval /\ SentAsApproved
    BY <2>2 DEF AtMostOnceUnderAnApproval, SentAsApproved
  <2> QED BY <2>3, <2>4, <2>5 DEF IInv
<1>2. IInv /\ [Next]_vars => IInv'
  <2> SUFFICES ASSUME IInv, [Next]_vars PROVE IInv'
    OBVIOUS
  <2> USE DEF IInv
  <2>1. ASSUME NEW s \in Surfaces, Resuming(s) \/ Executing(s), ~Redeem(s), ~Transmit(s)
        PROVE  Redeemed' /\ Unspent' /\ AtMostOnceUnderAnApproval' /\ SentAsApproved'
    <3>1. \A t \in Surfaces \ {s} : run'[t] = run[t]
      BY <2>1, OthersStand
    <3>2. run'[s].pc # "redeemed"
      BY <2>1, StepsOn DEF Arrives
    <3> QED BY <2>1, <3>1, <3>2, SurfaceLedgerStep, SentStep, NothingSent
  <2>2. ASSUME NEW a \in Approvals, Withdraw(a)
        PROVE  Redeemed' /\ Unspent' /\ AtMostOnceUnderAnApproval' /\ SentAsApproved'
    <3>1. SpentStaysSpent
      BY <2>2, LedgerStep DEF Withdraw, TypeOK
    <3>2. UNCHANGED <<run, sent>>
      BY <2>2 DEF Withdraw
    <3>3. Redeemed'
      <4>1. ASSUME NEW t \in Surfaces, run[t].pc = "redeemed"
            PROVE  /\ authority'[Token(run[t])] = "spent"
                   /\ bound'[Token(run[t])] = bound[Token(run[t])]
        BY <3>1, <4>1 DEF SpentStaysSpent, Redeemed
      <4> QED BY <3>2, <4>1 DEF Redeemed, Token, Frozen, FrozenContent, Step
    <3>4. Unspent'
      BY <3>1, <3>2 DEF SpentStaysSpent, Unspent
    <3>5. AtMostOnceUnderAnApproval'
      BY <3>2 DEF AtMostOnceUnderAnApproval
    <3>6. SentAsApproved'
      BY <3>1, <3>2 DEF SpentStaysSpent, SentAsApproved
    <3> QED BY <3>3, <3>4, <3>5, <3>6
  <2>3. ASSUME UNCHANGED vars
        PROVE  Redeemed' /\ Unspent' /\ AtMostOnceUnderAnApproval' /\ SentAsApproved'
    <3>1. UNCHANGED <<authority, bound, run, sent>>
      BY <2>3 DEF vars
    <3>2. Redeemed'
      BY <3>1 DEF Redeemed, Token, Frozen, FrozenContent, Step
    <3>3. Unspent' /\ AtMostOnceUnderAnApproval' /\ SentAsApproved'
      BY <3>1 DEF Unspent, AtMostOnceUnderAnApproval, SentAsApproved
    <3> QED BY <3>2, <3>3
  <2>4. ASSUME NEW s \in Surfaces, Resuming(s) \/ Executing(s)
        PROVE  Redeemed' /\ Unspent' /\ AtMostOnceUnderAnApproval' /\ SentAsApproved'
    BY <2>1, <2>4, RedeemStep, TransmitStep
  <2>5. TypeOK'
    BY TypeStep
  <2>6. Redeemed' /\ Unspent' /\ AtMostOnceUnderAnApproval' /\ SentAsApproved'
    BY <2>2, <2>3, <2>4 DEF Next
  <2> QED BY <2>5, <2>6
<1> QED BY <1>1, <1>2, PTL DEF Spec
-----------------------------------------------------------------------------
(* An approval that can be granted has its plan.  HeldAsBound and           *)
(* AskedAsBound carry the frozen payload from the request in the ledger to  *)
(* the plan on disk, ResumesHeld the plan to the surface that grants.       *)
PayloadOf(h) == [instruction |-> h.steps[h.at].instruction, content |-> h.content[h.at]]

HeldAsBound ==
  \A a \in Approvals : held[a] # Nothing => authority[a] # "absent" /\ bound[a] = PayloadOf(held[a])

AskedAsBound ==
  \A s \in Surfaces : run[s].pc = "requested" =>
    LET a == run[s].asked IN
    a \in Approvals /\ authority[a] # "absent" /\ bound[a] = Frozen(run[s])

ResumesHeld ==
  \A s \in Surfaces : run[s].pc \in {"reading", "granted"} =>
    run[s].resuming \in Approvals /\ held[run[s].resuming] # Nothing

LiveIsHeld == \A a \in Approvals : authority[a] \in {"live", "spent"} => held[a] # Nothing

PlansAreKept == HeldAsBound /\ AskedAsBound /\ ResumesHeld /\ LiveIsHeld

(* What an execution knows.  A step it has passed was done, or was optional; *)
(* it goes on only while all are passed, and stops for a reason.            *)
Running == {"step", "requested", "redeemed", "sent"}
Stopped == {"BLOCKED", "HELD", "DELIVERED_UNVERIFIED", "DELIVERED_AUDIT_UNAVAILABLE"}

Passed(r, i) ==
  /\ r.marks[i] = "VERIFIED" \/ (r.marks[i] = "SKIPPED" /\ ~r.plan.steps[i].required)
  /\ r.plan.steps[i].anyOf # {} => \E j \in r.plan.steps[i].anyOf : r.marks[j] = "VERIFIED"
  /\ r.plan.steps[i].kind # "internal" => r.marks[i] = "VERIFIED"

Progress(r) ==
  /\ r.pc \in {"reading", "granted"} => \A i \in DOMAIN r.marks : r.marks[i] = "none"
  /\ r.pc \in Running => \A i \in DOMAIN r.marks :
       IF i < r.plan.at THEN Passed(r, i) ELSE r.marks[i] = "none"
  /\ r.pc \in Running \ {"step"} => Step(r).kind # "internal"
  /\ r.pc \in {"finish", "done"} =>
       (\A i \in DOMAIN r.marks : Passed(r, i)) \/ \E i \in DOMAIN r.marks : r.marks[i] \in Stopped

(* What it may say, of the approvals something went out under and of those  *)
(* whose plan is on disk.                                                   *)
OutUnder == {a \in Approvals : sent[a] # <<>>}
Kept == {a \in Approvals : held[a] # Nothing}

Truthful(r, out, kept) ==
  /\ \A i \in DOMAIN r.marks :
       r.plan.steps[i].kind # "internal" /\ r.marks[i] \in Delivered \ {"DELIVERED_UNVERIFIED"}
         => r.plan.token[i] \in out
  /\ (\E i \in DOMAIN r.marks : r.marks[i] = "HELD") => r.asked \in kept
  /\ r.pc = "sent" => Token(r) \in out
  /\ r.pc = "done" =>
       /\ r.status \in {"COMPLETE", "HELD"} => r.status = StatusOf(r)
       /\ r.status = "DELIVERED_AUDIT_UNAVAILABLE" => HasDelivery(r)

Sound(r, out, kept) == Progress(r) /\ Truthful(r, out, kept)

RunsAreSound == \A s \in Surfaces : run[s] # Idle => Sound(run[s], OutUnder, Kept)
-----------------------------------------------------------------------------
(* What the parts of a step do to what an execution knows and may say.      *)
LEMMA RunFields ==
  ASSUME NEW plan \in Plans, NEW r \in Runs(plan)
  PROVE  /\ Len(plan) \in Nat \ {0} /\ r.plan.steps = plan /\ r.plan.at \in 1..Len(plan)
         /\ DOMAIN r.marks = 1..Len(plan) /\ r.marks \in [1..Len(plan) -> Marks]
         /\ Len(r.plan.steps) = Len(plan)
  BY PlansAssumption DEF Runs, HeldPlans

LEMMA StopSound ==
  ASSUME NEW plan \in Plans, NEW r \in Runs(plan), NEW out, NEW kept, NEW mark \in Stopped,
         Sound(r, out, kept),
         mark = "HELD" => r.asked \in kept,
         mark = "DELIVERED_AUDIT_UNAVAILABLE" => Token(r) \in out
  PROVE  Sound(Stop(r, mark), out, kept)
<1> DEFINE n == Stop(r, mark)
<1>1. /\ n.pc = "finish" /\ n.plan = r.plan /\ n.asked = r.asked
      /\ n.marks = [r.marks EXCEPT ![r.plan.at] = mark]
  BY DEF Stop, Runs
<1>2. /\ n.marks[r.plan.at] = mark /\ r.plan.at \in DOMAIN n.marks /\ DOMAIN n.marks = DOMAIN r.marks
      /\ \A i \in DOMAIN r.marks : i # r.plan.at => n.marks[i] = r.marks[i]
  BY <1>1, RunFields
<1> HIDE DEF n
<1>3. Progress(n)
  BY <1>1, <1>2 DEF Progress, Running
<1>4. Truthful(n, out, kept)
  BY <1>1, <1>2 DEF Truthful, Sound, Stopped, Token, Delivered
<1> QED BY <1>3, <1>4 DEF Sound, n

LEMMA PassSound ==
  ASSUME NEW plan \in Plans, NEW r \in Runs(plan), NEW out, NEW kept, NEW mark, NEW output,
         Sound(r, out, kept), r.pc \in Running,
         mark = "VERIFIED" \/ (mark = "SKIPPED" /\ ~Step(r).required /\ Step(r).kind = "internal"),
         Step(r).kind = "internal" => HasEvidence(r),
         Step(r).kind # "internal" => Token(r) \in out
  PROVE  Sound(Pass(r, mark, output), out, kept)
<1> DEFINE n == Pass(r, mark, output)
           last == r.plan.at = Len(plan)
<1>1. /\ n.pc = IF last THEN "finish" ELSE "step"
      /\ n.plan.at = IF last THEN r.plan.at ELSE r.plan.at + 1
      /\ n.plan.steps = plan /\ n.plan.token = r.plan.token /\ n.asked = r.asked
      /\ n.marks = [r.marks EXCEPT ![r.plan.at] = mark]
  BY RunFields DEF Pass, Runs, HeldPlans
<1>2. /\ n.marks[r.plan.at] = mark /\ r.plan.at \in DOMAIN n.marks /\ DOMAIN n.marks = 1..Len(plan)
      /\ \A i \in 1..Len(plan) : i # r.plan.at => n.marks[i] = r.marks[i]
  BY <1>1, RunFields
<1>3. \A i \in 1..Len(plan) : i >= r.plan.at => r.marks[i] = "none"
  BY RunFields DEF Sound, Progress
<1> HIDE DEF n, last
<1>4. ASSUME NEW i \in 1..Len(plan), i < r.plan.at
      PROVE  Passed(n, i)
  <2>1. Passed(r, i) /\ r.plan.steps = plan
    BY <1>4, RunFields DEF Sound, Progress
  <2>2. n.marks[i] = r.marks[i]
    BY <1>2, <1>4, RunFields
  <2>3. \A j \in plan[i].anyOf : n.marks[j] = r.marks[j]
    <3>1. plan[i].anyOf \subseteq 1..(i - 1)
      BY PlansAssumption
    <3>2. \A j \in 1..(i - 1) : j \in 1..Len(plan) /\ j # r.plan.at
      BY <1>4, RunFields
    <3> QED BY <1>2, <3>1, <3>2
  <2> QED BY <1>1, <2>1, <2>2, <2>3 DEF Passed
<1>5. Passed(n, r.plan.at)
  <2>1. r.plan.steps = plan /\ r.plan.at \in 1..Len(plan)
    BY RunFields
  <2>2. plan[r.plan.at].anyOf # {} => \E j \in plan[r.plan.at].anyOf : n.marks[j] = "VERIFIED"
    <3>1. plan[r.plan.at].anyOf \subseteq 1..(r.plan.at - 1)
      BY <2>1, PlansAssumption
    <3>2. \A j \in 1..(r.plan.at - 1) : j \in 1..Len(plan) /\ j # r.plan.at
      BY <2>1, RunFields
    <3>3. \A j \in plan[r.plan.at].anyOf : n.marks[j] = r.marks[j]
      BY <1>2, <3>1, <3>2
    <3>4. plan[r.plan.at].anyOf # {} => HasEvidence(r)
      BY <2>1, PlansAssumption DEF Step
    <3> QED BY <2>1, <3>3, <3>4 DEF HasEvidence, Step
  <2> QED BY <1>1, <1>2, <2>1, <2>2 DEF Passed, Step
<1>6. Progress(n)
  <2>1. CASE last
    <3>1. \A i \in 1..Len(plan) : Passed(n, i)
      BY <1>4, <1>5, <2>1, RunFields DEF last
    <3> QED BY <1>1, <1>2, <2>1, <3>1 DEF Progress, Running
  <2>2. CASE ~last
    <3>1. \A i \in 1..Len(plan) : i < r.plan.at + 1 => Passed(n, i)
      BY <1>4, <1>5, RunFields
    <3>2. \A i \in 1..Len(plan) : ~(i < r.plan.at + 1) => n.marks[i] = "none"
      BY <1>2, <1>3, RunFields
    <3> QED BY <1>1, <1>2, <2>2, <3>1, <3>2 DEF Progress, Running
  <2> QED BY <2>1, <2>2
<1>7. Truthful(n, out, kept)
  <2>1. \A i \in 1..Len(plan) : i # r.plan.at => n.marks[i] = r.marks[i] /\ n.plan.steps = r.plan.steps
    BY <1>1, <1>2, RunFields
  <2>2. n.marks[r.plan.at] \in {"VERIFIED", "SKIPPED"}
    BY <1>2
  <2> QED BY <1>1, <1>2, <2>1, <2>2, RunFields DEF Truthful, Sound, Token, Step, Delivered
<1> QED BY <1>6, <1>7 DEF Sound, n

(* Going on inside a step.                                                  *)
LEMMA PlaceSound ==
  ASSUME NEW plan \in Plans, NEW r \in Runs(plan), NEW out, NEW kept, NEW n \in Runs(plan),
         Sound(r, out, kept), r.pc \in Running, n.pc \in Running,
         n.plan = r.plan, n.marks = r.marks, Step(r).kind # "internal",
         n.pc = "sent" => Token(r) \in out
  PROVE  Sound(n, out, kept)
<1>1. Progress(n)
  BY DEF Sound, Progress, Passed, Running, Step
<1>2. \A i \in DOMAIN r.marks : r.marks[i] \in {"none", "VERIFIED", "SKIPPED"}
  BY DEF Sound, Progress, Passed
<1>3. Truthful(n, out, kept)
  BY <1>2 DEF Sound, Truthful, Running, Token
<1> QED BY <1>1, <1>3 DEF Sound

(* An execution that has done nothing yet.                                  *)
LEMMA FreshSound ==
  ASSUME NEW plan \in Plans, NEW r \in Runs(plan), NEW out, NEW kept,
         \A i \in DOMAIN r.marks : r.marks[i] = "none",
         r.pc \in {"reading", "granted"} \/ (r.pc = "step" /\ r.plan.at = 1)
  PROVE  Sound(r, out, kept)
<1>1. Progress(r)
  BY RunFields DEF Progress, Running
<1>2. Truthful(r, out, kept)
  BY DEF Truthful, Delivered
<1> QED BY <1>1, <1>2 DEF Sound

LEMMA FinishSound ==
  ASSUME NEW plan \in Plans, NEW r \in Runs(plan), NEW out, NEW kept, NEW status,
         Sound(r, out, kept), r.pc = "finish",
         status = StatusOf(r) \/ status = "BLOCKED"
           \/ (status = "DELIVERED_AUDIT_UNAVAILABLE" /\ HasDelivery(r))
  PROVE  Sound([r EXCEPT !.pc = "done", !.status = status], out, kept)
<1> DEFINE n == [r EXCEPT !.pc = "done", !.status = status]
<1>1. n.pc = "done" /\ n.status = status /\ n.marks = r.marks /\ n.plan = r.plan /\ n.asked = r.asked
  BY DEF Runs
<1> HIDE DEF n
<1>2. StatusOf(n) = StatusOf(r) /\ (HasDelivery(r) => HasDelivery(n))
  BY <1>1 DEF StatusOf, MarksOf, HasDelivery
<1>3. StatusOf(r) \in {"HELD", "COMPLETE", "BLOCKED"}
  BY DEF StatusOf
<1>4. Progress(n)
  BY <1>1 DEF Sound, Progress, Passed, Running
<1>5. Truthful(n, out, kept)
  BY <1>1, <1>2, <1>3 DEF Sound, Truthful
<1> QED BY <1>4, <1>5 DEF Sound, n

LEMMA SoundStays ==
  ASSUME NEW r, NEW out, NEW kept, NEW out2, NEW kept2, out \subseteq out2, kept \subseteq kept2,
         Sound(r, out, kept)
  PROVE  Sound(r, out2, kept2)
  BY DEF Sound, Truthful
-----------------------------------------------------------------------------
(* An approval that is asked for keeps its payload; only Grant makes one    *)
(* live.                                                                    *)
KnownStays ==
  \A a \in Approvals : authority[a] # "absent" => authority'[a] # "absent" /\ bound'[a] = bound[a]

Unlocked == {"live", "spent"}

LEMMA LedgerKnown ==
  ASSUME Ledger!TypeOK, NEW b,
         \/ \E p : Ledger!Ask(b, p) \/ Ledger!Spend(b, p)
         \/ Ledger!Withdraw(b)
         \/ UNCHANGED <<authority, bound>>
  PROVE  KnownStays /\ \A a \in Approvals : authority'[a] \in Unlocked => authority[a] \in Unlocked
  BY DEF Ledger!TypeOK, Ledger!Ask, Ledger!Spend, Ledger!Withdraw, Ledger!Move,
         Ledger!Phases, KnownStays, Unlocked

LEMMA SurfaceKnown ==
  ASSUME TypeOK, NEW s \in Surfaces, Resuming(s) \/ Executing(s)
  PROVE  /\ KnownStays
         /\ \A a \in Approvals : authority'[a] \in Unlocked =>
              authority[a] \in Unlocked \/ (Grant(s) /\ a = run[s].resuming)
<1>1. Ledger!TypeOK
  BY DEF TypeOK
<1>2. CASE UNCHANGED <<authority, bound>>
  BY <1>1, <1>2, LedgerKnown
<1>3. CASE Grant(s)
  <2> DEFINE b == run[s].resuming
  <2>1. authority[b] = "asked" /\ authority' = [authority EXCEPT ![b] = "live"] /\ bound' = bound
    BY <1>3 DEF Grant, Ledger!Allow, Ledger!Move
  <2> HIDE DEF b
  <2>2. \A a \in Approvals : authority'[a] = IF a = b THEN "live" ELSE authority[a]
    BY <1>1, <2>1 DEF Ledger!TypeOK
  <2> QED BY <1>3, <2>1, <2>2 DEF KnownStays, b
<1>4. ASSUME NEW a \in Approvals, Request(s, a)
      PROVE  KnownStays /\ \A c \in Approvals : authority'[c] \in Unlocked => authority[c] \in Unlocked
  BY <1>1, <1>4, LedgerKnown DEF Request
<1>5. CASE HoldFails(s)
  <2>1. (\E a, p : Ledger!Ask(a, p)) \/ UNCHANGED <<authority, bound>>
    BY <1>5 DEF HoldFails
  <2> QED BY <1>1, <2>1, LedgerKnown
<1>6. CASE Redeem(s) \/ RedeemFails(s)
  <2>1. (\E a, p : Ledger!Spend(a, p)) \/ UNCHANGED <<authority, bound>>
    BY <1>6 DEF Redeem, RedeemFails
  <2> QED BY <1>1, <2>1, LedgerKnown
<1>7. (\A a \in Approvals : ~Request(s, a)) /\ ~Grant(s) /\ ~HoldFails(s) /\ ~Redeem(s) /\ ~RedeemFails(s)
      => UNCHANGED <<authority, bound>>
  BY DEF Resuming, Executing, Start, Resume, AlreadyGranted, Recheck, GrantRefused, InternalDone,
         InternalFails, PreparationFails, Hold, Reject, Transmit, NotDelivered, DeliveryAmbiguous,
         DeliveryVerified, DeliveryUnconfirmed, Finish, FinishUnrecorded, Answer, Crash
<1> QED BY <1>2, <1>3, <1>4, <1>5, <1>6, <1>7

(* A plan reaches the disk only from the surface that asked, as it asked.   *)
LEMMA HeldWritten ==
  ASSUME TypeOK, NEW s \in Surfaces, Resuming(s) \/ Executing(s), held' # held
  PROVE  run[s].pc = "requested" /\ held' = [held EXCEPT ![run[s].asked] = HeldBy(run[s])]
<1>1. Hold(s) \/ HoldFails(s)
  BY DEF Resuming, Executing, Start, Resume, Grant, AlreadyGranted, Recheck, GrantRefused, InternalDone,
         InternalFails, PreparationFails, Request, Redeem, RedeemFails, Reject, Transmit, NotDelivered,
         DeliveryAmbiguous, DeliveryVerified, DeliveryUnconfirmed, Finish, FinishUnrecorded, Answer, Crash
<1> QED BY <1>1 DEF Hold, HoldFails

LEMMA HeldIsFrozen ==
  ASSUME NEW plan \in Plans, NEW r \in Runs(plan)
  PROVE  PayloadOf(HeldBy(r)) = Frozen(r) /\ HeldBy(r) # Nothing
<1>1. PayloadOf(HeldBy(r)) = Frozen(r)
  BY DEF PayloadOf, HeldBy, Frozen, Step, Runs, HeldPlans
<1>2. HeldBy(r) # Nothing
  BY HeldByTyped, NothingAssumption
<1> QED BY <1>1, <1>2

(* What is held stays held, and stays what the ledger is bound to.          *)
LEMMA HeldStays ==
  ASSUME TypeOK, PlansAreKept, NEW s \in Surfaces, Resuming(s) \/ Executing(s)
  PROVE  /\ \A a \in Approvals : held[a] # Nothing => held'[a] # Nothing
         /\ HeldAsBound'
<1> USE DEF PlansAreKept
<1>1. KnownStays
  BY SurfaceKnown
<1>2. CASE held' = held
  BY <1>1, <1>2 DEF HeldAsBound, KnownStays, PayloadOf
<1>3. CASE held' # held
  <2> DEFINE b == run[s].asked
             h == HeldBy(run[s])
  <2>1. run[s].pc = "requested" /\ held' = [held EXCEPT ![b] = h]
    BY <1>3, HeldWritten
  <2>2. h # Nothing /\ PayloadOf(h) = Frozen(run[s])
    BY <2>1, RunIsTyped, HeldIsFrozen DEF RunTyped
  <2>3. b \in Approvals /\ authority[b] # "absent" /\ bound[b] = Frozen(run[s])
    BY <2>1 DEF AskedAsBound
  <2> HIDE DEF b, h
  <2>4. \A a \in Approvals : held'[a] = IF a = b THEN h ELSE held[a]
    BY <2>1 DEF TypeOK
  <2>5. ASSUME NEW a \in Approvals, held'[a] # Nothing
        PROVE  authority'[a] # "absent" /\ bound'[a] = PayloadOf(held'[a])
    <3>1. CASE a = b
      BY <1>1, <2>2, <2>3, <2>4, <3>1 DEF KnownStays
    <3>2. CASE a # b
      <4>1. held'[a] = held[a]
        BY <2>4, <3>2
      <4>2. authority[a] # "absent" /\ bound[a] = PayloadOf(held[a])
        BY <2>5, <4>1 DEF HeldAsBound
      <4> QED BY <1>1, <4>1, <4>2 DEF KnownStays
    <3> QED BY <3>1, <3>2
  <2>6. HeldAsBound'
    BY <2>5 DEF HeldAsBound, PayloadOf
  <2> QED BY <2>2, <2>4, <2>6
<1> QED BY <1>2, <1>3

LEMMA PlansStep ==
  ASSUME TypeOK, PlansAreKept, NEW s \in Surfaces, Resuming(s) \/ Executing(s)
  PROVE  PlansAreKept'
<1> USE DEF PlansAreKept
<1>1. HeldAsBound' /\ \A a \in Approvals : held[a] # Nothing => held'[a] # Nothing
  BY HeldStays
<1>2. KnownStays
  BY SurfaceKnown
<1>3. AskedAsBound'
  <2>1. ASSUME NEW t \in Surfaces, t # s, run'[t].pc = "requested"
        PROVE  LET a == run'[t].asked IN
               a \in Approvals /\ authority'[a] # "absent" /\ bound'[a] = Frozen(run'[t])
    <3>1. run'[t] = run[t]
      BY <2>1, OthersStand
    <3> QED BY <1>2, <2>1, <3>1 DEF AskedAsBound, KnownStays
  <2>2. ASSUME run'[s].pc = "requested"
        PROVE  LET a == run'[s].asked IN
               a \in Approvals /\ authority'[a] # "absent" /\ bound'[a] = Frozen(run'[s])
    <3>1. PICK a \in Approvals : Request(s, a)
      BY <2>2, StepsOn DEF Arrives
    <3>2. PICK plan \in Plans : run[s] \in Runs(plan)
      BY <3>1, RunIsTyped DEF Request, AtBoundary, RunTyped
    <3>3. run'[s] = [run[s] EXCEPT !.pc = "requested", !.asked = a]
      BY <3>1, <3>2 DEF Request, TypeOK, Runs
    <3>4. run'[s].asked = a /\ Frozen(run'[s]) = Frozen(run[s])
      BY <3>2, <3>3 DEF Frozen, FrozenContent, Step, Runs
    <3>5. authority'[a] = "asked" /\ bound'[a] = Frozen(run[s])
      BY <3>1 DEF Request, Ledger!Ask, TypeOK, Ledger!TypeOK
    <3> QED BY <3>4, <3>5
  <2> QED BY <2>1, <2>2 DEF AskedAsBound, Frozen, FrozenContent, Step
<1>4. ResumesHeld'
  <2>1. ASSUME NEW t \in Surfaces, t # s, run'[t].pc \in {"reading", "granted"}
        PROVE  run'[t].resuming \in Approvals /\ held'[run'[t].resuming] # Nothing
    <3>1. run'[t] = run[t]
      BY <2>1, OthersStand
    <3> QED BY <1>1, <2>1, <3>1 DEF ResumesHeld
  <2>2. ASSUME run'[s].pc = "reading"
        PROVE  run'[s].resuming \in Approvals /\ held'[run'[s].resuming] # Nothing
    <3>1. PICK a \in Approvals : Resume(s, a)
      BY <2>2, StepsOn DEF Arrives
    <3>2. run'[s].resuming = a
      BY <3>1 DEF Resume, TypeOK, Execution
    <3> QED BY <1>1, <3>1, <3>2 DEF Resume
  <2>3. ASSUME run'[s].pc = "granted"
        PROVE  run'[s].resuming \in Approvals /\ held'[run'[s].resuming] # Nothing
    <3>1. AlreadyGranted(s)
      BY <2>3, StepsOn DEF Arrives
    <3>2. PICK plan \in Plans : run[s] \in Runs(plan)
      BY <3>1, RunIsTyped DEF AlreadyGranted, RunTyped
    <3>3. run'[s].resuming = run[s].resuming /\ run[s].pc = "reading"
      BY <3>1, <3>2 DEF AlreadyGranted, TypeOK, Runs
    <3> QED BY <1>1, <3>3 DEF ResumesHeld
  <2> QED BY <2>1, <2>2, <2>3 DEF ResumesHeld
<1>5. LiveIsHeld'
  <2> SUFFICES ASSUME NEW a \in Approvals, authority'[a] \in Unlocked PROVE held'[a] # Nothing
    BY DEF LiveIsHeld, Unlocked
  <2>1. authority[a] \in Unlocked \/ (Grant(s) /\ a = run[s].resuming)
    BY SurfaceKnown
  <2>2. held[a] # Nothing
    BY <2>1 DEF LiveIsHeld, Unlocked, Grant, ResumesHeld
  <2> QED BY <1>1, <2>2
<1> QED BY <1>1, <1>3, <1>4, <1>5

LEMMA PlansAreKeptAlways == Spec => []PlansAreKept
<1>1. Init => PlansAreKept
  BY DEF Init, Ledger!Init, PlansAreKept, HeldAsBound, AskedAsBound, ResumesHeld, LiveIsHeld, Idle
<1>2. TypeOK /\ PlansAreKept /\ [Next]_vars => PlansAreKept'
  <2> SUFFICES ASSUME TypeOK, PlansAreKept, [Next]_vars PROVE PlansAreKept'
    OBVIOUS
  <2>1. ASSUME NEW a \in Approvals, Withdraw(a)
        PROVE  PlansAreKept'
    <3>1. KnownStays /\ \A b \in Approvals : authority'[b] \in Unlocked => authority[b] \in Unlocked
      BY <2>1, LedgerKnown DEF Withdraw, TypeOK
    <3>2. UNCHANGED <<held, run>>
      BY <2>1 DEF Withdraw
    <3> QED BY <3>1, <3>2 DEF PlansAreKept, HeldAsBound, AskedAsBound, ResumesHeld, LiveIsHeld, KnownStays, Unlocked,
               PayloadOf, Frozen, FrozenContent, Step
  <2>2. CASE UNCHANGED vars
    BY <2>2 DEF vars, PlansAreKept, HeldAsBound, AskedAsBound, ResumesHeld, LiveIsHeld,
       PayloadOf, Frozen, FrozenContent, Step
  <2> QED BY <2>1, <2>2, PlansStep DEF Next
<1>3. IInv => TypeOK
  BY DEF IInv
<1> QED BY <1>1, <1>2, <1>3, Invariance, PTL DEF Spec
-----------------------------------------------------------------------------
(* What is out and what is held only grows.                                 *)
LEMMA OutGrows ==
  ASSUME IInv, PlansAreKept, NEW s \in Surfaces, Resuming(s) \/ Executing(s)
  PROVE  /\ OutUnder \subseteq OutUnder' /\ Kept \subseteq Kept'
         /\ Transmit(s) => Token(run[s]) \in OutUnder'
<1> USE DEF IInv
<1>1. Kept \subseteq Kept'
  BY HeldStays DEF Kept
<1>2. CASE ~Transmit(s)
  BY <1>1, <1>2, SentStep DEF OutUnder
<1>3. CASE Transmit(s)
  <2> DEFINE b == Token(run[s])
             f == Frozen(run[s])
  <2>1. b \in Approvals /\ sent[b] = <<>> /\ sent' = [sent EXCEPT ![b] = Append(@, f)]
    BY <1>3 DEF Transmit, Redeemed
  <2> HIDE DEF b, f
  <2>2. sent'[b] = <<f>> /\ \A a \in Approvals \ {b} : sent'[a] = sent[a]
    BY <2>1 DEF TypeOK
  <2>3. sent'[b] # <<>>
    BY <2>2
  <2>4. OutUnder \subseteq OutUnder' /\ b \in OutUnder'
    BY <2>1, <2>2, <2>3 DEF OutUnder
  <2> QED BY <1>1, <2>4 DEF b
<1> QED BY <1>2, <1>3

LEMMA HoldKeeps ==
  ASSUME TypeOK, PlansAreKept, NEW s \in Surfaces, Hold(s)
  PROVE  run[s].asked \in Kept'
<1> DEFINE b == run[s].asked
           h == HeldBy(run[s])
<1>1. b \in Approvals /\ held' = [held EXCEPT ![b] = h]
  BY DEF Hold, PlansAreKept, AskedAsBound
<1>2. h # Nothing
  BY RunIsTyped, HeldIsFrozen DEF RunTyped, Hold
<1> HIDE DEF b, h
<1>3. held'[b] # Nothing
  BY <1>1, <1>2 DEF TypeOK
<1> QED BY <1>1, <1>3 DEF Kept, b

(* A surface leaves its execution as sound as it was.                       *)
LEMMA OwnStep ==
  ASSUME IInv, PlansAreKept, RunsAreSound, NEW s \in Surfaces, Resuming(s) \/ Executing(s)
  PROVE  run'[s] # Idle => Sound(run'[s], OutUnder', Kept')
<1> USE DEF IInv
<1> DEFINE r == run[s]
<1>1. PICK out, kept : out = OutUnder' /\ kept = Kept'
  OBVIOUS
<1> SUFFICES ASSUME run'[s] # Idle PROVE Sound(run'[s], out, kept)
  BY <1>1
<1>2. OutUnder \subseteq out /\ Kept \subseteq kept
  BY <1>1, OutGrows
<1>3. ASSUME r # Idle
      PROVE  /\ \E plan \in Plans : r \in Runs(plan)
             /\ Sound(r, out, kept)
  <2>1. \E plan \in Plans : r \in Runs(plan)
    BY <1>3, RunIsTyped DEF RunTyped
  <2>2. Sound(r, OutUnder, Kept)
    BY <1>3 DEF RunsAreSound
  <2> QED BY <1>2, <2>1, <2>2, SoundStays
<1>4. DOMAIN run = Surfaces
  BY DEF TypeOK
<1>5. r.pc # "idle" => r # Idle
  BY DEF Idle
<1> HIDE DEF IInv
<1>6. ASSUME NEW plan \in Plans, Start(s, plan)
      PROVE  Sound(run'[s], out, kept)
  <2> DEFINE n == Execution(Fresh(plan), "step", Nothing)
  <2>1. run'[s] = n
    BY <1>4, <1>6 DEF Start
  <2>2. n \in Runs(plan)
    BY FreshTyped, ExecutionTyped DEF Places
  <2>3. n.pc = "step" /\ n.plan.at = 1 /\ \A i \in DOMAIN n.marks : n.marks[i] = "none"
    BY DEF Execution, Fresh
  <2> HIDE DEF n
  <2> QED BY <2>1, <2>2, <2>3, FreshSound
<1>7. ASSUME NEW a \in Approvals, Resume(s, a)
      PROVE  Sound(run'[s], out, kept)
  <2> DEFINE n == Execution(held[a], "reading", a)
  <2>1. run'[s] = n
    BY <1>4, <1>7 DEF Resume
  <2>2. PICK plan \in Plans : n \in Runs(plan)
    <3>1. PICK plan \in Plans : held[a] \in HeldPlans(plan)
      BY <1>7 DEF Resume, IInv, TypeOK
    <3> QED BY <3>1, ExecutionTyped DEF Places
  <2>3. n.pc = "reading" /\ \A i \in DOMAIN n.marks : n.marks[i] = "none"
    BY DEF Execution
  <2> HIDE DEF n
  <2> QED BY <2>1, <2>2, <2>3, FreshSound
<1>8. CASE Grant(s) \/ Recheck(s)
  <2> DEFINE n == Authorized(r)
  <2>1. run'[s] = n /\ r.pc \in {"reading", "granted"}
    BY <1>4, <1>8 DEF Grant, Recheck
  <2>2. PICK plan \in Plans : r \in Runs(plan)
    BY <1>3, <1>5, <2>1
  <2>3. n \in Runs(plan) /\ n.pc = "step" /\ n.plan.at = 1 /\ n.marks = r.marks
    BY <2>2, AuthorizedTyped DEF Authorized, Runs, HeldPlans
  <2>4. \A i \in DOMAIN r.marks : r.marks[i] = "none"
    BY <1>3, <1>5, <2>1 DEF Sound, Progress
  <2> HIDE DEF n
  <2> QED BY <2>1, <2>2, <2>3, <2>4, FreshSound
<1>9. CASE AlreadyGranted(s)
  <2> DEFINE n == [r EXCEPT !.pc = "granted"]
  <2>1. run'[s] = n /\ r.pc = "reading"
    BY <1>4, <1>9 DEF AlreadyGranted
  <2>2. PICK plan \in Plans : r \in Runs(plan)
    BY <1>3, <1>5, <2>1
  <2>3. n \in Runs(plan) /\ n.pc = "granted" /\ n.marks = r.marks
    <3>1. n \in Runs(plan)
      BY <2>2, PlaceTyped DEF Places
    <3> QED BY <2>2, <3>1 DEF Runs
  <2>4. \A i \in DOMAIN r.marks : r.marks[i] = "none"
    BY <1>3, <1>5, <2>1 DEF Sound, Progress
  <2> HIDE DEF n
  <2> QED BY <2>1, <2>2, <2>3, <2>4, FreshSound
<1>10. CASE GrantRefused(s) \/ Answer(s) \/ Crash(s)
  BY <1>4, <1>10 DEF GrantRefused, Answer, Crash
<1>11. CASE InternalDone(s)
  <2>1. PICK draft \in Drafts : run'[s] = Pass(r, "VERIFIED", draft)
    BY <1>4, <1>11 DEF InternalDone
  <2>2. r.pc = "step" /\ Step(r).kind = "internal" /\ HasEvidence(r)
    BY <1>11 DEF InternalDone
  <2>3. PICK plan \in Plans : r \in Runs(plan)
    BY <1>3, <1>5, <2>2
  <2>4. Sound(r, out, kept)
    BY <1>3, <1>5, <2>2
  <2> HIDE DEF r
  <2> QED BY <2>1, <2>2, <2>3, <2>4, PassSound DEF Running
<1>12. CASE InternalFails(s)
  <2>1. run'[s] = IF Step(r).required \/ ~HasEvidence(r) THEN Stop(r, "BLOCKED") ELSE Pass(r, "SKIPPED", r.output)
    BY <1>4, <1>12 DEF InternalFails
  <2>2. r.pc = "step" /\ Step(r).kind = "internal"
    BY <1>12 DEF InternalFails
  <2>3. PICK plan \in Plans : r \in Runs(plan)
    BY <1>3, <1>5, <2>2
  <2>4. Sound(r, out, kept)
    BY <1>3, <1>5, <2>2
  <2> HIDE DEF r
  <2>5. CASE Step(r).required \/ ~HasEvidence(r)
    BY <2>1, <2>3, <2>4, <2>5, StopSound DEF Stopped
  <2>6. CASE ~(Step(r).required \/ ~HasEvidence(r))
    BY <2>1, <2>2, <2>3, <2>4, <2>6, PassSound DEF Running
  <2> QED BY <2>5, <2>6
<1>13. CASE PreparationFails(s) \/ HoldFails(s) \/ RedeemFails(s) \/ NotDelivered(s)
  <2>1. run'[s] = Stop(r, "BLOCKED") /\ r # Idle
    BY <1>4, <1>5, <1>13 DEF PreparationFails, HoldFails, RedeemFails, NotDelivered, AtBoundary
  <2> HIDE DEF r
  <2> QED BY <1>3, <2>1, StopSound DEF Stopped
<1>14. ASSUME NEW a \in Approvals, Request(s, a)
       PROVE  Sound(run'[s], out, kept)
  <2>1. r.pc = "step" /\ Step(r).kind # "internal"
    BY <1>14 DEF Request, AtBoundary
  <2>2. PICK plan \in Plans : r \in Runs(plan)
    BY <1>3, <1>5, <2>1
  <2>3. run'[s] = [r EXCEPT !.pc = "requested", !.asked = a]
    BY <1>4, <1>14, <2>2 DEF Request, Runs
  <2> DEFINE n == [r EXCEPT !.pc = "requested", !.asked = a]
  <2>4. n \in Runs(plan) /\ n.pc = "requested" /\ n.plan = r.plan /\ n.marks = r.marks
    BY <2>2, AskTyped DEF Runs
  <2>5. Sound(r, out, kept)
    BY <1>3, <1>5, <2>1
  <2> HIDE DEF n, r
  <2> QED BY <2>1, <2>2, <2>3, <2>4, <2>5, PlaceSound DEF Running, n
<1>15. CASE Hold(s)
  <2>1. run'[s] = Stop(r, "HELD") /\ r.pc = "requested"
    BY <1>4, <1>15 DEF Hold
  <2>2. r.asked \in kept
    BY <1>1, <1>15, HoldKeeps DEF IInv
  <2>3. r # Idle
    BY <1>5, <2>1
  <2> HIDE DEF r
  <2> QED BY <1>3, <2>1, <2>2, <2>3, StopSound DEF Stopped
<1>16. CASE Redeem(s) \/ Transmit(s)
  <2>1. PICK pc \in {"redeemed", "sent"} :
          /\ run'[s] = [r EXCEPT !.pc = pc] /\ r.pc \in {"step", "redeemed"}
          /\ pc = "sent" => Transmit(s)
          /\ Step(r).kind # "internal"
    BY <1>4, <1>16 DEF Redeem, Transmit, AtBoundary
  <2> DEFINE n == [r EXCEPT !.pc = pc]
  <2>2. PICK plan \in Plans : r \in Runs(plan)
    BY <1>3, <1>5, <2>1
  <2>3. n \in Runs(plan) /\ n.pc = pc /\ n.plan = r.plan /\ n.marks = r.marks
    <3>1. n \in Runs(plan)
      BY <2>2, PlaceTyped DEF Places
    <3> QED BY <2>2, <3>1 DEF Runs
  <2>4. pc = "sent" => Token(r) \in out
    BY <1>1, <2>1, OutGrows
  <2>5. Sound(r, out, kept)
    BY <1>3, <1>5, <2>1
  <2> HIDE DEF n, r
  <2> QED BY <2>1, <2>2, <2>3, <2>4, <2>5, PlaceSound DEF Running, n
<1>17. CASE Reject(s)
  <2> DEFINE m == Stop(r, "BLOCKED")
             n == [m EXCEPT !.refused = Token(r)]
  <2>1. run'[s] = n /\ r.pc = "step"
    BY <1>4, <1>17 DEF Reject, AtBoundary
  <2>2. PICK plan \in Plans : r \in Runs(plan)
    BY <1>3, <1>5, <2>1
  <2>3. Sound(m, out, kept) /\ m \in Runs(plan)
    <3>1. Sound(r, out, kept)
      BY <1>3, <1>5, <2>1
    <3> HIDE DEF r
    <3> QED BY <2>2, <3>1, StopSound, StopTyped DEF Stopped, Marks
  <2> HIDE DEF m
  <2>4. n.pc = m.pc /\ n.plan = m.plan /\ n.marks = m.marks /\ n.asked = m.asked /\ n.status = m.status
    BY <2>3 DEF Runs
  <2>5. m.pc = "finish"
    BY <2>2 DEF m, Stop, Runs
  <2> HIDE DEF n
  <2>6. Progress(n)
    BY <2>3, <2>4 DEF Sound, Progress, Passed, Step
  <2>7. Truthful(n, out, kept)
    BY <2>3, <2>4, <2>5 DEF Sound, Truthful
  <2> QED BY <2>1, <2>6, <2>7 DEF Sound
<1>18. CASE DeliveryAmbiguous(s) \/ DeliveryUnconfirmed(s)
  <2>1. PICK mark \in {"DELIVERED_UNVERIFIED", "DELIVERED_AUDIT_UNAVAILABLE"} :
          /\ run'[s] = Stop(r, mark) /\ r.pc \in {"redeemed", "sent"}
          /\ mark = "DELIVERED_AUDIT_UNAVAILABLE" => r.pc = "sent"
    BY <1>4, <1>18 DEF DeliveryAmbiguous, DeliveryUnconfirmed
  <2>2. r # Idle
    BY <1>5, <2>1
  <2>3. mark = "DELIVERED_AUDIT_UNAVAILABLE" => Token(r) \in out
    BY <1>3, <2>1, <2>2 DEF Sound, Truthful
  <2> HIDE DEF r
  <2> QED BY <1>3, <2>1, <2>2, <2>3, StopSound DEF Stopped
<1>19. CASE DeliveryVerified(s)
  <2>1. run'[s] = Pass(r, "VERIFIED", Receipt) /\ r.pc = "sent"
    BY <1>4, <1>19 DEF DeliveryVerified
  <2>2. Sound(r, out, kept)
    BY <1>3, <1>5, <2>1
  <2>3. PICK plan \in Plans : r \in Runs(plan)
    BY <1>3, <1>5, <2>1
  <2>4. Step(r).kind # "internal"
    BY <2>1, <2>2 DEF Sound, Progress, Running
  <2>5. Token(r) \in out
    BY <2>1, <2>2 DEF Sound, Truthful
  <2> HIDE DEF r
  <2> QED BY <2>1, <2>2, <2>3, <2>4, <2>5, PassSound DEF Running
<1>20. CASE Finish(s) \/ FinishUnrecorded(s)
  <2>1. r.pc = "finish"
    BY <1>20 DEF Finish, FinishUnrecorded
  <2>2. PICK plan \in Plans : r \in Runs(plan)
    BY <1>3, <1>5, <2>1
  <2>3. PICK status : /\ run'[s] = [r EXCEPT !.pc = "done", !.status = status]
                      /\ \/ status = StatusOf(r) \/ status = "BLOCKED"
                         \/ (status = "DELIVERED_AUDIT_UNAVAILABLE" /\ HasDelivery(r))
    BY <1>4, <1>20, <2>2 DEF Finish, FinishUnrecorded, Runs
  <2>4. Sound(r, out, kept)
    BY <1>3, <1>5, <2>1
  <2> HIDE DEF r
  <2>5. Sound([r EXCEPT !.pc = "done", !.status = status], out, kept)
    <3>1. \/ status = StatusOf(r) \/ status = "BLOCKED"
          \/ (status = "DELIVERED_AUDIT_UNAVAILABLE" /\ HasDelivery(r))
      BY <2>3
    <3> QED BY <2>1, <2>2, <2>4, <3>1, FinishSound
  <2> QED BY <2>3, <2>5
<1> HIDE DEF r
<1> QED
  BY <1>6, <1>7, <1>8, <1>9, <1>10, <1>11, <1>12, <1>13, <1>14, <1>15, <1>16, <1>17, <1>18, <1>19, <1>20
     DEF Resuming, Executing

LEMMA RunsAreSoundAlways == Spec => []RunsAreSound
<1>1. Init => RunsAreSound
  BY DEF Init, RunsAreSound
<1>2. IInv /\ PlansAreKept /\ RunsAreSound /\ [Next]_vars => RunsAreSound'
  <2> SUFFICES ASSUME IInv, PlansAreKept, RunsAreSound, [Next]_vars PROVE RunsAreSound'
    OBVIOUS
  <2>1. ASSUME NEW s \in Surfaces, Resuming(s) \/ Executing(s)
        PROVE  RunsAreSound'
    <3> SUFFICES ASSUME NEW t \in Surfaces, run'[t] # Idle
                 PROVE  Sound(run'[t], OutUnder', Kept')
      BY DEF RunsAreSound
    <3>1. CASE t = s
      BY <2>1, <3>1, OwnStep
    <3>2. CASE t # s
      <4>1. run'[t] = run[t]
        BY <2>1, <3>2, OthersStand DEF IInv
      <4>2. Sound(run[t], OutUnder, Kept)
        BY <4>1 DEF RunsAreSound
      <4> QED BY <2>1, <4>1, <4>2, OutGrows, SoundStays
    <3> QED BY <3>1, <3>2
  <2>2. CASE UNCHANGED <<held, run, sent>>
    <3>1. OutUnder' = OutUnder /\ Kept' = Kept
      BY <2>2 DEF OutUnder, Kept
    <3> QED BY <2>2, <3>1 DEF RunsAreSound
  <2> QED BY <2>1, <2>2 DEF Next, Withdraw, vars
<1> QED BY <1>1, <1>2, Invariance, PlansAreKeptAlways, PTL DEF Spec
-----------------------------------------------------------------------------
(* Executions, held plans, the ledger and what was sent keep their types.  *)
THEOREM MissionTypeOK == Spec => []TypeOK
<1>1. IInv => TypeOK
  BY DEF IInv
<1> QED BY <1>1, Invariance, PTL

(* operator.py, message_delivery.py: however many surfaces resume an       *)
(* approval, and wherever they die, at most one message leaves under it.   *)
THEOREM MissionSendsAtMostOnce == Spec => []AtMostOnceUnderAnApproval
<1>1. IInv => AtMostOnceUnderAnApproval
  BY DEF IInv
<1> QED BY <1>1, Invariance, PTL

(* operator.py: what left is the payload the approval was asked for.       *)
THEOREM MissionSendsAsApproved == Spec => []SentAsApproved
<1>1. IInv => SentAsApproved
  BY DEF IInv
<1> QED BY <1>1, Invariance, PTL

(* operator.py _persist_held_plan, grant_and_resume: whatever is lost between *)
(* the ledger's file and the held plan's, an approval that is granted or    *)
(* used has its plan, frozen to the payload it is bound to.                 *)
THEOREM MissionAuthorityHasItsPlan == Spec => []AuthorityHasItsPlan
<1>1. PlansAreKept => AuthorityHasItsPlan
  BY DEF PlansAreKept, HeldAsBound, LiveIsHeld, AuthorityHasItsPlan, PayloadOf
<1> QED BY <1>1, PlansAreKeptAlways, PTL

(* operator.py execute: what a mission answers its caller is so, also when  *)
(* it cannot be recorded, whatever other surfaces do meanwhile.             *)
THEOREM MissionAnswersAreTrue == Spec => []AnswersAreTrue
<1>1. TypeOK /\ RunsAreSound => AnswersAreTrue
  <2> SUFFICES ASSUME TypeOK, RunsAreSound, NEW s \in Surfaces, run[s].pc = "done"
               PROVE  LET r == run[s]
                          Out(i) == r.plan.token[i] # Nothing /\ sent[r.plan.token[i]] # <<>> IN
                      /\ r.status = "COMPLETE" => \A i \in DOMAIN r.marks :
                           r.plan.steps[i].kind # "internal" => Out(i)
                      /\ r.status = "HELD" => held[r.asked] # Nothing
                      /\ r.status = "DELIVERED_AUDIT_UNAVAILABLE" =>
                           \E i \in DOMAIN r.marks :
                             r.plan.steps[i].kind # "internal" /\ (Out(i) \/ r.marks[i] = "DELIVERED_UNVERIFIED")
                      /\ \A i \in DOMAIN r.marks :
                           r.plan.steps[i].kind # "internal" /\ r.marks[i] \in Delivered \ {"DELIVERED_UNVERIFIED"}
                             => Out(i)
    BY DEF AnswersAreTrue
  <2> DEFINE r == run[s]
             Out(i) == r.plan.token[i] # Nothing /\ sent[r.plan.token[i]] # <<>>
  <2>1. Progress(r) /\ Truthful(r, OutUnder, Kept)
    BY DEF RunsAreSound, Sound, Idle
  <2>2. \A i : r.plan.token[i] \in OutUnder => Out(i)
    BY NothingAssumption DEF OutUnder
  <2>3. r.pc = "done"
    OBVIOUS
  <2> HIDE DEF r, Out
  <2>4. \A i \in DOMAIN r.marks :
          r.plan.steps[i].kind # "internal" /\ r.marks[i] \in Delivered \ {"DELIVERED_UNVERIFIED"} => Out(i)
    BY <2>1, <2>2 DEF Truthful
  <2>5. r.status = "COMPLETE" => \A i \in DOMAIN r.marks : r.plan.steps[i].kind # "internal" => Out(i)
    <3> SUFFICES ASSUME r.status = "COMPLETE" PROVE \A i \in DOMAIN r.marks : r.plan.steps[i].kind # "internal" => Out(i)
      OBVIOUS
    <3>1. StatusOf(r) = "COMPLETE"
      BY <2>1, <2>3 DEF Truthful
    <3>2. \A i \in DOMAIN r.marks : r.marks[i] \notin Stopped
      BY <3>1 DEF StatusOf, MarksOf, Stopped
    <3>3. \A i \in DOMAIN r.marks : Passed(r, i)
      BY <2>1, <2>3, <3>2 DEF Progress
    <3> QED BY <2>4, <3>3 DEF Passed, Delivered
  <2>6. r.status = "HELD" => held[r.asked] # Nothing
    <3> SUFFICES ASSUME r.status = "HELD" PROVE held[r.asked] # Nothing
      OBVIOUS
    <3>1. StatusOf(r) = "HELD"
      BY <2>1, <2>3 DEF Truthful
    <3>2. \E i \in DOMAIN r.marks : r.marks[i] = "HELD"
      BY <3>1 DEF StatusOf, MarksOf
    <3> QED BY <2>1, <3>2 DEF Truthful, Kept
  <2>7. r.status = "DELIVERED_AUDIT_UNAVAILABLE" =>
          \E i \in DOMAIN r.marks :
            r.plan.steps[i].kind # "internal" /\ (Out(i) \/ r.marks[i] = "DELIVERED_UNVERIFIED")
    BY <2>1, <2>3, <2>4 DEF Truthful, HasDelivery
  <2> QED BY <2>4, <2>5, <2>6, <2>7 DEF r, Out
<1>2. IInv => TypeOK
  BY DEF IInv
<1> QED BY <1>1, <1>2, Invariance, RunsAreSoundAlways, PTL

(* operator.py execute: nothing is asked of the Founder, redeemed or sent   *)
(* after required work failed, or on evidence that was skipped.             *)
THEOREM MissionEvidenceBeforeBoundary == Spec => []EvidenceBeforeBoundary
<1>1. TypeOK /\ RunsAreSound => EvidenceBeforeBoundary
  <2> SUFFICES ASSUME TypeOK, RunsAreSound, NEW s \in Surfaces, run[s] # Idle,
                      AtBoundary(run[s]) \/ run[s].pc \in {"requested", "redeemed", "sent"},
                      NEW i \in 1..(run[s].plan.at - 1)
               PROVE  LET r == run[s] IN
                      /\ r.marks[i] \in {"VERIFIED"} \cup IF r.plan.steps[i].required THEN {} ELSE {"SKIPPED"}
                      /\ r.plan.steps[i].anyOf # {} =>
                           \E j \in r.plan.steps[i].anyOf : r.marks[j] = "VERIFIED"
    BY DEF EvidenceBeforeBoundary
  <2>1. PICK plan \in Plans : run[s] \in Runs(plan)
    BY RunIsTyped DEF RunTyped
  <2>2. i \in DOMAIN run[s].marks /\ i < run[s].plan.at
    BY <2>1, RunFields
  <2>3. Passed(run[s], i)
    BY <2>2 DEF RunsAreSound, Sound, Progress, Running, AtBoundary
  <2> QED BY <2>3 DEF Passed
<1>2. IInv => TypeOK
  BY DEF IInv
<1> QED BY <1>1, <1>2, Invariance, RunsAreSoundAlways, PTL

(* message_delivery.py, operator.py: the surfaces only ever do to the       *)
(* ledger what an abstract Founder authority allows, one step at a time.    *)
THEOREM MissionKeepsToTheLedger == Spec => Ledger!Spec
<1>1. Init => Ledger!Init
  BY DEF Init
<1>2. TypeOK /\ PlansAreKept /\ [Next]_vars => [Ledger!Next]_(Ledger!vars)
  <2> SUFFICES ASSUME TypeOK, PlansAreKept, [Next]_vars PROVE [Ledger!Next]_(Ledger!vars)
    OBVIOUS
  <2>1. ASSUME NEW s \in Surfaces, Resuming(s) \/ Executing(s)
        PROVE  Ledger!Next \/ UNCHANGED <<authority, bound>>
    <3>1. ASSUME AtBoundary(run[s]) /\ Freezable(run[s])
          PROVE  Frozen(run[s]) \in Payloads /\ Token(run[s]) \in Approvals \cup {Nothing}
      <4>1. PICK plan \in Plans : run[s] \in Runs(plan)
        BY <3>1, RunIsTyped DEF AtBoundary, RunTyped
      <4> QED BY <4>1, FrozenTyped DEF Token, Runs, HeldPlans
    <3>2. CASE Grant(s)
      BY <3>2 DEF Grant, Ledger!Next, PlansAreKept, ResumesHeld
    <3>3. ASSUME NEW a \in Approvals, Request(s, a)
          PROVE  Ledger!Next
      BY <3>1, <3>3 DEF Request, Ledger!Next
    <3>4. CASE HoldFails(s)
      BY <3>1, <3>4 DEF HoldFails, Ledger!Next
    <3>5. CASE Redeem(s) \/ RedeemFails(s)
      <4>1. Token(run[s]) # Nothing /\ AtBoundary(run[s]) /\ Freezable(run[s])
        BY <3>5 DEF Redeem, RedeemFails
      <4>2. Ledger!Spend(Token(run[s]), Frozen(run[s])) \/ UNCHANGED <<authority, bound>>
        BY <3>5 DEF Redeem, RedeemFails
      <4> QED BY <3>1, <4>1, <4>2 DEF Ledger!Next
    <3>6. (\A a \in Approvals : ~Request(s, a)) /\ ~Grant(s) /\ ~HoldFails(s) /\ ~Redeem(s) /\ ~RedeemFails(s)
          => UNCHANGED <<authority, bound>>
      BY <2>1 DEF Resuming, Executing, Start, Resume, AlreadyGranted, Recheck, GrantRefused, InternalDone,
         InternalFails, PreparationFails, Hold, Reject, Transmit, NotDelivered, DeliveryAmbiguous,
         DeliveryVerified, DeliveryUnconfirmed, Finish, FinishUnrecorded, Answer, Crash
    <3> QED BY <3>2, <3>3, <3>4, <3>5, <3>6
  <2>2. ASSUME NEW a \in Approvals, Withdraw(a)
        PROVE  Ledger!Next
    BY <2>2 DEF Withdraw, Ledger!Next
  <2>3. CASE UNCHANGED vars
    BY <2>3 DEF vars, Ledger!vars
  <2> QED BY <2>1, <2>2, <2>3 DEF Next, Ledger!vars
<1>3. IInv => TypeOK
  BY DEF IInv
<1> QED BY <1>1, <1>2, <1>3, Invariance, PlansAreKeptAlways, PTL DEF Spec, Ledger!Spec
=============================================================================
