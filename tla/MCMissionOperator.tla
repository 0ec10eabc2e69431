-------------------------- MODULE MCMissionOperator --------------------------
(***************************************************************************)
(* Plans that plan() makes: an outreach message, a plan of the language    *)
(* model with two messages, and a revenue mission with its two optional    *)
(* evidence steps, their gate and a capability without delivery backend.   *)
(* Two surfaces race for two approvals; two drafts, so that a step that    *)
(* runs again can change its output.                                       *)
(* MCSecondHold.cfg: the plan with two messages alone.                     *)
(***************************************************************************)
EXTENDS MissionOperator, TLC

Internal(name, required, anyOf) ==
  [kind |-> "internal", instruction |-> name, required |-> required, anyOf |-> anyOf]
External(kind, name) ==
  [kind |-> kind, instruction |-> name, required |-> TRUE, anyOf |-> {}]

Outreach == <<Internal("stage", TRUE, {}), External("message", "first")>>
Revenue ==
  <<Internal("vault", FALSE, {}), Internal("web", FALSE, {}),
    Internal("prepare", TRUE, {1, 2}), External("action", "publish")>>
TwoMessages ==
  <<Internal("stage", TRUE, {}), External("message", "first"),
    Internal("reason", TRUE, {}), External("message", "second")>>

AllPlans == {Outreach, TwoMessages, Revenue}
SecondHoldPlans == {TwoMessages}

Symmetry == Permutations(Surfaces) \cup Permutations(Approvals) \cup Permutations(Drafts)
=============================================================================
