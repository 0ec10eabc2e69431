----------------------- MODULE MCAuthorizationLedger -----------------------
(***************************************************************************)
(* Two approvals, so that one grant is numbered while an older number is   *)
(* being spent, denied or damaged, and three processes, so that two of     *)
(* them race for the lock while the third fails.  Processes, approvals and *)
(* payloads are interchangeable and every property checked is a safety     *)
(* property, so permuting them is sound.                                   *)
(***************************************************************************)
EXTENDS AuthorizationLedger, TLC

Symmetry ==
  Permutations(Processes) \cup Permutations(Approvals) \cup Permutations(Payloads)
============================================================================
