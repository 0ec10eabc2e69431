---------------------------- MODULE MCVideoStudio ----------------------------
(***************************************************************************)
(* One portrait and one voice recording, which make a job possible; two    *)
(* clients, so that a revocation races with an upload, an approval, a      *)
(* queued job and another revocation; one external worker beside the       *)
(* render thread; two jobs, so that both engines hold one at once.         *)
(***************************************************************************)
EXTENDS VideoStudio, TLC

Symmetry == Permutations(Clients)
=============================================================================
