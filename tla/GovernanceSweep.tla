--------------------------- MODULE GovernanceSweep ---------------------------
(***************************************************************************)
(* apps/council_node/app/orchestration/scheduler.py: the governance sweep, *)
(* which only reads and reports, and the directory that is its lock.       *)
(* Processes sweep on a timer or on demand.                                *)
(***************************************************************************)
EXTENDS Naturals

CONSTANTS
  Sweeps,      \* processes that sweep
  MaxFailures  \* bound on crashes, and on locks that are not removed

VARIABLES
  lock,       \* the directory .sweep.lock exists
  sweeping,   \* processes inside a sweep
  abandoned,  \* a sweep left its lock behind (history)
  failures

vars == <<lock, sweeping, abandoned, failures>>

TypeOK ==
  /\ lock \in BOOLEAN /\ abandoned \in BOOLEAN
  /\ sweeping \subseteq Sweeps
  /\ failures \in 0..MaxFailures

Init == lock = FALSE /\ sweeping = {} /\ abandoned = FALSE /\ failures = 0

(* mkdir, which fails when the directory is there.                         *)
BeginSweep(p) ==
  /\ p \notin sweeping /\ ~lock
  /\ lock' = TRUE
  /\ sweeping' = sweeping \cup {p}
  /\ UNCHANGED <<abandoned, failures>>

(* SweepLockHeld.                                                          *)
RefuseSweep(p) == p \notin sweeping /\ lock /\ UNCHANGED vars

(* Mutant: a sweep that finds the lock removes it on its way out.          *)
EndAnySweep(p) ==
  /\ lock
  /\ lock' = FALSE
  /\ sweeping' = sweeping \ {p}
  /\ UNCHANGED <<abandoned, failures>>

(* With or without an error.                                               *)
EndSweep(p) ==
  /\ p \in sweeping
  /\ lock' = FALSE
  /\ sweeping' = sweeping \ {p}
  /\ UNCHANGED <<abandoned, failures>>

(* The process dies, or rmdir fails, which is passed over.                 *)
LeaveLock(p) ==
  /\ p \in sweeping /\ failures < MaxFailures
  /\ failures' = failures + 1
  /\ sweeping' = sweeping \ {p}
  /\ abandoned' = TRUE
  /\ UNCHANGED lock

Next ==
  \E p \in Sweeps : BeginSweep(p) \/ RefuseSweep(p) \/ EndSweep(p) \/ LeaveLock(p)

Spec == Init /\ [][Next]_vars
-----------------------------------------------------------------------------
(* The lock lets one sweep in at a time, and while it is there a sweep is   *)
(* running, or one left it behind - after which none ever runs again.      *)
SweepLockIsTrue ==
  /\ \A p, q \in sweeping : p = q
  /\ lock <=> (sweeping # {} \/ abandoned)
=============================================================================
