---------------------------- MODULE GuardedCutover ----------------------------
(***************************************************************************)
(* scripts/runtime/stage2f_guarded_cutover.py: containers are replaced one *)
(* after the other.  Each original is stopped, renamed and kept, and a new *)
(* container is started under its name; at any failed gate the new ones    *)
(* are removed and the originals brought back.                             *)
(*                                                                         *)
(* Every step is a command with a time limit: one that fails may have done *)
(* its work.  Hashes, image ids, networks, mounts and units are what a     *)
(* gate looks at; a gate is passed or it is not.                           *)
(***************************************************************************)
EXTENDS Naturals

CONSTANTS
  N,           \* CUTOVER_ORDER is 1..N
  Probed,      \* those of them whose port PROTECTED_HTTP probes
  MaxFailures  \* bound on failed commands and gates

VARIABLES
  original,  \* service -> its original container
  new,       \* service -> its new container
  pc, at,    \* the script: what it does, and to which service
  migrated,  \* the services it put in migrated are 1..migrated
  errors,    \* of the rollback
  report,    \* the result it prints
  failures

vars == <<original, new, pc, at, migrated, errors, report, failures>>
script == <<at, migrated, errors, report>>

Services == 1..N

TypeOK ==
  /\ original \in [Services -> [running : BOOLEAN, renamed : BOOLEAN]]
  /\ new \in [Services -> {"none", "broken", "up"}]
  /\ pc \in {"precheck", "stop", "rename", "policy", "up", "verify", "postcheck",
             "remove", "return", "start", "probe", "done", "killed"}
  /\ at \in 0..N + 1 /\ migrated \in 0..N
  /\ errors \in BOOLEAN
  /\ report \in {"none", "success", "failed", "rolled back", "rollback failed"}
  /\ failures \in 0..MaxFailures

Init ==
  /\ original = [s \in Services |-> [running |-> TRUE, renamed |-> FALSE]]
  /\ new = [s \in Services |-> "none"]
  /\ pc = "precheck" /\ at = 1 /\ migrated = 0
  /\ errors = FALSE /\ report = "none" /\ failures = 0

Fails == failures < MaxFailures /\ failures' = failures + 1
Running(s, yes) == original' = [original EXCEPT ![s].running = yes]
Renamed(s, yes) == original' = [original EXCEPT ![s].renamed = yes]
Goes(where) == pc' = where /\ UNCHANGED failures

(* A gate fails: what was migrated is rolled back, the last one first.     *)
GateFails ==
  /\ Fails
  /\ pc' = IF migrated = 0 THEN "done" ELSE "remove"
  /\ at' = migrated
  /\ report' = IF migrated = 0 THEN "failed" ELSE report
-----------------------------------------------------------------------------
(* The script checks what it is to replace before it touches it.           *)
Precheck ==
  /\ pc = "precheck"
  /\ \/ Goes("stop") /\ UNCHANGED script
     \/ GateFails /\ UNCHANGED <<migrated, errors>>
  /\ UNCHANGED <<original, new>>

Stop ==
  /\ pc = "stop"
  /\ \/ Running(at, FALSE) /\ Goes("rename") /\ UNCHANGED script
     \/ /\ \E running \in BOOLEAN : Running(at, running)
        /\ GateFails /\ UNCHANGED <<migrated, errors>>
  /\ UNCHANGED new

(* Only a service that was renamed is appended to migrated.                *)
Rename ==
  /\ pc = "rename"
  /\ \/ /\ Renamed(at, TRUE) /\ Goes("policy")
        /\ migrated' = at /\ UNCHANGED <<at, errors, report>>
     \/ /\ \E renamed \in BOOLEAN : Renamed(at, renamed)
        /\ GateFails /\ UNCHANGED <<migrated, errors>>
  /\ UNCHANGED new

(* The restart policy of the original, which stops nothing and starts none. *)
Policy ==
  /\ pc = "policy"
  /\ \/ Goes("up") /\ UNCHANGED script
     \/ GateFails /\ UNCHANGED <<migrated, errors>>
  /\ UNCHANGED <<original, new>>

Up ==
  /\ pc = "up"
  /\ \/ /\ \E state \in {"broken", "up"} : new' = [new EXCEPT ![at] = state]
        /\ Goes("verify") /\ UNCHANGED script
     \/ /\ \E state \in {"none", "broken", "up"} : new' = [new EXCEPT ![at] = state]
        /\ GateFails /\ UNCHANGED <<migrated, errors>>
  /\ UNCHANGED original

(* The new container's health and image.                                   *)
Verify ==
  /\ pc = "verify"
  /\ \/ /\ new[at] = "up"
        /\ Goes(IF at = N THEN "postcheck" ELSE "stop")
        /\ at' = at + 1 /\ UNCHANGED <<migrated, errors, report>>
     \/ GateFails /\ UNCHANGED <<migrated, errors>>
  /\ UNCHANGED <<original, new>>

(* A minute later all of it is looked at again; a new container may have   *)
(* broken down by then.                                                    *)
Postcheck ==
  /\ pc = "postcheck"
  /\ \/ /\ Goes("done")
        /\ report' = "success" /\ UNCHANGED <<at, migrated, errors, new>>
     \/ /\ \E s \in Services, state \in {"broken", "up"} : new' = [new EXCEPT ![s] = state]
        /\ GateFails /\ UNCHANGED <<migrated, errors>>
  /\ UNCHANGED original
-----------------------------------------------------------------------------
(* rollback removes the new containers, heedless of errors, ...            *)
Remove ==
  /\ pc = "remove"
  /\ \/ /\ new' = [new EXCEPT ![at] = "none"] /\ UNCHANGED failures
     \/ /\ Fails
        /\ \E state \in {"none", new[at]} : new' = [new EXCEPT ![at] = state]
  /\ IF at = 1 THEN pc' = "return" /\ at' = migrated ELSE at' = at - 1 /\ UNCHANGED pc
  /\ UNCHANGED <<original, migrated, errors, report>>

Proceed == IF at = 1 THEN pc' = "probe" /\ UNCHANGED at ELSE pc' = "return" /\ at' = at - 1

(* ... gives the originals their names back, if these are free, ...        *)
Return ==
  /\ pc = "return"
  /\ \/ /\ new[at] = "none"
        /\ Renamed(at, FALSE)
        /\ pc' = "start" /\ UNCHANGED <<at, errors, failures>>
     \/ /\ new[at] # "none"
        /\ errors' = TRUE
        /\ Proceed /\ UNCHANGED <<original, failures>>
     \/ /\ Fails
        /\ \E renamed \in BOOLEAN : Renamed(at, renamed)
        /\ errors' = TRUE
        /\ Proceed
  /\ UNCHANGED <<new, migrated, report>>

(* ... starts them and waits for their health, ...                         *)
Start ==
  /\ pc = "start"
  /\ \/ Running(at, TRUE) /\ UNCHANGED <<errors, failures>>
     \/ /\ Fails
        /\ \E running \in BOOLEAN : Running(at, running)
        /\ errors' = TRUE
  /\ Proceed
  /\ UNCHANGED <<new, migrated, report>>

Serves(s) ==
  \/ original[s].running /\ ~original[s].renamed
  \/ new[s] = "up"

(* Mutant: only what the rollback itself brought back is looked at.        *)
MigratedAnswer == \A s \in Probed \cap 1..migrated : Serves(s)

ProtectedAnswer == \A s \in Probed : Serves(s)

(* ... and probes every protected port.                                    *)
Probe ==
  /\ pc = "probe"
  /\ pc' = "done"
  /\ \/ /\ report' = IF errors \/ ~ProtectedAnswer THEN "rollback failed" ELSE "rolled back"
        /\ UNCHANGED failures
     \/ Fails /\ report' = "rollback failed"
  /\ UNCHANGED <<original, new, at, migrated, errors>>

(* The run of the workflow is cancelled or the host goes down.             *)
Kill ==
  /\ pc \notin {"done", "killed"} /\ Fails
  /\ pc' = "killed"
  /\ UNCHANGED <<original, new, script>>

Ended == pc \in {"done", "killed"} /\ UNCHANGED vars

Next ==
  \/ Precheck \/ Stop \/ Rename \/ Policy \/ Up \/ Verify \/ Postcheck
  \/ Remove \/ Return \/ Start \/ Probe \/ Kill \/ Ended

Spec == Init /\ [][Next]_vars
-----------------------------------------------------------------------------
Untouched(s) == original[s] = [running |-> TRUE, renamed |-> FALSE] /\ new[s] = "none"

(* What the cutover prints is so: after a success every new container has   *)
(* been verified and every original is kept; after a rollback that calls   *)
(* itself successful every service it migrated, and every probed one, is   *)
(* back as it was; a failure without a rollback migrated nothing.          *)
ReportIsTrue ==
  /\ report = "success" =>
       \A s \in Services : new[s] = "up" /\ original[s] = [running |-> FALSE, renamed |-> TRUE]
  /\ report = "rolled back" => \A s \in (1..migrated) \cup Probed : Untouched(s)
  /\ report = "failed" => \A s \in 2..N : Untouched(s)

(* "Any failed gate removes the new containers and restores the original    *)
(* containers": unless the rollback reports errors of its own, a cutover   *)
(* that failed leaves every service as it was.                             *)
FailureRestoresOriginals ==
  report \in {"failed", "rolled back"} => \A s \in Services : Untouched(s)
=============================================================================
