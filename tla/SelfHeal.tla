------------------------------- MODULE SelfHeal -------------------------------
(***************************************************************************)
(* buddy_core/core/self_heal.py: repair_safe puts files of the runtime     *)
(* that differ from the canonical repository back, one after the other,    *)
(* from a snapshot it can roll back to, and may restart services.  It is   *)
(* asked for over HTTP and nothing keeps two repairs, a deployment or an   *)
(* edit of the runtime apart.                                              *)
(*                                                                         *)
(* A file is at the version it was copied from.  Services, containers,     *)
(* connectors and the disk are one question: whether a diagnosis finds     *)
(* something that a repair does not put right.  A diagnosis that does not   *)
(* get the state of the repository compares no file and finds no drift.    *)
(***************************************************************************)
EXTENDS Naturals

CONSTANTS
  Files,        \* TRACKED_RUNTIME_FILES
  Protected,    \* PROTECTED_GOVERNANCE_FILES
  Repairs,      \* requests for a repair
  MaxHead,      \* bound on the versions of the repository
  MaxEdits,     \* bound on edits of the runtime
  MaxFailures   \* bound on what raises, and on crashes

VARIABLES
  head,      \* the version of the repository
  runtime,   \* file -> its version
  repair,    \* request -> what it is doing
  disturbed, \* repairs that were not alone with the runtime (history)
  edits, failures

vars == <<head, runtime, repair, disturbed, edits, failures>>

Absent == 0
Edited == 1
Versions == 0..MaxHead
Mutable == Files \ Protected
Copies == UNION {[some -> Versions] : some \in SUBSET Files}
Idle == [pc |-> "idle"]
Steps == {"diagnosed", "copying", "restarting", "rollback", "undo", "reporting", "answered"}

TypeOK ==
  /\ head \in 2..MaxHead
  /\ runtime \in [Files -> Versions]
  /\ \A r \in Repairs :
       \/ repair[r] = Idle
       \/ /\ repair[r].pc \in Steps
          /\ repair[r].seen \in BOOLEAN /\ repair[r].unrestored \in BOOLEAN
          /\ repair[r].found \in [Files -> Versions]
          /\ repair[r].snapshot \in Copies
          /\ repair[r].todo \subseteq Files
          /\ repair[r].status \in {"none", "BLOCKED", "HELD", "HEALTHY", "REPAIRED"}
  /\ disturbed \subseteq Repairs
  /\ edits \in 0..MaxEdits /\ failures \in 0..MaxFailures

Init ==
  /\ head = 2 /\ runtime = [f \in Files |-> head]
  /\ repair = [r \in Repairs |-> Idle]
  /\ disturbed = {} /\ edits = 0 /\ failures = 0

Running == {r \in Repairs : repair[r] # Idle}
At(r, pc) == repair[r].pc = pc
Becomes(r, next) == repair' = [repair EXCEPT ![r] = next]
Goes(r, pc) == Becomes(r, [repair[r] EXCEPT !.pc = pc])
Answers(r, status) == Becomes(r, [repair[r] EXCEPT !.pc = "answered", !.status = status])
Fails == failures < MaxFailures /\ failures' = failures + 1
-----------------------------------------------------------------------------
(* Deployments and people (external).                                      *)
Deploy ==
  /\ head < MaxHead
  /\ head' = head + 1
  /\ runtime' = [f \in Files |-> head']
  /\ disturbed' = disturbed \cup Running
  /\ UNCHANGED <<repair, edits, failures>>

Edit(f, version) ==
  /\ edits < MaxEdits /\ edits' = edits + 1
  /\ runtime' = [runtime EXCEPT ![f] = version]
  /\ disturbed' = disturbed \cup Running
  /\ UNCHANGED <<head, repair, failures>>
-----------------------------------------------------------------------------
Drift == {f \in Mutable : runtime[f] # head}
ProtectedDrift == {f \in Protected : runtime[f] # head}

(* diagnose, the first time: "seen" says whether it got the state of the   *)
(* repository, without which no file is compared (_repo_state).            *)
Diagnose(r, seen) ==
  /\ repair[r] = Idle
  /\ Becomes(r, [pc |-> "diagnosed", found |-> runtime, snapshot |-> <<>>,
                 todo |-> IF seen THEN Drift ELSE {}, status |-> "none",
                 seen |-> seen, unrestored |-> FALSE])
  /\ disturbed' = IF Running = {} THEN disturbed \ {r} ELSE disturbed \cup Running \cup {r}
  /\ UNCHANGED <<head, runtime, edits, failures>>

(* _restore_tracked_source refuses unless the repository is a clean main   *)
(* branch with the files, and the snapshot's directory is new; it takes a  *)
(* snapshot of the files that drifted.                                     *)
Snapshot(r) ==
  /\ At(r, "diagnosed")
  /\ \/ /\ repair[r].todo = {}
        /\ Goes(r, "restarting")
        /\ UNCHANGED failures
     \/ /\ repair[r].todo # {}
        /\ Becomes(r, [repair[r] EXCEPT !.pc = "copying",
                                        !.snapshot = [f \in repair[r].todo |-> runtime[f]]])
        /\ UNCHANGED failures
     \/ /\ repair[r].todo # {} /\ Fails
        /\ Answers(r, "BLOCKED")
  /\ UNCHANGED <<head, runtime, disturbed, edits>>

Copy(r, f) ==
  /\ At(r, "copying") /\ f \in repair[r].todo
  /\ runtime' = [runtime EXCEPT ![f] = head]
  /\ Becomes(r, [repair[r] EXCEPT !.todo = @ \ {f}])
  /\ UNCHANGED <<head, disturbed, edits, failures>>

Copied(r) ==
  /\ At(r, "copying") /\ repair[r].todo = {}
  /\ Goes(r, "restarting")
  /\ UNCHANGED <<head, runtime, disturbed, edits, failures>>

(* The compilation, a copy that may leave its file half written, or a      *)
(* restart raises: the files of the snapshot are restored, once.           *)
Raise(r) ==
  /\ At(r, "copying") \/ At(r, "restarting")
  /\ Fails
  /\ IF repair[r].snapshot = <<>> THEN Answers(r, "BLOCKED") ELSE Goes(r, "undo")
  /\ \/ UNCHANGED runtime
     \/ /\ At(r, "copying")
        /\ \E f \in repair[r].todo : runtime' = [runtime EXCEPT ![f] = Edited]
  /\ UNCHANGED <<head, disturbed, edits>>

(* diagnose again, after the restarts: what it finds decides the status,   *)
(* and whether the files are rolled back.                                  *)
Decide(r, otherIssues, acted, seen) ==
  LET mismatches == IF seen THEN Drift ELSE {}
      protectedMismatches == IF seen THEN ProtectedDrift ELSE {}
      Reports(status) == Becomes(r, [repair[r] EXCEPT !.pc = "reporting", !.status = status,
                                                      !.seen = @ /\ seen])
  IN
  /\ At(r, "restarting")
  /\ \/ /\ otherIssues \/ mismatches # {}
        /\ IF repair[r].snapshot = <<>> THEN Reports("BLOCKED") ELSE Goes(r, "rollback")
     \/ /\ ~otherIssues /\ mismatches = {} /\ protectedMismatches # {}
        /\ Reports("HELD")
     \/ /\ ~otherIssues /\ mismatches = {} /\ protectedMismatches = {}
        /\ Reports(IF acted \/ repair[r].snapshot # <<>> THEN "REPAIRED" ELSE "HEALTHY")
  /\ UNCHANGED <<head, runtime, disturbed, edits, failures>>

(* Mutant: what was absent is not removed again.                           *)
RestoredFiles(snapshot) ==
  [f \in Files |-> IF f \in DOMAIN snapshot /\ snapshot[f] # Absent THEN snapshot[f] ELSE runtime[f]]

(* _restore_snapshot: a file that was absent is removed.                   *)
Restored(snapshot) ==
  [f \in Files |-> IF f \in DOMAIN snapshot THEN snapshot[f] ELSE runtime[f]]

(* It raises at a file, which it may leave half written, when some of the  *)
(* others are restored.                                                    *)
RestoresSome(snapshot) ==
  \E done \in SUBSET DOMAIN snapshot, at \in DOMAIN snapshot :
    \E torn \in {runtime[at], snapshot[at], Edited} :
      runtime' = [f \in Files |-> IF f = at THEN torn
                                 ELSE IF f \in done THEN snapshot[f] ELSE runtime[f]]

(* The rollback of a repair that found more to do.  One that raises is     *)
(* tried once again, by the handler of the exception.                      *)
Rollback(r) ==
  /\ At(r, "rollback")
  /\ \/ /\ runtime' = Restored(repair[r].snapshot)
        /\ Becomes(r, [repair[r] EXCEPT !.pc = "reporting", !.status = "BLOCKED"])
     \/ /\ RestoresSome(repair[r].snapshot)
        /\ Goes(r, "undo")
  /\ UNCHANGED <<head, disturbed, edits, failures>>

(* The rollback by a handler of an exception.  Nothing is tried after one  *)
(* that raises, and the answer does not tell it from one that worked.      *)
Undo(r) ==
  /\ At(r, "undo")
  /\ \/ /\ runtime' = Restored(repair[r].snapshot)
        /\ Answers(r, "BLOCKED")
     \/ /\ RestoresSome(repair[r].snapshot)
        /\ Becomes(r, [repair[r] EXCEPT !.pc = "answered", !.status = "BLOCKED", !.unrestored = TRUE])
  /\ UNCHANGED <<head, disturbed, edits, failures>>

(* The receipt is written; when that raises, the files are rolled back.    *)
Report(r) ==
  /\ At(r, "reporting")
  /\ \/ Goes(r, "answered") /\ UNCHANGED failures
     \/ /\ Fails
        /\ IF repair[r].snapshot = <<>> THEN Answers(r, "BLOCKED") ELSE Goes(r, "undo")
  /\ UNCHANGED <<head, runtime, disturbed, edits>>

End(r) ==
  /\ At(r, "answered")
  /\ Becomes(r, Idle)
  /\ UNCHANGED <<head, runtime, disturbed, edits, failures>>

(* The process stops in the middle of a repair; nothing resumes it.        *)
Crash(r) ==
  /\ repair[r] # Idle /\ Fails
  /\ Becomes(r, Idle)
  /\ UNCHANGED <<head, runtime, disturbed, edits>>

Next ==
  \/ Deploy
  \/ \E f \in Files, version \in {Absent, Edited} : Edit(f, version)
  \/ \E r \in Repairs :
       \/ Snapshot(r) \/ Copied(r) \/ Raise(r) \/ Rollback(r) \/ Undo(r) \/ Report(r) \/ End(r) \/ Crash(r)
       \/ \E f \in Files : Copy(r, f)
       \/ \E seen \in BOOLEAN : Diagnose(r, seen)
       \/ \E otherIssues, acted, seen \in BOOLEAN : Decide(r, otherIssues, acted, seen)

Spec == Init /\ [][Next]_vars
-----------------------------------------------------------------------------
AsFound(r) == runtime = repair[r].found
AsRepository(r) ==
  \A f \in Files : runtime[f] = IF f \in Protected THEN repair[r].found[f] ELSE head

(* A repair that was alone with the runtime is all or nothing: it leaves    *)
(* every file that drifted as the repository has it, or every file as it   *)
(* found it, a removed file removed; it says which ("reversible repair     *)
(* recipes"), and a protected file stays as it was whatever it says.  Only *)
(* an undo that raised leaves something else, and only in files of its     *)
(* snapshot.  A runtime it calls healthy or repaired is the repository's,  *)
(* if both diagnoses saw the repository; one that did not see it may find  *)
(* nothing to do in files that drifted.                                    *)
RepairIsAllOrNothing ==
  \A r \in Repairs \ disturbed :
    At(r, "answered") =>
      /\ repair[r].status = "BLOCKED" =>
           IF repair[r].unrestored
           THEN \A f \in Files \ DOMAIN repair[r].snapshot : runtime[f] = repair[r].found[f]
           ELSE AsFound(r)
      /\ repair[r].status # "BLOCKED" => AsRepository(r) \/ (~repair[r].seen /\ AsFound(r))
      /\ repair[r].status \in {"HEALTHY", "REPAIRED"} /\ repair[r].seen =>
           \A f \in Files : runtime[f] = head
=============================================================================
