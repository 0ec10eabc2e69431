------------------------- MODULE ControlPlaneLedger -------------------------
(***************************************************************************)
(* control_plane/ledger.py: the append-only ledger of the control plane.   *)
(*                                                                         *)
(* A line carries its number, the hash of the line before and its own      *)
(* hash.  Hashes are taken for free of collisions: that of the line before *)
(* is all that was entered up to it, a line's own its payload as sealed.   *)
(* An append verifies the file, writes a line at its end and verifies      *)
(* again, under a lock between processes; it may end half-way through the  *)
(* line, or before its newline, which only the next append meets: its line  *)
(* runs on from there.  Besides, the lines may be edited without the lock,  *)
(* which the hashes are there to show; an edit does not mend them.         *)
(***************************************************************************)
EXTENDS Naturals, FiniteSets, Sequences

CONSTANTS
  Processes,
  Payloads,
  MaxLength,   \* bound on the lines
  MaxFailures, \* bound on appends that end half-way
  MaxEdits     \* bound on edits

VARIABLES
  file,    \* the lines
  torn,    \* there is a part of a line, or one that runs on
  ended,   \* the last line has its newline
  lock,    \* who holds the lock
  append,  \* process -> its append
  log,     \* what appends wrote, in their order (history)
  kept,    \* how many of them were acknowledged (history)
  cut,     \* lines were removed from the end (history)
  failures, edits

vars == <<file, torn, ended, lock, append, log, kept, cut, failures, edits>>
history == <<log, kept, cut>>

Nobody == "nobody"
Idle == [pc |-> "idle"]
Histories == {h \in Seq(Payloads) : Len(h) =< MaxLength}
Line == [sequence : 1..MaxLength, payload : Payloads, previous : Histories, sealed : Payloads]

TypeOK ==
  /\ \A i \in DOMAIN file : file[i] \in Line
  /\ torn \in BOOLEAN /\ ended \in BOOLEAN /\ cut \in BOOLEAN
  /\ lock \in Processes \cup {Nobody}
  /\ append \in [Processes -> {Idle} \cup [pc : {"reading"}]
                   \cup [pc : {"asked", "locked", "checking"}, payload : Payloads]
                   \cup [pc : {"writing"}, line : Line]]
  /\ log \in Histories /\ kept \in 0..MaxLength
  /\ failures \in 0..MaxFailures /\ edits \in 0..MaxEdits

Init ==
  /\ file = <<>> /\ torn = FALSE /\ ended = TRUE
  /\ lock = Nobody
  /\ append = [p \in Processes |-> Idle]
  /\ log = <<>> /\ kept = 0 /\ cut = FALSE
  /\ failures = 0 /\ edits = 0

Entered(lines) == [i \in DOMAIN lines |-> lines[i].payload]

(* Mutant: a line's own hash is not computed again.                        *)
VerifiesLinks(lines) ==
  \A i \in DOMAIN lines :
    lines[i].sequence = i /\ lines[i].previous = Entered(SubSeq(lines, 1, i - 1))

(* _verify_unlocked, of a file all of whose lines are JSON.                *)
Verifies(lines) ==
  \A i \in DOMAIN lines :
    /\ lines[i].payload = lines[i].sealed /\ lines[i].sequence = i
    /\ lines[i].previous = Entered(SubSeq(lines, 1, i - 1))

Valid == ~torn /\ Verifies(file)
-----------------------------------------------------------------------------
(* verify and records hold the lock together.                              *)
BeginVerify(p) ==
  /\ append[p] = Idle /\ lock = Nobody
  /\ append' = [append EXCEPT ![p] = [pc |-> "reading"]]
  /\ UNCHANGED <<file, torn, ended, lock, history, failures, edits>>

EndVerify(p) ==
  /\ append[p].pc = "reading"
  /\ append' = [append EXCEPT ![p] = Idle]
  /\ UNCHANGED <<file, torn, ended, lock, history, failures, edits>>

Ask(p, d) ==
  /\ append[p] = Idle
  /\ Len(log) + Cardinality({q \in Processes : append[q].pc \in {"asked", "locked", "writing"}}) < MaxLength
  /\ append' = [append EXCEPT ![p] = [pc |-> "asked", payload |-> d]]
  /\ UNCHANGED <<file, torn, ended, lock, history, failures, edits>>

Acquire(p) ==
  /\ append[p].pc = "asked" /\ lock = Nobody
  /\ \A q \in Processes : append[q].pc # "reading"
  /\ lock' = p
  /\ append' = [append EXCEPT ![p].pc = "locked"]
  /\ UNCHANGED <<file, torn, ended, history, failures, edits>>

Prepare(p) ==
  /\ append[p].pc = "locked" /\ Valid
  /\ append' = [append EXCEPT ![p] = [pc |-> "writing", line |->
       [sequence |-> Len(file) + 1, payload |-> append[p].payload,
        previous |-> Entered(file), sealed |-> append[p].payload]]]
  /\ UNCHANGED <<file, torn, ended, lock, history, failures, edits>>

(* The append raises, and the lock is released.                            *)
Refuse(p) ==
  /\ append[p].pc \in {"locked", "checking"} /\ ~Valid
  /\ lock' = Nobody
  /\ append' = [append EXCEPT ![p] = Idle]
  /\ UNCHANGED <<file, torn, ended, history, failures, edits>>

Enters(line) ==
  file' = Append(file, line) /\ log' = Append(log, line.payload) /\ UNCHANGED torn

NoLine == torn' = TRUE /\ UNCHANGED <<file, log>>

(* os.write, in full, and fsync.                                           *)
Write(p) ==
  LET line == append[p].line
  IN /\ append[p].pc = "writing"
     /\ IF ended THEN Enters(line) ELSE NoLine
     /\ ended' = TRUE
     /\ append' = [append EXCEPT ![p] = [pc |-> "checking", payload |-> line.payload]]
     /\ UNCHANGED <<lock, kept, cut, failures, edits>>

(* A part of the line is written, or all but its newline; the process ends, *)
(* or write raises.                                                        *)
Tear(p) ==
  /\ append[p].pc = "writing" /\ failures < MaxFailures
  /\ failures' = failures + 1
  /\ NoLine \/ (ended /\ Enters(append[p].line))
  /\ ended' = FALSE
  /\ lock' = Nobody
  /\ append' = [append EXCEPT ![p] = Idle]
  /\ UNCHANGED <<kept, cut, edits>>

(* The process ends at any other point; the system releases its lock.      *)
Crash(p) ==
  /\ append[p] # Idle /\ failures < MaxFailures
  /\ failures' = failures + 1
  /\ lock' = IF lock = p THEN Nobody ELSE lock
  /\ append' = [append EXCEPT ![p] = Idle]
  /\ UNCHANGED <<file, torn, ended, history, edits>>

Acknowledge(p) ==
  /\ append[p].pc = "checking" /\ Valid
  /\ kept' = Len(log)
  /\ lock' = Nobody
  /\ append' = [append EXCEPT ![p] = Idle]
  /\ UNCHANGED <<file, torn, ended, log, cut, failures, edits>>
-----------------------------------------------------------------------------
(* What the docstring says the ledger detects.                             *)
Edit(new) ==
  /\ edits < MaxEdits
  /\ edits' = edits + 1
  /\ file' = new /\ ended' \in {ended, TRUE}
  /\ UNCHANGED <<torn, lock, append, log, kept, failures>>

Alter(i, d) ==
  /\ file[i].payload # d
  /\ Edit([file EXCEPT ![i].payload = d])
  /\ UNCHANGED cut

Delete(i) ==
  /\ Edit(SubSeq(file, 1, i - 1) \o SubSeq(file, i + 1, Len(file)))
  /\ i = Len(file) => ended'
  /\ cut' = (cut \/ \A k \in DOMAIN file : file[k].sequence <= file[i].sequence)

Reorder(i, j) ==
  /\ i < j
  /\ Edit([file EXCEPT ![i] = file[j], ![j] = file[i]])
  /\ UNCHANGED cut

Next ==
  \/ \E p \in Processes, d \in Payloads : Ask(p, d)
  \/ \E p \in Processes :
       \/ BeginVerify(p) \/ EndVerify(p)
       \/ Acquire(p) \/ Prepare(p) \/ Refuse(p) \/ Write(p) \/ Tear(p) \/ Crash(p)
       \/ Acknowledge(p)
  \/ \E i \in DOMAIN file, d \in Payloads : Alter(i, d)
  \/ \E i \in DOMAIN file : Delete(i)
  \/ \E i, j \in DOMAIN file : Reorder(i, j)

Spec == Init /\ [][Next]_vars
-----------------------------------------------------------------------------
(* A file that verifies is what was appended, line by line, whatever was    *)
(* altered, deleted or reordered and however appends ended - but for lines *)
(* removed from its end, which nothing in the file shows.  Until a deletion *)
(* whatever was acknowledged is among it.                                  *)
WhatVerifiesIsTrue ==
  Valid /\ ~cut => Entered(file) = log /\ kept <= Len(file)
=============================================================================
