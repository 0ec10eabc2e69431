------------------------------ MODULE AuditTrail ------------------------------
(***************************************************************************)
(* buddy_core/watchmen/saraqael.py: the audit log all others report to.    *)
(*                                                                         *)
(* An entry is signed together with the hash of the one before; a second   *)
(* file, the chain state, holds the number of entries and the last hash.   *)
(* log verifies the history, appends an entry and replaces the chain       *)
(* state, under a lock between processes; it may fail or die between the   *)
(* two files, or half-way through the entry.  The log may be edited        *)
(* without the key.                                                        *)
(*                                                                         *)
(* verify_chain, tail and report take no lock.  verify_chain reads the     *)
(* chain state and then the log; tail reads the log again after it, and    *)
(* returns what it reads then; report reads the log before it, and returns *)
(* that.                                                                   *)
(*                                                                         *)
(* A hash stands for all that it was computed from: the last one for the   *)
(* events up to it.  The key, and who may read the files, are left out.    *)
(***************************************************************************)
EXTENDS Naturals, Sequences

CONSTANTS
  Processes,
  Events,
  MaxLength,   \* bound on the entries
  MaxFailures, \* bound on calls that fail or die half-way
  MaxEdits     \* bound on edits

VARIABLES
  audit,    \* watchmen_audit.log
  chain,    \* watchmen_chain.json: the events up to last_hash, as many as its count
  lock,     \* who holds watchmen_audit.lock
  call,     \* process -> what it is doing
  written,  \* what log ever entered: number and event (history)
  promised, \* what it returned for (history)
  edits, failures

vars == <<audit, chain, lock, call, written, promised, edits, failures>>

Nobody == "nobody"
Idle == [pc |-> "idle"]
Histories == {h \in Seq(Events) : Len(h) =< MaxLength}
Entry == [event : Events, signed : Events, previous : Histories]
Torn == [event |-> "torn"]
Numbered == (1..MaxLength) \X Events

(* Who verifies the history: for itself, for tail or for report.  "seen" is *)
(* what it will return, "promised" what log had returned for when it began, *)
(* and "edited" whether the log was edited since (history).                *)
Reader == [pc : {"listed", "reading", "verified", "trusted"}, op : {"verify", "tail", "report"},
           chain : Histories, seen : Seq(Events), promised : SUBSET Numbered, edited : BOOLEAN]

TypeOK ==
  /\ \A i \in DOMAIN audit : audit[i] = Torn \/ audit[i] \in Entry
  /\ chain \in Histories
  /\ lock \in Processes \cup {Nobody}
  /\ call \in [Processes ->
       {Idle} \cup [pc : {"locked", "append", "save", "return"}, event : Events] \cup Reader]
  /\ written \subseteq Numbered /\ promised \subseteq Numbered
  /\ edits \in 0..MaxEdits /\ failures \in 0..MaxFailures

Init ==
  /\ audit = <<>> /\ chain = <<>>
  /\ lock = Nobody /\ call = [p \in Processes |-> Idle]
  /\ written = {} /\ promised = {}
  /\ edits = 0 /\ failures = 0

Entered(entries) == [i \in DOMAIN entries |-> entries[i].event]

Links(entries) ==
  \A i \in DOMAIN entries :
    /\ entries[i] # Torn
    /\ entries[i].event = entries[i].signed
    /\ entries[i].previous = Entered(SubSeq(entries, 1, i - 1))

(* Mutant: the log is not compared with the chain state.                   *)
ValidLinks(entries, state) == Links(entries)

(* verify_chain, of what it read of the two files.                         *)
Valid(entries, state) == Links(entries) /\ Entered(entries) = state

At(p, pc) == call[p].pc = pc
Becomes(p, next) == call' = [call EXCEPT ![p] = next]
Goes(p, pc) == Becomes(p, [call[p] EXCEPT !.pc = pc])
Fails == failures < MaxFailures /\ failures' = failures + 1
-----------------------------------------------------------------------------
(* log takes the lock, and is refused on a history that does not verify.   *)
Log(p, event) ==
  /\ call[p] = Idle /\ lock = Nobody
  /\ lock' = p
  /\ Becomes(p, [pc |-> "locked", event |-> event])
  /\ UNCHANGED <<audit, chain, written, promised, edits, failures>>

Verify(p) ==
  /\ At(p, "locked")
  /\ IF Valid(audit, chain) /\ Len(chain) < MaxLength
     THEN Goes(p, "append") /\ UNCHANGED lock
     ELSE Becomes(p, Idle) /\ lock' = Nobody
  /\ UNCHANGED <<audit, chain, written, promised, edits, failures>>

(* _append_entry; when it raises the entry may be there, or a part of it.  *)
AppendEntry(p) ==
  LET event == call[p].event
      entry == [event |-> event, signed |-> event, previous |-> chain]
      number == Len(chain) + 1
  IN /\ At(p, "append")
     /\ \/ /\ audit' = Append(audit, entry)
           /\ written' = written \cup {<<number, event>>}
           /\ Goes(p, "save")
           /\ UNCHANGED <<lock, failures>>
        \/ /\ Fails
           /\ \/ audit' = Append(audit, entry) /\ written' = written \cup {<<number, event>>}
              \/ audit' = Append(audit, Torn) /\ UNCHANGED written
           /\ Becomes(p, Idle) /\ lock' = Nobody
     /\ UNCHANGED <<chain, promised, edits>>

(* _save_chain replaces the file or raises; it may also raise after it.    *)
Save(p) ==
  /\ At(p, "save")
  /\ \/ /\ chain' = Append(chain, call[p].event)
        /\ Goes(p, "return")
        /\ UNCHANGED <<lock, failures>>
     \/ /\ Fails
        /\ \E replaced \in BOOLEAN :
             chain' = IF replaced THEN Append(chain, call[p].event) ELSE chain
        /\ Becomes(p, Idle) /\ lock' = Nobody
  /\ UNCHANGED <<audit, written, promised, edits>>

Return(p) ==
  /\ At(p, "return")
  /\ promised' = promised \cup {<<Len(chain), call[p].event>>}
  /\ Becomes(p, Idle) /\ lock' = Nobody
  /\ UNCHANGED <<audit, chain, written, edits, failures>>

(* The process dies; the lock is gone with it.                             *)
Crash(p) ==
  /\ call[p] # Idle /\ Fails
  /\ Becomes(p, Idle)
  /\ lock' = IF lock = p THEN Nobody ELSE lock
  /\ UNCHANGED <<audit, chain, written, promised, edits>>
-----------------------------------------------------------------------------
Legible == \A i \in DOMAIN audit : audit[i] # Torn

(* report: _read_entries raises on a line that is not an entry, and report *)
(* tells of the corruption.                                                *)
ReadEntries(p) ==
  /\ call[p] = Idle /\ Legible
  /\ Becomes(p, [pc |-> "listed", op |-> "report", chain |-> <<>>, seen |-> Entered(audit),
                 promised |-> promised, edited |-> FALSE])
  /\ UNCHANGED <<audit, chain, lock, written, promised, edits, failures>>

(* verify_chain reads the chain state, and then the log.                   *)
BeginVerify(p) ==
  /\ \/ At(p, "listed") /\ Becomes(p, [call[p] EXCEPT !.pc = "reading", !.chain = chain])
     \/ /\ call[p] = Idle
        /\ \E op \in {"verify", "tail"} :
             Becomes(p, [pc |-> "reading", op |-> op, chain |-> chain, seen |-> <<>>,
                         promised |-> promised, edited |-> FALSE])
  /\ UNCHANGED <<audit, chain, lock, written, promised, edits, failures>>

EndVerify(p) ==
  /\ At(p, "reading")
  /\ \/ ~Valid(audit, call[p].chain) /\ Becomes(p, Idle)
     \/ /\ Valid(audit, call[p].chain)
        /\ CASE call[p].op = "verify" -> Becomes(p, [call[p] EXCEPT !.pc = "trusted", !.seen = Entered(audit)])
             [] call[p].op = "tail" -> Goes(p, "verified")
             [] call[p].op = "report" -> Goes(p, "trusted")
  /\ UNCHANGED <<audit, chain, lock, written, promised, edits, failures>>

(* tail: _read_entries again, which raises on a line that is not an entry. *)
ReadTail(p) ==
  /\ At(p, "verified")
  /\ Becomes(p, IF Legible THEN [call[p] EXCEPT !.pc = "trusted", !.seen = Entered(audit)] ELSE Idle)
  /\ UNCHANGED <<audit, chain, lock, written, promised, edits, failures>>

Tell(p) ==
  /\ At(p, "trusted")
  /\ Becomes(p, Idle)
  /\ UNCHANGED <<audit, chain, lock, written, promised, edits, failures>>
-----------------------------------------------------------------------------
(* The log is edited: an entry altered, any deleted, two exchanged.        *)
Edit(edited) ==
  /\ edits < MaxEdits /\ edits' = edits + 1
  /\ edited # audit
  /\ audit' = edited
  /\ call' = [p \in Processes |-> IF call[p].pc \in {"listed", "reading", "verified"}
                                 THEN [call[p] EXCEPT !.edited = TRUE] ELSE call[p]]
  /\ UNCHANGED <<chain, lock, written, promised, failures>>

Alter(i, event) == audit[i] # Torn /\ Edit([audit EXCEPT ![i].event = event])
Delete(i) == Edit(SubSeq(audit, 1, i - 1) \o SubSeq(audit, i + 1, Len(audit)))
Exchange(i, j) == Edit([audit EXCEPT ![i] = audit[j], ![j] = audit[i]])

Next ==
  \/ \E p \in Processes :
       \/ \E event \in Events : Log(p, event)
       \/ Verify(p) \/ AppendEntry(p) \/ Save(p) \/ Return(p) \/ Crash(p)
       \/ ReadEntries(p) \/ BeginVerify(p) \/ EndVerify(p) \/ ReadTail(p) \/ Tell(p)
  \/ \E i \in DOMAIN audit :
       \/ \E event \in Events : Alter(i, event)
       \/ Delete(i)
       \/ \E j \in DOMAIN audit : Exchange(i, j)

Spec == Init /\ [][Next]_vars
-----------------------------------------------------------------------------
(* Who is told that the history is intact has seen all of it: every event   *)
(* log had returned for when the reading began, each in its place, and     *)
(* nothing log did not write there - whatever was altered, removed (the    *)
(* end too) or reordered, wherever a call died, and without the lock.      *)
(* verify_chain keeps this whenever the log is edited.  tail and report    *)
(* return another reading than the one that verified, and keep it unless   *)
(* the log is edited while they run.                                       *)
TrustedIsComplete ==
  \A p \in Processes :
    At(p, "trusted") /\ (call[p].op = "verify" \/ ~call[p].edited) =>
      LET seen == {<<i, call[p].seen[i]>> : i \in DOMAIN call[p].seen}
      IN call[p].promised \subseteq seen /\ seen \subseteq written
=============================================================================
