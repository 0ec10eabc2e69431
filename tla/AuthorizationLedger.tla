------------------------- MODULE AuthorizationLedger -------------------------
(***************************************************************************)
(* buddy_core/core/authorization.py: the Founder authorization ledger.     *)
(*                                                                         *)
(* Several operating-system processes (the web surface, the bridge API,    *)
(* the runtime scripts) share one directory of approval_*.json records.    *)
(* grant, deny and verify_and_consume run under an exclusive flock; the    *)
(* model keeps every file access of theirs as a step of its own, so that   *)
(* other processes, the clock, a crash and a damaged file can come between *)
(* any two of them.  request takes no lock: it creates a file of its own.  *)
(*                                                                         *)
(* Abstracted: the HMAC is the record's "authentic" flag, a fingerprint is *)
(* a member of Payloads, wall-clock expiry is the set "lapsed" of the      *)
(* approvals whose expires_at has passed; receipts.jsonl is left out (it   *)
(* is appended best-effort and never read back).                           *)
(***************************************************************************)
EXTENDS Naturals

CONSTANTS
  Processes,   \* processes that open the ledger directory
  Approvals,   \* approval ids: "approval_" + uuid4, never reused
  Payloads,    \* values of payload_fingerprint
  NoPayload,   \* the payload of a record that does not exist yet
  Nobody       \* the lock's holder when it is free

ASSUME NoPayloadAssumption == NoPayload \notin Payloads
ASSUME NobodyAssumption == Nobody \notin Processes

VARIABLES
  record,        \* approval -> the JSON record on disk
  sequenceFile,  \* sequence.json: a cache nobody reads back
  lapsed,        \* approvals whose expires_at lies in the past
  lock,          \* holder of .ledger.lock
  call,          \* process -> its call under way
  redeemed,      \* approval -> ok redemptions returned to callers (history)
  denied         \* approvals whose denial was reported ok (history)

vars == <<record, sequenceFile, lapsed, lock, call, redeemed, denied>>

Statuses == {"ABSENT", "PENDING", "GRANTED", "CONSUMED", "DENIED", "EXPIRED"}
Record ==
  [status : Statuses, payload : Payloads \cup {NoPayload},
   sequence : Nat, authentic : BOOLEAN]
NoRecord ==
  [status |-> "ABSENT", payload |-> NoPayload, sequence |-> 0, authentic |-> FALSE]

Operations == {"grant", "deny", "redeem"}

(* Where a locked call is: before load(), after it, after _next_sequence,  *)
(* after the record's os.replace.  "snapshot" is the dict that load() gave *)
(* and that the call edits in memory.                                      *)
Idle == [pc |-> "idle"]
Call ==
  [pc : {"locked", "loaded", "numbered", "written"}, operation : Operations,
   approval : Approvals, presented : Payloads \cup {NoPayload}, snapshot : Record]

TypeOK ==
  /\ record \in [Approvals -> Record]
  /\ sequenceFile \in Nat
  /\ lapsed \subseteq Approvals
  /\ lock \in Processes \cup {Nobody}
  /\ call \in [Processes -> {Idle} \cup Call]
  /\ redeemed \in [Approvals -> Nat]
  /\ denied \subseteq Approvals

Init ==
  /\ record = [a \in Approvals |-> NoRecord]
  /\ sequenceFile = 0
  /\ lapsed = {}
  /\ lock = Nobody
  /\ call = [p \in Processes |-> Idle]
  /\ redeemed = [a \in Approvals |-> 0]
  /\ denied = {}

-----------------------------------------------------------------------------
(* request: a fresh id, a fresh file, no lock.                              *)
Request(a, payload) ==
  /\ record[a].status = "ABSENT"
  /\ record' = [record EXCEPT ![a] =
       [status |-> "PENDING", payload |-> payload, sequence |-> 0, authentic |-> TRUE]]
  /\ UNCHANGED <<sequenceFile, lapsed, lock, call, redeemed, denied>>

(* Mutant: a decision starts without the lock.                             *)
AcquireUnlocked(p, operation, a, presented) ==
  /\ call[p] = Idle
  /\ lock' = p
  /\ call' = [call EXCEPT ![p] =
       [pc |-> "locked", operation |-> operation, approval |-> a,
        presented |-> presented, snapshot |-> NoRecord]]
  /\ UNCHANGED <<record, sequenceFile, lapsed, redeemed, denied>>

(* flock(LOCK_EX), the first thing each decision does.                      *)
Acquire(p, operation, a, presented) ==
  /\ call[p] = Idle
  /\ lock = Nobody
  /\ lock' = p
  /\ call' = [call EXCEPT ![p] =
       [pc |-> "locked", operation |-> operation, approval |-> a,
        presented |-> presented, snapshot |-> NoRecord]]
  /\ UNCHANGED <<record, sequenceFile, lapsed, redeemed, denied>>

(* The error returns of the three handlers, in terms of the record load() gave. *)
Usable(r) == r.status # "ABSENT" /\ r.authentic

(* Mutant: redemption only looks for the failures, so a spent approval passes. *)
RefusesOnlyFailures(operation, a, presented, r) ==
  \/ ~Usable(r)
  \/ operation = "grant" /\ r.status # "PENDING"
  \/ operation = "deny" /\ r.status \in {"CONSUMED", "DENIED"}
  \/ operation = "redeem" /\ r.status \in {"ABSENT", "PENDING", "DENIED", "EXPIRED"}
  \/ operation = "redeem" /\ a \notin lapsed /\ presented # r.payload

(* Mutant: a denied approval may be granted after all.                     *)
RefusesLenientGrant(operation, a, presented, r) ==
  \/ ~Usable(r)
  \/ operation = "grant" /\ r.status \notin {"PENDING", "DENIED"}
  \/ operation = "deny" /\ r.status \in {"CONSUMED", "DENIED"}
  \/ operation = "redeem" /\ r.status # "GRANTED"
  \/ operation = "redeem" /\ a \notin lapsed /\ presented # r.payload

Refuses(operation, a, presented, r) ==
  \/ ~Usable(r)
  \/ operation = "grant" /\ r.status # "PENDING"
  \/ operation = "deny" /\ r.status \in {"CONSUMED", "DENIED"}
  \/ operation = "redeem" /\ r.status # "GRANTED"
  \/ operation = "redeem" /\ a \notin lapsed /\ presented # r.payload

(* The status a handler that did not refuse puts into its in-memory record. *)
Decided(operation, a) ==
  CASE operation = "deny" -> "DENIED"
    [] operation # "deny" /\ a \in lapsed -> "EXPIRED"
    [] operation = "grant" /\ a \notin lapsed -> "GRANTED"
    [] operation = "redeem" /\ a \notin lapsed -> "CONSUMED"

Release(p) ==
  /\ lock' = Nobody
  /\ call' = [call EXCEPT ![p] = Idle]

Refuse(p) ==
  /\ call[p].pc = "locked"
  /\ LET c == call[p] IN Refuses(c.operation, c.approval, c.presented, record[c.approval])
  /\ Release(p)
  /\ UNCHANGED <<record, sequenceFile, lapsed, redeemed, denied>>

Load(p) ==
  LET c == call[p]  IN
  /\ c.pc = "locked"
  /\ ~Refuses(c.operation, c.approval, c.presented, record[c.approval])
  /\ call' = [call EXCEPT ![p].pc = "loaded",
                          ![p].snapshot = [record[c.approval] EXCEPT
                             !.status = Decided(c.operation, c.approval)]]
  /\ UNCHANGED <<record, sequenceFile, lapsed, lock, redeemed, denied>>

(* Mutant: the largest number in use, without the increment.               *)
IsLastSequence(n) ==
  /\ n = 1 \/ \E b \in Approvals : record[b].authentic /\ n = record[b].sequence + 1
  /\ \A b \in Approvals : record[b].authentic => record[b].sequence <= n

(* _next_sequence: one more than the largest number an authentic record     *)
(* carries; sequence.json is written, and never read.                       *)
IsNextSequence(n) ==
  /\ n = 1 \/ \E b \in Approvals : record[b].authentic /\ n = record[b].sequence + 1
  /\ \A b \in Approvals : record[b].authentic => record[b].sequence < n

Number(p) ==
  /\ call[p].pc = "loaded"
  /\ call[p].snapshot.status = "GRANTED"
  /\ \E n \in {1} \cup {record[b].sequence + 1 : b \in Approvals} :
       /\ IsNextSequence(n)
       /\ sequenceFile' = n
       /\ call' = [call EXCEPT ![p].pc = "numbered", ![p].snapshot.sequence = n]
  /\ UNCHANGED <<record, lapsed, lock, redeemed, denied>>

(* _write: os.replace of the whole record under a new HMAC.                 *)
Write(p) ==
  LET c == call[p]  IN
  /\ \/ c.pc = "numbered"
     \/ c.pc = "loaded" /\ c.snapshot.status # "GRANTED"
  /\ record' = [record EXCEPT ![c.approval] = [c.snapshot EXCEPT !.authentic = TRUE]]
  /\ call' = [call EXCEPT ![p].pc = "written"]
  /\ UNCHANGED <<sequenceFile, lapsed, lock, redeemed, denied>>

(* The lock is released and the caller learns the outcome.                  *)
Return(p) ==
  LET c == call[p]  IN
  /\ c.pc = "written"
  /\ redeemed' = IF c.snapshot.status = "CONSUMED"
                   THEN [redeemed EXCEPT ![c.approval] = @ + 1] ELSE redeemed
  /\ denied' = IF c.snapshot.status = "DENIED" THEN denied \cup {c.approval} ELSE denied
  /\ Release(p)
  /\ UNCHANGED <<record, sequenceFile, lapsed>>

(* The process dies, or a file operation raises (the directory fsync raises *)
(* after the new record is already in place): the kernel or the finally     *)
(* clause drops the lock and the caller never sees an ok.                   *)
Fail(p) ==
  /\ call[p].pc # "idle"
  /\ Release(p)
  /\ UNCHANGED <<record, sequenceFile, lapsed, redeemed, denied>>

(* expires_at passes.                                                       *)
Lapse(a) ==
  /\ record[a].status # "ABSENT"
  /\ a \notin lapsed
  /\ lapsed' = lapsed \cup {a}
  /\ UNCHANGED <<record, sequenceFile, lock, call, redeemed, denied>>

(* A record on disk stops verifying: unreadable JSON or a wrong HMAC.       *)
Damage(a) ==
  /\ record[a].authentic
  /\ record' = [record EXCEPT ![a].authentic = FALSE]
  /\ UNCHANGED <<sequenceFile, lapsed, lock, call, redeemed, denied>>

AcquireAny(p) ==
  \E a \in Approvals :
    \/ \E operation \in {"grant", "deny"} : Acquire(p, operation, a, NoPayload)
    \/ \E presented \in Payloads : Acquire(p, "redeem", a, presented)

Step(p) == Refuse(p) \/ Load(p) \/ Number(p) \/ Write(p) \/ Return(p) \/ Fail(p)

Environment(a) == (\E payload \in Payloads : Request(a, payload)) \/ Lapse(a) \/ Damage(a)

Next ==
  \/ \E p \in Processes : AcquireAny(p) \/ Step(p)
  \/ \E a \in Approvals : Environment(a)

Spec == Init /\ [][Next]_vars
-----------------------------------------------------------------------------
(* Single use.  However calls interleave and fail, at most one redemption  *)
(* of an approval ever reports ok (authorization.py:28, "a spent           *)
(* authorization can never be replayed").                                  *)
SingleUse == \A a \in Approvals : redeemed[a] <= 1

(* A decision the ledger reported stays on disk: no other process, holding *)
(* an older copy of the record, writes over a redemption or a denial.      *)
DecisionsAreDurable ==
  \A a \in Approvals :
    /\ redeemed[a] > 0 => record[a].status = "CONSUMED"
    /\ a \in denied => record[a].status = "DENIED"

(* Monotonic authority.  A number that reaches a record on disk is above   *)
(* every number an authentic record carries at that moment, also when      *)
(* earlier grants failed after writing sequence.json.                      *)
GrantNumbersIncrease ==
  [][\A a, b \in Approvals :
       /\ record'[a].sequence # record[a].sequence
       /\ record[b].authentic
       => record[b].sequence < record'[a].sequence]_vars

(* The ledger implements the atomic FounderAuthority: every step of every  *)
(* process is one lifecycle step or none.                                  *)
Phase ==
  [ABSENT |-> "absent", PENDING |-> "asked", GRANTED |-> "live",
   CONSUMED |-> "spent", DENIED |-> "void", EXPIRED |-> "void"]

Authority ==
  INSTANCE FounderAuthority WITH
    authority <- [a \in Approvals |-> Phase[record[a].status]],
    bound <- [a \in Approvals |-> record[a].payload]

ImplementsFounderAuthority == Authority!Spec
=============================================================================
