---------------------- MODULE AuthorizationLedgerProofs ----------------------
(***************************************************************************)
(* The ledger's properties, proved for any number of processes, approvals  *)
(* and payloads.  DecisionsAreDurable is not inductive: what protects a    *)
(* reported decision is that only the lock's holder has an in-memory copy  *)
(* of a record, and that the copy still says what the file says.  IInv     *)
(* states exactly that.                                                    *)
(***************************************************************************)
EXTENDS AuthorizationLedger, TLAPS

(* A process is inside a call exactly when it holds the lock.               *)
LockHeld == \A p \in Processes : call[p] # Idle <=> lock = p

(* What the status in an edited copy tells about the file it will replace.  *)
Precedes(before, after) ==
  \/ after = "GRANTED" /\ before = "PENDING"
  \/ after = "CONSUMED" /\ before = "GRANTED"
  \/ after = "EXPIRED" /\ before \in {"PENDING", "GRANTED"}
  \/ after = "DENIED" /\ before \in {"PENDING", "GRANTED", "EXPIRED"}

Current(p) ==
  LET c == call[p]
      r == record[c.approval] IN
  /\ c.pc \in {"loaded", "numbered"} =>
       Precedes(r.status, c.snapshot.status) /\ c.snapshot.payload = r.payload
  /\ c.pc = "loaded" => c.snapshot.sequence = r.sequence
  /\ c.pc = "numbered" =>
       /\ c.snapshot.status = "GRANTED"
       /\ c.snapshot.sequence > 0
       /\ \A b \in Approvals : record[b].authentic => record[b].sequence < c.snapshot.sequence
  /\ c.pc = "written" => r.status = c.snapshot.status /\ r.status # "ABSENT"
  /\ c.pc = "written" /\ c.snapshot.status = "CONSUMED" => redeemed[c.approval] = 0

CopyIsCurrent == \A p \in Processes : call[p].pc # "idle" => Current(p)

(* A file that exists was requested for a payload; one that does not has   *)
(* no number.                                                              *)
AskedHasPayload ==
  \A a \in Approvals :
    IF record[a].status = "ABSENT" THEN record[a].sequence = 0
                                   ELSE record[a].payload \in Payloads

IInv ==
  /\ TypeOK
  /\ LockHeld
  /\ CopyIsCurrent
  /\ AskedHasPayload
  /\ SingleUse
  /\ DecisionsAreDurable
-----------------------------------------------------------------------------
(* Every action, as one disjunction: the case split of each step below.    *)
LEMMA NextCases ==
  ASSUME Next
  PROVE  \/ \E a \in Approvals, payload \in Payloads : Request(a, payload)
         \/ \E a \in Approvals : Lapse(a) \/ Damage(a)
         \/ \E p \in Processes, operation \in Operations, a \in Approvals,
               presented \in Payloads \cup {NoPayload} : Acquire(p, operation, a, presented)
         \/ \E p \in Processes : Refuse(p) \/ Load(p) \/ Number(p) \/ Write(p) \/ Return(p) \/ Fail(p)
  BY DEF Next, AcquireAny, Step, Environment, Operations

(* A call under way is a Call record, whatever its place.                  *)
LEMMA CallTyped ==
  ASSUME TypeOK, NEW p \in Processes, call[p].pc # "idle"
  PROVE  call[p] \in Call
  BY DEF TypeOK, Idle

(* Every variable keeps its type in every step of the ledger.              *)
LEMMA TypeStep == TypeOK /\ [Next]_vars => TypeOK'
<1> SUFFICES ASSUME TypeOK, [Next]_vars PROVE TypeOK'
  OBVIOUS
<1>1. CASE UNCHANGED vars
  BY <1>1 DEF TypeOK, vars
<1>2. ASSUME NEW a \in Approvals, NEW payload \in Payloads, Request(a, payload)
      PROVE  TypeOK'
  BY <1>2 DEF TypeOK, Request, Record, Statuses
<1>3. ASSUME NEW a \in Approvals, Lapse(a) \/ Damage(a)
      PROVE  TypeOK'
  <2>1. CASE Lapse(a)
    BY <2>1 DEF TypeOK, Lapse
  <2>2. CASE Damage(a)
    BY <2>2 DEF TypeOK, Damage, Record
  <2> QED
    BY <1>3, <2>1, <2>2
<1>4. ASSUME NEW p \in Processes, NEW operation \in Operations, NEW a \in Approvals,
             NEW presented \in Payloads \cup {NoPayload}, Acquire(p, operation, a, presented)
      PROVE  TypeOK'
  BY <1>4 DEF TypeOK, Acquire, Call, NoRecord, Record, Statuses
<1>5. ASSUME NEW p \in Processes, Refuse(p) \/ Fail(p)
      PROVE  TypeOK'
  BY <1>5 DEF TypeOK, Refuse, Fail, Release
<1>6. ASSUME NEW p \in Processes, Load(p)
      PROVE  TypeOK'
  <2>1. call[p] \in Call
    BY <1>6, CallTyped DEF Load
  <2>2. Decided(call[p].operation, call[p].approval) \in Statuses
    BY <2>1 DEF Decided, Statuses, Call, Operations
  <2>3. [record[call[p].approval] EXCEPT
           !.status = Decided(call[p].operation, call[p].approval)] \in Record
    BY <2>1, <2>2 DEF TypeOK, Record, Call
  <2> QED
    BY <1>6, <2>1, <2>3 DEF TypeOK, Load, Call
<1>7. ASSUME NEW p \in Processes, Number(p)
      PROVE  TypeOK'
  <2>1. call[p] \in Call
    BY <1>7, CallTyped DEF Number
  <2>2. PICK n \in {1} \cup {record[b].sequence + 1 : b \in Approvals} :
          /\ sequenceFile' = n
          /\ call' = [call EXCEPT ![p].pc = "numbered", ![p].snapshot.sequence = n]
    BY <1>7 DEF Number
  <2>3. n \in Nat
    BY <2>2 DEF TypeOK, Record
  <2> QED
    BY <1>7, <2>1, <2>2, <2>3 DEF TypeOK, Number, Call, Record
<1>8. ASSUME NEW p \in Processes, Write(p)
      PROVE  TypeOK'
  <2>1. call[p] \in Call
    BY <1>8, CallTyped DEF Write
  <2> QED
    BY <1>8, <2>1 DEF TypeOK, Write, Call, Record
<1>9. ASSUME NEW p \in Processes, Return(p)
      PROVE  TypeOK'
  <2>1. call[p] \in Call
    BY <1>9, CallTyped DEF Return
  <2> QED
    BY <1>9, <2>1 DEF TypeOK, Return, Release, Call
<1> QED
  BY <1>1, <1>2, <1>3, <1>4, <1>5, <1>6, <1>7, <1>8, <1>9, NextCases

(* Every process takes and drops the lock together with its call.          *)
LEMMA LockStep == TypeOK /\ LockHeld /\ [Next]_vars => LockHeld'
<1> SUFFICES ASSUME TypeOK, LockHeld, [Next]_vars PROVE LockHeld'
  OBVIOUS
<1>1. CASE UNCHANGED vars
  BY <1>1 DEF LockHeld, vars
<1>2. ASSUME UNCHANGED <<lock, call>>
      PROVE  LockHeld'
  BY <1>2 DEF LockHeld
<1>3. ASSUME NEW p \in Processes, NEW operation \in Operations, NEW a \in Approvals,
             NEW presented \in Payloads \cup {NoPayload}, Acquire(p, operation, a, presented)
      PROVE  LockHeld'
  <2>1. call'[p] # Idle
    BY <1>3 DEF Acquire, TypeOK, Idle
  <2> QED
    BY <1>3, <2>1, NobodyAssumption DEF Acquire, LockHeld, TypeOK
<1>4. ASSUME NEW p \in Processes, call[p].pc # "idle", Release(p)
      PROVE  LockHeld'
  <2>1. lock = p
    BY <1>4 DEF LockHeld, Idle
  <2> QED
    BY <1>4, <2>1, NobodyAssumption DEF Release, LockHeld, TypeOK
<1>5. ASSUME NEW p \in Processes, call[p].pc # "idle", UNCHANGED lock,
             call'[p].pc # "idle", \A q \in Processes : q # p => call'[q] = call[q]
      PROVE  LockHeld'
  BY <1>5 DEF LockHeld, Idle
<1>6. ASSUME NEW p \in Processes, Load(p) \/ Number(p) \/ Write(p)
      PROVE  LockHeld'
  <2>1. call[p] \in Call
    BY <1>6, CallTyped DEF Load, Number, Write
  <2>2. call'[p].pc # "idle"
    BY <1>6, <2>1 DEF Load, Number, Write, TypeOK, Call
  <2>3. \A q \in Processes : q # p => call'[q] = call[q]
    BY <1>6 DEF Load, Number, Write, TypeOK
  <2>4. UNCHANGED lock
    BY <1>6 DEF Load, Number, Write
  <2>5. call[p].pc # "idle"
    BY <1>6 DEF Load, Number, Write
  <2> QED
    BY <1>5, <2>2, <2>3, <2>4, <2>5
<1>7. ASSUME NEW p \in Processes, Refuse(p) \/ Return(p) \/ Fail(p)
      PROVE  LockHeld'
  BY <1>4, <1>7 DEF Refuse, Return, Fail
<1>8. ASSUME NEW a \in Approvals, NEW payload \in Payloads, Request(a, payload)
      PROVE  LockHeld'
  BY <1>2, <1>8 DEF Request
<1>9. ASSUME NEW a \in Approvals, Lapse(a) \/ Damage(a)
      PROVE  LockHeld'
  BY <1>2, <1>9 DEF Lapse, Damage
<1> QED
  BY <1>1, <1>3, <1>6, <1>7, <1>8, <1>9, NextCases

(* The lock's holder is the only process with a call.                      *)
LEMMA OneCall ==
  ASSUME LockHeld, NEW p \in Processes, NEW q \in Processes,
         call[p].pc # "idle", call[q].pc # "idle"
  PROVE  p = q
  BY DEF LockHeld, Idle

(* What each action keeps of the rest of IInv.                             *)
Durable == CopyIsCurrent /\ AskedHasPayload /\ SingleUse /\ DecisionsAreDurable

(* An action that writes neither a record, nor a call, nor the history.    *)
LEMMA UntouchedKeepsDurable ==
  ASSUME Durable, UNCHANGED <<record, call, redeemed, denied>>
  PROVE  Durable'
  BY DEF Durable, CopyIsCurrent, Current, AskedHasPayload, SingleUse, DecisionsAreDurable

(* A call that starts or ends leaves every record as it is.                *)
LEMMA BoundaryKeepsDurable ==
  ASSUME TypeOK, Durable, NEW p \in Processes,
         UNCHANGED <<record, redeemed, denied>>,
         call'[p].pc \in {"idle", "locked"},
         \A q \in Processes : q # p => call'[q] = call[q]
  PROVE  Durable'
<1>1. ASSUME NEW q \in Processes, call'[q].pc # "idle"
      PROVE  Current(q)'
  BY <1>1 DEF Durable, CopyIsCurrent, Current
<1> QED
  BY <1>1 DEF Durable, CopyIsCurrent, AskedHasPayload, SingleUse, DecisionsAreDurable

LEMMA RequestKeepsDurable ==
  ASSUME TypeOK, Durable,
         NEW a \in Approvals, NEW payload \in Payloads, Request(a, payload)
  PROVE  Durable'
<1>1. /\ record[a].status = "ABSENT"
      /\ record'[a] = [status |-> "PENDING", payload |-> payload,
                       sequence |-> 0, authentic |-> TRUE]
      /\ \A b \in Approvals : b # a => record'[b] = record[b]
      /\ UNCHANGED <<call, redeemed, denied>>
  BY DEF Request, TypeOK
<1>2. ASSUME NEW p \in Processes, call[p].pc # "idle"
      PROVE  Current(p)'
  <2>1. call[p] \in Call /\ Current(p)
    BY <1>2, CallTyped DEF Durable, CopyIsCurrent
  <2>2. CASE call[p].pc = "locked"
    BY <1>1, <2>2 DEF Current
  <2>3. CASE call[p].pc # "locked"
    <3>1. call[p].approval # a
      BY <1>1, <2>1, <2>3 DEF Current, Call, Precedes
    <3> QED
      BY <1>1, <2>1, <3>1 DEF Current, Call
  <2> QED
    BY <2>2, <2>3
<1> QED
  BY <1>1, <1>2 DEF Durable, CopyIsCurrent, AskedHasPayload, SingleUse, DecisionsAreDurable

LEMMA DamageKeepsDurable ==
  ASSUME TypeOK, Durable, NEW a \in Approvals, Damage(a)
  PROVE  Durable'
<1>1. /\ \A b \in Approvals :
           /\ record'[b].status = record[b].status
           /\ record'[b].payload = record[b].payload
           /\ record'[b].sequence = record[b].sequence
           /\ record'[b].authentic => record[b].authentic
      /\ UNCHANGED <<call, redeemed, denied>>
  BY DEF Damage, TypeOK, Record
<1>2. ASSUME NEW p \in Processes, call[p].pc # "idle"
      PROVE  Current(p)'
  <2>1. call[p] \in Call /\ Current(p)
    BY <1>2, CallTyped DEF Durable, CopyIsCurrent
  <2> QED
    BY <1>1, <2>1 DEF Current, Call
<1> QED
  BY <1>1, <1>2 DEF Durable, CopyIsCurrent, AskedHasPayload, SingleUse, DecisionsAreDurable

LEMMA LoadKeepsDurable ==
  ASSUME TypeOK, LockHeld, Durable, NEW p \in Processes, Load(p)
  PROVE  Durable'
<1> DEFINE c == call[p]
           r == record[c.approval]
<1>1. c \in Call /\ r \in Record
  BY CallTyped DEF Load, TypeOK, Call
<1>2. /\ call'[p].pc = "loaded"
      /\ call'[p].approval = c.approval
      /\ call'[p].snapshot = [r EXCEPT !.status = Decided(c.operation, c.approval)]
      /\ \A q \in Processes : q # p => call'[q] = call[q]
      /\ UNCHANGED <<record, redeemed, denied>>
  BY <1>1 DEF Load, TypeOK, Call
<1>3. Precedes(r.status, Decided(c.operation, c.approval))
  BY <1>1 DEF Load, Refuses, Usable, Decided, Precedes, Call, Operations, Record, Statuses
<1>4. Current(p)'
  BY <1>1, <1>2, <1>3 DEF Current, Record
<1>5. ASSUME NEW q \in Processes, q # p, call'[q].pc # "idle"
      PROVE  FALSE
  BY <1>2, <1>5, OneCall DEF Load
<1> QED
  BY <1>2, <1>4, <1>5 DEF Durable, CopyIsCurrent, AskedHasPayload, SingleUse, DecisionsAreDurable

LEMMA NumberKeepsDurable ==
  ASSUME TypeOK, LockHeld, Durable, NEW p \in Processes, Number(p)
  PROVE  Durable'
<1>1. call[p] \in Call /\ Current(p)
  BY CallTyped DEF Number, Durable, CopyIsCurrent
<1>2. PICK n \in {1} \cup {record[b].sequence + 1 : b \in Approvals} :
        /\ IsNextSequence(n)
        /\ call' = [call EXCEPT ![p].pc = "numbered", ![p].snapshot.sequence = n]
  BY DEF Number
<1>3. n \in Nat /\ n > 0
  BY <1>2 DEF TypeOK, Record
<1>4. /\ call'[p] = [call[p] EXCEPT !.pc = "numbered",
                        !.snapshot = [call[p].snapshot EXCEPT !.sequence = n]]
      /\ \A q \in Processes : q # p => call'[q] = call[q]
      /\ UNCHANGED <<record, redeemed, denied>>
  BY <1>1, <1>2 DEF Number, TypeOK, Call
<1>5. /\ call'[p].pc = "numbered"
      /\ call'[p].approval = call[p].approval
      /\ call'[p].snapshot.status = "GRANTED"
      /\ call'[p].snapshot.payload = call[p].snapshot.payload
      /\ call'[p].snapshot.sequence = n
  BY <1>1, <1>4 DEF Number, Call, Record
<1>6. /\ Precedes(record[call[p].approval].status, "GRANTED")
      /\ call[p].snapshot.payload = record[call[p].approval].payload
  BY <1>1 DEF Number, Current
<1>7. Current(p)'
  BY <1>2, <1>3, <1>4, <1>5, <1>6 DEF Current, IsNextSequence
<1>8. ASSUME NEW q \in Processes, q # p, call'[q].pc # "idle"
      PROVE  FALSE
  BY <1>4, <1>8, OneCall DEF Number
<1> QED
  BY <1>4, <1>7, <1>8 DEF Durable, CopyIsCurrent, AskedHasPayload, SingleUse, DecisionsAreDurable

LEMMA WriteKeepsDurable ==
  ASSUME TypeOK, LockHeld, Durable, NEW p \in Processes, Write(p)
  PROVE  Durable'
<1> DEFINE c == call[p]
           a == c.approval
<1>1. c \in Call /\ Current(p)
  BY CallTyped DEF Write, Durable, CopyIsCurrent
<1>2. /\ record'[a] = [c.snapshot EXCEPT !.authentic = TRUE]
      /\ \A b \in Approvals : b # a => record'[b] = record[b]
      /\ call'[p] = [c EXCEPT !.pc = "written"]
      /\ \A q \in Processes : q # p => call'[q] = call[q]
      /\ UNCHANGED <<redeemed, denied>>
  BY <1>1 DEF Write, TypeOK, Call
<1>3. /\ Precedes(record[a].status, c.snapshot.status)
      /\ c.snapshot.payload = record[a].payload
  BY <1>1 DEF Write, Current
<1>4. record[a].status # "CONSUMED" /\ record[a].status # "DENIED" /\ record[a].status # "ABSENT"
  BY <1>3 DEF Precedes
<1>5. redeemed[a] = 0 /\ a \notin denied
  BY <1>1, <1>4 DEF Durable, DecisionsAreDurable, TypeOK, Call
<1>6. Current(p)'
  BY <1>1, <1>2, <1>3, <1>5 DEF Current, Call, Record, Precedes
<1>7. ASSUME NEW q \in Processes, q # p, call'[q].pc # "idle"
      PROVE  FALSE
  BY <1>2, <1>7, OneCall DEF Write
<1>8. CopyIsCurrent'
  BY <1>6, <1>7 DEF CopyIsCurrent
<1>9. AskedHasPayload'
  <2>1. /\ record'[a].status = c.snapshot.status
        /\ record'[a].payload = c.snapshot.payload
    BY <1>1, <1>2 DEF Call, Record
  <2>2. record'[a].status # "ABSENT"
    BY <1>3, <2>1 DEF Precedes
  <2>3. record[a].payload \in Payloads
    BY <1>1, <1>4 DEF Durable, AskedHasPayload, Call
  <2> QED
    BY <1>2, <1>3, <2>1, <2>2, <2>3 DEF AskedHasPayload, Durable
<1>10. SingleUse' /\ DecisionsAreDurable'
  BY <1>2, <1>5 DEF SingleUse, DecisionsAreDurable, Durable
<1> QED
  BY <1>8, <1>9, <1>10 DEF Durable

LEMMA ReturnKeepsDurable ==
  ASSUME TypeOK, LockHeld, Durable, NEW p \in Processes, Return(p)
  PROVE  Durable'
<1> DEFINE c == call[p]
           a == c.approval
<1>1. c \in Call /\ Current(p)
  BY CallTyped DEF Return, Durable, CopyIsCurrent
<1>2. record[a].status = c.snapshot.status
  BY <1>1 DEF Return, Current
<1>3. /\ call'[p].pc = "idle"
      /\ \A q \in Processes : q # p => call'[q] = call[q]
      /\ UNCHANGED record
  BY DEF Return, Release, TypeOK, Idle
<1>4. \A q \in Processes : call'[q].pc = "idle"
  BY <1>3, OneCall DEF Return
<1>5. CASE c.snapshot.status = "CONSUMED"
  <2>1. redeemed[a] = 0
    BY <1>1, <1>5 DEF Return, Current
  <2>2. redeemed' = [redeemed EXCEPT ![a] = @ + 1] /\ denied' = denied
    BY <1>5 DEF Return
  <2> QED
    BY <1>1, <1>2, <1>3, <1>4, <1>5, <2>1, <2>2
       DEF Durable, CopyIsCurrent, AskedHasPayload, SingleUse, DecisionsAreDurable, TypeOK, Call
<1>6. CASE c.snapshot.status # "CONSUMED"
  <2>1. redeemed' = redeemed
    BY <1>6 DEF Return
  <2>2. denied' \subseteq denied \cup (IF c.snapshot.status = "DENIED" THEN {a} ELSE {})
    BY DEF Return
  <2> QED
    BY <1>1, <1>2, <1>3, <1>4, <1>6, <2>1, <2>2
       DEF Durable, CopyIsCurrent, AskedHasPayload, SingleUse, DecisionsAreDurable
<1> QED
  BY <1>5, <1>6
-----------------------------------------------------------------------------
(* IInv holds initially and every step keeps it.                           *)
LEMMA InitIInv == Init => IInv
  BY NobodyAssumption
     DEF Init, IInv, TypeOK, LockHeld, CopyIsCurrent, AskedHasPayload, SingleUse,
         DecisionsAreDurable, NoRecord, Record, Statuses, Idle

LEMMA StepIInv == IInv /\ [Next]_vars => IInv'
<1> SUFFICES ASSUME IInv, [Next]_vars PROVE Durable'
  BY TypeStep, LockStep DEF IInv, Durable
<1> USE DEF IInv
<1>1. Durable
  BY DEF Durable
<1>2. CASE UNCHANGED vars
  BY <1>1, <1>2, UntouchedKeepsDurable DEF vars
<1>3. ASSUME NEW a \in Approvals, NEW payload \in Payloads, Request(a, payload)
      PROVE  Durable'
  BY <1>1, <1>3, RequestKeepsDurable
<1>4. ASSUME NEW a \in Approvals, Lapse(a)
      PROVE  Durable'
  BY <1>1, <1>4, UntouchedKeepsDurable DEF Lapse
<1>5. ASSUME NEW a \in Approvals, Damage(a)
      PROVE  Durable'
  BY <1>1, <1>5, DamageKeepsDurable
<1>6. ASSUME NEW p \in Processes, NEW operation \in Operations, NEW a \in Approvals,
             NEW presented \in Payloads \cup {NoPayload}, Acquire(p, operation, a, presented)
      PROVE  Durable'
  BY <1>1, <1>6, BoundaryKeepsDurable DEF Acquire, TypeOK
<1>7. ASSUME NEW p \in Processes, Refuse(p) \/ Fail(p)
      PROVE  Durable'
  BY <1>1, <1>7, BoundaryKeepsDurable DEF Refuse, Fail, Release, TypeOK, Idle
<1>8. ASSUME NEW p \in Processes, Load(p) \/ Number(p) \/ Write(p) \/ Return(p)
      PROVE  Durable'
  BY <1>1, <1>8, LoadKeepsDurable, NumberKeepsDurable, WriteKeepsDurable, ReturnKeepsDurable
<1> QED
  BY <1>2, <1>3, <1>4, <1>5, <1>6, <1>7, <1>8, NextCases

(* The inductive invariant, for every number of processes and approvals.   *)
THEOREM LedgerInvariant == Spec => []IInv
  BY InitIInv, StepIInv, PTL DEF Spec

(* Every variable of the ledger stays in its type.                         *)
THEOREM LedgerTypeOK == Spec => []TypeOK
<1>1. IInv => TypeOK
  BY DEF IInv
<1> QED
  BY LedgerInvariant, <1>1, PTL

(* No approval is ever redeemed twice, whatever the processes, their       *)
(* interleaving, their failures and the damage to files.                   *)
THEOREM LedgerSingleUse == Spec => []SingleUse
<1>1. IInv => SingleUse
  BY DEF IInv
<1> QED
  BY LedgerInvariant, <1>1, PTL

(* A reported redemption or denial is never written over.                  *)
THEOREM LedgerDecisionsAreDurable == Spec => []DecisionsAreDurable
<1>1. IInv => DecisionsAreDurable
  BY DEF IInv
<1> QED
  BY LedgerInvariant, <1>1, PTL

(* Monotonic authority, for every step of every process.                   *)
THEOREM LedgerGrantNumbersIncrease == Spec => GrantNumbersIncrease
<1> DEFINE Increase ==
      \A a, b \in Approvals :
        /\ record'[a].sequence # record[a].sequence
        /\ record[b].authentic
        => record[b].sequence < record'[a].sequence
<1>1. ASSUME IInv, Next
      PROVE  Increase
  <2>1. ASSUME UNCHANGED record
        PROVE  Increase
    BY <2>1
  <2>2. ASSUME NEW a \in Approvals, NEW payload \in Payloads, Request(a, payload)
        PROVE  Increase
    BY <1>1, <2>2 DEF Request, IInv, TypeOK, AskedHasPayload
  <2>3. ASSUME NEW a \in Approvals, Damage(a)
        PROVE  Increase
    BY <1>1, <2>3 DEF Damage, IInv, TypeOK, Record
  <2>4. ASSUME NEW p \in Processes, Write(p)
        PROVE  Increase
    <3> DEFINE c == call[p]
    <3>1. c \in Call /\ Current(p)
      BY <1>1, <2>4, CallTyped DEF IInv, CopyIsCurrent, Write
    <3>2. /\ record'[c.approval] = [c.snapshot EXCEPT !.authentic = TRUE]
          /\ \A b \in Approvals : b # c.approval => record'[b] = record[b]
      BY <1>1, <2>4, <3>1 DEF Write, IInv, TypeOK, Call
    <3>3. record'[c.approval].sequence = c.snapshot.sequence
      BY <3>1, <3>2 DEF Call, Record
    <3>4. CASE c.pc = "loaded"
      BY <3>1, <3>2, <3>3, <3>4 DEF Current
    <3>5. CASE c.pc = "numbered"
      BY <3>1, <3>2, <3>3, <3>5 DEF Current
    <3> QED
      BY <2>4, <3>4, <3>5 DEF Write
  <2>5. ASSUME NEW p \in Processes, Refuse(p) \/ Load(p) \/ Number(p) \/ Return(p) \/ Fail(p)
        PROVE  UNCHANGED record
    BY <2>5 DEF Refuse, Load, Number, Return, Fail
  <2> QED
    BY <1>1, <2>1, <2>2, <2>3, <2>4, <2>5, NextCases DEF Acquire, Lapse
<1>2. IInv /\ [Next]_vars => [Increase]_vars
  BY <1>1
<1> QED
  BY LedgerInvariant, <1>2, PTL DEF Spec, GrantNumbersIncrease
-----------------------------------------------------------------------------
(* Refinement.  Only Request and Write move an approval in FounderAuthority;*)
(* every other step of every process is a stutter there.                   *)
AuthorityBar == [a \in Approvals |-> Phase[record[a].status]]
BoundBar == [a \in Approvals |-> record[a].payload]

LEMMA SameRecordStutters ==
  ASSUME UNCHANGED record
  PROVE  UNCHANGED <<AuthorityBar, BoundBar>>
  BY DEF AuthorityBar, BoundBar

LEMMA DamageStutters ==
  ASSUME TypeOK, NEW a \in Approvals, Damage(a)
  PROVE  UNCHANGED <<AuthorityBar, BoundBar>>
<1>1. \A b \in Approvals : /\ record'[b].status = record[b].status
                           /\ record'[b].payload = record[b].payload
  BY DEF Damage, TypeOK, Record
<1> QED
  BY <1>1 DEF AuthorityBar, BoundBar

(* Changing one record's status moves that approval and no other.          *)
LEMMA OneMoves ==
  ASSUME NEW a \in Approvals, NEW after,
         \A b \in Approvals : record'[b].status = IF b = a THEN after ELSE record[b].status
  PROVE  AuthorityBar' = [AuthorityBar EXCEPT ![a] = Phase[after]]
<1>1. \A b \in Approvals :
        Phase[record'[b].status] = IF b = a THEN Phase[after] ELSE Phase[record[b].status]
  OBVIOUS
<1>2. AuthorityBar' = [b \in Approvals |-> Phase[record'[b].status]]
  BY DEF AuthorityBar, Phase
<1>3. [AuthorityBar EXCEPT ![a] = Phase[after]]
        = [b \in Approvals |-> IF b = a THEN Phase[after] ELSE Phase[record[b].status]]
  BY DEF AuthorityBar
<1> QED
  BY <1>1, <1>2, <1>3

LEMMA Phases ==
  /\ Phase["ABSENT"] = "absent"
  /\ Phase["PENDING"] = "asked"
  /\ Phase["GRANTED"] = "live"
  /\ Phase["CONSUMED"] = "spent"
  /\ Phase["DENIED"] = "void"
  /\ Phase["EXPIRED"] = "void"
  BY DEF Phase

LEMMA RequestAsks ==
  ASSUME TypeOK, NEW a \in Approvals, NEW payload \in Payloads, Request(a, payload)
  PROVE  Authority!Ask(a, payload)
<1>1. /\ \A b \in Approvals :
           /\ record'[b].status = IF b = a THEN "PENDING" ELSE record[b].status
           /\ record'[b].payload = IF b = a THEN payload ELSE record[b].payload
      /\ record[a].status = "ABSENT"
  BY DEF Request, TypeOK
<1>2. AuthorityBar' = [AuthorityBar EXCEPT ![a] = "asked"]
  BY <1>1, OneMoves, Phases
<1>3. AuthorityBar[a] = "absent"
  BY <1>1, Phases DEF AuthorityBar
<1>4. BoundBar' = [BoundBar EXCEPT ![a] = payload]
  BY <1>1 DEF BoundBar
<1> QED
  BY <1>2, <1>3, <1>4 DEF Authority!Ask, AuthorityBar, BoundBar

(* One approval moving along the lifecycle, all bindings kept, is a step.   *)
LEMMA LifecycleStep ==
  ASSUME NEW a \in Approvals, NEW to,
         AuthorityBar' = [AuthorityBar EXCEPT ![a] = to],
         BoundBar' = BoundBar,
         \/ AuthorityBar[a] = "asked" /\ to = "live"
         \/ AuthorityBar[a] = "live" /\ to = "spent" /\ BoundBar[a] \in Payloads
         \/ AuthorityBar[a] \in {"asked", "live"} /\ to = "void"
  PROVE  Authority!Next
<1>1. CASE AuthorityBar[a] = "asked" /\ to = "live"
  <2>1. Authority!Allow(a)
    BY <1>1 DEF Authority!Allow, Authority!Move, AuthorityBar, BoundBar
  <2> QED
    BY <2>1 DEF Authority!Next
<1>2. CASE AuthorityBar[a] = "live" /\ to = "spent" /\ BoundBar[a] \in Payloads
  <2>1. Authority!Spend(a, BoundBar[a])
    BY <1>2 DEF Authority!Spend, Authority!Move, AuthorityBar, BoundBar
  <2> QED
    BY <1>2, <2>1 DEF Authority!Next
<1>3. CASE AuthorityBar[a] \in {"asked", "live"} /\ to = "void"
  <2>1. Authority!Withdraw(a)
    BY <1>3 DEF Authority!Withdraw, Authority!Move, AuthorityBar, BoundBar
  <2> QED
    BY <2>1 DEF Authority!Next
<1> QED
  BY <1>1, <1>2, <1>3

LEMMA WriteMoves ==
  ASSUME IInv, NEW p \in Processes, Write(p)
  PROVE  [Authority!Next]_<<AuthorityBar, BoundBar>>
<1> DEFINE a == call[p].approval
           before == record[a].status
           after == call[p].snapshot.status
<1>1. call[p] \in Call /\ Current(p)
  BY CallTyped DEF IInv, CopyIsCurrent, Write
<1>2. /\ a \in Approvals
      /\ record' = [record EXCEPT ![a] = [call[p].snapshot EXCEPT !.authentic = TRUE]]
      /\ record'[a].status = after
      /\ record'[a].payload = record[a].payload
      /\ \A b \in Approvals : b # a => record'[b] = record[b]
  BY <1>1 DEF Write, IInv, TypeOK, Call, Record, Current
<1>3. Precedes(before, after)
  BY <1>1 DEF Write, Current
<1>4. BoundBar' = BoundBar
  BY <1>2 DEF BoundBar
<1>5. AuthorityBar' = [AuthorityBar EXCEPT ![a] = Phase[after]]
  <2>1. \A b \in Approvals : record'[b].status = IF b = a THEN after ELSE record[b].status
    BY <1>2
  <2> HIDE DEF a, after
  <2> QED
    BY <1>2, <2>1, OneMoves
<1>6. record[a].payload \in Payloads
  BY <1>2, <1>3 DEF IInv, AskedHasPayload, Precedes
<1>7. AuthorityBar[a] = Phase[before] /\ BoundBar[a] = record[a].payload
  BY <1>2 DEF AuthorityBar, BoundBar
<1>8. a \in Approvals
  BY <1>2
<1> HIDE DEF a, before, after
<1>9. CASE after = "DENIED" /\ before = "EXPIRED"
  <2>1. Phase[after] = AuthorityBar[a]
    BY <1>7, <1>9, Phases
  <2>2. AuthorityBar = [b \in Approvals |-> AuthorityBar[b]]
    BY DEF AuthorityBar
  <2>3. AuthorityBar' = AuthorityBar
    BY <1>5, <1>8, <2>1, <2>2
  <2> QED
    BY <1>4, <2>3
<1>10. CASE ~(after = "DENIED" /\ before = "EXPIRED")
  <2>1. \/ Phase[before] = "asked" /\ Phase[after] = "live"
        \/ Phase[before] = "live" /\ Phase[after] = "spent"
        \/ Phase[before] \in {"asked", "live"} /\ Phase[after] = "void"
    BY <1>3, <1>10, Phases DEF Precedes
  <2>2. Authority!Next
    BY <1>4, <1>5, <1>6, <1>7, <1>8, <2>1, LifecycleStep
  <2> QED
    BY <2>2
<1> QED
  BY <1>9, <1>10

(* Every behaviour of the many-process ledger is a behaviour of the atomic *)
(* FounderAuthority.                                                       *)
THEOREM LedgerImplementsFounderAuthority == Spec => ImplementsFounderAuthority
<1>1. Init => Authority!Init
  BY DEF Init, Authority!Init, NoRecord, Phase
<1>2. IInv /\ [Next]_vars => [Authority!Next]_<<AuthorityBar, BoundBar>>
  <2> SUFFICES ASSUME IInv, [Next]_vars
               PROVE  [Authority!Next]_<<AuthorityBar, BoundBar>>
    OBVIOUS
  <2>1. ASSUME UNCHANGED record
        PROVE  [Authority!Next]_<<AuthorityBar, BoundBar>>
    BY <2>1, SameRecordStutters
  <2>2. ASSUME NEW a \in Approvals, NEW payload \in Payloads, Request(a, payload)
        PROVE  Authority!Next
    BY <2>2, RequestAsks DEF IInv, Authority!Next
  <2>3. ASSUME NEW a \in Approvals, Damage(a)
        PROVE  UNCHANGED <<AuthorityBar, BoundBar>>
    BY <2>3, DamageStutters DEF IInv
  <2>4. ASSUME NEW p \in Processes, Write(p)
        PROVE  [Authority!Next]_<<AuthorityBar, BoundBar>>
    BY <2>4, WriteMoves
  <2>5. ASSUME NEW p \in Processes, Refuse(p) \/ Load(p) \/ Number(p) \/ Return(p) \/ Fail(p)
        PROVE  UNCHANGED record
    BY <2>5 DEF Refuse, Load, Number, Return, Fail
  <2> QED
    BY <2>1, <2>2, <2>3, <2>4, <2>5, NextCases DEF vars, Acquire, Lapse
<1> QED
  BY LedgerInvariant, <1>1, <1>2, PTL
     DEF Spec, ImplementsFounderAuthority, Authority!Spec, Authority!vars, AuthorityBar, BoundBar
=============================================================================
