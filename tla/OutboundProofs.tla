---------------------------- MODULE OutboundProofs ----------------------------
(***************************************************************************)
(* What leaves the host: the publisher, fulfilment, the proposal queue,    *)
(* the store's webhook, the social poster and the alpha engine, proved for *)
(* any number of items and actors and any bounds.  Each has an inductive   *)
(* invariant of its own, which its steps preserve while it is the one that *)
(* runs; their types come last.                                            *)
(***************************************************************************)
EXTENDS Services, FiniteSetTheorems, SequenceTheorems, TLAPS

(* The service that runs takes its own steps, and stays the one that runs.  *)
LEMMA OneRuns ==
  ASSUME [SumNext]_all
  PROVE  /\ service' = service
         /\ Is("council") => Council!Next \/ UNCHANGED councilVars
         /\ Is("sweep") => Sweep!Next \/ UNCHANGED sweepVars
         /\ Is("vault") => Vault!Next \/ UNCHANGED vaultVars
         /\ Is("ledger") => Ledger!Next \/ UNCHANGED ledgerVars
         /\ Is("alpha") => Alpha!Next \/ UNCHANGED alphaVars
         /\ Is("fulfillment") => Fulfillment!Next \/ UNCHANGED fulfillmentVars
         /\ Is("heal") => Heal!Next \/ UNCHANGED healVars
         /\ Is("audit") => Audit!Next \/ UNCHANGED auditVars
         /\ Is("cutover") => Cutover!Next \/ UNCHANGED cutoverVars
         /\ Is("poster") => Poster!Next \/ UNCHANGED posterVars
         /\ Is("store") => Store!Next \/ UNCHANGED storeVars
         /\ Is("proposals") => Proposals!Next \/ UNCHANGED proposalVars
<1>1. CASE SumNext
  BY <1>1 DEF SumNext, OthersStandStill, Is
<1>2. CASE UNCHANGED all
  BY <1>2 DEF all
<1> QED BY <1>1, <1>2

(* What a deletion leaves of a sequence.                                   *)
LineWithout(lines, i) == SubSeq(lines, 1, i - 1) \o SubSeq(lines, i + 1, Len(lines))

LEMMA LineRemoved ==
  ASSUME NEW S, NEW s \in Seq(S), NEW i \in 1..Len(s), NEW t, t = LineWithout(s, i)
  PROVE  /\ t \in Seq(S) /\ Len(t) = Len(s) - 1
         /\ \A j \in DOMAIN t : \E k \in DOMAIN s : t[j] = s[k]
         /\ \A k \in DOMAIN s : k # i => \E j \in DOMAIN t : t[j] = s[k]
<1> DEFINE a == SubSeq(s, 1, i - 1)
           b == SubSeq(s, i + 1, Len(s))
<1>1. Len(s) \in Nat /\ DOMAIN s = 1..Len(s) /\ \A j \in 1..Len(s) : s[j] \in S
  BY ElementOfSeq
<1>2. a \in Seq(S) /\ Len(a) = i - 1
  BY <1>1
<1>3. \A j \in 1..i - 1 : a[j] = s[j]
  BY <1>1
<1>4. /\ b \in Seq(S)
      /\ Len(b) = IF i + 1 <= Len(s) THEN Len(s) - (i + 1) + 1 ELSE 0
      /\ \A j \in 1..Len(s) - (i + 1) + 1 : b[j] = s[i + 1 + j - 1]
  <2>1. \A j \in i + 1..Len(s) : s[j] \in S
    BY <1>1
  <2> QED BY <1>1, <2>1, SubSeqProperties
<1>5. t = a \o b
  BY DEF LineWithout
<1> HIDE DEF a, b
<1>6. Len(b) = Len(s) - i
  <2>1. Len(b) = IF i + 1 <= Len(s) THEN Len(s) - (i + 1) + 1 ELSE 0
    BY <1>4
  <2>2. Len(s) \in Nat /\ i \in Nat /\ i <= Len(s)
    BY <1>1
  <2> QED BY <2>1, <2>2
<1>7. ASSUME NEW j \in 1..Len(s) - i
      PROVE  b[j] = s[i + j]
  <2>1. j \in 1..Len(s) - (i + 1) + 1 /\ i + 1 + j - 1 = i + j
    BY <1>1
  <2> QED BY <1>4, <2>1
<1>8. b \in Seq(S)
  BY <1>4
<1>9. /\ a \o b \in Seq(S) /\ Len(a \o b) = Len(a) + Len(b)
      /\ \A j \in 1..Len(a) + Len(b) : (a \o b)[j] = IF j <= Len(a) THEN a[j] ELSE b[j - Len(a)]
  BY <1>2, <1>8, ConcatProperties
<1>10. t \in Seq(S) /\ Len(t) = Len(s) - 1 /\ DOMAIN t = 1..Len(s) - 1
  <2>1. t \in Seq(S) /\ Len(t) = Len(a) + Len(b)
    BY <1>5, <1>9
  <2>2. Len(t) = Len(s) - 1
    BY <1>1, <1>2, <1>6, <2>1
  <2> QED BY <2>1, <2>2, LenProperties
<1>11. ASSUME NEW j \in 1..Len(s) - 1
       PROVE  t[j] = IF j < i THEN s[j] ELSE s[j + 1]
  <2>1. j \in 1..Len(a) + Len(b)
    BY <1>1, <1>2, <1>6
  <2>2. t[j] = IF j <= Len(a) THEN a[j] ELSE b[j - Len(a)]
    BY <1>5, <1>9, <2>1
  <2>3. CASE j < i
    <3>1. j <= Len(a) /\ j \in 1..i - 1
      BY <1>2, <2>3
    <3> QED BY <1>3, <2>2, <2>3, <3>1
  <2>4. CASE ~(j < i)
    <3>1. ~(j <= Len(a)) /\ j - Len(a) \in 1..Len(s) - i /\ i + (j - Len(a)) = j + 1
      BY <1>1, <1>2, <2>4
    <3> QED BY <1>7, <2>2, <2>4, <3>1
  <2> QED BY <2>3, <2>4
<1>12. \A j \in DOMAIN t : \E k \in DOMAIN s : t[j] = s[k]
  <2> SUFFICES ASSUME NEW j \in 1..Len(s) - 1
               PROVE  \E k \in 1..Len(s) : t[j] = s[k]
    BY <1>1, <1>10
  <2>1. j \in 1..Len(s) /\ j + 1 \in 1..Len(s)
    BY <1>1
  <2> QED BY <1>11, <2>1
<1>13. ASSUME NEW k \in DOMAIN s, k # i
       PROVE  \E j \in DOMAIN t : t[j] = s[k]
  <2>1. k \in 1..Len(s)
    BY <1>1
  <2>2. CASE k < i
    <3>1. k \in 1..Len(s) - 1
      BY <1>1, <2>1, <2>2
    <3> QED BY <1>10, <1>11, <2>2, <3>1
  <2>3. CASE k > i
    <3>1. k - 1 \in 1..Len(s) - 1 /\ ~(k - 1 < i) /\ (k - 1) + 1 = k
      BY <1>1, <2>1, <2>3
    <3>2. t[k - 1] = s[k]
      BY <1>11, <3>1
    <3> QED BY <1>10, <3>1, <3>2
  <2> QED BY <1>1, <1>13, <2>1, <2>2, <2>3
<1> QED BY <1>10, <1>12, <1>13

-----------------------------------------------------------------------------
(* The publisher.  None of its properties is inductive.  That a post in     *)
(* hand is counted once rests on Cardinality; that a published job is not   *)
(* posted again rests on what a request that is alone with its job knows of *)
(* the job's row (Knows).                                                  *)
InHand(j) == {r \in Requests : PostInHand(r, j)}

(* Two requests on one job have been noticed.                              *)
OverlapsAreNoted ==
  \A j \in Jobs : \A r, q \in Requests :
    WorksOn(r, j) /\ WorksOn(q, j) /\ r # q => j \in overlaps

(* What a request has at hand, and what the row says while it is alone.    *)
Knows(r) ==
  LET q == request[r]
      j == q.job IN
  /\ q.at \in {"recording", "receipting"} => q.outcome \in Statuses
  /\ q.outcome = "published" => posts[j] > 0
  /\ q.at = "posted" => q.post
  /\ q.at \in {"queueing", "calling"} => ~q.post
  /\ q.post => posts[j] > 0 /\ q.at \in {"posted", "recording", "receipting"}
  /\ q.post /\ q.at \in {"recording", "receipting"} => q.outcome = "published"
  /\ j \notin overlaps /\ q.at = "receipting" => status[j] = q.outcome
  /\ j \notin overlaps /\ q.at # "receipting" => status[j] # "published"

RequestsKnow == \A r \in Requests : request[r] # Idle => Knows(r)

(* A row that a receipt says is published says so itself.                  *)
ReceiptsAreBacked ==
  \A j \in Jobs : j \notin overlaps /\ receipts[j] > 0 => status[j] = "published"

IInv ==
  /\ TypeOK
  /\ PostsAreAccountedFor
  /\ OverlapsAreNoted
  /\ RequestsKnow
  /\ PublishedIsTrue
  /\ ReceiptsAreBacked
  /\ SequentiallyIdempotent
-----------------------------------------------------------------------------
(* How a request starts.                                                   *)
Starts(r, j, place, outcome) ==
  /\ Begin(r, j, place, outcome)
  /\ \/ place = "receipting" /\ outcome \in Statuses /\ outcome = status[j]
     \/ place = "queueing" /\ outcome = "queued" /\ status[j] # "published"
     \/ place = "recording" /\ outcome = "blocked" /\ status[j] # "published"
     \/ place = "calling" /\ outcome = "none" /\ status[j] # "published"

Step(r) ==
  \/ \E j \in Jobs, place \in Places, outcome \in Statuses \cup {"none"} :
       Starts(r, j, place, outcome)
  \/ QueueWrite(r) \/ CallFails(r) \/ CallPosts(r) \/ CallReturns(r) \/ AnswerLost(r)
  \/ Record(r) \/ WriteReceipt(r) \/ Abandon(r)

(* Every action is a Step of a request: the case split of each step below.  *)
LEMMA NextCases ==
  ASSUME Next
  PROVE  \E r \in Requests : Step(r)
<1>1. PICK r \in Requests :
        \/ \E j \in Jobs : Queue(r, j) \/ Publish(r, j)
        \/ QueueWrite(r) \/ CallFails(r) \/ CallPosts(r) \/ CallReturns(r) \/ AnswerLost(r)
        \/ Record(r) \/ WriteReceipt(r) \/ Abandon(r)
  BY DEF Next
<1>2. ASSUME NEW j \in Jobs, Queue(r, j)
      PROVE  \E place \in Places, outcome \in Statuses \cup {"none"} : Starts(r, j, place, outcome)
  <2>1. CASE status[j] \in {"queued", "published"}
    BY <1>2, <2>1 DEF Queue, Starts, Places, Statuses
  <2>2. CASE status[j] \notin {"queued", "published"}
    BY <1>2, <2>2 DEF Queue, Starts, Places, Statuses
  <2> QED BY <2>1, <2>2
<1>3. ASSUME NEW j \in Jobs, Publish(r, j)
      PROVE  \E place \in Places, outcome \in Statuses \cup {"none"} : Starts(r, j, place, outcome)
  <2>1. CASE status[j] = "published"
    BY <1>3, <2>1 DEF Publish, Starts, Places, Statuses
  <2>2. CASE status[j] # "published" /\ j \in Unregistered
    BY <1>3, <2>2 DEF Publish, Starts, Places, Statuses
  <2>3. CASE status[j] # "published" /\ j \notin Unregistered
    BY <1>3, <2>3 DEF Publish, Starts, Places, Statuses
  <2> QED BY <2>1, <2>2, <2>3
<1> QED BY <1>1, <1>2, <1>3 DEF Step

(* The posts in hand of a job are counted by a natural number, which grows  *)
(* by one with one more and shrinks by one with one less.                  *)
LEMMA HandGrows ==
  ASSUME IsFiniteSet(Requests), NEW S \in SUBSET Requests, NEW r \in Requests, r \notin S
  PROVE  Cardinality(S \cup {r}) = Cardinality(S) + 1 /\ Cardinality(S) \in Nat
<1>1. IsFiniteSet(S)
  BY FS_Subset
<1> QED BY <1>1, FS_AddElement, FS_CardinalityType

LEMMA HandShrinks ==
  ASSUME IsFiniteSet(Requests), NEW S \in SUBSET Requests, NEW r \in S
  PROVE  Cardinality(S) = Cardinality(S \ {r}) + 1 /\ Cardinality(S \ {r}) \in Nat
<1>1. IsFiniteSet(S \ {r})
  BY FS_Subset
<1>2. (S \ {r}) \cup {r} = S /\ r \notin S \ {r}
  OBVIOUS
<1> QED BY <1>1, <1>2, FS_AddElement, FS_CardinalityType
-----------------------------------------------------------------------------
(* A request that leaves its Idle state is a Request.                      *)
LEMMA RequestTyped ==
  ASSUME TypeOK, NEW r \in Requests, request[r] # Idle
  PROVE  request[r] \in Request /\ request[r].job \in Jobs
  BY DEF TypeOK, Request

LEMMA PlaceTyped ==
  ASSUME TypeOK, NEW r \in Requests, request[r].at # "idle"
  PROVE  request[r] # Idle
  BY DEF Idle

OnlyMoves(r) == \A q \in Requests \ {r} : request'[q] = request[q]

(* Only the request that steps enters or leaves the hand of a job.         *)
LEMMA HandStays ==
  ASSUME TypeOK, NEW r \in Requests, NEW j \in Jobs, OnlyMoves(r),
         PostInHand(r, j)' <=> PostInHand(r, j)
  PROVE  InHand(j)' = InHand(j)
  BY DEF OnlyMoves, InHand, PostInHand, WorksOn

LEMMA HandEnters ==
  ASSUME TypeOK, NEW r \in Requests, NEW j \in Jobs, OnlyMoves(r),
         PostInHand(r, j)', ~PostInHand(r, j)
  PROVE  InHand(j)' = InHand(j) \cup {r} /\ r \notin InHand(j)
  BY DEF OnlyMoves, InHand, PostInHand, WorksOn

LEMMA HandLeaves ==
  ASSUME TypeOK, NEW r \in Requests, NEW j \in Jobs, OnlyMoves(r),
         ~PostInHand(r, j)', PostInHand(r, j)
  PROVE  InHand(j)' = InHand(j) \ {r} /\ r \in InHand(j)
  BY DEF OnlyMoves, InHand, PostInHand, WorksOn

(* A post is accounted for through every step of the request r.            *)
LEMMA AccountStep ==
  ASSUME IsFiniteSet(Requests), IInv, Next
  PROVE  PostsAreAccountedFor'
<1> USE DEF IInv
<1>1. SUFFICES ASSUME NEW j \in Jobs
               PROVE  posts'[j] = receipts'[j] + lost'[j] + Cardinality(InHand(j)')
  BY DEF PostsAreAccountedFor, InHand
<1>2. /\ posts[j] = receipts[j] + lost[j] + Cardinality(InHand(j))
      /\ posts[j] \in Nat /\ receipts[j] \in Nat /\ lost[j] \in Nat
  BY DEF PostsAreAccountedFor, InHand, TypeOK
<1>3. InHand(j) \in SUBSET Requests
  BY DEF InHand
<1>4. Cardinality(InHand(j)) \in Nat
  BY <1>3, FS_Subset, FS_CardinalityType
<1>5. PICK r \in Requests : Step(r)
  BY NextCases
<1>0. OnlyMoves(r)
  BY <1>5 DEF Step, OnlyMoves, TypeOK, Starts, Begin, QueueWrite, CallFails, CallPosts, CallReturns,
              AnswerLost, Record, WriteReceipt, Abandon, Becomes
<1>6. ASSUME PostInHand(r, j)' <=> PostInHand(r, j), UNCHANGED <<posts, receipts, lost>>
      PROVE  posts'[j] = receipts'[j] + lost'[j] + Cardinality(InHand(j)')
  BY <1>0, <1>2, <1>6, HandStays
<1>7. ASSUME NEW k \in Jobs, NEW place \in Places, NEW outcome \in Statuses \cup {"none"},
             Starts(r, k, place, outcome)
      PROVE  posts'[j] = receipts'[j] + lost'[j] + Cardinality(InHand(j)')
  BY <1>6, <1>7 DEF Starts, Begin, PostInHand, WorksOn, TypeOK
<1>8. ASSUME QueueWrite(r) \/ CallFails(r) \/ CallReturns(r) \/ Record(r)
      PROVE  posts'[j] = receipts'[j] + lost'[j] + Cardinality(InHand(j)')
  <2>1. request[r] # Idle /\ request[r] \in Request
    BY <1>8, RequestTyped DEF QueueWrite, CallFails, CallReturns, Record, Idle
  <2>2. PICK place \in Places, outcome \in Statuses \cup {"none"} : Becomes(r, place, outcome)
    BY <1>8, <2>1 DEF QueueWrite, CallFails, CallReturns, Record, Places, Statuses, Request
  <2>3. PostInHand(r, j)' <=> PostInHand(r, j)
    BY <2>1, <2>2 DEF Becomes, PostInHand, WorksOn, Request, Idle, TypeOK, Places
  <2>4. UNCHANGED <<posts, receipts, lost>>
    BY <1>8 DEF QueueWrite, CallFails, CallReturns, Record
  <2> QED BY <1>6, <2>2, <2>3, <2>4 DEF Becomes
<1>9. ASSUME CallPosts(r)
      PROVE  posts'[j] = receipts'[j] + lost'[j] + Cardinality(InHand(j)')
  <2>1. request[r] \in Request /\ request[r] # Idle /\ ~request[r].post
    BY <1>9, RequestTyped DEF CallPosts, Idle, RequestsKnow, Knows
  <2>2. CASE request[r].job = j
    <3>1. PostInHand(r, j)' /\ ~PostInHand(r, j)
      BY <1>9, <2>1, <2>2 DEF CallPosts, PostInHand, WorksOn, Request, Idle, TypeOK
    <3>2. Cardinality(InHand(j)') = Cardinality(InHand(j)) + 1
      BY <1>0, <1>3, <3>1, HandEnters, HandGrows
    <3>3. posts'[j] = posts[j] + 1
      BY <1>9, <2>2 DEF CallPosts, TypeOK
    <3> QED BY <1>2, <1>4, <1>9, <3>2, <3>3 DEF CallPosts
  <2>3. CASE request[r].job # j
    <3>1. PostInHand(r, j)' <=> PostInHand(r, j)
      BY <1>9, <2>1, <2>3 DEF CallPosts, PostInHand, WorksOn, Request, Idle, TypeOK
    <3>2. InHand(j)' = InHand(j)
      BY <1>0, <3>1, HandStays
    <3> QED BY <1>2, <1>9, <2>3, <3>2 DEF CallPosts, TypeOK
  <2> QED BY <2>2, <2>3
<1>10. ASSUME PostInHand(r, j), ~PostInHand(r, j)', posts' = posts,
              receipts'[j] + lost'[j] = receipts[j] + lost[j] + 1, receipts'[j] \in Nat, lost'[j] \in Nat
       PROVE  posts'[j] = receipts'[j] + lost'[j] + Cardinality(InHand(j)')
  <2>1. InHand(j)' = InHand(j) \ {r} /\ r \in InHand(j)
    BY <1>0, <1>10, HandLeaves
  <2>2. Cardinality(InHand(j)) = Cardinality(InHand(j)') + 1 /\ Cardinality(InHand(j)') \in Nat
    BY <1>3, <2>1, HandShrinks
  <2> QED BY <1>2, <1>10, <2>2
<1>11. ASSUME AnswerLost(r)
       PROVE  posts'[j] = receipts'[j] + lost'[j] + Cardinality(InHand(j)')
  <2>1. request[r] \in Request /\ request[r] # Idle /\ request[r].post
    BY <1>11, RequestTyped DEF AnswerLost, Idle, RequestsKnow, Knows
  <2>2. ~PostInHand(r, j)'
    BY <1>11 DEF AnswerLost, PostInHand, WorksOn, TypeOK, Request, Idle
  <2>3. CASE request[r].job = j
    <3>1. PostInHand(r, j) /\ posts' = posts
      BY <1>11, <2>1, <2>3 DEF AnswerLost, PostInHand, WorksOn
    <3>2. /\ receipts'[j] + lost'[j] = receipts[j] + lost[j] + 1
          /\ receipts'[j] \in Nat /\ lost'[j] \in Nat
      BY <1>2, <1>11, <2>3 DEF AnswerLost, TypeOK
    <3> QED BY <1>10, <2>2, <3>1, <3>2
  <2>4. CASE request[r].job # j
    <3>1. InHand(j)' = InHand(j)
      BY <1>0, <2>2, <2>4, HandStays DEF PostInHand, WorksOn
    <3> QED BY <1>2, <1>11, <2>4, <3>1 DEF AnswerLost, TypeOK
  <2> QED BY <2>3, <2>4
<1>12. ASSUME WriteReceipt(r) \/ Abandon(r)
       PROVE  posts'[j] = receipts'[j] + lost'[j] + Cardinality(InHand(j)')
  <2>1. request[r] # Idle /\ request[r] \in Request /\ request' = [request EXCEPT ![r] = Idle]
    BY <1>12, RequestTyped DEF WriteReceipt, Abandon, Idle
  <2>2. ~PostInHand(r, j)'
    BY <2>1 DEF PostInHand, WorksOn, TypeOK
  <2>3. CASE request[r].job = j /\ request[r].post
    <3>1. PostInHand(r, j)
      BY <2>1, <2>3 DEF PostInHand, WorksOn
    <3>2. /\ receipts'[j] + lost'[j] = receipts[j] + lost[j] + 1
          /\ receipts'[j] \in Nat /\ lost'[j] \in Nat /\ posts' = posts
      BY <1>2, <1>12, <2>3 DEF WriteReceipt, Abandon, TypeOK
    <3> QED BY <1>10, <2>1, <2>2, <3>1, <3>2
  <2>4. CASE ~(request[r].job = j /\ request[r].post)
    <3>1. InHand(j)' = InHand(j)
      BY <1>0, <2>1, <2>2, <2>4, HandStays DEF PostInHand, WorksOn
    <3>2. receipts'[j] = receipts[j] /\ lost'[j] = lost[j] /\ posts' = posts
      BY <1>12, <2>4 DEF WriteReceipt, Abandon, TypeOK
    <3> QED BY <1>2, <3>1, <3>2
  <2> QED BY <2>3, <2>4
<1> QED BY <1>5, <1>7, <1>8, <1>9, <1>11, <1>12 DEF Step

(* ... also the place and the outcome of a request under way.              *)
LEMMA BecomesTyped ==
  ASSUME TypeOK, NEW r \in Requests, request[r] # Idle,
         NEW place \in Places, NEW outcome \in Statuses \cup {"none"}, Becomes(r, place, outcome)
  PROVE  request' \in [Requests -> {Idle} \cup Request]
<1>1. request[r] \in Request
  BY RequestTyped
<1>2. [request[r] EXCEPT !.at = place, !.outcome = outcome] \in Request
  BY <1>1 DEF Request
<1>3. request' = [request EXCEPT ![r] = [request[r] EXCEPT !.at = place, !.outcome = outcome]]
  BY <1>1 DEF Becomes, TypeOK, Request
<1> QED BY <1>2, <1>3 DEF TypeOK

RestTyped ==
  /\ status \in [Jobs -> Statuses \cup {"absent"}]
  /\ claims \in [Jobs -> SUBSET Statuses]
  /\ request \in [Requests -> {Idle} \cup Request]
  /\ overlaps \subseteq Jobs

(* Every variable keeps its type: no count exceeds that of the posts.      *)
LEMMA TypeStep ==
  ASSUME IsFiniteSet(Requests), MaxPosts \in Nat, IInv, Next
  PROVE  TypeOK'
<1> USE DEF IInv
<1>1. PICK r \in Requests : Step(r)
  BY NextCases
<1>2. posts' \in [Jobs -> 0..MaxPosts]
  <2>1. CASE CallPosts(r)
    BY <2>1, RequestTyped DEF CallPosts, TypeOK, Idle
  <2>2. CASE ~CallPosts(r)
    BY <1>1, <2>2 DEF Step, Starts, Begin, QueueWrite, CallFails, CallReturns, AnswerLost, Record,
                      WriteReceipt, Abandon, TypeOK
  <2> QED BY <2>1, <2>2
<1>3. receipts' \in [Jobs -> Nat] /\ lost' \in [Jobs -> Nat]
  BY <1>1 DEF Step, Starts, Begin, QueueWrite, CallFails, CallPosts, CallReturns, AnswerLost, Record,
              WriteReceipt, Abandon, TypeOK
<1>4. \A j \in Jobs : receipts'[j] \in 0..MaxPosts /\ lost'[j] \in 0..MaxPosts
  <2> SUFFICES ASSUME NEW j \in Jobs
               PROVE  receipts'[j] \in 0..MaxPosts /\ lost'[j] \in 0..MaxPosts
    OBVIOUS
  <2>1. posts'[j] = receipts'[j] + lost'[j] + Cardinality(InHand(j)')
    BY AccountStep DEF PostsAreAccountedFor, InHand
  <2>2. Cardinality(InHand(j)') \in Nat
    BY FS_Subset, FS_CardinalityType DEF InHand
  <2> QED BY <1>2, <1>3, <2>1, <2>2
<1>5. receipts' \in [Jobs -> 0..MaxPosts] /\ lost' \in [Jobs -> 0..MaxPosts]
  BY <1>3, <1>4
<1>6. RestTyped'
  <2>1. ASSUME NEW j \in Jobs, NEW place \in Places, NEW outcome \in Statuses \cup {"none"},
               Starts(r, j, place, outcome)
        PROVE  RestTyped'
    <3> DEFINE begun == [at |-> place, job |-> j, outcome |-> outcome, post |-> FALSE]
    <3>1. begun \in Request
      BY DEF Request
    <3>2. request' = [request EXCEPT ![r] = begun] /\ UNCHANGED <<status, claims>>
      BY <2>1 DEF Starts, Begin
    <3>3. overlaps' \subseteq Jobs
      BY <2>1 DEF Starts, Begin, TypeOK
    <3> HIDE DEF begun
    <3> QED BY <3>1, <3>2, <3>3 DEF TypeOK, RestTyped
  <2>2. CASE QueueWrite(r)
    <3>1. request[r] # Idle
      BY <2>2 DEF QueueWrite, Idle
    <3>2. request' \in [Requests -> {Idle} \cup Request]
      BY <2>2, <3>1, BecomesTyped DEF QueueWrite, Places, Statuses
    <3> QED BY <2>2, <3>1, <3>2, RequestTyped DEF QueueWrite, TypeOK, RestTyped, Statuses
  <2>3. CASE CallFails(r) \/ CallPosts(r) \/ CallReturns(r) \/ AnswerLost(r)
    <3>1. request[r] # Idle
      BY <2>3 DEF CallFails, CallPosts, CallReturns, AnswerLost, Idle
    <3>2. request[r] \in Request
      BY <3>1, RequestTyped
    <3>3. CASE CallFails(r) \/ CallReturns(r)
      BY <3>1, <3>3, BecomesTyped DEF CallFails, CallReturns, TypeOK, RestTyped, Places, Statuses
    <3>4. CASE CallPosts(r)
      <4>1. [request[r] EXCEPT !.at = "posted", !.post = TRUE] \in Request
        BY <3>2 DEF Request, Places
      <4>2. request' = [request EXCEPT ![r] = [request[r] EXCEPT !.at = "posted", !.post = TRUE]]
        BY <3>2, <3>4 DEF CallPosts, TypeOK, Request
      <4> QED BY <3>4, <4>1, <4>2 DEF CallPosts, TypeOK, RestTyped
    <3>5. CASE AnswerLost(r)
      <4>1. [request[r] EXCEPT !.at = "recording", !.outcome = "failed", !.post = FALSE] \in Request
        BY <3>2 DEF Request, Places, Statuses
      <4>2. request' = [request EXCEPT ![r] =
              [request[r] EXCEPT !.at = "recording", !.outcome = "failed", !.post = FALSE]]
        BY <3>2, <3>5 DEF AnswerLost, TypeOK, Request
      <4> QED BY <3>5, <4>1, <4>2 DEF AnswerLost, TypeOK, RestTyped
    <3> QED BY <2>3, <3>3, <3>4, <3>5
  <2>4. CASE Record(r)
    <3>1. request[r].outcome \in Statuses
      BY <2>4, RequestTyped, PlaceTyped DEF Record, RequestsKnow, Knows, Request
    <3>2. request[r] # Idle
      BY <2>4 DEF Record, Idle
    <3>3. request' \in [Requests -> {Idle} \cup Request]
      BY <2>4, <3>1, <3>2, BecomesTyped DEF Record, Places
    <3> QED BY <2>4, <3>1, <3>2, <3>3, RequestTyped DEF Record, TypeOK, RestTyped
  <2>5. CASE WriteReceipt(r) \/ Abandon(r)
    <3>1. WriteReceipt(r) => request[r].outcome \in Statuses
      BY RequestTyped, PlaceTyped DEF WriteReceipt, RequestsKnow, Knows, Request
    <3> QED BY <2>5, <3>1, RequestTyped, PlaceTyped DEF WriteReceipt, Abandon, TypeOK, RestTyped
  <2> QED BY <1>1, <2>1, <2>2, <2>3, <2>4, <2>5 DEF Step
<1> QED BY <1>2, <1>5, <1>6 DEF TypeOK, RestTyped
-----------------------------------------------------------------------------
(* What a step of the request r leaves alone, and what only grows.         *)
Frame(r) ==
  /\ OnlyMoves(r)
  /\ overlaps \subseteq overlaps'
  /\ \A k \in Jobs :
       /\ posts[k] <= posts'[k] /\ lost[k] <= lost'[k]
       /\ ~WorksOn(r, k) =>
            /\ status'[k] = status[k] /\ claims'[k] = claims[k]
            /\ receipts'[k] = receipts[k] /\ posts'[k] = posts[k]

LEMMA StepFrame ==
  ASSUME TypeOK, NEW r \in Requests, Step(r)
  PROVE  Frame(r)
<1>1. OnlyMoves(r)
  BY DEF Step, OnlyMoves, TypeOK, Starts, Begin, QueueWrite, CallFails, CallPosts, CallReturns,
         AnswerLost, Record, WriteReceipt, Abandon, Becomes
<1>2. overlaps \subseteq overlaps'
  BY DEF Step, Starts, Begin, QueueWrite, CallFails, CallPosts, CallReturns,
         AnswerLost, Record, WriteReceipt, Abandon
<1>3. ASSUME NEW k \in Jobs
      PROVE  posts[k] <= posts'[k] /\ lost[k] <= lost'[k]
  BY DEF Step, TypeOK, Starts, Begin, QueueWrite, CallFails, CallPosts, CallReturns,
         AnswerLost, Record, WriteReceipt, Abandon
<1>4. ASSUME NEW k \in Jobs, ~WorksOn(r, k)
      PROVE  /\ status'[k] = status[k] /\ claims'[k] = claims[k]
             /\ receipts'[k] = receipts[k] /\ posts'[k] = posts[k]
  <2>1. request[r] # Idle => request[r].job # k
    BY <1>4 DEF WorksOn
  <2>2. CASE request[r] # Idle
    BY <2>1, <2>2 DEF Step, TypeOK, Starts, Begin, QueueWrite, CallFails, CallPosts, CallReturns,
         AnswerLost, Record, WriteReceipt, Abandon
  <2>3. CASE request[r] = Idle
    BY <2>3 DEF Idle, Step, Starts, Begin, QueueWrite, CallFails, CallPosts, CallReturns,
         AnswerLost, Record, WriteReceipt, Abandon
  <2> QED BY <2>2, <2>3
<1> QED BY <1>1, <1>2, <1>3, <1>4 DEF Frame

(* Whoever works on the job of r is r itself, or the overlap is noted.     *)
LEMMA OverlapsStep ==
  ASSUME IInv, NEW r \in Requests, Step(r)
  PROVE  OverlapsAreNoted'
<1> USE DEF IInv
<1>1. Frame(r)
  BY StepFrame
<1>2. SUFFICES ASSUME NEW j \in Jobs, NEW q \in Requests, q # r, WorksOn(q, j)', WorksOn(r, j)'
               PROVE  j \in overlaps'
  BY <1>1 DEF OverlapsAreNoted, WorksOn, Frame, OnlyMoves
<1>3. WorksOn(q, j)
  BY <1>1, <1>2 DEF Frame, OnlyMoves, WorksOn
<1>4. CASE WorksOn(r, j)
  BY <1>1, <1>2, <1>3, <1>4 DEF OverlapsAreNoted, Frame
<1>5. CASE ~WorksOn(r, j)
  <2>1. ASSUME NEW k \in Jobs, NEW place \in Places, NEW outcome, Starts(r, k, place, outcome)
        PROVE  j \in overlaps'
    BY <1>2, <1>3, <2>1 DEF Starts, Begin, WorksOn, TypeOK
  <2>2. ASSUME NEW place, NEW outcome, Becomes(r, place, outcome), request[r] \in Request, request[r] # Idle
        PROVE  FALSE
    BY <1>2, <1>5, <2>2 DEF Becomes, WorksOn, TypeOK, Request
  <2>3. CASE QueueWrite(r) \/ CallFails(r) \/ CallReturns(r) \/ Record(r)
    BY <2>2, <2>3, RequestTyped, PlaceTyped DEF QueueWrite, CallFails, CallReturns, Record
  <2>4. CASE CallPosts(r) \/ AnswerLost(r)
    BY <1>2, <1>5, <2>4, RequestTyped, PlaceTyped DEF CallPosts, AnswerLost, WorksOn, TypeOK, Request
  <2>5. CASE WriteReceipt(r) \/ Abandon(r)
    BY <1>2, <2>5 DEF WriteReceipt, Abandon, WorksOn, TypeOK
  <2> QED BY <2>1, <2>3, <2>4, <2>5 DEF Step
<1> QED BY <1>4, <1>5

(* A request that another one's step changed the row of is not alone.      *)
LEMMA OthersKnow ==
  ASSUME IInv, NEW r \in Requests, Step(r), NEW q \in Requests, q # r, request'[q] # Idle
  PROVE  Knows(q)'
<1> USE DEF IInv
<1>1. Frame(r)
  BY StepFrame
<1>2. request'[q] = request[q]
  BY <1>1 DEF Frame, OnlyMoves
<1>3. PICK k \in Jobs : request[q].job = k /\ WorksOn(q, k)
  BY <1>2, RequestTyped DEF WorksOn
<1>4. posts[k] <= posts'[k] /\ posts[k] \in Nat /\ posts'[k] \in Nat
  <2>1. posts'[k] \in Nat
    BY DEF Step, TypeOK, Starts, Begin, QueueWrite, CallFails, CallPosts, CallReturns,
           AnswerLost, Record, WriteReceipt, Abandon
  <2> QED BY <1>1, <2>1 DEF Frame, TypeOK
<1>5. k \notin overlaps' => status'[k] = status[k] /\ k \notin overlaps
  BY <1>1, <1>3 DEF Frame, OverlapsAreNoted
<1>6. Knows(q)
  BY <1>2 DEF RequestsKnow
<1> QED BY <1>2, <1>3, <1>4, <1>5, <1>6 DEF Knows

(* A request that steps knows of its job's row what it just read or wrote.  *)
LEMMA OneselfKnows ==
  ASSUME IInv, NEW r \in Requests, Step(r), request'[r] # Idle
  PROVE  Knows(r)'
<1> USE DEF IInv
<1>1. ASSUME NEW j \in Jobs, NEW place \in Places, NEW outcome \in Statuses \cup {"none"},
             Starts(r, j, place, outcome)
      PROVE  Knows(r)'
  <2>1. request'[r] = [at |-> place, job |-> j, outcome |-> outcome, post |-> FALSE]
    BY <1>1 DEF Starts, Begin, TypeOK
  <2>2. UNCHANGED <<status, posts>>
    BY <1>1 DEF Starts, Begin
  <2>3. outcome = "published" => posts[j] > 0
    BY <1>1 DEF Starts, PublishedIsTrue
  <2> QED BY <1>1, <2>1, <2>2, <2>3 DEF Starts, Knows, Statuses, Places
<1>2. ASSUME request[r] # Idle, ~(\E j \in Jobs, place \in Places, outcome \in Statuses \cup {"none"} :
                                    Starts(r, j, place, outcome))
      PROVE  Knows(r)'
  <2>1. PICK j \in Jobs : request[r].job = j
    BY <1>2, RequestTyped
  <2>2. Knows(r) /\ request[r] \in Request
    BY <1>2, RequestTyped DEF RequestsKnow
  <2>3. CASE QueueWrite(r)
    BY <2>1, <2>2, <2>3 DEF QueueWrite, Becomes, Knows, TypeOK, Request, Statuses
  <2>4. CASE CallFails(r) \/ CallReturns(r)
    BY <2>1, <2>2, <2>4 DEF CallFails, CallReturns, Becomes, Knows, TypeOK, Request, Statuses
  <2>5. CASE CallPosts(r)
    BY <2>1, <2>2, <2>5 DEF CallPosts, Knows, TypeOK, Request
  <2>6. CASE AnswerLost(r)
    BY <2>1, <2>2, <2>6 DEF AnswerLost, Knows, TypeOK, Request, Statuses
  <2>7. CASE Record(r)
    BY <2>1, <2>2, <2>7 DEF Record, Becomes, Knows, TypeOK, Request
  <2>8. CASE WriteReceipt(r) \/ Abandon(r)
    BY <2>8 DEF WriteReceipt, Abandon, TypeOK
  <2> QED BY <1>2, <2>3, <2>4, <2>5, <2>6, <2>7, <2>8 DEF Step
<1>3. request[r] = Idle => \E j \in Jobs, place \in Places, outcome \in Statuses \cup {"none"} :
                             Starts(r, j, place, outcome)
  BY DEF Step, Idle, QueueWrite, CallFails, CallPosts, CallReturns, AnswerLost, Record, WriteReceipt,
         Abandon
<1> QED BY <1>1, <1>2, <1>3

(* The row and the receipts of a job change only as its request knows.     *)
LEMMA JobsStep ==
  ASSUME IInv, NEW r \in Requests, Step(r)
  PROVE  PublishedIsTrue' /\ ReceiptsAreBacked'
<1> USE DEF IInv
<1>1. Frame(r)
  BY StepFrame
<1>2. SUFFICES ASSUME NEW j \in Jobs
      PROVE  /\ status'[j] = "published" \/ "published" \in claims'[j] => posts'[j] > 0
             /\ "published" \in claims'[j] /\ j \notin overlaps' => status'[j] = "published"
             /\ j \notin overlaps' /\ receipts'[j] > 0 => status'[j] = "published"
  BY DEF PublishedIsTrue, ReceiptsAreBacked
<1>3. /\ status[j] = "published" \/ "published" \in claims[j] => posts[j] > 0
      /\ "published" \in claims[j] /\ j \notin overlaps => status[j] = "published"
      /\ j \notin overlaps /\ receipts[j] > 0 => status[j] = "published"
      /\ j \notin overlaps' => j \notin overlaps
      /\ posts[j] > 0 => posts'[j] > 0
  <2>1. posts[j] \in Nat /\ posts'[j] \in Nat
    BY DEF Step, TypeOK, Starts, Begin, QueueWrite, CallFails, CallPosts, CallReturns,
           AnswerLost, Record, WriteReceipt, Abandon
  <2> QED BY <1>1, <2>1 DEF PublishedIsTrue, ReceiptsAreBacked, Frame
<1>4. CASE ~WorksOn(r, j)
  BY <1>1, <1>3, <1>4 DEF Frame
<1>5. CASE WorksOn(r, j)
  <2>1. Knows(r) /\ request[r] # Idle /\ request[r].job = j /\ request[r] \in Request
    BY <1>5, RequestTyped DEF RequestsKnow, WorksOn
  <2>2. CASE QueueWrite(r)
    BY <1>3, <2>1, <2>2 DEF QueueWrite, Knows, TypeOK
  <2>3. CASE Record(r)
    BY <1>3, <2>1, <2>3 DEF Record, Knows, TypeOK
  <2>4. CASE WriteReceipt(r)
    BY <1>3, <2>1, <2>4 DEF WriteReceipt, Knows, TypeOK
  <2>5. CASE ~QueueWrite(r) /\ ~Record(r) /\ ~WriteReceipt(r)
    <3>1. UNCHANGED <<status, claims, receipts>>
      BY <2>1, <2>5 DEF Step, Starts, Begin, CallFails, CallPosts, CallReturns, AnswerLost, Abandon
    <3> QED BY <1>3, <3>1
  <2> QED BY <2>2, <2>3, <2>4, <2>5
<1> QED BY <1>4, <1>5

(* The provider is called for a job that was not posted, but for overlaps   *)
(* and lost posts.                                                         *)
LEMMA IdempotentStep ==
  ASSUME IsFiniteSet(Requests), IInv, NEW r \in Requests, Step(r)
  PROVE  SequentiallyIdempotent'
<1> USE DEF IInv
<1>1. Frame(r)
  BY StepFrame
<1>2. SUFFICES ASSUME NEW j \in Jobs, j \notin overlaps', lost'[j] = 0
               PROVE  posts'[j] <= 1
  BY DEF SequentiallyIdempotent
<1>3. j \notin overlaps /\ lost[j] = 0 /\ posts[j] <= 1
  <2>1. lost[j] \in Nat /\ lost[j] <= lost'[j]
    BY <1>1 DEF Frame, TypeOK
  <2> QED BY <1>1, <1>2, <2>1 DEF Frame, SequentiallyIdempotent
<1>4. CASE CallPosts(r) /\ request[r].job = j
  <2>1. Knows(r) /\ request[r] # Idle /\ ~request[r].post
    BY <1>4, PlaceTyped DEF CallPosts, RequestsKnow, Knows
  <2>2. receipts[j] = 0
    BY <1>3, <1>4, <2>1 DEF CallPosts, Knows, ReceiptsAreBacked, TypeOK
  <2>3. \A q \in Requests : ~PostInHand(q, j)
    BY <1>3, <1>4, <2>1 DEF PostInHand, WorksOn, OverlapsAreNoted
  <2>4. Cardinality({q \in Requests : PostInHand(q, j)}) = 0
    <3>1. {q \in Requests : PostInHand(q, j)} = {}
      BY <2>3
    <3> QED BY <3>1, FS_EmptySet
  <2>5. posts[j] = 0
    BY <1>3, <2>2, <2>4 DEF PostsAreAccountedFor
  <2> QED BY <1>4, <2>5 DEF CallPosts, TypeOK
<1>5. CASE ~(CallPosts(r) /\ request[r].job = j)
  <2>1. posts'[j] = posts[j]
    BY <1>5 DEF Step, TypeOK, Starts, Begin, QueueWrite, CallFails, CallPosts, CallReturns,
           AnswerLost, Record, WriteReceipt, Abandon
  <2> QED BY <1>3, <2>1
<1> QED BY <1>4, <1>5

(* The invariant holds at the start and is kept by every step.             *)
LEMMA Invariance ==
  ASSUME IsFiniteSet(Requests), MaxPosts \in Nat
  PROVE  Spec => []IInv
<1>1. Init => IInv
  <2> SUFFICES ASSUME Init PROVE IInv
    OBVIOUS
  <2>1. TypeOK /\ OverlapsAreNoted /\ RequestsKnow /\ PublishedIsTrue /\ ReceiptsAreBacked
        /\ SequentiallyIdempotent
    BY DEF Init, TypeOK, OverlapsAreNoted, WorksOn, RequestsKnow, PublishedIsTrue, ReceiptsAreBacked,
           SequentiallyIdempotent
  <2>2. ASSUME NEW j \in Jobs
        PROVE  Cardinality({r \in Requests : PostInHand(r, j)}) = 0
    <3>1. {r \in Requests : PostInHand(r, j)} = {}
      BY DEF Init, PostInHand, WorksOn
    <3> QED BY <3>1, FS_EmptySet
  <2>3. PostsAreAccountedFor
    BY <2>2 DEF Init, PostsAreAccountedFor
  <2> QED BY <2>1, <2>3 DEF IInv
<1>2. IInv /\ [Next]_vars => IInv'
  <2> SUFFICES ASSUME IInv, [Next]_vars PROVE IInv'
    OBVIOUS
  <2>1. CASE Next
    <3>1. PICK r \in Requests : Step(r)
      BY <2>1, NextCases
    <3>2. TypeOK' /\ PostsAreAccountedFor'
      BY <2>1, TypeStep, AccountStep
    <3>3. RequestsKnow'
      BY <3>1, OneselfKnows, OthersKnow DEF RequestsKnow
    <3> QED BY <3>1, <3>2, <3>3, OverlapsStep, JobsStep, IdempotentStep DEF IInv
  <2>2. CASE UNCHANGED vars
    BY <2>2 DEF vars, IInv, TypeOK, PostsAreAccountedFor, PostInHand, WorksOn, OverlapsAreNoted,
                RequestsKnow, Knows, PublishedIsTrue, ReceiptsAreBacked, SequentiallyIdempotent
  <2> QED BY <2>1, <2>2
<1> QED BY <1>1, <1>2, PTL DEF Spec
-----------------------------------------------------------------------------
(* Every variable keeps its type; the counts stay within the bound.        *)
THEOREM PublisherTypeOK ==
  ASSUME IsFiniteSet(Requests), MaxPosts \in Nat
  PROVE  Spec => []TypeOK
<1>1. IInv => TypeOK
  BY DEF IInv
<1> QED BY <1>1, Invariance, PTL

(* core.py: every post has its id in a receipt, is in hand, or was lost.   *)
THEOREM PublisherPostsAreAccountedFor ==
  ASSUME IsFiniteSet(Requests), MaxPosts \in Nat
  PROVE  Spec => []PostsAreAccountedFor
<1>1. IInv => PostsAreAccountedFor
  BY DEF IInv
<1> QED BY <1>1, Invariance, PTL

(* core.py: "published" is only said of a job that is out.                 *)
THEOREM PublisherPublishedIsTrue ==
  ASSUME IsFiniteSet(Requests), MaxPosts \in Nat
  PROVE  Spec => []PublishedIsTrue
<1>1. IInv => PublishedIsTrue
  BY DEF IInv
<1> QED BY <1>1, Invariance, PTL

(* core.py: publish posts once while requests do not overlap and no post   *)
(* is lost.                                                                *)
THEOREM PublisherSequentiallyIdempotent ==
  ASSUME IsFiniteSet(Requests), MaxPosts \in Nat
  PROVE  Spec => []SequentiallyIdempotent
<1>1. IInv => SequentiallyIdempotent
  BY DEF IInv
<1> QED BY <1>1, Invariance, PTL
-----------------------------------------------------------------------------
(* Fulfillment.                                                            *)
Listing == [pc : {"orders", "rows"}, todo : SUBSET Items]
Serving ==
  [pc : {"submit", "record", "failed", "fulfill", "update"}, todo : SUBSET Items, order : Items]

(* A run that serves an order is between its reservation and               *)
(* the record of its submission.                                           *)
Serves(r, o) == run[r].pc \in {"submit", "record", "failed"} /\ run[r].order = o

Updates(r, o) == run[r].pc = "update" /\ run[r].order = o

(* The reservation makes the run that serves an order the only one, which   *)
(* is what keeps the supplier from being asked twice.                      *)
OneServes ==
  \A r \in Actors, o \in Items : Serves(r, o) =>
    /\ row[o] = "submitting"
    /\ run[r].pc = "submit" => supplied[o] = 0
    /\ run[r].pc = "record" => supplied[o] = 1
    /\ \A s \in Actors : Serves(s, o) => s = r

SuppliedOnce ==
  \A o \in Items :
    /\ supplied[o] <= 1
    /\ row[o] = "none" => supplied[o] = 0
    /\ row[o] \in {"submitted", "fulfilled"} => supplied[o] = 1

(* What a run follows was submitted, and what it fulfils was shipped.      *)
FollowsSubmitted ==
  \A r \in Actors, o \in Items :
    /\ Fulfillment!Follows(r, o) => row[o] \in {"submitted", "fulfilled"}
    /\ run[r].pc \in {"fulfill", "update"} /\ run[r].order = o =>
         o \in shipped /\ o \notin run[r].todo /\ (run[r].pc = "update" => fulfilled[o] > 0)

FulfilledIsTrue ==
  \A o \in Items : row[o] = "fulfilled" => o \in shipped /\ fulfilled[o] > 0

(* One run at most follows an order that is not in doubt, and the shop was  *)
(* told of it only if the table says so or is about to.                    *)
FollowedOnce ==
  \A o \in Items \ doubtful :
    /\ fulfilled[o] <= 1
    /\ fulfilled[o] = 0 \/ row[o] = "fulfilled" \/ \E r \in Actors : Updates(r, o)
    /\ \A r \in Actors : Fulfillment!Follows(r, o) =>
         /\ row[o] = "submitted" /\ (Updates(r, o) \/ fulfilled[o] = 0)
         /\ \A s \in Actors : Fulfillment!Follows(s, o) => s = r

FulfillmentInv ==
  Fulfillment!TypeOK /\ OneServes /\ SuppliedOnce /\ FollowsSubmitted /\ FulfilledIsTrue /\ FollowedOnce

LEMMA RunRow ==
  ASSUME Fulfillment!TypeOK, NEW r \in Actors
  PROVE  /\ run[r] = Fulfillment!Idle \/ run[r] \in Listing \/ run[r] \in Serving
         /\ run[r].pc = "idle" <=> run[r] = Fulfillment!Idle
         /\ run[r].pc \in {"orders", "rows"} <=> run[r] \in Listing
         /\ run[r].pc \in {"submit", "record", "failed", "fulfill", "update"} <=> run[r] \in Serving
BY DEF Fulfillment!TypeOK, Fulfillment!Run, Fulfillment!Idle, Listing, Serving

LEMMA RunBecomes ==
  ASSUME Fulfillment!TypeOK, NEW r \in Actors, NEW x \in {Fulfillment!Idle} \cup Listing \cup Serving,
         Fulfillment!Becomes(r, x)
  PROVE  /\ run' \in [Actors -> Fulfillment!Run]
         /\ run'[r] = x /\ \A s \in Actors \ {r} : run'[s] = run[s]
BY DEF Fulfillment!TypeOK, Fulfillment!Run, Fulfillment!Becomes, Listing, Serving

(* An update of the database and a call, as functions of the order.        *)
LEMMA RowWritten ==
  ASSUME Fulfillment!TypeOK, NEW o \in Items, NEW became \in Fulfillment!Statuses,
         Fulfillment!Records(o, became)
  PROVE  /\ row' \in [Items -> Fulfillment!Statuses]
         /\ row'[o] = became /\ \A p \in Items \ {o} : row'[p] = row[p]
BY DEF Fulfillment!TypeOK, Fulfillment!Records

LEMMA CountRises ==
  ASSUME NEW count \in [Items -> Nat], NEW o \in Items, NEW n \in {0, 1},
         NEW later, later = [count EXCEPT ![o] = @ + n]
  PROVE  /\ later \in [Items -> Nat]
         /\ later[o] = count[o] + n /\ \A p \in Items \ {o} : later[p] = count[p]
OBVIOUS

LEMMA ListRow ==
  ASSUME Fulfillment!TypeOK, NEW r \in Actors, Fulfillment!List(r)
  PROVE  /\ run' \in [Actors -> Fulfillment!Run]
         /\ run[r].pc = "idle" /\ run'[r].pc = "orders"
         /\ \A s \in Actors \ {r} : run'[s] = run[s]
<1> DEFINE x == [pc |-> "orders", todo |-> {o \in Items : order[o] = "paid" /\ fulfilled[o] = 0}]
<1>1. Fulfillment!Becomes(r, x) /\ run[r].pc = "idle"
  BY DEF Fulfillment!List, Fulfillment!Idle
<1>2. x \in Listing /\ x.pc = "orders"
  BY DEF Listing
<1> HIDE DEF x
<1> QED BY <1>1, <1>2, RunBecomes

LEMMA ReserveRow ==
  ASSUME Fulfillment!TypeOK, NEW r \in Actors, NEW o \in Items, NEW mapped \in BOOLEAN,
         Fulfillment!Reserve(r, o, mapped)
  PROVE  /\ run' \in [Actors -> Fulfillment!Run]
         /\ run[r].pc = "orders" /\ \A s \in Actors \ {r} : run'[s] = run[s]
         /\ \/ /\ row[o] = "none" /\ Fulfillment!Records(o, "submitting")
               /\ run'[r].pc = "submit" /\ run'[r].order = o
            \/ UNCHANGED row /\ run'[r].pc = "orders"
<1>1. run[r] \in Listing /\ run[r].pc = "orders"
  BY RunRow DEF Fulfillment!Reserve, Fulfillment!At
<1>2. CASE /\ row[o] = "none" /\ Fulfillment!Records(o, "submitting")
           /\ Fulfillment!Becomes(r, [pc |-> "submit", todo |-> run[r].todo \ {o}, order |-> o])
  <2> DEFINE x == [pc |-> "submit", todo |-> run[r].todo \ {o}, order |-> o]
  <2>1. x \in Serving /\ x.pc = "submit" /\ x.order = o
    BY <1>1 DEF Listing, Serving
  <2>2. Fulfillment!Becomes(r, x)
    BY <1>2
  <2> HIDE DEF x
  <2> QED BY <1>1, <1>2, <2>1, <2>2, RunBecomes
<1>3. CASE Fulfillment!Becomes(r, [run[r] EXCEPT !.todo = @ \ {o}]) /\ UNCHANGED row
  <2> DEFINE x == [run[r] EXCEPT !.todo = @ \ {o}]
  <2>1. x \in Listing /\ x.pc = "orders"
    BY <1>1 DEF Listing
  <2>2. Fulfillment!Becomes(r, x)
    BY <1>3
  <2> HIDE DEF x
  <2> QED BY <1>1, <1>3, <2>1, <2>2, RunBecomes
<1> QED BY <1>2, <1>3 DEF Fulfillment!Reserve, Fulfillment!Reservable

LEMMA SubmitRow ==
  ASSUME Fulfillment!TypeOK, NEW r \in Actors, Fulfillment!Submit(r)
  PROVE  /\ run' \in [Actors -> Fulfillment!Run]
         /\ run[r] \in Serving /\ run[r].pc = "submit" /\ run'[r].order = run[r].order
         /\ \A s \in Actors \ {r} : run'[s] = run[s]
         /\ \E n \in {0, 1} : supplied' = [supplied EXCEPT ![run[r].order] = @ + n]
                              /\ (run'[r].pc = "failed" \/ (run'[r].pc = "record" /\ n = 1))
<1>1. run[r] \in Serving /\ run[r].pc = "submit"
  BY RunRow DEF Fulfillment!Submit, Fulfillment!At
<1>2. PICK pc \in {"record", "failed"}, n \in {0, 1} :
        /\ Fulfillment!Becomes(r, [run[r] EXCEPT !.pc = pc])
        /\ supplied' = [supplied EXCEPT ![run[r].order] = @ + n]
        /\ pc = "record" => n = 1
  BY DEF Fulfillment!Submit, Fulfillment!Call
<1> DEFINE x == [run[r] EXCEPT !.pc = pc]
<1>3. x \in Serving /\ x.pc = pc /\ x.order = run[r].order
  BY <1>1 DEF Serving
<1> HIDE DEF x
<1>4. /\ run' \in [Actors -> Fulfillment!Run]
      /\ run'[r] = x /\ \A s \in Actors \ {r} : run'[s] = run[s]
  BY <1>2, <1>3, RunBecomes DEF x
<1> QED BY <1>1, <1>2, <1>3, <1>4

LEMMA RecordedRow ==
  ASSUME Fulfillment!TypeOK, NEW r \in Actors, Fulfillment!Record(r) \/ Fulfillment!RecordFailure(r)
  PROVE  /\ run' \in [Actors -> Fulfillment!Run]
         /\ run[r] \in Serving /\ run[r].pc \in {"record", "failed"}
         /\ \A s \in Actors \ {r} : run'[s] = run[s]
         /\ \/ /\ run'[r].pc = "orders"
               /\ \/ run[r].pc = "record" /\ Fulfillment!Records(run[r].order, "submitted")
                  \/ run[r].pc = "failed" /\ Fulfillment!Records(run[r].order, "submit_failed")
            \/ run'[r].pc = "failed" /\ run'[r].order = run[r].order /\ UNCHANGED row
            \/ run'[r].pc = "idle" /\ UNCHANGED row
<1>1. run[r] \in Serving /\ run[r].pc \in {"record", "failed"}
  BY RunRow DEF Fulfillment!Record, Fulfillment!RecordFailure, Fulfillment!At
<1>2. CASE /\ Fulfillment!Becomes(r, [pc |-> "orders", todo |-> run[r].todo])
           /\ \/ run[r].pc = "record" /\ Fulfillment!Records(run[r].order, "submitted")
              \/ run[r].pc = "failed" /\ Fulfillment!Records(run[r].order, "submit_failed")
  <2> DEFINE x == [pc |-> "orders", todo |-> run[r].todo]
  <2>1. x \in Listing /\ x.pc = "orders"
    BY <1>1 DEF Listing, Serving
  <2>2. Fulfillment!Becomes(r, x)
    BY <1>2
  <2> HIDE DEF x
  <2> QED BY <1>1, <1>2, <2>1, <2>2, RunBecomes
<1>3. CASE Fulfillment!Becomes(r, [run[r] EXCEPT !.pc = "failed"]) /\ UNCHANGED row
  <2> DEFINE x == [run[r] EXCEPT !.pc = "failed"]
  <2>1. x \in Serving /\ x.pc = "failed" /\ x.order = run[r].order
    BY <1>1 DEF Serving
  <2>2. Fulfillment!Becomes(r, x)
    BY <1>3
  <2> HIDE DEF x
  <2> QED BY <1>1, <1>3, <2>1, <2>2, RunBecomes
<1>4. CASE Fulfillment!Becomes(r, Fulfillment!Idle) /\ UNCHANGED row
  BY <1>1, <1>4, RunBecomes DEF Fulfillment!Idle
<1> QED BY <1>2, <1>3, <1>4 DEF Fulfillment!Record, Fulfillment!RecordFailure, Fulfillment!At

LEMMA CheckRow ==
  ASSUME Fulfillment!TypeOK, NEW r \in Actors, Fulfillment!Check(r)
  PROVE  /\ run' \in [Actors -> Fulfillment!Run]
         /\ run[r].pc = "orders" /\ \A s \in Actors \ {r} : run'[s] = run[s]
         /\ run'[r].pc = "rows" /\ run'[r].todo = Fulfillment!Pending
<1> DEFINE x == [pc |-> "rows", todo |-> Fulfillment!Pending]
<1>1. x \in Listing /\ x.pc = "rows" /\ x.todo = Fulfillment!Pending
  BY DEF Listing, Fulfillment!Pending
<1>2. Fulfillment!Becomes(r, x) /\ run[r].pc = "orders"
  BY DEF Fulfillment!Check, Fulfillment!At
<1> HIDE DEF x
<1> QED BY <1>1, <1>2, RunBecomes

LEMMA TrackRow ==
  ASSUME Fulfillment!TypeOK, NEW r \in Actors, NEW o \in Items, NEW verdict \in BOOLEAN,
         Fulfillment!Track(r, o, verdict)
  PROVE  /\ run' \in [Actors -> Fulfillment!Run]
         /\ run[r].pc = "rows" /\ o \in run[r].todo
         /\ \A s \in Actors \ {r} : run'[s] = run[s]
         /\ run'[r].todo = run[r].todo \ {o}
         /\ \/ run'[r].pc = "rows"
            \/ run'[r].pc = "fulfill" /\ run'[r].order = o /\ o \in shipped
<1>1. run[r] \in Listing /\ run[r].pc = "rows" /\ o \in run[r].todo
  BY RunRow DEF Fulfillment!Track, Fulfillment!At
<1>2. CASE o \in shipped
           /\ Fulfillment!Becomes(r, [pc |-> "fulfill", todo |-> run[r].todo \ {o}, order |-> o])
  <2> DEFINE x == [pc |-> "fulfill", todo |-> run[r].todo \ {o}, order |-> o]
  <2>1. x \in Serving /\ x.pc = "fulfill" /\ x.order = o /\ x.todo = run[r].todo \ {o}
    BY <1>1 DEF Listing, Serving
  <2>2. Fulfillment!Becomes(r, x)
    BY <1>2
  <2> HIDE DEF x
  <2> QED BY <1>1, <1>2, <2>1, <2>2, RunBecomes
<1>3. CASE Fulfillment!Becomes(r, [run[r] EXCEPT !.todo = @ \ {o}])
  <2> DEFINE x == [run[r] EXCEPT !.todo = @ \ {o}]
  <2>1. x \in Listing /\ x.pc = "rows" /\ x.todo = run[r].todo \ {o}
    BY <1>1 DEF Listing
  <2>2. Fulfillment!Becomes(r, x)
    BY <1>3
  <2> HIDE DEF x
  <2> QED BY <1>1, <1>3, <2>1, <2>2, RunBecomes
<1> QED BY <1>2, <1>3 DEF Fulfillment!Track, Fulfillment!IsTracked

LEMMA FulfillRow ==
  ASSUME Fulfillment!TypeOK, NEW r \in Actors, Fulfillment!Fulfill(r)
  PROVE  /\ run' \in [Actors -> Fulfillment!Run]
         /\ run[r] \in Serving /\ run[r].pc = "fulfill" /\ run'[r].todo = run[r].todo
         /\ \A s \in Actors \ {r} : run'[s] = run[s]
         /\ \E n \in {0, 1} :
              /\ fulfilled' = [fulfilled EXCEPT ![run[r].order] = @ + n]
              /\ \/ run'[r].pc = "update" /\ run'[r].order = run[r].order /\ n = 1
                    /\ UNCHANGED doubtful
                 \/ run'[r].pc = "rows"
                    /\ doubtful' = IF n = 1 THEN doubtful \cup {run[r].order} ELSE doubtful
<1>1. run[r] \in Serving /\ run[r].pc = "fulfill"
  BY RunRow DEF Fulfillment!Fulfill, Fulfillment!At
<1>2. CASE /\ Fulfillment!Becomes(r, [run[r] EXCEPT !.pc = "update"])
           /\ fulfilled' = [fulfilled EXCEPT ![run[r].order] = @ + 1] /\ UNCHANGED doubtful
  <2> DEFINE x == [run[r] EXCEPT !.pc = "update"]
  <2>1. x \in Serving /\ x.pc = "update" /\ x.order = run[r].order /\ x.todo = run[r].todo
    BY <1>1 DEF Serving
  <2>2. Fulfillment!Becomes(r, x)
    BY <1>2
  <2> HIDE DEF x
  <2>3. /\ run' \in [Actors -> Fulfillment!Run]
        /\ run'[r] = x /\ \A s \in Actors \ {r} : run'[s] = run[s]
    BY <2>1, <2>2, RunBecomes
  <2> QED BY <1>1, <1>2, <2>1, <2>3
<1>3. CASE \E n \in {0, 1} :
             /\ Fulfillment!Becomes(r, [pc |-> "rows", todo |-> run[r].todo])
             /\ fulfilled' = [fulfilled EXCEPT ![run[r].order] = @ + n]
             /\ doubtful' = IF n = 1 THEN doubtful \cup {run[r].order} ELSE doubtful
  <2> DEFINE x == [pc |-> "rows", todo |-> run[r].todo]
  <2>1. x \in Listing /\ x.pc = "rows" /\ x.todo = run[r].todo
    BY <1>1 DEF Listing, Serving
  <2>2. Fulfillment!Becomes(r, x)
    BY <1>3
  <2> HIDE DEF x
  <2>3. /\ run' \in [Actors -> Fulfillment!Run]
        /\ run'[r] = x /\ \A s \in Actors \ {r} : run'[s] = run[s]
    BY <2>1, <2>2, RunBecomes
  <2> QED BY <1>1, <1>3, <2>1, <2>3
<1> QED BY <1>2, <1>3 DEF Fulfillment!Fulfill, Fulfillment!Call

LEMMA UpdateRow ==
  ASSUME Fulfillment!TypeOK, NEW r \in Actors, Fulfillment!Update(r)
  PROVE  /\ run' \in [Actors -> Fulfillment!Run]
         /\ run[r] \in Serving /\ run[r].pc = "update"
         /\ run'[r].pc = "rows" /\ run'[r].todo = run[r].todo
         /\ \A s \in Actors \ {r} : run'[s] = run[s]
<1>1. run[r] \in Serving /\ run[r].pc = "update"
  BY RunRow DEF Fulfillment!Update, Fulfillment!At
<1> DEFINE x == [pc |-> "rows", todo |-> run[r].todo]
<1>2. x \in Listing /\ x.pc = "rows" /\ x.todo = run[r].todo
  BY <1>1 DEF Listing, Serving
<1>3. Fulfillment!Becomes(r, x)
  BY DEF Fulfillment!Update
<1> HIDE DEF x
<1> QED BY <1>1, <1>2, <1>3, RunBecomes

LEMMA EndRow ==
  ASSUME Fulfillment!TypeOK, NEW r \in Actors, Fulfillment!End(r)
  PROVE  /\ run' \in [Actors -> Fulfillment!Run]
         /\ run[r].pc = "rows" /\ run'[r].pc = "idle"
         /\ \A s \in Actors \ {r} : run'[s] = run[s]
BY RunBecomes DEF Fulfillment!End, Fulfillment!At, Fulfillment!Idle

LEMMA FulfillmentFails ==
  ASSUME fulfillmentFailures \in 0..MaxFailures,
         Fulfillment!Fails \/ UNCHANGED fulfillmentFailures
  PROVE  fulfillmentFailures' \in 0..MaxFailures
BY BoundsAssumption DEF Fulfillment!Fails

(* What becomes of the invariant when a run reserves an order, ...         *)
LEMMA ReserveKeeps ==
  ASSUME FulfillmentInv, NEW r \in Actors, NEW o \in Items, NEW mapped \in BOOLEAN,
         Fulfillment!Reserve(r, o, mapped)
  PROVE  FulfillmentInv'
<1>1. /\ run' \in [Actors -> Fulfillment!Run]
      /\ run[r].pc = "orders" /\ \A s \in Actors \ {r} : run'[s] = run[s]
      /\ \/ /\ row[o] = "none" /\ Fulfillment!Records(o, "submitting")
            /\ run'[r].pc = "submit" /\ run'[r].order = o
         \/ UNCHANGED row /\ run'[r].pc = "orders"
  BY ReserveRow DEF FulfillmentInv
<1>2. UNCHANGED <<order, supplied, shipped, fulfilled, doubtful, fulfillmentFailures>>
  BY DEF Fulfillment!Reserve, Fulfillment!outside
<1>3. /\ row' \in [Items -> Fulfillment!Statuses]
      /\ \/ /\ row[o] = "none" /\ row'[o] = "submitting" /\ \A p \in Items \ {o} : row'[p] = row[p]
            /\ run'[r].pc = "submit" /\ run'[r].order = o
         \/ UNCHANGED row /\ run'[r].pc = "orders"
  BY <1>1, RowWritten DEF FulfillmentInv, Fulfillment!TypeOK, Fulfillment!Statuses
<1>4. Fulfillment!TypeOK'
  BY <1>1, <1>2, <1>3 DEF FulfillmentInv, Fulfillment!TypeOK
<1>5. OneServes'
  BY <1>1, <1>2, <1>3 DEF FulfillmentInv, OneServes, SuppliedOnce, Serves, Fulfillment!TypeOK
<1>6. SuppliedOnce'
  BY <1>2, <1>3 DEF FulfillmentInv, SuppliedOnce
<1>7. FollowsSubmitted'
  BY <1>1, <1>2, <1>3 DEF FulfillmentInv, FollowsSubmitted, Fulfillment!Follows, Fulfillment!At
<1>8. FulfilledIsTrue'
  BY <1>2, <1>3 DEF FulfillmentInv, FulfilledIsTrue
<1>9. FollowedOnce'
  BY <1>1, <1>2, <1>3 DEF FulfillmentInv, FollowedOnce, Fulfillment!Follows, Fulfillment!At, Updates
<1> QED BY <1>4, <1>5, <1>6, <1>7, <1>8, <1>9 DEF FulfillmentInv

(* ... orders it at the supplier, ...                                      *)
LEMMA SubmitKeeps ==
  ASSUME FulfillmentInv, NEW r \in Actors, Fulfillment!Submit(r)
  PROVE  FulfillmentInv'
<1>1. PICK n \in {0, 1} :
        /\ run' \in [Actors -> Fulfillment!Run]
        /\ run[r] \in Serving /\ run[r].pc = "submit" /\ run'[r].order = run[r].order
        /\ \A s \in Actors \ {r} : run'[s] = run[s]
        /\ supplied' = [supplied EXCEPT ![run[r].order] = @ + n]
        /\ run'[r].pc = "failed" \/ (run'[r].pc = "record" /\ n = 1)
  BY SubmitRow DEF FulfillmentInv
<1> DEFINE o == run[r].order
<1>2. /\ UNCHANGED <<order, shipped, fulfilled, row>>
      /\ doubtful \subseteq doubtful' /\ doubtful' \subseteq doubtful \cup {o}
      /\ Fulfillment!Fails \/ UNCHANGED fulfillmentFailures
  BY DEF Fulfillment!Submit, Fulfillment!Call
<1>3. o \in Items
  BY <1>1 DEF Serving
<1>4. /\ supplied' \in [Items -> Nat]
      /\ supplied'[o] = supplied[o] + n /\ \A p \in Items \ {o} : supplied'[p] = supplied[p]
  BY <1>1, <1>3, CountRises DEF FulfillmentInv, Fulfillment!TypeOK
<1>5. Serves(r, o) /\ row[o] = "submitting" /\ supplied[o] = 0
  BY <1>1, <1>3 DEF FulfillmentInv, OneServes, Serves
<1> HIDE DEF o
<1>6. Fulfillment!TypeOK'
  BY <1>1, <1>2, <1>3, <1>4, FulfillmentFails DEF FulfillmentInv, Fulfillment!TypeOK
<1>7. OneServes'
  <2> SUFFICES ASSUME NEW q \in Actors, NEW p \in Items, Serves(q, p)'
               PROVE  /\ row'[p] = "submitting"
                      /\ run'[q].pc = "submit" => supplied'[p] = 0
                      /\ run'[q].pc = "record" => supplied'[p] = 1
                      /\ \A s \in Actors : Serves(s, p)' => s = q
    BY DEF OneServes
  <2>1. \A s \in Actors, i \in Items : Serves(s, i)' => Serves(s, i)
    BY <1>1 DEF Serves
  <2>2. \A s \in Actors : Serves(s, p)' => s = q
    BY <2>1 DEF FulfillmentInv, OneServes
  <2>3. CASE q = r
    BY <1>1, <1>2, <1>4, <1>5, <2>1, <2>2, <2>3 DEF o, Serves
  <2>4. CASE q # r
    <3>1. p # o
      BY <1>3, <1>5, <2>1, <2>4 DEF FulfillmentInv, OneServes
    <3> QED BY <1>1, <1>2, <1>4, <2>1, <2>2, <2>4, <3>1 DEF FulfillmentInv, OneServes
  <2> QED BY <2>3, <2>4
<1>8. SuppliedOnce'
  BY <1>2, <1>3, <1>4, <1>5 DEF FulfillmentInv, SuppliedOnce
<1>9. FollowsSubmitted'
  BY <1>1, <1>2 DEF FulfillmentInv, FollowsSubmitted, Fulfillment!Follows, Fulfillment!At
<1>10. FulfilledIsTrue'
  BY <1>2 DEF FulfillmentInv, FulfilledIsTrue
<1>11. FollowedOnce'
  BY <1>1, <1>2 DEF FulfillmentInv, FollowedOnce, Fulfillment!Follows, Fulfillment!At, Updates
<1> QED BY <1>6, <1>7, <1>8, <1>9, <1>10, <1>11 DEF FulfillmentInv

(* ... and enters what came of it, ...                                     *)
LEMMA RecordKeeps ==
  ASSUME FulfillmentInv, NEW r \in Actors, Fulfillment!Record(r) \/ Fulfillment!RecordFailure(r)
  PROVE  FulfillmentInv'
<1> DEFINE o == run[r].order
<1>1. /\ run' \in [Actors -> Fulfillment!Run]
      /\ run[r] \in Serving /\ run[r].pc \in {"record", "failed"}
      /\ \A s \in Actors \ {r} : run'[s] = run[s]
      /\ \/ /\ run'[r].pc = "orders"
            /\ \/ run[r].pc = "record" /\ Fulfillment!Records(o, "submitted")
               \/ run[r].pc = "failed" /\ Fulfillment!Records(o, "submit_failed")
         \/ run'[r].pc = "failed" /\ run'[r].order = o /\ UNCHANGED row
         \/ run'[r].pc = "idle" /\ UNCHANGED row
  BY RecordedRow DEF FulfillmentInv
<1>2. /\ UNCHANGED <<order, supplied, shipped, fulfilled, doubtful>>
      /\ Fulfillment!Fails \/ UNCHANGED fulfillmentFailures
  BY DEF Fulfillment!Record, Fulfillment!RecordFailure, Fulfillment!outside
<1>3. o \in Items
  BY <1>1 DEF Serving
<1>4. Serves(r, o) /\ row[o] = "submitting" /\ (run[r].pc = "record" => supplied[o] = 1)
  BY <1>1, <1>3 DEF FulfillmentInv, OneServes, Serves
<1> HIDE DEF o
<1>5. /\ row' \in [Items -> Fulfillment!Statuses]
      /\ \A p \in Items \ {o} : row'[p] = row[p]
      /\ \/ run'[r].pc = "orders" /\ run[r].pc = "record" /\ row'[o] = "submitted"
         \/ run'[r].pc = "orders" /\ row'[o] = "submit_failed"
         \/ run'[r].pc = "failed" /\ run'[r].order = o /\ row'[o] = row[o]
         \/ run'[r].pc = "idle" /\ row'[o] = row[o]
  BY <1>1, <1>3, RowWritten DEF FulfillmentInv, Fulfillment!TypeOK, Fulfillment!Statuses
<1>6. Fulfillment!TypeOK'
  BY <1>1, <1>2, <1>5, FulfillmentFails DEF FulfillmentInv, Fulfillment!TypeOK
<1>7. OneServes'
  <2> SUFFICES ASSUME NEW q \in Actors, NEW p \in Items, Serves(q, p)'
               PROVE  /\ row'[p] = "submitting"
                      /\ run'[q].pc = "submit" => supplied'[p] = 0
                      /\ run'[q].pc = "record" => supplied'[p] = 1
                      /\ \A s \in Actors : Serves(s, p)' => s = q
    BY DEF OneServes
  <2>1. \A s \in Actors, i \in Items : Serves(s, i)' => Serves(s, i)
    BY <1>1, <1>4, <1>5 DEF Serves
  <2>2. \A s \in Actors : Serves(s, p)' => s = q
    BY <2>1 DEF FulfillmentInv, OneServes
  <2>3. CASE q = r
    BY <1>1, <1>2, <1>3, <1>4, <1>5, <2>1, <2>2, <2>3 DEF Serves
  <2>4. CASE q # r
    <3>1. p # o
      BY <1>3, <1>4, <2>1, <2>4 DEF FulfillmentInv, OneServes
    <3> QED BY <1>1, <1>2, <1>5, <2>1, <2>2, <2>4, <3>1 DEF FulfillmentInv, OneServes
  <2> QED BY <2>3, <2>4
<1>8. SuppliedOnce'
  BY <1>2, <1>3, <1>4, <1>5 DEF FulfillmentInv, SuppliedOnce
<1>9. FollowsSubmitted'
  BY <1>1, <1>2, <1>3, <1>4, <1>5 DEF FulfillmentInv, FollowsSubmitted, Fulfillment!Follows, Fulfillment!At
<1>10. FulfilledIsTrue'
  BY <1>2, <1>3, <1>4, <1>5 DEF FulfillmentInv, FulfilledIsTrue
<1>11. FollowedOnce'
  <2>1. \A s \in Actors, p \in Items : /\ Fulfillment!Follows(s, p)' <=> Fulfillment!Follows(s, p)
                                       /\ Updates(s, p)' <=> Updates(s, p)
    BY <1>1, <1>5 DEF Fulfillment!Follows, Fulfillment!At, Updates
  <2>2. \A s \in Actors : ~Fulfillment!Follows(s, o) /\ ~Updates(s, o)
    BY <1>3, <1>4 DEF FulfillmentInv, FollowsSubmitted, Fulfillment!Follows, Fulfillment!At, Updates
  <2> QED BY <1>2, <1>3, <1>4, <1>5, <2>1, <2>2 DEF FulfillmentInv, FollowedOnce
<1> QED BY <1>6, <1>7, <1>8, <1>9, <1>10, <1>11 DEF FulfillmentInv

(* ... asks for the tracking of what was submitted, ...                    *)
LEMMA CheckKeeps ==
  ASSUME FulfillmentInv, NEW r \in Actors, Fulfillment!Check(r)
  PROVE  FulfillmentInv'
<1>1. /\ run' \in [Actors -> Fulfillment!Run]
      /\ run[r].pc = "orders" /\ \A s \in Actors \ {r} : run'[s] = run[s]
      /\ run'[r].pc = "rows" /\ run'[r].todo = Fulfillment!Pending
  BY CheckRow DEF FulfillmentInv
<1>2. /\ UNCHANGED <<order, supplied, shipped, fulfilled, row, fulfillmentFailures>>
      /\ doubtful' = doubtful \cup
           {o \in Fulfillment!Pending : \E other \in Actors \ {r} : Fulfillment!Follows(other, o)}
  BY DEF Fulfillment!Check, Fulfillment!outside
<1>3. Fulfillment!TypeOK'
  BY <1>1, <1>2 DEF FulfillmentInv, Fulfillment!TypeOK, Fulfillment!Pending
<1>4. OneServes'
  BY <1>1, <1>2 DEF FulfillmentInv, OneServes, Serves
<1>5. SuppliedOnce' /\ FulfilledIsTrue'
  BY <1>2 DEF FulfillmentInv, SuppliedOnce, FulfilledIsTrue
<1>6. FollowsSubmitted'
  BY <1>1, <1>2 DEF FulfillmentInv, FollowsSubmitted, Fulfillment!Follows, Fulfillment!At,
    Fulfillment!Pending
<1>7. FollowedOnce'
  <2> SUFFICES ASSUME NEW o \in Items, o \notin doubtful'
               PROVE  /\ fulfilled[o] <= 1
                      /\ fulfilled[o] = 0 \/ row[o] = "fulfilled" \/ \E q \in Actors : Updates(q, o)'
                      /\ \A q \in Actors : Fulfillment!Follows(q, o)' =>
                           /\ row[o] = "submitted" /\ (Updates(q, o)' \/ fulfilled[o] = 0)
                           /\ \A s \in Actors : Fulfillment!Follows(s, o)' => s = q
    BY <1>2 DEF FollowedOnce
  <2>1. o \notin doubtful
    BY <1>2
  <2>2. \A s \in Actors : Updates(s, o)' <=> Updates(s, o)
    BY <1>1 DEF Updates
  <2>3. \A s \in Actors \ {r} : Fulfillment!Follows(s, o)' <=> Fulfillment!Follows(s, o)
    BY <1>1 DEF Fulfillment!Follows, Fulfillment!At
  <2>4. Fulfillment!Follows(r, o)' <=> row[o] = "submitted"
    BY <1>1 DEF Fulfillment!Follows, Fulfillment!At, Fulfillment!Pending
  <2>5. ~Fulfillment!Follows(r, o) /\ ~Updates(r, o)
    BY <1>1 DEF Fulfillment!Follows, Fulfillment!At, Updates
  <2>6. row[o] = "submitted" => \A s \in Actors : ~Fulfillment!Follows(s, o)
    BY <1>2, <2>5 DEF Fulfillment!Pending
  <2>7. \A s \in Actors : Updates(s, o) => Fulfillment!Follows(s, o)
    BY DEF Updates, Fulfillment!Follows, Fulfillment!At
  <2> QED BY <2>1, <2>2, <2>3, <2>4, <2>5, <2>6, <2>7 DEF FulfillmentInv, FollowedOnce
<1> QED BY <1>3, <1>4, <1>5, <1>6, <1>7 DEF FulfillmentInv

LEMMA TrackKeeps ==
  ASSUME FulfillmentInv, NEW r \in Actors, NEW o \in Items, NEW verdict \in BOOLEAN,
         Fulfillment!Track(r, o, verdict)
  PROVE  FulfillmentInv'
<1>1. /\ run' \in [Actors -> Fulfillment!Run]
      /\ run[r].pc = "rows" /\ o \in run[r].todo
      /\ \A s \in Actors \ {r} : run'[s] = run[s]
      /\ run'[r].todo = run[r].todo \ {o}
      /\ \/ run'[r].pc = "rows"
         \/ run'[r].pc = "fulfill" /\ run'[r].order = o /\ o \in shipped
  BY TrackRow DEF FulfillmentInv
<1>2. UNCHANGED <<order, supplied, shipped, fulfilled, row, doubtful, fulfillmentFailures>>
  BY DEF Fulfillment!Track, Fulfillment!outside
<1>3. Fulfillment!TypeOK'
  BY <1>1, <1>2 DEF FulfillmentInv, Fulfillment!TypeOK
<1>4. OneServes'
  BY <1>1, <1>2 DEF FulfillmentInv, OneServes, Serves
<1>5. SuppliedOnce' /\ FulfilledIsTrue'
  BY <1>2 DEF FulfillmentInv, SuppliedOnce, FulfilledIsTrue
<1>6. FollowsSubmitted'
  BY <1>1, <1>2 DEF FulfillmentInv, FollowsSubmitted, Fulfillment!Follows, Fulfillment!At
<1>7. FollowedOnce'
  <2>1. \A s \in Actors, p \in Items : /\ Fulfillment!Follows(s, p)' => Fulfillment!Follows(s, p)
                                       /\ Updates(s, p)' <=> Updates(s, p)
    BY <1>1 DEF Fulfillment!Follows, Fulfillment!At, Updates
  <2> QED BY <1>2, <2>1 DEF FulfillmentInv, FollowedOnce
<1> QED BY <1>3, <1>4, <1>5, <1>6, <1>7 DEF FulfillmentInv

(* ... tells the shop of it, ...                                           *)
LEMMA FulfillKeeps ==
  ASSUME FulfillmentInv, NEW r \in Actors, Fulfillment!Fulfill(r)
  PROVE  FulfillmentInv'
<1> DEFINE o == run[r].order
<1>1. PICK n \in {0, 1} :
        /\ run' \in [Actors -> Fulfillment!Run]
        /\ run[r] \in Serving /\ run[r].pc = "fulfill" /\ run'[r].todo = run[r].todo
        /\ \A s \in Actors \ {r} : run'[s] = run[s]
        /\ fulfilled' = [fulfilled EXCEPT ![o] = @ + n]
        /\ \/ run'[r].pc = "update" /\ run'[r].order = o /\ n = 1 /\ UNCHANGED doubtful
           \/ run'[r].pc = "rows" /\ doubtful' = IF n = 1 THEN doubtful \cup {o} ELSE doubtful
  BY FulfillRow DEF FulfillmentInv
<1>2. /\ UNCHANGED <<order, supplied, shipped, row>>
      /\ Fulfillment!Fails \/ UNCHANGED fulfillmentFailures
  BY DEF Fulfillment!Fulfill, Fulfillment!Call
<1>3. o \in Items
  BY <1>1 DEF Serving
<1>4. /\ fulfilled' \in [Items -> Nat]
      /\ fulfilled'[o] = fulfilled[o] + n /\ \A p \in Items \ {o} : fulfilled'[p] = fulfilled[p]
  <2>1. fulfilled \in [Items -> Nat]
    BY DEF FulfillmentInv, Fulfillment!TypeOK
  <2> HIDE DEF o
  <2> QED BY <1>1, <1>3, <2>1, CountRises
<1>5. Fulfillment!Follows(r, o) /\ ~Updates(r, o) /\ o \in shipped /\ o \notin run[r].todo
  BY <1>1, <1>3 DEF FulfillmentInv, FollowsSubmitted, Fulfillment!Follows, Fulfillment!At, Updates
<1>6. run[r].pc = "fulfill" /\ run[r].order = o
  BY <1>1
<1> HIDE DEF o
<1>7. Fulfillment!TypeOK'
  BY <1>1, <1>2, <1>3, <1>4, FulfillmentFails DEF FulfillmentInv, Fulfillment!TypeOK
<1>8. OneServes'
  BY <1>1, <1>2 DEF FulfillmentInv, OneServes, Serves
<1>9. SuppliedOnce'
  BY <1>2 DEF FulfillmentInv, SuppliedOnce
<1>10. \A p \in Items : fulfilled'[p] >= fulfilled[p]
  BY <1>4 DEF FulfillmentInv, Fulfillment!TypeOK
<1>11. FulfilledIsTrue'
  BY <1>2, <1>4, <1>10 DEF FulfillmentInv, FulfilledIsTrue, Fulfillment!TypeOK
<1>12. FollowsSubmitted'
  <2>1. \A s \in Actors, p \in Items : Fulfillment!Follows(s, p)' => Fulfillment!Follows(s, p)
    BY <1>1, <1>6 DEF Fulfillment!Follows, Fulfillment!At
  <2> SUFFICES ASSUME NEW q \in Actors, NEW p \in Items,
                      run'[q].pc \in {"fulfill", "update"}, run'[q].order = p
               PROVE  p \in shipped /\ p \notin run'[q].todo
                      /\ (run'[q].pc = "update" => fulfilled'[p] > 0)
    BY <1>2, <2>1 DEF FulfillmentInv, FollowsSubmitted
  <2>2. CASE q = r
    BY <1>1, <1>3, <1>4, <1>5, <2>2 DEF FulfillmentInv, Fulfillment!TypeOK
  <2>3. CASE q # r
    BY <1>1, <1>4, <1>10, <2>3 DEF FulfillmentInv, Fulfillment!TypeOK, FollowsSubmitted
  <2> QED BY <2>2, <2>3
<1>13. FollowedOnce'
  <2> SUFFICES ASSUME NEW p \in Items, p \notin doubtful'
               PROVE  /\ fulfilled'[p] <= 1
                      /\ fulfilled'[p] = 0 \/ row[p] = "fulfilled" \/ \E q \in Actors : Updates(q, p)'
                      /\ \A q \in Actors : Fulfillment!Follows(q, p)' =>
                           /\ row[p] = "submitted" /\ (Updates(q, p)' \/ fulfilled'[p] = 0)
                           /\ \A s \in Actors : Fulfillment!Follows(s, p)' => s = q
    BY <1>2 DEF FollowedOnce
  <2>1. p \notin doubtful
    BY <1>1
  <2>2. \A s \in Actors : Fulfillment!Follows(s, p)' => Fulfillment!Follows(s, p)
    BY <1>1, <1>6 DEF Fulfillment!Follows, Fulfillment!At
  <2>3. \A s \in Actors \ {r} : Updates(s, p)' <=> Updates(s, p)
    BY <1>1 DEF Updates
  <2>4. CASE p # o
    <3>1. ~Updates(r, p) /\ ~Updates(r, p)'
      BY <1>1, <1>6, <2>4 DEF Updates
    <3>2. fulfilled'[p] = fulfilled[p]
      BY <1>4, <2>4
    <3> QED BY <2>1, <2>2, <2>3, <3>1, <3>2 DEF FulfillmentInv, FollowedOnce
  <2>5. CASE p = o
    <3>1. row[p] = "submitted" /\ fulfilled[p] = 0
          /\ \A s \in Actors : Fulfillment!Follows(s, p) => s = r
      BY <1>5, <2>1, <2>5 DEF FulfillmentInv, FollowedOnce
    <3>2. CASE n = 0
      <4>1. run'[r].pc = "rows" /\ fulfilled'[p] = 0
        BY <1>1, <1>4, <2>5, <3>1, <3>2
      <4> QED BY <2>2, <3>1, <4>1 DEF FulfillmentInv, FollowedOnce
    <3>3. CASE n = 1
      <4>1. Updates(r, p)' /\ fulfilled'[p] = 1
        BY <1>1, <1>4, <2>5, <3>1, <3>3 DEF Updates
      <4> QED BY <2>2, <3>1, <4>1
    <3> QED BY <3>2, <3>3
  <2> QED BY <2>4, <2>5
<1> QED BY <1>7, <1>8, <1>9, <1>11, <1>12, <1>13 DEF FulfillmentInv

(* ... and enters that it did.                                             *)
LEMMA UpdateKeeps ==
  ASSUME FulfillmentInv, NEW r \in Actors, Fulfillment!Update(r)
  PROVE  FulfillmentInv'
<1> DEFINE o == run[r].order
<1>1. /\ run' \in [Actors -> Fulfillment!Run]
      /\ run[r] \in Serving /\ run[r].pc = "update"
      /\ run'[r].pc = "rows" /\ run'[r].todo = run[r].todo
      /\ \A s \in Actors \ {r} : run'[s] = run[s]
  BY UpdateRow DEF FulfillmentInv
<1>2. /\ UNCHANGED <<order, supplied, shipped, fulfilled>>
      /\ Fulfillment!Fails \/ UNCHANGED fulfillmentFailures
      /\ \/ Fulfillment!Records(o, "fulfilled") /\ UNCHANGED doubtful
         \/ doubtful' = doubtful \cup {o} /\ UNCHANGED row
  BY DEF Fulfillment!Update, Fulfillment!outside
<1>3. o \in Items /\ run[r].order = o
  BY <1>1 DEF Serving
<1> HIDE DEF o
<1>4. /\ Fulfillment!Follows(r, o) /\ Updates(r, o) /\ row[o] \in {"submitted", "fulfilled"}
      /\ o \in shipped /\ o \notin run[r].todo /\ fulfilled[o] > 0
  BY <1>1, <1>3 DEF FulfillmentInv, FollowsSubmitted, Fulfillment!Follows, Fulfillment!At, Updates
<1>5. /\ row' \in [Items -> Fulfillment!Statuses]
      /\ \A p \in Items \ {o} : row'[p] = row[p] /\ (p \in doubtful' <=> p \in doubtful)
      /\ doubtful \subseteq doubtful' /\ doubtful' \subseteq Items
      /\ row'[o] = "fulfilled" \/ (o \in doubtful' /\ row'[o] = row[o])
  BY <1>2, <1>3, RowWritten DEF FulfillmentInv, Fulfillment!TypeOK, Fulfillment!Statuses
<1>6. Fulfillment!TypeOK'
  BY <1>1, <1>2, <1>5, FulfillmentFails DEF FulfillmentInv, Fulfillment!TypeOK
<1>7. OneServes'
  BY <1>1, <1>2, <1>3, <1>4, <1>5 DEF FulfillmentInv, OneServes, Serves
<1>8. SuppliedOnce' /\ FulfilledIsTrue'
  BY <1>2, <1>3, <1>4, <1>5 DEF FulfillmentInv, SuppliedOnce, FulfilledIsTrue
<1>9. FollowsSubmitted'
  BY <1>1, <1>2, <1>3, <1>4, <1>5 DEF FulfillmentInv, FollowsSubmitted, Fulfillment!Follows, Fulfillment!At
<1>10. FollowedOnce'
  <2>1. \A s \in Actors, p \in Items : Fulfillment!Follows(s, p)' => Fulfillment!Follows(s, p)
    BY <1>1 DEF Fulfillment!Follows, Fulfillment!At
  <2>2. \A p \in Items : Fulfillment!Follows(r, p)' => p # o
    BY <1>1, <1>4 DEF Fulfillment!Follows, Fulfillment!At
  <2>3. \A s \in Actors, p \in Items \ {o} : Updates(s, p)' <=> Updates(s, p)
    BY <1>1, <1>3 DEF Updates
  <2> SUFFICES ASSUME NEW p \in Items, p \notin doubtful'
               PROVE  /\ fulfilled[p] <= 1
                      /\ fulfilled[p] = 0 \/ row'[p] = "fulfilled" \/ \E q \in Actors : Updates(q, p)'
                      /\ \A q \in Actors : Fulfillment!Follows(q, p)' =>
                           /\ row'[p] = "submitted" /\ (Updates(q, p)' \/ fulfilled[p] = 0)
                           /\ \A s \in Actors : Fulfillment!Follows(s, p)' => s = q
    BY <1>2 DEF FollowedOnce
  <2>4. CASE p = o
    <3>1. o \notin doubtful /\ row'[o] = "fulfilled"
      BY <1>5, <2>4
    <3>2. \A s \in Actors : Fulfillment!Follows(s, o) => s = r
      BY <1>3, <1>4, <3>1 DEF FulfillmentInv, FollowedOnce
    <3> QED BY <1>3, <2>1, <2>2, <2>4, <3>1, <3>2 DEF FulfillmentInv, FollowedOnce
  <2>5. CASE p # o
    BY <1>5, <2>1, <2>3, <2>5 DEF FulfillmentInv, FollowedOnce
  <2> QED BY <2>4, <2>5
<1> QED BY <1>6, <1>7, <1>8, <1>9, <1>10 DEF FulfillmentInv

(* A run begins or ends.                                                   *)
LEMMA ListKeeps ==
  ASSUME FulfillmentInv, NEW r \in Actors, Fulfillment!List(r) \/ Fulfillment!End(r)
  PROVE  FulfillmentInv'
<1>1. /\ run' \in [Actors -> Fulfillment!Run]
      /\ run[r].pc \in {"idle", "rows"} /\ run'[r].pc \in {"idle", "orders"}
      /\ \A s \in Actors \ {r} : run'[s] = run[s]
      /\ run[r].pc = "rows" => run[r].todo = {}
  BY ListRow, EndRow DEF FulfillmentInv, Fulfillment!List, Fulfillment!End, Fulfillment!Idle
<1>2. UNCHANGED <<order, supplied, shipped, fulfilled, row, doubtful, fulfillmentFailures>>
  BY DEF Fulfillment!List, Fulfillment!End, Fulfillment!outside
<1>3. Fulfillment!TypeOK'
  BY <1>1, <1>2 DEF FulfillmentInv, Fulfillment!TypeOK
<1>4. OneServes'
  BY <1>1, <1>2 DEF FulfillmentInv, OneServes, Serves
<1>5. SuppliedOnce' /\ FulfilledIsTrue'
  BY <1>2 DEF FulfillmentInv, SuppliedOnce, FulfilledIsTrue
<1>6. FollowsSubmitted'
  BY <1>1, <1>2 DEF FulfillmentInv, FollowsSubmitted, Fulfillment!Follows, Fulfillment!At
<1>7. FollowedOnce'
  <2>1. \A s \in Actors, p \in Items : /\ Fulfillment!Follows(s, p)' <=> Fulfillment!Follows(s, p)
                                       /\ Updates(s, p)' <=> Updates(s, p)
    BY <1>1 DEF Fulfillment!Follows, Fulfillment!At, Updates
  <2> QED BY <1>2, <2>1 DEF FulfillmentInv, FollowedOnce
<1> QED BY <1>3, <1>4, <1>5, <1>6, <1>7 DEF FulfillmentInv

LEMMA FulfillmentRestartKeeps ==
  ASSUME FulfillmentInv, Fulfillment!Restart
  PROVE  FulfillmentInv'
<1>1. /\ run' \in [Actors -> Fulfillment!Run]
      /\ \A r \in Actors : run'[r].pc = "idle"
  BY DEF Fulfillment!Restart, Fulfillment!Run, Fulfillment!Idle
<1>2. /\ UNCHANGED <<order, supplied, shipped, fulfilled, row>> /\ Fulfillment!Fails
      /\ doubtful' = doubtful \cup {o \in Items : \E r \in Actors : Updates(r, o)}
  BY DEF Fulfillment!Restart, Fulfillment!outside, Fulfillment!At, Updates
<1>3. Fulfillment!TypeOK'
  BY <1>1, <1>2, FulfillmentFails DEF FulfillmentInv, Fulfillment!TypeOK
<1>4. OneServes'
  BY <1>1 DEF OneServes, Serves
<1>5. SuppliedOnce' /\ FulfilledIsTrue'
  BY <1>2 DEF FulfillmentInv, SuppliedOnce, FulfilledIsTrue
<1>6. FollowsSubmitted'
  BY <1>1 DEF FollowsSubmitted, Fulfillment!Follows, Fulfillment!At
<1>7. FollowedOnce'
  <2>1. \A s \in Actors, p \in Items : ~Fulfillment!Follows(s, p)' /\ ~Updates(s, p)'
    BY <1>1 DEF Fulfillment!Follows, Fulfillment!At, Updates
  <2> QED BY <1>2, <2>1 DEF FulfillmentInv, FollowedOnce
<1> QED BY <1>3, <1>4, <1>5, <1>6, <1>7 DEF FulfillmentInv

(* The shop and the supplier.                                              *)
LEMMA OutsideKeeps ==
  ASSUME FulfillmentInv, NEW o \in Items,
         \/ Fulfillment!Change(o, "none", "unpaid") \/ Fulfillment!Change(o, "unpaid", "paid")
         \/ Fulfillment!Change(o, "paid", "canceled") \/ Fulfillment!Ship(o)
  PROVE  FulfillmentInv'
<1>1. /\ UNCHANGED <<supplied, fulfilled, row, run, doubtful, fulfillmentFailures>>
      /\ order' \in [Items -> {"none", "unpaid", "paid", "canceled"}]
      /\ shipped \subseteq shipped' /\ shipped' \subseteq Items
  BY DEF Fulfillment!Change, Fulfillment!Ship, FulfillmentInv, Fulfillment!TypeOK
<1>2. Fulfillment!TypeOK'
  BY <1>1 DEF FulfillmentInv, Fulfillment!TypeOK
<1> QED BY <1>1, <1>2 DEF FulfillmentInv, OneServes, SuppliedOnce, FollowsSubmitted, FulfilledIsTrue,
      FollowedOnce, Serves, Updates, Fulfillment!Follows, Fulfillment!At

LEMMA FulfillmentStep ==
  ASSUME FulfillmentInv, Fulfillment!Next
  PROVE  FulfillmentInv'
BY ReserveKeeps, SubmitKeeps, RecordKeeps, CheckKeeps, TrackKeeps, FulfillKeeps, UpdateKeeps,
   ListKeeps, FulfillmentRestartKeeps, OutsideKeeps DEF Fulfillment!Next

LEMMA FulfillmentStart ==
  ASSUME Fulfillment!Init
  PROVE  FulfillmentInv
<1>1. Fulfillment!TypeOK
  BY BoundsAssumption DEF Fulfillment!Init, Fulfillment!TypeOK, Fulfillment!Run, Fulfillment!Statuses
<1>2. \A r \in Actors : run[r].pc = "idle"
  BY DEF Fulfillment!Init, Fulfillment!Idle
<1> QED BY <1>1, <1>2 DEF Fulfillment!Init, FulfillmentInv, OneServes, SuppliedOnce, FollowsSubmitted,
      FulfilledIsTrue, FollowedOnce, Serves, Updates, Fulfillment!Follows, Fulfillment!At

LEMMA FulfillmentInvariance == Behaviour => [](Is("fulfillment") => FulfillmentInv)
<1>1. SumInit => (Is("fulfillment") => FulfillmentInv)
  BY FulfillmentStart DEF SumInit
<1>2. (Is("fulfillment") => FulfillmentInv) /\ [SumNext]_all => (Is("fulfillment") => FulfillmentInv)'
  <2> SUFFICES ASSUME Is("fulfillment") => FulfillmentInv, [SumNext]_all, Is("fulfillment")'
               PROVE  FulfillmentInv'
    OBVIOUS
  <2>1. FulfillmentInv /\ (Fulfillment!Next \/ UNCHANGED fulfillmentVars)
    BY OneRuns DEF Is
  <2>2. CASE UNCHANGED fulfillmentVars
    BY <2>1, <2>2 DEF fulfillmentVars, FulfillmentInv, Fulfillment!TypeOK, OneServes, SuppliedOnce,
      FollowsSubmitted, FulfilledIsTrue, FollowedOnce, Serves, Updates, Fulfillment!Follows, Fulfillment!At
  <2> QED BY <2>1, <2>2, FulfillmentStep
<1> QED BY <1>1, <1>2, PTL DEF Behaviour

(* The supplier is asked for an order once, the shop is told of its        *)
(* delivery once unless in doubt, and the table says no more than what     *)
(* happened, for any number of orders and runs.                            *)
THEOREM OrdersDeliveredOnce == Behaviour => []OrdersAreDeliveredOnce
<1>1. (Is("fulfillment") => FulfillmentInv) => OrdersAreDeliveredOnce
  BY DEF OrdersAreDeliveredOnce, Fulfillment!OrdersAreDeliveredOnce, Fulfillment!TableIsTrue,
    FulfillmentInv, Fulfillment!TypeOK, SuppliedOnce, FulfilledIsTrue, FollowedOnce
<1> QED BY <1>1, FulfillmentInvariance, PTL
-----------------------------------------------------------------------------
(* Proposals.                                                              *)
Names == Proposals!Names

Marking == [pc : {"read", "open", "replace", "remove"}, name : Names]
Writer == [pc : {"write"}, name : Names, file : {"tmp", "copy", "gone"}]
MarkRequests == {Proposals!Idle} \cup Marking \cup Writer

ProposalsTyped ==
  /\ ready \subseteq staged /\ staged \subseteq Single
  /\ copies \in [Names -> Proposals!Holds] /\ draft \in [Names -> Proposals!Holds]
  /\ second \in Proposals!Seconds
  /\ proposalRequest \in [Actors -> MarkRequests]

AtName(r, n) == proposalRequest[r].pc # "idle" /\ proposalRequest[r].name = n

Holding(r, n, place) ==
  proposalRequest[r].pc = "write" /\ proposalRequest[r].name = n /\ proposalRequest[r].file = place

(* What is put in place, and what is in place, is whole or being written -  *)
(* or the file was torn.                                                   *)
DraftSafe(n) ==
  \/ draft[n] \in {"none", "whole"} \/ n[1] \in proposalTorn
  \/ \E r \in Actors : Holding(r, n, "tmp")

CopySafe(n) ==
  copies[n] = "whole" \/ n[1] \in proposalTorn \/ \E r \in Actors : Holding(r, n, "copy")

(* The files of a request: they are its own unless they are shared.         *)
FileSound(r, n) ==
  /\ proposalRequest[r].pc = "write" =>
       IF n[1] \in shared THEN DraftSafe(n) ELSE proposalRequest[r].file = "tmp" /\ draft[n] = "empty"
  /\ proposalRequest[r].pc = "replace" =>
       IF n[1] \in shared THEN DraftSafe(n) ELSE draft[n] = "whole"
  /\ proposalRequest[r].pc = "remove" => CopySafe(n)

FilesSound ==
  /\ proposalTorn \subseteq shared /\ shared \subseteq proposalDoubtful
  /\ \A r \in Actors, n \in Names : AtName(r, n) =>
       FileSound(r, n) /\ \A s \in Actors : AtName(s, n) => s = r \/ n[1] \in shared

ReviewedOrCopied ==
  /\ \A p \in staged :
       p \in ready \/ p \in proposalTorn \/ \E n \in Names : n[1] = p /\ CopySafe(n)
  /\ \A n \in Names : copies[n] # "none" \/ (\E r \in Actors : AtName(r, n)) => n[1] \in staged

NoCopy(p) == \A n \in Names : n[1] = p => copies[n] = "none"

OneCopy(p) ==
  \A m, n \in Names : m[1] = p /\ n[1] = p /\ copies[m] # "none" /\ copies[n] # "none" => m = n

Marks(r, p) == proposalRequest[r].pc # "idle" /\ proposalRequest[r].name[1] = p

(* One request at most marks a proposal that is not in doubt; until it      *)
(* copied it there is no copy, and then there is one.                      *)
OneMarks ==
  \A p \in Single \ proposalDoubtful :
    /\ OneCopy(p)
    /\ p \in ready /\ ~NoCopy(p) => \E r \in Actors : Marks(r, p)
    /\ \A r \in Actors : Marks(r, p) =>
         /\ p \in ready /\ (proposalRequest[r].pc # "remove" => NoCopy(p))
         /\ \A s \in Actors : Marks(s, p) => s = r

ProposalsInv == ProposalsTyped /\ FilesSound /\ ReviewedOrCopied /\ OneMarks

LEMMA RequestOfProposal ==
  ASSUME ProposalsTyped, NEW r \in Actors
  PROVE  /\ proposalRequest[r] \in MarkRequests
         /\ proposalRequest[r].pc \in {"read", "open", "replace", "remove"} => proposalRequest[r] \in Marking
         /\ proposalRequest[r].pc = "write" => proposalRequest[r] \in Writer
         /\ proposalRequest[r].pc \in {"idle", "read", "open", "write", "replace", "remove"}
         /\ proposalRequest[r] = Proposals!Idle <=> proposalRequest[r].pc = "idle"
         /\ proposalRequest[r].pc # "idle" =>
              proposalRequest[r].name \in Names /\ AtName(r, proposalRequest[r].name)
BY DEF ProposalsTyped, MarkRequests, Marking, Writer, Proposals!Idle, AtName

LEMMA NameShows ==
  ASSUME NEW n \in Names
  PROVE  n[1] \in Single /\ n[2] \in Proposals!Seconds /\ n = <<n[1], n[2]>>
BY DEF Names, Proposals!Names

(* A step of r at the name n: what it moves of the others is who wrote to n. *)
OthersAt(r, n) ==
  \A s \in Actors \ {r} :
    /\ proposalRequest'[s].pc = proposalRequest[s].pc
    /\ proposalRequest[s].pc # "idle" => proposalRequest'[s].name = proposalRequest[s].name
    /\ proposalRequest[s].name # n => proposalRequest'[s] = proposalRequest[s]

LEMMA ProposalRow ==
  ASSUME ProposalsTyped, NEW r \in Actors, NEW x \in MarkRequests, Proposals!Becomes(r, x)
  PROVE  /\ proposalRequest' \in [Actors -> MarkRequests] /\ proposalRequest'[r] = x
         /\ \A s \in Actors \ {r} : proposalRequest'[s] = proposalRequest[s]
         /\ \A n : OthersAt(r, n)
         /\ \A s \in Actors \ {r} : \A n, place : Holding(s, n, place)' <=> Holding(s, n, place)
<1>1. /\ proposalRequest' \in [Actors -> MarkRequests] /\ proposalRequest'[r] = x
      /\ \A s \in Actors \ {r} : proposalRequest'[s] = proposalRequest[s]
  BY DEF ProposalsTyped, Proposals!Becomes
<1> QED BY <1>1 DEF OthersAt, Holding

(* What a step of a request has to show at its own name.                    *)
LEMMA MarkStep ==
  ASSUME ProposalsInv, NEW r \in Actors, NEW n \in Names, AtName(r, n),
         ProposalsTyped', UNCHANGED <<shared, staged>>,
         proposalTorn \subseteq proposalTorn', proposalTorn' \subseteq shared,
         proposalDoubtful \subseteq proposalDoubtful', OthersAt(r, n),
         proposalRequest'[r].pc # "idle" => proposalRequest'[r].name = n /\ FileSound(r, n)',
         \A m \in Names \ {n} : copies'[m] = copies[m] /\ draft'[m] = draft[m],
         CopySafe(n) => CopySafe(n)',
         n[1] \in shared /\ DraftSafe(n) => DraftSafe(n)',
         UNCHANGED ready \/ (ready' = ready \ {n[1]} /\ CopySafe(n)),
         n[1] \notin proposalDoubtful' =>
           /\ OneCopy(n[1])'
           /\ n[1] \in ready' /\ ~NoCopy(n[1])' => proposalRequest'[r].pc # "idle"
           /\ proposalRequest'[r].pc # "idle" =>
                n[1] \in ready' /\ (proposalRequest'[r].pc # "remove" => NoCopy(n[1])')
  PROVE  ProposalsInv'
<1>1. /\ \A s \in Actors \ {r}, m \in Names : AtName(s, m)' <=> AtName(s, m)
      /\ \A m \in Names \ {n} : ~AtName(r, m) /\ ~AtName(r, m)'
  BY DEF OthersAt, AtName
<1>2. \A s \in Actors, m \in Names \ {n} : \A place : Holding(s, m, place)' <=> Holding(s, m, place)
  <2> SUFFICES ASSUME NEW s \in Actors, NEW m \in Names \ {n}, NEW place
               PROVE  Holding(s, m, place)' <=> Holding(s, m, place)
    OBVIOUS
  <2>1. CASE s = r
    BY <2>1 DEF Holding, AtName
  <2>2. CASE s # r /\ proposalRequest[s].name = n
    BY <2>2 DEF Holding, OthersAt
  <2>3. CASE s # r /\ proposalRequest[s].name # n
    BY <2>3 DEF Holding, OthersAt
  <2> QED BY <2>1, <2>2, <2>3
<1>3. \A m \in Names \ {n} : (CopySafe(m) => CopySafe(m)') /\ (DraftSafe(m) => DraftSafe(m)')
  BY <1>2 DEF CopySafe, DraftSafe
<1>4. FilesSound'
  <2>1. ASSUME NEW s \in Actors, NEW m \in Names, AtName(s, m)'
        PROVE  FileSound(s, m)'
    <3>1. CASE s = r
      BY <1>1, <2>1, <3>1 DEF AtName
    <3>2. CASE s # r
      <4>1. AtName(s, m) /\ FileSound(s, m) /\ proposalRequest'[s].pc = proposalRequest[s].pc
        BY <1>1, <2>1, <3>2 DEF ProposalsInv, FilesSound, OthersAt
      <4>2. CASE m = n
        <5>1. n[1] \in shared
          BY <3>2, <4>1, <4>2 DEF ProposalsInv, FilesSound
        <5> QED BY <4>1, <4>2, <5>1 DEF FileSound
      <4>3. CASE m # n
        <5>1. /\ draft'[m] = draft[m]
              /\ proposalRequest[s].pc = "write" => proposalRequest'[s].file = proposalRequest[s].file
          BY <3>2, <4>1, <4>3 DEF AtName, OthersAt
        <5> QED BY <1>3, <4>1, <4>3, <5>1 DEF FileSound
      <4> QED BY <4>2, <4>3
    <3> QED BY <3>1, <3>2
  <2>2. ASSUME NEW s \in Actors, NEW t \in Actors, NEW m \in Names, AtName(s, m)', AtName(t, m)'
        PROVE  t = s \/ m[1] \in shared
    <3>1. AtName(s, m) /\ AtName(t, m)
      BY <1>1, <2>2
    <3> QED BY <3>1 DEF ProposalsInv, FilesSound
  <2>3. proposalTorn' \subseteq shared' /\ shared' \subseteq proposalDoubtful'
    BY DEF ProposalsInv, FilesSound
  <2> QED BY <2>1, <2>2, <2>3 DEF FilesSound
<1>5. ReviewedOrCopied'
  <2>1. ASSUME NEW p \in staged, p \notin ready', p \notin proposalTorn'
        PROVE  \E m \in Names : m[1] = p /\ CopySafe(m)'
    <3>1. CASE p \in ready
      BY <2>1, <3>1
    <3>2. CASE p \notin ready
      <4>1. PICK m \in Names : m[1] = p /\ CopySafe(m)
        BY <2>1, <3>2 DEF ProposalsInv, ReviewedOrCopied
      <4> QED BY <1>3, <4>1
    <3> QED BY <3>1, <3>2
  <2>2. ASSUME NEW m \in Names, copies'[m] # "none" \/ \E s \in Actors : AtName(s, m)'
        PROVE  m[1] \in staged
    <3>1. CASE m = n
      BY <3>1 DEF ProposalsInv, ReviewedOrCopied
    <3>2. CASE m # n
      BY <1>1, <2>2, <3>2 DEF ProposalsInv, ReviewedOrCopied
    <3> QED BY <3>1, <3>2
  <2> QED BY <2>1, <2>2 DEF ReviewedOrCopied
<1>6. OneMarks'
  <2> SUFFICES ASSUME NEW p \in Single, p \notin proposalDoubtful'
               PROVE  /\ OneCopy(p)'
                      /\ p \in ready' /\ ~NoCopy(p)' => \E s \in Actors : Marks(s, p)'
                      /\ \A s \in Actors : Marks(s, p)' =>
                           /\ p \in ready' /\ (proposalRequest'[s].pc # "remove" => NoCopy(p)')
                           /\ \A t \in Actors : Marks(t, p)' => t = s
    BY DEF OneMarks
  <2>1. \A s \in Actors \ {r} : Marks(s, p)' <=> Marks(s, p)
    BY DEF OthersAt, Marks
  <2>2. /\ OneCopy(p)
        /\ p \in ready /\ ~NoCopy(p) => \E s \in Actors : Marks(s, p)
        /\ \A s \in Actors : Marks(s, p) =>
             /\ p \in ready /\ (proposalRequest[s].pc # "remove" => NoCopy(p))
             /\ \A t \in Actors : Marks(t, p) => t = s
    BY DEF ProposalsInv, OneMarks
  <2>3. CASE p = n[1]
    <3>1. Marks(r, p) /\ \A s \in Actors \ {r} : ~Marks(s, p)'
      BY <2>1, <2>2, <2>3 DEF AtName, Marks
    <3>2. Marks(r, p)' <=> proposalRequest'[r].pc # "idle"
      BY <2>3 DEF Marks
    <3> QED BY <2>3, <3>1, <3>2
  <2>4. CASE p # n[1]
    <3>1. ~Marks(r, p) /\ ~Marks(r, p)'
      BY <2>4 DEF AtName, Marks
    <3>2. \A m \in Names : m[1] = p => copies'[m] = copies[m]
      BY <2>4
    <3>3. (OneCopy(p)' <=> OneCopy(p)) /\ (NoCopy(p)' <=> NoCopy(p))
      BY <3>2 DEF OneCopy, NoCopy
    <3>4. p \in ready' <=> p \in ready
      BY <2>4
    <3>5. \A s \in Actors : Marks(s, p)' => proposalRequest'[s].pc = proposalRequest[s].pc
      BY <3>1 DEF OthersAt
    <3> QED BY <2>1, <2>2, <3>1, <3>3, <3>4, <3>5
  <2> QED BY <2>3, <2>4
<1> QED BY <1>4, <1>5, <1>6 DEF ProposalsInv

LEMMA ReadKeeps ==
  ASSUME ProposalsInv, NEW r \in Actors, Proposals!Read(r)
  PROVE  ProposalsInv'
<1>1. proposalRequest[r].pc = "read" /\ proposalRequest[r] \in Marking
  BY RequestOfProposal DEF ProposalsInv, Proposals!Read
<1>2. PICK n \in Names : n = proposalRequest[r].name
  BY <1>1 DEF Marking
<1>3. AtName(r, n)
  BY <1>1, <1>2 DEF AtName
<1>4. /\ UNCHANGED <<ready, copies, draft, staged, second, shared>>
      /\ UNCHANGED <<proposalDoubtful, proposalTorn>>
  BY DEF Proposals!Read, Proposals!proposals, Proposals!files, Proposals!histories
<1>5. PICK x \in MarkRequests :
        /\ Proposals!Becomes(r, x)
        /\ IF n[1] \in ready THEN x.pc = "open" /\ x.name = n ELSE x.pc = "idle"
  <2> DEFINE y == [pc |-> "open", name |-> n]
  <2>1. y \in MarkRequests /\ y.pc = "open" /\ y.name = n
    BY DEF MarkRequests, Marking
  <2>2. Proposals!Becomes(r, IF n[1] \in ready THEN y ELSE Proposals!Idle)
    BY <1>2 DEF Proposals!Read
  <2> HIDE DEF y
  <2>3. Proposals!Idle \in MarkRequests /\ Proposals!Idle.pc = "idle"
    BY DEF MarkRequests, Proposals!Idle
  <2> QED BY <2>1, <2>2, <2>3
<1>6. /\ proposalRequest' \in [Actors -> MarkRequests] /\ proposalRequest'[r] = x /\ OthersAt(r, n)
      /\ \A s \in Actors \ {r} : \A m, place : Holding(s, m, place)' <=> Holding(s, m, place)
  BY <1>5, ProposalRow DEF ProposalsInv
<1>7. ProposalsTyped'
  BY <1>4, <1>6 DEF ProposalsInv, ProposalsTyped
<1>8. (CopySafe(n) => CopySafe(n)') /\ (DraftSafe(n) => DraftSafe(n)')
  BY <1>1, <1>4, <1>6 DEF CopySafe, DraftSafe, Holding
<1>9. proposalRequest'[r].pc # "idle" => proposalRequest'[r].name = n /\ FileSound(r, n)'
  BY <1>5, <1>6 DEF FileSound
<1>10. n[1] \notin proposalDoubtful =>
         /\ OneCopy(n[1])' /\ n[1] \in ready /\ NoCopy(n[1])'
  <2>1. Marks(r, n[1]) /\ n[1] \in Single
    BY <1>1, <1>2, NameShows DEF Marks
  <2> QED BY <1>1, <1>4, <2>1 DEF ProposalsInv, OneMarks, OneCopy, NoCopy
<1>11. proposalTorn \subseteq shared
  BY DEF ProposalsInv, FilesSound
<1> QED BY <1>3, <1>4, <1>5, <1>6, <1>7, <1>8, <1>9, <1>10, <1>11, MarkStep

LEMMA OpenKeeps ==
  ASSUME ProposalsInv, NEW r \in Actors, Proposals!Open(r)
  PROVE  ProposalsInv'
<1>1. proposalRequest[r].pc = "open" /\ proposalRequest[r] \in Marking
  BY RequestOfProposal DEF ProposalsInv, Proposals!Open
<1>2. PICK n \in Names : n = proposalRequest[r].name
  BY <1>1 DEF Marking
<1>3. AtName(r, n)
  BY <1>1, <1>2 DEF AtName
<1> DEFINE x == [pc |-> "write", name |-> n, file |-> "tmp"]
<1>4. /\ UNCHANGED <<ready, copies, staged, second, shared>> /\ draft' = [draft EXCEPT ![n] = "empty"]
      /\ UNCHANGED <<proposalDoubtful, proposalTorn>> /\ Proposals!Becomes(r, x)
  BY <1>2 DEF Proposals!Open, Proposals!KeepsOriginal, Proposals!histories
<1>5. x \in MarkRequests /\ x.pc = "write" /\ x.name = n /\ x.file = "tmp"
  BY DEF MarkRequests, Writer
<1> HIDE DEF x
<1>6. /\ proposalRequest' \in [Actors -> MarkRequests] /\ proposalRequest'[r] = x /\ OthersAt(r, n)
      /\ \A s \in Actors \ {r} : \A m, place : Holding(s, m, place)' <=> Holding(s, m, place)
  BY <1>4, <1>5, ProposalRow DEF ProposalsInv
<1>7. /\ draft' \in [Names -> Proposals!Holds] /\ draft'[n] = "empty"
      /\ \A m \in Names \ {n} : draft'[m] = draft[m]
  BY <1>4 DEF ProposalsInv, ProposalsTyped, Proposals!Holds
<1>8. ProposalsTyped'
  BY <1>4, <1>6, <1>7 DEF ProposalsInv, ProposalsTyped
<1>9. Holding(r, n, "tmp")'
  BY <1>5, <1>6 DEF Holding
<1>10. (CopySafe(n) => CopySafe(n)') /\ DraftSafe(n)'
  BY <1>1, <1>4, <1>6, <1>9 DEF CopySafe, DraftSafe, Holding
<1>11. FileSound(r, n)'
  BY <1>5, <1>6, <1>7, <1>10 DEF FileSound
<1>12. n[1] \notin proposalDoubtful =>
         /\ OneCopy(n[1])' /\ n[1] \in ready /\ NoCopy(n[1])'
  <2>1. Marks(r, n[1]) /\ n[1] \in Single
    BY <1>1, <1>2, NameShows DEF Marks
  <2> QED BY <1>1, <1>4, <2>1 DEF ProposalsInv, OneMarks, OneCopy, NoCopy
<1>13. proposalTorn \subseteq shared
  BY DEF ProposalsInv, FilesSound
<1> QED BY <1>3, <1>4, <1>5, <1>6, <1>7, <1>8, <1>10, <1>11, <1>12, <1>13, MarkStep

(* What a writer finds is empty unless others share the file.               *)
LEMMA WriterFinds ==
  ASSUME ProposalsInv, NEW r \in Actors, proposalRequest[r].pc = "write"
  PROVE  \E n \in Names :
           /\ n = proposalRequest[r].name /\ AtName(r, n) /\ proposalRequest[r] \in Writer
           /\ proposalRequest[r].file \in {"tmp", "copy", "gone"}
           /\ IF n[1] \in shared THEN DraftSafe(n)
              ELSE proposalRequest[r].file = "tmp" /\ draft[n] = "empty"
           /\ n[1] \notin proposalDoubtful => OneCopy(n[1]) /\ n[1] \in ready /\ NoCopy(n[1])
           /\ n[1] \in Single /\ proposalTorn \subseteq shared /\ shared \subseteq proposalDoubtful
<1>1. proposalRequest[r] \in Writer
  BY RequestOfProposal DEF ProposalsInv
<1>2. PICK n \in Names : n = proposalRequest[r].name
  BY <1>1 DEF Writer
<1>3. AtName(r, n) /\ Marks(r, n[1]) /\ n[1] \in Single /\ proposalRequest[r].file \in {"tmp", "copy", "gone"}
  BY <1>1, <1>2, NameShows DEF AtName, Marks, Writer
<1>4. /\ FileSound(r, n) /\ proposalTorn \subseteq shared /\ shared \subseteq proposalDoubtful
  BY <1>3 DEF ProposalsInv, FilesSound
<1>5. n[1] \notin proposalDoubtful => OneCopy(n[1]) /\ n[1] \in ready /\ NoCopy(n[1])
  BY <1>3 DEF ProposalsInv, OneMarks
<1> QED BY <1>1, <1>2, <1>3, <1>4, <1>5 DEF FileSound

LEMMA WriteToKeeps ==
  ASSUME ProposalsInv, NEW n \in Names, NEW place \in {"tmp", "copy", "gone"}, NEW hold \in Proposals!Holds,
         Proposals!WritesTo(place, n, hold)
  PROVE  /\ copies' \in [Names -> Proposals!Holds] /\ draft' \in [Names -> Proposals!Holds]
         /\ \A m \in Names \ {n} : copies'[m] = copies[m] /\ draft'[m] = draft[m]
         /\ place = "tmp" => UNCHANGED copies /\ draft'[n] = hold
         /\ place = "copy" => UNCHANGED draft /\ copies'[n] = hold
         /\ place = "gone" => UNCHANGED <<copies, draft>>
<1>1. CASE place = "tmp"
  BY <1>1 DEF Proposals!WritesTo, ProposalsInv, ProposalsTyped
<1>2. CASE place = "copy"
  BY <1>2 DEF Proposals!WritesTo, ProposalsInv, ProposalsTyped
<1>3. CASE place = "gone"
  BY <1>3 DEF Proposals!WritesTo, Proposals!files, ProposalsInv, ProposalsTyped
<1> QED BY <1>1, <1>2, <1>3

LEMMA MarkWriteKeeps ==
  ASSUME ProposalsInv, NEW r \in Actors, Proposals!Write(r)
  PROVE  ProposalsInv'
<1>1. proposalRequest[r].pc = "write"
  BY DEF Proposals!Write
<1>2. PICK n \in Names :
        /\ n = proposalRequest[r].name /\ AtName(r, n) /\ proposalRequest[r] \in Writer
        /\ proposalRequest[r].file \in {"tmp", "copy", "gone"}
        /\ IF n[1] \in shared THEN DraftSafe(n)
           ELSE proposalRequest[r].file = "tmp" /\ draft[n] = "empty"
        /\ n[1] \notin proposalDoubtful => OneCopy(n[1]) /\ n[1] \in ready /\ NoCopy(n[1])
        /\ n[1] \in Single /\ proposalTorn \subseteq shared /\ shared \subseteq proposalDoubtful
  BY <1>1, WriterFinds
<1> DEFINE place == proposalRequest[r].file
           x == [pc |-> "replace", name |-> n]
           old == CASE place = "tmp" -> draft[n] [] place = "copy" -> copies[n] [] place = "gone" -> "empty"
<1>3. PICK hold \in Proposals!Landed(old) :
        /\ Proposals!WritesTo(place, n, hold)
        /\ proposalTorn' = proposalTorn \cup {y \in {n[1]} : hold = "broken"}
  BY <1>2 DEF Proposals!Write
<1>4. /\ UNCHANGED <<ready, staged, second, shared, proposalDoubtful>> /\ Proposals!Becomes(r, x)
  BY <1>2 DEF Proposals!Write
<1>5. x \in MarkRequests /\ x.pc = "replace" /\ x.name = n
  BY DEF MarkRequests, Marking
<1>6. hold \in {"whole", "broken"} /\ (old = "empty" => hold = "whole")
  BY DEF Proposals!Landed
<1>7. n[1] \notin shared => place = "tmp" /\ hold = "whole"
  BY <1>2, <1>6
<1> HIDE DEF x, old, place
<1>8. /\ copies' \in [Names -> Proposals!Holds] /\ draft' \in [Names -> Proposals!Holds]
      /\ \A m \in Names \ {n} : copies'[m] = copies[m] /\ draft'[m] = draft[m]
      /\ place = "tmp" => UNCHANGED copies /\ draft'[n] = hold
      /\ place = "copy" => UNCHANGED draft /\ copies'[n] = hold
      /\ place = "gone" => UNCHANGED <<copies, draft>>
  <2>1. place \in {"tmp", "copy", "gone"} /\ hold \in Proposals!Holds
    BY <1>2, <1>6 DEF place, Proposals!Holds
  <2> QED BY <1>3, <2>1, WriteToKeeps
<1>9. /\ proposalRequest' \in [Actors -> MarkRequests] /\ proposalRequest'[r] = x /\ OthersAt(r, n)
      /\ \A s \in Actors \ {r} : \A m, p : Holding(s, m, p)' <=> Holding(s, m, p)
  BY <1>4, <1>5, ProposalRow DEF ProposalsInv
<1>10. ProposalsTyped'
  BY <1>4, <1>8, <1>9 DEF ProposalsInv, ProposalsTyped
<1>11. /\ \A s \in Actors : \A p : p # place /\ Holding(s, n, p) => Holding(s, n, p)'
       /\ proposalTorn \subseteq proposalTorn' /\ (hold = "broken" => n[1] \in proposalTorn')
       /\ proposalTorn' \subseteq shared
  BY <1>2, <1>3, <1>6, <1>7, <1>9 DEF Holding, place
<1>12. CopySafe(n) => CopySafe(n)'
  BY <1>2, <1>6, <1>8, <1>11 DEF CopySafe, place
<1>13. DraftSafe(n) => DraftSafe(n)'
  BY <1>2, <1>6, <1>8, <1>11 DEF DraftSafe, place
<1>14. FileSound(r, n)'
  BY <1>2, <1>4, <1>5, <1>7, <1>8, <1>9, <1>13 DEF FileSound
<1>15. n[1] \notin proposalDoubtful => OneCopy(n[1])' /\ n[1] \in ready /\ NoCopy(n[1])'
  BY <1>2, <1>7, <1>8 DEF OneCopy, NoCopy
<1> QED BY <1>2, <1>4, <1>5, <1>8, <1>9, <1>10, <1>11, <1>12, <1>13, <1>14, <1>15, MarkStep

LEMMA MarkRaiseKeeps ==
  ASSUME ProposalsInv, NEW r \in Actors, Proposals!Raise(r)
  PROVE  ProposalsInv'
<1>1. proposalRequest[r].pc \in {"open", "write"}
  BY DEF Proposals!Raise
<1>2. PICK n \in Names : n = proposalRequest[r].name
  BY <1>1, RequestOfProposal DEF ProposalsInv
<1>3. AtName(r, n) /\ n[1] \in Single /\ proposalTorn \subseteq shared /\ shared \subseteq proposalDoubtful
  BY <1>1, <1>2, NameShows DEF AtName, ProposalsInv, FilesSound
<1>4. /\ UNCHANGED <<ready, staged, second, shared, proposalDoubtful>>
      /\ Proposals!Becomes(r, Proposals!Idle)
      /\ proposalTorn' = proposalTorn \cup ({n[1]} \cap shared)
  BY <1>2 DEF Proposals!Raise
<1>5. /\ copies' \in [Names -> Proposals!Holds] /\ draft' \in [Names -> Proposals!Holds]
      /\ \A m \in Names \ {n} : copies'[m] = copies[m] /\ draft'[m] = draft[m]
      /\ n[1] \notin shared => UNCHANGED copies
  <2>1. CASE UNCHANGED <<copies, draft>>
    BY <2>1 DEF ProposalsInv, ProposalsTyped
  <2>2. CASE proposalRequest[r].pc = "write" /\ Proposals!WritesTo(proposalRequest[r].file, n, "broken")
    <3>1. proposalRequest[r].file \in {"tmp", "copy", "gone"} /\ "broken" \in Proposals!Holds
      BY <2>2, WriterFinds DEF Proposals!Holds
    <3>2. n[1] \notin shared => proposalRequest[r].file = "tmp"
      BY <1>2, <2>2, WriterFinds
    <3> QED BY <2>2, <3>1, <3>2, WriteToKeeps
  <2> QED BY <1>2, <2>1, <2>2 DEF Proposals!Raise, Proposals!files
<1>6. Proposals!Idle \in MarkRequests /\ Proposals!Idle.pc = "idle"
  BY DEF MarkRequests, Proposals!Idle
<1>7. /\ proposalRequest' \in [Actors -> MarkRequests] /\ proposalRequest'[r].pc = "idle" /\ OthersAt(r, n)
      /\ \A s \in Actors \ {r} : \A m, p : Holding(s, m, p)' <=> Holding(s, m, p)
  BY <1>4, <1>6, ProposalRow DEF ProposalsInv
<1>8. ProposalsTyped'
  BY <1>4, <1>5, <1>7 DEF ProposalsInv, ProposalsTyped
<1>9. CopySafe(n) => CopySafe(n)'
  <2>1. CASE n[1] \in shared
    BY <1>4, <2>1 DEF CopySafe
  <2>2. CASE n[1] \notin shared
    <3>1. ~Holding(r, n, "copy")
      BY <1>2, <2>2, WriterFinds DEF Holding
    <3> QED BY <1>4, <1>5, <1>7, <2>2, <3>1 DEF CopySafe
  <2> QED BY <2>1, <2>2
<1>10. n[1] \in shared => DraftSafe(n)'
  BY <1>4 DEF DraftSafe
<1>11. n[1] \notin proposalDoubtful => OneCopy(n[1])' /\ NoCopy(n[1])'
  <2>1. Marks(r, n[1])
    BY <1>1, <1>2 DEF Marks
  <2> QED BY <1>1, <1>3, <1>5, <2>1 DEF ProposalsInv, OneMarks, OneCopy, NoCopy
<1> QED BY <1>3, <1>4, <1>5, <1>7, <1>8, <1>9, <1>10, <1>11, MarkStep

LEMMA PutInPlaceKeeps ==
  ASSUME ProposalsInv, NEW r \in Actors, Proposals!Replace(r)
  PROVE  ProposalsInv'
<1>1. proposalRequest[r].pc = "replace" /\ proposalRequest[r] \in Marking
  BY RequestOfProposal DEF ProposalsInv, Proposals!Replace
<1>2. PICK n \in Names : n = proposalRequest[r].name
  BY <1>1 DEF Marking
<1>3. /\ AtName(r, n) /\ n[1] \in Single /\ Marks(r, n[1]) /\ FileSound(r, n)
      /\ proposalTorn \subseteq shared /\ shared \subseteq proposalDoubtful
  BY <1>1, <1>2, NameShows DEF AtName, Marks, ProposalsInv, FilesSound
<1>4. /\ UNCHANGED <<ready, staged, second, shared>>
      /\ UNCHANGED <<proposalDoubtful, proposalTorn>>
  BY DEF Proposals!Replace, Proposals!histories
<1>5. n[1] \notin proposalDoubtful => OneCopy(n[1]) /\ n[1] \in ready /\ NoCopy(n[1])
  BY <1>1, <1>3 DEF ProposalsInv, OneMarks
<1>6. CASE draft[n] = "none" /\ Proposals!Becomes(r, Proposals!Idle) /\ UNCHANGED <<copies, draft>>
  <2>1. Proposals!Idle \in MarkRequests /\ Proposals!Idle.pc = "idle"
    BY DEF MarkRequests, Proposals!Idle
  <2>2. /\ proposalRequest' \in [Actors -> MarkRequests] /\ proposalRequest'[r].pc = "idle" /\ OthersAt(r, n)
        /\ \A s \in Actors \ {r} : \A m, p : Holding(s, m, p)' <=> Holding(s, m, p)
    BY <1>6, <2>1, ProposalRow DEF ProposalsInv
  <2>3. ProposalsTyped'
    BY <1>4, <1>6, <2>2 DEF ProposalsInv, ProposalsTyped
  <2>4. (CopySafe(n) => CopySafe(n)') /\ (DraftSafe(n) => DraftSafe(n)')
    BY <1>1, <1>4, <1>6, <2>2 DEF CopySafe, DraftSafe, Holding
  <2>5. OneCopy(n[1])' <=> OneCopy(n[1])
    BY <1>6 DEF OneCopy
  <2>6. NoCopy(n[1])' <=> NoCopy(n[1])
    BY <1>6 DEF NoCopy
  <2> QED BY <1>3, <1>4, <1>5, <1>6, <2>2, <2>3, <2>4, <2>5, <2>6, MarkStep
<1>7. CASE /\ draft[n] # "none"
           /\ copies' = [copies EXCEPT ![n] = draft[n]] /\ draft' = [draft EXCEPT ![n] = "none"]
           /\ proposalRequest' = [other \in Actors |->
                IF other = r THEN [pc |-> "remove", name |-> n]
                ELSE Proposals!Moved(proposalRequest[other], n)]
  <2> DEFINE x == [pc |-> "remove", name |-> n]
  <2>1. x \in MarkRequests /\ x.pc = "remove" /\ x.name = n
    BY DEF MarkRequests, Marking
  <2>2. /\ proposalRequest'[r] = x
        /\ \A s \in Actors \ {r} : proposalRequest'[s] = Proposals!Moved(proposalRequest[s], n)
        /\ proposalRequest' = [other \in Actors |->
             IF other = r THEN x ELSE Proposals!Moved(proposalRequest[other], n)]
    BY <1>7
  <2> HIDE DEF x
  <2>3. ASSUME NEW s \in Actors
        PROVE  /\ Proposals!Moved(proposalRequest[s], n) \in MarkRequests
               /\ Proposals!Moved(proposalRequest[s], n).pc = proposalRequest[s].pc
               /\ proposalRequest[s].pc # "idle" =>
                    Proposals!Moved(proposalRequest[s], n).name = proposalRequest[s].name
               /\ proposalRequest[s].pc # "write" \/ proposalRequest[s].name # n =>
                    Proposals!Moved(proposalRequest[s], n) = proposalRequest[s]
               /\ Holding(s, n, "tmp") => Proposals!Moved(proposalRequest[s], n).file = "copy"
    <3>1. CASE proposalRequest[s].pc # "write" \/ proposalRequest[s].name # n
      BY <3>1, RequestOfProposal DEF Proposals!Moved, ProposalsInv, Holding
    <3>2. CASE proposalRequest[s].pc = "write" /\ proposalRequest[s].name = n
      <4>1. proposalRequest[s] \in Writer
        BY <3>2, RequestOfProposal DEF ProposalsInv
      <4> DEFINE z == [proposalRequest[s] EXCEPT !.file = IF @ = "tmp" THEN "copy" ELSE "gone"]
      <4>2. /\ z \in Writer /\ z.pc = proposalRequest[s].pc /\ z.name = proposalRequest[s].name
            /\ proposalRequest[s].file = "tmp" => z.file = "copy"
        BY <4>1 DEF Writer
      <4>3. Proposals!Moved(proposalRequest[s], n) = z
        BY <3>2 DEF Proposals!Moved
      <4> HIDE DEF z
      <4> QED BY <3>2, <4>2, <4>3 DEF MarkRequests, Holding
    <3> QED BY <3>1, <3>2
  <2>4. proposalRequest' \in [Actors -> MarkRequests]
    BY <2>1, <2>2, <2>3
  <2>5. OthersAt(r, n)
    <3> SUFFICES ASSUME NEW s \in Actors \ {r}
                 PROVE  /\ proposalRequest'[s].pc = proposalRequest[s].pc
                        /\ proposalRequest[s].pc # "idle" =>
                             proposalRequest'[s].name = proposalRequest[s].name
                        /\ proposalRequest[s].name # n => proposalRequest'[s] = proposalRequest[s]
      BY DEF OthersAt
    <3> QED BY <2>2, <2>3
  <2>6. /\ copies' \in [Names -> Proposals!Holds] /\ draft' \in [Names -> Proposals!Holds]
        /\ copies'[n] = draft[n] /\ draft'[n] = "none"
        /\ \A m \in Names \ {n} : copies'[m] = copies[m] /\ draft'[m] = draft[m]
    BY <1>7 DEF ProposalsInv, ProposalsTyped, Proposals!Holds
  <2>7. ProposalsTyped'
    BY <1>4, <2>4, <2>6 DEF ProposalsInv, ProposalsTyped
  <2>8. DraftSafe(n)'
    BY <2>6 DEF DraftSafe
  <2>9. CopySafe(n)'
    <3>1. CASE draft[n] = "whole"
      BY <2>6, <3>1 DEF CopySafe
    <3>2. CASE draft[n] # "whole"
      <4>1. DraftSafe(n)
        BY <1>1, <1>3, <3>2 DEF FileSound
      <4>2. CASE n[1] \in proposalTorn
        BY <1>4, <4>2 DEF CopySafe
      <4>3. CASE \E w \in Actors : Holding(w, n, "tmp")
        <5> PICK w \in Actors : Holding(w, n, "tmp")
          BY <4>3
        <5>1. w # r
          BY <1>1 DEF Holding
        <5>2. Holding(w, n, "copy")'
          BY <2>2, <2>3, <5>1 DEF Holding
        <5> QED BY <5>2 DEF CopySafe
      <4> QED BY <1>7, <3>2, <4>1, <4>2, <4>3 DEF DraftSafe
    <3> QED BY <3>1, <3>2
  <2>10. FileSound(r, n)'
    BY <2>1, <2>2, <2>9 DEF FileSound
  <2>11. n[1] \notin proposalDoubtful => OneCopy(n[1])'
    BY <1>5, <2>6 DEF OneCopy, NoCopy
  <2> QED BY <1>3, <1>4, <1>5, <2>1, <2>2, <2>5, <2>6, <2>7, <2>8, <2>9, <2>10, <2>11, MarkStep
<1> QED BY <1>2, <1>6, <1>7 DEF Proposals!Replace, Proposals!files

LEMMA RemoveKeeps ==
  ASSUME ProposalsInv, NEW r \in Actors, Proposals!RemoveOriginal(r)
  PROVE  ProposalsInv'
<1>1. proposalRequest[r].pc = "remove" /\ proposalRequest[r] \in Marking
  BY RequestOfProposal DEF ProposalsInv, Proposals!RemoveOriginal
<1>2. PICK n \in Names : n = proposalRequest[r].name
  BY <1>1 DEF Marking
<1>3. /\ AtName(r, n) /\ n[1] \in Single /\ Marks(r, n[1]) /\ CopySafe(n)
      /\ proposalTorn \subseteq shared /\ shared \subseteq proposalDoubtful
  BY <1>1, <1>2, NameShows DEF AtName, Marks, ProposalsInv, FilesSound, FileSound
<1>4. /\ UNCHANGED <<copies, draft, staged, second, shared, proposalTorn>>
      /\ Proposals!Becomes(r, Proposals!Idle)
      /\ \/ ready' = ready \ {n[1]} /\ UNCHANGED proposalDoubtful
         \/ UNCHANGED ready /\ proposalDoubtful' = proposalDoubtful \cup {n[1]}
  BY <1>2 DEF Proposals!RemoveOriginal, Proposals!files
<1>5. Proposals!Idle \in MarkRequests /\ Proposals!Idle.pc = "idle"
  BY DEF MarkRequests, Proposals!Idle
<1>6. /\ proposalRequest' \in [Actors -> MarkRequests] /\ proposalRequest'[r].pc = "idle" /\ OthersAt(r, n)
      /\ \A s \in Actors \ {r} : \A m, p : Holding(s, m, p)' <=> Holding(s, m, p)
  BY <1>4, <1>5, ProposalRow DEF ProposalsInv
<1>7. ProposalsTyped'
  BY <1>4, <1>6 DEF ProposalsInv, ProposalsTyped
<1>8. (CopySafe(n) => CopySafe(n)') /\ (DraftSafe(n) => DraftSafe(n)')
  BY <1>1, <1>4, <1>6 DEF CopySafe, DraftSafe, Holding
<1>9. n[1] \notin proposalDoubtful' => OneCopy(n[1])' /\ n[1] \notin ready'
  BY <1>3, <1>4 DEF ProposalsInv, OneMarks, OneCopy
<1> QED BY <1>3, <1>4, <1>6, <1>7, <1>8, <1>9, MarkStep

LEMMA MarkKeeps ==
  ASSUME ProposalsInv, NEW r \in Actors, NEW p \in Single, NEW hasKey \in BOOLEAN,
         Proposals!MarkSubmitted(r, p, hasKey)
  PROVE  ProposalsInv'
<1> DEFINE n == <<p, second>>
           x == [pc |-> "read", name |-> n]
<1>1. n \in Names /\ n[1] = p /\ n[2] = second
  BY DEF Names, Proposals!Names, ProposalsInv, ProposalsTyped
<1>2. x \in MarkRequests /\ x.pc = "read" /\ x.name = n
  BY <1>1 DEF MarkRequests, Marking
<1>3. /\ Proposals!Becomes(r, x) /\ p \in ready /\ proposalRequest[r].pc = "idle"
      /\ UNCHANGED <<ready, copies, draft, staged, second, proposalTorn>>
  BY DEF Proposals!MarkSubmitted, Proposals!files, Proposals!Idle
<1>4. /\ proposalDoubtful' = proposalDoubtful \cup {y \in {p} : \E s \in Actors : Marks(s, y)}
      /\ shared' = shared \cup {y \in {p} : \E s \in Actors : Marks(s, y) /\ proposalRequest[s].name[2] = second}
  <2>1. \A y : Proposals!Marks(y) = {s \in Actors : Marks(s, y)}
    BY RequestOfProposal DEF Proposals!Marks, Marks, ProposalsInv
  <2> QED BY <2>1 DEF Proposals!MarkSubmitted
<1> HIDE DEF x
<1>5. /\ proposalRequest' \in [Actors -> MarkRequests] /\ proposalRequest'[r] = x
      /\ \A s \in Actors \ {r} : proposalRequest'[s] = proposalRequest[s]
  BY <1>2, <1>3, ProposalRow DEF ProposalsInv
<1>6. \A s \in Actors : \A m, place : Holding(s, m, place)' <=> Holding(s, m, place)
  BY <1>2, <1>3, <1>5 DEF Holding
<1>7. \A m : (CopySafe(m)' <=> CopySafe(m)) /\ (DraftSafe(m)' <=> DraftSafe(m))
  BY <1>3, <1>6 DEF CopySafe, DraftSafe
<1>8. ProposalsTyped'
  BY <1>3, <1>5 DEF ProposalsInv, ProposalsTyped
<1>9. FilesSound'
  <2>1. proposalTorn' \subseteq shared' /\ shared' \subseteq proposalDoubtful'
    BY <1>3, <1>4 DEF ProposalsInv, FilesSound
  <2>2. ASSUME NEW s \in Actors, NEW m \in Names, AtName(s, m)'
        PROVE  FileSound(s, m)'
    <3>1. CASE s = r
      BY <1>2, <1>5, <3>1 DEF FileSound
    <3>2. CASE s # r
      <4>1. AtName(s, m) /\ FileSound(s, m) /\ proposalRequest'[s] = proposalRequest[s]
        BY <1>5, <2>2, <3>2 DEF AtName, ProposalsInv, FilesSound
      <4>2. m[1] \in shared => m[1] \in shared'
        BY <1>4
      <4>3. proposalRequest[s].pc = "write" /\ m[1] \notin shared => DraftSafe(m)
        BY <4>1 DEF FileSound, DraftSafe, Holding, AtName
      <4>4. proposalRequest[s].pc = "replace" /\ m[1] \notin shared => DraftSafe(m)
        BY <4>1 DEF FileSound, DraftSafe
      <4> QED BY <1>3, <1>7, <4>1, <4>2, <4>3, <4>4 DEF FileSound
    <3> QED BY <3>1, <3>2
  <2>3. ASSUME NEW s \in Actors, NEW t \in Actors, NEW m \in Names, AtName(s, m)', AtName(t, m)', t # s
        PROVE  m[1] \in shared'
    <3>1. CASE s # r /\ t # r
      BY <1>4, <1>5, <2>3, <3>1 DEF AtName, ProposalsInv, FilesSound
    <3>2. CASE s = r \/ t = r
      <4>1. m = n
        BY <1>2, <1>5, <2>3, <3>2 DEF AtName
      <4>2. PICK o \in {s, t} : o # r
        BY <2>3
      <4>3. proposalRequest[o].pc # "idle" /\ proposalRequest[o].name = n
        BY <1>5, <2>3, <4>1, <4>2 DEF AtName
      <4>4. Marks(o, p) /\ proposalRequest[o].name[2] = second
        BY <1>1, <4>3 DEF Marks
      <4> QED BY <1>1, <1>4, <4>1, <4>4
    <3> QED BY <3>1, <3>2
  <2> QED BY <2>1, <2>2, <2>3 DEF FilesSound
<1>10. ReviewedOrCopied'
  <2>1. p \in staged
    BY <1>3 DEF ProposalsInv, ProposalsTyped
  <2>2. \A s \in Actors, m \in Names : AtName(s, m)' => AtName(s, m) \/ m = n
    BY <1>2, <1>5 DEF AtName
  <2> QED BY <1>1, <1>3, <1>7, <2>1, <2>2 DEF ProposalsInv, ReviewedOrCopied
<1>11. OneMarks'
  <2> SUFFICES ASSUME NEW q \in Single, q \notin proposalDoubtful'
               PROVE  /\ OneCopy(q)'
                      /\ q \in ready /\ ~NoCopy(q)' => \E s \in Actors : Marks(s, q)'
                      /\ \A s \in Actors : Marks(s, q)' =>
                           /\ q \in ready /\ (proposalRequest'[s].pc # "remove" => NoCopy(q)')
                           /\ \A t \in Actors : Marks(t, q)' => t = s
    BY <1>3 DEF OneMarks
  <2>1. (OneCopy(q)' <=> OneCopy(q)) /\ (NoCopy(q)' <=> NoCopy(q))
    BY <1>3 DEF OneCopy, NoCopy
  <2>2. q \notin proposalDoubtful /\ \A s \in Actors \ {r} : Marks(s, q)' <=> Marks(s, q)
    BY <1>4, <1>5 DEF Marks
  <2>3. (Marks(r, q)' <=> q = p) /\ ~Marks(r, q)
    BY <1>1, <1>2, <1>3, <1>5 DEF Marks
  <2>4. CASE q = p
    <3>1. \A s \in Actors : ~Marks(s, p)
      BY <1>4, <2>4
    <3>2. OneCopy(p) /\ NoCopy(p)
      BY <1>3, <2>2, <2>4, <3>1 DEF ProposalsInv, OneMarks
    <3> QED BY <1>3, <2>1, <2>2, <2>3, <2>4, <3>1, <3>2
  <2>5. CASE q # p
    <3>1. \A s \in Actors : Marks(s, q)' <=> Marks(s, q)
      BY <2>2, <2>3, <2>5
    <3>2. \A s \in Actors : Marks(s, q) => s # r /\ proposalRequest'[s] = proposalRequest[s]
      BY <1>5, <2>3
    <3> QED BY <2>1, <2>2, <3>1, <3>2 DEF ProposalsInv, OneMarks
  <2> QED BY <2>4, <2>5
<1> QED BY <1>8, <1>9, <1>10, <1>11 DEF ProposalsInv

LEMMA ProposalsRestartKeeps ==
  ASSUME ProposalsInv, Proposals!Restart
  PROVE  ProposalsInv'
<1>1. /\ UNCHANGED <<ready, copies, draft, staged, second, shared>>
      /\ \A r \in Actors : proposalRequest'[r] = Proposals!Idle
      /\ proposalRequest' \in [Actors -> MarkRequests]
  BY DEF Proposals!Restart, Proposals!files, MarkRequests
<1>2. \A r \in Actors : proposalRequest'[r].pc = "idle"
  BY <1>1 DEF Proposals!Idle
<1>3. /\ proposalDoubtful' = proposalDoubtful \cup
           {p \in Single : \E r \in Actors : Marks(r, p) /\ proposalRequest[r].pc = "remove"}
      /\ proposalTorn' = proposalTorn \cup
           {p \in shared : \E r \in Actors : Marks(r, p) /\ proposalRequest[r].pc = "write"}
  <2>1. \A y : Proposals!Marks(y) = {s \in Actors : Marks(s, y)}
    BY RequestOfProposal DEF Proposals!Marks, Marks, ProposalsInv
  <2> QED BY <2>1 DEF Proposals!Restart
<1>4. ProposalsTyped'
  BY <1>1 DEF ProposalsInv, ProposalsTyped
<1>5. FilesSound'
  <2>1. \A r \in Actors : \A m : ~AtName(r, m)'
    BY <1>2 DEF AtName
  <2> QED BY <1>1, <1>3, <2>1 DEF ProposalsInv, FilesSound
<1>6. ReviewedOrCopied'
  <2>1. ASSUME NEW m \in Names, CopySafe(m)
        PROVE  CopySafe(m)'
    <3>1. CASE copies[m] = "whole" \/ m[1] \in proposalTorn
      BY <1>1, <1>3, <3>1 DEF CopySafe
    <3>2. CASE \E r \in Actors : Holding(r, m, "copy")
      <4> PICK r \in Actors : Holding(r, m, "copy")
        BY <3>2
      <4>1. AtName(r, m) /\ Marks(r, m[1]) /\ proposalRequest[r].pc = "write"
        BY DEF Holding, AtName, Marks
      <4>2. m[1] \in shared
        BY <4>1 DEF ProposalsInv, FilesSound, FileSound, Holding
      <4> QED BY <1>3, <4>1, <4>2 DEF CopySafe
    <3> QED BY <2>1, <3>1, <3>2 DEF CopySafe
  <2>2. \A r \in Actors : \A m : ~AtName(r, m)'
    BY <1>2 DEF AtName
  <2> QED BY <1>1, <1>3, <2>1, <2>2 DEF ProposalsInv, ReviewedOrCopied
<1>7. OneMarks'
  <2> SUFFICES ASSUME NEW q \in Single, q \notin proposalDoubtful'
               PROVE  OneCopy(q) /\ (q \in ready => NoCopy(q))
    BY <1>1, <1>2 DEF OneMarks, OneCopy, NoCopy, Marks
  <2> QED BY <1>3 DEF ProposalsInv, OneMarks
<1> QED BY <1>4, <1>5, <1>6, <1>7 DEF ProposalsInv

LEMMA StageKeeps ==
  ASSUME ProposalsInv, NEW p \in Single, Proposals!Stage(p)
  PROVE  ProposalsInv'
<1>1. /\ p \notin staged /\ ready' = ready \cup {p} /\ staged' = staged \cup {p}
      /\ UNCHANGED <<copies, draft, second, proposalRequest>>
      /\ UNCHANGED <<proposalDoubtful, shared, proposalTorn>>
  BY DEF Proposals!Stage, Proposals!files, Proposals!histories
<1>2. \A m : (CopySafe(m)' <=> CopySafe(m)) /\ (DraftSafe(m)' <=> DraftSafe(m))
  BY <1>1 DEF CopySafe, DraftSafe, Holding
<1>3. \A r, m : (AtName(r, m)' <=> AtName(r, m)) /\ (FileSound(r, m)' <=> FileSound(r, m))
  BY <1>1, <1>2 DEF AtName, FileSound
<1>4. ProposalsTyped' /\ FilesSound'
  BY <1>1, <1>3 DEF ProposalsInv, ProposalsTyped, FilesSound
<1>5. ReviewedOrCopied'
  BY <1>1, <1>2, <1>3 DEF ProposalsInv, ReviewedOrCopied
<1>6. OneMarks'
  <2>1. NoCopy(p)
    BY <1>1 DEF ProposalsInv, ReviewedOrCopied, NoCopy
  <2>2. \A q : (NoCopy(q)' <=> NoCopy(q)) /\ (OneCopy(q)' <=> OneCopy(q))
    BY <1>1 DEF NoCopy, OneCopy
  <2>3. \A r, q : Marks(r, q)' <=> Marks(r, q)
    BY <1>1 DEF Marks
  <2> QED BY <1>1, <2>1, <2>2, <2>3 DEF ProposalsInv, OneMarks
<1> QED BY <1>4, <1>5, <1>6 DEF ProposalsInv

LEMMA ProposalsStand ==
  ASSUME ProposalsInv, UNCHANGED <<ready, copies, draft, staged, proposalRequest>>,
         UNCHANGED <<proposalDoubtful, shared, proposalTorn>>, second' \in Proposals!Seconds
  PROVE  ProposalsInv'
<1>1. \A m : (CopySafe(m)' <=> CopySafe(m)) /\ (DraftSafe(m)' <=> DraftSafe(m))
  BY DEF CopySafe, DraftSafe, Holding
<1>2. \A r, m : (AtName(r, m)' <=> AtName(r, m)) /\ (FileSound(r, m)' <=> FileSound(r, m))
  BY <1>1 DEF AtName, FileSound
<1>3. ProposalsTyped' /\ FilesSound'
  BY <1>2 DEF ProposalsInv, ProposalsTyped, FilesSound
<1>4. ReviewedOrCopied'
  BY <1>1, <1>2 DEF ProposalsInv, ReviewedOrCopied
<1>5. OneMarks'
  BY DEF ProposalsInv, OneMarks, NoCopy, OneCopy, Marks
<1> QED BY <1>3, <1>4, <1>5 DEF ProposalsInv

LEMMA ProposalsStep ==
  ASSUME ProposalsInv, Proposals!Next
  PROVE  ProposalsInv'
<1>1. CASE UNCHANGED <<ready, copies, draft, staged, second, proposalRequest>>
           /\ UNCHANGED <<proposalDoubtful, shared, proposalTorn>>
  <2>1. second' \in Proposals!Seconds
    BY <1>1 DEF ProposalsInv, ProposalsTyped
  <2> QED BY <1>1, <2>1, ProposalsStand
<1>2. CASE Proposals!Tick
  <2>1. second' \in Proposals!Seconds
    <3>1. second \in 1..MaxSeconds /\ second < MaxSeconds /\ second' = second + 1
      BY <1>2 DEF Proposals!Tick, ProposalsInv, ProposalsTyped, Proposals!Seconds
    <3>2. MaxSeconds \in Nat
      BY WindowAssumption
    <3>3. second' \in 1..MaxSeconds
      BY <3>1, <3>2
    <3> QED BY <3>3 DEF Proposals!Seconds
  <2>2. UNCHANGED <<ready, copies, draft, staged, proposalRequest>>
        /\ UNCHANGED <<proposalDoubtful, shared, proposalTorn>>
    BY <1>2 DEF Proposals!Tick, Proposals!files, Proposals!histories
  <2> QED BY <2>1, <2>2, ProposalsStand
<1> HIDE DEF ProposalsInv
<1>3. CASE \/ \E t \in SessionTokens : Proposals!CreateSession(t)
           \/ \E i \in DOMAIN sessions : Proposals!Logout(i)
           \/ Proposals!Expire \/ Proposals!Ended
  BY <1>1, <1>3 DEF Proposals!CreateSession, Proposals!Logout, Proposals!Expire, Proposals!Ended,
    Proposals!vars, Proposals!proposals, Proposals!files, Proposals!histories
<1> QED BY <1>2, <1>3, StageKeeps, MarkKeeps, ReadKeeps, OpenKeeps, MarkWriteKeeps, MarkRaiseKeeps,
      PutInPlaceKeeps, RemoveKeeps, ProposalsRestartKeeps
    DEF Proposals!Next

LEMMA ProposalsInvariance == Behaviour => [](Is("proposals") => ProposalsInv)
<1>1. SumInit => (Is("proposals") => ProposalsInv)
  <2>1. ASSUME Proposals!Init PROVE ProposalsInv
    <3>1. /\ ready = {} /\ staged = {} /\ second = 1
          /\ copies = [n \in Names |-> "none"] /\ draft = [n \in Names |-> "none"]
          /\ proposalRequest = [r \in Actors |-> Proposals!Idle]
          /\ proposalDoubtful = {} /\ shared = {} /\ proposalTorn = {}
      BY <2>1 DEF Proposals!Init, Names
    <3>2. 1 \in Proposals!Seconds
      BY WindowAssumption DEF Proposals!Seconds
    <3>3. \A r \in Actors : proposalRequest[r].pc = "idle"
      BY <3>1 DEF Proposals!Idle
    <3>4. ProposalsTyped
      BY <3>1, <3>2 DEF ProposalsTyped, MarkRequests, Proposals!Holds
    <3>5. FilesSound
      BY <3>1, <3>3 DEF FilesSound, AtName
    <3>6. ReviewedOrCopied
      BY <3>1, <3>3 DEF ReviewedOrCopied, AtName
    <3>7. OneMarks
      BY <3>1, <3>3 DEF OneMarks, NoCopy, OneCopy, Marks
    <3> QED BY <3>4, <3>5, <3>6, <3>7 DEF ProposalsInv
  <2> QED BY <2>1 DEF SumInit
<1>2. (Is("proposals") => ProposalsInv) /\ [SumNext]_all => (Is("proposals") => ProposalsInv)'
  <2> SUFFICES ASSUME Is("proposals") => ProposalsInv, [SumNext]_all, Is("proposals")'
               PROVE  ProposalsInv'
    OBVIOUS
  <2>1. ProposalsInv /\ (Proposals!Next \/ UNCHANGED proposalVars)
    BY OneRuns DEF Is
  <2>2. CASE UNCHANGED proposalVars
    <3>1. UNCHANGED <<ready, copies, draft, staged, proposalRequest>>
          /\ UNCHANGED <<proposalDoubtful, shared, proposalTorn>>
      BY <2>2 DEF proposalVars
    <3>2. second' \in Proposals!Seconds
      BY <2>1, <2>2 DEF proposalVars, ProposalsInv, ProposalsTyped
    <3> QED BY <2>1, <3>1, <3>2, ProposalsStand
  <2> QED BY <2>1, <2>2, ProposalsStep
<1> QED BY <1>1, <1>2, PTL DEF Behaviour

(* A staged proposal is to be reviewed, copied or being copied, unless its  *)
(* shared file was torn, for any number of proposals and requests.         *)
THEOREM ProposalsKept == Behaviour => []ProposalsAreKept
<1>1. (Is("proposals") => ProposalsInv) => ProposalsAreKept
  <2> SUFFICES ASSUME ProposalsInv PROVE Proposals!ProposalsAreKept
    BY DEF ProposalsAreKept
  <2> SUFFICES ASSUME NEW p \in staged
               PROVE  /\ \/ p \in ready \/ p \in proposalTorn
                         \/ \E s \in Proposals!Seconds : Proposals!IsCopied(<<p, s>>)
                      /\ proposalTorn \subseteq shared
                      /\ \A s \in Proposals!Seconds : copies[<<p, s>>] # "none" =>
                           /\ p \in ready /\ Proposals!Marks(p) = {} => p \in proposalDoubtful
                           /\ \A t \in Proposals!Seconds \ {s} :
                                copies[<<p, t>>] # "none" => p \in proposalDoubtful
    BY DEF Proposals!ProposalsAreKept
  <2>1. p \in Single /\ proposalTorn \subseteq shared
    BY DEF ProposalsInv, ProposalsTyped, FilesSound
  <2>2. ASSUME p \notin ready, p \notin proposalTorn
        PROVE  \E s \in Proposals!Seconds : Proposals!IsCopied(<<p, s>>)
    <3>1. PICK m \in Names : m[1] = p /\ CopySafe(m)
      BY <2>2 DEF ProposalsInv, ReviewedOrCopied
    <3>2. m[2] \in Proposals!Seconds /\ m = <<p, m[2]>>
      BY <3>1, NameShows
    <3>3. Proposals!IsCopied(m)
      BY <2>2, <3>1 DEF CopySafe, Holding, Proposals!IsCopied, Proposals!Writes
    <3> QED BY <3>2, <3>3
  <2>3. ASSUME p \notin proposalDoubtful, NEW s \in Proposals!Seconds, copies[<<p, s>>] # "none"
        PROVE  /\ ~(p \in ready /\ Proposals!Marks(p) = {})
               /\ \A t \in Proposals!Seconds \ {s} : copies[<<p, t>>] = "none"
    <3>1. \A t \in Proposals!Seconds : <<p, t>> \in Names
      BY <2>1 DEF Names, Proposals!Names
    <3>2. ~NoCopy(p) /\ OneCopy(p)
      BY <2>1, <2>3, <3>1 DEF NoCopy, ProposalsInv, OneMarks
    <3>3. \A t \in Proposals!Seconds : copies[<<p, t>>] # "none" => <<p, t>> = <<p, s>>
      BY <2>3, <3>1, <3>2 DEF OneCopy
    <3>4. p \in ready => \E r \in Actors : Marks(r, p)
      BY <2>1, <2>3, <3>2 DEF ProposalsInv, OneMarks
    <3>5. \A r \in Actors : Marks(r, p) => r \in Proposals!Marks(p)
      BY DEF Marks, Proposals!Marks, Proposals!Idle
    <3> QED BY <3>3, <3>4, <3>5
  <2> QED BY <2>1, <2>2, <2>3
<1> QED BY <1>1, ProposalsInvariance, PTL
-----------------------------------------------------------------------------
(* The store.                                                              *)
StoreTyped ==
  /\ stripe \in [Items -> {"open", "completed", "acknowledged"}]
  /\ checkout \in [Items -> SUBSET Store!Details]
  /\ storeDelivered \in [Items -> Nat]
  /\ orders \in [Items -> Nat] /\ mails \in [Items -> Nat] /\ leads \in [Items -> Nat]
  /\ storePc \in {"idle", "event", "order", "mail", "lead", "answer"}
  /\ storePc # "idle" => session \in Items /\ stripe[session] # "open"

OnRecord(s) == orders[s] = 1 \/ s \in letters \/ s \in unsaved
Mailed(s) == mails[s] > 0 \/ s \in unsaved \/ ~Store!IsMailable(s)
Saved(s) == leads[s] > 0 \/ s \in unsaved \/ ~Store!HasEmail(s)

(* The handler leaves nothing behind it undone, and a delivery it has not   *)
(* mailed for is one more than the mails.                                  *)
NothingLeftBehind ==
  \A s \in Items :
    /\ orders[s] <= 1 /\ mails[s] <= storeDelivered[s]
    /\ storePc \in {"event", "order", "mail"} /\ session = s => mails[s] < storeDelivered[s]
    /\ storePc \in {"mail", "lead", "answer"} /\ session = s => OnRecord(s)
    /\ storePc \in {"lead", "answer"} /\ session = s => Mailed(s)
    /\ storePc = "answer" /\ session = s => Saved(s)
    /\ stripe[s] = "acknowledged" => OnRecord(s) /\ Mailed(s) /\ Saved(s)

StoreInv == StoreTyped /\ NothingLeftBehind

LEMMA OnceMore ==
  ASSUME NEW count \in [Items -> Nat], NEW s \in Items, NEW later, later = [count EXCEPT ![s] = @ + 1]
  PROVE  /\ later \in [Items -> Nat]
         /\ later[s] = count[s] + 1 /\ \A p \in Items \ {s} : later[p] = count[p]
OBVIOUS

LEMMA StoreStep ==
  ASSUME StoreInv, Store!Next
  PROVE  StoreInv'
<1> USE DEF StoreInv
<1>1. CASE \E s \in Items : Store!Complete(s)
  <2> PICK s \in Items : Store!Complete(s)
    BY <1>1
  <2>1. /\ stripe[s] = "open" /\ stripe'[s] = "completed"
        /\ stripe' \in [Items -> {"open", "completed", "acknowledged"}]
        /\ checkout' \in [Items -> SUBSET Store!Details]
        /\ \A q \in Items \ {s} : stripe'[q] = stripe[q] /\ checkout'[q] = checkout[q]
        /\ UNCHANGED <<storeDelivered, events, orders, letters, mails, leads, storePc, session, unsaved>>
    BY DEF Store!Complete, StoreTyped
  <2> QED BY <2>1 DEF StoreTyped, NothingLeftBehind, OnRecord, Mailed, Saved, Store!IsMailable, Store!HasEmail
<1>2. CASE \E s \in Items : Store!Deliver(s)
  <2> PICK s \in Items : Store!Deliver(s)
    BY <1>2
  <2>1. /\ storePc' = "event" /\ session' = s /\ storePc = "idle" /\ stripe[s] # "open"
        /\ storeDelivered' = [storeDelivered EXCEPT ![s] = @ + 1]
        /\ UNCHANGED <<stripe, checkout, events, orders, letters, mails, leads, unsaved>>
    BY DEF Store!Deliver
  <2>2. /\ storeDelivered' \in [Items -> Nat]
        /\ storeDelivered'[s] = storeDelivered[s] + 1
        /\ \A q \in Items \ {s} : storeDelivered'[q] = storeDelivered[q]
    BY <2>1, OnceMore DEF StoreTyped
  <2>3. StoreTyped'
    BY <2>1, <2>2 DEF StoreTyped
  <2>4. \A q \in Items : mails[q] \in Nat /\ storeDelivered[q] \in Nat
    BY DEF StoreTyped
  <2>5. NothingLeftBehind'
    BY <2>1, <2>2, <2>4 DEF NothingLeftBehind, OnRecord, Mailed, Saved, Store!IsMailable, Store!HasEmail
  <2> QED BY <2>3, <2>5
<1>3. CASE Store!RecordEvent
  <2>1. /\ storePc = "event" /\ storePc' = "order"
        /\ letters \subseteq letters' /\ unsaved \subseteq unsaved'
        /\ UNCHANGED <<stripe, checkout, storeDelivered, orders, mails, leads, session>>
    BY <1>3 DEF Store!RecordEvent, Store!Goes, Store!DeadLetter, Store!outside
  <2> QED BY <2>1 DEF StoreTyped, NothingLeftBehind, OnRecord, Mailed, Saved, Store!IsMailable, Store!HasEmail
<1>4. CASE Store!RecordOrder
  <2>1. /\ storePc = "order" /\ storePc' = "mail" /\ session \in Items
        /\ letters \subseteq letters' /\ unsaved \subseteq unsaved'
        /\ UNCHANGED <<stripe, checkout, storeDelivered, mails, leads, session>>
        /\ \/ orders' = Store!Inserted(orders)
           \/ orders' = orders /\ (session \in letters' \/ session \in unsaved')
    BY <1>4 DEF Store!RecordOrder, Store!Goes, Store!DeadLetter, Store!outside, StoreTyped
  <2>2. /\ orders' \in [Items -> Nat]
        /\ \A q \in Items : q # session => orders'[q] = orders[q]
        /\ orders'[session] = 1 \/ (orders'[session] = orders[session]
             /\ (session \in letters' \/ session \in unsaved'))
    <3>1. orders[session] \in {0, 1}
      BY <2>1 DEF NothingLeftBehind, StoreTyped
    <3>2. CASE orders[session] = 0 /\ orders' = [orders EXCEPT ![session] = @ + 1]
      BY <2>1, <3>2, OnceMore DEF StoreTyped
    <3>3. CASE orders[session] = 1 /\ orders' = orders
      BY <2>1, <3>3 DEF StoreTyped
    <3>4. CASE UNCHANGED orders /\ (session \in letters' \/ session \in unsaved')
      BY <2>1, <3>4 DEF StoreTyped
    <3> QED BY <2>1, <3>1, <3>2, <3>3, <3>4 DEF Store!Inserted, Store!Once
  <2> QED BY <2>1, <2>2 DEF StoreTyped, NothingLeftBehind, OnRecord, Mailed, Saved, Store!IsMailable, Store!HasEmail
<1>5. CASE Store!Mail
  <2>1. /\ storePc = "mail" /\ storePc' = "lead" /\ session \in Items
        /\ unsaved \subseteq unsaved'
        /\ UNCHANGED <<stripe, checkout, storeDelivered, orders, letters, leads, session>>
        /\ \/ mails' = [mails EXCEPT ![session] = @ + 1]
           \/ UNCHANGED mails /\ (session \in unsaved' \/ ~Store!IsMailable(session))
    BY <1>5 DEF Store!Mail, Store!Goes, Store!Once, Store!outside, StoreTyped
  <2>2. /\ mails' \in [Items -> Nat]
        /\ \A q \in Items : q # session => mails'[q] = mails[q]
        /\ mails'[session] = mails[session] + 1
             \/ (mails'[session] = mails[session]
                  /\ (session \in unsaved' \/ ~Store!IsMailable(session)))
    BY <2>1, OnceMore DEF StoreTyped
  <2>3. \A q \in Items : mails[q] \in Nat /\ storeDelivered[q] \in Nat
    BY DEF StoreTyped
  <2>4. StoreTyped'
    BY <2>1, <2>2 DEF StoreTyped
  <2>5. NothingLeftBehind'
    BY <2>1, <2>2, <2>3 DEF NothingLeftBehind, OnRecord, Mailed, Saved, Store!IsMailable, Store!HasEmail
  <2> QED BY <2>4, <2>5
<1>6. CASE Store!SaveLead
  <2>1. /\ storePc = "lead" /\ storePc' = "answer" /\ session \in Items
        /\ unsaved \subseteq unsaved'
        /\ UNCHANGED <<stripe, checkout, storeDelivered, orders, letters, mails, session>>
        /\ \/ leads' = [leads EXCEPT ![session] = @ + 1]
           \/ UNCHANGED leads /\ (session \in unsaved' \/ ~Store!HasEmail(session))
    BY <1>6 DEF Store!SaveLead, Store!Goes, Store!Once, Store!outside, StoreTyped
  <2>2. /\ leads' \in [Items -> Nat]
        /\ \A q \in Items : q # session => leads'[q] = leads[q]
        /\ leads'[session] = leads[session] + 1
             \/ (leads'[session] = leads[session]
                  /\ (session \in unsaved' \/ ~Store!HasEmail(session)))
    BY <2>1, OnceMore DEF StoreTyped
  <2>3. \A q \in Items : leads[q] \in Nat
    BY DEF StoreTyped
  <2>4. StoreTyped'
    BY <2>1, <2>2 DEF StoreTyped
  <2>5. NothingLeftBehind'
    BY <2>1, <2>2, <2>3 DEF NothingLeftBehind, OnRecord, Mailed, Saved, Store!IsMailable, Store!HasEmail
  <2> QED BY <2>4, <2>5
<1>7. CASE Store!Answer
  <2>1. /\ storePc = "answer" /\ storePc' = "idle" /\ session \in Items
        /\ UNCHANGED <<checkout, storeDelivered, orders, letters, mails, leads, unsaved>>
        /\ stripe' \in [Items -> {"open", "completed", "acknowledged"}]
        /\ \A q \in Items : q # session => stripe'[q] = stripe[q]
        /\ stripe'[session] # "open"
    BY <1>7 DEF Store!Answer, StoreTyped
  <2> QED BY <2>1 DEF StoreTyped, NothingLeftBehind, OnRecord, Mailed, Saved, Store!IsMailable, Store!HasEmail
<1>8. CASE Store!Restart
  <2>1. /\ storePc' = "idle"
        /\ UNCHANGED <<stripe, checkout, storeDelivered, orders, letters, mails, leads, unsaved>>
    BY <1>8 DEF Store!Restart, Store!outside
  <2> QED BY <2>1 DEF StoreTyped, NothingLeftBehind, OnRecord, Mailed, Saved, Store!IsMailable, Store!HasEmail
<1>9. CASE Store!Ended
  BY <1>9 DEF Store!Ended, Store!vars, StoreTyped, NothingLeftBehind, OnRecord, Mailed, Saved, Store!IsMailable, Store!HasEmail
<1> HIDE DEF StoreInv
<1> QED BY <1>1, <1>2, <1>3, <1>4, <1>5, <1>6, <1>7, <1>8, <1>9 DEF Store!Next

LEMMA StoreInvariance == Behaviour => [](Is("store") => StoreInv)
<1>1. SumInit => (Is("store") => StoreInv)
  <2>1. Store!Init => StoreInv
    BY DEF Store!Init, StoreInv, StoreTyped, NothingLeftBehind, OnRecord, Mailed, Saved, Store!IsMailable, Store!HasEmail
  <2> QED BY <2>1 DEF SumInit
<1>2. (Is("store") => StoreInv) /\ [SumNext]_all => (Is("store") => StoreInv)'
  <2> SUFFICES ASSUME Is("store") => StoreInv, [SumNext]_all, Is("store")'
               PROVE  StoreInv'
    OBVIOUS
  <2>1. StoreInv /\ (Store!Next \/ UNCHANGED storeVars)
    BY OneRuns DEF Is
  <2>2. CASE UNCHANGED storeVars
    BY <2>1, <2>2 DEF storeVars, StoreInv, StoreTyped, NothingLeftBehind, OnRecord, Mailed, Saved, Store!IsMailable, Store!HasEmail
  <2> QED BY <2>1, <2>2, StoreStep
<1> QED BY <1>1, <1>2, PTL DEF Behaviour

(* A checkout Stripe has an answer for is on record, mailed and saved, or   *)
(* in doubt, for any number of checkouts, deliveries and failures.         *)
THEOREM PaidAccountedFor == Behaviour => []PaidIsAccountedFor
<1>1. (Is("store") => StoreInv) => PaidIsAccountedFor
  BY DEF PaidIsAccountedFor, Store!PaidIsAccountedFor, StoreInv, NothingLeftBehind, OnRecord, Mailed, Saved, Store!IsMailable, Store!HasEmail
<1> QED BY <1>1, StoreInvariance, PTL
-----------------------------------------------------------------------------
(* The alpha engine.                                                       *)
IsBook(b) == b \in [capital : {b.capital}, bought : [Items -> Nat], sold : [Items -> Nat]]

Coroutines == Single \cup Exits
Pricing == [pc : {"prices"}, rows : SUBSET (Items \X Nat), wanted : SUBSET Items]

AlphaTyped ==
  /\ IsBook(book)
  /\ alphaTask \in [Coroutines -> {Alpha!Idle} \cup [pc : {"scan"}] \cup Pricing]

(* The positions of a token whose price a coroutine waits for.             *)
Awaited(c, t) ==
  IF alphaTask[c].pc = "prices" THEN {i \in Nat : <<t, i>> \in alphaTask[c].rows} ELSE {}

(* A token that two coroutines do not have to sell at once was bought as    *)
(* often as it was sold and is waited for, by the one that does.           *)
OneSells ==
  \A t \in Items \ alphaRaced :
    /\ book.sold[t] <= book.bought[t]
    /\ \A c \in Coroutines : Awaited(c, t) # {} =>
         /\ IsFiniteSet(Awaited(c, t))
         /\ book.sold[t] + Cardinality(Awaited(c, t)) <= book.bought[t]
         /\ \A d \in Coroutines : Awaited(d, t) # {} => d = c

AlphaInv == AlphaTyped /\ OneSells

(* A sale and the entries of a cycle, in the book.                         *)
LEMMA SoldBook ==
  ASSUME IsBook(book), NEW t \in Items, NEW later, later = Alpha!Sold(book, t)
  PROVE  /\ IsBook(later) /\ later.bought = book.bought
         /\ later.sold[t] = book.sold[t] + 1 /\ \A u \in Items \ {t} : later.sold[u] = book.sold[u]
<1> DEFINE f == [book.sold EXCEPT ![t] = @ + 1]
           x == book.capital + 1
<1>1. f \in [Items -> Nat] /\ f[t] = book.sold[t] + 1 /\ \A u \in Items \ {t} : f[u] = book.sold[u]
  BY DEF IsBook
<1>2. later = [book EXCEPT !.capital = x, !.sold = f]
  BY DEF Alpha!Sold
<1> HIDE DEF f, x
<1> QED BY <1>1, <1>2 DEF IsBook

LEMMA BoughtBook ==
  ASSUME NEW b, IsBook(b), NEW chosen, NEW later, later = Alpha!Bought(b, chosen)
  PROVE  /\ IsBook(later) /\ later.sold = b.sold
         /\ \A t \in Items : later.bought[t] = IF t \in chosen THEN b.bought[t] + 1 ELSE b.bought[t]
<1> DEFINE f == [t \in Items |-> IF t \in chosen THEN b.bought[t] + 1 ELSE b.bought[t]]
<1>1. /\ f \in [Items -> Nat]
      /\ \A t \in Items : f[t] = IF t \in chosen THEN b.bought[t] + 1 ELSE b.bought[t]
  BY DEF IsBook
<1>2. \E x : later = [b EXCEPT !.capital = x, !.bought = f]
  BY DEF Alpha!Bought
<1> HIDE DEF f
<1> QED BY <1>1, <1>2 DEF IsBook

(* Nothing is bought while the kill switch is on.                          *)
LEMMA GoesOnBook ==
  ASSUME NEW b, IsBook(b),
         NEW c, NEW rows, NEW wanted, Alpha!GoesOn(c, b, rows, wanted)
  PROVE  /\ IsBook(book') /\ book'.sold = b.sold
         /\ \A t \in Items : book'.bought[t] >= b.bought[t]
         /\ killed => book'.bought = b.bought
<1> PICK later : later = book'
  OBVIOUS
<1>1. CASE later = b
  BY <1>1 DEF IsBook
<1>2. CASE \E chosen \in Alpha!Entries(b, wanted) : later = Alpha!Bought(b, chosen)
  <2>1. PICK chosen \in Alpha!Entries(b, wanted) : later = Alpha!Bought(b, chosen)
    BY <1>2
  <2>2. /\ IsBook(later) /\ later.sold = b.sold
        /\ \A t \in Items : later.bought[t] = IF t \in chosen THEN b.bought[t] + 1 ELSE b.bought[t]
    BY <2>1, BoughtBook
  <2>3. killed => chosen = {}
    BY <2>1 DEF Alpha!Entries, Alpha!Halted
  <2>4. /\ b.bought \in [Items -> Nat] /\ later.bought \in [Items -> Nat]
        /\ \A t \in Items : b.bought[t] \in Nat
    BY <2>2 DEF IsBook
  <2>5. killed => later.bought = b.bought
    BY <2>2, <2>3, <2>4
  <2> QED BY <2>2, <2>4, <2>5
<1> QED BY <1>1, <1>2 DEF Alpha!GoesOn

Waiting(rows, t) == {i \in Nat : <<t, i>> \in rows}

LEMMA TaskRow ==
  ASSUME AlphaTyped, NEW c \in Coroutines, NEW x \in {Alpha!Idle} \cup [pc : {"scan"}] \cup Pricing,
         alphaTask' = [alphaTask EXCEPT ![c] = x]
  PROVE  /\ alphaTask' \in [Coroutines -> {Alpha!Idle} \cup [pc : {"scan"}] \cup Pricing]
         /\ \A d \in Coroutines \ {c}, t \in Items : Awaited(d, t)' = Awaited(d, t)
         /\ \A t \in Items : Awaited(c, t)' = IF x \in Pricing THEN Waiting(x.rows, t) ELSE {}
<1>1. /\ alphaTask' \in [Coroutines -> {Alpha!Idle} \cup [pc : {"scan"}] \cup Pricing]
      /\ alphaTask'[c] = x /\ \A d \in Coroutines \ {c} : alphaTask'[d] = alphaTask[d]
  BY DEF AlphaTyped
<1>2. x.pc = "prices" <=> x \in Pricing
  BY DEF Pricing, Alpha!Idle
<1> QED BY <1>1, <1>2 DEF Awaited, Waiting

LEMMA PricingRow ==
  ASSUME AlphaTyped, NEW c \in Coroutines
  PROVE  /\ alphaTask[c].pc = "prices" => alphaTask[c] \in Pricing
         /\ \A t \in Items : Awaited(c, t) =
              IF alphaTask[c].pc = "prices" THEN Waiting(alphaTask[c].rows, t) ELSE {}
         /\ \A t \in Items : t \in Alpha!Held(c) <=> Awaited(c, t) # {}
<1>1. alphaTask[c].pc = "prices" => alphaTask[c] \in Pricing
  BY DEF AlphaTyped, Pricing, Alpha!Idle
<1>2. \A t \in Items : Awaited(c, t) =
        IF alphaTask[c].pc = "prices" THEN Waiting(alphaTask[c].rows, t) ELSE {}
  BY DEF Awaited, Waiting
<1>3. ASSUME NEW t \in Items, alphaTask[c].pc = "prices"
      PROVE  t \in {one[1] : one \in alphaTask[c].rows} <=> \E i \in Nat : <<t, i>> \in alphaTask[c].rows
  <2>1. \A one \in alphaTask[c].rows : \E u \in Items, i \in Nat : one = <<u, i>>
    BY <1>1, <1>3 DEF Pricing
  <2>2. ASSUME NEW one \in alphaTask[c].rows, t = one[1]
        PROVE  \E i \in Nat : <<t, i>> \in alphaTask[c].rows
    BY <2>1, <2>2
  <2>3. ASSUME NEW i \in Nat, <<t, i>> \in alphaTask[c].rows
        PROVE  \E one \in alphaTask[c].rows : t = one[1]
    <3>1. <<t, i>>[1] = t
      OBVIOUS
    <3> QED BY <2>3, <3>1
  <2> QED BY <2>2, <2>3
<1> QED BY <1>1, <1>2, <1>3 DEF Alpha!Held, Waiting

LEMMA UpTo ==
  ASSUME NEW n \in Nat
  PROVE  IsFiniteSet(1..n) /\ Cardinality(1..n) = n
<1>1. IsFiniteSet(1..n) /\ Cardinality(1..n) = IF 1 > n THEN 0 ELSE n - 1 + 1
  BY FS_Interval
<1> QED BY <1>1

(* A coroutine lists what is open and waits for its prices, ...            *)
LEMMA ListKeepsOneSells ==
  ASSUME AlphaInv, NEW c \in Coroutines, Alpha!Listed(c, Alpha!Open(book)),
         \A t \in Items : Awaited(c, t) = {},
         \A t \in Items : Awaited(c, t)' = Waiting(Alpha!Open(book), t),
         \A d \in Coroutines \ {c}, t \in Items : Awaited(d, t)' = Awaited(d, t),
         IsBook(book)', book'.sold = book.sold, \A t \in Items : book'.bought[t] >= book.bought[t]
  PROVE  OneSells'
<1> SUFFICES ASSUME NEW t \in Items, t \notin alphaRaced'
             PROVE  /\ book'.sold[t] <= book'.bought[t]
                    /\ \A d \in Coroutines : Awaited(d, t)' # {} =>
                         /\ IsFiniteSet(Awaited(d, t)')
                         /\ book'.sold[t] + Cardinality(Awaited(d, t)') <= book'.bought[t]
                         /\ \A e \in Coroutines : Awaited(e, t)' # {} => e = d
  BY DEF OneSells
<1>1. /\ book.sold[t] \in Nat /\ book.bought[t] \in Nat /\ book'.bought[t] \in Nat
      /\ book'.sold[t] = book.sold[t]
  BY DEF AlphaInv, AlphaTyped, IsBook
<1>2. t \notin alphaRaced
  BY DEF Alpha!Listed
<1>3. book'.sold[t] <= book'.bought[t]
  BY <1>1, <1>2 DEF AlphaInv, OneSells
<1>4. \A d \in Coroutines : Awaited(d, t) # {} =>
        /\ IsFiniteSet(Awaited(d, t)) /\ Cardinality(Awaited(d, t)) \in Nat
        /\ book'.sold[t] + Cardinality(Awaited(d, t)) <= book'.bought[t]
  BY <1>1, <1>2, FS_CardinalityType DEF AlphaInv, OneSells
<1>5. CASE Waiting(Alpha!Open(book), t) = {}
  <2>1. \A d \in Coroutines : Awaited(d, t)' = Awaited(d, t)
    BY <1>5
  <2> QED BY <1>2, <1>3, <1>4, <2>1 DEF AlphaInv, OneSells
<1>6. CASE Waiting(Alpha!Open(book), t) # {}
  <2>1. PICK i \in Nat : <<t, i>> \in Alpha!Open(book)
    BY <1>6 DEF Waiting
  <2>2. book.sold[t] = 0
    BY <2>1 DEF Alpha!Open
  <2>3. t \in {one[1] : one \in Alpha!Open(book)}
    BY <2>1
  <2>4. \A d \in Coroutines \ {c} : Awaited(d, t) = {}
    <3>1. DOMAIN alphaTask = Coroutines
      BY DEF AlphaInv, AlphaTyped
    <3>2. \A d \in Coroutines \ {c} : t \notin Alpha!Held(d)
      BY <2>3, <3>1 DEF Alpha!Listed
    <3> QED BY <3>2, PricingRow DEF AlphaInv
  <2> DEFINE S == Waiting(Alpha!Open(book), t)
  <2>5. IsFiniteSet(S) /\ Cardinality(S) \in Nat /\ Cardinality(S) <= book.bought[t]
    <3>1. S \subseteq 1..book.bought[t]
      BY DEF Waiting, Alpha!Open, Alpha!Rows
    <3>2. IsFiniteSet(1..book.bought[t]) /\ Cardinality(1..book.bought[t]) = book.bought[t]
      BY <1>1, UpTo
    <3> HIDE DEF S
    <3> QED BY <3>1, <3>2, FS_Subset, FS_CardinalityType
  <2>6. Awaited(c, t)' = S
    OBVIOUS
  <2> HIDE DEF S
  <2>7. \A d \in Coroutines : Awaited(d, t)' # {} => d = c
    BY <2>4
  <2>8. book'.sold[t] + Cardinality(S) <= book'.bought[t]
    BY <1>1, <2>2, <2>5
  <2> QED BY <1>3, <2>5, <2>6, <2>7, <2>8
<1> QED BY <1>5, <1>6

(* ... one after the other, and sells each at most once.                   *)
LEMMA SaleKeepsOneSells ==
  ASSUME AlphaInv, NEW c \in Coroutines, alphaTask[c] \in Pricing, alphaTask[c].pc = "prices",
         NEW u \in Items, NEW i \in Nat, <<u, i>> \in alphaTask[c].rows, UNCHANGED alphaRaced,
         \A t \in Items : Awaited(c, t)' = Waiting(alphaTask[c].rows \ {<<u, i>>}, t),
         \A d \in Coroutines \ {c}, t \in Items : Awaited(d, t)' = Awaited(d, t),
         IsBook(book)', \A t \in Items : book'.bought[t] >= book.bought[t],
         book'.sold[u] <= book.sold[u] + 1, \A t \in Items \ {u} : book'.sold[t] = book.sold[t]
  PROVE  OneSells'
<1> SUFFICES ASSUME NEW t \in Items, t \notin alphaRaced
             PROVE  /\ book'.sold[t] <= book'.bought[t]
                    /\ \A d \in Coroutines : Awaited(d, t)' # {} =>
                         /\ IsFiniteSet(Awaited(d, t)')
                         /\ book'.sold[t] + Cardinality(Awaited(d, t)') <= book'.bought[t]
                         /\ \A e \in Coroutines : Awaited(e, t)' # {} => e = d
  BY DEF OneSells
<1>1. /\ book.sold[t] \in Nat /\ book.bought[t] \in Nat
      /\ book'.sold[t] \in Nat /\ book'.bought[t] \in Nat
  BY DEF AlphaInv, AlphaTyped, IsBook
<1>2. Awaited(c, t) = Waiting(alphaTask[c].rows, t)
  BY PricingRow DEF AlphaInv
<1>3. CASE t # u
  <2>1. Awaited(c, t)' = Awaited(c, t)
    BY <1>2, <1>3 DEF Waiting
  <2>2. \A d \in Coroutines : Awaited(d, t)' = Awaited(d, t)
    BY <2>1
  <2>3. \A d \in Coroutines : Awaited(d, t) # {} =>
          /\ IsFiniteSet(Awaited(d, t)) /\ Cardinality(Awaited(d, t)) \in Nat
          /\ book'.sold[t] + Cardinality(Awaited(d, t)) <= book'.bought[t]
    BY <1>1, <1>3, FS_CardinalityType DEF AlphaInv, OneSells
  <2>4. book'.sold[t] <= book'.bought[t]
    BY <1>1, <1>3 DEF AlphaInv, OneSells
  <2> QED BY <2>2, <2>3, <2>4 DEF AlphaInv, OneSells
<1>4. CASE t = u
  <2> DEFINE S == Awaited(c, t)
  <2>1. i \in S
    BY <1>2, <1>4 DEF Waiting
  <2>2. Awaited(c, t)' = S \ {i}
    BY <1>2, <1>4 DEF Waiting
  <2>3. /\ IsFiniteSet(S) /\ book.sold[t] + Cardinality(S) <= book.bought[t]
        /\ \A d \in Coroutines : Awaited(d, t) # {} => d = c
    BY <2>1 DEF AlphaInv, OneSells
  <2> HIDE DEF S
  <2>4. /\ IsFiniteSet(S \ {i}) /\ Cardinality(S \ {i}) = Cardinality(S) - 1
        /\ Cardinality(S) \in Nat /\ Cardinality(S \ {i}) \in Nat
    BY <2>1, <2>3, FS_RemoveElement, FS_CardinalityType
  <2>5. book'.sold[t] + Cardinality(S \ {i}) <= book'.bought[t] /\ book'.sold[t] <= book'.bought[t]
    BY <1>1, <1>4, <2>3, <2>4
  <2>6. \A d \in Coroutines : Awaited(d, t)' # {} => d = c
    BY <2>3
  <2> QED BY <2>2, <2>4, <2>5, <2>6
<1> QED BY <1>3, <1>4

LEMMA ScanKeeps ==
  ASSUME AlphaInv, NEW c \in Single, NEW wanted \in SUBSET Items, Alpha!Scanned(c, wanted)
  PROVE  AlphaInv' /\ (killed => book'.bought = book.bought)
<1> DEFINE rows == Alpha!Open(book)
<1>1. /\ c \in Coroutines /\ alphaTask[c].pc = "scan" /\ IsBook(book) /\ AlphaTyped
      /\ Alpha!GoesOn(c, book, rows, wanted) /\ Alpha!Listed(c, rows)
  BY DEF Coroutines, Alpha!Scanned, AlphaInv, AlphaTyped
<1>2. rows \subseteq Items \X Nat
  BY DEF Alpha!Open, Alpha!Rows
<1>3. /\ IsBook(book') /\ book'.sold = book.sold /\ (killed => book'.bought = book.bought)
      /\ \A t \in Items : book'.bought[t] >= book.bought[t]
  BY <1>1, GoesOnBook
<1>4. PICK x \in {Alpha!Idle} \cup Pricing :
        /\ alphaTask' = [alphaTask EXCEPT ![c] = x]
        /\ \A t \in Items : Waiting(rows, t) = IF x \in Pricing THEN Waiting(x.rows, t) ELSE {}
  <2>1. CASE rows # {}
    <3> DEFINE x == [pc |-> "prices", rows |-> rows, wanted |-> wanted]
    <3>1. x \in Pricing /\ x.rows = rows
      BY <1>2 DEF Pricing
    <3>2. alphaTask' = [alphaTask EXCEPT ![c] = x]
      BY <1>1, <2>1 DEF Alpha!GoesOn
    <3> HIDE DEF x
    <3> QED BY <3>1, <3>2
  <2>2. CASE rows = {}
    <3>1. alphaTask' = [alphaTask EXCEPT ![c] = Alpha!Idle]
      BY <1>1, <2>2 DEF Alpha!GoesOn
    <3>2. Alpha!Idle \notin Pricing
      BY DEF Alpha!Idle, Pricing
    <3>3. \A t \in Items : Waiting(rows, t) = {}
      BY <2>2 DEF Waiting
    <3> QED BY <3>1, <3>2, <3>3
  <2> QED BY <2>1, <2>2
<1> HIDE DEF rows
<1>5. /\ alphaTask' \in [Coroutines -> {Alpha!Idle} \cup [pc : {"scan"}] \cup Pricing]
      /\ \A d \in Coroutines \ {c}, t \in Items : Awaited(d, t)' = Awaited(d, t)
      /\ \A t \in Items : Awaited(c, t)' = Waiting(rows, t)
  BY <1>1, <1>4, TaskRow
<1>6. \A t \in Items : Awaited(c, t) = {}
  BY <1>1 DEF Awaited
<1>7. OneSells'
  BY <1>1, <1>3, <1>5, <1>6, ListKeepsOneSells DEF rows
<1> QED BY <1>3, <1>5, <1>7 DEF AlphaInv, AlphaTyped

LEMMA ExitKeepsList ==
  ASSUME AlphaInv, NEW c \in Exits, Alpha!BeginExit(c)
  PROVE  AlphaInv' /\ book' = book
<1> DEFINE rows == Alpha!Open(book)
           x == [pc |-> "prices", rows |-> rows, wanted |-> {}]
<1>1. /\ c \in Coroutines /\ alphaTask[c] = Alpha!Idle /\ IsBook(book) /\ AlphaTyped
      /\ book' = book /\ Alpha!Listed(c, rows) /\ alphaTask' = [alphaTask EXCEPT ![c] = x]
  BY DEF Coroutines, Alpha!BeginExit, AlphaInv, AlphaTyped
<1>2. rows \subseteq Items \X Nat
  BY DEF Alpha!Open, Alpha!Rows
<1>3. x \in Pricing /\ x.rows = rows
  BY <1>2 DEF Pricing
<1>4. /\ IsBook(book') /\ book'.sold = book.sold
      /\ \A t \in Items : book'.bought[t] >= book.bought[t]
  BY <1>1 DEF IsBook
<1> HIDE DEF rows, x
<1>5. /\ alphaTask' \in [Coroutines -> {Alpha!Idle} \cup [pc : {"scan"}] \cup Pricing]
      /\ \A d \in Coroutines \ {c}, t \in Items : Awaited(d, t)' = Awaited(d, t)
      /\ \A t \in Items : Awaited(c, t)' = Waiting(rows, t)
  BY <1>1, <1>3, TaskRow
<1>6. \A t \in Items : Awaited(c, t) = {}
  BY <1>1 DEF Awaited, Alpha!Idle
<1>7. OneSells'
  BY <1>1, <1>4, <1>5, <1>6, ListKeepsOneSells DEF rows
<1> QED BY <1>1, <1>4, <1>5, <1>7 DEF AlphaInv, AlphaTyped

LEMMA PriceKeeps ==
  ASSUME AlphaInv, NEW c \in Single, NEW one \in Alpha!Rows, NEW sells \in BOOLEAN,
         Alpha!Priced(c, one, sells)
  PROVE  AlphaInv' /\ (killed => book'.bought = book.bought)
<1>1. PICK u \in Items, i \in Nat : one = <<u, i>>
  BY DEF Alpha!Rows
<1> DEFINE b == IF sells THEN Alpha!Sold(book, u) ELSE book
           rows == alphaTask[c].rows \ {<<u, i>>}
           wanted == alphaTask[c].wanted
<1>2. /\ c \in Coroutines /\ alphaTask[c].pc = "prices" /\ <<u, i>> \in alphaTask[c].rows
      /\ IsBook(book) /\ AlphaTyped /\ UNCHANGED alphaRaced
      /\ Alpha!GoesOn(c, b, rows, wanted)
  BY <1>1 DEF Coroutines, Alpha!Priced, AlphaInv, AlphaTyped
<1>3. alphaTask[c] \in Pricing
  BY <1>2, PricingRow
<1>4. rows \subseteq Items \X Nat /\ wanted \subseteq Items
  BY <1>3 DEF Pricing
<1>5. /\ IsBook(b) /\ b.bought = book.bought /\ b.sold[u] <= book.sold[u] + 1
      /\ \A t \in Items \ {u} : b.sold[t] = book.sold[t]
  <2>1. CASE sells
    <3>1. PICK later : later = Alpha!Sold(book, u)
      OBVIOUS
    <3>2. /\ IsBook(later) /\ later.bought = book.bought
          /\ later.sold[u] = book.sold[u] + 1 /\ \A t \in Items \ {u} : later.sold[t] = book.sold[t]
      BY <1>2, <3>1, SoldBook
    <3>3. book.sold[u] \in Nat
      BY <1>2 DEF IsBook
    <3> QED BY <2>1, <3>1, <3>2, <3>3
  <2>2. CASE ~sells
    <3>1. book.sold[u] \in Nat
      BY <1>2 DEF IsBook
    <3> QED BY <1>2, <2>2, <3>1
  <2> QED BY <2>1, <2>2
<1> HIDE DEF b
<1>6. /\ IsBook(book') /\ book'.sold = b.sold /\ (killed => book'.bought = b.bought)
      /\ \A t \in Items : book'.bought[t] >= b.bought[t]
  BY <1>2, <1>5, GoesOnBook
<1>7. PICK x \in {Alpha!Idle} \cup Pricing :
        /\ alphaTask' = [alphaTask EXCEPT ![c] = x]
        /\ \A t \in Items : Waiting(rows, t) = IF x \in Pricing THEN Waiting(x.rows, t) ELSE {}
  <2> HIDE DEF rows, wanted
  <2>1. CASE rows # {}
    <3> DEFINE x == [pc |-> "prices", rows |-> rows, wanted |-> wanted]
    <3>1. x \in Pricing /\ x.rows = rows
      BY <1>4 DEF Pricing
    <3>2. alphaTask' = [alphaTask EXCEPT ![c] = x]
      BY <1>2, <2>1 DEF Alpha!GoesOn
    <3> HIDE DEF x
    <3> QED BY <3>1, <3>2
  <2>2. CASE rows = {}
    <3>1. alphaTask' = [alphaTask EXCEPT ![c] = Alpha!Idle]
      BY <1>2, <2>2 DEF Alpha!GoesOn
    <3>2. Alpha!Idle \notin Pricing
      BY DEF Alpha!Idle, Pricing
    <3>3. \A t \in Items : Waiting(rows, t) = {}
      BY <2>2 DEF Waiting
    <3> QED BY <3>1, <3>2, <3>3
  <2> QED BY <2>1, <2>2
<1>8. /\ alphaTask' \in [Coroutines -> {Alpha!Idle} \cup [pc : {"scan"}] \cup Pricing]
      /\ \A d \in Coroutines \ {c}, t \in Items : Awaited(d, t)' = Awaited(d, t)
      /\ \A t \in Items : Awaited(c, t)' = Waiting(rows, t)
  <2> HIDE DEF rows
  <2> QED BY <1>2, <1>7, TaskRow
<1>9. OneSells'
  <2>1. /\ book'.sold[u] <= book.sold[u] + 1
        /\ \A t \in Items \ {u} : book'.sold[t] = book.sold[t]
        /\ \A t \in Items : book'.bought[t] >= book.bought[t]
    BY <1>5, <1>6
  <2> HIDE DEF wanted
  <2> QED BY <1>2, <1>3, <1>6, <1>8, <2>1, SaleKeepsOneSells
<1> QED BY <1>5, <1>6, <1>8, <1>9 DEF AlphaInv, AlphaTyped

LEMMA ExitKeeps ==
  ASSUME AlphaInv, NEW c \in Exits, NEW u \in Items, NEW i \in Nat, NEW raises \in BOOLEAN,
         Alpha!Exit(c, <<u, i>>, raises)
  PROVE  AlphaInv' /\ book'.bought = book.bought
<1> DEFINE rows == alphaTask[c].rows \ {<<u, i>>}
<1>2. /\ c \in Coroutines /\ alphaTask[c].pc = "prices" /\ <<u, i>> \in alphaTask[c].rows
      /\ IsBook(book) /\ AlphaTyped /\ UNCHANGED alphaRaced
  BY DEF Coroutines, Alpha!Exit, AlphaInv, AlphaTyped
<1>9. book' = IF raises THEN book ELSE Alpha!Sold(book, u)
  BY DEF Alpha!Exit
<1>10. alphaTask' = [alphaTask EXCEPT ![c] =
           IF alphaTask[c].rows = {<<u, i>>} THEN Alpha!Idle
           ELSE [alphaTask[c] EXCEPT !.rows = alphaTask[c].rows \ {<<u, i>>}]]
  BY DEF Alpha!Exit
<1>3. alphaTask[c] \in Pricing
  BY <1>2, PricingRow
<1>4. /\ IsBook(book') /\ book'.bought = book.bought /\ book'.sold[u] <= book.sold[u] + 1
      /\ \A t \in Items \ {u} : book'.sold[t] = book.sold[t]
  <2>1. PICK later : later = book'
    OBVIOUS
  <2>2. book.sold[u] \in Nat
    BY <1>2 DEF IsBook
  <2>3. CASE later = Alpha!Sold(book, u)
    <3>1. /\ IsBook(later) /\ later.bought = book.bought
          /\ later.sold[u] = book.sold[u] + 1 /\ \A t \in Items \ {u} : later.sold[t] = book.sold[t]
      BY <1>2, <2>3, SoldBook
    <3> QED BY <2>1, <2>2, <3>1
  <2>4. CASE later = book
    BY <1>2, <2>1, <2>2, <2>4
  <2> QED BY <1>9, <2>1, <2>3, <2>4
<1>5. PICK x \in {Alpha!Idle} \cup Pricing :
        /\ alphaTask' = [alphaTask EXCEPT ![c] = x]
        /\ \A t \in Items : Waiting(rows, t) = IF x \in Pricing THEN Waiting(x.rows, t) ELSE {}
  <2>1. CASE alphaTask[c].rows # {<<u, i>>}
    <3> DEFINE x == [alphaTask[c] EXCEPT !.rows = alphaTask[c].rows \ {<<u, i>>}]
    <3>1. x \in Pricing /\ x.rows = rows
      BY <1>3 DEF Pricing
    <3> DEFINE y == IF alphaTask[c].rows = {<<u, i>>} THEN Alpha!Idle ELSE x
    <3>2. alphaTask' = [alphaTask EXCEPT ![c] = y]
      BY <1>10
    <3>3. y = x
      BY <2>1
    <3> HIDE DEF x, y, rows
    <3> QED BY <3>1, <3>2, <3>3
  <2>2. CASE alphaTask[c].rows = {<<u, i>>}
    <3>1. alphaTask' = [alphaTask EXCEPT ![c] = Alpha!Idle]
      BY <1>10, <2>2
    <3>2. Alpha!Idle \notin Pricing
      BY DEF Alpha!Idle, Pricing
    <3>3. \A t \in Items : Waiting(rows, t) = {}
      BY <2>2 DEF Waiting
    <3> QED BY <3>1, <3>2, <3>3
  <2> QED BY <2>1, <2>2
<1>6. /\ alphaTask' \in [Coroutines -> {Alpha!Idle} \cup [pc : {"scan"}] \cup Pricing]
      /\ \A d \in Coroutines \ {c}, t \in Items : Awaited(d, t)' = Awaited(d, t)
      /\ \A t \in Items : Awaited(c, t)' = Waiting(rows, t)
  <2> HIDE DEF rows
  <2> QED BY <1>2, <1>5, TaskRow
<1>7. \A t \in Items : book'.bought[t] >= book.bought[t]
  BY <1>2, <1>4 DEF IsBook
<1>8. OneSells'
  BY <1>2, <1>3, <1>4, <1>6, <1>7, SaleKeepsOneSells
<1> QED BY <1>4, <1>6, <1>8 DEF AlphaInv, AlphaTyped

LEMMA AlphaStands ==
  ASSUME AlphaInv, UNCHANGED <<book, alphaTask, alphaRaced>>
  PROVE  AlphaInv'
<1>1. AlphaTyped'
  BY DEF AlphaInv, AlphaTyped, IsBook
<1>2. \A c \in Coroutines, t \in Items : Awaited(c, t)' = Awaited(c, t)
  BY DEF Awaited
<1>3. OneSells'
  BY <1>2 DEF AlphaInv, OneSells
<1> QED BY <1>1, <1>3 DEF AlphaInv

LEMMA AlphaStep ==
  ASSUME AlphaInv, Alpha!Next
  PROVE  AlphaInv' /\ (killed => book'.bought = book.bought)
<1>1. CASE Alpha!toggle_kill_switch
  BY <1>1, AlphaStands DEF Alpha!toggle_kill_switch
<1>2. CASE \E c \in Single : Alpha!BeginCycle(c)
  <2>1. PICK c \in Single : Alpha!BeginCycle(c)
    BY <1>2
  <2> DEFINE x == [pc |-> "scan"]
  <2>2. /\ c \in Coroutines /\ alphaTask[c] = Alpha!Idle /\ UNCHANGED <<book, alphaRaced>>
        /\ alphaTask' = [alphaTask EXCEPT ![c] = x] /\ AlphaTyped
    BY <2>1 DEF Alpha!BeginCycle, Coroutines, AlphaInv
  <2>3. x \in [pc : {"scan"}] /\ x \notin Pricing
    BY DEF Pricing
  <2> HIDE DEF x
  <2>4. /\ alphaTask' \in [Coroutines -> {Alpha!Idle} \cup [pc : {"scan"}] \cup Pricing]
        /\ \A d \in Coroutines \ {c}, t \in Items : Awaited(d, t)' = Awaited(d, t)
        /\ \A t \in Items : Awaited(c, t)' = {}
    BY <2>2, <2>3, TaskRow
  <2>5. \A t \in Items : Awaited(c, t) = {}
    BY <2>2 DEF Awaited, Alpha!Idle
  <2>6. OneSells'
    BY <2>2, <2>4, <2>5 DEF AlphaInv, OneSells
  <2> QED BY <2>2, <2>4, <2>6 DEF AlphaInv, AlphaTyped
<1>3. CASE \E x \in Exits, one \in Alpha!Rows, raises \in BOOLEAN : Alpha!Exit(x, one, raises)
  <2>1. PICK x \in Exits, one \in Alpha!Rows, raises \in BOOLEAN : Alpha!Exit(x, one, raises)
    BY <1>3
  <2>2. PICK u \in Items, i \in Nat : one = <<u, i>>
    BY DEF Alpha!Rows
  <2> QED BY <2>1, <2>2, ExitKeeps
<1> QED BY <1>1, <1>2, <1>3, ScanKeeps, PriceKeeps, ExitKeepsList DEF Alpha!Next

LEMMA AlphaStart ==
  ASSUME Alpha!Init
  PROVE  AlphaInv
<1>1. \A c \in Coroutines, t \in Items : Awaited(c, t) = {}
  BY DEF Alpha!Init, Coroutines, Awaited, Alpha!Idle
<1>2. AlphaTyped
  BY DEF Alpha!Init, AlphaTyped, IsBook, Coroutines
<1> QED BY <1>1, <1>2 DEF AlphaInv, OneSells, Alpha!Init

LEMMA AlphaInvariance ==
  Behaviour => [](Is("alpha") => AlphaInv)
<1>1. SumInit => (Is("alpha") => AlphaInv)
  BY AlphaStart DEF SumInit
<1>2. (Is("alpha") => AlphaInv) /\ [SumNext]_all => (Is("alpha") => AlphaInv)'
  <2> SUFFICES ASSUME Is("alpha") => AlphaInv, [SumNext]_all, Is("alpha")'
               PROVE  AlphaInv'
    OBVIOUS
  <2>1. AlphaInv /\ (Alpha!Next \/ UNCHANGED alphaVars)
    BY OneRuns DEF Is
  <2>2. CASE UNCHANGED alphaVars
    BY <2>1, <2>2, AlphaStands DEF alphaVars
  <2> QED BY <2>1, <2>2, AlphaStep
<1> QED BY <1>1, <1>2, PTL DEF Behaviour

(* No position is sold twice unless two coroutines had its token to sell at *)
(* once, for any number of tokens, cycles and exits and any limits.        *)
THEOREM PositionSoldOnce == Behaviour => []PositionIsSoldOnce
<1>1. (Is("alpha") => AlphaInv) => PositionIsSoldOnce
  <2> SUFFICES ASSUME AlphaInv, NEW t \in Items, book.sold[t] > book.bought[t]
               PROVE  t \in alphaRaced
    BY DEF PositionIsSoldOnce, Alpha!PositionIsSoldOnce
  <2>1. book.sold[t] \in Nat /\ book.bought[t] \in Nat
    BY DEF AlphaInv, AlphaTyped, IsBook
  <2> QED BY <2>1 DEF AlphaInv, OneSells
<1> QED BY <1>1, AlphaInvariance, PTL

(* While the kill switch is on no step buys, whatever limits it is given.   *)
THEOREM KillSwitchStops == Behaviour => KillSwitchStopsBuying
<1>1. (Is("alpha") => AlphaInv) /\ [SumNext]_all => [Is("alpha") => Alpha!StaysOut]_all
  <2> SUFFICES ASSUME Is("alpha") => AlphaInv, SumNext, Is("alpha"), killed
               PROVE  book'.bought = book.bought
    BY DEF Alpha!StaysOut
  <2>1. Alpha!Next \/ UNCHANGED alphaVars
    BY OneRuns
  <2>2. CASE UNCHANGED alphaVars
    BY <2>2 DEF alphaVars
  <2> QED BY <2>1, <2>2, AlphaStep
<1> QED BY <1>1, AlphaInvariance, PTL DEF Behaviour, KillSwitchStopsBuying
-----------------------------------------------------------------------------
(* The social poster.                                                      *)
Channels == Single \X Items
Posts == Channels \X Contents
PosterFiles == (SUBSET Posts) \cup {Poster!Broken}

Turning == [pc : {"next"}, slot : Items, todo : SUBSET Single]
Posting == [pc : {"post", "load", "replace"}, slot : Items, todo : SUBSET Single, post : Posts]
Opening == [pc : {"open"}, slot : Items, todo : SUBSET Single, post : Posts, entries : SUBSET Posts]
Writing ==
  [pc : {"write"}, slot : Items, todo : SUBSET Single, post : Posts, entries : SUBSET Posts,
   file : Poster!Handles]
PosterRuns == {Poster!Idle} \cup Turning \cup Posting \cup Opening \cup Writing
AtWork == {"post", "load", "open", "write", "replace"}

PosterTyped ==
  /\ queue \in [Channels -> Contents \cup {nobody}]
  /\ posterLog \in PosterFiles /\ tmp \in PosterFiles \cup {nobody}
  /\ posted \in [Posts -> Nat]
  /\ posterRun \in [Actors -> PosterRuns]
  /\ crossed \in BOOLEAN /\ posterFailures \in Nat

AtPost(r, x) == posterRun[r].pc \in AtWork /\ posterRun[r].post = x

(* A text that is not forgotten was posted once at most; then its entry is  *)
(* there, or the run that makes it is at it, and no other is.              *)
OnePosts ==
  \A x \in Posts \ posterForgotten :
    /\ posted[x] <= 1
    /\ posted[x] = 1 => x \in Poster!Entries(posterLog) \/ \E r \in Actors : AtPost(r, x)
    /\ \A r \in Actors : AtPost(r, x) =>
         /\ posterRun[r].pc = "post" => posted[x] = 0
         /\ \A s \in Actors : AtPost(s, x) => s = r

(* While runs came one after the other and nothing raised, the run that is  *)
(* under way has what it loaded, and the temporary file to itself.         *)
Alone == ~crossed /\ posterFailures = 0
TextsOf(f) == {x[2] : x \in Poster!Entries(f)}

HandleSound(r) ==
  /\ posterRun[r].pc = "open" => posterRun[r].entries = posterLog
  /\ posterRun[r].pc = "write" =>
       posterRun[r].entries = posterLog /\ posterRun[r].file = "tmp" /\ tmp = {}
  /\ posterRun[r].pc = "replace" =>
       /\ tmp \subseteq Posts /\ posterRun[r].post \in tmp
       /\ TextsOf(posterLog) \subseteq TextsOf(tmp)

PostedStays ==
  \A x \in Posts : posted[x] > 0 => x[2] \in TextsOf(posterLog) \/ \E r \in Actors : AtPost(r, x)

AloneSound ==
  Alone =>
    /\ \A r, s \in Actors : posterRun[r] # Poster!Idle /\ posterRun[s] # Poster!Idle => r = s
    /\ posterLog \subseteq Posts
    /\ \A r \in Actors : HandleSound(r)
    /\ PostedStays

PosterInv == PosterTyped /\ OnePosts /\ AloneSound

LEMMA NobodyIsNoPost == \A x \in Posts : x # nobody
BY NobodyAssumption DEF Posts, Channels

(* What a file of posts has as entries.                                    *)
LEMMA EntriesOfPosts ==
  ASSUME NEW f \in SUBSET Posts
  PROVE  Poster!Entries(f) = f
BY NobodyIsNoPost DEF Poster!Entries, Poster!Broken

LEMMA EntriesArePosts ==
  ASSUME NEW f \in PosterFiles
  PROVE  Poster!Entries(f) \in SUBSET Posts
<1>1. CASE f \in SUBSET Posts
  BY <1>1, EntriesOfPosts
<1>2. CASE f = Poster!Broken
  BY <1>2 DEF Poster!Entries
<1>3. f \in SUBSET Posts \/ f = Poster!Broken
  BY DEF PosterFiles
<1> QED BY <1>1, <1>2, <1>3

(* What the other runs are at is what they were at.                        *)
OthersStay(r) ==
  \A s \in Actors \ {r} :
    /\ posterRun'[s].pc = posterRun[s].pc
    /\ posterRun[s] = Poster!Idle => posterRun'[s] = Poster!Idle
    /\ \A y \in Posts : AtPost(s, y)' <=> AtPost(s, y)

IsAt(r, x) ==
  /\ x.pc \in {"idle", "next"} => \A y \in Posts : ~AtPost(r, y)'
  /\ x.pc \in AtWork => \A y \in Posts : AtPost(r, y)' <=> x.post = y

LEMMA PosterRow ==
  ASSUME PosterTyped, NEW r \in Actors, NEW x \in PosterRuns, Poster!Becomes(r, x)
  PROVE  /\ posterRun' \in [Actors -> PosterRuns]
         /\ posterRun'[r] = x /\ OthersStay(r) /\ IsAt(r, x)
<1>1. posterRun' \in [Actors -> PosterRuns] /\ posterRun'[r] = x
      /\ \A s \in Actors \ {r} : posterRun'[s] = posterRun[s]
  BY DEF PosterTyped, Poster!Becomes
<1> QED BY <1>1 DEF OthersStay, IsAt, AtPost, AtWork

LEMMA PosterRunRow ==
  ASSUME PosterTyped, NEW r \in Actors
  PROVE  /\ posterRun[r] \in PosterRuns
         /\ posterRun[r].pc = "next" => posterRun[r] \in Turning
         /\ posterRun[r].pc \in {"post", "load", "replace"} => posterRun[r] \in Posting
         /\ posterRun[r].pc = "open" => posterRun[r] \in Opening
         /\ posterRun[r].pc = "write" => posterRun[r] \in Writing
         /\ posterRun[r].pc \in {"idle", "next"} \cup AtWork
         /\ posterRun[r].pc # "idle" => posterRun[r] # Poster!Idle
         /\ posterRun[r].pc \in {"idle", "next"} => \A x \in Posts : ~AtPost(r, x)
         /\ posterRun[r].pc \in AtWork =>
              posterRun[r].post \in Posts /\ \A x \in Posts : AtPost(r, x) <=> x = posterRun[r].post
BY DEF PosterTyped, PosterRuns, Turning, Posting, Opening, Writing, Poster!Idle, AtPost, AtWork

(* After a post a run turns to the next platform.                          *)
LEMMA GoesOnRow ==
  ASSUME PosterTyped, NEW r \in Actors, posterRun[r].pc \in AtWork, Poster!GoesOn(r)
  PROVE  /\ posterRun' \in [Actors -> PosterRuns]
         /\ OthersStay(r) /\ posterRun'[r].pc = "next" /\ \A y \in Posts : ~AtPost(r, y)'
<1> DEFINE x == [pc |-> "next", slot |-> posterRun[r].slot, todo |-> posterRun[r].todo]
<1>1. posterRun[r] \in Posting \cup Opening \cup Writing
  BY PosterRunRow DEF AtWork
<1>2. x \in Turning /\ x.pc = "next"
  BY <1>1 DEF Turning, Posting, Opening, Writing
<1>3. Poster!Becomes(r, x)
  BY DEF Poster!GoesOn
<1> HIDE DEF x
<1>4. x \in PosterRuns
  BY <1>2 DEF PosterRuns
<1> QED BY <1>2, <1>3, <1>4, PosterRow DEF IsAt

(* A step of r that posts nothing keeps the count, if what it is done with  *)
(* and what leaves the log is forgotten.                                   *)
LEMMA CountKept ==
  ASSUME OnePosts, NEW r \in Actors, UNCHANGED posted, OthersStay(r),
         posterForgotten \subseteq posterForgotten',
         \A x \in Posts \ posterForgotten' :
           /\ x \in Poster!Entries(posterLog) => x \in Poster!Entries(posterLog')
           /\ AtPost(r, x) => AtPost(r, x)' \/ x \in Poster!Entries(posterLog'),
         \A x \in Posts : AtPost(r, x)' => AtPost(r, x) /\ posterRun'[r].pc # "post"
  PROVE  OnePosts'
<1> SUFFICES ASSUME NEW x \in Posts, x \notin posterForgotten'
             PROVE  /\ posted[x] <= 1
                    /\ posted[x] = 1 => x \in Poster!Entries(posterLog') \/ \E s \in Actors : AtPost(s, x)'
                    /\ \A s \in Actors : AtPost(s, x)' =>
                         /\ posterRun'[s].pc = "post" => posted[x] = 0
                         /\ \A t \in Actors : AtPost(t, x)' => t = s
  BY DEF OnePosts
<1>1. x \notin posterForgotten
  OBVIOUS
<1>2. \A s \in Actors : AtPost(s, x)' => AtPost(s, x)
  BY DEF OthersStay
<1>3. \A s \in Actors : AtPost(s, x) => AtPost(s, x)' \/ x \in Poster!Entries(posterLog')
  BY DEF OthersStay
<1>4. \A s \in Actors : AtPost(s, x)' /\ posterRun'[s].pc = "post" => posterRun[s].pc = "post"
  BY DEF OthersStay
<1> QED BY <1>1, <1>2, <1>3, <1>4 DEF OnePosts

(* A step of a run that is under way alone.                                *)
LEMMA AloneKept ==
  ASSUME AloneSound, NEW r \in Actors, posterRun[r] # Poster!Idle, OthersStay(r),
         UNCHANGED <<crossed, posterFailures>>,
         Alone =>
           /\ posterLog' \subseteq Posts /\ HandleSound(r)'
           /\ TextsOf(posterLog) \subseteq TextsOf(posterLog')
           /\ \A x \in Posts : posted'[x] > 0 => posted[x] > 0 \/ AtPost(r, x)'
           /\ \A x \in Posts : AtPost(r, x) => AtPost(r, x)' \/ x[2] \in TextsOf(posterLog')
  PROVE  AloneSound'
<1> SUFFICES ASSUME Alone
             PROVE  /\ \A p, s \in Actors : posterRun'[p] # Poster!Idle /\ posterRun'[s] # Poster!Idle => p = s
                    /\ posterLog' \subseteq Posts
                    /\ \A s \in Actors : HandleSound(s)'
                    /\ PostedStays'
  BY DEF AloneSound, Alone
<1>1. \A s \in Actors \ {r} : posterRun[s] = Poster!Idle /\ posterRun'[s] = Poster!Idle
  BY DEF AloneSound, OthersStay
<1>2. \A s \in Actors \ {r} : HandleSound(s)' /\ \A x \in Posts : ~AtPost(s, x)
  BY <1>1 DEF HandleSound, AtPost, AtWork, Poster!Idle
<1>3. PostedStays'
  <2> SUFFICES ASSUME NEW x \in Posts, posted'[x] > 0
               PROVE  x[2] \in TextsOf(posterLog') \/ \E s \in Actors : AtPost(s, x)'
    BY DEF PostedStays
  <2>1. CASE posted[x] > 0
    BY <1>2, <2>1 DEF AloneSound, PostedStays
  <2>2. CASE AtPost(r, x)'
    BY <2>2
  <2> QED BY <2>1, <2>2
<1> QED BY <1>1, <1>2, <1>3

LEMMA FailedIsNotAlone ==
  ASSUME PosterTyped, Poster!Fails
  PROVE  AloneSound' /\ posterFailures' \in Nat
BY DEF PosterTyped, Poster!Fails, AloneSound, Alone

LEMMA CheckKeepsPosts ==
  ASSUME PosterInv, NEW r \in Actors, NEW p \in Single, Poster!Check(r, p)
  PROVE  PosterInv'
<1>1. posterRun[r] \in Turning /\ posterRun[r].pc = "next" /\ p \in posterRun[r].todo
  BY PosterRunRow DEF Poster!Check, Poster!At, PosterInv
<1>2. UNCHANGED <<queue, posterLog, tmp, posted, crossed, posterFailures>>
  BY DEF Poster!Check
<1>3. posterRun[r] # Poster!Idle /\ \A x \in Posts : ~AtPost(r, x)
  BY <1>1, PosterRunRow DEF PosterInv
<1> DEFINE c == <<p, posterRun[r].slot>>
           rest == [posterRun[r] EXCEPT !.todo = @ \ {p}]
<1>4. rest \in Turning /\ rest.pc = "next"
  BY <1>1 DEF Turning
<1>5. c \in Channels
  BY <1>1 DEF Turning, Channels
<1>6. CASE Poster!Becomes(r, rest) /\ UNCHANGED posterForgotten
  <2> HIDE DEF rest, c
  <2>1. /\ posterRun' \in [Actors -> PosterRuns] /\ posterRun'[r].pc = "next"
        /\ OthersStay(r) /\ \A y \in Posts : ~AtPost(r, y)'
    BY <1>4, <1>6, PosterRow DEF PosterInv, PosterRuns, IsAt
  <2>2. PosterTyped'
    BY <1>2, <2>1 DEF PosterInv, PosterTyped
  <2>3. OnePosts'
    BY <1>2, <1>3, <1>6, <2>1, CountKept DEF PosterInv
  <2>4. HandleSound(r)'
    BY <2>1 DEF HandleSound
  <2>5. AloneSound'
    BY <1>2, <1>3, <2>1, <2>4, AloneKept DEF PosterInv, AloneSound
  <2> QED BY <2>2, <2>3, <2>5 DEF PosterInv
<1>7. CASE /\ Poster!IsDue(c)
           /\ Poster!Becomes(r, [pc |-> "post", slot |-> rest.slot, todo |-> rest.todo,
                                 post |-> <<c, queue[c]>>])
           /\ posterForgotten' = posterForgotten \cup
                {x \in {<<c, queue[c]>>} : \E other \in Actors \ {r} : x \in Poster!Works(other)}
  <2> DEFINE x == <<c, queue[c]>>
             y == [pc |-> "post", slot |-> rest.slot, todo |-> rest.todo, post |-> x]
  <2>1. x \in Posts /\ x \notin Poster!Entries(posterLog)
    BY <1>5, <1>7 DEF Poster!IsDue, Poster!AlreadyPosted, Posts, PosterInv, PosterTyped
  <2>2. y \in Posting /\ y.pc = "post" /\ y.post = x
    <3> HIDE DEF x
    <3> QED BY <1>4, <2>1 DEF Turning, Posting
  <2>3. Poster!Becomes(r, y)
    BY <1>7
  <2>4. /\ posterForgotten \subseteq posterForgotten'
        /\ x \notin posterForgotten' => \A s \in Actors : ~AtPost(s, x)
    BY <1>3, <1>7, <2>1 DEF Poster!Works, AtPost, AtWork
  <2> HIDE DEF x, y, c, rest
  <2>5. /\ posterRun' \in [Actors -> PosterRuns] /\ posterRun'[r] = y
        /\ OthersStay(r) /\ \A z \in Posts : AtPost(r, z)' <=> x = z
    BY <2>2, <2>3, PosterRow DEF PosterInv, PosterRuns, IsAt, AtWork
  <2>6. PosterTyped'
    BY <1>2, <2>5 DEF PosterInv, PosterTyped
  <2>7. OnePosts'
    <3> SUFFICES ASSUME NEW z \in Posts, z \notin posterForgotten'
                 PROVE  /\ posted[z] <= 1
                        /\ posted[z] = 1 => z \in Poster!Entries(posterLog) \/ \E s \in Actors : AtPost(s, z)'
                        /\ \A s \in Actors : AtPost(s, z)' =>
                             /\ posterRun'[s].pc = "post" => posted[z] = 0
                             /\ \A t \in Actors : AtPost(t, z)' => t = s
      BY <1>2 DEF OnePosts
    <3>1. z \notin posterForgotten
      BY <2>4
    <3>2. CASE z # x
      BY <1>3, <2>5, <3>1, <3>2 DEF PosterInv, OnePosts, OthersStay
    <3>3. CASE z = x
      <4>1. \A s \in Actors : ~AtPost(s, z)
        BY <2>4, <3>3
      <4>2. posted[z] <= 1 /\ posted[z] # 1 /\ posted[z] \in Nat
        BY <2>1, <3>1, <3>3, <4>1 DEF PosterInv, OnePosts, PosterTyped
      <4>3. posted[z] = 0
        BY <4>2
      <4>4. \A s \in Actors : AtPost(s, z)' => s = r
        BY <2>5, <4>1 DEF OthersStay
      <4> QED BY <4>3, <4>4
    <3> QED BY <3>2, <3>3
  <2>8. HandleSound(r)'
    BY <2>2, <2>5 DEF HandleSound
  <2>9. AloneSound'
    BY <1>2, <1>3, <2>5, <2>8, AloneKept DEF PosterInv, AloneSound
  <2> QED BY <2>6, <2>7, <2>9 DEF PosterInv
<1> QED BY <1>6, <1>7 DEF Poster!Check

LEMMA PostKeeps ==
  ASSUME PosterInv, NEW r \in Actors, Poster!Post(r)
  PROVE  PosterInv'
<1>1. posterRun[r] \in Posting /\ posterRun[r].pc = "post"
  BY PosterRunRow DEF Poster!Post, Poster!At, PosterInv
<1>2. PICK x \in Posts : x = posterRun[r].post
  BY <1>1 DEF Posting
<1>3. /\ AtPost(r, x) /\ \A y \in Posts : AtPost(r, y) => y = x
      /\ posterRun[r] # Poster!Idle /\ posterRun[r].pc \in AtWork
  BY <1>1, <1>2, PosterRunRow DEF AtPost, AtWork, PosterInv
<1>4. UNCHANGED <<queue, posterLog, tmp, crossed>>
  BY DEF Poster!Post
<1>5. CASE /\ \E pressed \in {0, 1} : posted' = [posted EXCEPT ![x] = @ + pressed]
           /\ Poster!Becomes(r, [posterRun[r] EXCEPT !.pc = "load"])
           /\ UNCHANGED <<posterForgotten, posterFailures>>
  <2>1. PICK n \in {0, 1} : posted' = [posted EXCEPT ![x] = @ + n]
    BY <1>5
  <2> DEFINE y == [posterRun[r] EXCEPT !.pc = "load"]
  <2>2. y \in Posting /\ y.pc = "load" /\ y.post = x
    BY <1>1, <1>2 DEF Posting
  <2>3. Poster!Becomes(r, y)
    BY <1>5
  <2> HIDE DEF y
  <2>4. /\ posterRun' \in [Actors -> PosterRuns] /\ posterRun'[r] = y
        /\ OthersStay(r) /\ \A z \in Posts : AtPost(r, z)' <=> x = z
    BY <2>2, <2>3, PosterRow DEF PosterInv, PosterRuns, IsAt, AtWork
  <2>5. /\ posted' \in [Posts -> Nat] /\ posted'[x] = posted[x] + n
        /\ \A z \in Posts \ {x} : posted'[z] = posted[z]
    BY <2>1 DEF PosterInv, PosterTyped
  <2>6. PosterTyped'
    BY <1>4, <1>5, <2>4, <2>5 DEF PosterInv, PosterTyped
  <2>7. OnePosts'
    <3> SUFFICES ASSUME NEW z \in Posts, z \notin posterForgotten
                 PROVE  /\ posted'[z] <= 1
                        /\ posted'[z] = 1 => z \in Poster!Entries(posterLog) \/ \E s \in Actors : AtPost(s, z)'
                        /\ \A s \in Actors : AtPost(s, z)' =>
                             /\ posterRun'[s].pc = "post" => posted'[z] = 0
                             /\ \A t \in Actors : AtPost(t, z)' => t = s
      BY <1>4, <1>5 DEF OnePosts
    <3>1. CASE z # x
      BY <1>3, <2>4, <2>5, <3>1 DEF PosterInv, OnePosts, OthersStay
    <3>2. CASE z = x
      <4>1. posted[x] = 0 /\ \A s \in Actors : AtPost(s, x) => s = r
        BY <1>1, <1>3, <3>2 DEF PosterInv, OnePosts
      <4>2. posted'[x] \in {0, 1}
        BY <2>5, <4>1
      <4>3. AtPost(r, x)' /\ posterRun'[r].pc = "load" /\ \A s \in Actors : AtPost(s, x)' => s = r
        BY <2>2, <2>4, <4>1 DEF OthersStay
      <4> QED BY <3>2, <4>2, <4>3
    <3> QED BY <3>1, <3>2
  <2>8. HandleSound(r)'
    BY <2>2, <2>4 DEF HandleSound
  <2>9. \A z \in Posts : posted'[z] > 0 => posted[z] > 0 \/ AtPost(r, z)'
    BY <2>4, <2>5
  <2>10. AloneSound'
    BY <1>3, <1>4, <1>5, <2>4, <2>8, <2>9, AloneKept DEF PosterInv, AloneSound
  <2> QED BY <2>6, <2>7, <2>10 DEF PosterInv
<1>6. CASE /\ Poster!Fails /\ Poster!GoesOn(r)
           /\ \/ posted' = [posted EXCEPT ![x] = @ + 1] /\ posterForgotten' = posterForgotten \cup {x}
              \/ UNCHANGED <<posted, posterForgotten>>
  <2>1. /\ posterRun' \in [Actors -> PosterRuns] /\ OthersStay(r)
        /\ \A y \in Posts : ~AtPost(r, y)'
    BY <1>3, <1>6, GoesOnRow DEF PosterInv
  <2>2. /\ posted' \in [Posts -> Nat] /\ posterForgotten \subseteq posterForgotten'
        /\ \A z \in Posts \ posterForgotten' : posted'[z] = posted[z]
    BY <1>6 DEF PosterInv, PosterTyped
  <2>3. PosterTyped' /\ AloneSound'
    BY <1>4, <1>6, <2>1, <2>2, FailedIsNotAlone DEF PosterInv, PosterTyped
  <2>4. OnePosts'
    <3> SUFFICES ASSUME NEW z \in Posts, z \notin posterForgotten'
                 PROVE  /\ posted[z] <= 1
                        /\ posted[z] = 1 => z \in Poster!Entries(posterLog) \/ \E s \in Actors : AtPost(s, z)'
                        /\ \A s \in Actors : AtPost(s, z)' =>
                             /\ posterRun'[s].pc = "post" => posted[z] = 0
                             /\ \A t \in Actors : AtPost(t, z)' => t = s
      BY <1>4, <2>2 DEF OnePosts
    <3>1. z \notin posterForgotten
      BY <2>2
    <3>2. z = x => posted[z] = 0
      BY <1>1, <1>3, <3>1 DEF PosterInv, OnePosts
    <3> QED BY <1>3, <2>1, <3>1, <3>2 DEF PosterInv, OnePosts, OthersStay
  <2> QED BY <2>3, <2>4 DEF PosterInv
<1> QED BY <1>2, <1>5, <1>6 DEF Poster!Post

(* What a step that forgets leaves unforgotten is in the log still.         *)
LEMMA ForgetsLeaves ==
  ASSUME NEW done, Poster!Forgets(done)
  PROVE  /\ posterForgotten \subseteq posterForgotten'
         /\ \A x \in Posts \ posterForgotten' :
              /\ x \in Poster!Entries(posterLog) => x \in Poster!Entries(posterLog')
              /\ x \in done => x \in Poster!Entries(posterLog')
BY DEF Poster!Forgets

(* A run that stays at its post, whatever it does to the files.             *)
LEMMA StaysAtPost ==
  ASSUME PosterInv, NEW r \in Actors, posterRun[r].pc \in AtWork,
         NEW y \in PosterRuns, y.pc \in {"open", "write", "replace"}, y.post = posterRun[r].post,
         Poster!Becomes(r, y), Poster!Forgets({}),
         UNCHANGED <<queue, posted, crossed, posterFailures>>,
         posterLog' \in PosterFiles, tmp' \in PosterFiles \cup {nobody},
         Alone => /\ posterLog' \subseteq Posts /\ TextsOf(posterLog) \subseteq TextsOf(posterLog')
                  /\ posterRun'[r] = y => HandleSound(r)'
  PROVE  PosterInv'
<1>1. /\ posterRun' \in [Actors -> PosterRuns] /\ posterRun'[r] = y
      /\ OthersStay(r) /\ \A z \in Posts : AtPost(r, z)' <=> y.post = z
  BY PosterRow DEF PosterInv, IsAt, AtWork
<1>2. posterRun[r] # Poster!Idle /\ \A z \in Posts : AtPost(r, z)' <=> AtPost(r, z)
  BY <1>1, PosterRunRow DEF PosterInv, AtWork
<1>3. PosterTyped'
  BY <1>1 DEF PosterInv, PosterTyped
<1>4. OnePosts'
  BY <1>1, <1>2, ForgetsLeaves, CountKept DEF PosterInv
<1>5. AloneSound'
  BY <1>1, <1>2, AloneKept DEF PosterInv
<1> QED BY <1>3, <1>4, <1>5 DEF PosterInv

LEMMA LoadKeepsPosts ==
  ASSUME PosterInv, NEW r \in Actors, Poster!Load(r)
  PROVE  PosterInv'
<1>1. posterRun[r] \in Posting /\ posterRun[r].pc = "load" /\ posterRun[r].pc \in AtWork
  BY PosterRunRow DEF Poster!Load, Poster!At, PosterInv, AtWork
<1>2. /\ UNCHANGED <<queue, posterLog, tmp, posted, crossed, posterFailures>>
      /\ UNCHANGED posterForgotten
  BY DEF Poster!Load
<1> DEFINE y == [pc |-> "open", slot |-> posterRun[r].slot, todo |-> posterRun[r].todo,
                 post |-> posterRun[r].post, entries |-> Poster!Entries(posterLog)]
<1>3. y \in Opening
  BY <1>1, EntriesArePosts DEF Posting, Opening, PosterInv, PosterTyped
<1>4. y.pc = "open" /\ y.post = posterRun[r].post /\ y.entries = Poster!Entries(posterLog)
  OBVIOUS
<1>5. Poster!Becomes(r, y)
  BY DEF Poster!Load
<1> HIDE DEF y
<1>6. Poster!Forgets({})
  BY <1>2 DEF Poster!Forgets
<1>7. Alone => posterLog \subseteq Posts /\ y.entries = posterLog
  BY <1>4, EntriesOfPosts DEF PosterInv, AloneSound
<1>8. Alone => (posterRun'[r] = y => HandleSound(r)')
  BY <1>2, <1>4, <1>7 DEF HandleSound
<1>9. posterLog' \in PosterFiles /\ tmp' \in PosterFiles \cup {nobody} /\ y \in PosterRuns
  BY <1>2, <1>3 DEF PosterInv, PosterTyped, PosterRuns
<1> QED BY <1>1, <1>2, <1>4, <1>5, <1>6, <1>7, <1>8, <1>9, StaysAtPost

LEMMA OpenKeepsPosts ==
  ASSUME PosterInv, NEW r \in Actors, Poster!Open(r)
  PROVE  PosterInv'
<1>1. posterRun[r] \in Opening /\ posterRun[r].pc = "open" /\ posterRun[r].pc \in AtWork
  BY PosterRunRow DEF Poster!Open, Poster!At, PosterInv, AtWork
<1>2. /\ UNCHANGED <<queue, posterLog, posted, crossed, posterFailures>>
      /\ UNCHANGED posterForgotten /\ tmp' = {}
  BY DEF Poster!Open
<1> DEFINE y == [pc |-> "write", slot |-> posterRun[r].slot, todo |-> posterRun[r].todo,
                 post |-> posterRun[r].post, entries |-> posterRun[r].entries, file |-> "tmp"]
<1>3. y \in Writing
  BY <1>1 DEF Opening, Writing, Poster!Handles
<1>4. /\ y.pc = "write" /\ y.post = posterRun[r].post /\ y.entries = posterRun[r].entries
      /\ y.file = "tmp"
  OBVIOUS
<1>5. Poster!Becomes(r, y)
  BY DEF Poster!Open
<1> HIDE DEF y
<1>6. Poster!Forgets({})
  BY <1>2 DEF Poster!Forgets
<1>7. Alone => posterLog \subseteq Posts /\ y.entries = posterLog
  BY <1>1, <1>4 DEF PosterInv, AloneSound, HandleSound
<1>8. Alone => (posterRun'[r] = y => HandleSound(r)')
  BY <1>2, <1>4, <1>7 DEF HandleSound
<1>9. posterLog' \in PosterFiles /\ tmp' \in PosterFiles \cup {nobody} /\ y \in PosterRuns
  BY <1>2, <1>3 DEF PosterInv, PosterTyped, PosterRuns, PosterFiles
<1> QED BY <1>1, <1>2, <1>4, <1>5, <1>6, <1>7, <1>8, <1>9, StaysAtPost

LEMMA EnterTexts ==
  ASSUME NEW f \in SUBSET Posts, NEW x \in Posts
  PROVE  /\ Poster!Enter(f, x) \in SUBSET Posts /\ x \in Poster!Enter(f, x)
         /\ TextsOf(f) \subseteq TextsOf(Poster!Enter(f, x))
<1>1. Poster!Enter(f, x) \in SUBSET Posts /\ x \in Poster!Enter(f, x)
  BY DEF Poster!Enter
<1>2. \A y \in f : y \in Poster!Enter(f, x) \/ y[2] = x[2]
  BY DEF Poster!Enter
<1>3. Poster!Entries(f) = f /\ Poster!Entries(Poster!Enter(f, x)) = Poster!Enter(f, x)
  BY <1>1, EntriesOfPosts
<1> QED BY <1>1, <1>2, <1>3 DEF TextsOf

LEMMA WriteKeepsPosts ==
  ASSUME PosterInv, NEW r \in Actors, Poster!Write(r)
  PROVE  PosterInv'
<1>1. posterRun[r] \in Writing /\ posterRun[r].pc = "write" /\ posterRun[r].pc \in AtWork
  BY PosterRunRow DEF Poster!Write, Poster!At, PosterInv, AtWork
<1>2. UNCHANGED <<queue, posted, crossed, posterFailures>> /\ Poster!Forgets({})
  BY DEF Poster!Write
<1> DEFINE y == [pc |-> "replace", slot |-> posterRun[r].slot, todo |-> posterRun[r].todo,
                 post |-> posterRun[r].post]
           f == Poster!Enter(posterRun[r].entries, posterRun[r].post)
<1>3. y \in Posting
  BY <1>1 DEF Posting, Writing
<1>4. y.pc = "replace" /\ y.post = posterRun[r].post
  OBVIOUS
<1>5. Poster!Becomes(r, y)
  BY DEF Poster!Write
<1>6. /\ posterRun[r].entries \in SUBSET Posts /\ posterRun[r].post \in Posts
      /\ posterRun[r].file \in Poster!Handles
  BY <1>1 DEF Writing
<1>7. /\ f \in SUBSET Posts /\ posterRun[r].post \in f
      /\ TextsOf(posterRun[r].entries) \subseteq TextsOf(f)
  BY <1>6, EnterTexts
<1>8. \/ posterRun[r].file = "tmp" /\ tmp' \in Poster!Landed(tmp, f) /\ UNCHANGED posterLog
      \/ posterRun[r].file = "log" /\ posterLog' \in Poster!Landed(posterLog, f) /\ UNCHANGED tmp
      \/ posterRun[r].file = "gone" /\ UNCHANGED <<posterLog, tmp>>
  BY DEF Poster!Write
<1> HIDE DEF y, f
<1>9. \A old : /\ Poster!Landed(old, f) \subseteq PosterFiles
               /\ old = {} => Poster!Landed(old, f) = {f}
  BY <1>7 DEF Poster!Landed, PosterFiles
<1>10. posterLog' \in PosterFiles /\ tmp' \in PosterFiles \cup {nobody} /\ y \in PosterRuns
  BY <1>3, <1>8, <1>9 DEF PosterInv, PosterTyped, PosterRuns
<1>11. ASSUME Alone
       PROVE  /\ UNCHANGED posterLog /\ posterLog \subseteq Posts
              /\ tmp' = f /\ posterRun[r].entries = posterLog
  <2>1. /\ posterRun[r].entries = posterLog /\ posterRun[r].file = "tmp" /\ tmp = {}
        /\ posterLog \subseteq Posts
    BY <1>1, <1>11 DEF PosterInv, AloneSound, HandleSound
  <2>2. tmp' \in Poster!Landed(tmp, f) /\ UNCHANGED posterLog
    BY <1>8, <2>1
  <2>3. tmp' \in {f}
    BY <1>9, <2>1, <2>2
  <2> QED BY <2>1, <2>2, <2>3
<1>12. Alone => (posterRun'[r] = y => HandleSound(r)')
  BY <1>4, <1>7, <1>11 DEF HandleSound
<1>13. Alone => posterLog' \subseteq Posts /\ TextsOf(posterLog) \subseteq TextsOf(posterLog')
  BY <1>11
<1> QED BY <1>1, <1>2, <1>4, <1>5, <1>10, <1>12, <1>13, StaysAtPost

(* A run that is done with a post, whatever it did to the files.            *)
LEMMA DoneWithPost ==
  ASSUME PosterInv, NEW r \in Actors, posterRun[r].pc \in AtWork, Poster!Forgets({posterRun[r].post}),
         UNCHANGED posted, OthersStay(r), \A y \in Posts : ~AtPost(r, y)'
  PROVE  OnePosts'
<1>1. \A x \in Posts : AtPost(r, x) => x \in {posterRun[r].post}
  BY DEF AtPost
<1> QED BY <1>1, ForgetsLeaves, CountKept DEF PosterInv

LEMMA ReplaceKeeps ==
  ASSUME PosterInv, NEW r \in Actors, Poster!Replace(r)
  PROVE  PosterInv'
<1>1. /\ posterRun[r] \in Posting /\ posterRun[r].pc = "replace" /\ posterRun[r].pc \in AtWork
      /\ posterRun[r] # Poster!Idle /\ posterRun[r].post \in Posts
      /\ \A x \in Posts : AtPost(r, x) <=> x = posterRun[r].post
  BY PosterRunRow DEF Poster!Replace, Poster!At, PosterInv, AtWork
<1>2. UNCHANGED <<queue, posted, crossed, posterFailures>> /\ Poster!Forgets({posterRun[r].post})
  BY DEF Poster!Replace
<1>3. CASE tmp = nobody /\ Poster!GoesOn(r) /\ UNCHANGED <<posterLog, tmp>>
  <2>1. /\ posterRun' \in [Actors -> PosterRuns]
        /\ OthersStay(r) /\ posterRun'[r].pc = "next" /\ \A y \in Posts : ~AtPost(r, y)'
    BY <1>1, <1>3, GoesOnRow DEF PosterInv
  <2>2. PosterTyped'
    BY <1>2, <1>3, <2>1 DEF PosterInv, PosterTyped
  <2>3. OnePosts'
    BY <1>1, <1>2, <2>1, DoneWithPost
  <2>4. ~Alone
    <3>1. SUFFICES ASSUME Alone PROVE FALSE
      OBVIOUS
    <3>2. tmp \subseteq Posts /\ posterRun[r].post \in tmp
      BY <1>1, <3>1 DEF PosterInv, AloneSound, HandleSound
    <3> QED BY <1>3, <3>2, NobodyAssumption DEF Posts, Channels
  <2>5. AloneSound'
    BY <1>1, <1>2, <2>1, <2>4, AloneKept DEF PosterInv
  <2> QED BY <2>2, <2>3, <2>5 DEF PosterInv
<1>4. CASE /\ tmp # nobody /\ posterLog' = tmp /\ tmp' = nobody
           /\ posterRun' = [other \in Actors |->
                IF other = r THEN [pc |-> "next", slot |-> posterRun[r].slot, todo |-> posterRun[r].todo]
                ELSE Poster!Moved(posterRun[other])]
  <2> DEFINE x == [pc |-> "next", slot |-> posterRun[r].slot, todo |-> posterRun[r].todo]
  <2>1. x \in Turning /\ x.pc = "next"
    BY <1>1 DEF Turning, Posting
  <2>2. posterRun'[r] = x /\ \A s \in Actors \ {r} : posterRun'[s] = Poster!Moved(posterRun[s])
    BY <1>4
  <2>3. posterRun' = [other \in Actors |-> IF other = r THEN x ELSE Poster!Moved(posterRun[other])]
    BY <1>4
  <2> HIDE DEF x
  <2>4. ASSUME NEW s \in Actors
        PROVE  /\ Poster!Moved(posterRun[s]) \in PosterRuns
               /\ Poster!Moved(posterRun[s]).pc = posterRun[s].pc
               /\ posterRun[s].pc # "write" => Poster!Moved(posterRun[s]) = posterRun[s]
               /\ posterRun[s].pc = "write" => Poster!Moved(posterRun[s]).post = posterRun[s].post
    <3>1. CASE posterRun[s].pc # "write"
      BY <3>1, PosterRunRow DEF Poster!Moved, PosterInv
    <3>2. CASE posterRun[s].pc = "write"
      <4>1. posterRun[s] \in Writing
        BY <3>2, PosterRunRow DEF PosterInv
      <4> DEFINE z == [posterRun[s] EXCEPT !.file = IF @ = "tmp" THEN "log" ELSE "gone"]
      <4>2. z \in Writing /\ z.pc = posterRun[s].pc /\ z.post = posterRun[s].post
        BY <4>1 DEF Writing, Poster!Handles
      <4>3. Poster!Moved(posterRun[s]) = z
        BY <3>2 DEF Poster!Moved
      <4> HIDE DEF z
      <4> QED BY <3>2, <4>2, <4>3 DEF PosterRuns
    <3> QED BY <3>1, <3>2
  <2>5. posterRun' \in [Actors -> PosterRuns]
    BY <2>1, <2>3, <2>4 DEF PosterRuns
  <2>6. OthersStay(r)
    <3> SUFFICES ASSUME NEW s \in Actors \ {r}
                 PROVE  /\ posterRun'[s].pc = posterRun[s].pc
                        /\ posterRun[s] = Poster!Idle => posterRun'[s] = Poster!Idle
                        /\ \A y \in Posts : AtPost(s, y)' <=> AtPost(s, y)
      BY DEF OthersStay
    <3>1. posterRun[s] = Poster!Idle => posterRun[s].pc # "write"
      BY DEF Poster!Idle
    <3> QED BY <2>2, <2>4, <3>1 DEF AtPost
  <2>7. \A y \in Posts : ~AtPost(r, y)'
    BY <2>1, <2>2 DEF AtPost, AtWork
  <2>8. posterLog' \in PosterFiles
    BY <1>4 DEF PosterInv, PosterTyped
  <2>9. PosterTyped'
    BY <1>2, <1>4, <2>5, <2>8 DEF PosterInv, PosterTyped
  <2>10. OnePosts'
    BY <1>1, <1>2, <2>6, <2>7, DoneWithPost
  <2>11. ASSUME Alone
         PROVE  /\ posterLog' \subseteq Posts /\ posterRun[r].post \in posterLog'
                /\ TextsOf(posterLog) \subseteq TextsOf(posterLog')
    BY <1>1, <1>4, <2>11 DEF PosterInv, AloneSound, HandleSound
  <2>12. ASSUME Alone, NEW y \in Posts, AtPost(r, y)
         PROVE  y[2] \in TextsOf(posterLog')
    <3>1. y \in Poster!Entries(posterLog')
      BY <1>1, <2>11, <2>12, EntriesOfPosts
    <3> QED BY <3>1 DEF TextsOf
  <2>13. HandleSound(r)'
    BY <2>1, <2>2 DEF HandleSound
  <2>14. AloneSound'
    BY <1>1, <1>2, <2>6, <2>11, <2>12, <2>13, AloneKept DEF PosterInv
  <2> QED BY <2>9, <2>10, <2>14 DEF PosterInv
<1> QED BY <1>3, <1>4 DEF Poster!Replace

LEMMA RaiseKeepsPosts ==
  ASSUME PosterInv, NEW r \in Actors, Poster!Raise(r)
  PROVE  PosterInv'
<1>1. posterRun[r].pc \in AtWork
  BY DEF Poster!Raise, AtWork
<1>2. /\ UNCHANGED <<queue, posted, crossed>> /\ Poster!Forgets({posterRun[r].post})
      /\ Poster!Fails /\ Poster!GoesOn(r)
      /\ UNCHANGED posterLog \/ posterLog' = Poster!Broken
      /\ UNCHANGED tmp \/ tmp' = Poster!Broken
  BY DEF Poster!Raise, Poster!Stops
<1>3. /\ posterRun' \in [Actors -> PosterRuns]
      /\ OthersStay(r) /\ \A y \in Posts : ~AtPost(r, y)'
  BY <1>1, <1>2, GoesOnRow DEF PosterInv
<1>4. AloneSound' /\ posterFailures' \in Nat
  BY <1>2, FailedIsNotAlone DEF PosterInv
<1>5. PosterTyped'
  BY <1>2, <1>3, <1>4 DEF PosterInv, PosterTyped, PosterFiles
<1>6. OnePosts'
  BY <1>1, <1>2, <1>3, DoneWithPost
<1> QED BY <1>4, <1>5, <1>6 DEF PosterInv

LEMMA StartKeepsPosts ==
  ASSUME PosterInv, NEW r \in Actors, NEW slot \in Items, Poster!Start(r, slot)
  PROVE  PosterInv'
<1> DEFINE x == [pc |-> "next", slot |-> slot, todo |-> Single]
<1>1. x \in Turning /\ x.pc = "next"
  BY DEF Turning
<1>2. /\ posterRun[r] = Poster!Idle /\ Poster!Becomes(r, x)
      /\ UNCHANGED <<queue, posterLog, tmp, posted, posterForgotten, posterFailures>>
      /\ crossed' = (crossed \/ \E other \in Actors : posterRun[other] # Poster!Idle)
  BY DEF Poster!Start
<1> HIDE DEF x
<1>3. /\ posterRun' \in [Actors -> PosterRuns] /\ posterRun'[r] = x
      /\ OthersStay(r) /\ \A y \in Posts : ~AtPost(r, y)'
  BY <1>1, <1>2, PosterRow DEF PosterInv, PosterRuns, IsAt
<1>4. \A y \in Posts : ~AtPost(r, y)
  BY <1>2 DEF AtPost, AtWork, Poster!Idle
<1>5. PosterTyped'
  BY <1>2, <1>3 DEF PosterInv, PosterTyped
<1>6. OnePosts'
  BY <1>2, <1>3, <1>4, CountKept DEF PosterInv
<1>7. AloneSound'
  <2> SUFFICES ASSUME Alone'
               PROVE  /\ \A p, s \in Actors : posterRun'[p] # Poster!Idle /\ posterRun'[s] # Poster!Idle => p = s
                      /\ posterLog' \subseteq Posts
                      /\ \A s \in Actors : HandleSound(s)'
                      /\ PostedStays'
    BY DEF AloneSound
  <2>1. Alone /\ \A s \in Actors : posterRun[s] = Poster!Idle
    BY <1>2 DEF Alone
  <2>2. \A s \in Actors \ {r} : posterRun'[s] = Poster!Idle
    BY <1>3, <2>1 DEF OthersStay
  <2>3. \A s \in Actors : HandleSound(s)'
    BY <1>1, <1>3, <2>2 DEF HandleSound, Poster!Idle
  <2>4. \A s \in Actors, y \in Posts : ~AtPost(s, y)
    BY <2>1 DEF AtPost, AtWork, Poster!Idle
  <2>5. PostedStays'
    BY <1>2, <2>1, <2>4 DEF PosterInv, AloneSound, PostedStays
  <2> QED BY <1>2, <2>1, <2>2, <2>3, <2>5 DEF PosterInv, AloneSound
<1> QED BY <1>5, <1>6, <1>7 DEF PosterInv

LEMMA EndKeepsPosts ==
  ASSUME PosterInv, NEW r \in Actors, Poster!End(r) \/ Poster!Die(r)
  PROVE  PosterInv'
<1>1. /\ UNCHANGED <<queue, posted, crossed>> /\ posterRun[r] # Poster!Idle
      /\ Poster!Becomes(r, Poster!Idle)
  BY DEF Poster!End, Poster!Die, Poster!At, Poster!Idle
<1>2. /\ posterRun' \in [Actors -> PosterRuns] /\ posterRun'[r] = Poster!Idle
      /\ OthersStay(r) /\ \A y \in Posts : ~AtPost(r, y)'
  <2>1. Poster!Idle \in PosterRuns /\ Poster!Idle.pc = "idle"
    BY DEF PosterRuns, Poster!Idle
  <2> QED BY <1>1, <2>1, PosterRow DEF PosterInv, IsAt
<1>3. CASE Poster!End(r)
  <2>1. posterRun[r].pc = "next" /\ UNCHANGED <<posterLog, tmp, posterForgotten, posterFailures>>
    BY <1>3 DEF Poster!End, Poster!At
  <2>2. \A y \in Posts : ~AtPost(r, y)
    BY <2>1 DEF AtPost, AtWork
  <2>3. PosterTyped' /\ OnePosts'
    BY <1>1, <1>2, <2>1, <2>2, CountKept DEF PosterInv, PosterTyped
  <2>4. HandleSound(r)'
    BY <1>2 DEF HandleSound, Poster!Idle
  <2>5. AloneSound'
    BY <1>1, <1>2, <2>1, <2>2, <2>4, AloneKept DEF PosterInv, AloneSound
  <2> QED BY <2>3, <2>5 DEF PosterInv
<1>4. CASE Poster!Die(r)
  <2>1. /\ posterForgotten' = posterForgotten \cup Poster!Works(r)
             \cup (Poster!Entries(posterLog) \ Poster!Entries(posterLog'))
        /\ Poster!Fails
        /\ UNCHANGED posterLog \/ posterLog' = Poster!Broken
        /\ UNCHANGED tmp \/ tmp' = Poster!Broken
    BY <1>4 DEF Poster!Die, Poster!Stops
  <2>2. \A y \in Posts : AtPost(r, y) => y \in posterForgotten'
    BY <2>1 DEF AtPost, AtWork, Poster!Works
  <2>3. OnePosts'
    BY <1>1, <1>2, <2>1, <2>2, CountKept DEF PosterInv
  <2>4. AloneSound' /\ posterFailures' \in Nat
    BY <2>1, FailedIsNotAlone DEF PosterInv
  <2>5. PosterTyped'
    BY <1>1, <1>2, <2>1, <2>4 DEF PosterInv, PosterTyped, PosterFiles
  <2> QED BY <2>3, <2>4, <2>5 DEF PosterInv
<1> QED BY <1>3, <1>4

LEMMA PosterStands ==
  ASSUME PosterInv,
         UNCHANGED <<posterLog, tmp, posted, posterRun, posterForgotten, crossed, posterFailures>>,
         queue' \in [Channels -> Contents \cup {nobody}]
  PROVE  PosterInv'
<1>1. PosterTyped'
  BY DEF PosterInv, PosterTyped
<1>2. OnePosts'
  BY DEF PosterInv, OnePosts, AtPost
<1>3. AloneSound'
  BY DEF PosterInv, AloneSound, Alone, HandleSound, PostedStays, AtPost, TextsOf
<1> QED BY <1>1, <1>2, <1>3 DEF PosterInv

LEMMA PosterStep ==
  ASSUME PosterInv, Poster!Next
  PROVE  PosterInv'
<1>1. CASE \E c \in Channels, text \in Contents \cup {nobody} : Poster!Queue(c, text)
  <2>1. UNCHANGED <<posterLog, tmp, posted, posterRun, posterForgotten, crossed, posterFailures>>
        /\ queue' \in [Channels -> Contents \cup {nobody}]
    BY <1>1 DEF Poster!Queue, PosterInv, PosterTyped
  <2> QED BY <2>1, PosterStands
<1>2. CASE UNCHANGED Poster!vars
  <2>1. UNCHANGED <<posterLog, tmp, posted, posterRun, posterForgotten, crossed, posterFailures>>
        /\ queue' \in [Channels -> Contents \cup {nobody}]
    BY <1>2 DEF Poster!vars, PosterInv, PosterTyped
  <2> QED BY <2>1, PosterStands
<1> QED BY <1>1, <1>2, StartKeepsPosts, CheckKeepsPosts, PostKeeps, LoadKeepsPosts, OpenKeepsPosts,
      WriteKeepsPosts, ReplaceKeeps, RaiseKeepsPosts, EndKeepsPosts
    DEF Poster!Next, Poster!Channels, Channels

LEMMA PosterInvariance == Behaviour => [](Is("poster") => PosterInv)
<1>1. SumInit => (Is("poster") => PosterInv)
  <2>1. ASSUME Poster!Init PROVE PosterInv
    <3>1. PosterTyped
      BY <2>1 DEF Poster!Init, PosterTyped, PosterRuns, PosterFiles,
        Poster!Channels, Poster!Posts, Channels, Posts
    <3>2. /\ \A x \in Posts : posted[x] = 0
          /\ \A r \in Actors : posterRun[r] = Poster!Idle
          /\ posterLog = {}
      BY <2>1 DEF Poster!Init, Poster!Channels, Poster!Posts, Channels, Posts
    <3>3. OnePosts
      BY <3>2 DEF OnePosts, AtPost, AtWork, Poster!Idle
    <3>4. AloneSound
      BY <3>2 DEF AloneSound, HandleSound, PostedStays, Poster!Idle
    <3> QED BY <3>1, <3>3, <3>4 DEF PosterInv
  <2> QED BY <2>1 DEF SumInit
<1>2. (Is("poster") => PosterInv) /\ [SumNext]_all => (Is("poster") => PosterInv)'
  <2> SUFFICES ASSUME Is("poster") => PosterInv, [SumNext]_all, Is("poster")'
               PROVE  PosterInv'
    OBVIOUS
  <2>1. PosterInv /\ (Poster!Next \/ UNCHANGED posterVars)
    BY OneRuns DEF Is
  <2>2. CASE UNCHANGED posterVars
    <3>1. UNCHANGED <<posterLog, tmp, posted, posterRun, posterForgotten, crossed, posterFailures>>
          /\ queue' \in [Channels -> Contents \cup {nobody}]
      BY <2>1, <2>2 DEF posterVars, PosterInv, PosterTyped
    <3> QED BY <2>1, <3>1, PosterStands
  <2> QED BY <2>1, <2>2, PosterStep
<1> QED BY <1>1, <1>2, PTL DEF Behaviour

(* A text is posted to a channel once unless its entry was lost or two runs *)
(* were at it, and with runs one after the other and nothing raised no text *)
(* leaves the log, for any number of platforms, runs and texts.            *)
THEOREM PostedOnce == Behaviour => []PostedOnceUnlessForgotten
<1>1. (Is("poster") => PosterInv) => PostedOnceUnlessForgotten
  <2> SUFFICES ASSUME PosterInv PROVE Poster!PostedOnceUnlessForgotten
    BY DEF PostedOnceUnlessForgotten
  <2>1. Poster!OnceEach
    <3> SUFFICES ASSUME NEW x \in Posts, posted[x] > 1
                 PROVE  x \in posterForgotten
      BY DEF Poster!OnceEach, Poster!Posts, Poster!Channels, Posts, Channels
    <3>1. posted[x] \in Nat
      BY DEF PosterInv, PosterTyped
    <3> QED BY <3>1 DEF PosterInv, OnePosts
  <2>2. Poster!KeptWhenAlone
    <3> SUFFICES ASSUME Alone, NEW x \in Posts, posted[x] > 0
                 PROVE  \/ \E y \in Poster!Entries(posterLog) : y[2] = x[2]
                        \/ \E r \in Actors : x \in Poster!Works(r)
      BY DEF Poster!KeptWhenAlone, Alone, Poster!Posts, Poster!Channels, Posts, Channels
    <3>1. x[2] \in TextsOf(posterLog) \/ \E r \in Actors : AtPost(r, x)
      BY DEF PosterInv, AloneSound, PostedStays
    <3> QED BY <3>1 DEF TextsOf, AtPost, AtWork, Poster!Works
  <2> QED BY <2>1, <2>2 DEF Poster!PostedOnceUnlessForgotten
<1> QED BY <1>1, PosterInvariance, PTL
-----------------------------------------------------------------------------
(* Types.                                                                  *)
(* A count that a guard keeps below its bound.                              *)
LEMMA OneMore ==
  ASSUME NEW limit \in Nat, NEW n \in 0..limit, n < limit
  PROVE  n + 1 \in 0..limit
OBVIOUS

LEMMA CheckoutCounts ==
  ASSUME Store!TypeOK, session \in Items, NEW count \in [Items -> Nat]
  PROVE  Store!Once(count) \in [Items -> Nat] /\ Store!Inserted(count) \in [Items -> Nat]
BY DEF Store!Once, Store!Inserted

LEMMA StoreFails ==
  ASSUME Store!TypeOK, Store!Fails
  PROVE  storeFailures' \in 0..2 * MaxFailures
<1>1. 2 * MaxFailures \in Nat
  BY BoundsAssumption
<1> QED BY <1>1, OneMore DEF Store!Fails, Store!TypeOK

LEMMA StoreTypes ==
  ASSUME StoreInv, Store!TypeOK, Store!Next
  PROVE  Store!TypeOK'
<1>1. CASE \E s \in Items : Store!Complete(s)
  BY <1>1 DEF Store!Complete, Store!TypeOK, StoreInv, StoreTyped
<1>2. CASE \E s \in Items : Store!Deliver(s)
  <2> PICK s \in Items : Store!Deliver(s)
    BY <1>2
  <2>1. storeDelivered' \in [Items -> 0..MaxDeliveries]
    BY BoundsAssumption, OneMore DEF Store!Deliver, Store!TypeOK
  <2> QED BY <2>1 DEF Store!Deliver, Store!TypeOK, StoreInv, StoreTyped
<1>3. CASE Store!RecordEvent
  <2>1. storeFailures' \in 0..2 * MaxFailures
    BY <1>3, StoreFails DEF Store!RecordEvent, Store!TypeOK
  <2> QED BY <1>3, <2>1
          DEF Store!RecordEvent, Store!Goes, Store!DeadLetter, Store!outside, Store!TypeOK, StoreInv, StoreTyped
<1>4. CASE Store!RecordOrder
  <2>1. storeFailures' \in 0..2 * MaxFailures
    BY <1>4, StoreFails DEF Store!RecordOrder, Store!TypeOK
  <2>2. orders' \in [Items -> Nat]
    BY <1>4, CheckoutCounts DEF Store!RecordOrder, Store!Goes, Store!TypeOK, StoreInv, StoreTyped
  <2> QED BY <1>4, <2>1, <2>2
          DEF Store!RecordOrder, Store!Goes, Store!DeadLetter, Store!outside, Store!TypeOK, StoreInv, StoreTyped
<1>5. CASE Store!Mail
  <2>1. storeFailures' \in 0..2 * MaxFailures
    BY <1>5, StoreFails DEF Store!Mail, Store!TypeOK
  <2>2. mails' \in [Items -> Nat]
    BY <1>5, CheckoutCounts DEF Store!Mail, Store!Goes, Store!TypeOK, StoreInv, StoreTyped
  <2> QED BY <1>5, <2>1, <2>2 DEF Store!Mail, Store!Goes, Store!outside, Store!TypeOK, StoreInv, StoreTyped
<1>6. CASE Store!SaveLead
  <2>1. storeFailures' \in 0..2 * MaxFailures
    BY <1>6, StoreFails DEF Store!SaveLead, Store!TypeOK
  <2>2. leads' \in [Items -> Nat]
    BY <1>6, CheckoutCounts DEF Store!SaveLead, Store!Goes, Store!TypeOK, StoreInv, StoreTyped
  <2> QED BY <1>6, <2>1, <2>2
          DEF Store!SaveLead, Store!Goes, Store!outside, Store!TypeOK, StoreInv, StoreTyped
<1>7. CASE Store!Answer
  <2>1. stripe' \in [Items -> {"open", "completed", "acknowledged"}]
    BY <1>7 DEF Store!Answer, Store!TypeOK, StoreInv, StoreTyped
  <2> QED BY <1>7, <2>1 DEF Store!Answer, Store!TypeOK, StoreInv, StoreTyped
<1>8. CASE Store!Restart
  BY <1>8, StoreFails DEF Store!Restart, Store!outside, Store!TypeOK, StoreInv, StoreTyped
<1>9. CASE Store!Ended
  BY <1>9 DEF Store!Ended, Store!vars, Store!TypeOK, StoreInv, StoreTyped
<1> QED BY <1>1, <1>2, <1>3, <1>4, <1>5, <1>6, <1>7, <1>8, <1>9 DEF Store!Next

LEMMA StoreTypesAlways == Behaviour => [](Is("store") => Store!TypeOK)
<1>1. SumInit => (Is("store") => Store!TypeOK)
  BY BoundsAssumption DEF SumInit, Store!Init, Store!TypeOK
<1>2. /\ Is("store") => StoreInv
      /\ Is("store") => Store!TypeOK
      /\ [SumNext]_all
      => (Is("store") => Store!TypeOK)'
  <2> SUFFICES ASSUME Is("store") => StoreInv /\ Store!TypeOK, [SumNext]_all, Is("store")'
               PROVE  Store!TypeOK'
    OBVIOUS
  <2>1. StoreInv /\ Store!TypeOK /\ (Store!Next \/ UNCHANGED storeVars)
    BY OneRuns DEF Is
  <2>2. CASE UNCHANGED storeVars
    BY <2>1, <2>2 DEF storeVars, Store!TypeOK
  <2> QED BY <2>1, <2>2, StoreTypes
<1> QED BY <1>1, <1>2, StoreInvariance, PTL DEF Behaviour

LEMMA FulfillmentTypesAlways == Behaviour => [](Is("fulfillment") => Fulfillment!TypeOK)
<1>1. FulfillmentInv => Fulfillment!TypeOK
  BY DEF FulfillmentInv
<1> QED BY <1>1, FulfillmentInvariance, PTL

(* The sessions that are live and the bounds of the proposal queue.         *)
ProposalsRest ==
  /\ sessions \in Seq(SessionTokens) /\ Len(sessions) <= MaxSessions
  /\ used \subseteq SessionTokens /\ \A i \in DOMAIN sessions : sessions[i] \in used
  /\ proposalDoubtful \subseteq Single
  /\ proposalFailures \in 0..MaxFailures

(* There is room for a session among those that are left.                   *)
LEMMA PrunedHasRoom ==
  ASSUME ProposalsRest, NEW t \in SessionTokens, sessions' = Append(Proposals!Pruned, t),
         used' = used \cup {t}
  PROVE  /\ sessions' \in Seq(SessionTokens) /\ Len(sessions') <= MaxSessions
         /\ \A i \in DOMAIN sessions' : sessions'[i] \in used'
<1> DEFINE n == MaxSessions - 1
           kept0 == Proposals!Newest(n)
<1>1. n \in Nat /\ MaxSessions = n + 1 /\ Len(sessions) \in Nat /\ DOMAIN sessions = 1..Len(sessions)
  BY WindowAssumption, LenProperties DEF ProposalsRest
<1>2. /\ kept0 \in Seq(SessionTokens) /\ Len(kept0) <= n
      /\ \A i \in 1..Len(kept0) : kept0[i] \in used
  <2>1. CASE Len(sessions) <= n
    <3>1. kept0 = sessions
      BY <2>1 DEF Proposals!Newest
    <3> QED BY <1>1, <2>1, <3>1 DEF ProposalsRest
  <2>2. CASE ~(Len(sessions) <= n)
    <3> DEFINE m == Len(sessions) - n + 1
    <3>1. kept0 = SubSeq(sessions, m, Len(sessions))
      BY <2>2 DEF Proposals!Newest
    <3>2. m \in 1..Len(sessions) + 1 /\ Len(sessions) - m + 1 = n
      BY <1>1, <2>2
    <3> HIDE DEF m, n, kept0
    <3>3. \A i \in m..Len(sessions) : i \in 1..Len(sessions) /\ sessions[i] \in SessionTokens
      BY <1>1, <3>2, ElementOfSeq DEF ProposalsRest
    <3>4. /\ kept0 \in Seq(SessionTokens)
          /\ Len(kept0) = IF m <= Len(sessions) THEN Len(sessions) - m + 1 ELSE 0
          /\ \A i \in 1..Len(sessions) - m + 1 : kept0[i] = sessions[m + i - 1]
      BY <1>1, <3>1, <3>2, <3>3, SubSeqProperties
    <3>5. Len(kept0) <= n
      BY <1>1, <3>2, <3>4
    <3>6. ASSUME NEW i \in 1..Len(kept0)
          PROVE  kept0[i] \in used
      <4>1. i \in 1..n /\ i \in 1..Len(sessions) - m + 1 /\ m + i - 1 \in 1..Len(sessions)
        BY <1>1, <3>2, <3>5
      <4> QED BY <1>1, <3>4, <4>1 DEF ProposalsRest
    <3> QED BY <3>4, <3>5, <3>6
  <2> QED BY <2>1, <2>2
<1>3. Proposals!Pruned = kept0
  BY DEF Proposals!Pruned
<1> HIDE DEF kept0, n
<1>4. sessions' = Append(kept0, t)
  BY <1>3
<1>5. /\ sessions' \in Seq(SessionTokens) /\ Len(sessions') = Len(kept0) + 1
      /\ \A i \in 1..Len(kept0) : sessions'[i] = kept0[i]
      /\ sessions'[Len(kept0) + 1] = t
  BY <1>2, <1>4, AppendProperties
<1>6. Len(kept0) \in Nat /\ DOMAIN sessions' = 1..Len(sessions')
  BY <1>2, <1>5, LenProperties
<1>7. Len(sessions') <= MaxSessions
  BY <1>1, <1>2, <1>5, <1>6
<1>8. \A i \in DOMAIN sessions' : i \in 1..Len(kept0) \/ i = Len(kept0) + 1
  BY <1>5, <1>6
<1> QED BY <1>2, <1>5, <1>7, <1>8

LEMMA ProposalsRestKeeps ==
  ASSUME ProposalsInv, ProposalsRest, Proposals!Next
  PROVE  ProposalsRest'
<1>0. proposalFailures < MaxFailures => proposalFailures + 1 \in 0..MaxFailures
  BY BoundsAssumption, OneMore DEF ProposalsRest
<1>1. CASE UNCHANGED <<sessions, used, proposalDoubtful, proposalFailures>>
  BY <1>1 DEF ProposalsRest
<1>2. CASE \E t \in SessionTokens : Proposals!CreateSession(t)
  <2> PICK t \in SessionTokens : Proposals!CreateSession(t)
    BY <1>2
  <2>1. /\ sessions' = Append(Proposals!Pruned, t) /\ used' = used \cup {t}
        /\ UNCHANGED <<proposalDoubtful, proposalFailures>>
    BY DEF Proposals!CreateSession, Proposals!proposals, Proposals!histories
  <2> QED BY <2>1, PrunedHasRoom DEF ProposalsRest
<1>3. CASE Proposals!Expire
  <2>1. /\ sessions # <<>> /\ sessions' = Tail(sessions)
        /\ UNCHANGED <<used, proposalDoubtful, proposalFailures>>
    BY <1>3 DEF Proposals!Expire, Proposals!proposals, Proposals!histories
  <2>2. /\ sessions' \in Seq(SessionTokens) /\ Len(sessions') = Len(sessions) - 1
        /\ \A i \in 1..Len(sessions') : sessions'[i] = sessions[i + 1]
    BY <2>1, HeadTailProperties DEF ProposalsRest
  <2>3. /\ Len(sessions) \in Nat /\ Len(sessions') \in Nat
        /\ DOMAIN sessions' = 1..Len(sessions') /\ DOMAIN sessions = 1..Len(sessions)
    BY <2>2, LenProperties DEF ProposalsRest
  <2>4. ASSUME NEW i \in DOMAIN sessions'
        PROVE  sessions'[i] \in used
    <3>1. i \in 1..Len(sessions') /\ i + 1 \in DOMAIN sessions
      BY <2>2, <2>3
    <3>2. sessions[i + 1] \in used
      BY <3>1 DEF ProposalsRest
    <3> QED BY <2>2, <3>1, <3>2
  <2>5. Len(sessions') <= MaxSessions
    BY <2>2, <2>3, WindowAssumption DEF ProposalsRest
  <2> QED BY <2>1, <2>2, <2>4, <2>5 DEF ProposalsRest
<1>4. CASE \E i \in DOMAIN sessions : Proposals!Logout(i)
  <2> PICK i \in DOMAIN sessions : Proposals!Logout(i)
    BY <1>4
  <2>1. /\ sessions' = LineWithout(sessions, i)
        /\ UNCHANGED <<used, proposalDoubtful, proposalFailures>>
    BY DEF Proposals!Logout, Proposals!proposals, Proposals!histories, LineWithout
  <2>2. sessions \in Seq(SessionTokens) /\ i \in 1..Len(sessions) /\ Len(sessions) \in Nat
    BY LenProperties DEF ProposalsRest
  <2>3. /\ sessions' \in Seq(SessionTokens) /\ Len(sessions') = Len(sessions) - 1
        /\ \A j \in DOMAIN sessions' : \E k \in DOMAIN sessions : sessions'[j] = sessions[k]
    BY <2>1, <2>2, LineRemoved
  <2>4. Len(sessions') <= MaxSessions
    BY <2>2, <2>3, WindowAssumption DEF ProposalsRest
  <2> QED BY <2>1, <2>3, <2>4 DEF ProposalsRest
<1>5. CASE Proposals!Restart
  <2>1. /\ sessions' = <<>> /\ proposalDoubtful' \subseteq Single
        /\ proposalFailures' \in 0..MaxFailures /\ UNCHANGED used
    BY <1>0, <1>5 DEF Proposals!Restart, Proposals!Fails, ProposalsRest
  <2>2. Len(sessions') = 0 /\ sessions' \in Seq(SessionTokens) /\ DOMAIN sessions' = {}
    BY <2>1, EmptySeq
  <2> QED BY <2>1, <2>2, WindowAssumption DEF ProposalsRest
<1>6. CASE \E r \in Actors : \/ \E p \in Single, hasKey \in BOOLEAN : Proposals!MarkSubmitted(r, p, hasKey)
                            \/ Proposals!Read(r) \/ Proposals!Open(r) \/ Proposals!Write(r)
                            \/ Proposals!Raise(r) \/ Proposals!Replace(r) \/ Proposals!RemoveOriginal(r)
  <2> PICK r \in Actors : \/ \E p \in Single, hasKey \in BOOLEAN : Proposals!MarkSubmitted(r, p, hasKey)
                          \/ Proposals!Read(r) \/ Proposals!Open(r) \/ Proposals!Write(r)
                          \/ Proposals!Raise(r) \/ Proposals!Replace(r) \/ Proposals!RemoveOriginal(r)
    BY <1>6
  <2>1. CASE \E p \in Single, hasKey \in BOOLEAN : Proposals!MarkSubmitted(r, p, hasKey)
    BY <2>1 DEF Proposals!MarkSubmitted, ProposalsRest
  <2>2. CASE Proposals!Read(r)
    BY <1>1, <2>2 DEF Proposals!Read, Proposals!proposals, Proposals!histories
  <2>3. CASE Proposals!Open(r)
    BY <1>1, <2>3 DEF Proposals!Open, Proposals!histories
  <2>4. CASE Proposals!Write(r)
    BY <1>1, <2>4 DEF Proposals!Write
  <2>5. CASE Proposals!Raise(r)
    BY <1>0, <2>5 DEF Proposals!Raise, Proposals!Fails, ProposalsRest
  <2>6. CASE Proposals!Replace(r)
    BY <1>1, <2>6 DEF Proposals!Replace, Proposals!histories
  <2>7. CASE Proposals!RemoveOriginal(r)
    <3>1. proposalRequest[r].name[1] \in Single
      BY <2>7, RequestOfProposal, NameShows DEF Proposals!RemoveOriginal, ProposalsInv
    <3> QED BY <1>0, <2>7, <3>1 DEF Proposals!RemoveOriginal, Proposals!Fails, ProposalsRest
  <2> QED BY <2>1, <2>2, <2>3, <2>4, <2>5, <2>6, <2>7
<1>7. CASE \/ \E p \in Single : Proposals!Stage(p)
           \/ Proposals!Tick
  BY <1>1, <1>7 DEF Proposals!Stage, Proposals!Tick, Proposals!histories
<1>8. CASE Proposals!Ended
  BY <1>1, <1>8 DEF Proposals!Ended, Proposals!vars
<1> QED BY <1>2, <1>3, <1>4, <1>5, <1>6, <1>7, <1>8 DEF Proposals!Next

LEMMA ProposalsTypesAlways ==
  Behaviour => [](Is("proposals") => Proposals!TypeOK /\ Proposals!SessionsAreBounded)
<1>1. SumInit => (Is("proposals") => ProposalsRest)
  <2> SUFFICES ASSUME Proposals!Init PROVE ProposalsRest
    BY DEF SumInit
  <2>1. sessions = <<>> /\ used = {} /\ proposalDoubtful = {} /\ proposalFailures = 0
    BY DEF Proposals!Init
  <2>2. 0 \in 0..MaxFailures /\ 0 <= MaxSessions
    BY BoundsAssumption, WindowAssumption
  <2> QED BY <2>1, <2>2, EmptySeq DEF ProposalsRest
<1>2. /\ Is("proposals") => ProposalsInv
      /\ Is("proposals") => ProposalsRest
      /\ [SumNext]_all
      => (Is("proposals") => ProposalsRest)'
  <2> SUFFICES ASSUME Is("proposals") => ProposalsInv /\ ProposalsRest, [SumNext]_all, Is("proposals")'
               PROVE  ProposalsRest'
    OBVIOUS
  <2>1. ProposalsInv /\ ProposalsRest /\ (Proposals!Next \/ UNCHANGED proposalVars)
    BY OneRuns DEF Is
  <2>2. CASE UNCHANGED proposalVars
    BY <2>1, <2>2 DEF proposalVars, ProposalsRest
  <2> QED BY <2>1, <2>2, ProposalsRestKeeps
<1>3. ProposalsInv /\ ProposalsRest => Proposals!TypeOK /\ Proposals!SessionsAreBounded
  BY DEF ProposalsInv, ProposalsTyped, FilesSound, MarkRequests, Marking, Writer, Names, ProposalsRest,
    Proposals!TypeOK, Proposals!Names, Proposals!Request, Proposals!SessionsAreBounded
<1> QED BY <1>1, <1>2, <1>3, ProposalsInvariance, PTL DEF Behaviour

(* What is forgotten was there to be posted, and the bounds of the poster.  *)
PosterRest ==
  /\ posterForgotten \subseteq Posts
  /\ queued \in 0..MaxQueued /\ runs \in 0..MaxRuns /\ posterFailures \in 0..MaxFailures

LEMMA WorksAtPosts ==
  ASSUME PosterInv, NEW r \in Actors
  PROVE  /\ Poster!Works(r) \subseteq Posts
         /\ posterRun[r].pc \in AtWork => posterRun[r].post \in Posts
         /\ posterRun[r].pc = "next" => posterRun[r].slot \in Items
<1>1. posterRun[r].pc \in AtWork => posterRun[r].post \in Posts
  BY PosterRunRow DEF PosterInv
<1>2. posterRun[r].pc = "next" => posterRun[r].slot \in Items
  BY PosterRunRow DEF PosterInv, Turning
<1> QED BY <1>1, <1>2 DEF Poster!Works, AtWork

LEMMA ForgetsPosts ==
  ASSUME PosterInv, PosterRest, NEW done \in SUBSET Posts, Poster!Forgets(done)
  PROVE  posterForgotten' \subseteq Posts
<1>1. Poster!Entries(posterLog) \in SUBSET Posts
  BY EntriesArePosts DEF PosterInv, PosterTyped
<1> QED BY <1>1 DEF Poster!Forgets, PosterRest

LEMMA PosterRestKeeps ==
  ASSUME PosterInv, PosterRest, Poster!Next
  PROVE  PosterRest'
<1>0. /\ posterFailures < MaxFailures => posterFailures + 1 \in 0..MaxFailures
      /\ queued < MaxQueued => queued + 1 \in 0..MaxQueued
      /\ runs < MaxRuns => runs + 1 \in 0..MaxRuns
  BY BoundsAssumption, OneMore DEF PosterRest
<1> USE <1>0
<1>1. CASE \E c \in Channels, text \in Contents \cup {nobody} : Poster!Queue(c, text)
  BY <1>1 DEF Poster!Queue, PosterRest
<1>2. CASE \E r \in Actors, slot \in Items : Poster!Start(r, slot)
  BY <1>2 DEF Poster!Start, PosterRest
<1>3. CASE \E r \in Actors, p \in Single : Poster!Check(r, p)
  <2> PICK r \in Actors, p \in Single : Poster!Check(r, p)
    BY <1>3
  <2> DEFINE c == <<p, posterRun[r].slot>>
  <2>1. c \in Channels
    BY WorksAtPosts DEF Poster!Check, Poster!At, Channels
  <2>2. queue[c] # nobody => <<c, queue[c]>> \in Posts
    BY <2>1 DEF PosterInv, PosterTyped, Posts
  <2>3. UNCHANGED posterForgotten \/ (queue[c] # nobody /\ posterForgotten' \subseteq posterForgotten \cup {<<c, queue[c]>>})
    BY DEF Poster!Check, Poster!IsDue
  <2>4. UNCHANGED <<queued, runs, posterFailures>>
    BY DEF Poster!Check
  <2> HIDE DEF c
  <2> QED BY <2>2, <2>3, <2>4 DEF PosterRest
<1>4. CASE \E r \in Actors : Poster!Post(r)
  <2> PICK r \in Actors : Poster!Post(r)
    BY <1>4
  <2>1. posterRun[r].post \in Posts
    BY WorksAtPosts DEF Poster!Post, Poster!At, AtWork
  <2> QED BY <2>1 DEF Poster!Post, Poster!Fails, PosterRest
<1>5. CASE \E r \in Actors : Poster!Load(r) \/ Poster!Open(r) \/ Poster!End(r)
  BY <1>5 DEF Poster!Load, Poster!Open, Poster!End, PosterRest
<1>6. CASE \E r \in Actors : Poster!Write(r) \/ Poster!Replace(r) \/ Poster!Raise(r)
  <2> PICK r \in Actors : Poster!Write(r) \/ Poster!Replace(r) \/ Poster!Raise(r)
    BY <1>6
  <2>1. posterRun[r].pc \in AtWork
    BY DEF Poster!Write, Poster!Replace, Poster!Raise, Poster!At, AtWork
  <2>2. {posterRun[r].post} \in SUBSET Posts /\ {} \in SUBSET Posts
    BY <2>1, WorksAtPosts
  <2>3. Poster!Forgets({}) \/ Poster!Forgets({posterRun[r].post})
    BY DEF Poster!Write, Poster!Replace, Poster!Raise
  <2>4. posterForgotten' \subseteq Posts
    BY <2>2, <2>3, ForgetsPosts
  <2>5. UNCHANGED <<queued, runs>> /\ posterFailures' \in 0..MaxFailures
    BY DEF Poster!Write, Poster!Replace, Poster!Raise, Poster!Fails, PosterRest
  <2> QED BY <2>4, <2>5 DEF PosterRest
<1>7. CASE \E r \in Actors : Poster!Die(r)
  <2> PICK r \in Actors : Poster!Die(r)
    BY <1>7
  <2>1. Poster!Works(r) \subseteq Posts /\ Poster!Entries(posterLog) \in SUBSET Posts
    BY WorksAtPosts, EntriesArePosts DEF PosterInv, PosterTyped
  <2>2. posterForgotten' \subseteq Posts
    BY <2>1 DEF Poster!Die, PosterRest
  <2> QED BY <2>2 DEF Poster!Die, Poster!Fails, PosterRest
<1>8. CASE UNCHANGED Poster!vars
  BY <1>8 DEF Poster!vars, PosterRest
<1> QED BY <1>1, <1>2, <1>3, <1>4, <1>5, <1>6, <1>7, <1>8 DEF Poster!Next, Poster!Channels, Channels

LEMMA PosterTypesAlways ==
  Behaviour => [](Is("poster") => Poster!TypeOK)
<1>1. SumInit => (Is("poster") => PosterRest)
  <2> SUFFICES ASSUME Poster!Init PROVE PosterRest
    BY DEF SumInit
  <2>1. posterForgotten = {} /\ queued = 0 /\ runs = 0 /\ posterFailures = 0
    BY DEF Poster!Init
  <2> QED BY <2>1, BoundsAssumption DEF PosterRest
<1>2. /\ Is("poster") => PosterInv
      /\ Is("poster") => PosterRest
      /\ [SumNext]_all
      => (Is("poster") => PosterRest)'
  <2> SUFFICES ASSUME Is("poster") => PosterInv /\ PosterRest, [SumNext]_all, Is("poster")'
               PROVE  PosterRest'
    OBVIOUS
  <2>1. PosterInv /\ PosterRest /\ (Poster!Next \/ UNCHANGED posterVars)
    BY OneRuns DEF Is
  <2>2. CASE UNCHANGED posterVars
    BY <2>1, <2>2 DEF posterVars, PosterRest
  <2> QED BY <2>1, <2>2, PosterRestKeeps
<1>3. PosterInv /\ PosterRest => Poster!TypeOK
  BY DEF PosterInv, PosterTyped, PosterRuns, Turning, Posting, Opening, Writing, PosterFiles, Channels, Posts,
    PosterRest, Poster!TypeOK, Poster!Run, Poster!Files, Poster!Channels, Poster!Posts
<1> QED BY <1>1, <1>2, <1>3, PosterInvariance, PTL DEF Behaviour

(* Nothing was bought, and nobody waits for anything.                      *)
NotBegun ==
  /\ book.capital = Capital /\ \A t \in Items : book.bought[t] = 0
  /\ \A c \in Coroutines : alphaTask[c] = Alpha!Idle

(* A session starts with all of the capital, since nothing is bought before *)
(* it does.                                                                *)
AlphaRest ==
  /\ killed \in BOOLEAN
  /\ start = Capital \/ (start = 0 /\ NotBegun)
  /\ book.capital \in Int /\ \A t \in Items : book.bought[t] \in 0..MaxBuys
  /\ \A c \in Coroutines : alphaTask[c] \in Pricing => alphaTask[c].rows \subseteq Alpha!Rows
  /\ alphaRaced \subseteq Items

LEMMA OpenRows ==
  ASSUME NEW b
  PROVE  /\ Alpha!Open(b) \subseteq Alpha!Rows
         /\ (\A t \in Items : b.bought[t] = 0) => Alpha!Open(b) = {}
<1>1. \A one \in Alpha!Rows : one[1] \in Items /\ one[2] \in 1..MaxBuys
  BY DEF Alpha!Rows
<1> QED BY <1>1 DEF Alpha!Open

(* What a cycle buys has a price, and a limit.                             *)
LEMMA GoesOnWithin ==
  ASSUME NEW b, IsBook(b), b.capital \in Int, \A t \in Items : b.bought[t] \in 0..MaxBuys,
         NEW c, NEW rows, NEW wanted \in SUBSET Items, Alpha!GoesOn(c, b, rows, wanted)
  PROVE  book'.capital \in Int /\ \A t \in Items : book'.bought[t] \in 0..MaxBuys
<1> PICK later : later = book'
  OBVIOUS
<1>1. CASE later = b
  BY <1>1
<1>2. CASE \E chosen \in Alpha!Entries(b, wanted) : later = Alpha!Bought(b, chosen)
  <2>1. PICK chosen \in Alpha!Entries(b, wanted) : later = Alpha!Bought(b, chosen)
    BY <1>2
  <2>2. chosen \subseteq {t \in wanted : b.bought[t] < MaxBuys}
    BY DEF Alpha!Entries, Alpha!kSubset
  <2>3. Alpha!Cardinality(chosen) = Cardinality(chosen)
    BY DEF Alpha!Cardinality, Cardinality
  <2>4. Cardinality(chosen) \in Nat
    BY <2>2, CapitalAssumption, FS_Subset, FS_CardinalityType
  <2>5. later.capital = b.capital - Alpha!Cardinality(chosen)
    BY <2>1 DEF Alpha!Bought, IsBook
  <2>6. \A t \in Items : later.bought[t] = IF t \in chosen THEN b.bought[t] + 1 ELSE b.bought[t]
    BY <2>1, BoughtBook
  <2>7. \A t \in Items : later.bought[t] \in 0..MaxBuys
    BY <2>2, <2>6, CapitalAssumption, OneMore
  <2> QED BY <2>3, <2>4, <2>5, <2>7
<1> QED BY <1>1, <1>2 DEF Alpha!GoesOn

LEMMA SoldWithin ==
  ASSUME AlphaInv, AlphaRest, NEW t \in Items, NEW later, later = Alpha!Sold(book, t)
  PROVE  /\ IsBook(later) /\ later.capital \in Int
         /\ \A u \in Items : later.bought[u] \in 0..MaxBuys
<1>1. IsBook(later) /\ later.bought = book.bought
  BY SoldBook DEF AlphaInv, AlphaTyped
<1>2. later.capital = book.capital + 1
  BY DEF Alpha!Sold, AlphaInv, AlphaTyped, IsBook
<1> QED BY <1>1, <1>2 DEF AlphaRest

LEMMA BookWithin ==
  ASSUME AlphaInv, AlphaRest, Alpha!Next
  PROVE  book'.capital \in Int /\ \A t \in Items : book'.bought[t] \in 0..MaxBuys
<1>0. /\ IsBook(book) /\ book.capital \in Int /\ \A t \in Items : book.bought[t] \in 0..MaxBuys
      /\ \A one \in Alpha!Rows : one[1] \in Items
  BY DEF AlphaInv, AlphaTyped, AlphaRest, Alpha!Rows
<1>1. CASE UNCHANGED book
  BY <1>0, <1>1
<1>2. CASE \E c \in Single, wanted \in SUBSET Items : Alpha!Scanned(c, wanted)
  BY <1>0, <1>2, GoesOnWithin DEF Alpha!Scanned
<1>3. CASE \E c \in Single, one \in Alpha!Rows, sells \in BOOLEAN : Alpha!Priced(c, one, sells)
  <2>1. PICK c \in Single, one \in Alpha!Rows, sells \in BOOLEAN : Alpha!Priced(c, one, sells)
    BY <1>3
  <2>2. alphaTask[c] \in Pricing
    BY <2>1, PricingRow DEF Alpha!Priced, Coroutines, AlphaInv
  <2>3. alphaTask[c].wanted \in SUBSET Items
    BY <2>2 DEF Pricing
  <2> DEFINE later == IF sells THEN Alpha!Sold(book, one[1]) ELSE book
  <2>4. /\ IsBook(later) /\ later.capital \in Int
        /\ \A u \in Items : later.bought[u] \in 0..MaxBuys
    BY <1>0, SoldWithin
  <2>5. Alpha!GoesOn(c, later, alphaTask[c].rows \ {one}, alphaTask[c].wanted)
    BY <2>1 DEF Alpha!Priced
  <2> HIDE DEF later
  <2> QED BY <2>3, <2>4, <2>5, GoesOnWithin
<1>4. CASE \E x \in Exits, one \in Alpha!Rows, raises \in BOOLEAN : Alpha!Exit(x, one, raises)
  BY <1>0, <1>4, SoldWithin DEF Alpha!Exit
<1> QED BY <1>1, <1>2, <1>3, <1>4 DEF Alpha!Next, Alpha!toggle_kill_switch, Alpha!BeginCycle, Alpha!BeginExit

(* What a coroutine waits for is a position.                               *)
RowsWithin(x) == x \in Pricing => x.rows \subseteq Alpha!Rows

LEMMA OneTaskChanges ==
  ASSUME AlphaInv, AlphaRest, NEW c \in Coroutines, NEW x, RowsWithin(x),
         alphaTask' = [alphaTask EXCEPT ![c] = x]
  PROVE  \A d \in Coroutines : RowsWithin(alphaTask'[d])
BY DEF AlphaInv, AlphaTyped, AlphaRest, RowsWithin

LEMMA GoesOnRows ==
  ASSUME AlphaInv, AlphaRest, NEW c \in Coroutines, NEW b, NEW rows \in SUBSET Alpha!Rows, NEW wanted,
         Alpha!GoesOn(c, b, rows, wanted)
  PROVE  \A d \in Coroutines : RowsWithin(alphaTask'[d])
<1> DEFINE x == [pc |-> "prices", rows |-> rows, wanted |-> wanted]
<1>1. RowsWithin(x) /\ RowsWithin(Alpha!Idle)
  BY DEF RowsWithin, Pricing, Alpha!Idle
<1>2. alphaTask' = [alphaTask EXCEPT ![c] = x] \/ alphaTask' = [alphaTask EXCEPT ![c] = Alpha!Idle]
  BY DEF Alpha!GoesOn
<1> HIDE DEF x
<1> QED BY <1>1, <1>2, OneTaskChanges

LEMMA RowsStay ==
  ASSUME AlphaInv, AlphaRest, Alpha!Next
  PROVE  \A d \in Coroutines : RowsWithin(alphaTask'[d])
<1>1. CASE UNCHANGED alphaTask
  BY <1>1 DEF AlphaRest, RowsWithin
<1>2. ASSUME NEW c \in Coroutines, alphaTask[c].pc = "prices"
      PROVE  alphaTask[c] \in Pricing /\ alphaTask[c].rows \subseteq Alpha!Rows
  BY <1>2, PricingRow DEF AlphaInv, AlphaRest
<1>3. CASE \E c \in Single : Alpha!BeginCycle(c)
  <2> DEFINE x == [pc |-> "scan"]
  <2>1. RowsWithin(x)
    BY DEF RowsWithin, Pricing
  <2>2. \E c \in Coroutines : alphaTask' = [alphaTask EXCEPT ![c] = x]
    BY <1>3 DEF Alpha!BeginCycle, Coroutines
  <2> HIDE DEF x
  <2> QED BY <2>1, <2>2, OneTaskChanges
<1>4. CASE \E c \in Single, wanted \in SUBSET Items : Alpha!Scanned(c, wanted)
  BY <1>4, OpenRows, GoesOnRows DEF Alpha!Scanned, Coroutines
<1>5. CASE \E c \in Single, one \in Alpha!Rows, sells \in BOOLEAN : Alpha!Priced(c, one, sells)
  BY <1>2, <1>5, GoesOnRows DEF Alpha!Priced, Coroutines
<1>6. CASE \E c \in Exits : Alpha!BeginExit(c)
  <2> DEFINE x == [pc |-> "prices", rows |-> Alpha!Open(book), wanted |-> {}]
  <2>1. RowsWithin(x)
    BY OpenRows DEF RowsWithin
  <2>2. \E c \in Coroutines : alphaTask' = [alphaTask EXCEPT ![c] = x]
    BY <1>6 DEF Alpha!BeginExit, Coroutines
  <2> HIDE DEF x
  <2> QED BY <2>1, <2>2, OneTaskChanges
<1>7. CASE \E c \in Exits, one \in Alpha!Rows, raises \in BOOLEAN : Alpha!Exit(c, one, raises)
  <2> PICK c \in Exits, one \in Alpha!Rows, raises \in BOOLEAN : Alpha!Exit(c, one, raises)
    BY <1>7
  <2> DEFINE x == IF alphaTask[c].rows = {one} THEN Alpha!Idle
                  ELSE [alphaTask[c] EXCEPT !.rows = @ \ {one}]
  <2>1. alphaTask[c] \in Pricing /\ alphaTask[c].rows \subseteq Alpha!Rows /\ c \in Coroutines
    BY <1>2 DEF Alpha!Exit, Coroutines
  <2>2. RowsWithin(x)
    BY <2>1 DEF RowsWithin, Pricing, Alpha!Idle
  <2>3. alphaTask' = [alphaTask EXCEPT ![c] = x]
    BY DEF Alpha!Exit
  <2> HIDE DEF x
  <2> QED BY <2>1, <2>2, <2>3, OneTaskChanges
<1> QED BY <1>1, <1>3, <1>4, <1>5, <1>6, <1>7 DEF Alpha!Next, Alpha!toggle_kill_switch

LEMMA RacedAreItems ==
  ASSUME AlphaRest, Alpha!Next
  PROVE  alphaRaced' \subseteq Items
<1>1. ASSUME NEW c, Alpha!Listed(c, Alpha!Open(book))
      PROVE  alphaRaced' \subseteq Items
  <2>1. {one[1] : one \in Alpha!Open(book)} \subseteq Items
    BY OpenRows DEF Alpha!Rows
  <2> QED BY <1>1, <2>1 DEF Alpha!Listed, AlphaRest
<1> QED BY <1>1 DEF Alpha!Next, Alpha!toggle_kill_switch, Alpha!BeginCycle, Alpha!Scanned, Alpha!Priced,
      Alpha!BeginExit, Alpha!Exit, AlphaRest

(* Until the first cycle only the kill switch does anything.               *)
LEMMA SessionStarts ==
  ASSUME AlphaInv, AlphaRest, Alpha!Next
  PROVE  killed' \in BOOLEAN /\ (start' = Capital \/ (start' = 0 /\ NotBegun'))
<1>1. killed' \in BOOLEAN
  BY DEF Alpha!Next, Alpha!toggle_kill_switch, Alpha!BeginCycle, Alpha!Scanned, Alpha!Priced,
      Alpha!BeginExit, Alpha!Exit, AlphaRest
<1>2. CASE start = Capital
  <2>1. start' = start \/ start' = IF start = 0 THEN book.capital ELSE start
    BY DEF Alpha!Next, Alpha!toggle_kill_switch, Alpha!BeginCycle, Alpha!Scanned, Alpha!Priced,
      Alpha!BeginExit, Alpha!Exit
  <2> QED BY <1>1, <1>2, <2>1, CapitalAssumption
<1>3. CASE start = 0 /\ NotBegun
  <2>1. Alpha!Open(book) = {}
    BY <1>3, OpenRows DEF NotBegun
  <2>2. \A c \in Coroutines : alphaTask[c].pc \notin {"scan", "prices"}
    BY <1>3 DEF NotBegun, Alpha!Idle
  <2>3. Alpha!toggle_kill_switch \/ \E c \in Single : Alpha!BeginCycle(c)
    BY <2>1, <2>2 DEF Alpha!Next, Alpha!Scanned, Alpha!Priced, Alpha!BeginExit, Alpha!Exit, Coroutines
  <2>4. CASE Alpha!toggle_kill_switch
    BY <1>1, <1>3, <2>4 DEF Alpha!toggle_kill_switch, NotBegun
  <2>5. CASE \E c \in Single : Alpha!BeginCycle(c)
    BY <1>1, <1>3, <2>5 DEF Alpha!BeginCycle, NotBegun
  <2> QED BY <2>3, <2>4, <2>5
<1> QED BY <1>2, <1>3 DEF AlphaRest

LEMMA AlphaRestKeeps ==
  ASSUME AlphaInv, AlphaRest, Alpha!Next
  PROVE  AlphaRest'
BY BookWithin, RowsStay, RacedAreItems, SessionStarts DEF AlphaRest, RowsWithin

LEMMA AlphaTypes ==
  ASSUME AlphaInv, AlphaRest
  PROVE  Alpha!TypeOK
<1>1. book \in [capital : Int, bought : [Items -> 0..MaxBuys], sold : [Items -> Nat]]
  <2>1. book \in [capital : {book.capital}, bought : [Items -> Nat], sold : [Items -> Nat]]
    BY DEF AlphaInv, AlphaTyped, IsBook
  <2> QED BY <2>1 DEF AlphaRest
<1>2. ASSUME NEW c \in Coroutines
      PROVE  alphaTask[c] \in {Alpha!Idle} \cup [pc : {"scan"}]
               \cup [pc : {"prices"}, rows : SUBSET Alpha!Rows, wanted : SUBSET Items]
  <2>1. CASE alphaTask[c] \in Pricing
    BY <2>1 DEF AlphaRest, Pricing
  <2> QED BY <2>1 DEF AlphaInv, AlphaTyped
<1>3. alphaTask \in [Coroutines -> {Alpha!Idle} \cup [pc : {"scan"}]
               \cup [pc : {"prices"}, rows : SUBSET Alpha!Rows, wanted : SUBSET Items]]
  BY <1>2 DEF AlphaInv, AlphaTyped
<1>4. start \in 0..Capital
  BY CapitalAssumption DEF AlphaRest
<1> QED BY <1>1, <1>3, <1>4 DEF AlphaRest, Alpha!TypeOK, Coroutines

LEMMA AlphaTypesAlways ==
  Behaviour => [](Is("alpha") => Alpha!TypeOK)
<1>1. SumInit => (Is("alpha") => AlphaRest)
  <2> SUFFICES ASSUME Alpha!Init PROVE AlphaRest
    BY DEF SumInit
  <2>1. /\ killed = FALSE /\ start = 0 /\ alphaRaced = {}
        /\ book = [capital |-> Capital, bought |-> [t \in Items |-> 0], sold |-> [t \in Items |-> 0]]
        /\ \A c \in Coroutines : alphaTask[c] = Alpha!Idle
    BY DEF Alpha!Init, Coroutines
  <2>2. \A c \in Coroutines : alphaTask[c] \notin Pricing
    BY <2>1 DEF Alpha!Idle, Pricing
  <2>3. killed \in BOOLEAN
    BY <2>1
  <2>4. book.capital = Capital /\ \A t \in Items : book.bought[t] = 0
    BY <2>1
  <2>5. Capital \in Int /\ 0 \in 0..MaxBuys
    BY CapitalAssumption
  <2> QED BY <2>1, <2>2, <2>3, <2>4, <2>5 DEF AlphaRest, NotBegun
<1>2. /\ Is("alpha") => AlphaInv
      /\ Is("alpha") => AlphaRest
      /\ [SumNext]_all
      => (Is("alpha") => AlphaRest)'
  <2> SUFFICES ASSUME Is("alpha") => AlphaInv /\ AlphaRest, [SumNext]_all, Is("alpha")'
               PROVE  AlphaRest'
    OBVIOUS
  <2>1. AlphaInv /\ AlphaRest /\ (Alpha!Next \/ UNCHANGED alphaVars)
    BY OneRuns DEF Is
  <2>2. CASE UNCHANGED alphaVars
    BY <2>1, <2>2 DEF alphaVars, AlphaRest, NotBegun
  <2> QED BY <2>1, <2>2, AlphaRestKeeps
<1>3. AlphaInv /\ AlphaRest => Alpha!TypeOK
  BY AlphaTypes
<1> QED BY <1>1, <1>2, <1>3, AlphaInvariance, PTL DEF Behaviour

=============================================================================
