------------------------- MODULE RevenueAttribution -------------------------
(***************************************************************************)
(* apps/revenue_runtime: how an order of the shop is credited to a visitor *)
(* of an experiment, and its refund debited.                               *)
(*                                                                         *)
(* A click leaves an event and a one-time token; the shop's page binds the *)
(* token to the identities of a purchase (its flow, checkout or order id). *)
(* Evaluation cycles - one scheduled, others on request - then credit paid *)
(* orders by their links or else by the only recent click, and book the    *)
(* refunds.  They see one page of the shop's orders, the newest; an order   *)
(* that others push off the page is never seen again.  Every access to the  *)
(* database is a transaction of its own, so cycles, requests and failures   *)
(* come between any two.                                                   *)
(*                                                                         *)
(* The experiments are on one product.  A visitor's variant is a function  *)
(* of the experiment and the visitor (deterministic_variant), so a visitor *)
(* stands for it: no link can disagree with its visitor's variant.         *)
(* Amounts, and the server's own events, are left out.                     *)
(***************************************************************************)
EXTENDS Naturals, FiniteSets, Sequences

CONSTANTS
  Experiments,
  Visitors,
  Orders,
  LinkTypes,   \* the kinds of identity of a purchase
  Tokens,      \* bridge tokens; a fresh one is random, none comes twice
  Cycles,      \* runs of the evaluator
  Scheduled,   \* the run the timer starts, one of Cycles
  Nobody,      \* no visitor
  NoToken,     \* no link
  MaxFailures  \* bound on the cycles that fail

ASSUME ShopAssumption == Experiments # {} /\ Orders # {}
ASSUME NobodyAssumption == Nobody \notin Visitors
ASSUME MaxFailuresAssumption == MaxFailures \in Nat

VARIABLES
  active,          \* the experiments with status active
  clicked,         \* the visitors with a click event
  token,           \* attribution_bridge_tokens
  link,            \* attribution_bridge_links: the token that made the link
  order,           \* the orders at Wix (external)
  page,            \* those among the newest 100, the oldest first
  candidates,      \* visitors whose click lies in the window of an order
  purchase,        \* the visitor of the event wix-order:<order>:<experiment>
  refund,          \* the visitor of the event wix-refund:<order>:<experiment>
  reconciliation,  \* order_reconciliation
  cycle,           \* cycle -> what it is doing
  contended,       \* pairs two cycles ever worked on at once (history)
  halfDone,        \* pairs a cycle left between its two writes (history)
  failures

vars == <<active, clicked, token, link, order, page, candidates, purchase, refund,
          reconciliation, cycle, contended, halfDone, failures>>
shopper == <<clicked, token, link>>
shop == <<order, page, candidates>>
books == <<purchase, refund, reconciliation>>
history == <<contended, halfDone, failures>>

Pairs == Experiments \X Orders
Anybody == Visitors \cup {Nobody}
Unissued == [state |-> "unissued"]
Token == [state : {"live", "used", "expired"},
          experiment : Experiments, visitor : Visitors]
Unattributed == [status |-> "unattributed", visitor |-> Nobody]
Attributed(v) == [status |-> "attributed", visitor |-> v]
Unreconciled == [status |-> "none", visitor |-> Nobody]

Idle == [pc |-> "idle"]
Cycle ==
  [pc : {"search", "orders", "deciding", "purchase", "reconciling", "refunds"},
   experiments : SUBSET Experiments,  \* list_experiments("active")
   todo : SUBSET Pairs,               \* what is left of the loop
   pair : Pairs,                      \* the order it considers
   visitor : Anybody,                 \* whom it is about to credit
   debits : SUBSET (Pairs \X Visitors)]  \* attributed_reconciliations_for_order

TypeOK ==
  /\ active \subseteq Experiments
  /\ clicked \subseteq Experiments \X Visitors
  /\ token \in [Tokens -> {Unissued} \cup Token]
  /\ link \in [Pairs \X LinkTypes -> Tokens \cup {NoToken}]
  /\ order \in [Orders -> {"none", "placed", "paid", "refunded"}]
  /\ page \in Seq(Orders)
  /\ candidates \in [Pairs -> SUBSET Visitors]
  /\ purchase \in [Pairs -> Anybody]
  /\ refund \in [Pairs -> Anybody]
  /\ reconciliation \in [Pairs -> {Unreconciled, Unattributed} \cup {Attributed(v) : v \in Visitors}]
  /\ cycle \in [Cycles -> {Idle} \cup Cycle]
  /\ contended \subseteq Pairs /\ halfDone \subseteq Pairs
  /\ failures \in 0..MaxFailures

Init ==
  /\ active = {}
  /\ clicked = {}
  /\ token = [t \in Tokens |-> Unissued]
  /\ link = [x \in Pairs \X LinkTypes |-> NoToken]
  /\ order = [o \in Orders |-> "none"] /\ page = <<>>
  /\ candidates = [p \in Pairs |-> {}]
  /\ purchase = [p \in Pairs |-> Nobody]
  /\ refund = [p \in Pairs |-> Nobody]
  /\ reconciliation = [p \in Pairs |-> Unreconciled]
  /\ cycle = [c \in Cycles |-> Idle]
  /\ contended = {} /\ halfDone = {} /\ failures = 0
-----------------------------------------------------------------------------
(* The operator.                                                           *)
Activate(e) ==
  /\ active = {}
  /\ active' = {e}
  /\ UNCHANGED <<shopper, shop, books, cycle, history>>

Pause(e) ==
  /\ e \in active
  /\ active' = active \ {e}
  /\ UNCHANGED <<shopper, shop, books, cycle, history>>

(* click: the event is INSERT OR IGNOREd by experiment and visitor, and     *)
(* issue_token inserts a fresh token.  (It also deletes expired ones, which *)
(* bind no more either way.)                                               *)
Click(e, v) ==
  \E t \in Tokens :
    /\ e \in active
    /\ token[t] = Unissued
    /\ clicked' = clicked \cup {<<e, v>>}
    /\ token' = [token EXCEPT ![t] = [state |-> "live", experiment |-> e, visitor |-> v]]
    /\ UNCHANGED <<active, link, shop, books, cycle, history>>

Expire(t) ==
  /\ token[t].state = "live"
  /\ token' = [token EXCEPT ![t].state = "expired"]
  /\ UNCHANGED <<active, clicked, link, shop, books, cycle, history>>

Linked(x, v) == link[x] # NoToken /\ token[link[x]].visitor = v
FreeFor(x, v) == link[x] = NoToken \/ Linked(x, v)

(* bind_token: one immediate transaction, raising on a token that is gone,  *)
(* used or expired and on an identity that is another visitor's; what was  *)
(* linked to this visitor already stays.                                   *)
Bind(t, o, types) ==
  LET e == token[t].experiment
      v == token[t].visitor
      new == {<<<<e, o>>, k>> : k \in types}
  IN /\ token[t].state = "live"
     /\ \A x \in new : FreeFor(x, v)
     /\ link' = [x \in DOMAIN link |-> IF x \in new /\ link[x] = NoToken THEN t ELSE link[x]]
     /\ token' = [token EXCEPT ![t].state = "used"]
     /\ UNCHANGED <<active, clicked, shop, books, cycle, history>>

-----------------------------------------------------------------------------
(* The shop.  The window of an order takes in any of the clicks there were. *)
Place(o) ==
  /\ order[o] = "none"
  /\ order' = [order EXCEPT ![o] = "placed"] /\ page' = Append(page, o)
  /\ \E window \in SUBSET clicked :
       candidates' = [p \in Pairs |->
         IF p[2] = o THEN {v \in Visitors : <<p[1], v>> \in window} ELSE candidates[p]]
  /\ UNCHANGED <<active, shopper, books, cycle, history>>

Pay(o) ==
  /\ order[o] = "placed"
  /\ order' = [order EXCEPT ![o] = "paid"]
  /\ UNCHANGED <<active, shopper, page, candidates, books, cycle, history>>

Refund(o) ==
  /\ order[o] = "paid"
  /\ order' = [order EXCEPT ![o] = "refunded"]
  /\ UNCHANGED <<active, shopper, page, candidates, books, cycle, history>>

(* Other orders push the oldest off the page.                              *)
Age ==
  /\ page # <<>> /\ page' = Tail(page)
  /\ UNCHANGED <<active, shopper, order, candidates, books, cycle, history>>

(* The orders a search finds.                                              *)
Listed(status) == {o \in Orders : order[o] = status /\ \E i \in DOMAIN page : page[i] = o}
-----------------------------------------------------------------------------
(* A cycle.                                                                *)
At(c, pc) == cycle[c].pc = pc
Ends(c) == cycle' = [cycle EXCEPT ![c] = Idle]
Busy(p) == \E c \in Cycles :
  cycle[c].pc \in {"deciding", "purchase", "reconciling"} /\ cycle[c].pair = p

Start(c) ==
  /\ cycle[c] = Idle
  /\ cycle' = [cycle EXCEPT ![c] =
       [pc |-> "search", experiments |-> active, todo |-> {},
        pair |-> CHOOSE p \in Pairs : TRUE, visitor |-> Nobody, debits |-> {}]]
  /\ UNCHANGED <<active, shopper, shop, books, history>>

(* Only orders that are PAID: one that is refunded already is not among them. *)
SearchOrders(c) ==
  /\ At(c, "search")
  /\ cycle' = [cycle EXCEPT ![c].pc = "orders",
       ![c].experiments = {}, ![c].todo = cycle[c].experiments \X Listed("paid")]
  /\ UNCHANGED <<active, shopper, shop, books, history>>

(* Mutant: an order is considered again though it is attributed.           *)
ConsiderAgain(c, p) ==
  /\ At(c, "orders") /\ p \in cycle[c].todo
  /\ cycle' = [cycle EXCEPT ![c].pc = "deciding", ![c].pair = p]
  /\ contended' = IF Busy(p) THEN contended \cup {p} ELSE contended
  /\ UNCHANGED <<active, shopper, shop, books, halfDone, failures>>

(* The test for a prior attribution.                                       *)
Consider(c, p) ==
  /\ At(c, "orders") /\ p \in cycle[c].todo
  /\ IF reconciliation[p].status = "attributed"
     THEN /\ cycle' = [cycle EXCEPT ![c].todo = @ \ {p}]
          /\ UNCHANGED contended
     ELSE /\ cycle' = [cycle EXCEPT ![c].pc = "deciding", ![c].pair = p]
          /\ contended' = IF Busy(p) THEN contended \cup {p} ELSE contended
  /\ UNCHANGED <<active, shopper, shop, books, halfDone, failures>>

LinkedVisitors(p) == {v \in Visitors : \E k \in LinkTypes : Linked(<<p, k>>, v)}

(* Mutant: without the links only clicks count.                            *)
CreditedByClick(p) ==
  IF Cardinality(candidates[p]) = 1 THEN CHOOSE v \in candidates[p] : TRUE ELSE Nobody

(* Whom an order is credited to: its linked visitor, or without a link the  *)
(* only visitor with a click in its window; Nobody when that is ambiguous. *)
Credited(p) ==
  LET natives == LinkedVisitors(p)
      claim == IF natives = {} THEN candidates[p] ELSE natives
  IN IF Cardinality(claim) = 1 THEN CHOOSE v \in claim : TRUE ELSE Nobody

Decide(c) ==
  /\ At(c, "deciding")
  /\ LET v == Credited(cycle[c].pair)
     IN cycle' = [cycle EXCEPT ![c].visitor = v,
                    ![c].pc = IF v = Nobody THEN "reconciling" ELSE "purchase"]
  /\ UNCHANGED <<active, shopper, shop, books, history>>

(* record_event is INSERT OR IGNORE.                                       *)
RecordPurchase(c) ==
  /\ At(c, "purchase")
  /\ purchase' = [purchase EXCEPT ![cycle[c].pair] = IF @ = Nobody THEN cycle[c].visitor ELSE @]
  /\ cycle' = [cycle EXCEPT ![c].pc = "reconciling"]
  /\ UNCHANGED <<active, shopper, shop, refund, reconciliation, history>>

(* record_reconciliation is INSERT OR REPLACE.                             *)
Reconcile(c) ==
  LET v == cycle[c].visitor
  IN /\ At(c, "reconciling")
     /\ reconciliation' = [reconciliation EXCEPT ![cycle[c].pair] =
          IF v = Nobody THEN Unattributed ELSE Attributed(v)]
     /\ cycle' = [cycle EXCEPT ![c].pc = "orders", ![c].todo = @ \ {cycle[c].pair}, ![c].visitor = Nobody]
     /\ UNCHANGED <<active, shopper, shop, purchase, refund, history>>

(* Mutant: only the experiments that are still active are debited.         *)
SearchRefundsOfActive(c) ==
  /\ At(c, "orders") /\ cycle[c].todo = {}
  /\ cycle' = [cycle EXCEPT ![c].pc = "refunds",
       ![c].todo = {p \in Pairs : p[1] \in active /\ p[2] \in Listed("refunded")}]
  /\ UNCHANGED <<active, shopper, shop, books, history>>

(* reconcile_refunds, once the loop over the orders has ended: it finds the *)
(* refunded orders, and then reads and debits them one by one.             *)
SearchRefunds(c) ==
  /\ At(c, "orders") /\ cycle[c].todo = {}
  /\ cycle' = [cycle EXCEPT ![c].pc = "refunds",
       ![c].todo = {p \in Pairs : p[2] \in Listed("refunded")}]
  /\ UNCHANGED <<active, shopper, shop, books, history>>

ReadAttributions(c, o) ==
  LET found == {p \in cycle[c].todo : p[2] = o}
  IN /\ At(c, "refunds") /\ cycle[c].debits = {} /\ found # {}
     /\ cycle' = [cycle EXCEPT ![c].todo = @ \ found,
          ![c].debits = {<<p, reconciliation[p].visitor>> :
                           p \in {q \in found : reconciliation[q].status = "attributed"}}]
     /\ UNCHANGED <<active, shopper, shop, books, history>>

RecordRefund(c, d) ==
  /\ At(c, "refunds") /\ d \in cycle[c].debits
  /\ refund' = [refund EXCEPT ![d[1]] = IF @ = Nobody THEN d[2] ELSE @]
  /\ cycle' = [cycle EXCEPT ![c].debits = @ \ {d}]
  /\ UNCHANGED <<active, shopper, shop, purchase, reconciliation, history>>

Finish(c) ==
  /\ At(c, "refunds") /\ cycle[c].todo \cup cycle[c].debits = {}
  /\ Ends(c)
  /\ UNCHANGED <<active, shopper, shop, books, history>>

(* Wix does not answer, or the process ends.                               *)
Fail(c) ==
  /\ cycle[c] # Idle /\ failures < MaxFailures
  /\ failures' = failures + 1
  /\ halfDone' = IF At(c, "reconciling") /\ cycle[c].visitor # Nobody
                 THEN halfDone \cup {cycle[c].pair} ELSE halfDone
  /\ Ends(c)
  /\ UNCHANGED <<active, shopper, shop, books, contended>>

Proceed(c) ==
  \/ SearchOrders(c) \/ Decide(c) \/ RecordPurchase(c) \/ Reconcile(c)
  \/ \E p \in Pairs : Consider(c, p)
  \/ SearchRefunds(c) \/ Finish(c)
  \/ \E o \in Orders : ReadAttributions(c, o)
  \/ \E d \in Pairs \X Visitors : RecordRefund(c, d)

Next ==
  \/ \E e \in Experiments : Activate(e) \/ Pause(e)
  \/ \E e \in Experiments, v \in Visitors : Click(e, v)
  \/ \E t \in Tokens : Expire(t)
  \/ \E t \in Tokens, o \in Orders, types \in (SUBSET LinkTypes) \ {{}} : Bind(t, o, types)
  \/ Age \/ \E o \in Orders : Place(o) \/ Pay(o) \/ Refund(o)
  \/ \E c \in Cycles : Start(c) \/ Proceed(c) \/ Fail(c)

(* The timer starts its cycle again and again, and a process that runs goes *)
(* on; nothing is assumed of the requests, the shop or its visitors.       *)
Fairness == WF_vars(Start(Scheduled) \/ Proceed(Scheduled))

Spec == Init /\ [][Next]_vars /\ Fairness
-----------------------------------------------------------------------------
(* A refund is debited only where the purchase was credited, and to the     *)
(* same visitor - hence the same variant, whose net revenue decides the    *)
(* promotion - unless two cycles worked on the order at once or one failed *)
(* between the purchase event and its reconciliation.                      *)
RefundFollowsItsPurchase ==
  \A p \in Pairs : refund[p] # Nobody =>
    /\ purchase[p] # Nobody
    /\ p \notin contended \cup halfDone => refund[p] = purchase[p]

(* An order once attributed stays so, and to the same visitor, while no two *)
(* cycles consider it at once: a late link or click never moves it.        *)
StaysSettled ==
  \A p \in Pairs \ contended' :
    reconciliation[p].status = "attributed" => reconciliation'[p] = reconciliation[p]

AttributionIsFinal == [][StaysSettled]_vars

IsToBeAttributed(p) ==
  /\ reconciliation[p].status # "attributed"
  /\ Cardinality(LinkedVisitors(p)) = 1 /\ p[1] \in active /\ p[2] \in Listed("paid")

IsToBeDebited(p) ==
  /\ refund[p] = Nobody /\ p \notin halfDone \cup contended
  /\ p[2] \in Listed("refunded") /\ purchase[p] # Nobody

(* A paid order that only one visitor is linked to is attributed in the     *)
(* end, also when the link came after a cycle gave it up, unless its       *)
(* experiment is paused, it is refunded first, a hundred newer orders push  *)
(* it off the page, or another visitor's identity is linked as well.       *)
LinkedOrderIsAttributed ==
  \A p \in Pairs : []<>~IsToBeAttributed(p)

(* The refund of a purchase that was credited is debited in the end, unless *)
(* a cycle failed between the purchase and its reconciliation - an order   *)
(* refunded then is never looked at again - two cycles worked on it, or a   *)
(* hundred newer orders pushed it off the page.                            *)
RefundIsDebited ==
  \A p \in Pairs : []<>~IsToBeDebited(p)
=============================================================================
