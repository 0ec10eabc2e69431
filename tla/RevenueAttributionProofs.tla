----------------------- MODULE RevenueAttributionProofs -----------------------
(***************************************************************************)
(* Orders and refunds, proved for any visitors, orders, tokens and cycles: *)
(* a refund follows its purchase and an attribution is final.              *)
(*                                                                         *)
(* Neither is inductive.  A cycle that is alone with an order knows that   *)
(* the order is not attributed, and that an event of its purchase could    *)
(* only be there if it had been attributed, or left half done.             *)
(***************************************************************************)
EXTENDS RevenueAttribution, FiniteSetTheorems, TLAPS

Working(c, p) ==
  cycle[c].pc \in {"deciding", "purchase", "reconciling"} /\ cycle[c].pair = p

Crediting(c, p) ==
  cycle[c].pc = "reconciling" /\ cycle[c].pair = p /\ cycle[c].visitor # Nobody

Clear(p) == p \notin contended \cup halfDone

TwoAreContended ==
  \A p \in Pairs : \A c, d \in Cycles : Working(c, p) /\ Working(d, p) /\ c # d => p \in contended

(* Whoever is alone with an order found it not attributed.                 *)
AloneIsFirst ==
  \A p \in Pairs : \A c \in Cycles :
    Working(c, p) /\ p \notin contended => reconciliation[p].status # "attributed"

HasAVisitor == \A c \in Cycles : cycle[c].pc = "purchase" => cycle[c].visitor # Nobody

(* Whom an order was, is about to be, or is to be debited to is whom its    *)
(* purchase was credited to.                                               *)
Agrees(p, v) == v # Nobody /\ purchase[p] # Nobody /\ (Clear(p) => purchase[p] = v)

CreditAgrees ==
  \A p \in Pairs :
    /\ reconciliation[p].status = "attributed" => Agrees(p, reconciliation[p].visitor)
    /\ \A c \in Cycles : Crediting(c, p) => Agrees(p, cycle[c].visitor)
    /\ \A c \in Cycles, v \in Visitors :
         cycle[c].pc # "idle" /\ <<p, v>> \in cycle[c].debits => Agrees(p, v)
    /\ refund[p] # Nobody => Agrees(p, refund[p])

PurchaseIsCredited ==
  \A p \in Pairs : purchase[p] # Nobody /\ Clear(p) =>
    reconciliation[p].status = "attributed" \/ \E c \in Cycles : Crediting(c, p)

IInv == TwoAreContended /\ AloneIsFirst /\ HasAVisitor /\ CreditAgrees /\ PurchaseIsCredited
-----------------------------------------------------------------------------
LEMMA Row ==
  ASSUME TypeOK, NEW c \in Cycles, cycle[c].pc # "idle"
  PROVE  cycle[c] \in Cycle /\ cycle[c] # Idle
BY DEF TypeOK, Idle

LEMMA Becomes ==
  ASSUME TypeOK, NEW c \in Cycles, NEW x, cycle' = [cycle EXCEPT ![c] = x]
  PROVE  /\ cycle'[c] = x /\ \A d \in Cycles \ {c} : cycle'[d] = cycle[d]
         /\ x \in {Idle} \cup Cycle => cycle' \in [Cycles -> {Idle} \cup Cycle]
BY DEF TypeOK

LEMMA PairsAreTuples ==
  ASSUME NEW p \in Pairs
  PROVE  p[1] \in Experiments /\ p[2] \in Orders
BY DEF Pairs

(* What each step of a cycle makes of its row.                             *)
LEMMA StartRow ==
  ASSUME TypeOK, NEW c \in Cycles, Start(c)
  PROVE  /\ cycle' \in [Cycles -> {Idle} \cup Cycle]
         /\ cycle[c].pc = "idle" /\ cycle'[c].pc = "search" /\ cycle'[c].debits = {}
         /\ \A d \in Cycles \ {c} : cycle'[d] = cycle[d]
<1> DEFINE x == [pc |-> "search", experiments |-> active, todo |-> {},
                 pair |-> CHOOSE p \in Pairs : TRUE, visitor |-> Nobody, debits |-> {}]
<1>1. (CHOOSE p \in Pairs : TRUE) \in Pairs
  <2>1. PICK e \in Experiments : TRUE
    BY ShopAssumption
  <2>2. PICK o \in Orders : TRUE
    BY ShopAssumption
  <2>3. <<e, o>> \in Pairs
    BY DEF Pairs
  <2> QED BY <2>3
<1>2. x \in Cycle /\ x.pc = "search" /\ x.debits = {}
  BY <1>1 DEF Cycle, TypeOK, Anybody
<1>3. cycle' = [cycle EXCEPT ![c] = x] /\ cycle[c].pc = "idle"
  BY DEF Start, Idle
<1> HIDE DEF x
<1> QED BY <1>2, <1>3, Becomes

LEMMA SearchOrdersRow ==
  ASSUME TypeOK, NEW c \in Cycles, SearchOrders(c)
  PROVE  /\ cycle' \in [Cycles -> {Idle} \cup Cycle]
         /\ cycle[c].pc = "search" /\ cycle'[c].pc = "orders" /\ cycle'[c].debits = cycle[c].debits
         /\ \A d \in Cycles \ {c} : cycle'[d] = cycle[d]
<1> DEFINE todo == cycle[c].experiments \X Listed("paid")
           x == [cycle[c] EXCEPT !.pc = "orders", !.experiments = {}, !.todo = todo]
<1>1. cycle[c].pc = "search" /\ cycle' = [cycle EXCEPT ![c] = x]
  BY DEF SearchOrders, At
<1>2. cycle[c] \in Cycle
  BY <1>1, Row
<1>3. cycle[c].experiments \subseteq Experiments
  BY <1>2 DEF Cycle
<1>4. todo \subseteq Pairs
  BY <1>3 DEF Pairs, Listed
<1> HIDE DEF todo
<1>5. x \in Cycle /\ x.pc = "orders" /\ x.debits = cycle[c].debits
  BY <1>2, <1>4 DEF Cycle
<1> HIDE DEF x
<1> QED BY <1>1, <1>5, Becomes

LEMMA ConsiderRow ==
  ASSUME TypeOK, NEW c \in Cycles, NEW p \in Pairs, Consider(c, p)
  PROVE  /\ cycle' \in [Cycles -> {Idle} \cup Cycle] /\ cycle[c].pc = "orders"
         /\ cycle'[c].debits = cycle[c].debits
         /\ \/ cycle'[c].pc = "orders" /\ contended' = contended
            \/ /\ cycle'[c].pc = "deciding" /\ cycle'[c].pair = p
               /\ reconciliation[p].status # "attributed"
               /\ contended' = IF Busy(p) THEN contended \cup {p} ELSE contended
         /\ \A d \in Cycles \ {c} : cycle'[d] = cycle[d]
<1>1. cycle[c].pc = "orders" /\ cycle[c] \in Cycle
  BY Row DEF Consider, At
<1>2. CASE reconciliation[p].status = "attributed"
  <2> DEFINE x == [cycle[c] EXCEPT !.todo = cycle[c].todo \ {p}]
  <2>1. cycle' = [cycle EXCEPT ![c] = x] /\ contended' = contended
    BY <1>2 DEF Consider
  <2>2. x \in Cycle /\ x.pc = "orders" /\ x.debits = cycle[c].debits
    BY <1>1 DEF Cycle
  <2> HIDE DEF x
  <2> QED BY <1>1, <2>1, <2>2, Becomes
<1>3. CASE reconciliation[p].status # "attributed"
  <2> DEFINE x == [cycle[c] EXCEPT !.pc = "deciding", !.pair = p]
  <2>1. /\ cycle' = [cycle EXCEPT ![c] = x]
        /\ contended' = IF Busy(p) THEN contended \cup {p} ELSE contended
    BY <1>3 DEF Consider
  <2>2. x \in Cycle /\ x.pc = "deciding" /\ x.pair = p /\ x.debits = cycle[c].debits
    BY <1>1 DEF Cycle
  <2> HIDE DEF x
  <2> QED BY <1>1, <1>3, <2>1, <2>2, Becomes
<1> QED BY <1>2, <1>3

LEMMA CreditedTyped ==
  ASSUME TypeOK, NEW p \in Pairs
  PROVE  Credited(p) \in Anybody
<1> DEFINE claim == IF LinkedVisitors(p) = {} THEN candidates[p] ELSE LinkedVisitors(p)
<1>1. claim \subseteq Visitors
  BY DEF LinkedVisitors, TypeOK
<1>2. Credited(p) = IF Cardinality(claim) = 1 THEN CHOOSE v \in claim : TRUE ELSE Nobody
  BY DEF Credited
<1> HIDE DEF claim
<1>3. CASE claim = {}
  BY <1>2, <1>3, FS_EmptySet DEF Anybody
<1>4. CASE claim # {}
  BY <1>1, <1>2, <1>4 DEF Anybody
<1> QED BY <1>3, <1>4

LEMMA DecideRow ==
  ASSUME TypeOK, NEW c \in Cycles, Decide(c)
  PROVE  /\ cycle' \in [Cycles -> {Idle} \cup Cycle]
         /\ cycle[c].pc = "deciding" /\ cycle[c].pair \in Pairs /\ cycle'[c].pair = cycle[c].pair
         /\ cycle'[c].debits = cycle[c].debits
         /\ \/ cycle'[c].pc = "reconciling" /\ cycle'[c].visitor = Nobody
            \/ cycle'[c].pc = "purchase" /\ cycle'[c].visitor # Nobody
         /\ \A d \in Cycles \ {c} : cycle'[d] = cycle[d]
<1> DEFINE v == Credited(cycle[c].pair)
           pc == IF v = Nobody THEN "reconciling" ELSE "purchase"
           x == [cycle[c] EXCEPT !.visitor = v, !.pc = pc]
<1>1. cycle[c].pc = "deciding" /\ cycle' = [cycle EXCEPT ![c] = x]
  BY DEF Decide, At
<1>2. cycle[c] \in Cycle
  BY <1>1, Row
<1>3. cycle[c].pair \in Pairs
  BY <1>2 DEF Cycle
<1>4. v \in Anybody
  BY <1>3, CreditedTyped
<1> HIDE DEF v
<1>5. /\ x \in Cycle /\ x.pc = pc /\ x.visitor = v /\ x.pair = cycle[c].pair
      /\ x.debits = cycle[c].debits
  BY <1>2, <1>4 DEF Cycle
<1> HIDE DEF x
<1> QED BY <1>1, <1>3, <1>5, Becomes

LEMMA RecordPurchaseRow ==
  ASSUME TypeOK, NEW c \in Cycles, RecordPurchase(c)
  PROVE  /\ cycle' \in [Cycles -> {Idle} \cup Cycle]
         /\ cycle[c].pc = "purchase" /\ cycle[c].pair \in Pairs /\ cycle[c].visitor \in Anybody
         /\ cycle'[c].pc = "reconciling" /\ cycle'[c].pair = cycle[c].pair
         /\ cycle'[c].visitor = cycle[c].visitor /\ cycle'[c].debits = cycle[c].debits
         /\ \A d \in Cycles \ {c} : cycle'[d] = cycle[d]
<1> DEFINE x == [cycle[c] EXCEPT !.pc = "reconciling"]
<1>1. cycle[c].pc = "purchase" /\ cycle' = [cycle EXCEPT ![c] = x]
  BY DEF RecordPurchase, At
<1>2. cycle[c] \in Cycle
  BY <1>1, Row
<1>3. /\ x \in Cycle /\ x.pc = "reconciling" /\ x.visitor = cycle[c].visitor /\ x.pair = cycle[c].pair
      /\ cycle[c].pair \in Pairs /\ cycle[c].visitor \in Anybody /\ x.debits = cycle[c].debits
  BY <1>2 DEF Cycle
<1> HIDE DEF x
<1> QED BY <1>1, <1>3, Becomes

LEMMA ReconcileRow ==
  ASSUME TypeOK, NEW c \in Cycles, Reconcile(c)
  PROVE  /\ cycle' \in [Cycles -> {Idle} \cup Cycle]
         /\ cycle[c].pc = "reconciling" /\ cycle[c].pair \in Pairs /\ cycle[c].visitor \in Anybody
         /\ cycle'[c].pc = "orders" /\ cycle'[c].debits = cycle[c].debits
         /\ \A d \in Cycles \ {c} : cycle'[d] = cycle[d]
<1> DEFINE x == [cycle[c] EXCEPT !.pc = "orders", !.todo = cycle[c].todo \ {cycle[c].pair}, !.visitor = Nobody]
<1>1. cycle[c].pc = "reconciling" /\ cycle' = [cycle EXCEPT ![c] = x]
  BY DEF Reconcile, At
<1>2. cycle[c] \in Cycle
  BY <1>1, Row
<1>3. /\ x \in Cycle /\ x.pc = "orders" /\ x.debits = cycle[c].debits
      /\ cycle[c].pair \in Pairs /\ cycle[c].visitor \in Anybody
  BY <1>2 DEF Cycle, Anybody
<1> HIDE DEF x
<1> QED BY <1>1, <1>3, Becomes

LEMMA SearchRefundsRow ==
  ASSUME TypeOK, NEW c \in Cycles, SearchRefunds(c)
  PROVE  /\ cycle' \in [Cycles -> {Idle} \cup Cycle]
         /\ cycle[c].pc = "orders" /\ cycle'[c].pc = "refunds" /\ cycle'[c].debits = cycle[c].debits
         /\ \A d \in Cycles \ {c} : cycle'[d] = cycle[d]
<1> DEFINE todo == {p \in Pairs : p[2] \in Listed("refunded")}
           x == [cycle[c] EXCEPT !.pc = "refunds", !.todo = todo]
<1>1. cycle[c].pc = "orders" /\ cycle' = [cycle EXCEPT ![c] = x]
  BY DEF SearchRefunds, At
<1>2. cycle[c] \in Cycle
  BY <1>1, Row
<1>3. todo \subseteq Pairs
  OBVIOUS
<1> HIDE DEF todo
<1>4. x \in Cycle /\ x.pc = "refunds" /\ x.debits = cycle[c].debits
  BY <1>2, <1>3 DEF Cycle
<1> HIDE DEF x
<1> QED BY <1>1, <1>4, Becomes

LEMMA ReadAttributionsRow ==
  ASSUME TypeOK, NEW c \in Cycles, NEW o \in Orders, ReadAttributions(c, o)
  PROVE  /\ cycle' \in [Cycles -> {Idle} \cup Cycle]
         /\ cycle[c].pc = "refunds" /\ cycle'[c].pc = "refunds"
         /\ \A p \in Pairs, v \in Visitors : <<p, v>> \in cycle'[c].debits =>
              reconciliation[p].status = "attributed" /\ reconciliation[p].visitor = v
         /\ \A d \in Cycles \ {c} : cycle'[d] = cycle[d]
<1> DEFINE found == {p \in cycle[c].todo : p[2] = o}
           new == {q \in found : reconciliation[q].status = "attributed"}
           debits == {<<p, reconciliation[p].visitor>> : p \in new}
           x == [cycle[c] EXCEPT !.todo = cycle[c].todo \ found, !.debits = debits]
<1>1. cycle[c].pc = "refunds" /\ cycle' = [cycle EXCEPT ![c] = x]
  BY DEF ReadAttributions, At
<1>2. cycle[c] \in Cycle
  BY <1>1, Row
<1>3. new \subseteq Pairs
  BY <1>2 DEF Cycle
<1>4. \A p \in new : reconciliation[p].status = "attributed" /\ reconciliation[p].visitor \in Visitors
  BY <1>3 DEF TypeOK, Unreconciled, Unattributed, Attributed
<1> HIDE DEF new
<1>5. debits \in SUBSET (Pairs \X Visitors)
  BY <1>3, <1>4
<1>6. \A p \in Pairs, v \in Visitors : <<p, v>> \in debits =>
        reconciliation[p].status = "attributed" /\ reconciliation[p].visitor = v
  BY <1>4
<1> HIDE DEF debits, found
<1>7. x \in Cycle /\ x.pc = "refunds" /\ x.debits = debits
  BY <1>1, <1>2, <1>5 DEF Cycle
<1> HIDE DEF x
<1> QED BY <1>1, <1>6, <1>7, Becomes

LEMMA RecordRefundRow ==
  ASSUME TypeOK, NEW c \in Cycles, NEW d \in Pairs \X Visitors, RecordRefund(c, d)
  PROVE  /\ cycle' \in [Cycles -> {Idle} \cup Cycle]
         /\ cycle[c].pc = "refunds" /\ cycle'[c].pc = "refunds"
         /\ cycle'[c].debits \subseteq cycle[c].debits
         /\ \A b \in Cycles \ {c} : cycle'[b] = cycle[b]
<1> DEFINE x == [cycle[c] EXCEPT !.debits = cycle[c].debits \ {d}]
<1>1. cycle[c].pc = "refunds" /\ cycle' = [cycle EXCEPT ![c] = x]
  BY DEF RecordRefund, At
<1>2. cycle[c] \in Cycle
  BY <1>1, Row
<1>3. x \in Cycle /\ x.pc = "refunds" /\ x.debits \subseteq cycle[c].debits
  BY <1>1, <1>2 DEF Cycle
<1> HIDE DEF x
<1> QED BY <1>1, <1>3, Becomes

LEMMA EndsRow ==
  ASSUME TypeOK, NEW c \in Cycles, Ends(c)
  PROVE  /\ cycle' \in [Cycles -> {Idle} \cup Cycle] /\ cycle'[c].pc = "idle"
         /\ \A d \in Cycles \ {c} : cycle'[d] = cycle[d]
<1>1. cycle' = [cycle EXCEPT ![c] = Idle] /\ Idle.pc = "idle"
  BY DEF Ends, Idle
<1> QED BY <1>1, Becomes
-----------------------------------------------------------------------------
LEMMA ReconciliationTyped ==
  ASSUME NEW v \in Visitors
  PROVE  /\ Attributed(v).status = "attributed" /\ Attributed(v).visitor = v
         /\ Unattributed.status # "attributed"
BY DEF Attributed, Unattributed

LEMMA TypeStep ==
  ASSUME TypeOK, [Next]_vars
  PROVE  TypeOK'
<1>1. ASSUME cycle' \in [Cycles -> {Idle} \cup Cycle], contended' \subseteq Pairs, halfDone' \subseteq Pairs,
             failures' \in 0..MaxFailures, purchase' \in [Pairs -> Anybody], refund' \in [Pairs -> Anybody],
             reconciliation' \in [Pairs -> {Unreconciled, Unattributed} \cup {Attributed(v) : v \in Visitors}],
             UNCHANGED <<active, shopper, shop>>
      PROVE  TypeOK'
  BY <1>1 DEF TypeOK, shopper, shop
<1>2. ASSUME cycle' \in [Cycles -> {Idle} \cup Cycle], UNCHANGED <<active, shopper, shop, books, history>>
      PROVE  TypeOK'
  BY <1>2 DEF TypeOK, shopper, shop, books, history
<1>3. ASSUME NEW e \in Experiments, Activate(e) \/ Pause(e)
      PROVE  TypeOK'
  BY <1>3 DEF Activate, Pause, TypeOK, shopper, shop, books, history
<1>4. ASSUME NEW e \in Experiments, NEW v \in Visitors, Click(e, v)
      PROVE  TypeOK'
  <2>1. PICK t \in Tokens :
          /\ clicked' = clicked \cup {<<e, v>>}
          /\ token' = [token EXCEPT ![t] = [state |-> "live", experiment |-> e, visitor |-> v]]
    BY <1>4 DEF Click
  <2>2. UNCHANGED <<active, link, shop, books, cycle, history>>
    BY <1>4 DEF Click
  <2>3. token' \in [Tokens -> {Unissued} \cup Token]
    BY <2>1 DEF TypeOK, Token
  <2>4. clicked' \subseteq Experiments \X Visitors
    BY <2>1 DEF TypeOK
  <2> QED BY <2>2, <2>3, <2>4 DEF TypeOK, shop, books, history
<1>5. ASSUME NEW t \in Tokens, NEW state \in {"used", "expired"}, token[t].state = "live"
      PROVE  [token EXCEPT ![t].state = state] \in [Tokens -> {Unissued} \cup Token]
  <2> DEFINE x == [token[t] EXCEPT !.state = state]
  <2>1. token[t] \in Token
    BY <1>5 DEF TypeOK, Unissued
  <2>2. x \in Token
    BY <2>1 DEF Token
  <2> HIDE DEF x
  <2>3. [token EXCEPT ![t] = x] \in [Tokens -> {Unissued} \cup Token]
    BY <2>2 DEF TypeOK
  <2> QED BY <2>3 DEF x
<1>6. ASSUME NEW t \in Tokens, Expire(t)
      PROVE  TypeOK'
  <2>1. /\ token[t].state = "live" /\ token' = [token EXCEPT ![t].state = "expired"]
        /\ UNCHANGED <<active, clicked, link, shop, books, cycle, history>>
    BY <1>6 DEF Expire
  <2>2. token' \in [Tokens -> {Unissued} \cup Token]
    BY <2>1, <1>5
  <2> QED BY <2>1, <2>2 DEF TypeOK, shop, books, history
<1>7. ASSUME NEW t \in Tokens, NEW o \in Orders, NEW types \in SUBSET LinkTypes, Bind(t, o, types)
      PROVE  TypeOK'
  <2>1. /\ token[t].state = "live" /\ token' = [token EXCEPT ![t].state = "used"]
        /\ UNCHANGED <<active, clicked, shop, books, cycle, history>>
    BY <1>7 DEF Bind
  <2>2. link' = [x \in DOMAIN link |->
                  IF x \in {<<<<token[t].experiment, o>>, k>> : k \in types} /\ link[x] = NoToken
                  THEN t ELSE link[x]]
    BY <1>7 DEF Bind
  <2>3. link' \in [Pairs \X LinkTypes -> Tokens \cup {NoToken}]
    BY <2>2 DEF TypeOK
  <2>4. token' \in [Tokens -> {Unissued} \cup Token]
    BY <2>1, <1>5
  <2> QED BY <2>1, <2>3, <2>4 DEF TypeOK, shop, books, history
<1>8. ASSUME NEW o \in Orders, Place(o)
      PROVE  TypeOK'
  <2>1. /\ order' = [order EXCEPT ![o] = "placed"] /\ page' = Append(page, o)
        /\ UNCHANGED <<active, shopper, books, cycle, history>>
    BY <1>8 DEF Place
  <2>2. PICK window \in SUBSET clicked :
          candidates' = [p \in Pairs |->
            IF p[2] = o THEN {v \in Visitors : <<p[1], v>> \in window} ELSE candidates[p]]
    BY <1>8 DEF Place
  <2>3. candidates' \in [Pairs -> SUBSET Visitors]
    BY <2>2 DEF TypeOK
  <2>4. order' \in [Orders -> {"none", "placed", "paid", "refunded"}] /\ page' \in Seq(Orders)
    BY <2>1 DEF TypeOK
  <2> QED BY <2>1, <2>3, <2>4 DEF TypeOK, shopper, books, history
<1>9. ASSUME NEW o \in Orders, Pay(o) \/ Refund(o)
      PROVE  TypeOK'
  BY <1>9 DEF Pay, Refund, TypeOK, shopper, books, history
<1>19. CASE Age
  <2>1. page' \in Seq(Orders) /\ UNCHANGED <<active, shopper, order, candidates, books, cycle, history>>
    BY <1>19 DEF Age, TypeOK
  <2> QED BY <2>1 DEF TypeOK, shopper, books, history
<1>10. ASSUME NEW c \in Cycles, Start(c)
       PROVE  TypeOK'
  BY <1>2, <1>10, StartRow DEF Start
<1>11. ASSUME NEW c \in Cycles, Fail(c)
       PROVE  TypeOK'
  <2>1. /\ Ends(c) /\ failures' = failures + 1 /\ failures < MaxFailures /\ cycle[c] # Idle
        /\ halfDone' = IF At(c, "reconciling") /\ cycle[c].visitor # Nobody
                       THEN halfDone \cup {cycle[c].pair} ELSE halfDone
        /\ UNCHANGED <<active, shopper, shop, books, contended>>
    BY <1>11 DEF Fail
  <2>2. cycle[c].pair \in Pairs
    BY <2>1 DEF TypeOK, Cycle
  <2>3. halfDone' \subseteq Pairs
    BY <2>1, <2>2 DEF TypeOK
  <2>4. failures' \in 0..MaxFailures
    BY <2>1, MaxFailuresAssumption DEF TypeOK
  <2> QED BY <2>1, <2>3, <2>4, <1>1, EndsRow DEF TypeOK, books
<1>12. ASSUME NEW c \in Cycles, SearchOrders(c) \/ Decide(c) \/ SearchRefunds(c) \/ Finish(c)
       PROVE  TypeOK'
  <2>1. UNCHANGED <<active, shopper, shop, books, history>>
    BY <1>12 DEF SearchOrders, Decide, SearchRefunds, Finish
  <2>2. cycle' \in [Cycles -> {Idle} \cup Cycle]
    BY <1>12, SearchOrdersRow, DecideRow, SearchRefundsRow, EndsRow DEF Finish
  <2> QED BY <2>1, <2>2, <1>2
<1>13. ASSUME NEW c \in Cycles, NEW p \in Pairs, Consider(c, p)
       PROVE  TypeOK'
  <2>1. UNCHANGED <<active, shopper, shop, books, halfDone, failures>>
    BY <1>13 DEF Consider
  <2>2. cycle' \in [Cycles -> {Idle} \cup Cycle] /\ contended' \subseteq Pairs
    BY <1>13, ConsiderRow DEF TypeOK
  <2> QED BY <2>1, <2>2, <1>1 DEF TypeOK, books
<1>14. ASSUME NEW c \in Cycles, RecordPurchase(c)
       PROVE  TypeOK'
  <2>1. /\ UNCHANGED <<active, shopper, shop, refund, reconciliation, history>>
        /\ purchase' = [purchase EXCEPT ![cycle[c].pair] =
                          IF purchase[cycle[c].pair] = Nobody THEN cycle[c].visitor ELSE purchase[cycle[c].pair]]
    BY <1>14 DEF RecordPurchase
  <2>2. /\ cycle' \in [Cycles -> {Idle} \cup Cycle]
        /\ cycle[c].pair \in Pairs /\ cycle[c].visitor \in Anybody
    BY <1>14, RecordPurchaseRow
  <2>3. purchase' \in [Pairs -> Anybody]
    BY <2>1, <2>2 DEF TypeOK
  <2> QED BY <2>1, <2>2, <2>3, <1>1 DEF TypeOK, history
<1>15. ASSUME NEW c \in Cycles, Reconcile(c)
       PROVE  TypeOK'
  <2>1. /\ UNCHANGED <<active, shopper, shop, purchase, refund, history>>
        /\ reconciliation' = [reconciliation EXCEPT ![cycle[c].pair] =
             IF cycle[c].visitor = Nobody THEN Unattributed ELSE Attributed(cycle[c].visitor)]
    BY <1>15 DEF Reconcile
  <2>2. /\ cycle' \in [Cycles -> {Idle} \cup Cycle]
        /\ cycle[c].pair \in Pairs /\ cycle[c].visitor \in Anybody
    BY <1>15, ReconcileRow
  <2>3. cycle[c].visitor # Nobody => Attributed(cycle[c].visitor) \in {Attributed(v) : v \in Visitors}
    BY <2>2 DEF Anybody
  <2>4. reconciliation' \in [Pairs -> {Unreconciled, Unattributed} \cup {Attributed(v) : v \in Visitors}]
    BY <2>1, <2>3 DEF TypeOK
  <2> QED BY <2>1, <2>2, <2>4, <1>1 DEF TypeOK, history
<1>16. ASSUME NEW c \in Cycles, NEW o \in Orders, ReadAttributions(c, o)
       PROVE  TypeOK'
  BY <1>16, <1>2, ReadAttributionsRow DEF ReadAttributions
<1>17. ASSUME NEW c \in Cycles, NEW d \in Pairs \X Visitors, RecordRefund(c, d)
       PROVE  TypeOK'
  <2>1. /\ UNCHANGED <<active, shopper, shop, purchase, reconciliation, history>>
        /\ refund' = [refund EXCEPT ![d[1]] = IF refund[d[1]] = Nobody THEN d[2] ELSE refund[d[1]]]
    BY <1>17 DEF RecordRefund
  <2>2. d[1] \in Pairs /\ d[2] \in Anybody
    BY DEF Anybody
  <2>3. refund' \in [Pairs -> Anybody]
    BY <2>1, <2>2 DEF TypeOK
  <2> QED BY <2>1, <2>3, <1>1, <1>17, RecordRefundRow DEF TypeOK, history
<1>18. CASE UNCHANGED vars
  BY <1>18 DEF vars, TypeOK
<1> QED BY <1>3, <1>4, <1>6, <1>7, <1>8, <1>9, <1>10, <1>11, <1>12, <1>13, <1>14, <1>15, <1>16, <1>17, <1>18,
        <1>19 DEF Next, Proceed

LEMMA Typed == Spec => []TypeOK
<1>1. Init => TypeOK
  BY MaxFailuresAssumption DEF Init, TypeOK, Anybody
<1> QED BY <1>1, TypeStep, PTL DEF Spec
-----------------------------------------------------------------------------
CycleStep(c) == Start(c) \/ Proceed(c) \/ Fail(c)

(* How far a step of one cycle changes what the cycles are doing.          *)
LEMMA CycleMoves ==
  ASSUME TypeOK, HasAVisitor, NEW c \in Cycles, CycleStep(c)
  PROVE  /\ \A d \in Cycles \ {c} : cycle'[d] = cycle[d]
         /\ \A p \in Pairs : Working(c, p)' =>
              \/ Working(c, p)
              \/ reconciliation[p].status # "attributed" /\ (Busy(p) => p \in contended')
         /\ \A p \in Pairs : Crediting(c, p)' =>
              \/ Crediting(c, p) /\ cycle'[c].visitor = cycle[c].visitor
              \/ /\ RecordPurchase(c) /\ cycle[c].pair = p /\ cycle[c].visitor # Nobody
                 /\ cycle'[c].visitor = cycle[c].visitor
         /\ \A p \in Pairs : Crediting(c, p) => Reconcile(c) \/ Fail(c)
         /\ cycle'[c].pc = "purchase" => cycle'[c].visitor # Nobody
         /\ cycle'[c].pc # "idle" =>
              \A p \in Pairs, v \in Visitors : <<p, v>> \in cycle'[c].debits =>
                \/ cycle[c].pc # "idle" /\ <<p, v>> \in cycle[c].debits
                \/ reconciliation[p].status = "attributed" /\ reconciliation[p].visitor = v
<1> USE DEF Working, Crediting
<1>1. CASE Start(c)
  BY <1>1, StartRow
<1>2. CASE SearchOrders(c)
  BY <1>2, SearchOrdersRow
<1>3. ASSUME NEW q \in Pairs, Consider(c, q)
      PROVE  /\ \A d \in Cycles \ {c} : cycle'[d] = cycle[d]
             /\ cycle[c].pc = "orders" /\ cycle'[c].debits = cycle[c].debits
             /\ \/ cycle'[c].pc = "orders"
                \/ /\ cycle'[c].pc = "deciding" /\ cycle'[c].pair = q
                   /\ reconciliation[q].status # "attributed" /\ (Busy(q) => q \in contended')
  BY <1>3, ConsiderRow
<1>4. CASE Decide(c)
  BY <1>4, DecideRow
<1>5. CASE RecordPurchase(c)
  BY <1>5, RecordPurchaseRow DEF HasAVisitor
<1>6. CASE Reconcile(c)
  BY <1>6, ReconcileRow
<1>7. CASE SearchRefunds(c)
  BY <1>7, SearchRefundsRow
<1>8. ASSUME NEW o \in Orders, ReadAttributions(c, o)
      PROVE  /\ \A d \in Cycles \ {c} : cycle'[d] = cycle[d]
             /\ cycle[c].pc = "refunds" /\ cycle'[c].pc = "refunds"
             /\ \A p \in Pairs, v \in Visitors : <<p, v>> \in cycle'[c].debits =>
                  reconciliation[p].status = "attributed" /\ reconciliation[p].visitor = v
  BY <1>8, ReadAttributionsRow
<1>9. ASSUME NEW d \in Pairs \X Visitors, RecordRefund(c, d)
      PROVE  /\ \A b \in Cycles \ {c} : cycle'[b] = cycle[b]
             /\ cycle[c].pc = "refunds" /\ cycle'[c].pc = "refunds"
             /\ cycle'[c].debits \subseteq cycle[c].debits
  BY <1>9, RecordRefundRow
<1>10. CASE Finish(c)
  BY <1>10, EndsRow DEF Finish, At
<1>11. CASE Fail(c)
  BY <1>11, EndsRow DEF Fail
<1> QED BY <1>1, <1>2, <1>3, <1>4, <1>5, <1>6, <1>7, <1>8, <1>9, <1>10, <1>11 DEF CycleStep, Proceed

(* The books, by the steps that write them.                                *)
LEMMA PurchaseWritten ==
  ASSUME TypeOK, NEW c \in Cycles, RecordPurchase(c)
  PROVE  /\ UNCHANGED <<refund, reconciliation, contended, halfDone>>
         /\ \A p \in Pairs : purchase'[p] =
              IF p = cycle[c].pair /\ purchase[p] = Nobody THEN cycle[c].visitor ELSE purchase[p]
<1>1. /\ purchase' = [purchase EXCEPT ![cycle[c].pair] =
                        IF purchase[cycle[c].pair] = Nobody THEN cycle[c].visitor ELSE purchase[cycle[c].pair]]
      /\ UNCHANGED <<refund, reconciliation, contended, halfDone>>
  BY DEF RecordPurchase, history
<1> QED BY <1>1 DEF TypeOK

LEMMA ReconciliationWritten ==
  ASSUME TypeOK, NEW c \in Cycles, Reconcile(c)
  PROVE  /\ UNCHANGED <<refund, purchase, contended, halfDone>>
         /\ cycle[c].pc = "reconciling" /\ cycle[c].pair \in Pairs
         /\ \A p \in Pairs \ {cycle[c].pair} : reconciliation'[p] = reconciliation[p]
         /\ cycle[c].visitor = Nobody => reconciliation'[cycle[c].pair].status # "attributed"
         /\ cycle[c].visitor # Nobody =>
              /\ reconciliation'[cycle[c].pair].status = "attributed"
              /\ reconciliation'[cycle[c].pair].visitor = cycle[c].visitor
<1>1. /\ reconciliation' = [reconciliation EXCEPT ![cycle[c].pair] =
                              IF cycle[c].visitor = Nobody THEN Unattributed ELSE Attributed(cycle[c].visitor)]
      /\ UNCHANGED <<refund, purchase, contended, halfDone>>
  BY DEF Reconcile, history
<1>2. cycle[c].pc = "reconciling" /\ cycle[c].pair \in Pairs /\ cycle[c].visitor \in Anybody
  BY ReconcileRow
<1>3. Unattributed.status # "attributed"
  BY DEF Unattributed
<1>4. cycle[c].visitor # Nobody => /\ Attributed(cycle[c].visitor).status = "attributed"
                                   /\ Attributed(cycle[c].visitor).visitor = cycle[c].visitor
  BY DEF Attributed
<1> HIDE DEF Attributed, Unattributed
<1> QED BY <1>1, <1>2, <1>3, <1>4 DEF TypeOK

LEMMA RefundWritten ==
  ASSUME TypeOK, NEW c \in Cycles, NEW d \in Pairs \X Visitors, RecordRefund(c, d)
  PROVE  /\ UNCHANGED <<purchase, reconciliation, contended, halfDone>>
         /\ cycle[c].pc = "refunds" /\ d[1] \in Pairs /\ d[2] \in Visitors /\ <<d[1], d[2]>> \in cycle[c].debits
         /\ \A p \in Pairs : refund'[p] = IF p = d[1] /\ refund[p] = Nobody THEN d[2] ELSE refund[p]
<1>1. /\ refund' = [refund EXCEPT ![d[1]] = IF refund[d[1]] = Nobody THEN d[2] ELSE refund[d[1]]]
      /\ UNCHANGED <<purchase, reconciliation, contended, halfDone>>
      /\ cycle[c].pc = "refunds" /\ d \in cycle[c].debits
  BY DEF RecordRefund, history, At
<1>2. d[1] \in Pairs /\ d[2] \in Visitors /\ <<d[1], d[2]>> = d
  OBVIOUS
<1> QED BY <1>1, <1>2 DEF TypeOK

(* The other steps of a cycle write nothing into the books.                *)
LEMMA BooksStay ==
  ASSUME TypeOK, NEW c \in Cycles, CycleStep(c)
  PROVE  /\ UNCHANGED purchase \/ RecordPurchase(c)
         /\ UNCHANGED reconciliation \/ Reconcile(c)
         /\ UNCHANGED refund \/ \E d \in Pairs \X Visitors : RecordRefund(c, d)
         /\ contended \subseteq contended' /\ halfDone \subseteq halfDone'
         /\ \A p \in Pairs : Fail(c) /\ Crediting(c, p) => p \in halfDone'
<1>1. CASE Start(c)
  BY <1>1 DEF Start, books, history, Idle, Crediting, Fail
<1>2. CASE SearchOrders(c) \/ Decide(c) \/ SearchRefunds(c) \/ Finish(c) \/ \E o \in Orders : ReadAttributions(c, o)
  <2>1. UNCHANGED <<purchase, reconciliation, refund, contended, halfDone>>
    BY <1>2 DEF SearchOrders, Decide, SearchRefunds, Finish, ReadAttributions, books, history
  <2>2. cycle[c].pc # "reconciling"
    BY <1>2 DEF SearchOrders, Decide, SearchRefunds, Finish, ReadAttributions, At
  <2> QED BY <2>1, <2>2 DEF Crediting
<1>3. ASSUME NEW p \in Pairs, Consider(c, p)
      PROVE  /\ UNCHANGED <<purchase, reconciliation, refund, halfDone>> /\ contended \subseteq contended'
             /\ cycle[c].pc # "reconciling"
  BY <1>3, ConsiderRow DEF Consider, books, At
<1>4. CASE RecordPurchase(c)
  BY <1>4, PurchaseWritten, RecordPurchaseRow DEF Crediting
<1>5. CASE Reconcile(c)
  <2>1. ~Fail(c)
    <3>1. reconciliation' = reconciliation /\ cycle' = [cycle EXCEPT ![c] = Idle] => cycle'[c].pc = "idle"
      BY DEF Idle, TypeOK
    <3> QED BY <1>5, <3>1, ReconcileRow, EndsRow DEF Fail
  <2> QED BY <1>5, <2>1, ReconciliationWritten
<1>6. ASSUME NEW d \in Pairs \X Visitors, RecordRefund(c, d)
      PROVE  /\ UNCHANGED <<purchase, reconciliation, contended, halfDone>>
             /\ cycle[c].pc # "reconciling"
  BY <1>6, RefundWritten
<1>7. CASE Fail(c)
  BY <1>7 DEF Fail, books, Crediting, At
<1> QED BY <1>1, <1>2, <1>3, <1>4, <1>5, <1>6, <1>7 DEF CycleStep, Proceed, Crediting

LEMMA AgreesStays ==
  ASSUME NEW p \in Pairs, NEW v \in Anybody, Agrees(p, v),
         purchase[p] # Nobody => purchase'[p] = purchase[p],
         contended \subseteq contended', halfDone \subseteq halfDone'
  PROVE  Agrees(p, v)'
BY DEF Agrees, Clear
-----------------------------------------------------------------------------
LEMMA ContentionStep ==
  ASSUME TypeOK, HasAVisitor, TwoAreContended, NEW c \in Cycles, CycleStep(c)
  PROVE  TwoAreContended'
<1> SUFFICES ASSUME NEW p \in Pairs, NEW a \in Cycles, NEW b \in Cycles,
                    Working(a, p)', Working(b, p)', a # b
             PROVE  p \in contended'
  BY DEF TwoAreContended
<1>1. \A d \in Cycles \ {c} : Working(d, p)' => Working(d, p)
  BY CycleMoves DEF Working
<1>2. \A d \in Cycles \ {c} : Working(d, p) => Busy(p)
  BY DEF Working, Busy
<1>3. Working(c, p)' => Working(c, p) \/ (Busy(p) => p \in contended')
  BY CycleMoves
<1>4. contended \subseteq contended'
  BY BooksStay
<1> QED BY <1>1, <1>2, <1>3, <1>4 DEF TwoAreContended

LEMMA AloneStep ==
  ASSUME TypeOK, HasAVisitor, TwoAreContended, AloneIsFirst, NEW c \in Cycles, CycleStep(c)
  PROVE  AloneIsFirst'
<1> SUFFICES ASSUME NEW p \in Pairs, NEW d \in Cycles, Working(d, p)', p \notin contended'
             PROVE  reconciliation'[p].status # "attributed"
  BY DEF AloneIsFirst
<1>1. p \notin contended
  BY BooksStay
<1>2. reconciliation[p].status # "attributed"
  <2>1. CASE d = c
    BY <1>1, <2>1, CycleMoves DEF AloneIsFirst
  <2>2. CASE d # c
    BY <1>1, <2>2, CycleMoves DEF AloneIsFirst, Working
  <2> QED BY <2>1, <2>2
<1>3. CASE UNCHANGED reconciliation
  BY <1>2, <1>3
<1>4. CASE Reconcile(c)
  <2>1. d # c
    BY <1>4, ReconcileRow DEF Working
  <2>2. Working(d, p)
    BY <2>1, CycleMoves DEF Working
  <2>3. ~Working(c, p)
    BY <1>1, <2>1, <2>2 DEF TwoAreContended
  <2>4. p # cycle[c].pair
    BY <1>4, <2>3, ReconciliationWritten DEF Working
  <2> QED BY <1>2, <1>4, <2>4, ReconciliationWritten
<1> QED BY <1>3, <1>4, BooksStay

LEMMA VisitorStep ==
  ASSUME TypeOK, HasAVisitor, NEW c \in Cycles, CycleStep(c)
  PROVE  HasAVisitor'
BY CycleMoves DEF HasAVisitor

(* What a cycle that is alone with an order finds when it records it.      *)
LEMMA AloneRecords ==
  ASSUME TypeOK, TwoAreContended, AloneIsFirst, PurchaseIsCredited,
         NEW c \in Cycles, RecordPurchase(c), Clear(cycle[c].pair)
  PROVE  purchase[cycle[c].pair] = Nobody
<1>1. cycle[c].pc = "purchase" /\ cycle[c].pair \in Pairs
  BY RecordPurchaseRow
<1>2. Working(c, cycle[c].pair)
  BY <1>1 DEF Working
<1>3. reconciliation[cycle[c].pair].status # "attributed"
  BY <1>1, <1>2 DEF AloneIsFirst, Clear
<1>4. \A d \in Cycles : ~Crediting(d, cycle[c].pair)
  <2> SUFFICES ASSUME NEW d \in Cycles, Crediting(d, cycle[c].pair) PROVE FALSE
    OBVIOUS
  <2>1. Working(d, cycle[c].pair) /\ d # c
    BY <1>1 DEF Working, Crediting
  <2> QED BY <1>1, <1>2, <2>1 DEF TwoAreContended, Clear
<1> QED BY <1>1, <1>3, <1>4 DEF PurchaseIsCredited

LEMMA CreditStep ==
  ASSUME TypeOK, IInv, NEW c \in Cycles, CycleStep(c)
  PROVE  CreditAgrees'
<1> USE DEF IInv
<1>1. /\ \A q \in Pairs : purchase[q] # Nobody => purchase'[q] = purchase[q]
      /\ contended \subseteq contended' /\ halfDone \subseteq halfDone'
  BY BooksStay, PurchaseWritten
<1>2. \A q \in Pairs, v \in Anybody : Agrees(q, v) => Agrees(q, v)'
  BY <1>1, AgreesStays
<1> SUFFICES ASSUME NEW p \in Pairs
             PROVE  /\ reconciliation'[p].status = "attributed" => Agrees(p, reconciliation[p].visitor)'
                    /\ \A d \in Cycles : Crediting(d, p)' => Agrees(p, cycle[d].visitor)'
                    /\ \A d \in Cycles, v \in Visitors :
                         cycle'[d].pc # "idle" /\ <<p, v>> \in cycle'[d].debits => Agrees(p, v)'
                    /\ refund'[p] # Nobody => Agrees(p, refund[p])'
  BY DEF CreditAgrees
<1>3. /\ reconciliation[p].status = "attributed" => reconciliation[p].visitor \in Anybody
      /\ refund[p] \in Anybody
      /\ \A d \in Cycles : cycle[d].pc # "idle" => cycle[d].visitor \in Anybody
  BY Row DEF TypeOK, Unreconciled, Unattributed, Attributed, Anybody, Cycle
<1>4. reconciliation'[p].status = "attributed" => Agrees(p, reconciliation[p].visitor)'
  <2>1. CASE UNCHANGED reconciliation
    BY <1>2, <1>3, <2>1 DEF CreditAgrees
  <2>2. CASE Reconcile(c)
    <3>1. CASE p # cycle[c].pair
      BY <1>2, <1>3, <2>2, <3>1, ReconciliationWritten DEF CreditAgrees
    <3>2. CASE p = cycle[c].pair /\ cycle[c].visitor # Nobody
      <4>1. reconciliation'[p].visitor = cycle[c].visitor /\ cycle[c].pc = "reconciling"
        BY <2>2, <3>2, ReconciliationWritten
      <4>2. Crediting(c, p)
        BY <3>2, <4>1 DEF Crediting
      <4>3. Agrees(p, cycle[c].visitor)
        BY <4>2 DEF CreditAgrees
      <4>4. cycle[c].visitor \in Anybody
        BY <1>3, <4>1
      <4>5. PICK w \in Anybody : w = cycle[c].visitor
        BY <4>4
      <4>6. Agrees(p, w)' /\ reconciliation'[p].visitor = w
        BY <1>2, <4>1, <4>3, <4>5
      <4> QED BY <4>6 DEF Agrees, Clear
    <3>3. CASE p = cycle[c].pair /\ cycle[c].visitor = Nobody
      BY <2>2, <3>3, ReconciliationWritten
    <3> QED BY <3>1, <3>2, <3>3
  <2> QED BY <2>1, <2>2, BooksStay
<1>5. ASSUME NEW d \in Cycles, Crediting(d, p)'
      PROVE  Agrees(p, cycle[d].visitor)'
  <2>1. CASE Crediting(d, p) /\ cycle'[d].visitor = cycle[d].visitor
    <3>1. Agrees(p, cycle[d].visitor) /\ cycle[d].visitor \in Anybody
      BY <1>3, <2>1 DEF CreditAgrees, Crediting
    <3>2. PICK w \in Anybody : w = cycle[d].visitor
      BY <3>1
    <3>3. Agrees(p, w)' /\ cycle'[d].visitor = w
      BY <1>2, <2>1, <3>1, <3>2
    <3> QED BY <3>3 DEF Agrees, Clear
  <2>2. CASE d = c /\ RecordPurchase(c) /\ cycle[c].pair = p /\ cycle[c].visitor # Nobody
             /\ cycle'[c].visitor = cycle[c].visitor
    <3>1. Clear(p)' => Clear(p)
      BY <1>1 DEF Clear
    <3>2. Clear(p) => purchase[p] = Nobody
      BY <2>2, AloneRecords
    <3>3. purchase'[p] = IF purchase[p] = Nobody THEN cycle[c].visitor ELSE purchase[p]
      BY <2>2, PurchaseWritten
    <3>4. cycle'[d].visitor # Nobody /\ purchase'[p] # Nobody /\ (Clear(p)' => purchase'[p] = cycle'[d].visitor)
      BY <2>2, <3>1, <3>2, <3>3
    <3> QED BY <3>4 DEF Agrees, Clear
  <2> QED BY <1>5, <2>1, <2>2, CycleMoves DEF Crediting
<1>6. ASSUME NEW d \in Cycles, NEW v \in Visitors, cycle'[d].pc # "idle", <<p, v>> \in cycle'[d].debits
      PROVE  Agrees(p, v)'
  <2>1. \/ cycle[d].pc # "idle" /\ <<p, v>> \in cycle[d].debits
        \/ reconciliation[p].status = "attributed" /\ reconciliation[p].visitor = v
    BY <1>6, CycleMoves
  <2>2. Agrees(p, v)
    BY <2>1 DEF CreditAgrees
  <2> QED BY <1>2, <2>2 DEF Anybody
<1>7. refund'[p] # Nobody => Agrees(p, refund[p])'
  <2>1. CASE refund'[p] = refund[p]
    <3>1. PICK w \in Anybody : w = refund[p]
      BY <1>3
    <3>2. refund'[p] # Nobody => Agrees(p, w)
      BY <2>1, <3>1 DEF CreditAgrees
    <3>3. refund'[p] # Nobody => Agrees(p, w)'
      BY <1>2, <3>2
    <3> QED BY <2>1, <3>1, <3>3 DEF Agrees, Clear
  <2>2. ASSUME NEW d \in Pairs \X Visitors, RecordRefund(c, d), refund'[p] # refund[p]
        PROVE  Agrees(p, refund[p])'
    <3>1. PICK w \in Visitors : w = d[2]
      OBVIOUS
    <3>2. d[1] = p /\ refund'[p] = w /\ <<p, w>> \in cycle[c].debits /\ cycle[c].pc = "refunds"
      BY <2>2, <3>1, RefundWritten
    <3>3. Agrees(p, w)
      BY <3>2 DEF CreditAgrees
    <3>4. Agrees(p, w)'
      BY <1>2, <3>3 DEF Anybody
    <3> QED BY <3>2, <3>4 DEF Agrees, Clear
  <2> QED BY <2>1, <2>2, BooksStay
<1> QED BY <1>4, <1>5, <1>6, <1>7

LEMMA PurchaseStep ==
  ASSUME TypeOK, IInv, NEW c \in Cycles, CycleStep(c)
  PROVE  PurchaseIsCredited'
<1> USE DEF IInv
<1> SUFFICES ASSUME NEW p \in Pairs, purchase'[p] # Nobody, Clear(p)'
             PROVE  reconciliation'[p].status = "attributed" \/ \E d \in Cycles : Crediting(d, p)'
  BY DEF PurchaseIsCredited
<1>1. Clear(p)
  BY BooksStay DEF Clear
<1>2. CASE purchase[p] = Nobody
  <2>1. RecordPurchase(c) /\ p = cycle[c].pair
    BY <1>2, BooksStay, PurchaseWritten
  <2>2. Crediting(c, p)'
    BY <2>1, RecordPurchaseRow DEF Crediting, HasAVisitor
  <2> QED BY <2>2
<1>3. CASE reconciliation[p].status = "attributed"
  <2>1. ~Working(c, p)
    BY <1>1, <1>3 DEF AloneIsFirst, Clear
  <2>2. Reconcile(c) => p # cycle[c].pair
    BY <2>1, ReconciliationWritten DEF Working
  <2>3. reconciliation'[p] = reconciliation[p]
    BY <2>2, BooksStay, ReconciliationWritten
  <2> QED BY <1>3, <2>3
<1>4. ASSUME NEW d \in Cycles, Crediting(d, p)
      PROVE  reconciliation'[p].status = "attributed" \/ \E b \in Cycles : Crediting(b, p)'
  <2>1. CASE d # c
    BY <1>4, <2>1, CycleMoves DEF Crediting
  <2>2. CASE d = c
    <3>1. CASE Reconcile(c)
      BY <1>4, <2>2, <3>1, ReconciliationWritten DEF Crediting
    <3>2. CASE Fail(c)
      BY <1>4, <2>2, <3>2, BooksStay DEF Clear
    <3> QED BY <1>4, <2>2, <3>1, <3>2, CycleMoves
  <2> QED BY <2>1, <2>2
<1> QED BY <1>1, <1>2, <1>3, <1>4 DEF PurchaseIsCredited

LEMMA OtherSteps ==
  ASSUME [Next]_vars
  PROVE  \/ \E c \in Cycles : CycleStep(c)
         \/ UNCHANGED <<books, cycle, history>>
BY DEF Next, CycleStep, Activate, Pause, Click, Expire, Bind, Place, Pay, Refund, Age, vars, books, history

LEMMA Invariance == Spec => []IInv
<1>1. Init => IInv
  BY DEF Init, IInv, TwoAreContended, AloneIsFirst, HasAVisitor, CreditAgrees, PurchaseIsCredited,
         Working, Crediting, Idle, Unreconciled
<1>2. TypeOK /\ IInv /\ [Next]_vars => IInv'
  <2> SUFFICES ASSUME TypeOK, IInv, [Next]_vars PROVE IInv'
    OBVIOUS
  <2>1. ASSUME NEW c \in Cycles, CycleStep(c)
        PROVE  IInv'
    BY <2>1, ContentionStep, AloneStep, VisitorStep, CreditStep, PurchaseStep DEF IInv
  <2>2. CASE UNCHANGED <<books, cycle, history>>
    <3>1. UNCHANGED <<purchase, refund, reconciliation, cycle, contended, halfDone>>
      BY <2>2 DEF books, history
    <3>2. TwoAreContended' /\ AloneIsFirst' /\ HasAVisitor'
      BY <3>1 DEF IInv, TwoAreContended, AloneIsFirst, HasAVisitor, Working
    <3>3. CreditAgrees' /\ PurchaseIsCredited'
      BY <3>1 DEF IInv, CreditAgrees, PurchaseIsCredited, Crediting, Agrees, Clear
    <3> QED BY <3>2, <3>3 DEF IInv
  <2> QED BY <2>1, <2>2, OtherSteps
<1> QED BY <1>1, <1>2, Typed, PTL DEF Spec
-----------------------------------------------------------------------------
(* Every reachable state has the types of TypeOK.                          *)
THEOREM AttributionTypeOK == Spec => []TypeOK
BY Typed

(* evaluator.py reconcile_refunds: a refund is debited where the purchase  *)
(* was credited, however late links, clicks, cycles and failures come.     *)
THEOREM AttributionRefundFollows == Spec => []RefundFollowsItsPurchase
<1>1. IInv => RefundFollowsItsPurchase
  BY DEF IInv, CreditAgrees, RefundFollowsItsPurchase, Agrees, Clear
<1> QED BY <1>1, Invariance, PTL

(* record_reconciliation replaces the row (INSERT OR REPLACE), but never an *)
(* attribution, while no two cycles consider the order at once.            *)
THEOREM AttributionStaysFinal == Spec => AttributionIsFinal
<1>1. TypeOK /\ IInv /\ [Next]_vars => [StaysSettled]_vars
  <2> SUFFICES ASSUME TypeOK, IInv, [Next]_vars,
                      NEW p \in Pairs \ contended', reconciliation[p].status = "attributed"
               PROVE  reconciliation'[p] = reconciliation[p]
    BY DEF StaysSettled
  <2>1. ASSUME NEW c \in Cycles, CycleStep(c)
        PROVE  reconciliation'[p] = reconciliation[p]
    <3>1. p \notin contended
      BY <2>1, BooksStay
    <3>2. ~Working(c, p)
      BY <3>1 DEF IInv, AloneIsFirst
    <3>3. Reconcile(c) => p # cycle[c].pair
      BY <3>2, ReconciliationWritten DEF Working
    <3> QED BY <2>1, <3>3, BooksStay, ReconciliationWritten
  <2>2. CASE UNCHANGED <<books, cycle, history>>
    BY <2>2 DEF books
  <2> QED BY <2>1, <2>2, OtherSteps
<1> QED BY <1>1, Typed, Invariance, PTL DEF Spec, AttributionIsFinal
=============================================================================
