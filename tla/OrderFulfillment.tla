--------------------------- MODULE OrderFulfillment ---------------------------
(***************************************************************************)
(* apps/wix-agent: paid orders of the shop are ordered at the supplier and *)
(* marked as fulfilled at the shop when the supplier ships them.           *)
(*                                                                         *)
(* POST /fulfill starts a run in the background; nothing keeps a second    *)
(* one away.  A run lists the orders, reserves each in the database before *)
(* it orders it, and then asks for the tracking of what was ordered.  The  *)
(* shop and the supplier do what they are asked or not, and either way the *)
(* answer may be lost.  A restart of the agent ends the runs.              *)
(*                                                                         *)
(* Runs in record-only mode, which change nothing, are left out, and so    *)
(* are addresses and quantities: an order is mapped to the supplier's      *)
(* products or it is not.                                                  *)
(***************************************************************************)
EXTENDS Naturals, FiniteSets

CONSTANTS
  Orders,
  Runs,        \* background tasks
  MaxFailures  \* bound on failed calls and restarts

VARIABLES
  order,     \* the order at the shop (external)
  supplied,  \* how often the supplier was made to deliver it (external)
  shipped,   \* orders whose tracking the supplier has (external)
  fulfilled, \* fulfillments sent to the shop (external)
  row,       \* the status in the table fulfillments
  run,       \* run -> what it is doing
  doubtful,  \* orders two runs followed at once, or an answer was lost of (history)
  failures

vars == <<order, supplied, shipped, fulfilled, row, run, doubtful, failures>>
outside == <<order, supplied, shipped, fulfilled>>

Statuses == {"none", "submitting", "submitted", "submit_failed", "fulfilled"}
Idle == [pc |-> "idle"]
Run ==
  {Idle} \cup [pc : {"orders", "rows"}, todo : SUBSET Orders]
         \cup [pc : {"submit", "record", "failed", "fulfill", "update"},
               todo : SUBSET Orders, order : Orders]

TypeOK ==
  /\ order \in [Orders -> {"none", "unpaid", "paid", "canceled"}]
  /\ supplied \in [Orders -> Nat] /\ fulfilled \in [Orders -> Nat]
  /\ shipped \subseteq Orders
  /\ row \in [Orders -> Statuses]
  /\ run \in [Runs -> Run]
  /\ doubtful \subseteq Orders
  /\ failures \in 0..MaxFailures

Init ==
  /\ order = [o \in Orders |-> "none"]
  /\ supplied = [o \in Orders |-> 0] /\ fulfilled = [o \in Orders |-> 0]
  /\ shipped = {}
  /\ row = [o \in Orders |-> "none"]
  /\ run = [r \in Runs |-> Idle]
  /\ doubtful = {} /\ failures = 0
-----------------------------------------------------------------------------
(* The shop and the supplier.                                              *)
Change(o, from, to) ==
  /\ order[o] = from
  /\ order' = [order EXCEPT ![o] = to]
  /\ UNCHANGED <<supplied, shipped, fulfilled, row, run, doubtful, failures>>

Ship(o) ==
  /\ supplied[o] > 0 /\ o \notin shipped
  /\ shipped' = shipped \cup {o}
  /\ UNCHANGED <<order, supplied, fulfilled, row, run, doubtful, failures>>
-----------------------------------------------------------------------------
Becomes(r, next) == run' = [run EXCEPT ![r] = next]
At(r, pc) == run[r].pc = pc
Records(o, status) == row' = [row EXCEPT ![o] = status]
Fails == failures < MaxFailures /\ failures' = failures + 1

(* A call may go through and be answered, fail, or go through unanswered.  *)
Call(o, count, answered, unanswered) ==
  \/ /\ count' = [count EXCEPT ![o] = @ + 1]
     /\ answered
     /\ UNCHANGED <<doubtful, failures>>
  \/ \E lost \in {0, 1} :
       /\ Fails
       /\ count' = [count EXCEPT ![o] = @ + lost]
       /\ doubtful' = IF lost = 1 THEN doubtful \cup {o} ELSE doubtful
       /\ unanswered

(* run_fulfillment_cycle lists the orders not fulfilled at the shop, and    *)
(* goes on with those listed as approved and paid, whatever becomes of     *)
(* them.  If anything raises outside the try blocks, the run ends.         *)
List(r) ==
  /\ run[r] = Idle
  /\ Becomes(r, [pc |-> "orders", todo |-> {o \in Orders : order[o] = "paid" /\ fulfilled[o] = 0}])
  /\ UNCHANGED <<outside, row, doubtful, failures>>

(* Mutant: a failed submission is tried again.                             *)
NotReserved(o) == row[o] \in {"none", "submit_failed"}

(* _reserve_order: INSERT OR IGNORE.                                       *)
Reservable(o) == row[o] = "none"

(* The next order, which need not be mapped to the supplier's products.    *)
Reserve(r, o, mapped) ==
  /\ At(r, "orders") /\ o \in run[r].todo
  /\ \/ /\ mapped /\ Reservable(o)
        /\ Records(o, "submitting")
        /\ Becomes(r, [pc |-> "submit", todo |-> run[r].todo \ {o}, order |-> o])
     \/ /\ ~mapped \/ ~Reservable(o)
        /\ Becomes(r, [run[r] EXCEPT !.todo = @ \ {o}])
        /\ UNCHANGED row
  /\ UNCHANGED <<outside, doubtful, failures>>

(* zendrop.submit_order.                                                   *)
Submit(r) ==
  /\ At(r, "submit")
  /\ Call(run[r].order, supplied,
          Becomes(r, [run[r] EXCEPT !.pc = "record"]), Becomes(r, [run[r] EXCEPT !.pc = "failed"]))
  /\ UNCHANGED <<order, shipped, fulfilled, row>>

(* _record_submission; if the database refuses, the order is taken for one *)
(* that could not be submitted.                                            *)
Record(r) ==
  /\ At(r, "record")
  /\ \/ /\ Records(run[r].order, "submitted")
        /\ Becomes(r, [pc |-> "orders", todo |-> run[r].todo])
        /\ UNCHANGED failures
     \/ /\ Fails
        /\ Becomes(r, [run[r] EXCEPT !.pc = "failed"])
        /\ UNCHANGED row
  /\ UNCHANGED <<outside, doubtful>>

(* _record_submission_failure; if that raises as well, the run ends.       *)
RecordFailure(r) ==
  /\ At(r, "failed")
  /\ \/ /\ Records(run[r].order, "submit_failed")
        /\ Becomes(r, [pc |-> "orders", todo |-> run[r].todo])
        /\ UNCHANGED failures
     \/ /\ Fails
        /\ Becomes(r, Idle)
        /\ UNCHANGED row
  /\ UNCHANGED <<outside, doubtful>>

Pending == {o \in Orders : row[o] = "submitted"}

Follows(r, o) ==
  \/ At(r, "rows") /\ o \in run[r].todo
  \/ At(r, "fulfill") /\ (o = run[r].order \/ o \in run[r].todo)
  \/ At(r, "update") /\ (o = run[r].order \/ o \in run[r].todo)

(* check_pending_fulfillments reads the rows once.                         *)
Check(r) ==
  /\ At(r, "orders") /\ run[r].todo = {}
  /\ Becomes(r, [pc |-> "rows", todo |-> Pending])
  /\ doubtful' = doubtful \cup {o \in Pending : \E other \in Runs \ {r} : Follows(other, o)}
  /\ UNCHANGED <<outside, row, failures>>

IsTracked(o, answered) == answered /\ o \in shipped

(* The supplier is asked for the tracking number; it may not answer.       *)
Track(r, o, answered) ==
  /\ At(r, "rows") /\ o \in run[r].todo
  /\ IF IsTracked(o, answered)
     THEN Becomes(r, [pc |-> "fulfill", todo |-> run[r].todo \ {o}, order |-> o])
     ELSE Becomes(r, [run[r] EXCEPT !.todo = @ \ {o}])
  /\ UNCHANGED <<outside, row, doubtful, failures>>

(* wix.fulfill_order; when it raises the row stays as it is.               *)
Fulfill(r) ==
  /\ At(r, "fulfill")
  /\ Call(run[r].order, fulfilled,
          Becomes(r, [run[r] EXCEPT !.pc = "update"]),
          Becomes(r, [pc |-> "rows", todo |-> run[r].todo]))
  /\ UNCHANGED <<order, supplied, shipped, row>>

(* The order is marked as fulfilled, unless the database refuses.          *)
Update(r) ==
  /\ At(r, "update")
  /\ Becomes(r, [pc |-> "rows", todo |-> run[r].todo])
  /\ \/ /\ Records(run[r].order, "fulfilled")
        /\ UNCHANGED <<doubtful, failures>>
     \/ /\ Fails
        /\ doubtful' = doubtful \cup {run[r].order}
        /\ UNCHANGED row
  /\ UNCHANGED outside

End(r) ==
  /\ At(r, "rows") /\ run[r].todo = {}
  /\ Becomes(r, Idle)
  /\ UNCHANGED <<outside, row, doubtful, failures>>

(* The agent restarts; what a run sent and did not record is in doubt.     *)
Restart ==
  /\ Fails /\ \E r \in Runs : run[r] # Idle
  /\ run' = [r \in Runs |-> Idle]
  /\ doubtful' = doubtful \cup {o \in Orders : \E r \in Runs : At(r, "update") /\ run[r].order = o}
  /\ UNCHANGED <<outside, row>>

Next ==
  \/ \E o \in Orders : \/ Change(o, "none", "unpaid") \/ Change(o, "unpaid", "paid")
                       \/ Change(o, "paid", "canceled") \/ Ship(o)
  \/ \E r \in Runs : \/ List(r) \/ Submit(r) \/ Record(r) \/ RecordFailure(r)
                     \/ Check(r) \/ Fulfill(r) \/ Update(r) \/ End(r)
  \/ \E r \in Runs, o \in Orders, yes \in BOOLEAN : Reserve(r, o, yes) \/ Track(r, o, yes)
  \/ Restart

Spec == Init /\ [][Next]_vars
-----------------------------------------------------------------------------
(* The table claims no more than what happened: an order it calls          *)
(* submitted is one at the supplier, and one it calls fulfilled was        *)
(* shipped and the shop told so, whichever of several runs wrote it.       *)
TableIsTrue(o) ==
  /\ row[o] \in {"submitted", "fulfilled"} => supplied[o] > 0
  /\ row[o] = "fulfilled" => o \in shipped /\ fulfilled[o] > 0

(* No order is delivered twice: whatever is lost, overlaps or restarts, the *)
(* supplier is asked for an order once ("so retries cannot duplicate it"), *)
(* and the shop is told of its delivery once unless two runs followed the  *)
(* order or an answer or the record of it was lost; and the table says no  *)
(* more than that.                                                         *)
OrdersAreDeliveredOnce ==
  \A o \in Orders :
    /\ supplied[o] =< 1 /\ (fulfilled[o] =< 1 \/ o \in doubtful)
    /\ TableIsTrue(o)
=============================================================================
