----------------------------- MODULE StoreWebhook -----------------------------
(***************************************************************************)
(* ascendant_store/app.py: Stripe tells the store of a completed checkout, *)
(* again and again until it is answered.  The handler enters the event and *)
(* the order in the database, mails the product and saves the lead, each   *)
(* by itself: what fails goes to the dead-letter log or to the console,    *)
(* and the answer is the same.  The handler awaits nothing after the       *)
(* request's body, so requests follow one another.                         *)
(*                                                                         *)
(* Requests with a wrong signature and other events are left out.          *)
(***************************************************************************)
EXTENDS Naturals

CONSTANTS
  Sessions,       \* completed checkouts
  Nobody,         \* no checkout
  MaxDeliveries,  \* bound on the deliveries of an event
  MaxFailures     \* bound on failed steps and restarts

VARIABLES
  stripe,     \* what Stripe knows of the checkout (external)
  checkout,   \* what it says of it: the buyer's email, a product (external)
  delivered,  \* deliveries of its event (external)
  events,     \* stripe_events, stripe_event_id unique
  orders,     \* rows of orders for the session
  letters,    \* DEAD_LETTER_LOG: sessions with a letter
  mails,      \* mails with the product (external)
  leads,      \* entries in LEADS_FILE for the session
  pc, session,\* the handler
  unsaved,    \* sessions whose letter, mail or lead failed (history)
  failures

vars == <<stripe, checkout, delivered, events, orders, letters, mails, leads, pc, session, unsaved,
          failures>>
outside == <<stripe, checkout, delivered>>
Details == {"email", "product"}

TypeOK ==
  /\ stripe \in [Sessions -> {"open", "completed", "acknowledged"}]
  /\ checkout \in [Sessions -> SUBSET Details]
  /\ delivered \in [Sessions -> 0..MaxDeliveries]
  /\ events \subseteq Sessions /\ letters \subseteq Sessions /\ unsaved \subseteq Sessions
  /\ orders \in [Sessions -> Nat] /\ mails \in [Sessions -> Nat] /\ leads \in [Sessions -> Nat]
  /\ pc \in {"idle", "event", "order", "mail", "lead", "answer"}
  /\ session \in Sessions \cup {Nobody}
  /\ failures \in 0..MaxFailures

Init ==
  /\ stripe = [s \in Sessions |-> "open"] /\ delivered = [s \in Sessions |-> 0]
  /\ checkout = [s \in Sessions |-> {}]
  /\ events = {} /\ letters = {} /\ unsaved = {}
  /\ orders = [s \in Sessions |-> 0]
  /\ mails = [s \in Sessions |-> 0] /\ leads = [s \in Sessions |-> 0]
  /\ pc = "idle" /\ session = Nobody /\ failures = 0

Fails == failures < MaxFailures /\ failures' = failures + 1
Goes(from, to) == pc = from /\ pc' = to /\ UNCHANGED session
Once(count) == [count EXCEPT ![session] = @ + 1]

(* _dead_letter, which cannot raise: if the log cannot be written either,   *)
(* the letter is printed.                                                  *)
DeadLetter ==
  \/ letters' = letters \cup {session} /\ UNCHANGED unsaved
  \/ unsaved' = unsaved \cup {session} /\ UNCHANGED letters
-----------------------------------------------------------------------------
(* A checkout may come without an email, and name no product: none in its   *)
(* metadata, and none whose price is its amount.                           *)
Complete(s) ==
  /\ stripe[s] = "open"
  /\ stripe' = [stripe EXCEPT ![s] = "completed"]
  /\ \E details \in SUBSET Details : checkout' = [checkout EXCEPT ![s] = details]
  /\ UNCHANGED <<delivered, events, orders, letters, mails, leads, pc, session, unsaved, failures>>

(* Stripe delivers what it has no answer for; an answer may be lost, so it  *)
(* may do so again.                                                        *)
Deliver(s) ==
  /\ stripe[s] # "open" /\ delivered[s] < MaxDeliveries
  /\ pc = "idle" /\ pc' = "event" /\ session' = s
  /\ delivered' = [delivered EXCEPT ![s] = @ + 1]
  /\ UNCHANGED <<stripe, checkout, events, orders, letters, mails, leads, unsaved, failures>>

(* What raises in a database step may do so after its commit.              *)
RecordEvent ==
  /\ Goes("event", "order")
  /\ \/ events' = events \cup {session} /\ UNCHANGED <<letters, unsaved, failures>>
     \/ Fails /\ DeadLetter /\ events' \in {events, events \cup {session}}
  /\ UNCHANGED <<outside, orders, mails, leads>>

(* Mutant: a row is inserted for every delivery.                           *)
InsertedAlways(count) == Once(count)

(* ON CONFLICT (stripe_session_id) DO NOTHING.                             *)
Inserted(count) == IF count[session] = 0 THEN Once(count) ELSE count

RecordOrder ==
  /\ Goes("order", "mail")
  /\ \/ orders' = Inserted(orders) /\ UNCHANGED <<letters, unsaved, failures>>
     \/ Fails /\ DeadLetter /\ orders' \in {orders, Inserted(orders)}
  /\ UNCHANGED <<outside, events, mails, leads>>

HasEmail(s) == "email" \in checkout[s]
IsMailable(s) == checkout[s] = Details

(* _send_fulfillment_email prints what goes wrong, or that it has no        *)
(* credentials, and then the mail may have gone or not.                    *)
Mail ==
  /\ Goes("mail", "lead")
  /\ \/ ~IsMailable(session) /\ UNCHANGED <<mails, unsaved, failures>>
     \/ IsMailable(session) /\ mails' = Once(mails) /\ UNCHANGED <<unsaved, failures>>
     \/ /\ IsMailable(session) /\ Fails
        /\ \/ mails' = Once(mails) /\ UNCHANGED unsaved
           \/ unsaved' = unsaved \cup {session} /\ UNCHANGED mails
  /\ UNCHANGED <<outside, events, orders, letters, leads>>

(* save_lead, whose answer is not looked at.                               *)
SaveLead ==
  /\ Goes("lead", "answer")
  /\ \/ ~HasEmail(session) /\ UNCHANGED <<leads, unsaved, failures>>
     \/ HasEmail(session) /\ leads' = Once(leads) /\ UNCHANGED <<unsaved, failures>>
     \/ HasEmail(session) /\ Fails /\ unsaved' = unsaved \cup {session} /\ UNCHANGED leads
  /\ UNCHANGED <<outside, events, orders, letters, mails>>

Answer ==
  /\ pc = "answer" /\ pc' = "idle" /\ session' = Nobody
  /\ \E heard \in BOOLEAN :
       stripe' = [stripe EXCEPT ![session] = IF heard THEN "acknowledged" ELSE @]
  /\ UNCHANGED <<checkout, delivered, events, orders, letters, mails, leads, unsaved, failures>>

(* The store restarts, or the handler raises; the request is not answered. *)
Restart ==
  /\ pc # "idle" /\ Fails
  /\ pc' = "idle" /\ session' = Nobody
  /\ UNCHANGED <<outside, events, orders, letters, mails, leads, unsaved>>

Ended ==
  /\ \A s \in Sessions : delivered[s] = MaxDeliveries
  /\ pc = "idle" /\ UNCHANGED vars

Next ==
  \/ \E s \in Sessions : Complete(s) \/ Deliver(s)
  \/ RecordEvent \/ RecordOrder \/ Mail \/ SaveLead \/ Answer \/ Restart \/ Ended

Spec == Init /\ [][Next]_vars
-----------------------------------------------------------------------------
(* Whatever failed or was delivered twice, a checkout Stripe has an answer  *)
(* for is on record - one order, or a letter -, its product was mailed if  *)
(* it names one and its buyer's email, and the lead saved if it has the    *)
(* email, unless that is what failed; and it is mailed no oftener than     *)
(* Stripe told the store.                                                  *)
PaidIsAccountedFor ==
  \A s \in Sessions :
    /\ orders[s] =< 1 /\ mails[s] =< delivered[s]
    /\ stripe[s] = "acknowledged" /\ s \notin unsaved =>
         /\ orders[s] = 1 \/ s \in letters
         /\ IsMailable(s) => mails[s] > 0
         /\ HasEmail(s) => leads[s] > 0
=============================================================================
