------------------------------- MODULE MCTimers -------------------------------
(***************************************************************************)
(* The two services that a timer drives, with its fairness: what they may  *)
(* never do, and what they must do in the end.  They share no state, so a  *)
(* behaviour is one of `service`, chosen at the start, and the other one   *)
(* stands still.  The email drip is this module's own Init and Next.       *)
(***************************************************************************)
EXTENDS EmailDrip

CONSTANTS
  Timer,       \* the cycle a timer starts; there is no other
  Experiments, Visitors, Orders, LinkTypes, Tokens, Nobody, NoToken

VARIABLES
  service,
  active, clicked, token, link, order, page, candidates, purchase, refund, reconciliation, cycle,
  contended, halfDone, creditFailures

Credit == INSTANCE RevenueAttribution WITH
  Cycles <- {Timer}, Scheduled <- Timer, failures <- creditFailures

creditVars == <<active, clicked, token, link, order, page, candidates, purchase, refund,
  reconciliation, cycle, contended, halfDone, creditFailures>>
-----------------------------------------------------------------------------
TimersInit ==
  /\ Init /\ Credit!Init
  /\ service \in {"email drip", "attribution"} /\ (live \/ service = "email drip")

TimersNext ==
  /\ UNCHANGED service
  /\ \/ service = "email drip" /\ Next /\ UNCHANGED creditVars
     \/ service = "attribution" /\ Credit!Next /\ UNCHANGED vars

(* The fairness of EmailDrip and RevenueAttribution: their timers run.      *)
TimersSpec ==
  /\ TimersInit /\ [][TimersNext]_<<service, vars, creditVars>>
  /\ WF_vars(service = "email drip" /\ DripThread)
  /\ \A r \in Requests : WF_vars(service = "email drip" /\ SaveLead(r))
  /\ WF_creditVars(service = "attribution" /\ (Credit!Start(Timer) \/ Credit!Proceed(Timer)))
-----------------------------------------------------------------------------
(* RevenueAttribution states the two, and the code behaviour they are       *)
(* about, in its own words.                                                *)
LinkedOrderIsAttributed ==
  \A p \in Credit!Pairs : []<>~(service = "attribution" /\ Credit!IsToBeAttributed(p))

RefundIsDebited ==
  \A p \in Credit!Pairs : []<>~(service = "attribution" /\ Credit!IsToBeDebited(p))
=============================================================================
