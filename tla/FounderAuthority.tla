-------------------------- MODULE FounderAuthority --------------------------
(***************************************************************************)
(* What the Founder authorization ledger promises, with no processes, no   *)
(* lock, no files and no crashes: every approval has one lifecycle, and    *)
(* each operation moves it in a single atomic step.                        *)
(*                                                                         *)
(*      absent --Ask--> asked --Allow--> live --Spend--> spent             *)
(*                         \               |                               *)
(*                          `--Withdraw--> void                            *)
(*                                                                         *)
(* AuthorizationLedger (many processes over one directory of JSON records) *)
(* implements this specification; MissionOperator is built on it.          *)
(***************************************************************************)
CONSTANTS
  Approvals,   \* approval ids the ledger may mint
  Payloads,    \* fingerprints of an exact (capability, instruction, content, destination)
  NoPayload    \* the fingerprint of an approval nobody asked for yet

VARIABLES
  authority,   \* approval -> its place in the lifecycle
  bound        \* approval -> the fingerprint it was asked for

vars == <<authority, bound>>

Phases == {"absent", "asked", "live", "spent", "void"}

TypeOK ==
  /\ authority \in [Approvals -> Phases]
  /\ bound \in [Approvals -> Payloads \cup {NoPayload}]

Init ==
  /\ authority = [a \in Approvals |-> "absent"]
  /\ bound = [a \in Approvals |-> NoPayload]

(* An approval moves between two places of its lifecycle; its payload never moves. *)
Move(a, from, to) ==
  /\ authority[a] \in from
  /\ authority' = [authority EXCEPT ![a] = to]
  /\ UNCHANGED bound

Ask(a, payload) ==
  /\ authority[a] = "absent"
  /\ authority' = [authority EXCEPT ![a] = "asked"]
  /\ bound' = [bound EXCEPT ![a] = payload]

Allow(a) == Move(a, {"asked"}, "live")

(* Redemption: only a live approval, and only for the payload it was asked for. *)
Spend(a, payload) ==
  /\ bound[a] = payload
  /\ Move(a, {"live"}, "spent")

(* Denial or expiry. *)
Withdraw(a) == Move(a, {"asked", "live"}, "void")

Next ==
  \E a \in Approvals :
    \/ \E payload \in Payloads : Ask(a, payload) \/ Spend(a, payload)
    \/ Allow(a)
    \/ Withdraw(a)

Spec == Init /\ [][Next]_vars
=============================================================================
