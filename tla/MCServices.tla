------------------------------ MODULE MCServices ------------------------------
(***************************************************************************)
(* The services for TLC.  Actors are interchangeable, and so are items: no *)
(* service names one of them or chooses among them.                        *)
(***************************************************************************)
EXTENDS Services, TLC

Interchangeable == Permutations(Actors) \cup Permutations(Items)
=============================================================================
