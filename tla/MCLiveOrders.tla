---------------------------- MODULE MCLiveOrders ----------------------------
(***************************************************************************)
(* Identities and coordinators are interchangeable where no liveness is     *)
(* checked.                                                                 *)
(***************************************************************************)
EXTENDS LiveOrders, TLC

Symmetry == Permutations(Orders) \cup Permutations(Coordinators)
=============================================================================
