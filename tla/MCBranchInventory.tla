--------------------------- MODULE MCBranchInventory ---------------------------
(***************************************************************************)
(* Two request threads, two branches, two products: enough for inverse     *)
(* transfers, a purchase or a manual level racing a transfer of the same   *)
(* product in another branch, and requests over both products that meet in *)
(* opposite lock orders.                                                   *)
(***************************************************************************)
EXTENDS BranchInventory, TLC

CONSTANTS centro, norte, w1, w2, nobody

MCBranches == {centro, norte}
MCProducts == 1..2
MCWorkers  == {w1, w2}
MCOpening  == [b \in MCBranches |-> [p \in MCProducts |-> IF b = centro THEN 1 ELSE 0]]
MCQuantities == 0..1

WorkerSymmetry == Permutations(MCWorkers)
================================================================================
