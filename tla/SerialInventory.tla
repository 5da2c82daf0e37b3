---------------------------- MODULE SerialInventory ----------------------------
(***************************************************************************)
(* What branch_inventory.py promises its callers: the stock of the company *)
(* changes as if the requests ran one at a time, each one whole, on the    *)
(* balances the previous one left.                                         *)
(***************************************************************************)
EXTENDS StockRequests

CONSTANT Requests   \* the requests callers may send, a subset of Job

VARIABLES stock, total, moved

vars == <<stock, total, moved>>

Init ==
  /\ stock = OpeningStock
  /\ total = [p \in Products |-> CompanyTotal([b \in Branches |-> OpeningStock[b][p]])]
  /\ moved = [b \in Branches |-> None]

\* Effect of request j on the row of product p in branch b.
Effect(j, b, p) == IF p \in j.products THEN Delta(j, b, p, stock[b][p]) ELSE 0

Serve(j) ==
  /\ \A b \in Branches, p \in Products : stock[b][p] + Effect(j, b, p) >= 0
  /\ stock' = [b \in Branches |-> [p \in Products |-> stock[b][p] + Effect(j, b, p)]]
  /\ moved' = [b \in Branches |-> [p \in Products |-> moved[b][p] + Effect(j, b, p)]]
  /\ total' = [p \in Products |->
                IF Consolidates(j.kind) /\ p \in j.products
                THEN CompanyTotal([b \in Branches |-> stock[b][p] + Effect(j, b, p)])
                ELSE total[p]]

Next == \E j \in Requests : Serve(j)

Spec == Init /\ [][Next]_vars
================================================================================
