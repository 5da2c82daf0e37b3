---------------------------- MODULE MCSaleLifecycle ----------------------------
(***************************************************************************)
(* Two request threads on the sales of one branch with two products.       *)
(*                                                                         *)
(* While there is one sale, two changes of it (edit, annul) overlap in     *)
(* every order of their ledger step and their lock requests, with one or   *)
(* two payment legs.  With two sales, checkouts race for the last unit of  *)
(* a product and for the same checkout token, and a change of one sale     *)
(* meets a checkout of the other.                                          *)
(***************************************************************************)
EXTENDS SaleLifecycle, TLC

CONSTANTS centro, w1, w2, nobody, s1, s2, t1, notoken

MCBranches   == {centro}
MCProducts   == 1..2
MCWorkers    == {w1, w2}
MCQuantities == 0..1
MCTokens     == {t1}

TwoAndOne == [b \in MCBranches |-> [p \in MCProducts |-> IF p = 1 THEN 2 ELSE 1]]
OneOfEach == [b \in MCBranches |-> [p \in MCProducts |-> 1]]

OneSale  == {s1}
TwoSales == {s1, s2}

CashOnly   == {{"cash"}}
CashOrCard == {{"cash"}, {"digital"}, {"cash", "digital"}}

\* A sale that is alone is changed twice and may be paid in two ways; two sales, or
\* checkouts with a token, stay in cash and at their first revision.
Alone == /\ sale[s2] = NoSale
         /\ sale[s1].token = notoken /\ \A w \in Workers : form[w].token = notoken
Brief == /\ \A s \in Sales : sale[s].rev <= 1 /\ sale[s].pay \in {{}, {"cash"}}
         /\ \A w \in Workers : form[w].pay \in {{}, {"cash"}}
InScope == Alone \/ Brief

WorkerSymmetry == Permutations(MCWorkers)
================================================================================
