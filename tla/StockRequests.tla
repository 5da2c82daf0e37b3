----------------------------- MODULE StockRequests -----------------------------
(***************************************************************************)
(* The requests that change branch stock, and what each of them does to    *)
(* one branch_stock row (stockarmobile/branch_inventory.py and callers).   *)
(*                                                                         *)
(* Quantities are whole units: the code works in thousandths, the model in *)
(* multiples of one unit, and nothing here depends on the scale.           *)
(***************************************************************************)
EXTENDS Integers, FiniteSets, Functions

CONSTANTS
  Branches,      \* active branches of the company
  Products,      \* product ids; ascending id is the lock order of the code
  OpeningStock,  \* branch_stock before the first modelled request
  Quantities     \* units one line of a request may ask for

ASSUME BranchesAssumption == IsFiniteSet(Branches) /\ Branches # {}
ASSUME ProductsAssumption == IsFiniteSet(Products) /\ Products # {} /\ Products \subseteq Nat
ASSUME OpeningAssumption  == OpeningStock \in [Branches -> [Products -> Nat]]
ASSUME QuantityAssumption == Quantities \subseteq Nat

--------------------------------------------------------------------------------
None == [p \in Products |-> 0]

AnyBranch == CHOOSE b \in Branches : TRUE

Kinds == {"idle", "transfer", "purchase", "set", "checkout", "edit", "annul"}

\* A request takes units out of `branch` and puts units into `target`; a "set"
\* request gives the level the rows of `target` must end at.  `products` are the
\* products it touches.
Job == [kind : Kinds, branch : Branches, target : Branches,
        take : [Products -> Nat], give : [Products -> Nat],
        products : SUBSET Products]

Idle == [kind |-> "idle", branch |-> AnyBranch, target |-> AnyBranch,
         take |-> None, give |-> None, products |-> {}]

Lines == {f \in [Products -> Quantities] : \E p \in Products : f[p] > 0}

\* Products a request with these quantities has to touch.
Touched(take, give) == {p \in Products : take[p] > 0 \/ give[p] > 0}

\* Quantities moved between two branches, received in one, or set in one.
Transfer(source, target, units) ==
  [kind |-> "transfer", branch |-> source, target |-> target,
   take |-> units, give |-> units, products |-> Touched(units, units)]

Purchase(target, units) ==
  [kind |-> "purchase", branch |-> target, target |-> target,
   take |-> None, give |-> units, products |-> Touched(None, units)]

SetLevel(target, level, products) ==
  [kind |-> "set", branch |-> target, target |-> target,
   take |-> None, give |-> [p \in Products |-> IF p \in products THEN level[p] ELSE 0],
   products |-> products]

\* quantity_delta of the movement request j writes for a row that now holds
\* `current` units.
Delta(j, b, p, current) ==
  IF j.kind = "set"
  THEN IF b = j.target THEN j.give[p] - current ELSE 0
  ELSE   (IF b = j.target THEN j.give[p] ELSE 0)
       - (IF b = j.branch THEN j.take[p] ELSE 0)

\* reconcile_company_stock_total: SUM(branch_stock.stock) of one product.
CompanyTotal(levels) == SumFunction(levels)

\* update_company_total, or an explicit reconcile_company_stock_total: every
\* request but a transfer writes Product.stock.
SetForgotten(kind) == kind \notin {"transfer", "set"}
Consolidates(kind) == kind # "transfer"

\* Carts and transfers lock products in ascending id order (ORDER BY id, sorted
\* list); the others in the order of their lines.
Ordered(kind) == kind \in {"transfer", "checkout"}
================================================================================
