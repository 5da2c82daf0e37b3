---------------------------- MODULE BranchInventory ----------------------------
(***************************************************************************)
(* Branch stock of one company (stockarmobile/branch_inventory.py).        *)
(*                                                                         *)
(* Every request runs in one database transaction: it takes the row lock   *)
(* of each product it touches (SELECT ... FOR UPDATE on products), reads   *)
(* the branch_stock rows under that lock, stages the new row values        *)
(* together with one branch_stock_movements row per change, and makes all  *)
(* of it visible at COMMIT.  The lock of a branch_stock row is only ever   *)
(* asked for by the holder of its product's lock, so it never waits and is *)
(* not a variable of its own.                                              *)
(***************************************************************************)
EXTENDS StockRequests

CONSTANTS
  Workers,       \* request threads, each with a transaction of its own
  Nobody,        \* no worker holds the product row lock
  MaxStock       \* bound of exploration: no row grows past it

ASSUME NobodyAssumption == Nobody \notin Workers
ASSUME BoundAssumption  == MaxStock \in Nat

VARIABLES
  stock,   \* BranchStock.stock, committed
  total,   \* Product.stock, committed: the consolidated figure of the company
  moved,   \* sum of the committed BranchStockMovement.quantity_delta
  holder,  \* who holds the FOR UPDATE lock of each product row
  job,     \* the request each worker is serving
  todo,    \* products whose lock the request still has to take
  rows,    \* staged branch_stock value and movement delta, not yet committed
  agg      \* staged Product.stock, not yet committed

stockVars == <<stock, total, moved, holder, job, todo, rows, agg>>

--------------------------------------------------------------------------------
NoRows == [b \in Branches |-> [p \in Products |-> [delta |-> 0, after |-> 0]]]

Init ==
  /\ stock  = OpeningStock
  /\ total  = [p \in Products |-> CompanyTotal([b \in Branches |-> OpeningStock[b][p]])]
  /\ moved  = [b \in Branches |-> None]
  /\ holder = [p \in Products |-> Nobody]
  /\ job    = [w \in Workers |-> Idle]
  /\ todo   = [w \in Workers |-> {}]
  /\ rows   = [w \in Workers |-> NoRows]
  /\ agg    = [w \in Workers |-> None]

\* A request starts its transaction; nothing is locked yet.
Begin(w, j) ==
  /\ job[w].kind = "idle"
  /\ job'  = [job  EXCEPT ![w] = j]
  /\ todo' = [todo EXCEPT ![w] = j.products]
  /\ UNCHANGED <<stock, total, moved, holder, rows, agg>>

\* transfer_branch_stock_batch: several products from one branch to another.
BeginTransfer(w) ==
  \E source, target \in Branches, units \in Lines :
    source # target /\ Begin(w, Transfer(source, target, units))

\* _apply_product_purchase_totals: goods received in one branch.
BeginPurchase(w) ==
  \E target \in Branches, units \in Lines : Begin(w, Purchase(target, units))

\* set_branch_stock_and_reconcile: the product form and the import write an
\* absolute level, whatever was sold since the figure was shown.
BeginSet(w) ==
  \E target \in Branches, level \in [Products -> Quantities],
     products \in (SUBSET Products) \ {{}} :
       Begin(w, SetLevel(target, level, products))

\* Balance of the row of p in branch b once request w is applied to it.
After(w, b, p) == stock[b][p] + Delta(job[w], b, p, stock[b][p])

\* The product row is locked before its branch rows are read.
LockIgnored(p) == TRUE
LockIsFree(p)  == holder[p] = Nobody

\* Sorted requests go through their products in ascending id.
AnyLockOrder(w, p) == TRUE
InLockOrder(w, p)  == Ordered(job[w].kind) => \A q \in todo[w] : p <= q

\* "No hay stock suficiente": checked under the lock.
StockUnchecked(w, p) == TRUE
EnoughStock(w, p)    == \A b \in Branches : After(w, b, p) >= 0

\* One product of the request: lock its row, read its branch rows under the
\* lock, refuse a negative balance, stage rows, movements and company total.
AcquireProduct(w, p) ==
  /\ p \in todo[w] /\ InLockOrder(w, p)
  /\ LockIsFree(p)
  /\ EnoughStock(w, p)
  /\ \A b \in Branches : After(w, b, p) <= MaxStock
  /\ holder' = [holder EXCEPT ![p] = w]
  /\ todo'   = [todo EXCEPT ![w] = @ \ {p}]
  /\ rows'   = [rows EXCEPT ![w] =
                 [b \in Branches |->
                   [@[b] EXCEPT ![p] = [delta |-> Delta(job[w], b, p, stock[b][p]),
                                        after |-> After(w, b, p)]]]]
  /\ agg'    = [agg EXCEPT ![w][p] = CompanyTotal([b \in Branches |-> After(w, b, p)])]
  /\ UNCHANGED <<stock, total, moved, job>>

\* The end of a transaction frees the row locks it took.
LocksForgotten(w) == [p \in {q \in Products : holder[q] # w} |-> holder[p]]
LocksFreed(w)     == [p \in Products |-> IF holder[p] = w THEN Nobody ELSE holder[p]]

\* The transaction of w ends: locks released, nothing staged any more.
Finish(w) ==
  /\ holder' = LocksFreed(w)
  /\ job'    = [job  EXCEPT ![w] = Idle]
  /\ todo'   = [todo EXCEPT ![w] = {}]
  /\ rows'   = [rows EXCEPT ![w] = NoRows]
  /\ agg'    = [agg  EXCEPT ![w] = None]

\* The one COMMIT of a request comes after its last product.
CommitAnytime(w) == job[w].kind # "idle"
ReadyToCommit(w) == job[w].kind # "idle" /\ todo[w] = {}

\* COMMIT: every row the request changed becomes visible at once.
CommitStock(w) ==
  /\ ReadyToCommit(w)
  /\ stock' = [b \in Branches |-> [p \in Products |->
                 IF rows[w][b][p].delta # 0 THEN rows[w][b][p].after ELSE stock[b][p]]]
  /\ moved' = [b \in Branches |-> [p \in Products |->
                 moved[b][p] + rows[w][b][p].delta]]
  /\ total' = [p \in Products |->
                 IF Consolidates(job[w].kind) /\ p \in job[w].products
                 THEN agg[w][p] ELSE total[p]]
  /\ Finish(w)

\* ROLLBACK: a ValueError (not enough stock), an IntegrityError, a deadlock
\* victim, a lost connection or a killed process.
Rollback(w) ==
  /\ job[w].kind # "idle"
  /\ Finish(w)
  /\ UNCHANGED <<stock, total, moved>>

Next ==
  \E w \in Workers :
    \/ BeginTransfer(w) \/ BeginPurchase(w) \/ BeginSet(w)
    \/ \E p \in Products : AcquireProduct(w, p)
    \/ CommitStock(w)
    \/ Rollback(w)

Spec == Init /\ [][Next]_stockVars

--------------------------------------------------------------------------------
TypeOK ==
  /\ stock  \in [Branches -> [Products -> Int]]
  /\ total  \in [Products -> Int]
  /\ moved  \in [Branches -> [Products -> Int]]
  /\ holder \in [Products -> Workers \cup {Nobody}]
  /\ job    \in [Workers -> Job]
  /\ todo   \in [Workers -> SUBSET Products]
  /\ rows   \in [Workers -> [Branches -> [Products -> [delta : Int, after : Int]]]]
  /\ agg    \in [Workers -> [Products -> Int]]

\* No sequence of requests and rollbacks leaves a branch with less than nothing
\* of a product, whatever ran at the same time.
NoNegativeStock == \A b \in Branches, p \in Products : stock[b][p] >= 0

\* The balance of every branch row is its opening balance plus the movements
\* committed for it: no request overwrites the effect of another one.
LedgerMatchesStock ==
  \A b \in Branches, p \in Products : stock[b][p] = OpeningStock[b][p] + moved[b][p]

\* Product.stock is the sum of the branch rows, though each request computes it
\* from its own reads and a transfer does not compute it at all.
AggregateMatchesBranches ==
  \A p \in Products : total[p] = CompanyTotal([b \in Branches |-> stock[b][p]])

\* The products w has finished with are those it holds; for these the rows, the
\* movements and the company total it staged agree with the committed stock.
Staged(w) ==
  /\ job[w].kind = "idle" => job[w] = Idle
  /\ todo[w] \subseteq job[w].products
  /\ \A p \in Products : holder[p] = w <=> p \in job[w].products \ todo[w]
  /\ \A p \in Products :
       /\ holder[p] # w => \A b \in Branches : rows[w][b][p].delta = 0
       /\ holder[p] = w =>
            /\ \A b \in Branches :
                 /\ rows[w][b][p].delta = Delta(job[w], b, p, stock[b][p])
                 /\ rows[w][b][p].after = stock[b][p] + rows[w][b][p].delta
                 /\ rows[w][b][p].after >= 0
            /\ agg[w][p] = CompanyTotal([b \in Branches |-> rows[w][b][p].after])

\* What an open transaction has staged is still right when it commits, whatever
\* was committed by others since it read the rows it computed it from.
StagedIsCurrent == \A w \in Workers : Staged(w)

\* v holds the lock w asks for next.
WaitsFor(w, v) ==
  \E p \in todo[w] : holder[p] = v /\ \A q \in todo[w] : p <= q

\* Carts and transfers, which sort their products before they lock them, never
\* wait for each other in a circle, however many there are: in every group of
\* them one waits for nobody in the group.
OrderedRequestsNeverDeadlock ==
  \A group \in (SUBSET Workers) \ {{}} :
    (\A w \in group : Ordered(job[w].kind)) =>
      \E w \in group : \A v \in group : ~WaitsFor(w, v)

--------------------------------------------------------------------------------
\* The requests of this module, as one set.
Requests ==
  { Transfer(s, t, u) : s \in Branches, t \in Branches, u \in Lines }
    \cup { Purchase(t, u) : t \in Branches, u \in Lines }
    \cup { SetLevel(t, f, s) : t \in Branches, f \in [Products -> Quantities],
                               s \in (SUBSET Products) \ {{}} }

Serial == INSTANCE SerialInventory

\* Requests that interleave lock by lock still change the stock as if they had
\* run one after another: each COMMIT is one whole request applied to the
\* balances the previous COMMIT left.
Serializable == Serial!Spec
================================================================================
