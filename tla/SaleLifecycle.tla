----------------------------- MODULE SaleLifecycle -----------------------------
(***************************************************************************)
(* A sale from checkout to annulment (sales.py, services/sales/*.py and    *)
(* the sale postings of cash_treasury.py), on top of the branch stock.     *)
(*                                                                         *)
(* Checkout takes the product locks before it reads anything it relies on. *)
(* Edit and annul do not: the route loads the sale and its lines with a    *)
(* plain SELECT, checks the status on that copy, and only then waits for   *)
(* the product locks, so what they reverse may be out of date.             *)
(***************************************************************************)
EXTENDS BranchInventory

CONSTANTS
  Sales,      \* rows the sales table can hold in this instance
  Tokens,     \* checkout tokens a browser may send (Sale.client_txn_id)
  NoToken,    \* a checkout without a token
  Payments,   \* ways to pay, each a subset of {"cash", "digital"}
  MaxRev      \* bound of exploration: committed changes of one sale

ASSUME SalesAssumption    == Sales # {}
ASSUME NoTokenAssumption  == NoToken \notin Tokens
ASSUME PaymentsAssumption == Payments \subseteq SUBSET {"cash", "digital"}
ASSUME MaxRevAssumption   == MaxRev \in Nat

VARIABLES
  sale,     \* sales and sale_items rows, committed
  net,      \* units of a product out of stock on account of a sale: minus the
            \* sum of the committed movements whose source_id is the sale
  cash,     \* CashMovement rows of a sale, by the change that created them
  posted,   \* non-cash postings of a sale in the treasury ledger, likewise
  undone,   \* reversal rows written for each posting
  form,     \* what the transaction of a worker read and was asked to do
  raced     \* some change of the sale started from a copy already out of date

saleVars == <<sale, net, cash, posted, undone, form, raced>>
vars     == <<stockVars, saleVars>>

--------------------------------------------------------------------------------
Revs == 0..MaxRev

\* The sale_items rows inserted by one change of the sale.
LineGroup == [rev : Revs, qty : [Products -> Nat]]

NoSale == [status |-> "none", branch |-> AnyBranch, token |-> NoToken,
           pay |-> {}, lines |-> {}, rev |-> 0]

\* stage: "ledger" before an annulment has written its reversals, "stock" once
\* only product locks and the commit are left.
NoForm == [sale |-> CHOOSE s \in Sales : TRUE, stage |-> "stock", seen |-> {},
           seenRev |-> 0, qty |-> None, token |-> NoToken, pay |-> {},
           undo |-> {}, wipe |-> {}]

\* Units of product p over a set of line groups.
Units(groups, p) == SumFunction([g \in groups |-> g.qty[p]])

UnitsOf(groups) == [p \in Products |-> Units(groups, p)]

Live(s) == {k \in posted[s] : undone[s][k] = 0}

\* Rows of sale s another open transaction has staged a change to; the second
\* writer of such a row (or unique key) waits for the first.
StagedByOthers(w, s, field) ==
  UNION {form[v][field] : v \in {v \in Workers \ {w} : job[v].kind # "idle" /\ form[v].sale = s}}

--------------------------------------------------------------------------------
SaleInit ==
  /\ Init
  /\ sale   = [s \in Sales |-> NoSale]
  /\ net    = [s \in Sales |-> None]
  /\ cash   = [s \in Sales |-> {}]
  /\ posted = [s \in Sales |-> {}]
  /\ undone = [s \in Sales |-> [k \in Revs |-> 0]]
  /\ form   = [w \in Workers |-> NoForm]
  /\ raced  = [s \in Sales |-> FALSE]

\* The checkout form carries a token no sale has yet; a token that has one is
\* answered with that sale and changes nothing.
TokenIsNew(t) == t # NoToken => \A s \in Sales : sale[s].token # t

\* create_sale_from_items up to its first product lock.
StartCheckout(w) ==
  \E b \in Branches, units \in Lines, t \in Tokens \cup {NoToken}, pay \in Payments :
    /\ TokenIsNew(t)
    /\ Begin(w, [kind |-> "checkout", branch |-> b, target |-> b,
                 take |-> units, give |-> None, products |-> Touched(units, None)])
    /\ form' = [form EXCEPT ![w] = [NoForm EXCEPT !.qty = units, !.token = t, !.pay = pay]]
    /\ UNCHANGED <<sale, net, cash, posted, undone, raced>>

\* sales.edit + update_sale: the sale is loaded without a lock and must not be
\* cancelled in that copy; the new lines come from the form, one payment method.
StartEdit(w) ==
  \E s \in Sales, units \in Lines, pay \in Payments :
    /\ sale[s].status = "confirmada" /\ sale[s].rev < MaxRev
    /\ Cardinality(pay) <= 1
    /\ Begin(w, [kind |-> "edit", branch |-> sale[s].branch, target |-> sale[s].branch,
                 take |-> units, give |-> UnitsOf(sale[s].lines),
                 products |-> Touched(units, UnitsOf(sale[s].lines))])
    /\ form' = [form EXCEPT ![w] = [NoForm EXCEPT !.sale = s, !.seen = sale[s].lines,
                                      !.seenRev = sale[s].rev, !.qty = units, !.pay = pay]]
    /\ UNCHANGED <<sale, net, cash, posted, undone, raced>>

\* What an annulment gives back to the branch.
ReturnNothing(s) == None
ReturnAll(s)     == UnitsOf(sale[s].lines)

\* sales.delete_sale + annul_sale up to the status check, on the same kind of copy.
StartAnnul(w) ==
  \E s \in Sales :
    /\ sale[s].status = "confirmada" /\ sale[s].rev < MaxRev
    /\ Begin(w, [kind |-> "annul", branch |-> sale[s].branch, target |-> sale[s].branch,
                 take |-> None, give |-> ReturnAll(s),
                 products |-> Touched(None, UnitsOf(sale[s].lines))])
    /\ form' = [form EXCEPT ![w] = [NoForm EXCEPT !.sale = s, !.seen = sale[s].lines,
                                      !.seenRev = sale[s].rev, !.stage = "ledger"]]
    /\ UNCHANGED <<sale, net, cash, posted, undone, raced>>

\* Postings a reversal is written for: those whose idempotency key has none yet;
\* and the drawer rows an annulment deletes.
ReverseAll(s)  == posted[s]
ReverseLive(s) == Live(s)
KeepDrawer(s)  == {}
WipeDrawer(s)  == cash[s]

\* annul_sale, before any product lock: reverse every posting that has no
\* reversal yet and delete the cash movements of the sale (staged).
ReverseLedger(w) ==
  LET s == form[w].sale IN
  /\ job[w].kind = "annul" /\ form[w].stage = "ledger"
  /\ Live(s) \cap StagedByOthers(w, s, "undo") = {}
  /\ cash[s] \cap StagedByOthers(w, s, "wipe") = {}
  /\ form' = [form EXCEPT ![w].stage = "stock", ![w].undo = ReverseLive(s), ![w].wipe = WipeDrawer(s)]
  /\ UNCHANGED <<stockVars, sale, net, cash, posted, undone, raced>>

LockProduct(w, p) ==
  /\ form[w].stage = "stock"
  /\ AcquireProduct(w, p)
  /\ UNCHANGED saleVars

\* The stock movements of w carry the id of sale s.
ChargeTo(s, w) ==
  net' = [net EXCEPT ![s] = [p \in Products |-> @[p] - rows[w][job[w].branch][p].delta]]

EndForm(w) == form' = [form EXCEPT ![w] = NoForm]

\* The unique index on (company_id, client_txn_id).
IndexDropped(w) == TRUE
IndexAdmits(w)  == TokenIsNew(form[w].token)

\* The sale a checkout inserts.
CheckedOut(w) ==
  [status |-> "confirmada", branch |-> job[w].branch, token |-> form[w].token,
   pay |-> form[w].pay, lines |-> {[rev |-> 0, qty |-> form[w].qty]}, rev |-> 0]

\* The rest of create_sale_from_items: one sale per token, the loser of a race is
\* rolled back by the index.
CommitCheckout(w) ==
  /\ job[w].kind = "checkout"
  /\ IndexAdmits(w)
  /\ CommitStock(w)
  /\ \E s \in Sales :
       /\ sale[s].status = "none"
       /\ sale'   = [sale EXCEPT ![s] = CheckedOut(w)]
       /\ cash'   = [cash   EXCEPT ![s] = IF "cash" \in form[w].pay THEN {0} ELSE {}]
       /\ posted' = [posted EXCEPT ![s] = IF "digital" \in form[w].pay THEN {0} ELSE {}]
       /\ ChargeTo(s, w)
  /\ EndForm(w)
  /\ UNCHANGED <<undone, raced>>

\* The sale after an edit: the lines the edit loaded are deleted, its own are
\* inserted, the status column is not written.
LinesKept(w, s, new) ==
  [sale[s] EXCEPT !.lines = @ \cup {[rev |-> new, qty |-> form[w].qty]},
                  !.pay = form[w].pay, !.rev = new]
Confirmed(w, s, new) ==
  [sale[s] EXCEPT !.lines = (@ \ form[w].seen) \cup {[rev |-> new, qty |-> form[w].qty]},
                  !.status = "confirmada", !.pay = form[w].pay, !.rev = new]
Edited(w, s, new) ==
  [sale[s] EXCEPT !.lines = (@ \ form[w].seen) \cup {[rev |-> new, qty |-> form[w].qty]},
                  !.pay = form[w].pay, !.rev = new]

\* The rest of update_sale.  Deleting a line another edit already deleted is no
\* error; the cash movement and the postings are looked up after the locks and
\* are current.
CommitEdit(w) ==
  LET s   == form[w].sale
      old == sale[s]
      new == old.rev + 1
  IN
  /\ job[w].kind = "edit"
  /\ new <= MaxRev
  /\ Live(s) \cap StagedByOthers(w, s, "undo") = {}
  /\ CommitStock(w)
  /\ sale' = [sale EXCEPT ![s] = Edited(w, s, new)]
  /\ IF cash[s] = {}
     THEN cash' = [cash EXCEPT ![s] = IF "cash" \in form[w].pay THEN {new} ELSE {}]
     ELSE \E c \in cash[s] \ StagedByOthers(w, s, "wipe") :
            cash' = [cash EXCEPT ![s] = IF "cash" \in form[w].pay THEN @ ELSE @ \ {c}]
  /\ undone' = [undone EXCEPT ![s] = [k \in Revs |-> IF k \in ReverseLive(s) THEN @[k] + 1 ELSE @[k]]]
  /\ posted' = [posted EXCEPT ![s] = IF "digital" \in form[w].pay THEN @ \cup {new} ELSE @]
  /\ raced'  = [raced EXCEPT ![s] = @ \/ form[w].seenRev # old.rev]
  /\ ChargeTo(s, w)
  /\ EndForm(w)

\* The sale after an annulment.
Cancelled(s) == [sale[s] EXCEPT !.status = "cancelada", !.rev = @ + 1]
Annulled(s)  == [sale[s] EXCEPT !.status = "anulada", !.rev = @ + 1]

\* The rest of annul_sale: stock back, status "anulada".
CommitAnnul(w) ==
  LET s   == form[w].sale
      old == sale[s]
  IN
  /\ job[w].kind = "annul" /\ form[w].stage = "stock"
  /\ old.rev < MaxRev
  /\ CommitStock(w)
  /\ sale'   = [sale EXCEPT ![s] = Annulled(s)]
  /\ cash'   = [cash EXCEPT ![s] = @ \ form[w].wipe]
  /\ undone' = [undone EXCEPT ![s] = [k \in Revs |-> IF k \in form[w].undo THEN @[k] + 1 ELSE @[k]]]
  /\ raced'  = [raced EXCEPT ![s] = @ \/ form[w].seenRev # old.rev]
  /\ ChargeTo(s, w)
  /\ EndForm(w)
  /\ UNCHANGED posted

\* Any exception on the way, or the end of the process: session.rollback().
Abandon(w) == Rollback(w) /\ EndForm(w) /\ UNCHANGED <<sale, net, cash, posted, undone, raced>>

SaleNext ==
  \E w \in Workers :
    \/ StartCheckout(w) \/ StartEdit(w) \/ StartAnnul(w)
    \/ ReverseLedger(w)
    \/ \E p \in Products : LockProduct(w, p)
    \/ CommitCheckout(w) \/ CommitEdit(w) \/ CommitAnnul(w)
    \/ Abandon(w)

SaleSpec == SaleInit /\ [][SaleNext]_vars

--------------------------------------------------------------------------------
SaleRow == [status : {"none", "confirmada", "anulada"}, branch : Branches,
            token : Tokens \cup {NoToken}, pay : SUBSET {"cash", "digital"},
            lines : SUBSET LineGroup, rev : Revs]

FormRow == [sale : Sales, stage : {"ledger", "stock"}, seen : SUBSET LineGroup,
            seenRev : Revs, qty : [Products -> Nat], token : Tokens \cup {NoToken},
            pay : SUBSET {"cash", "digital"}, undo : SUBSET Revs, wipe : SUBSET Revs]

SaleTypeOK ==
  /\ TypeOK
  /\ sale   \in [Sales -> SaleRow]
  /\ net    \in [Sales -> [Products -> Int]]
  /\ cash   \in [Sales -> SUBSET Revs]
  /\ posted \in [Sales -> SUBSET Revs]
  /\ undone \in [Sales -> [Revs -> Nat]]
  /\ form   \in [Workers -> FormRow]
  /\ raced  \in [Sales -> BOOLEAN]

\* Movements charged to a sale add up to its current lines while it stands and
\* to nothing once it is annulled, after any number of edits, as long as no
\* change of that sale started from a copy that was out of date at its commit.
StockFollowsSale ==
  \A s \in Sales, p \in Products :
    ~raced[s] => net[s][p] = IF sale[s].status = "confirmada" THEN Units(sale[s].lines, p) ELSE 0

\* Units in a branch plus units in its standing sales are what it opened with.
UnitsConserved ==
  (\A s \in Sales : ~raced[s]) =>
    \A b \in Branches, p \in Products :
      LET standing == {s \in Sales : sale[s].status = "confirmada" /\ sale[s].branch = b}
      IN stock[b][p] + SumFunction([s \in standing |-> Units(sale[s].lines, p)])
           = OpeningStock[b][p]

\* Drawer and treasury ledger follow the sale: one cash movement and one
\* unreversed posting while it stands and was paid that way, none afterwards.
TreasuryFollowsSale ==
  \A s \in Sales :
    LET owed(m) == IF sale[s].status = "confirmada" /\ m \in sale[s].pay THEN 1 ELSE 0
    IN ~raced[s] => /\ Cardinality(cash[s]) = owed("cash")
                    /\ Cardinality(Live(s)) = owed("digital")

\* Even when changes of a sale race, no posting is reversed twice and at most
\* one is in force: a sale is never counted twice in the treasury.
NoDoublePosting ==
  \A s \in Sales : /\ Cardinality(Live(s)) <= 1
                   /\ \A k \in Revs : undone[s][k] <= 1

\* A checkout token buys one sale, however often it is sent and by whom.
OneSalePerToken ==
  \A s, t \in Sales : (s # t /\ sale[s].token = sale[t].token) => sale[s].token = NoToken

\* No late edit brings an annulled sale back to life.
AnnulledStaysAnnulled ==
  [][\A s \in Sales : sale[s].status = "anulada" => sale'[s].status = "anulada"]_vars

\* "A cancelled sale is immutable": its lines, its stock and its drawer no
\* longer change.  A change that loaded the sale before it was cancelled and
\* commits afterwards breaks this.
CancelledSaleIsImmutable ==
  [][\A s \in Sales : sale[s].status = "anulada" =>
       /\ sale'[s].lines = sale[s].lines
       /\ net'[s] = net[s] /\ cash'[s] = cash[s]]_vars
================================================================================
