-------------------------- MODULE SaleLifecycleProofs --------------------------
(***************************************************************************)
(* Proofs about SaleLifecycle: for any number of sales, tokens, request    *)
(* threads, branches and products.                                         *)
(***************************************************************************)
EXTENDS SaleLifecycle, BranchInventoryProofs

\* Lemmas on the units of a set of lines.

LEMMA UnitsIsSum ==
  ASSUME NEW groups, NEW p
  PROVE  Units(groups, p) = SumOver([g \in groups |-> g.qty[p]], groups)
BY SumOverIsLibrarySum DEF Units, SumFunction

LEMMA UnitsIsNat ==
  ASSUME NEW groups, groups \subseteq LineGroup, IsFiniteSet(groups), NEW p \in Products
  PROVE  Units(groups, p) \in Nat
<1>1. \A g \in groups : [h \in groups |-> h.qty[p]][g] \in Nat
  BY DEF LineGroup
<1> QED BY <1>1, UnitsIsSum, SumOverNat

LEMMA UnitsOfOne ==
  ASSUME NEW g \in LineGroup, NEW p \in Products
  PROVE  Units({g}, p) = g.qty[p]
<1> DEFINE f == [h \in {g} |-> h.qty[p]]
<1>1. f[g] = g.qty[p] /\ f[g] \in Int
  BY DEF LineGroup
<1>2. IsFiniteSet({g})
  BY FS_Singleton
<1> HIDE DEF f
<1>3. SumOver(f, {g}) = f[g]
  <2>1. Pick({g}) = g
    BY DEF Pick
  <2>2. SumOver(f, {g}) = f[g] + SumOver(f, {g} \ {g})
    BY <1>2, <2>1, SumOverUnfolds
  <2>3. SumOver(f, {g} \ {g}) = 0
    <3>1. {g} \ {g} = {} /\ IsFiniteSet({})
      BY FS_EmptySet
    <3> QED BY <3>1, SumOverUnfolds
  <2> QED BY <1>1, <2>2, <2>3
<1> QED BY <1>1, <1>3, UnitsIsSum DEF f

--------------------------------------------------------------------------------
\* What an open change of a sale still knows about it.  The sale row is there and
\* its revision has not gone back; if it has not moved on either, the lines, the
\* units to give back and the status are those the change has read.
FormMatches(w) ==
  LET s == form[w].sale
      j == job[w]
  IN
  /\ j.kind = "checkout" => j.take = form[w].qty /\ j.give = None
  /\ j.kind \in {"checkout", "edit", "annul"} =>
       /\ j.branch = j.target
       /\ j.products = Touched(j.take, j.give)
  /\ j.kind = "edit"  => j.take = form[w].qty
  /\ j.kind = "annul" => j.take = None
  /\ j.kind \in {"edit", "annul"} =>
       /\ sale[s].status # "none"
       /\ j.branch = sale[s].branch
       /\ form[w].seenRev <= sale[s].rev
       /\ form[w].seenRev = sale[s].rev =>
            /\ sale[s].status = "confirmada"
            /\ form[w].seen = sale[s].lines
            /\ j.give = UnitsOf(sale[s].lines)

FormsMatch == \A w \in Workers : FormMatches(w)

FiniteLines == \A s \in Sales : IsFiniteSet(sale[s].lines)

SaleInv ==
  /\ StockInv
  /\ SaleTypeOK
  /\ FiniteLines
  /\ FormsMatch
  /\ StockFollowsSale

LEMMA NoFormIsForm == NoForm \in FormRow
BY SalesAssumption, NoTokenAssumption, MaxRevAssumption DEF NoForm, FormRow, None, Revs

LEMMA NoSaleIsSale == NoSale \in SaleRow
BY AnyBranchIsBranch, MaxRevAssumption DEF NoSale, SaleRow, Revs

LEMMA InitSaleInv == SaleInit => SaleInv
<1> SUFFICES ASSUME SaleInit PROVE SaleInv
  OBVIOUS
<1> USE DEF SaleInit
<1>1. StockInv
  BY InitStockInv
<1>2. SaleTypeOK
  <2>1. net \in [Sales -> [Products -> Int]]
    BY DEF None
  <2>2. sale \in [Sales -> SaleRow] /\ form \in [Workers -> FormRow]
    BY NoFormIsForm, NoSaleIsSale
  <2> QED BY <1>1, <2>1, <2>2 DEF StockInv, SaleTypeOK
<1>3. FiniteLines
  BY FS_EmptySet DEF FiniteLines, NoSale
<1>4. FormsMatch
  BY DEF FormsMatch, FormMatches, Init, Idle
<1>5. StockFollowsSale
  BY DEF StockFollowsSale, NoSale, None
<1> QED BY <1>1, <1>2, <1>3, <1>4, <1>5 DEF SaleInv

--------------------------------------------------------------------------------
\* One lemma per action.

\* The units of the lines a transaction read or was sent.
LEMMA LinesUnits ==
  ASSUME SaleInv, NEW s \in Sales
  PROVE  UnitsOf(sale[s].lines) \in [Products -> Nat]
<1>1. sale[s].lines \subseteq LineGroup /\ IsFiniteSet(sale[s].lines)
  BY DEF SaleInv, SaleTypeOK, SaleRow, FiniteLines
<1> QED BY <1>1, UnitsIsNat DEF UnitsOf

LEMMA LinesAreUnits == Lines \subseteq [Products -> Nat]
BY QuantityAssumption DEF Lines

\* Starting a request changes the job and the form of one worker only.
LEMMA StartKeepsSaleInv ==
  ASSUME SaleInv, NEW w \in Workers, NEW j \in Job, NEW f \in FormRow,
         j.kind \in {"checkout", "edit", "annul"}, Begin(w, j),
         form' = [form EXCEPT ![w] = f],
         UNCHANGED <<sale, net, cash, posted, undone, raced>>,
         j.branch = j.target, j.products = Touched(j.take, j.give),
         j.kind = "checkout" => j.take = f.qty /\ j.give = None,
         j.kind = "edit"  => j.take = f.qty,
         j.kind = "annul" => j.take = None,
         j.kind \in {"edit", "annul"} =>
           /\ sale[f.sale].status = "confirmada"
           /\ j.branch = sale[f.sale].branch
           /\ f.seenRev = sale[f.sale].rev
           /\ f.seen = sale[f.sale].lines
           /\ j.give = UnitsOf(sale[f.sale].lines)
  PROVE  SaleInv'
<1>1. StockInv'
  BY BeginKeepsStockInv DEF SaleInv, Balanced
<1>2. SaleTypeOK'
  BY <1>1 DEF SaleInv, SaleTypeOK, StockInv
<1>3. FormsMatch'
  <2> SUFFICES ASSUME NEW v \in Workers PROVE FormMatches(v)'
    BY DEF FormsMatch
  <2>1. CASE v = w
    <3>1. job'[w] = j /\ form'[w] = f /\ f.sale \in Sales /\ sale' = sale
      BY DEF Begin, SaleInv, SaleTypeOK, TypeOK, FormRow
    <3>2. f.seenRev \in Nat
      BY MaxRevAssumption DEF FormRow, Revs
    <3>3. UnitsOf(sale[f.sale].lines)' = UnitsOf(sale[f.sale].lines)
      BY <3>1 DEF UnitsOf, Units
    <3> QED BY <2>1, <3>1, <3>2, <3>3 DEF FormMatches
  <2>2. CASE v # w
    <3>1. job'[v] = job[v] /\ form'[v] = form[v] /\ sale' = sale
      BY <2>2 DEF Begin, SaleInv, SaleTypeOK, TypeOK
    <3> QED BY <3>1 DEF SaleInv, FormsMatch, FormMatches
  <2> QED BY <2>1, <2>2
<1>4. (FiniteLines /\ StockFollowsSale)'
  BY DEF SaleInv, FiniteLines, StockFollowsSale
<1> QED BY <1>1, <1>2, <1>3, <1>4 DEF SaleInv

LEMMA StartCheckoutKeepsSaleInv ==
  ASSUME SaleInv, NEW w \in Workers, StartCheckout(w)
  PROVE  SaleInv'
<1>1. PICK b \in Branches, units \in Lines, t \in Tokens \cup {NoToken}, pay \in Payments :
        /\ Begin(w, [kind |-> "checkout", branch |-> b, target |-> b,
                     take |-> units, give |-> None, products |-> Touched(units, None)])
        /\ form' = [form EXCEPT ![w] =
                     [NoForm EXCEPT !.qty = units, !.token = t, !.pay = pay]]
        /\ UNCHANGED <<sale, net, cash, posted, undone, raced>>
  BY DEF StartCheckout
<1> DEFINE j == [kind |-> "checkout", branch |-> b, target |-> b,
                 take |-> units, give |-> None, products |-> Touched(units, None)]
           f == [NoForm EXCEPT !.qty = units, !.token = t, !.pay = pay]
<1>2. j \in Job
  BY LinesAreUnits DEF Job, Kinds, None, Touched
<1>3. f \in FormRow /\ f.qty = units
  BY NoFormIsForm, LinesAreUnits, PaymentsAssumption DEF FormRow
<1>4. /\ j.kind = "checkout" /\ j.branch = j.target /\ j.take = units /\ j.give = None
      /\ j.products = Touched(j.take, j.give)
  OBVIOUS
<1> HIDE DEF j, f
<1>5. Begin(w, j) /\ form' = [form EXCEPT ![w] = f]
  BY <1>1 DEF j, f
<1> QED BY <1>1, <1>2, <1>3, <1>4, <1>5, StartKeepsSaleInv

LEMMA StartEditKeepsSaleInv ==
  ASSUME SaleInv, NEW w \in Workers, StartEdit(w)
  PROVE  SaleInv'
<1>1. PICK s \in Sales, units \in Lines, pay \in Payments :
        /\ sale[s].status = "confirmada"
        /\ Begin(w, [kind |-> "edit", branch |-> sale[s].branch, target |-> sale[s].branch,
                     take |-> units, give |-> UnitsOf(sale[s].lines),
                     products |-> Touched(units, UnitsOf(sale[s].lines))])
        /\ form' = [form EXCEPT ![w] =
                     [NoForm EXCEPT !.sale = s, !.seen = sale[s].lines,
                                    !.seenRev = sale[s].rev, !.qty = units, !.pay = pay]]
        /\ UNCHANGED <<sale, net, cash, posted, undone, raced>>
  BY DEF StartEdit
<1> DEFINE j == [kind |-> "edit", branch |-> sale[s].branch, target |-> sale[s].branch,
                 take |-> units, give |-> UnitsOf(sale[s].lines),
                 products |-> Touched(units, UnitsOf(sale[s].lines))]
           f == [NoForm EXCEPT !.sale = s, !.seen = sale[s].lines,
                               !.seenRev = sale[s].rev, !.qty = units, !.pay = pay]
<1>2. sale[s] \in SaleRow
  BY DEF SaleInv, SaleTypeOK
<1>3. j \in Job
  BY <1>2, LinesAreUnits, LinesUnits DEF Job, Kinds, Touched, SaleRow
<1>4. f \in FormRow
  BY <1>2, NoFormIsForm, LinesAreUnits, PaymentsAssumption DEF FormRow, SaleRow
<1>5. /\ j.kind = "edit" /\ j.branch = j.target /\ j.take = f.qty
      /\ j.products = Touched(j.take, j.give)
      /\ f.sale = s /\ f.seen = sale[s].lines /\ f.seenRev = sale[s].rev
      /\ j.branch = sale[s].branch /\ j.give = UnitsOf(sale[s].lines)
  BY NoFormIsForm DEF FormRow
<1> HIDE DEF j, f
<1>6. Begin(w, j) /\ form' = [form EXCEPT ![w] = f]
  BY <1>1 DEF j, f
<1> QED BY <1>1, <1>3, <1>4, <1>5, <1>6, StartKeepsSaleInv

LEMMA StartAnnulKeepsSaleInv ==
  ASSUME SaleInv, NEW w \in Workers, StartAnnul(w)
  PROVE  SaleInv'
<1>1. PICK s \in Sales :
        /\ sale[s].status = "confirmada"
        /\ Begin(w, [kind |-> "annul", branch |-> sale[s].branch, target |-> sale[s].branch,
                     take |-> None, give |-> UnitsOf(sale[s].lines),
                     products |-> Touched(None, UnitsOf(sale[s].lines))])
        /\ form' = [form EXCEPT ![w] =
                     [NoForm EXCEPT !.sale = s, !.seen = sale[s].lines,
                                    !.seenRev = sale[s].rev, !.stage = "ledger"]]
        /\ UNCHANGED <<sale, net, cash, posted, undone, raced>>
  BY DEF StartAnnul, ReturnAll
<1> DEFINE j == [kind |-> "annul", branch |-> sale[s].branch, target |-> sale[s].branch,
                 take |-> None, give |-> UnitsOf(sale[s].lines),
                 products |-> Touched(None, UnitsOf(sale[s].lines))]
           f == [NoForm EXCEPT !.sale = s, !.seen = sale[s].lines,
                               !.seenRev = sale[s].rev, !.stage = "ledger"]
<1>2. sale[s] \in SaleRow
  BY DEF SaleInv, SaleTypeOK
<1>3. j \in Job
  BY <1>2, LinesUnits DEF Job, Kinds, Touched, SaleRow, None
<1>4. f \in FormRow
  BY <1>2, NoFormIsForm DEF FormRow, SaleRow
<1>5. /\ j.kind = "annul" /\ j.branch = j.target /\ j.take = None
      /\ j.products = Touched(j.take, j.give)
      /\ f.sale = s /\ f.seen = sale[s].lines /\ f.seenRev = sale[s].rev
      /\ j.branch = sale[s].branch /\ j.give = UnitsOf(sale[s].lines)
  BY NoFormIsForm DEF FormRow
<1> HIDE DEF j, f
<1>6. Begin(w, j) /\ form' = [form EXCEPT ![w] = f]
  BY <1>1 DEF j, f
<1> QED BY <1>1, <1>3, <1>4, <1>5, <1>6, StartKeepsSaleInv

LEMMA ReverseLedgerKeepsSaleInv ==
  ASSUME SaleInv, NEW w \in Workers, ReverseLedger(w)
  PROVE  SaleInv'
<1> DEFINE s == form[w].sale
           f == [form[w] EXCEPT !.stage = "stock", !.undo = ReverseLive(s),
                                !.wipe = WipeDrawer(s)]
<1>1. /\ form' = [form EXCEPT ![w] = f]
      /\ UNCHANGED <<stockVars, sale, net, cash, posted, undone, raced>>
  BY DEF ReverseLedger, SaleInv, SaleTypeOK
<1>2. form[w] \in FormRow /\ s \in Sales
  BY DEF SaleInv, SaleTypeOK, FormRow
<1>3. f \in FormRow
  BY <1>2 DEF SaleInv, SaleTypeOK, FormRow, ReverseLive, Live, WipeDrawer
<1>4. /\ f.sale = form[w].sale /\ f.seen = form[w].seen /\ f.seenRev = form[w].seenRev
      /\ f.qty = form[w].qty
  BY <1>2 DEF FormRow
<1> HIDE DEF f
<1>5. StockInv'
  BY <1>1, StockInvStep DEF SaleInv
<1>6. SaleTypeOK'
  BY <1>1, <1>3, <1>5 DEF SaleInv, SaleTypeOK, StockInv
<1>7. FormsMatch'
  <2> SUFFICES ASSUME NEW v \in Workers PROVE FormMatches(v)'
    BY DEF FormsMatch
  <2>1. /\ job' = job /\ sale' = sale /\ form'[v].sale = form[v].sale
        /\ form'[v].seen = form[v].seen /\ form'[v].seenRev = form[v].seenRev
        /\ form'[v].qty = form[v].qty
    BY <1>1, <1>4 DEF SaleInv, SaleTypeOK, stockVars
  <2> QED BY <2>1 DEF SaleInv, FormsMatch, FormMatches, UnitsOf, Units
<1>8. (FiniteLines /\ StockFollowsSale)'
  BY <1>1 DEF SaleInv, FiniteLines, StockFollowsSale
<1> QED BY <1>5, <1>6, <1>7, <1>8 DEF SaleInv

LEMMA LockProductKeepsSaleInv ==
  ASSUME SaleInv, NEW w \in Workers, NEW p \in Products, LockProduct(w, p)
  PROVE  SaleInv'
<1>1. AcquireProduct(w, p) /\ UNCHANGED <<sale, net, cash, posted, undone, form, raced>>
  BY DEF LockProduct, saleVars
<1>2. job' = job
  BY <1>1 DEF AcquireProduct
<1>3. StockInv'
  BY <1>1, AcquireKeepsStockInv DEF SaleInv
<1>4. SaleTypeOK'
  BY <1>1, <1>3 DEF SaleInv, SaleTypeOK, StockInv
<1>5. FormsMatch'
  BY <1>1, <1>2 DEF SaleInv, FormsMatch, FormMatches, UnitsOf, Units
<1>6. (FiniteLines /\ StockFollowsSale)'
  BY <1>1 DEF SaleInv, FiniteLines, StockFollowsSale
<1> QED BY <1>3, <1>4, <1>5, <1>6 DEF SaleInv

\* The other workers keep what they know when w finishes a change of sale s: the
\* row of s moved on to a later revision, the other rows are as they were.
LEMMA FinishKeepsForms ==
  ASSUME SaleInv, NEW w \in Workers, Finish(w), EndForm(w), NEW s \in Sales,
         NEW row \in SaleRow, sale' = [sale EXCEPT ![s] = row],
         sale[s].status # "none" =>
           /\ row.status # "none" /\ row.branch = sale[s].branch /\ row.rev > sale[s].rev
  PROVE  FormsMatch'
<1> SUFFICES ASSUME NEW v \in Workers PROVE FormMatches(v)'
  BY DEF FormsMatch
<1>1. CASE v = w
  <2>1. job'[w] = Idle
    BY DEF Finish, SaleInv, SaleTypeOK, TypeOK
  <2> QED BY <1>1, <2>1 DEF FormMatches, Idle
<1>2. CASE v # w
  <2>1. job'[v] = job[v] /\ form'[v] = form[v] /\ form[v] \in FormRow
    BY <1>2 DEF Finish, EndForm, SaleInv, SaleTypeOK, TypeOK
  <2>2. FormMatches(v)
    BY DEF SaleInv, FormsMatch
  <2> DEFINE t == form[v].sale
  <2>3. t \in Sales /\ form[v].seenRev \in Nat
    BY <2>1, MaxRevAssumption DEF FormRow, Revs
  <2>4. CASE t # s
    <3>1. sale'[t] = sale[t]
      BY <2>3, <2>4 DEF SaleInv, SaleTypeOK
    <3>2. UnitsOf(sale[t].lines)' = UnitsOf(sale[t].lines)
      BY <2>1, <3>1 DEF UnitsOf, Units
    <3> QED BY <2>1, <2>2, <3>1, <3>2 DEF FormMatches
  <2>5. CASE t = s
    <3>1. sale'[t] = row
      BY <2>5 DEF SaleInv, SaleTypeOK
    <3>2. row.rev \in Nat /\ sale[s].rev \in Nat
      BY MaxRevAssumption DEF SaleRow, Revs, SaleInv, SaleTypeOK
    <3> QED BY <2>1, <2>2, <2>3, <2>5, <3>1, <3>2 DEF FormMatches
  <2> QED BY <2>4, <2>5
<1> QED BY <1>1, <1>2

LEMMA AbandonKeepsSaleInv ==
  ASSUME SaleInv, NEW w \in Workers, Abandon(w)
  PROVE  SaleInv'
<1>1. /\ Rollback(w) /\ Finish(w) /\ EndForm(w)
      /\ UNCHANGED <<sale, net, cash, posted, undone, raced>>
  BY DEF Abandon, Rollback
<1>2. StockInv'
  BY <1>1, RollbackKeepsStockInv DEF SaleInv
<1>3. SaleTypeOK'
  BY <1>1, <1>2, NoFormIsForm DEF SaleInv, SaleTypeOK, StockInv, EndForm
<1>4. FormsMatch'
  <2> SUFFICES ASSUME NEW v \in Workers PROVE FormMatches(v)'
    BY DEF FormsMatch
  <2>1. CASE v = w
    <3>1. job'[w] = Idle
      BY <1>1 DEF Finish, SaleInv, SaleTypeOK, TypeOK
    <3> QED BY <2>1, <3>1 DEF FormMatches, Idle
  <2>2. CASE v # w
    <3>1. job'[v] = job[v] /\ form'[v] = form[v] /\ sale' = sale
      BY <1>1, <2>2 DEF Finish, EndForm, SaleInv, SaleTypeOK, TypeOK
    <3> QED BY <3>1 DEF SaleInv, FormsMatch, FormMatches, UnitsOf, Units
  <2> QED BY <2>1, <2>2
<1>5. (FiniteLines /\ StockFollowsSale)'
  BY <1>1 DEF SaleInv, FiniteLines, StockFollowsSale
<1> QED BY <1>2, <1>3, <1>4, <1>5 DEF SaleInv

\* The movement a sale commits for a product is what it gives minus what it takes.
LEMMA ChargedDelta ==
  ASSUME SaleInv, NEW w \in Workers, CommitStock(w),
         job[w].kind \in {"checkout", "edit", "annul"}, NEW p \in Products
  PROVE  /\ rows[w][job[w].branch][p].delta = job[w].give[p] - job[w].take[p]
         /\ job[w].give[p] \in Nat /\ job[w].take[p] \in Nat
<1> DEFINE j == job[w]
<1>1. j \in Job /\ j.branch = j.target /\ j.products = Touched(j.take, j.give)
  BY DEF SaleInv, StockInv, TypeOK, FormsMatch, FormMatches
<1>2. j.branch \in Branches /\ j.give[p] \in Nat /\ j.take[p] \in Nat
  BY <1>1 DEF Job
<1>3. rows[w][j.branch][p].delta
        = IF p \in j.products THEN Delta(j, j.branch, p, stock[j.branch][p]) ELSE 0
  BY <1>2, CommitAppliesDelta DEF SaleInv
<1>4. CASE p \in j.products
  BY <1>1, <1>2, <1>3, <1>4 DEF Delta
<1>5. CASE p \notin j.products
  <2>1. j.give[p] = 0 /\ j.take[p] = 0
    BY <1>1, <1>2, <1>5 DEF Touched
  <2> QED BY <1>2, <1>3, <1>5, <2>1
<1> QED BY <1>2, <1>4, <1>5

\* The types a commit leaves alone.
LEMMA CommitKeepsTypes ==
  ASSUME SaleInv, NEW w \in Workers, CommitStock(w), EndForm(w), NEW s \in Sales,
         job[w].kind \in {"checkout", "edit", "annul"}, ChargeTo(s, w),
         NEW row \in SaleRow, sale' = [sale EXCEPT ![s] = row]
  PROVE  /\ StockInv'
         /\ sale' \in [Sales -> SaleRow]
         /\ net'  \in [Sales -> [Products -> Int]]
         /\ form' \in [Workers -> FormRow]
         /\ \A p \in Products : net'[s][p] = net[s][p] - (job[w].give[p] - job[w].take[p])
         /\ \A t \in Sales \ {s} : net'[t] = net[t]
<1>1. StockInv'
  BY CommitKeepsStockInv DEF SaleInv
<1>2. /\ sale' \in [Sales -> SaleRow] /\ form' \in [Workers -> FormRow]
  BY NoFormIsForm DEF SaleInv, SaleTypeOK, EndForm
<1>3. \A p \in Products : net[s][p] - rows[w][job[w].branch][p].delta \in Int
  <2> SUFFICES ASSUME NEW p \in Products
               PROVE  net[s][p] - rows[w][job[w].branch][p].delta \in Int
    OBVIOUS
  <2>1. net[s][p] \in Int
    BY DEF SaleInv, SaleTypeOK
  <2>2. /\ rows[w][job[w].branch][p].delta = job[w].give[p] - job[w].take[p]
        /\ job[w].give[p] \in Nat /\ job[w].take[p] \in Nat
    BY ChargedDelta
  <2> QED BY <2>1, <2>2
<1>4. net' = [net EXCEPT ![s] =
                [p \in Products |-> net[s][p] - rows[w][job[w].branch][p].delta]]
  BY DEF ChargeTo, SaleInv, SaleTypeOK
<1>5. net' \in [Sales -> [Products -> Int]]
  BY <1>3, <1>4 DEF SaleInv, SaleTypeOK
<1>6. \A p \in Products : net'[s][p] = net[s][p] - (job[w].give[p] - job[w].take[p])
  BY <1>4, ChargedDelta DEF SaleInv, SaleTypeOK
<1>7. \A t \in Sales \ {s} : net'[t] = net[t]
  BY <1>4 DEF SaleInv, SaleTypeOK
<1> QED BY <1>1, <1>2, <1>5, <1>6, <1>7

LEMMA CommitCheckoutKeepsSaleInv ==
  ASSUME SaleInv, NEW w \in Workers, CommitCheckout(w)
  PROVE  SaleInv'
<1> DEFINE group == [rev |-> 0, qty |-> form[w].qty]
           row   == CheckedOut(w)
<1>1. PICK s \in Sales :
        /\ sale[s].status = "none" /\ sale' = [sale EXCEPT ![s] = row]
        /\ cash'   = [cash   EXCEPT ![s] = IF "cash" \in form[w].pay THEN {0} ELSE {}]
        /\ posted' = [posted EXCEPT ![s] = IF "digital" \in form[w].pay THEN {0} ELSE {}]
        /\ ChargeTo(s, w)
  BY DEF CommitCheckout
<1>2. /\ job[w].kind = "checkout" /\ CommitStock(w) /\ Finish(w) /\ EndForm(w)
      /\ UNCHANGED <<undone, raced>>
  BY DEF CommitCheckout, CommitStock
<1>3. form[w] \in FormRow /\ job[w] \in Job /\ 0 \in Revs
  BY MaxRevAssumption DEF SaleInv, SaleTypeOK, TypeOK, Revs
<1>4. group \in LineGroup /\ group.qty = form[w].qty
  BY <1>3 DEF LineGroup, FormRow
<1>6. row.status = "confirmada" /\ row.lines = {group}
  BY DEF CheckedOut
<1> HIDE DEF group
<1>5. row \in SaleRow
  BY <1>3, <1>4, <1>6 DEF SaleRow, FormRow, Job, CheckedOut
<1> HIDE DEF row
<1>7. /\ StockInv'
      /\ sale' \in [Sales -> SaleRow]
      /\ net'  \in [Sales -> [Products -> Int]]
      /\ form' \in [Workers -> FormRow]
      /\ \A p \in Products : net'[s][p] = net[s][p] - (job[w].give[p] - job[w].take[p])
      /\ \A t \in Sales \ {s} : net'[t] = net[t]
  BY <1>1, <1>2, <1>5, CommitKeepsTypes
<1>8. SaleTypeOK'
  <2>1. cash' \in [Sales -> SUBSET Revs] /\ posted' \in [Sales -> SUBSET Revs]
    BY <1>1, <1>3 DEF SaleInv, SaleTypeOK
  <2> QED BY <1>2, <1>7, <2>1 DEF SaleInv, SaleTypeOK, StockInv
<1>9. FiniteLines'
  <2>1. IsFiniteSet({group})
    BY FS_Singleton
  <2> QED BY <1>1, <1>6, <2>1 DEF SaleInv, SaleTypeOK, FiniteLines
<1>10. FormsMatch'
  BY <1>1, <1>2, <1>5, FinishKeepsForms
<1>11. StockFollowsSale'
  <2> SUFFICES ASSUME NEW t \in Sales, NEW p \in Products, ~raced[t]
               PROVE  net'[t][p] = IF sale'[t].status = "confirmada"
                                   THEN Units(sale'[t].lines, p) ELSE 0
    BY <1>2 DEF StockFollowsSale
  <2>1. CASE t = s
    <3>1. net[s][p] = 0
      BY <1>1, <2>1 DEF SaleInv, StockFollowsSale
    <3>2. job[w].take[p] = form[w].qty[p] /\ job[w].give[p] = 0 /\ form[w].qty[p] \in Nat
      BY <1>2, <1>3 DEF SaleInv, FormsMatch, FormMatches, None, FormRow
    <3>3. sale'[s] = row
      BY <1>1 DEF SaleInv, SaleTypeOK
    <3>4. Units({group}, p) = form[w].qty[p]
      BY <1>4, UnitsOfOne
    <3>5. net'[s][p] = net[s][p] - (job[w].give[p] - job[w].take[p])
      BY <1>7
    <3>6. net'[s][p] = form[w].qty[p]
      BY <3>1, <3>2, <3>5
    <3> QED BY <1>6, <2>1, <3>3, <3>4, <3>6
  <2>2. CASE t # s
    <3>1. sale'[t] = sale[t] /\ net'[t] = net[t]
      BY <1>1, <1>7, <2>2 DEF SaleInv, SaleTypeOK
    <3> QED BY <3>1 DEF SaleInv, StockFollowsSale
  <2> QED BY <2>1, <2>2
<1> QED BY <1>7, <1>8, <1>9, <1>10, <1>11 DEF SaleInv

LEMMA CommitEditKeepsSaleInv ==
  ASSUME SaleInv, NEW w \in Workers, CommitEdit(w)
  PROVE  SaleInv'
<1> DEFINE s     == form[w].sale
           new   == sale[s].rev + 1
           group == [rev |-> new, qty |-> form[w].qty]
           row   == Edited(w, s, new)
<1>1. /\ job[w].kind = "edit" /\ CommitStock(w) /\ Finish(w) /\ EndForm(w) /\ ChargeTo(s, w)
      /\ sale' = [sale EXCEPT ![s] = row]
      /\ new <= MaxRev
      /\ IF cash[s] = {}
         THEN cash' = [cash EXCEPT ![s] = IF "cash" \in form[w].pay THEN {new} ELSE {}]
         ELSE \E c \in cash[s] \ StagedByOthers(w, s, "wipe") :
                cash' = [cash EXCEPT ![s] = IF "cash" \in form[w].pay THEN @ ELSE @ \ {c}]
      /\ undone' = [undone EXCEPT ![s] =
                     [k \in Revs |-> IF k \in ReverseLive(s) THEN @[k] + 1 ELSE @[k]]]
      /\ posted' = [posted EXCEPT ![s] = IF "digital" \in form[w].pay THEN @ \cup {new} ELSE @]
      /\ raced'  = [raced EXCEPT ![s] = @ \/ form[w].seenRev # sale[s].rev]
  BY DEF CommitEdit, CommitStock
<1>2. /\ form[w] \in FormRow /\ s \in Sales /\ sale[s] \in SaleRow /\ FormMatches(w)
      /\ IsFiniteSet(sale[s].lines)
  BY DEF SaleInv, SaleTypeOK, FormRow, FormsMatch, FiniteLines
<1>3. new \in Revs /\ new > sale[s].rev
  BY <1>1, <1>2, MaxRevAssumption DEF Revs, SaleRow
<1>4. group \in LineGroup /\ group.qty = form[w].qty
  BY <1>2, <1>3 DEF LineGroup, FormRow
<1>5. /\ row \in SaleRow /\ row.lines = (sale[s].lines \ form[w].seen) \cup {group}
      /\ row.status = sale[s].status /\ row.branch = sale[s].branch /\ row.rev = new
  BY <1>2, <1>3, <1>4 DEF Edited, SaleRow, FormRow
<1>6. sale[s].status # "none"
  BY <1>1, <1>2 DEF FormMatches
<1> HIDE DEF row, group, new
<1>7. /\ StockInv'
      /\ sale' \in [Sales -> SaleRow]
      /\ net'  \in [Sales -> [Products -> Int]]
      /\ form' \in [Workers -> FormRow]
      /\ \A p \in Products : net'[s][p] = net[s][p] - (job[w].give[p] - job[w].take[p])
      /\ \A t \in Sales \ {s} : net'[t] = net[t]
  BY <1>1, <1>2, <1>5, CommitKeepsTypes
<1>8. SaleTypeOK'
  <2>1. cash' \in [Sales -> SUBSET Revs]
    <3>1. cash \in [Sales -> SUBSET Revs]
      BY DEF SaleInv, SaleTypeOK
    <3>2. CASE cash[s] = {}
      BY <1>1, <1>2, <1>3, <3>1, <3>2
    <3>3. CASE cash[s] # {}
      <4>1. PICK c : cash' = [cash EXCEPT ![s] =
                               IF "cash" \in form[w].pay THEN @ ELSE @ \ {c}]
        BY <1>1, <3>3
      <4> QED BY <1>2, <3>1, <4>1
    <3> QED BY <3>2, <3>3
  <2>2. posted' \in [Sales -> SUBSET Revs]
    BY <1>1, <1>2, <1>3 DEF SaleInv, SaleTypeOK
  <2>3. undone' \in [Sales -> [Revs -> Nat]]
    BY <1>1, <1>2 DEF SaleInv, SaleTypeOK
  <2>4. raced' \in [Sales -> BOOLEAN]
    <3>1. (raced[s] \/ form[w].seenRev # sale[s].rev) \in BOOLEAN
      OBVIOUS
    <3> QED BY <1>1, <1>2, <3>1 DEF SaleInv, SaleTypeOK
  <2> QED BY <1>7, <2>1, <2>2, <2>3, <2>4 DEF SaleTypeOK, StockInv
<1>9. FiniteLines'
  <2>1. IsFiniteSet(row.lines)
    <3>1. IsFiniteSet({group}) /\ IsFiniteSet(sale[s].lines \ form[w].seen)
      <4>1. sale[s].lines \ form[w].seen \subseteq sale[s].lines
        OBVIOUS
      <4> QED BY <1>2, <4>1, FS_Singleton, FS_Subset
    <3>2. IsFiniteSet((sale[s].lines \ form[w].seen) \cup {group})
      BY <3>1, FS_Union
    <3> QED BY <1>5, <3>2
  <2> QED BY <1>1, <2>1 DEF SaleInv, SaleTypeOK, FiniteLines
<1>10. FormsMatch'
  BY <1>1, <1>2, <1>3, <1>5, <1>6, FinishKeepsForms
<1>11. StockFollowsSale'
  <2> SUFFICES ASSUME NEW t \in Sales, NEW p \in Products, ~raced'[t]
               PROVE  net'[t][p] = IF sale'[t].status = "confirmada"
                                   THEN Units(sale'[t].lines, p) ELSE 0
    BY DEF StockFollowsSale
  <2>1. CASE t = s
    <3>1. ~raced[s] /\ form[w].seenRev = sale[s].rev
      BY <1>1, <1>2, <2>1 DEF SaleInv, SaleTypeOK
    <3>2. /\ sale[s].status = "confirmada" /\ form[w].seen = sale[s].lines
          /\ job[w].give = UnitsOf(sale[s].lines) /\ job[w].take = form[w].qty
      BY <1>1, <1>2, <3>1 DEF FormMatches
    <3>3. net[s][p] = Units(sale[s].lines, p)
      BY <1>2, <3>1, <3>2 DEF SaleInv, StockFollowsSale
    <3>4. job[w].give[p] = Units(sale[s].lines, p) /\ job[w].take[p] = form[w].qty[p]
      BY <3>2 DEF UnitsOf
    <3>5. job[w].give[p] \in Nat /\ job[w].take[p] \in Nat
      BY <1>1, ChargedDelta
    <3>6. row.lines = {group}
      BY <1>5, <3>2
    <3>7. Units({group}, p) = form[w].qty[p]
      BY <1>4, UnitsOfOne
    <3>8. sale'[s] = row
      BY <1>1, <1>2 DEF SaleInv, SaleTypeOK
    <3>9. net'[s][p] = form[w].qty[p]
      BY <1>7, <3>3, <3>4, <3>5
    <3> QED BY <1>5, <2>1, <3>2, <3>6, <3>7, <3>8, <3>9
  <2>2. CASE t # s
    <3>1. sale'[t] = sale[t] /\ net'[t] = net[t] /\ raced'[t] = raced[t]
      BY <1>1, <1>7, <2>2 DEF SaleInv, SaleTypeOK
    <3> QED BY <3>1 DEF SaleInv, StockFollowsSale
  <2> QED BY <2>1, <2>2
<1> QED BY <1>7, <1>8, <1>9, <1>10, <1>11 DEF SaleInv

LEMMA CommitAnnulKeepsSaleInv ==
  ASSUME SaleInv, NEW w \in Workers, CommitAnnul(w)
  PROVE  SaleInv'
<1> DEFINE s   == form[w].sale
           row == Annulled(s)
<1>1. /\ job[w].kind = "annul" /\ CommitStock(w) /\ Finish(w) /\ EndForm(w) /\ ChargeTo(s, w)
      /\ sale[s].rev < MaxRev
      /\ sale' = [sale EXCEPT ![s] = row]
      /\ cash' = [cash EXCEPT ![s] = @ \ form[w].wipe]
      /\ undone' = [undone EXCEPT ![s] =
                     [k \in Revs |-> IF k \in form[w].undo THEN @[k] + 1 ELSE @[k]]]
      /\ raced'  = [raced EXCEPT ![s] = @ \/ form[w].seenRev # sale[s].rev]
      /\ UNCHANGED posted
  BY DEF CommitAnnul, CommitStock
<1>2. form[w] \in FormRow /\ s \in Sales /\ sale[s] \in SaleRow /\ FormMatches(w)
  BY DEF SaleInv, SaleTypeOK, FormRow, FormsMatch
<1>3. /\ row \in SaleRow /\ row.status = "anulada" /\ row.lines = sale[s].lines
      /\ row.branch = sale[s].branch /\ row.rev > sale[s].rev
  <2>1. sale[s].rev \in 0..MaxRev /\ sale[s].rev + 1 \in 0..MaxRev
    BY <1>1, <1>2, MaxRevAssumption DEF SaleRow, Revs
  <2>2. sale[s].rev + 1 > sale[s].rev
    BY <2>1, MaxRevAssumption
  <2>3. row = [sale[s] EXCEPT !.status = "anulada", !.rev = sale[s].rev + 1]
    BY <1>2 DEF Annulled, SaleRow
  <2> QED BY <1>2, <2>1, <2>2, <2>3 DEF SaleRow, Revs
<1>4. sale[s].status # "none"
  BY <1>1, <1>2 DEF FormMatches
<1> HIDE DEF row
<1>5. /\ StockInv'
      /\ sale' \in [Sales -> SaleRow]
      /\ net'  \in [Sales -> [Products -> Int]]
      /\ form' \in [Workers -> FormRow]
      /\ \A p \in Products : net'[s][p] = net[s][p] - (job[w].give[p] - job[w].take[p])
      /\ \A t \in Sales \ {s} : net'[t] = net[t]
  BY <1>1, <1>2, <1>3, CommitKeepsTypes
<1>6. SaleTypeOK'
  <2>1. cash' \in [Sales -> SUBSET Revs] /\ posted' \in [Sales -> SUBSET Revs]
    BY <1>1, <1>2 DEF SaleInv, SaleTypeOK
  <2>2. undone' \in [Sales -> [Revs -> Nat]]
    BY <1>1, <1>2 DEF SaleInv, SaleTypeOK
  <2>3. raced' \in [Sales -> BOOLEAN]
    <3>1. (raced[s] \/ form[w].seenRev # sale[s].rev) \in BOOLEAN
      OBVIOUS
    <3> QED BY <1>1, <1>2, <3>1 DEF SaleInv, SaleTypeOK
  <2> QED BY <1>5, <2>1, <2>2, <2>3 DEF SaleTypeOK, StockInv
<1>7. FiniteLines'
  BY <1>1, <1>3 DEF SaleInv, SaleTypeOK, FiniteLines
<1>8. FormsMatch'
  BY <1>1, <1>2, <1>3, <1>4, FinishKeepsForms
<1>9. StockFollowsSale'
  <2> SUFFICES ASSUME NEW t \in Sales, NEW p \in Products, ~raced'[t]
               PROVE  net'[t][p] = IF sale'[t].status = "confirmada"
                                   THEN Units(sale'[t].lines, p) ELSE 0
    BY DEF StockFollowsSale
  <2>1. CASE t = s
    <3>1. ~raced[s] /\ form[w].seenRev = sale[s].rev
      BY <1>1, <1>2, <2>1 DEF SaleInv, SaleTypeOK
    <3>2. /\ sale[s].status = "confirmada"
          /\ job[w].give = UnitsOf(sale[s].lines) /\ job[w].take = None
      BY <1>1, <1>2, <3>1 DEF FormMatches
    <3>3. net[s][p] = Units(sale[s].lines, p)
      BY <1>2, <3>1, <3>2 DEF SaleInv, StockFollowsSale
    <3>4. job[w].give[p] = Units(sale[s].lines, p) /\ job[w].take[p] = 0
      BY <3>2 DEF UnitsOf, None
    <3>5. job[w].give[p] \in Nat
      BY <1>1, ChargedDelta
    <3>6. sale'[s] = row
      BY <1>1, <1>2 DEF SaleInv, SaleTypeOK
    <3>7. net'[s][p] = 0
      BY <1>5, <3>3, <3>4, <3>5
    <3> QED BY <1>3, <2>1, <3>6, <3>7
  <2>2. CASE t # s
    <3>1. sale'[t] = sale[t] /\ net'[t] = net[t] /\ raced'[t] = raced[t]
      BY <1>1, <1>5, <2>2 DEF SaleInv, SaleTypeOK
    <3> QED BY <3>1 DEF SaleInv, StockFollowsSale
  <2> QED BY <2>1, <2>2
<1> QED BY <1>5, <1>6, <1>7, <1>8, <1>9 DEF SaleInv

LEMMA SaleInvStep ==
  ASSUME SaleInv, [SaleNext]_vars
  PROVE  SaleInv'
<1>1. ASSUME NEW w \in Workers, StartCheckout(w) \/ StartEdit(w) \/ StartAnnul(w)
      PROVE  SaleInv'
  BY <1>1, StartCheckoutKeepsSaleInv, StartEditKeepsSaleInv, StartAnnulKeepsSaleInv
<1>2. ASSUME NEW w \in Workers, ReverseLedger(w) PROVE SaleInv'
  BY <1>2, ReverseLedgerKeepsSaleInv
<1>3. ASSUME NEW w \in Workers, NEW p \in Products, LockProduct(w, p) PROVE SaleInv'
  BY <1>3, LockProductKeepsSaleInv
<1>4. ASSUME NEW w \in Workers, CommitCheckout(w) PROVE SaleInv'
  BY <1>4, CommitCheckoutKeepsSaleInv
<1>5. ASSUME NEW w \in Workers, CommitEdit(w) PROVE SaleInv'
  BY <1>5, CommitEditKeepsSaleInv
<1>6. ASSUME NEW w \in Workers, CommitAnnul(w) PROVE SaleInv'
  BY <1>6, CommitAnnulKeepsSaleInv
<1>7. ASSUME NEW w \in Workers, Abandon(w) PROVE SaleInv'
  BY <1>7, AbandonKeepsSaleInv
<1>8. CASE UNCHANGED vars
  <2>1. StockInv'
    BY <1>8, StockInvStep DEF vars, SaleInv
  <2>2. UNCHANGED <<job, sale, net, cash, posted, undone, form, raced>>
    BY <1>8 DEF vars, stockVars, saleVars
  <2>3. SaleTypeOK'
    BY <2>1, <2>2 DEF SaleInv, SaleTypeOK, StockInv
  <2>4. FormsMatch'
    BY <2>2 DEF SaleInv, FormsMatch, FormMatches, UnitsOf, Units
  <2>5. (FiniteLines /\ StockFollowsSale)'
    BY <2>2 DEF SaleInv, FiniteLines, StockFollowsSale
  <2> QED BY <2>1, <2>3, <2>4, <2>5 DEF SaleInv
<1> QED BY <1>1, <1>2, <1>3, <1>4, <1>5, <1>6, <1>7, <1>8 DEF SaleNext

LEMMA SaleInvariant == SaleSpec => []SaleInv
<1>1. SaleInit => SaleInv
  BY InitSaleInv
<1>2. SaleInv /\ [SaleNext]_vars => SaleInv'
  BY SaleInvStep
<1> QED BY <1>1, <1>2, PTL DEF SaleSpec

--------------------------------------------------------------------------------
\* Every variable of the sale lifecycle keeps its type.
THEOREM SaleTypeCorrect == SaleSpec => []SaleTypeOK
BY SaleInvariant, PTL DEF SaleInv

\* Checkouts, edits and annulments that interleave never oversell a branch.
THEOREM SalesNeverOversell == SaleSpec => []NoNegativeStock
BY SaleInvariant, PTL DEF SaleInv, StockInv

\* With sales in the mix, too, balances and movement history agree.
THEOREM SalesKeepLedger == SaleSpec => []LedgerMatchesStock
BY SaleInvariant, PTL DEF SaleInv, StockInv

\* What a checkout, an edit or an annulment has staged under its product locks is not
\* overtaken by the commits of others, even when the lines it reverses were.
THEOREM SalesStageCurrentRows == SaleSpec => []StagedIsCurrent
BY SaleInvariant, PTL DEF SaleInv, StockInv

\* Product.stock is the sum of the branches after any number of sales and their changes.
THEOREM SalesKeepAggregate == SaleSpec => []AggregateMatchesBranches
BY SaleInvariant, PTL DEF SaleInv, StockInv

LEMMA SalesLockInOrder == SaleSpec => []LocksInOrder
<1>1. SaleInit => LocksInOrder
  BY DEF SaleInit, Init, LocksInOrder
<1>2. SaleInv /\ LocksInOrder /\ [SaleNext]_vars => LocksInOrder'
  <2> SUFFICES ASSUME SaleInv, LocksInOrder, [SaleNext]_vars
               PROVE  \/ \E w \in Workers : \E j : Begin(w, j)
                      \/ \E w \in Workers, p \in Products : AcquireProduct(w, p)
                      \/ \E w \in Workers : Finish(w)
                      \/ UNCHANGED stockVars
    BY TransactionsKeepOrder DEF SaleInv
  <2>1. ASSUME NEW w \in Workers, StartCheckout(w) \/ StartEdit(w) \/ StartAnnul(w)
        PROVE  \E j : Begin(w, j)
    BY <2>1 DEF StartCheckout, StartEdit, StartAnnul
  <2>2. ASSUME NEW w \in Workers, CommitCheckout(w) \/ CommitEdit(w) \/ CommitAnnul(w) \/ Abandon(w)
        PROVE  Finish(w)
    BY <2>2 DEF CommitCheckout, CommitEdit, CommitAnnul, CommitStock, Abandon, Rollback
  <2> QED BY <2>1, <2>2 DEF SaleNext, ReverseLedger, LockProduct, vars
<1> QED BY <1>1, <1>2, SaleInvariant, PTL DEF SaleSpec

\* Concurrent checkouts sort the products of their carts before they lock them: no
\* number of them waits in a circle, whatever edits and annulments run next to them.
THEOREM CheckoutsNeverDeadlock == SaleSpec => []OrderedRequestsNeverDeadlock
<1>1. SaleInv /\ LocksInOrder => OrderedRequestsNeverDeadlock
  BY OrderPreventsCircles DEF SaleInv, StockInv
<1> QED BY <1>1, SaleInvariant, SalesLockInOrder, PTL

\* What is out of stock for a sale is what its lines say, whatever other sales
\* and failed attempts happened in between.
THEOREM StockFollowsEverySale == SaleSpec => []StockFollowsSale
BY SaleInvariant, PTL DEF SaleInv

\* An annulment is final for the status of the sale.
THEOREM AnnulmentIsFinal == SaleSpec => AnnulledStaysAnnulled
<1>1. SaleInv /\ [SaleNext]_vars =>
        [\A s \in Sales : sale[s].status = "anulada" => sale'[s].status = "anulada"]_vars
  <2> SUFFICES ASSUME SaleInv, SaleNext, NEW s \in Sales, sale[s].status = "anulada"
               PROVE  sale'[s].status = "anulada"
    OBVIOUS
  <2>1. PICK w \in Workers :
          \/ UNCHANGED sale
          \/ CommitCheckout(w) \/ CommitEdit(w) \/ CommitAnnul(w)
    BY DEF SaleNext, StartCheckout, StartEdit, StartAnnul, ReverseLedger, LockProduct,
           saleVars, Abandon
  <2>2. sale \in [Sales -> SaleRow]
    BY DEF SaleInv, SaleTypeOK
  <2>3. CASE UNCHANGED sale
    BY <2>3
  <2>4. CASE CommitCheckout(w)
    <3>1. PICK t \in Sales : sale[t].status = "none" /\ sale' = [sale EXCEPT ![t] = CheckedOut(w)]
      BY <2>4 DEF CommitCheckout
    <3> QED BY <2>2, <3>1
  <2>5. CASE CommitEdit(w)
    <3>1. PICK t, new : sale' = [sale EXCEPT ![t] = Edited(w, t, new)]
      BY <2>5 DEF CommitEdit
    <3>2. Edited(w, s, new).status = sale[s].status
      BY <2>2 DEF Edited, SaleRow
    <3> QED BY <2>2, <3>1, <3>2
  <2>6. CASE CommitAnnul(w)
    <3>1. PICK t : sale' = [sale EXCEPT ![t] = Annulled(t)]
      BY <2>6 DEF CommitAnnul
    <3>2. Annulled(s).status = "anulada"
      BY <2>2 DEF Annulled, SaleRow
    <3> QED BY <2>2, <3>1, <3>2
  <2> QED BY <2>1, <2>3, <2>4, <2>5, <2>6
<1> QED BY <1>1, SaleInvariant, PTL DEF SaleSpec, AnnulledStaysAnnulled

\* Two sales never share a checkout token, for any number of concurrent retries.
THEOREM TokenBuysOneSale == SaleSpec => []OneSalePerToken
<1>1. SaleInit => OneSalePerToken
  BY DEF SaleInit, OneSalePerToken, NoSale
<1>2. SaleInv /\ OneSalePerToken /\ [SaleNext]_vars => OneSalePerToken'
  <2> SUFFICES ASSUME SaleInv, OneSalePerToken, [SaleNext]_vars PROVE OneSalePerToken'
    OBVIOUS
  <2>1. \/ UNCHANGED sale
        \/ \E w \in Workers : CommitCheckout(w) \/ CommitEdit(w) \/ CommitAnnul(w)
    BY DEF SaleNext, StartCheckout, StartEdit, StartAnnul, ReverseLedger, LockProduct,
           saleVars, Abandon, vars
  <2>2. sale \in [Sales -> SaleRow]
    BY DEF SaleInv, SaleTypeOK
  <2>3. CASE UNCHANGED sale
    BY <2>3 DEF OneSalePerToken
  <2>4. ASSUME NEW w \in Workers, CommitCheckout(w) PROVE OneSalePerToken'
    <3>1. PICK t \in Sales : sale' = [sale EXCEPT ![t] = CheckedOut(w)]
      BY <2>4 DEF CommitCheckout
    <3>2. CheckedOut(w).token # NoToken =>
            \A s \in Sales : sale[s].token # CheckedOut(w).token
      BY <2>4 DEF CommitCheckout, IndexAdmits, TokenIsNew, CheckedOut
    <3> QED BY <2>2, <3>1, <3>2 DEF OneSalePerToken
  <2>5. ASSUME NEW w \in Workers, CommitEdit(w) PROVE OneSalePerToken'
    <3>1. PICK t, new : sale' = [sale EXCEPT ![t] = Edited(w, t, new)]
      BY <2>5 DEF CommitEdit
    <3>2. \A s \in Sales : Edited(w, s, new).token = sale[s].token
      BY <2>2 DEF Edited, SaleRow
    <3>3. \A s \in Sales : sale'[s].token = sale[s].token
      BY <2>2, <3>1, <3>2
    <3> QED BY <3>3 DEF OneSalePerToken
  <2>6. ASSUME NEW w \in Workers, CommitAnnul(w) PROVE OneSalePerToken'
    <3>1. PICK t : sale' = [sale EXCEPT ![t] = Annulled(t)]
      BY <2>6 DEF CommitAnnul
    <3>2. \A s \in Sales : Annulled(s).token = sale[s].token
      BY <2>2 DEF Annulled, SaleRow
    <3>3. \A s \in Sales : sale'[s].token = sale[s].token
      BY <2>2, <3>1, <3>2
    <3> QED BY <3>3 DEF OneSalePerToken
  <2> QED BY <2>1, <2>3, <2>4, <2>5, <2>6
<1> QED BY <1>1, <1>2, SaleInvariant, PTL DEF SaleSpec
================================================================================
