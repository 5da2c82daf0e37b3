---------------------------- MODULE SaleLedgerProofs ----------------------------
(***************************************************************************)
(* What a sale leaves in the drawer, in the treasury ledger and in the     *)
(* branch: proofs about SaleLifecycle that build on its stock invariant.   *)
(*                                                                         *)
(* A posting is reversed in two ways: an edit reverses and commits at      *)
(* once, an annulment writes its reversals first and commits them after    *)
(* its last product lock.  In between other changes of the same sale may   *)
(* commit, so the invariant has to say what an open annulment has staged.  *)
(* The last part shows that requests of sales are served as if each ran    *)
(* alone, which is what SerialInventory says.                              *)
(***************************************************************************)
EXTENDS SaleLifecycleProofs

\* The postings of a sale come from its committed revisions, a reversal exists only
\* for a posting and once, and at most one posting has none.
OneInForce(s) ==
  /\ \A k \in posted[s] : sale[s].status # "none" /\ k <= sale[s].rev
  /\ \A k \in Revs : undone[s][k] <= 1 /\ (undone[s][k] # 0 => k \in posted[s])
  /\ \A k, l \in Live(s) : k = l

\* Only an annulment past its ledger step has staged anything: reversals of postings
\* that are still in force, which nobody else has staged; if the sale has not changed
\* since the annulment read it, all of them, and all of its rows in the drawer.
StagedReversals(w) ==
  LET s == form[w].sale IN
  /\ form[w].undo \cup form[w].wipe # {} => job[w].kind = "annul" /\ form[w].stage = "stock"
  /\ form[w].undo \subseteq Live(s)
  /\ \A v \in Workers \ {w} : form[v].sale = s => form[v].undo \cap form[w].undo = {}
  /\ job[w].kind = "annul" /\ form[w].stage = "stock" /\ form[w].seenRev = sale[s].rev =>
       form[w].undo = Live(s) /\ form[w].wipe = cash[s]

\* One row while the sale stands and was paid that way, none otherwise.
Follows(rs, s, m) ==
  IF sale[s].status = "confirmada" /\ m \in sale[s].pay THEN \E k : rs = {k} ELSE rs = {}

Settled(s) == ~raced[s] => Follows(cash[s], s, "cash") /\ Follows(Live(s), s, "digital")

LedgerInv ==
  /\ SaleInv
  /\ \A s \in Sales : OneInForce(s) /\ Settled(s)
  /\ \A w \in Workers : StagedReversals(w)

LEMMA InitLedgerInv == SaleInit => LedgerInv
<1> SUFFICES ASSUME SaleInit PROVE LedgerInv
  OBVIOUS
<1> USE DEF SaleInit
<1>1. SaleInv
  BY InitSaleInv
<1>2. \A s \in Sales : Live(s) = {} /\ OneInForce(s)
  BY DEF Live, OneInForce
<1>3. \A s \in Sales : Settled(s)
  BY <1>2 DEF Settled, Follows, NoSale
<1>4. \A w \in Workers : StagedReversals(w)
  BY DEF StagedReversals, NoForm, Init, Idle
<1> QED BY <1>1, <1>2, <1>3, <1>4 DEF LedgerInv

--------------------------------------------------------------------------------
\* The committed rows stay and so does what the other workers have staged.
LEMMA StagingKeepsLedger ==
  ASSUME LedgerInv, SaleInv', NEW w \in Workers,
         UNCHANGED <<sale, cash, posted, undone, raced>>,
         \A v \in Workers \ {w} : job'[v] = job[v] /\ form'[v] = form[v],
         StagedReversals(w)',
         form'[w].undo = {} \/
           \A v \in Workers \ {w} : form[v].sale = form'[w].sale => form[v].undo \cap form'[w].undo = {}
  PROVE  LedgerInv'
<1>1. \A s : Live(s)' = Live(s)
  BY DEF Live
<1>2. \A s \in Sales : OneInForce(s)' /\ Settled(s)'
  BY <1>1 DEF LedgerInv, OneInForce, Settled, Follows
<1>3. ASSUME NEW v \in Workers PROVE StagedReversals(v)'
  <2>1. CASE v = w
    BY <2>1
  <2>2. CASE v # w
    <3>1. /\ job'[v] = job[v] /\ form'[v] = form[v] /\ StagedReversals(v)
          /\ Live(form[v].sale)' = Live(form[v].sale)
      BY <1>1, <2>2 DEF LedgerInv
    <3>2. \A u \in Workers \ {v} :
            form'[u].sale = form[v].sale => form'[u].undo \cap form[v].undo = {}
      BY <2>2, <3>1 DEF StagedReversals
    <3> QED BY <3>1, <3>2 DEF StagedReversals
  <2> QED BY <2>1, <2>2
<1> QED BY <1>2, <1>3 DEF LedgerInv

\* A request that starts or gives up has staged nothing in the ledger.
LEMMA EmptyFormKeepsLedger ==
  ASSUME LedgerInv, SaleInv', NEW w \in Workers, NEW f,
         UNCHANGED <<sale, cash, posted, undone, raced>>,
         \A v \in Workers \ {w} : job'[v] = job[v],
         form' = [form EXCEPT ![w] = f], f.undo = {}, f.wipe = {},
         job'[w].kind = "annul" => f.stage = "ledger"
  PROVE  LedgerInv'
<1>1. form'[w] = f /\ \A v \in Workers \ {w} : form'[v] = form[v]
  BY DEF LedgerInv, SaleInv, SaleTypeOK
<1>2. StagedReversals(w)'
  BY <1>1 DEF StagedReversals
<1> QED BY <1>1, <1>2, StagingKeepsLedger

LEMMA StartKeepsLedger ==
  ASSUME LedgerInv, SaleInv', NEW w \in Workers, StartCheckout(w) \/ StartEdit(w) \/ StartAnnul(w)
  PROVE  LedgerInv'
<1>1. job \in [Workers -> Job] /\ NoForm \in FormRow
  BY NoFormIsForm DEF LedgerInv, SaleInv, SaleTypeOK, TypeOK
<1>2. CASE StartCheckout(w)
  <2>1. PICK j, units, t, pay :
          /\ j.kind = "checkout" /\ Begin(w, j)
          /\ form' = [form EXCEPT ![w] = [NoForm EXCEPT !.qty = units, !.token = t, !.pay = pay]]
          /\ UNCHANGED <<sale, net, cash, posted, undone, raced>>
    BY <1>2 DEF StartCheckout
  <2> DEFINE f == [NoForm EXCEPT !.qty = units, !.token = t, !.pay = pay]
  <2>2. f.undo = {} /\ f.wipe = {}
    BY DEF NoForm
  <2>3. job'[w] = j /\ \A v \in Workers \ {w} : job'[v] = job[v]
    BY <1>1, <2>1 DEF Begin
  <2> HIDE DEF f
  <2>4. form' = [form EXCEPT ![w] = f]
    BY <2>1 DEF f
  <2> QED BY <2>1, <2>2, <2>3, <2>4, EmptyFormKeepsLedger
<1>3. CASE StartEdit(w)
  <2>1. PICK j, s, units, pay :
          /\ j.kind = "edit" /\ Begin(w, j)
          /\ form' = [form EXCEPT ![w] = [NoForm EXCEPT !.sale = s, !.seen = sale[s].lines,
                                            !.seenRev = sale[s].rev, !.qty = units, !.pay = pay]]
          /\ UNCHANGED <<sale, net, cash, posted, undone, raced>>
    BY <1>3 DEF StartEdit
  <2> DEFINE f == [NoForm EXCEPT !.sale = s, !.seen = sale[s].lines,
                                 !.seenRev = sale[s].rev, !.qty = units, !.pay = pay]
  <2>2. f.undo = {} /\ f.wipe = {}
    BY DEF NoForm
  <2>3. job'[w] = j /\ \A v \in Workers \ {w} : job'[v] = job[v]
    BY <1>1, <2>1 DEF Begin
  <2> HIDE DEF f
  <2>4. form' = [form EXCEPT ![w] = f]
    BY <2>1 DEF f
  <2> QED BY <2>1, <2>2, <2>3, <2>4, EmptyFormKeepsLedger
<1>4. CASE StartAnnul(w)
  <2>1. PICK j, s :
          /\ j.kind = "annul" /\ Begin(w, j)
          /\ form' = [form EXCEPT ![w] = [NoForm EXCEPT !.sale = s, !.seen = sale[s].lines,
                                            !.seenRev = sale[s].rev, !.stage = "ledger"]]
          /\ UNCHANGED <<sale, net, cash, posted, undone, raced>>
    BY <1>4 DEF StartAnnul
  <2> DEFINE f == [NoForm EXCEPT !.sale = s, !.seen = sale[s].lines,
                                 !.seenRev = sale[s].rev, !.stage = "ledger"]
  <2>2. f.undo = {} /\ f.wipe = {} /\ f.stage = "ledger"
    BY DEF NoForm
  <2>3. \A v \in Workers \ {w} : job'[v] = job[v]
    BY <1>1, <2>1 DEF Begin
  <2> HIDE DEF f
  <2>4. form' = [form EXCEPT ![w] = f]
    BY <2>1 DEF f
  <2> QED BY <2>1, <2>2, <2>3, <2>4, EmptyFormKeepsLedger
<1> QED BY <1>2, <1>3, <1>4

LEMMA AbandonKeepsLedger ==
  ASSUME LedgerInv, SaleInv', NEW w \in Workers, Abandon(w)
  PROVE  LedgerInv'
<1>1. /\ Finish(w) /\ form' = [form EXCEPT ![w] = NoForm]
      /\ UNCHANGED <<sale, cash, posted, undone, raced>>
  BY DEF Abandon, Rollback, EndForm
<1>2. job'[w] = Idle /\ \A v \in Workers \ {w} : job'[v] = job[v]
  BY <1>1 DEF Finish, LedgerInv, SaleInv, SaleTypeOK, TypeOK
<1>3. NoForm.undo = {} /\ NoForm.wipe = {} /\ Idle.kind # "annul"
  BY DEF NoForm, Idle
<1> QED BY <1>1, <1>2, <1>3, EmptyFormKeepsLedger

LEMMA LockKeepsLedger ==
  ASSUME LedgerInv, SaleInv', UNCHANGED <<job, sale, cash, posted, undone, form, raced>>
  PROVE  LedgerInv'
<1>1. \A s : Live(s)' = Live(s)
  BY DEF Live
<1>2. \A s \in Sales : OneInForce(s)' /\ Settled(s)'
  BY <1>1 DEF LedgerInv, OneInForce, Settled, Follows
<1>3. \A w \in Workers : StagedReversals(w)'
  BY <1>1 DEF LedgerInv, StagedReversals
<1> QED BY <1>2, <1>3 DEF LedgerInv

\* The rows another open change of sale s has staged are left alone.
LEMMA OthersStaged ==
  ASSUME LedgerInv, NEW w \in Workers, NEW v \in Workers \ {w}, NEW s,
         form[v].sale = s, NEW X, X \cap StagedByOthers(w, s, "undo") = {}
  PROVE  X \cap form[v].undo = {}
<1>1. form[v].undo # {} => job[v].kind # "idle"
  BY DEF LedgerInv, StagedReversals
<1>2. form[v].undo # {} => form[v]["undo"] \subseteq StagedByOthers(w, s, "undo")
  BY <1>1 DEF StagedByOthers
<1> QED BY <1>2

LEMMA ReverseLedgerKeepsLedger ==
  ASSUME LedgerInv, SaleInv', NEW w \in Workers, ReverseLedger(w)
  PROVE  LedgerInv'
<1> DEFINE s == form[w].sale
           f == [form[w] EXCEPT !.stage = "stock", !.undo = ReverseLive(s),
                                !.wipe = WipeDrawer(s)]
<1>1. /\ form' = [form EXCEPT ![w] = f] /\ job[w].kind = "annul"
      /\ Live(s) \cap StagedByOthers(w, s, "undo") = {}
      /\ UNCHANGED <<job, sale, cash, posted, undone, raced>>
  BY DEF ReverseLedger, stockVars, LedgerInv, SaleInv, SaleTypeOK
<1>2. form[w] \in FormRow /\ form \in [Workers -> FormRow]
  BY DEF LedgerInv, SaleInv, SaleTypeOK
<1>3. f.sale = s /\ f.undo = Live(s) /\ f.wipe = cash[s] /\ f.stage = "stock"
  BY <1>2 DEF FormRow, ReverseLive, WipeDrawer
<1> HIDE DEF f
<1>4. form'[w] = f /\ \A v \in Workers \ {w} : form'[v] = form[v]
  BY <1>1, <1>2
<1>5. \A v \in Workers \ {w} : form[v].sale = s => form[v].undo \cap Live(s) = {}
  BY <1>1, OthersStaged
<1>6. \A t : Live(t)' = Live(t)
  BY <1>1 DEF Live
<1>7. StagedReversals(w)'
  BY <1>1, <1>3, <1>4, <1>5, <1>6 DEF StagedReversals
<1> QED BY <1>1, <1>3, <1>4, <1>5, <1>7, StagingKeepsLedger

--------------------------------------------------------------------------------
\* A change of sale s commits.  The other sales keep their rows, so what is left to
\* show concerns s: its postings, its balance, and what others have staged for it.
LEMMA CommitKeepsLedger ==
  ASSUME LedgerInv, SaleInv', NEW w \in Workers, Finish(w), EndForm(w), NEW s \in Sales,
         \A t \in Sales \ {s} : /\ sale'[t] = sale[t] /\ cash'[t] = cash[t]
                                /\ posted'[t] = posted[t] /\ undone'[t] = undone[t]
                                /\ raced'[t] = raced[t],
         OneInForce(s)', Settled(s)',
         \A v \in Workers \ {w} : form[v].sale = s => form[v].undo \subseteq Live(s)',
         \A v \in Workers \ {w} : job[v].kind \in {"edit", "annul"} /\ form[v].sale = s =>
                                    form[v].seenRev # sale'[s].rev
  PROVE  LedgerInv'
<1>1. \A t \in Sales \ {s} : Live(t)' = Live(t)
  BY DEF Live
<1>2. \A t \in Sales : OneInForce(t)' /\ Settled(t)'
  <2> TAKE t \in Sales
  <2>1. CASE t = s
    BY <2>1
  <2>2. CASE t # s
    <3>1. /\ sale'[t] = sale[t] /\ cash'[t] = cash[t] /\ posted'[t] = posted[t]
          /\ undone'[t] = undone[t] /\ raced'[t] = raced[t] /\ Live(t)' = Live(t)
      BY <1>1, <2>2
    <3>2. OneInForce(t) /\ Settled(t)
      BY DEF LedgerInv
    <3>3. OneInForce(t)'
      BY <3>1, <3>2 DEF OneInForce
    <3>4. Settled(t)'
      BY <3>1, <3>2 DEF Settled, Follows
    <3> QED BY <3>3, <3>4
  <2> QED BY <2>1, <2>2
<1>3. /\ job'[w] = Idle /\ form'[w] = NoForm
      /\ \A v \in Workers \ {w} : job'[v] = job[v] /\ form'[v] = form[v]
  BY DEF Finish, EndForm, LedgerInv, SaleInv, SaleTypeOK, TypeOK
<1>4. NoForm.undo = {} /\ NoForm.wipe = {} /\ Idle.kind = "idle"
  BY DEF NoForm, Idle
<1>5. StagedReversals(w)'
  BY <1>3, <1>4 DEF StagedReversals
<1>6. ASSUME NEW v \in Workers \ {w} PROVE StagedReversals(v)'
  <2>1. job'[v] = job[v] /\ form'[v] = form[v] /\ StagedReversals(v) /\ form[v].sale \in Sales
    BY <1>3 DEF LedgerInv, SaleInv, SaleTypeOK, FormRow
  <2>2. \A u \in Workers \ {v} :
          form'[u].sale = form[v].sale => form'[u].undo \cap form[v].undo = {}
    BY <1>3, <1>4, <2>1 DEF StagedReversals
  <2>3. CASE form[v].sale = s
    BY <2>1, <2>2, <2>3 DEF StagedReversals
  <2>4. CASE form[v].sale # s
    <3>1. /\ Live(form[v].sale)' = Live(form[v].sale)
          /\ sale'[form[v].sale] = sale[form[v].sale] /\ cash'[form[v].sale] = cash[form[v].sale]
      BY <1>1, <2>1, <2>4
    <3> QED BY <2>1, <2>2, <3>1 DEF StagedReversals
  <2> QED BY <2>3, <2>4
<1> QED BY <1>2, <1>5, <1>6 DEF LedgerInv

\* What the commits rely on about the rows of one sale.
LEMMA SaleRows ==
  ASSUME LedgerInv, NEW s \in Sales
  PROVE  /\ sale \in [Sales -> SaleRow] /\ sale[s] \in SaleRow /\ sale[s].rev \in Nat
         /\ cash \in [Sales -> SUBSET Revs] /\ posted \in [Sales -> SUBSET Revs]
         /\ undone \in [Sales -> [Revs -> Nat]] /\ raced \in [Sales -> BOOLEAN]
         /\ Revs = 0..MaxRev /\ Revs \subseteq Nat
         /\ OneInForce(s) /\ Settled(s)
<1>1. Revs = 0..MaxRev /\ Revs \subseteq Nat
  BY MaxRevAssumption DEF Revs
<1>2. sale \in [Sales -> SaleRow] /\ sale[s] \in SaleRow
  BY DEF LedgerInv, SaleInv, SaleTypeOK
<1>3. sale[s].rev \in Nat
  BY <1>1, <1>2 DEF SaleRow
<1>4. /\ cash \in [Sales -> SUBSET Revs] /\ posted \in [Sales -> SUBSET Revs]
      /\ undone \in [Sales -> [Revs -> Nat]] /\ raced \in [Sales -> BOOLEAN]
  BY DEF LedgerInv, SaleInv, SaleTypeOK
<1>5. OneInForce(s) /\ Settled(s)
  BY DEF LedgerInv
<1> QED BY <1>1, <1>2, <1>3, <1>4, <1>5

\* The change v read sale s at a revision that is no later than the present one.
LEMMA SeenIsPast ==
  ASSUME LedgerInv, NEW v \in Workers, job[v].kind \in {"edit", "annul"}
  PROVE  /\ form[v].sale \in Sales /\ form[v].seenRev \in Nat
         /\ sale[form[v].sale].status # "none"
         /\ form[v].seenRev <= sale[form[v].sale].rev
BY MaxRevAssumption DEF LedgerInv, SaleInv, SaleTypeOK, FormRow, Revs, FormsMatch, FormMatches

LEMMA CheckoutKeepsLedger ==
  ASSUME LedgerInv, SaleInv', NEW w \in Workers, CommitCheckout(w)
  PROVE  LedgerInv'
<1>1. PICK s \in Sales :
        /\ sale[s].status = "none" /\ sale' = [sale EXCEPT ![s] = CheckedOut(w)]
        /\ cash'   = [cash   EXCEPT ![s] = IF "cash" \in form[w].pay THEN {0} ELSE {}]
        /\ posted' = [posted EXCEPT ![s] = IF "digital" \in form[w].pay THEN {0} ELSE {}]
  BY DEF CommitCheckout
<1>2. Finish(w) /\ EndForm(w) /\ UNCHANGED <<undone, raced>>
  BY DEF CommitCheckout, CommitStock
<1>3. /\ CheckedOut(w).status = "confirmada" /\ CheckedOut(w).pay = form[w].pay
      /\ CheckedOut(w).rev = 0
  BY DEF CheckedOut
<1>4. /\ sale'[s] = CheckedOut(w)
      /\ cash'[s] = IF "cash" \in form[w].pay THEN {0} ELSE {}
      /\ posted'[s] = IF "digital" \in form[w].pay THEN {0} ELSE {}
      /\ undone'[s] = undone[s]
      /\ \A t \in Sales \ {s} : /\ sale'[t] = sale[t] /\ cash'[t] = cash[t]
                                /\ posted'[t] = posted[t] /\ undone'[t] = undone[t]
                                /\ raced'[t] = raced[t]
  BY <1>1, <1>2, SaleRows
<1>5. posted[s] = {} /\ \A k \in Revs : undone[s][k] = 0
  <2>1. posted[s] = {}
    BY <1>1, SaleRows DEF OneInForce
  <2> QED BY <2>1, SaleRows DEF OneInForce
<1>6. 0 \in Revs /\ posted'[s] \subseteq Revs
  BY <1>4, SaleRows, MaxRevAssumption
<1>7. Live(s)' = posted'[s]
  BY <1>4, <1>5, <1>6 DEF Live
<1>8. OneInForce(s)'
  BY <1>3, <1>4, <1>5, <1>7 DEF OneInForce
<1>9. Settled(s)'
  BY <1>3, <1>4, <1>7 DEF Settled, Follows
<1>10. \A v \in Workers : form[v].sale = s => form[v].undo = {} /\ job[v].kind \notin {"edit", "annul"}
  BY <1>1, SeenIsPast DEF LedgerInv, StagedReversals
<1> QED BY <1>2, <1>4, <1>8, <1>9, <1>10, CommitKeepsLedger

LEMMA EditKeepsLedger ==
  ASSUME LedgerInv, SaleInv', NEW w \in Workers, CommitEdit(w)
  PROVE  LedgerInv'
<1> DEFINE new == sale[form[w].sale].rev + 1
<1>1. PICK s \in Sales : s = form[w].sale
  BY DEF LedgerInv, SaleInv, SaleTypeOK, FormRow
<1>2. /\ job[w].kind = "edit" /\ Finish(w) /\ EndForm(w)
      /\ new <= MaxRev
      /\ Live(s) \cap StagedByOthers(w, s, "undo") = {}
      /\ sale' = [sale EXCEPT ![s] = Edited(w, s, new)]
      /\ IF cash[s] = {}
         THEN cash' = [cash EXCEPT ![s] = IF "cash" \in form[w].pay THEN {new} ELSE {}]
         ELSE \E c \in cash[s] :
                cash' = [cash EXCEPT ![s] = IF "cash" \in form[w].pay THEN @ ELSE @ \ {c}]
      /\ undone' = [undone EXCEPT ![s] =
                     [k \in Revs |-> IF k \in Live(s) THEN @[k] + 1 ELSE @[k]]]
      /\ posted' = [posted EXCEPT ![s] = IF "digital" \in form[w].pay THEN @ \cup {new} ELSE @]
      /\ raced'  = [raced EXCEPT ![s] = @ \/ form[w].seenRev # sale[s].rev]
  BY <1>1 DEF CommitEdit, CommitStock, ReverseLive
<1>3. /\ sale[s] \in SaleRow /\ sale[s].rev \in Nat /\ new \in Nat /\ new > sale[s].rev
      /\ new \in Revs /\ Revs \subseteq Nat /\ sale[s].status # "none"
      /\ OneInForce(s) /\ Settled(s) /\ posted[s] \subseteq Revs
  BY <1>1, <1>2, SaleRows, SeenIsPast, MaxRevAssumption
<1>4. /\ Edited(w, s, new).status = sale[s].status /\ Edited(w, s, new).pay = form[w].pay
      /\ Edited(w, s, new).rev = new
  BY <1>3 DEF Edited, SaleRow
<1> HIDE DEF new
<1>5. /\ sale'[s] = Edited(w, s, new)
      /\ posted'[s] = IF "digital" \in form[w].pay THEN posted[s] \cup {new} ELSE posted[s]
      /\ \A k \in Revs : undone'[s][k] = IF k \in Live(s) THEN undone[s][k] + 1 ELSE undone[s][k]
      /\ raced'[s] = (raced[s] \/ form[w].seenRev # sale[s].rev)
      /\ \A t \in Sales \ {s} : /\ sale'[t] = sale[t] /\ posted'[t] = posted[t]
                                /\ undone'[t] = undone[t] /\ raced'[t] = raced[t]
  BY <1>2, SaleRows
<1>6. \A t \in Sales \ {s} : cash'[t] = cash[t]
  <2>1. PICK c : cash' = [cash EXCEPT ![s] = c]
    BY <1>2
  <2> QED BY <2>1, SaleRows
<1>7. \A k \in Live(s) : k \in posted[s] /\ k \in Revs /\ undone[s][k] = 0 /\ undone'[s][k] = 1
  <2>1. \A k \in Live(s) : k \in posted[s] /\ undone[s][k] = 0
    BY DEF Live
  <2> QED BY <1>3, <1>5, <2>1
<1>8. new \notin posted[s] /\ undone[s][new] = 0 /\ new \notin Live(s) /\ undone'[s][new] = 0
  <2>1. new \notin posted[s]
    BY <1>3 DEF OneInForce
  <2>2. undone[s][new] = 0
    BY <1>3, <2>1 DEF OneInForce
  <2> QED BY <1>3, <1>5, <1>7, <2>1, <2>2
<1>9. Live(s)' = IF "digital" \in form[w].pay THEN {new} ELSE {}
  <2>1. ASSUME NEW k \in posted[s] PROVE undone'[s][k] # 0
    <3>1. k \in Revs
      BY <1>3
    <3>2. CASE k \in Live(s)
      BY <1>7, <3>2
    <3>3. CASE k \notin Live(s)
      BY <1>5, <3>1, <3>3 DEF Live
    <3> QED BY <3>2, <3>3
  <2> QED BY <1>5, <1>8, <2>1 DEF Live
<1>10. OneInForce(s)'
  <2>1. \A k \in posted'[s] : sale'[s].status # "none" /\ k <= sale'[s].rev
    <3>1. \A k \in posted[s] : k \in Nat /\ k <= sale[s].rev
      BY <1>3 DEF OneInForce
    <3>2. \A k \in posted'[s] : k \in posted[s] \/ k = new
      BY <1>5
    <3> QED BY <1>3, <1>4, <1>5, <3>1, <3>2
  <2>2. \A k \in Revs : undone'[s][k] <= 1 /\ (undone'[s][k] # 0 => k \in posted'[s])
    BY <1>3, <1>5, <1>7 DEF OneInForce
  <2>3. \A k, l \in Live(s)' : k = l
    BY <1>9
  <2> QED BY <2>1, <2>2, <2>3 DEF OneInForce
<1>11. Settled(s)'
  <2> SUFFICES ASSUME ~raced'[s] PROVE Follows(cash[s], s, "cash")' /\ Follows(Live(s), s, "digital")'
    BY DEF Settled
  <2>1. ~raced[s] /\ form[w].seenRev = sale[s].rev
    BY <1>5
  <2>2. sale[s].status = "confirmada"
    BY <1>1, <1>2, <2>1 DEF LedgerInv, SaleInv, FormsMatch, FormMatches
  <2>3. cash[s] = {} \/ \E k : cash[s] = {k}
    BY <1>3, <2>1 DEF Settled, Follows
  <2>4. IF "cash" \in form[w].pay THEN \E k : cash'[s] = {k} ELSE cash'[s] = {}
    BY <1>2, <2>3, SaleRows
  <2>5. Follows(cash[s], s, "cash")'
    BY <1>4, <1>5, <2>2, <2>4 DEF Follows
  <2>6. Follows(Live(s), s, "digital")'
    BY <1>4, <1>5, <1>9, <2>2 DEF Follows
  <2> QED BY <2>5, <2>6
<1>12. \A v \in Workers \ {w} : form[v].sale = s => form[v].undo = {}
  <2> SUFFICES ASSUME NEW v \in Workers \ {w}, form[v].sale = s PROVE form[v].undo = {}
    OBVIOUS
  <2>1. Live(s) \cap form[v].undo = {}
    BY <1>2, OthersStaged
  <2>2. form[v].undo \subseteq Live(s)
    BY DEF LedgerInv, StagedReversals
  <2> QED BY <2>1, <2>2
<1>13. \A v \in Workers : job[v].kind \in {"edit", "annul"} /\ form[v].sale = s =>
                            form[v].seenRev # sale'[s].rev
  BY <1>3, <1>4, <1>5, SeenIsPast
<1> QED BY <1>2, <1>5, <1>6, <1>10, <1>11, <1>12, <1>13, CommitKeepsLedger

LEMMA AnnulKeepsLedger ==
  ASSUME LedgerInv, SaleInv', NEW w \in Workers, CommitAnnul(w)
  PROVE  LedgerInv'
<1>1. PICK s \in Sales : s = form[w].sale
  BY DEF LedgerInv, SaleInv, SaleTypeOK, FormRow
<1>2. /\ job[w].kind = "annul" /\ form[w].stage = "stock" /\ Finish(w) /\ EndForm(w)
      /\ sale' = [sale EXCEPT ![s] = Annulled(s)]
      /\ cash' = [cash EXCEPT ![s] = @ \ form[w].wipe]
      /\ undone' = [undone EXCEPT ![s] =
                     [k \in Revs |-> IF k \in form[w].undo THEN @[k] + 1 ELSE @[k]]]
      /\ raced'  = [raced EXCEPT ![s] = @ \/ form[w].seenRev # sale[s].rev]
      /\ posted' = posted
  BY <1>1 DEF CommitAnnul, CommitStock
<1>3. /\ sale[s] \in SaleRow /\ sale[s].rev \in Nat /\ Revs \subseteq Nat
      /\ OneInForce(s) /\ Settled(s) /\ posted[s] \subseteq Revs
      /\ StagedReversals(w) /\ form[w].undo \subseteq Live(s)
  BY <1>1, SaleRows DEF LedgerInv, StagedReversals
<1>4. Annulled(s).status = "anulada" /\ Annulled(s).rev = sale[s].rev + 1
  BY <1>3 DEF Annulled, SaleRow
<1>5. /\ sale'[s] = Annulled(s) /\ cash'[s] = cash[s] \ form[w].wipe /\ posted'[s] = posted[s]
      /\ \A k \in Revs : undone'[s][k] =
           IF k \in form[w].undo THEN undone[s][k] + 1 ELSE undone[s][k]
      /\ raced'[s] = (raced[s] \/ form[w].seenRev # sale[s].rev)
      /\ \A t \in Sales \ {s} : /\ sale'[t] = sale[t] /\ cash'[t] = cash[t]
                                /\ posted'[t] = posted[t] /\ undone'[t] = undone[t]
                                /\ raced'[t] = raced[t]
  BY <1>2, SaleRows
<1>6. \A k \in Live(s) : k \in posted[s] /\ k \in Revs /\ undone[s][k] = 0
  <2>1. \A k \in Live(s) : k \in posted[s] /\ undone[s][k] = 0
    BY DEF Live
  <2> QED BY <1>3, <2>1
<1>7. Live(s)' = Live(s) \ form[w].undo
  <2>1. ASSUME NEW k \in posted[s]
        PROVE  undone'[s][k] = 0 <=> undone[s][k] = 0 /\ k \notin form[w].undo
    <3>1. k \in Revs /\ undone[s][k] \in Nat
      BY <1>3, SaleRows
    <3> QED BY <1>5, <3>1
  <2> QED BY <1>5, <2>1 DEF Live
<1>8. OneInForce(s)'
  <2>1. \A k \in posted'[s] : sale'[s].status # "none" /\ k <= sale'[s].rev
    <3>1. \A k \in posted[s] : k \in Nat /\ k <= sale[s].rev
      BY <1>3 DEF OneInForce
    <3> QED BY <1>3, <1>4, <1>5, <3>1
  <2>2. \A k \in Revs : undone'[s][k] <= 1 /\ (undone'[s][k] # 0 => k \in posted'[s])
    BY <1>3, <1>5, <1>6 DEF OneInForce
  <2>3. \A k, l \in Live(s)' : k = l
    BY <1>3, <1>7 DEF OneInForce
  <2> QED BY <2>1, <2>2, <2>3 DEF OneInForce
<1>9. Settled(s)'
  <2> SUFFICES ASSUME ~raced'[s] PROVE Follows(cash[s], s, "cash")' /\ Follows(Live(s), s, "digital")'
    BY DEF Settled
  <2>1. form[w].seenRev = sale[s].rev
    BY <1>5
  <2>2. form[w].undo = Live(s) /\ form[w].wipe = cash[s]
    BY <1>1, <1>2, <1>3, <2>1 DEF StagedReversals
  <2>3. cash'[s] = {} /\ Live(s)' = {}
    BY <1>5, <1>7, <2>2
  <2> QED BY <1>4, <1>5, <2>3 DEF Follows
<1>10. \A v \in Workers \ {w} : form[v].sale = s => form[v].undo \subseteq Live(s)'
  <2> SUFFICES ASSUME NEW v \in Workers \ {w}, form[v].sale = s
               PROVE  form[v].undo \subseteq Live(s)'
    OBVIOUS
  <2>1. form[v].undo \subseteq Live(s)
    BY DEF LedgerInv, StagedReversals
  <2>2. form[v].undo \cap form[w].undo = {}
    BY <1>1, <1>3 DEF StagedReversals
  <2> QED BY <1>7, <2>1, <2>2
<1>11. \A v \in Workers : job[v].kind \in {"edit", "annul"} /\ form[v].sale = s =>
                            form[v].seenRev # sale'[s].rev
  BY <1>3, <1>4, <1>5, SeenIsPast
<1> QED BY <1>2, <1>5, <1>8, <1>9, <1>10, <1>11, CommitKeepsLedger

LEMMA LedgerInvStep ==
  ASSUME LedgerInv, [SaleNext]_vars
  PROVE  LedgerInv'
<1>1. SaleInv'
  BY SaleInvStep DEF LedgerInv
<1>2. ASSUME NEW w \in Workers, NEW p \in Products, LockProduct(w, p) PROVE LedgerInv'
  BY <1>1, <1>2, LockKeepsLedger DEF LockProduct, AcquireProduct, saleVars
<1>3. CASE UNCHANGED vars
  BY <1>1, <1>3, LockKeepsLedger DEF vars, stockVars, saleVars
<1> QED BY <1>1, <1>2, <1>3, StartKeepsLedger, ReverseLedgerKeepsLedger, CheckoutKeepsLedger,
           EditKeepsLedger, AnnulKeepsLedger, AbandonKeepsLedger DEF SaleNext

LEMMA LedgerInvariant == SaleSpec => []LedgerInv
<1>1. LedgerInv /\ [SaleNext]_vars => LedgerInv'
  BY LedgerInvStep
<1> QED BY <1>1, InitLedgerInv, PTL DEF SaleSpec

--------------------------------------------------------------------------------
\* Whatever edits and annulments of a sale overlap, also from copies out of date, no
\* posting is reversed twice and no two are in force at once.
THEOREM NoPostingTwice == SaleSpec => []NoDoublePosting
<1>1. LedgerInv => NoDoublePosting
  <2> SUFFICES ASSUME LedgerInv, NEW s \in Sales
               PROVE  Cardinality(Live(s)) <= 1 /\ \A k \in Revs : undone[s][k] <= 1
    BY DEF NoDoublePosting
  <2>1. (Live(s) = {} \/ \E k : Live(s) = {k}) /\ \A k \in Revs : undone[s][k] <= 1
    BY DEF LedgerInv, OneInForce
  <2>2. Cardinality(Live(s)) \in {0, 1}
    BY <2>1, FS_EmptySet, FS_Singleton
  <2> QED BY <2>1, <2>2
<1> QED BY <1>1, LedgerInvariant, PTL

\* Drawer and treasury ledger follow every sale none of whose changes started from a
\* copy that was out of date.
THEOREM TreasuryFollowsEverySale == SaleSpec => []TreasuryFollowsSale
<1>1. LedgerInv => TreasuryFollowsSale
  <2> SUFFICES ASSUME LedgerInv, NEW s \in Sales, ~raced[s]
               PROVE  LET owed(m) == IF sale[s].status = "confirmada" /\ m \in sale[s].pay
                                     THEN 1 ELSE 0
                      IN /\ Cardinality(cash[s]) = owed("cash")
                         /\ Cardinality(Live(s)) = owed("digital")
    BY DEF TreasuryFollowsSale
  <2>1. Follows(cash[s], s, "cash") /\ Follows(Live(s), s, "digital")
    BY DEF LedgerInv, Settled
  <2> QED BY <2>1, FS_EmptySet, FS_Singleton DEF Follows
<1> QED BY <1>1, LedgerInvariant, PTL

--------------------------------------------------------------------------------
\* Units are neither made nor lost: what a branch has, plus what the movements charged
\* to its sales took out, is what it opened with.  This holds through races, where the
\* movements charged to a sale and its lines may differ.
Recorded == {s \in Sales : sale[s].status # "none"}

OfBranch(b) == {s \in Recorded : sale[s].branch = b}

Charged(p) == [s \in Sales |-> net[s][p]]

UnitsAccounted ==
  \A b \in Branches, p \in Products :
    stock[b][p] + SumOver(Charged(p), OfBranch(b)) = OpeningStock[b][p]

UnitsInv ==
  /\ SaleInv
  /\ IsFiniteSet(Recorded)
  /\ \A s \in Sales \ Recorded, p \in Products : net[s][p] = 0
  /\ UnitsAccounted

LEMMA InitUnitsInv == SaleInit => UnitsInv
<1> SUFFICES ASSUME SaleInit PROVE UnitsInv
  OBVIOUS
<1>1. Recorded = {} /\ IsFiniteSet(Recorded)
  BY FS_EmptySet DEF SaleInit, Recorded, NoSale
<1>2. \A s \in Sales, p \in Products : net[s][p] = 0
  BY DEF SaleInit, None
<1>3. ASSUME NEW b \in Branches, NEW p \in Products
      PROVE  stock[b][p] + SumOver(Charged(p), OfBranch(b)) = OpeningStock[b][p]
  <2>1. OfBranch(b) = {}
    BY <1>1 DEF OfBranch
  <2>2. SumOver(Charged(p), OfBranch(b)) = 0
    BY <2>1, FS_EmptySet, SumOverUnfolds
  <2>3. OpeningStock[b][p] \in Nat /\ stock[b][p] = OpeningStock[b][p]
    BY OpeningAssumption DEF SaleInit, Init
  <2> QED BY <2>2, <2>3
<1> QED BY <1>1, <1>2, <1>3, InitSaleInv DEF UnitsInv, UnitsAccounted

\* The sales of a branch and the units charged to them are finite and whole.
LEMMA ChargedIsSum ==
  ASSUME UnitsInv, NEW b \in Branches, NEW p \in Products
  PROVE  /\ IsFiniteSet(OfBranch(b)) /\ OfBranch(b) \subseteq Sales
         /\ \A s \in Sales : Charged(p)[s] = net[s][p] /\ net[s][p] \in Int
         /\ SumOver(Charged(p), OfBranch(b)) \in Int
         /\ stock[b][p] \in Int
<1>1. OfBranch(b) \in SUBSET Recorded /\ OfBranch(b) \subseteq Sales
  BY DEF OfBranch, Recorded
<1>2. IsFiniteSet(OfBranch(b))
  BY <1>1, FS_Subset DEF UnitsInv
<1>3. \A s \in Sales : Charged(p)[s] = net[s][p] /\ net[s][p] \in Int
  BY DEF Charged, UnitsInv, SaleInv, SaleTypeOK
<1>4. SumOver(Charged(p), OfBranch(b)) \in Int
  BY <1>1, <1>2, <1>3, SumOverInt
<1> QED BY <1>1, <1>2, <1>3, <1>4 DEF UnitsInv, SaleInv, SaleTypeOK, TypeOK

LEMMA SameSalesKeepUnits ==
  ASSUME UnitsInv, SaleInv', UNCHANGED <<stock, sale, net>>
  PROVE  UnitsInv'
<1>1. Recorded' = Recorded /\ \A b : OfBranch(b)' = OfBranch(b)
  BY DEF Recorded, OfBranch
<1>2. \A p : Charged(p)' = Charged(p)
  BY DEF Charged
<1> QED BY <1>1, <1>2 DEF UnitsInv, UnitsAccounted

\* What a commit of w takes out of its branch it charges to sale s, which belongs to
\* that branch, and to no other.
LEMMA ChargeKeepsUnits ==
  ASSUME UnitsInv, SaleInv', NEW w \in Workers, CommitStock(w), NEW s \in Sales, ChargeTo(s, w),
         job[w].kind \in {"checkout", "edit", "annul"},
         \A t \in Sales \ {s} : sale'[t] = sale[t],
         sale'[s].status # "none", sale'[s].branch = job[w].branch,
         sale[s].status # "none" => sale[s].branch = job[w].branch
  PROVE  UnitsInv'
<1>0. PICK B \in Branches : B = job[w].branch
  BY DEF UnitsInv, SaleInv, SaleTypeOK, TypeOK, Job
<1>1. job[w].branch = B /\ job[w].target = B /\ job[w].products = Touched(job[w].take, job[w].give)
  BY <1>0 DEF UnitsInv, SaleInv, FormsMatch, FormMatches
<1>2. Recorded' = Recorded \cup {s}
  BY DEF Recorded
<1>3. IsFiniteSet(Recorded')
  BY <1>2, FS_AddElement DEF UnitsInv
<1>4. /\ OfBranch(B)' = OfBranch(B) \cup {s}
      /\ \A b \in Branches \ {B} : OfBranch(b)' = OfBranch(b) /\ s \notin OfBranch(b)
  BY <1>1, <1>2 DEF OfBranch, Recorded
<1>5. ASSUME NEW p \in Products
      PROVE  /\ \A t \in Sales \ {s} : net'[t] = net[t]
             /\ net'[s][p] = net[s][p] + (job[w].take[p] - job[w].give[p])
             /\ job[w].take[p] - job[w].give[p] \in Int
  <2>1. /\ rows[w][job[w].branch][p].delta = job[w].give[p] - job[w].take[p]
        /\ job[w].give[p] \in Nat /\ job[w].take[p] \in Nat
    BY ChargedDelta DEF UnitsInv
  <2>2. net \in [Sales -> [Products -> Int]]
    BY DEF UnitsInv, SaleInv, SaleTypeOK
  <2>3. net' = [net EXCEPT ![s] =
                 [q \in Products |-> net[s][q] - rows[w][job[w].branch][q].delta]]
    BY <2>2 DEF ChargeTo
  <2>4. net'[s][p] = net[s][p] - (job[w].give[p] - job[w].take[p])
    BY <2>1, <2>2, <2>3
  <2>5. net[s][p] \in Int
    BY <2>2
  <2> QED BY <2>1, <2>2, <2>3, <2>4, <2>5
<1>6. \A t \in Sales \ Recorded', p \in Products : net'[t][p] = 0
  BY <1>2, <1>5 DEF UnitsInv
<1>7. ASSUME NEW b \in Branches, NEW p \in Products
      PROVE  stock'[b][p] + SumOver(Charged(p), OfBranch(b))' = OpeningStock[b][p]
  <2> DEFINE d == job[w].take[p] - job[w].give[p]
             f == Charged(p)
             g == [t \in Sales |-> net'[t][p]]
  <2>1. SumOver(Charged(p), OfBranch(b))' = SumOver(g, OfBranch(b)')
    BY DEF Charged
  <2>2. /\ IsFiniteSet(OfBranch(b)) /\ OfBranch(b) \subseteq Sales
        /\ \A t \in Sales : f[t] = net[t][p] /\ net[t][p] \in Int
        /\ SumOver(f, OfBranch(b)) \in Int /\ stock[b][p] \in Int
    BY ChargedIsSum
  <2>3. stock[b][p] + SumOver(f, OfBranch(b)) = OpeningStock[b][p]
    BY DEF UnitsInv, UnitsAccounted
  <2>4. d \in Int /\ g[s] = f[s] + d /\ \A t \in Sales \ {s} : g[t] = f[t]
    BY <1>5, <2>2
  <2>5. stock'[b][p] = IF b = B THEN stock[b][p] - d ELSE stock[b][p]
    <3>1. stock'[b][p] = stock[b][p]
            + (IF p \in job[w].products THEN Delta(job[w], b, p, stock[b][p]) ELSE 0)
      BY CommitAppliesDelta DEF UnitsInv, SaleInv
    <3>2. job[w].give[p] \in Nat /\ job[w].take[p] \in Nat
      BY ChargedDelta DEF UnitsInv
    <3>3. p \notin job[w].products => job[w].give[p] = 0 /\ job[w].take[p] = 0
      BY <1>1, <3>2 DEF Touched
    <3>4. Delta(job[w], b, p, stock[b][p]) = IF b = B THEN job[w].give[p] - job[w].take[p] ELSE 0
      BY <1>1, <3>2 DEF Delta
    <3> QED BY <2>2, <3>1, <3>2, <3>3, <3>4
  <2> HIDE DEF f, g, d
  <2>6. CASE b # B
    <3>1. OfBranch(b)' = OfBranch(b) /\ s \notin OfBranch(b)
      BY <1>4, <2>6
    <3>2. \A t \in OfBranch(b) : g[t] = f[t]
      BY <2>2, <2>4, <3>1
    <3>3. SumOver(g, OfBranch(b)) = SumOver(f, OfBranch(b))
      BY <2>2, <3>2, SumOverCongruent
    <3> QED BY <2>1, <2>3, <2>5, <2>6, <3>1, <3>3
  <2>7. CASE b = B /\ s \in OfBranch(b)
    <3>1. OfBranch(b)' = OfBranch(b)
      BY <1>4, <2>7
    <3>2. SumOver(g, OfBranch(b)) = SumOver(f, OfBranch(b)) + d
      BY <2>2, <2>4, <2>7, SumOverShift
    <3> QED BY <2>1, <2>2, <2>3, <2>4, <2>5, <2>7, <3>1, <3>2
  <2>8. CASE b = B /\ s \notin OfBranch(b)
    <3>1. s \notin Recorded
      BY <1>1, <2>8 DEF OfBranch, Recorded
    <3>2. f[s] = 0
      BY <2>2, <3>1 DEF UnitsInv
    <3> DEFINE S == OfBranch(b) \cup {s}
    <3>3. OfBranch(b)' = S /\ S \ {s} = OfBranch(b)
      BY <1>4, <2>8
    <3>4. IsFiniteSet(S) /\ s \in S /\ \A t \in S : g[t] \in Int
      BY <2>2, <2>4, FS_AddElement
    <3> HIDE DEF S
    <3>5. SumOver(g, S) = g[s] + SumOver(g, OfBranch(b))
      BY <3>3, <3>4, SumOverRemove
    <3>6. SumOver(g, OfBranch(b)) = SumOver(f, OfBranch(b))
      BY <2>2, <2>4, <2>8, SumOverCongruent
    <3> QED BY <2>1, <2>2, <2>3, <2>4, <2>5, <2>8, <3>2, <3>3, <3>5, <3>6
  <2> QED BY <2>6, <2>7, <2>8
<1> QED BY <1>3, <1>6, <1>7 DEF UnitsInv, UnitsAccounted

LEMMA UnitsInvStep ==
  ASSUME UnitsInv, [SaleNext]_vars
  PROVE  UnitsInv'
<1>1. SaleInv'
  BY SaleInvStep DEF UnitsInv
<1>2. ASSUME NEW w \in Workers,
             \/ StartCheckout(w) \/ StartEdit(w) \/ StartAnnul(w) \/ ReverseLedger(w)
             \/ \E p \in Products : LockProduct(w, p)
             \/ Abandon(w)
      PROVE  UnitsInv'
  BY <1>1, <1>2, SameSalesKeepUnits DEF StartCheckout, StartEdit, StartAnnul, Begin, ReverseLedger,
     stockVars, LockProduct, AcquireProduct, saleVars, Abandon, Rollback
<1>3. CASE UNCHANGED vars
  BY <1>1, <1>3, SameSalesKeepUnits DEF vars, stockVars, saleVars
<1>4. ASSUME NEW w \in Workers, CommitCheckout(w) PROVE UnitsInv'
  <2>1. PICK s \in Sales : /\ sale[s].status = "none" /\ sale' = [sale EXCEPT ![s] = CheckedOut(w)]
                           /\ ChargeTo(s, w)
    BY <1>4 DEF CommitCheckout
  <2>2. job[w].kind = "checkout" /\ CommitStock(w)
    BY <1>4 DEF CommitCheckout
  <2>3. sale'[s] = CheckedOut(w) /\ \A t \in Sales \ {s} : sale'[t] = sale[t]
    BY <2>1 DEF UnitsInv, SaleInv, SaleTypeOK
  <2>4. CheckedOut(w).status = "confirmada" /\ CheckedOut(w).branch = job[w].branch
    BY DEF CheckedOut
  <2> QED BY <1>1, <2>1, <2>2, <2>3, <2>4, ChargeKeepsUnits
<1>5. ASSUME NEW w \in Workers, CommitEdit(w) \/ CommitAnnul(w) PROVE UnitsInv'
  <2> DEFINE s == form[w].sale
  <2>1. /\ job[w].kind \in {"edit", "annul"} /\ CommitStock(w) /\ ChargeTo(s, w)
        /\ \/ \E new : sale' = [sale EXCEPT ![s] = Edited(w, s, new)]
           \/ sale' = [sale EXCEPT ![s] = Annulled(s)]
    BY <1>5 DEF CommitEdit, CommitAnnul
  <2>2. /\ s \in Sales /\ sale[s] \in SaleRow /\ sale \in [Sales -> SaleRow]
        /\ sale[s].status # "none" /\ sale[s].branch = job[w].branch
    BY <2>1 DEF UnitsInv, SaleInv, SaleTypeOK, FormRow, FormsMatch, FormMatches
  <2>3. /\ \A new : Edited(w, s, new).status = sale[s].status /\ Edited(w, s, new).branch = sale[s].branch
        /\ Annulled(s).status = "anulada" /\ Annulled(s).branch = sale[s].branch
    BY <2>2 DEF Edited, Annulled, SaleRow
  <2> HIDE DEF s
  <2>4. /\ sale'[s].status # "none" /\ sale'[s].branch = sale[s].branch
        /\ \A t \in Sales \ {s} : sale'[t] = sale[t]
    BY <2>1, <2>2, <2>3
  <2> QED BY <1>1, <2>1, <2>2, <2>4, ChargeKeepsUnits
<1> QED BY <1>2, <1>3, <1>4, <1>5 DEF SaleNext

LEMMA UnitsInvariant == SaleSpec => []UnitsInv
<1>1. UnitsInv /\ [SaleNext]_vars => UnitsInv'
  BY UnitsInvStep
<1> QED BY <1>1, InitUnitsInv, PTL DEF SaleSpec

\* Every unit that left a branch is charged to a sale of that branch, also when changes
\* of a sale race: a race falsifies a sale's lines, never the stock.
THEOREM EveryUnitIsAccounted == SaleSpec => []UnitsAccounted
BY UnitsInvariant, PTL DEF UnitsInv

\* Units in a branch plus units in its standing sales are what it opened with, as long
\* as no change of a sale has raced, and whatever was rolled back on the way.
THEOREM NoUnitIsLost == SaleSpec => []UnitsConserved
<1>1. UnitsInv => UnitsConserved
  <2> SUFFICES ASSUME UnitsInv, \A s \in Sales : ~raced[s], NEW b \in Branches, NEW p \in Products
               PROVE  LET standing == {s \in Sales : sale[s].status = "confirmada" /\ sale[s].branch = b}
                      IN stock[b][p] + SumFunction([s \in standing |-> Units(sale[s].lines, p)])
                           = OpeningStock[b][p]
    BY DEF UnitsConserved
  <2> DEFINE standing == {s \in Sales : sale[s].status = "confirmada" /\ sale[s].branch = b}
             g == [s \in standing |-> Units(sale[s].lines, p)]
             f == Charged(p)
  <2>1. /\ IsFiniteSet(OfBranch(b)) /\ OfBranch(b) \subseteq Sales
        /\ \A s \in Sales : f[s] = net[s][p] /\ net[s][p] \in Int
    BY ChargedIsSum
  <2>2. standing \subseteq OfBranch(b)
    BY DEF OfBranch, Recorded
  <2>3. \A s \in Sales : net[s][p] = IF sale[s].status = "confirmada"
                                     THEN Units(sale[s].lines, p) ELSE 0
    BY DEF UnitsInv, SaleInv, StockFollowsSale
  <2>4. \A s \in OfBranch(b) \ standing : f[s] = 0
    BY <2>1, <2>3 DEF OfBranch
  <2>5. \A s \in standing : g[s] = f[s]
    BY <2>1, <2>3
  <2>6. SumFunction(g) = SumOver(g, standing)
    <3>1. DOMAIN g = standing
      OBVIOUS
    <3> HIDE DEF g, standing
    <3> QED BY <3>1, SumOverIsLibrarySum DEF SumFunction
  <2>7. stock[b][p] + SumOver(f, OfBranch(b)) = OpeningStock[b][p]
    BY DEF UnitsInv, UnitsAccounted
  <2> HIDE DEF standing, g, f
  <2>8. IsFiniteSet(standing)
    BY <2>1, <2>2, FS_Subset
  <2>9. SumOver(g, standing) = SumOver(f, standing)
    BY <2>5, <2>8, SumOverCongruent
  <2>10. \A s \in OfBranch(b) : f[s] \in Int
    BY <2>1
  <2>11. SumOver(f, OfBranch(b)) = SumOver(f, standing)
    BY <2>1, <2>2, <2>4, <2>10, SumOverNonZero
  <2>12. stock[b][p] + SumFunction(g) = OpeningStock[b][p]
    BY <2>6, <2>7, <2>9, <2>11
  <2> QED BY <2>12 DEF standing, g
<1> QED BY <1>1, UnitsInvariant, PTL

--------------------------------------------------------------------------------
\* "A cancelled sale is immutable" holds as far as the code keeps it: a change that
\* moves an annulled sale in any way has loaded it before it was annulled, and the sale
\* counts as raced from then on.
AnnulledUntilRaced ==
  [][\A s \in Sales : sale[s].status = "anulada" /\ ~raced'[s] =>
       UNCHANGED <<sale[s], net[s], cash[s], posted[s], undone[s]>>]_vars

\* An annulled sale keeps its lines, its stock, its drawer and its postings, unless a
\* change that was already under way when it was annulled commits later.
THEOREM OnlyRacesTouchAnnulledSales == SaleSpec => AnnulledUntilRaced
<1>1. SaleInv /\ [SaleNext]_vars =>
        [\A s \in Sales : sale[s].status = "anulada" /\ ~raced'[s] =>
           UNCHANGED <<sale[s], net[s], cash[s], posted[s], undone[s]>>]_vars
  <2> SUFFICES ASSUME SaleInv, SaleNext, NEW s \in Sales, sale[s].status = "anulada", ~raced'[s]
               PROVE  UNCHANGED <<sale[s], net[s], cash[s], posted[s], undone[s]>>
    OBVIOUS
  <2>0. /\ sale \in [Sales -> SaleRow] /\ net \in [Sales -> [Products -> Int]]
        /\ cash \in [Sales -> SUBSET Revs] /\ posted \in [Sales -> SUBSET Revs]
        /\ undone \in [Sales -> [Revs -> Nat]] /\ raced \in [Sales -> BOOLEAN]
    BY DEF SaleInv, SaleTypeOK
  <2>1. PICK w \in Workers :
          \/ UNCHANGED <<sale, net, cash, posted, undone>>
          \/ CommitCheckout(w) \/ CommitEdit(w) \/ CommitAnnul(w)
    BY DEF SaleNext, StartCheckout, StartEdit, StartAnnul, ReverseLedger, LockProduct,
           saleVars, Abandon
  <2>2. ASSUME NEW t \in Sales \ {s}, ChargeTo(t, w), \E c : sale' = [sale EXCEPT ![t] = c],
               \E c : cash' = [cash EXCEPT ![t] = c], posted' = posted \/ \E c : posted' = [posted EXCEPT ![t] = c],
               undone' = undone \/ \E c : undone' = [undone EXCEPT ![t] = c]
        PROVE  UNCHANGED <<sale[s], net[s], cash[s], posted[s], undone[s]>>
    BY <2>0, <2>2 DEF ChargeTo
  <2>3. CASE CommitCheckout(w)
    <3>1. PICK t \in Sales :
            /\ sale[t].status = "none" /\ sale' = [sale EXCEPT ![t] = CheckedOut(w)]
            /\ \E c : cash' = [cash EXCEPT ![t] = c]
            /\ \E c : posted' = [posted EXCEPT ![t] = c]
            /\ ChargeTo(t, w) /\ undone' = undone
      BY <2>3 DEF CommitCheckout
    <3>2. t # s
      BY <3>1
    <3> QED BY <2>2, <3>1, <3>2
  <2>4. CASE CommitEdit(w) \/ CommitAnnul(w)
    <3>1. PICK t \in Sales : t = form[w].sale
      BY DEF SaleInv, SaleTypeOK, FormRow
    <3>2. /\ job[w].kind \in {"edit", "annul"} /\ ChargeTo(t, w)
          /\ \E c : sale' = [sale EXCEPT ![t] = c]
          /\ \E c : cash' = [cash EXCEPT ![t] = c]
          /\ posted' = posted \/ \E c : posted' = [posted EXCEPT ![t] = c]
          /\ \E c : undone' = [undone EXCEPT ![t] = c]
          /\ raced' = [raced EXCEPT ![t] = @ \/ form[w].seenRev # sale[t].rev]
      <4>1. CASE CommitEdit(w)
        <5>1. \E c : cash' = [cash EXCEPT ![t] = c]
          BY <3>1, <4>1 DEF CommitEdit
        <5>2. \E c : posted' = [posted EXCEPT ![t] = c]
          BY <3>1, <4>1 DEF CommitEdit
        <5> QED BY <3>1, <4>1, <5>1, <5>2 DEF CommitEdit
      <4>2. CASE CommitAnnul(w)
        BY <3>1, <4>2 DEF CommitAnnul
      <4> QED BY <2>4, <4>1, <4>2
    <3>3. t # s
      <4> SUFFICES ASSUME t = s PROVE FALSE
        OBVIOUS
      <4>1. form[w].seenRev = sale[t].rev
        BY <2>0, <3>2
      <4>2. sale[t].status = "confirmada"
        BY <3>1, <3>2, <4>1 DEF SaleInv, FormsMatch, FormMatches
      <4> QED BY <4>2
    <3> QED BY <2>2, <3>2, <3>3
  <2>5. CASE UNCHANGED <<sale, net, cash, posted, undone>>
    BY <2>5
  <2> QED BY <2>1, <2>3, <2>4, <2>5
<1> QED BY <1>1, SaleInvariant, PTL DEF SaleSpec, AnnulledUntilRaced

--------------------------------------------------------------------------------
\* What a checkout, an edit or an annulment asks of its branch.
SaleRequest(kind, b, take, give) ==
  [kind |-> kind, branch |-> b, target |-> b, take |-> take, give |-> give,
   products |-> Touched(take, give)]

SaleRequests ==
  {SaleRequest(kind, b, take, give) :
     kind \in {"checkout", "edit", "annul"}, b \in Branches,
     take \in [Products -> Nat], give \in [Products -> Nat]}

SerialSales == INSTANCE SerialInventory WITH Requests <- SaleRequests

LEMMA SaleJobsAreRequests ==
  ASSUME SaleInv, NEW w \in Workers, job[w].kind \in {"checkout", "edit", "annul"}
  PROVE  job[w] \in SaleRequests
<1>1. job[w] \in Job
  BY DEF SaleInv, SaleTypeOK, TypeOK
<1>2. job[w].branch = job[w].target /\ job[w].products = Touched(job[w].take, job[w].give)
  BY DEF SaleInv, FormsMatch, FormMatches
<1>3. job[w] = SaleRequest(job[w].kind, job[w].branch, job[w].take, job[w].give)
  BY <1>1, <1>2 DEF Job, SaleRequest
<1>4. job[w].branch \in Branches /\ job[w].take \in [Products -> Nat] /\ job[w].give \in [Products -> Nat]
  BY <1>1 DEF Job
<1> QED BY <1>3, <1>4 DEF SaleRequests

\* Serving a request does not depend on which other requests there are.
LEMMA SameService ==
  /\ SerialSales!Init <=> Serial!Init
  /\ \A j : SerialSales!Serve(j) <=> Serial!Serve(j)
<1>1. \A j, b, p : SerialSales!Effect(j, b, p) = Serial!Effect(j, b, p)
  BY DEF SerialSales!Effect, Serial!Effect, SerialSales!Delta, Serial!Delta
<1>2. \A levels : SerialSales!CompanyTotal(levels) = Serial!CompanyTotal(levels)
  BY DEF SerialSales!CompanyTotal, SerialSales!SumFunction, SerialSales!SumFunctionOnSet,
         SerialSales!FoldFunctionOnSet, SerialSales!MapThenFoldSet,
         Serial!CompanyTotal, Serial!SumFunction, Serial!SumFunctionOnSet,
         Serial!FoldFunctionOnSet, Serial!MapThenFoldSet
<1>3. \A kind : SerialSales!Consolidates(kind) = Serial!Consolidates(kind)
  BY DEF SerialSales!Consolidates, Serial!Consolidates
<1>4. SerialSales!None = Serial!None
  BY DEF SerialSales!None, Serial!None
<1>5. SerialSales!Init <=> Serial!Init
  BY <1>2, <1>4 DEF SerialSales!Init, Serial!Init
<1>6. \A j : SerialSales!Serve(j) <=> Serial!Serve(j)
  BY <1>1, <1>2, <1>3 DEF SerialSales!Serve, Serial!Serve
<1> QED BY <1>5, <1>6

\* However checkouts, edits and annulments interleave, and whatever out of date copies of
\* a sale they start from, they change the stock one whole request at a time, each on the
\* balances the last one left.
THEOREM SalesAreServedWhole == SaleSpec => SerialSales!Spec
<1>1. SaleInit => SerialSales!Init
  BY SerialOperators, SameService DEF SaleInit, Init, Serial!Init
<1>2. SaleInv /\ [SaleNext]_vars => [SerialSales!Next]_(SerialSales!vars)
  <2> SUFFICES ASSUME SaleInv, [SaleNext]_vars PROVE [SerialSales!Next]_(SerialSales!vars)
    OBVIOUS
  <2>1. ASSUME NEW w \in Workers, CommitCheckout(w) \/ CommitEdit(w) \/ CommitAnnul(w)
        PROVE  SerialSales!Next
    <3>1. CommitStock(w) /\ job[w].kind \in {"checkout", "edit", "annul"}
      BY <2>1 DEF CommitCheckout, CommitEdit, CommitAnnul
    <3>2. job[w] \in SaleRequests /\ SerialSales!Serve(job[w])
      BY <3>1, SaleJobsAreRequests, CommitServes, SameService DEF SaleInv
    <3> QED BY <3>2 DEF SerialSales!Next
  <2>2. ASSUME NEW w \in Workers,
               \/ StartCheckout(w) \/ StartEdit(w) \/ StartAnnul(w) \/ ReverseLedger(w)
               \/ \E p \in Products : LockProduct(w, p)
               \/ Abandon(w)
        PROVE  UNCHANGED SerialSales!vars
    BY <2>2 DEF StartCheckout, StartEdit, StartAnnul, Begin, ReverseLedger, stockVars,
       LockProduct, AcquireProduct, Abandon, Rollback, SerialSales!vars
  <2>3. CASE UNCHANGED vars
    BY <2>3 DEF vars, stockVars, SerialSales!vars
  <2> QED BY <2>1, <2>2, <2>3 DEF SaleNext
<1> QED BY <1>1, <1>2, SaleInvariant, PTL DEF SaleSpec, SerialSales!Spec
================================================================================
