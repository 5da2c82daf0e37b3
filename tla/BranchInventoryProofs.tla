------------------------- MODULE BranchInventoryProofs -------------------------
(***************************************************************************)
(* Proofs about BranchInventory, for any company, any number of request    *)
(* threads, branches and products, and any quantities.                     *)
(***************************************************************************)
EXTENDS BranchInventory, SumLemmas

\* A transfer gives what it takes.
Balanced(j) == j.kind = "transfer" => j.take = j.give

JobsBalanced == \A w \in Workers : Balanced(job[w])

\* Lemmas on the company total.

LEMMA TotalIsSum ==
  ASSUME NEW levels \in [Branches -> Int]
  PROVE  CompanyTotal(levels) = SumOver(levels, Branches)
BY SumOverIsLibrarySum DEF CompanyTotal, SumFunction

LEMMA TotalIsInt ==
  ASSUME NEW levels \in [Branches -> Int]
  PROVE  CompanyTotal(levels) \in Int
BY TotalIsSum, SumOverInt, BranchesAssumption

\* A transfer between branches leaves the company total alone.
LEMMA TransferKeepsTotal ==
  ASSUME NEW levels \in [Branches -> Int], NEW a \in Branches, NEW b \in Branches,
         NEW u \in Int
  PROVE  CompanyTotal([x \in Branches |-> levels[x] + ((IF x = b THEN u ELSE 0)
                                                     - (IF x = a THEN u ELSE 0))])
           = CompanyTotal(levels)
<1> DEFINE mid  == [x \in Branches |-> levels[x] + (IF x = b THEN u ELSE 0)]
           last == [x \in Branches |-> levels[x] + ((IF x = b THEN u ELSE 0)
                                                  - (IF x = a THEN u ELSE 0))]
<1>1. mid \in [Branches -> Int] /\ last \in [Branches -> Int] /\ -u \in Int
  OBVIOUS
<1>2. mid[b] = levels[b] + u /\ \A x \in Branches \ {b} : mid[x] = levels[x]
  OBVIOUS
<1>3. last[a] = mid[a] + (-u) /\ \A x \in Branches \ {a} : last[x] = mid[x]
  OBVIOUS
<1> HIDE DEF mid, last
<1>4. SumOver(mid, Branches) = SumOver(levels, Branches) + u
  BY <1>1, <1>2, SumOverShift, BranchesAssumption
<1>5. SumOver(last, Branches) = SumOver(mid, Branches) + (-u)
  BY <1>1, <1>3, SumOverShift, BranchesAssumption
<1>6. SumOver(levels, Branches) \in Int
  BY SumOverInt, BranchesAssumption
<1>7. SumOver(last, Branches) = SumOver(levels, Branches)
  BY <1>4, <1>5, <1>6
<1> QED BY <1>1, <1>7, TotalIsSum DEF last

--------------------------------------------------------------------------------
\* Lemmas on requests.

LEMMA AnyBranchIsBranch == AnyBranch \in Branches
BY BranchesAssumption DEF AnyBranch

LEMMA IdleIsJob == Idle \in Job /\ Balanced(Idle)
BY AnyBranchIsBranch DEF Idle, Job, Kinds, None, Balanced

LEMMA DeltaIsInt ==
  ASSUME NEW j \in Job, NEW b \in Branches, NEW p \in Products, NEW n \in Int
  PROVE  Delta(j, b, p, n) \in Int
<1>1. j.give[p] \in Nat /\ j.take[p] \in Nat
  BY DEF Job
<1> QED BY <1>1 DEF Delta

LEMMA RequestsAreJobs ==
  ASSUME NEW j \in Requests
  PROVE  j \in Job /\ j.kind # "idle" /\ Balanced(j)
<1> USE QuantityAssumption
<1>1. Lines \subseteq [Products -> Nat]
  BY DEF Lines
<1>2. CASE \E s \in Branches, t \in Branches, u \in Lines : j = Transfer(s, t, u)
  BY <1>1, <1>2 DEF Transfer, Job, Kinds, Touched, Balanced
<1>3. CASE \E t \in Branches, u \in Lines : j = Purchase(t, u)
  BY <1>1, <1>3 DEF Purchase, Job, Kinds, Touched, Balanced, None
<1>4. CASE \E t \in Branches, f \in [Products -> Quantities], s \in (SUBSET Products) \ {{}} :
             j = SetLevel(t, f, s)
  <2>1. PICK t \in Branches, f \in [Products -> Quantities], s \in SUBSET Products :
          j = SetLevel(t, f, s)
    BY <1>4
  <2>2. [p \in Products |-> IF p \in s THEN f[p] ELSE 0] \in [Products -> Nat]
    OBVIOUS
  <2> QED BY <2>1, <2>2 DEF SetLevel, Job, Kinds, Balanced, None
<1> QED BY <1>2, <1>3, <1>4 DEF Requests

\* Every request a worker starts is one of Requests.
LEMMA BeginsRequest ==
  ASSUME NEW w \in Workers, BeginTransfer(w) \/ BeginPurchase(w) \/ BeginSet(w)
  PROVE  \E j \in Requests : Begin(w, j)
BY DEF BeginTransfer, BeginPurchase, BeginSet, Requests

--------------------------------------------------------------------------------
StockInv ==
  /\ TypeOK
  /\ JobsBalanced
  /\ StagedIsCurrent
  /\ NoNegativeStock
  /\ LedgerMatchesStock
  /\ AggregateMatchesBranches

LEMMA InitStockInv == Init => StockInv
<1> SUFFICES ASSUME Init PROVE StockInv
  OBVIOUS
<1> USE OpeningAssumption DEF Init
<1>1. TypeOK
  <2>1. total \in [Products -> Int]
    <3>1. \A p \in Products : [b \in Branches |-> OpeningStock[b][p]] \in [Branches -> Int]
      OBVIOUS
    <3> QED BY <3>1, TotalIsInt
  <2>2. rows \in [Workers -> [Branches -> [Products -> [delta : Int, after : Int]]]]
    BY DEF NoRows
  <2>3. job \in [Workers -> Job]
    BY IdleIsJob
  <2> QED BY <2>1, <2>2, <2>3 DEF TypeOK, None
<1>2. JobsBalanced
  BY IdleIsJob DEF JobsBalanced
<1>3. StagedIsCurrent
  BY NobodyAssumption DEF StagedIsCurrent, Staged, Idle, NoRows
<1>4. NoNegativeStock
  BY DEF NoNegativeStock
<1>5. LedgerMatchesStock
  BY DEF LedgerMatchesStock, None
<1>6. AggregateMatchesBranches
  BY DEF AggregateMatchesBranches
<1> QED BY <1>1, <1>2, <1>3, <1>4, <1>5, <1>6 DEF StockInv

\* Starting a request stages nothing.
LEMMA BeginKeepsStockInv ==
  ASSUME StockInv, NEW w \in Workers, NEW j \in Job, j.kind # "idle", Balanced(j), Begin(w, j)
  PROVE  StockInv'
<1> USE DEF StockInv, Begin
<1>1. TypeOK'
  <2>1. job' \in [Workers -> Job]
    BY DEF TypeOK
  <2>2. todo' \in [Workers -> SUBSET Products]
    BY DEF TypeOK, Job
  <2> QED BY <2>1, <2>2 DEF TypeOK
<1>2. JobsBalanced'
  BY DEF JobsBalanced, TypeOK
<1>3. StagedIsCurrent'
  <2>1. job[w] = Idle
    BY DEF StagedIsCurrent, Staged
  <2>2. \A p \in Products : holder[p] # w
    BY <2>1 DEF StagedIsCurrent, Staged, Idle
  <2> SUFFICES ASSUME NEW v \in Workers PROVE Staged(v)'
    BY DEF StagedIsCurrent
  <2>3. CASE v = w
    <3>1. job'[w] = j /\ todo'[w] = j.products
      BY DEF TypeOK
    <3> QED BY <2>2, <2>3, <3>1 DEF StagedIsCurrent, Staged, TypeOK
  <2>4. CASE v # w
    <3>1. job'[v] = job[v] /\ todo'[v] = todo[v]
      BY <2>4 DEF TypeOK
    <3> QED BY <3>1 DEF StagedIsCurrent, Staged
  <2> QED BY <2>3, <2>4
<1>4. (NoNegativeStock /\ LedgerMatchesStock /\ AggregateMatchesBranches)'
  BY DEF NoNegativeStock, LedgerMatchesStock, AggregateMatchesBranches
<1> QED BY <1>1, <1>2, <1>3, <1>4

\* Taking the lock of a product and staging what follows from the rows just read.
LEMMA AcquireKeepsStockInv ==
  ASSUME StockInv, NEW w \in Workers, NEW p \in Products, AcquireProduct(w, p)
  PROVE  StockInv'
<1> DEFINE delta == [b \in Branches |-> Delta(job[w], b, p, stock[b][p])]
           after == [b \in Branches |-> After(w, b, p)]
<1>1. TypeOK /\ StagedIsCurrent /\ JobsBalanced
  BY DEF StockInv
<1>2. /\ delta \in [Branches -> Int] /\ after \in [Branches -> Int]
      /\ CompanyTotal(after) \in Int
  <2>1. delta \in [Branches -> Int]
    BY <1>1, DeltaIsInt DEF TypeOK
  <2>2. after \in [Branches -> Int]
    BY <1>1, DeltaIsInt DEF TypeOK, After
  <2> HIDE DEF delta, after
  <2> QED BY <2>1, <2>2, TotalIsInt
<1>3. /\ p \in todo[w] /\ holder[p] = Nobody
      /\ \A b \in Branches : after[b] >= 0
      /\ holder' = [holder EXCEPT ![p] = w]
      /\ todo' = [todo EXCEPT ![w] = @ \ {p}]
      /\ rows' = [rows EXCEPT ![w] = [b \in Branches |->
                   [rows[w][b] EXCEPT ![p] = [delta |-> delta[b], after |-> after[b]]]]]
      /\ agg' = [agg EXCEPT ![w][p] = CompanyTotal(after)]
      /\ UNCHANGED <<stock, total, moved, job>>
  BY <1>1 DEF AcquireProduct, LockIsFree, EnoughStock, TypeOK
<1>4. \A b \in Branches : /\ delta[b] = Delta(job[w], b, p, stock[b][p])
                          /\ after[b] = stock[b][p] + delta[b]
  BY DEF After
<1> HIDE DEF delta, after
<1>5. \A b \in Branches, q \in Products :
        rows'[w][b][q] = IF q = p THEN [delta |-> delta[b], after |-> after[b]]
                                  ELSE rows[w][b][q]
  BY <1>1, <1>3 DEF TypeOK
<1>a. \A b \in Branches, q \in Products :
        /\ rows'[w][b][q].delta = IF q = p THEN delta[b] ELSE rows[w][b][q].delta
        /\ rows'[w][b][q].after = IF q = p THEN after[b] ELSE rows[w][b][q].after
  <2> SUFFICES ASSUME NEW b \in Branches, NEW q \in Products
               PROVE  /\ rows'[w][b][q].delta = IF q = p THEN delta[b] ELSE rows[w][b][q].delta
                      /\ rows'[w][b][q].after = IF q = p THEN after[b] ELSE rows[w][b][q].after
    OBVIOUS
  <2>1. CASE q = p
    <3>1. rows'[w][b][q] = [delta |-> delta[b], after |-> after[b]]
      BY <1>5, <2>1
    <3> QED BY <2>1, <3>1
  <2>2. CASE q # p
    <3>1. rows'[w][b][q] = rows[w][b][q]
      BY <1>5, <2>2
    <3> QED BY <2>2, <3>1
  <2> QED BY <2>1, <2>2
<1>6. TypeOK'
  <2>1. rows' \in [Workers -> [Branches -> [Products -> [delta : Int, after : Int]]]]
    <3>1. \A b \in Branches :
            [rows[w][b] EXCEPT ![p] = [delta |-> delta[b], after |-> after[b]]]
              \in [Products -> [delta : Int, after : Int]]
      BY <1>1, <1>2 DEF TypeOK
    <3> QED BY <1>1, <1>3, <3>1 DEF TypeOK
  <2>2. agg' \in [Workers -> [Products -> Int]]
    BY <1>1, <1>2, <1>3 DEF TypeOK
  <2> QED BY <1>1, <1>3, <2>1, <2>2 DEF TypeOK
<1>7. StagedIsCurrent'
  <2> SUFFICES ASSUME NEW v \in Workers PROVE Staged(v)'
    BY DEF StagedIsCurrent
  <2>1. CASE v = w
    <3>1. p \in job[w].products
      BY <1>1, <1>3 DEF StagedIsCurrent, Staged
    <3>2. \A q \in Products : holder'[q] = IF q = p THEN w ELSE holder[q]
      BY <1>1, <1>3 DEF TypeOK
    <3>3. todo'[w] = todo[w] \ {p}
      BY <1>1, <1>3 DEF TypeOK
    <3>4. \A q \in Products : agg'[w][q] = IF q = p THEN CompanyTotal(after) ELSE agg[w][q]
      BY <1>1, <1>3 DEF TypeOK
    <3>5. (/\ job[w].kind = "idle" => job[w] = Idle
           /\ todo[w] \subseteq job[w].products
           /\ \A q \in Products : holder[q] = w <=> q \in job[w].products \ todo[w])'
      BY <1>1, <1>3, <3>1, <3>2, <3>3, NobodyAssumption DEF StagedIsCurrent, Staged
    <3>6. ASSUME NEW q \in Products, holder'[q] # w, NEW b \in Branches
          PROVE  rows'[w][b][q].delta = 0
      <4>1. q # p /\ holder[q] # w
        BY <3>2, <3>6
      <4>2. Staged(w)
        BY <1>1 DEF StagedIsCurrent
      <4>3. rows[w][b][q].delta = 0
        BY <3>6, <4>1, <4>2 DEF Staged
      <4> QED BY <1>a, <3>6, <4>1, <4>3
    <3>7. ASSUME NEW q \in Products, holder'[q] = w
          PROVE  /\ \A b \in Branches :
                      /\ rows'[w][b][q].delta = Delta(job[w], b, q, stock[b][q])
                      /\ rows'[w][b][q].after = stock[b][q] + rows'[w][b][q].delta
                      /\ rows'[w][b][q].after >= 0
                 /\ agg'[w][q] = CompanyTotal([b \in Branches |-> rows'[w][b][q].after])
      <4>1. CASE q = p
        <5>1. \A b \in Branches : /\ rows'[w][b][q].delta = delta[b]
                                  /\ rows'[w][b][q].after = after[b]
          BY <1>a, <4>1
        <5>2. after = [b \in Branches |-> rows'[w][b][q].after]
          BY <1>2, <5>1
        <5>3. agg'[w][q] = CompanyTotal(after)
          BY <3>4, <4>1
        <5> QED BY <1>3, <1>4, <4>1, <5>1, <5>2, <5>3
      <4>2. CASE q # p
        <5>1. \A b \in Branches : rows'[w][b][q] = rows[w][b][q]
          BY <1>5, <4>2
        <5>2. holder[q] = w /\ agg'[w][q] = agg[w][q]
          BY <3>2, <3>4, <3>7, <4>2
        <5> QED BY <1>1, <5>1, <5>2 DEF StagedIsCurrent, Staged
      <4> QED BY <4>1, <4>2
    <3> QED BY <1>3, <2>1, <3>5, <3>6, <3>7 DEF Staged
  <2>2. CASE v # w
    <3>1. /\ job'[v] = job[v] /\ todo'[v] = todo[v]
          /\ rows'[v] = rows[v] /\ agg'[v] = agg[v]
      BY <1>1, <1>3, <2>2 DEF TypeOK
    <3>2. \A q \in Products : holder'[q] = v <=> holder[q] = v
      BY <1>1, <1>3, <2>2, NobodyAssumption DEF TypeOK
    <3>3. Staged(v) /\ stock' = stock
      BY <1>1, <1>3 DEF StagedIsCurrent
    <3> QED BY <3>1, <3>2, <3>3 DEF Staged
  <2> QED BY <2>1, <2>2
<1>8. (JobsBalanced /\ NoNegativeStock /\ LedgerMatchesStock /\ AggregateMatchesBranches)'
  BY <1>3 DEF StockInv, JobsBalanced, NoNegativeStock, LedgerMatchesStock,
              AggregateMatchesBranches
<1> QED BY <1>6, <1>7, <1>8 DEF StockInv

\* The staged changes of w are gone, its locks are free.
LEMMA FinishKeepsStaging ==
  ASSUME StockInv, NEW w \in Workers, Finish(w),
         \A v \in Workers \ {w}, b \in Branches, p \in Products :
           holder[p] = v => stock'[b][p] = stock[b][p]
  PROVE  /\ StagedIsCurrent' /\ JobsBalanced'
         /\ holder' \in [Products -> Workers \cup {Nobody}]
         /\ job'  \in [Workers -> Job]
         /\ todo' \in [Workers -> SUBSET Products]
         /\ rows' \in [Workers -> [Branches -> [Products -> [delta : Int, after : Int]]]]
         /\ agg'  \in [Workers -> [Products -> Int]]
<1>1. TypeOK /\ StagedIsCurrent /\ JobsBalanced
  BY DEF StockInv
<1>2. /\ \A p \in Products : holder'[p] = IF holder[p] = w THEN Nobody ELSE holder[p]
      /\ job'[w] = Idle /\ todo'[w] = {} /\ rows'[w] = NoRows /\ agg'[w] = None
      /\ \A v \in Workers \ {w} : /\ job'[v] = job[v] /\ todo'[v] = todo[v]
                                  /\ rows'[v] = rows[v] /\ agg'[v] = agg[v]
  BY <1>1 DEF Finish, LocksFreed, TypeOK
<1>3. StagedIsCurrent'
  <2> SUFFICES ASSUME NEW v \in Workers PROVE Staged(v)'
    BY DEF StagedIsCurrent
  <2>1. CASE v = w
    <3>1. \A p \in Products : holder'[p] # w
      BY <1>2, NobodyAssumption
    <3>2. \A b \in Branches, p \in Products : rows'[w][b][p].delta = 0
      BY <1>2 DEF NoRows
    <3> QED BY <1>2, <2>1, <3>1, <3>2 DEF Staged, Idle
  <2>2. CASE v # w
    <3>1. \A p \in Products : holder'[p] = v <=> holder[p] = v
      BY <1>2, <2>2, NobodyAssumption
    <3> QED BY <1>1, <1>2, <2>2, <3>1 DEF StagedIsCurrent, Staged
  <2> QED BY <2>1, <2>2
<1>4. JobsBalanced'
  BY <1>1, <1>2, IdleIsJob DEF JobsBalanced
<1>5. /\ holder' \in [Products -> Workers \cup {Nobody}]
      /\ job' \in [Workers -> Job] /\ todo' \in [Workers -> SUBSET Products]
  BY <1>1, IdleIsJob DEF TypeOK, Finish, LocksFreed
<1>6. rows' \in [Workers -> [Branches -> [Products -> [delta : Int, after : Int]]]]
  <2>1. NoRows \in [Branches -> [Products -> [delta : Int, after : Int]]]
    BY DEF NoRows
  <2> QED BY <1>1, <2>1 DEF TypeOK, Finish, LocksFreed
<1>7. agg' \in [Workers -> [Products -> Int]]
  BY <1>1 DEF TypeOK, Finish, LocksFreed, None
<1> QED BY <1>3, <1>4, <1>5, <1>6, <1>7

LEMMA RollbackKeepsStockInv ==
  ASSUME StockInv, NEW w \in Workers, Rollback(w)
  PROVE  StockInv'
<1>1. Finish(w) /\ UNCHANGED <<stock, total, moved>>
  BY DEF Rollback
<1>2. /\ StagedIsCurrent' /\ JobsBalanced'
      /\ holder' \in [Products -> Workers \cup {Nobody}]
      /\ job'  \in [Workers -> Job]
      /\ todo' \in [Workers -> SUBSET Products]
      /\ rows' \in [Workers -> [Branches -> [Products -> [delta : Int, after : Int]]]]
      /\ agg'  \in [Workers -> [Products -> Int]]
  BY <1>1, FinishKeepsStaging
<1>3. TypeOK'
  BY <1>1, <1>2 DEF StockInv, TypeOK
<1> QED BY <1>1, <1>2, <1>3 DEF StockInv, NoNegativeStock, LedgerMatchesStock,
                                AggregateMatchesBranches

\* A commit applies to each row what the request does to the committed balance.
LEMMA CommitAppliesDelta ==
  ASSUME StockInv, NEW w \in Workers, CommitStock(w)
  PROVE  \A b \in Branches, p \in Products :
           LET d == IF p \in job[w].products THEN Delta(job[w], b, p, stock[b][p]) ELSE 0
           IN  /\ rows[w][b][p].delta = d
               /\ stock'[b][p] = stock[b][p] + d
               /\ moved'[b][p] = moved[b][p] + d
               /\ stock[b][p] + d >= 0
<1>1. TypeOK /\ Staged(w) /\ todo[w] = {} /\ NoNegativeStock
  BY DEF StockInv, StagedIsCurrent, CommitStock, ReadyToCommit
<1> SUFFICES ASSUME NEW b \in Branches, NEW p \in Products
             PROVE  LET d == IF p \in job[w].products
                             THEN Delta(job[w], b, p, stock[b][p]) ELSE 0
                    IN  /\ rows[w][b][p].delta = d
                        /\ stock'[b][p] = stock[b][p] + d
                        /\ moved'[b][p] = moved[b][p] + d
                        /\ stock[b][p] + d >= 0
  OBVIOUS
<1>2. /\ stock[b][p] \in Int /\ moved[b][p] \in Int /\ rows[w][b][p].delta \in Int
      /\ stock[b][p] >= 0
  BY <1>1 DEF TypeOK, NoNegativeStock
<1>3. /\ stock'[b][p] = IF rows[w][b][p].delta # 0 THEN rows[w][b][p].after ELSE stock[b][p]
      /\ moved'[b][p] = moved[b][p] + rows[w][b][p].delta
  BY DEF CommitStock
<1>4. CASE p \in job[w].products
  <2>1. holder[p] = w
    BY <1>1, <1>4 DEF Staged
  <2>2. /\ rows[w][b][p].delta = Delta(job[w], b, p, stock[b][p])
        /\ rows[w][b][p].after = stock[b][p] + rows[w][b][p].delta
        /\ rows[w][b][p].after >= 0
    BY <1>1, <2>1 DEF Staged
  <2> QED BY <1>2, <1>3, <1>4, <2>2
<1>5. CASE p \notin job[w].products
  <2>1. rows[w][b][p].delta = 0
    BY <1>1, <1>5 DEF Staged
  <2> QED BY <1>2, <1>3, <1>5, <2>1
<1> QED BY <1>4, <1>5

\* The company total after a commit, in both ways it comes about: written from
\* the staged rows, or left alone because a transfer keeps the sum.
LEMMA CommitKeepsAggregate ==
  ASSUME StockInv, NEW w \in Workers, CommitStock(w)
  PROVE  AggregateMatchesBranches'
<1>1. TypeOK /\ Staged(w) /\ todo[w] = {} /\ AggregateMatchesBranches /\ Balanced(job[w])
  BY DEF StockInv, StagedIsCurrent, CommitStock, ReadyToCommit, JobsBalanced
<1> SUFFICES ASSUME NEW p \in Products
             PROVE  total'[p] = CompanyTotal([b \in Branches |-> stock'[b][p]])
  BY DEF AggregateMatchesBranches
<1>2. total'[p] = IF Consolidates(job[w].kind) /\ p \in job[w].products
                  THEN agg[w][p] ELSE total[p]
  BY DEF CommitStock
<1>3. total[p] = CompanyTotal([b \in Branches |-> stock[b][p]])
  BY <1>1 DEF AggregateMatchesBranches
<1>4. CASE p \notin job[w].products
  <2>1. \A b \in Branches : stock'[b][p] = stock[b][p]
    BY <1>1, <1>4, CommitAppliesDelta DEF TypeOK
  <2>2. [b \in Branches |-> stock'[b][p]] = [b \in Branches |-> stock[b][p]]
    BY <2>1
  <2> QED BY <1>2, <1>3, <1>4, <2>2
<1>5. CASE p \in job[w].products /\ Consolidates(job[w].kind)
  <2>1. holder[p] = w
    BY <1>1, <1>5 DEF Staged
  <2>2. ASSUME NEW b \in Branches PROVE stock'[b][p] = rows[w][b][p].after
    <3>1. /\ rows[w][b][p].delta = Delta(job[w], b, p, stock[b][p])
          /\ rows[w][b][p].after = stock[b][p] + rows[w][b][p].delta
      BY <1>1, <2>1 DEF Staged
    <3>2. stock'[b][p] = stock[b][p] + Delta(job[w], b, p, stock[b][p])
      BY <1>5, CommitAppliesDelta
    <3> QED BY <3>1, <3>2
  <2>3. [b \in Branches |-> stock'[b][p]] = [b \in Branches |-> rows[w][b][p].after]
    BY <2>2
  <2>4. agg[w][p] = CompanyTotal([b \in Branches |-> rows[w][b][p].after])
    BY <1>1, <2>1 DEF Staged
  <2> QED BY <1>2, <1>5, <2>3, <2>4
<1>6. CASE p \in job[w].products /\ ~Consolidates(job[w].kind)
  <2> DEFINE levels == [b \in Branches |-> stock[b][p]]
             u == job[w].give[p]
  <2>1. levels \in [Branches -> Int] /\ u \in Int
    BY <1>1 DEF TypeOK, Job
  <2>2. job[w].branch \in Branches /\ job[w].target \in Branches
    BY <1>1 DEF TypeOK, Job
  <2>3. job[w].kind = "transfer" /\ job[w].take[p] = u
    BY <1>1, <1>6 DEF Consolidates, Balanced
  <2>4. \A b \in Branches :
          stock'[b][p] = levels[b] + ((IF b = job[w].target THEN u ELSE 0)
                                    - (IF b = job[w].branch THEN u ELSE 0))
    BY <1>6, <2>3, CommitAppliesDelta DEF Delta
  <2>5. [b \in Branches |-> stock'[b][p]]
          = [b \in Branches |-> levels[b] + ((IF b = job[w].target THEN u ELSE 0)
                                           - (IF b = job[w].branch THEN u ELSE 0))]
    BY <2>4
  <2>6. total'[p] = CompanyTotal(levels)
    BY <1>2, <1>3, <1>6
  <2> HIDE DEF levels, u
  <2>7. CompanyTotal([b \in Branches |-> levels[b] + ((IF b = job[w].target THEN u ELSE 0)
                                                    - (IF b = job[w].branch THEN u ELSE 0))])
          = CompanyTotal(levels)
    BY <2>1, <2>2, TransferKeepsTotal
  <2> QED BY <2>5, <2>6, <2>7
<1> QED BY <1>4, <1>5, <1>6

LEMMA CommitKeepsStockInv ==
  ASSUME StockInv, NEW w \in Workers, CommitStock(w)
  PROVE  StockInv'
<1>1. TypeOK /\ Staged(w) /\ Finish(w)
  BY DEF StockInv, StagedIsCurrent, CommitStock, ReadyToCommit
<1>2. \A v \in Workers \ {w}, b \in Branches, p \in Products :
        holder[p] = v => stock'[b][p] = stock[b][p]
  <2> SUFFICES ASSUME NEW v \in Workers \ {w}, NEW b \in Branches, NEW p \in Products,
                      holder[p] = v
               PROVE  stock'[b][p] = stock[b][p]
    OBVIOUS
  <2>1. rows[w][b][p].delta = 0
    BY <1>1 DEF Staged
  <2> QED BY <2>1 DEF CommitStock
<1>3. /\ StagedIsCurrent' /\ JobsBalanced'
      /\ holder' \in [Products -> Workers \cup {Nobody}]
      /\ job'  \in [Workers -> Job]
      /\ todo' \in [Workers -> SUBSET Products]
      /\ rows' \in [Workers -> [Branches -> [Products -> [delta : Int, after : Int]]]]
      /\ agg'  \in [Workers -> [Products -> Int]]
  BY <1>1, <1>2, FinishKeepsStaging
<1>4. TypeOK'
  <2>1. stock' \in [Branches -> [Products -> Int]] /\ moved' \in [Branches -> [Products -> Int]]
    BY <1>1 DEF CommitStock, TypeOK
  <2>2. total' \in [Products -> Int]
    BY <1>1 DEF CommitStock, TypeOK
  <2> QED BY <1>3, <2>1, <2>2 DEF TypeOK
<1>5. NoNegativeStock'
  BY CommitAppliesDelta DEF NoNegativeStock
<1>6. LedgerMatchesStock'
  <2> SUFFICES ASSUME NEW b \in Branches, NEW p \in Products
               PROVE  stock'[b][p] = OpeningStock[b][p] + moved'[b][p]
    BY DEF LedgerMatchesStock
  <2>1. stock[b][p] = OpeningStock[b][p] + moved[b][p]
    BY DEF StockInv, LedgerMatchesStock
  <2>2. /\ stock'[b][p] = stock[b][p] + rows[w][b][p].delta
        /\ moved'[b][p] = moved[b][p] + rows[w][b][p].delta
    BY CommitAppliesDelta
  <2>3. /\ OpeningStock[b][p] \in Int /\ moved[b][p] \in Int /\ rows[w][b][p].delta \in Int
    BY <1>1, OpeningAssumption DEF TypeOK
  <2> QED BY <2>1, <2>2, <2>3
<1> QED BY <1>3, <1>4, <1>5, <1>6, CommitKeepsAggregate DEF StockInv

--------------------------------------------------------------------------------
\* The theorems.

LEMMA StockInvStep ==
  ASSUME StockInv, [Next]_stockVars
  PROVE  StockInv'
<1>1. ASSUME NEW w \in Workers, BeginTransfer(w) \/ BeginPurchase(w) \/ BeginSet(w)
      PROVE  StockInv'
  BY <1>1, BeginsRequest, RequestsAreJobs, BeginKeepsStockInv
<1>2. ASSUME NEW w \in Workers, NEW p \in Products, AcquireProduct(w, p)
      PROVE  StockInv'
  BY <1>2, AcquireKeepsStockInv
<1>3. ASSUME NEW w \in Workers, CommitStock(w)
      PROVE  StockInv'
  BY <1>3, CommitKeepsStockInv
<1>4. ASSUME NEW w \in Workers, Rollback(w)
      PROVE  StockInv'
  BY <1>4, RollbackKeepsStockInv
<1>5. CASE UNCHANGED stockVars
  <2>1. (TypeOK /\ JobsBalanced)'
    BY <1>5 DEF stockVars, StockInv, TypeOK, JobsBalanced
  <2>2. StagedIsCurrent'
    BY <1>5 DEF stockVars, StockInv, StagedIsCurrent, Staged
  <2>3. (NoNegativeStock /\ LedgerMatchesStock /\ AggregateMatchesBranches)'
    BY <1>5 DEF stockVars, StockInv, NoNegativeStock, LedgerMatchesStock,
                AggregateMatchesBranches
  <2> QED BY <2>1, <2>2, <2>3 DEF StockInv
<1> QED BY <1>1, <1>2, <1>3, <1>4, <1>5 DEF Next

LEMMA StockInvariant == Spec => []StockInv
<1>1. Init => StockInv
  BY InitStockInv
<1>2. StockInv /\ [Next]_stockVars => StockInv'
  BY StockInvStep
<1> QED BY <1>1, <1>2, PTL DEF Spec

\* Every variable keeps its type: a stock, a movement total and a company total
\* are always numbers.
THEOREM TypeCorrect == Spec => []TypeOK
BY StockInvariant, PTL DEF StockInv

\* No interleaving of transfers, purchases, manual levels and rollbacks oversells
\* a branch.
THEOREM StockNeverNegative == Spec => []NoNegativeStock
BY StockInvariant, PTL DEF StockInv

\* Balances and the movement history never drift apart.
THEOREM LedgerIsComplete == Spec => []LedgerMatchesStock
BY StockInvariant, PTL DEF StockInv

\* What is staged under the product locks is not overtaken by other commits.
THEOREM StagingIsCurrent == Spec => []StagedIsCurrent
BY StockInvariant, PTL DEF StockInv

\* Product.stock is the sum of the branches, though transfers never write it.
THEOREM AggregateIsSum == Spec => []AggregateMatchesBranches
BY StockInvariant, PTL DEF StockInv

--------------------------------------------------------------------------------
\* Requests that sort their products hold only smaller ids than they still want.
LocksInOrder ==
  \A w \in Workers : Ordered(job[w].kind) =>
    \A q \in Products, p \in todo[w] : holder[q] = w => q < p

\* No step of a transaction, whichever request it serves, breaks the order.
LEMMA TransactionsKeepOrder ==
  ASSUME StockInv, LocksInOrder,
         \/ \E w \in Workers : \E j : Begin(w, j)
         \/ \E w \in Workers, p \in Products : AcquireProduct(w, p)
         \/ \E w \in Workers : Finish(w)
         \/ UNCHANGED stockVars
  PROVE  LocksInOrder'
<1>0. TypeOK /\ StagedIsCurrent
  BY DEF StockInv
<1>1. ASSUME NEW w \in Workers, NEW j, Begin(w, j) PROVE LocksInOrder'
  <2>1. \A q \in Products : holder[q] # w
    BY <1>0, <1>1 DEF StagedIsCurrent, Staged, Begin, Idle
  <2>2. /\ holder' = holder
        /\ \A v \in Workers \ {w} : job'[v] = job[v] /\ todo'[v] = todo[v]
    BY <1>0, <1>1 DEF Begin, TypeOK
  <2> QED BY <2>1, <2>2 DEF LocksInOrder
<1>2. ASSUME NEW w \in Workers, NEW p \in Products, AcquireProduct(w, p) PROVE LocksInOrder'
  <2>1. /\ job' = job /\ todo'[w] = todo[w] \ {p}
        /\ \A v \in Workers \ {w} : todo'[v] = todo[v]
        /\ \A q \in Products : holder'[q] = IF q = p THEN w ELSE holder[q]
        /\ Ordered(job[w].kind) => \A q \in todo[w] : p <= q
    BY <1>0, <1>2 DEF AcquireProduct, InLockOrder, TypeOK
  <2>2. todo[w] \subseteq Nat /\ p \in Nat
    BY <1>0, ProductsAssumption DEF TypeOK
  <2> SUFFICES ASSUME NEW v \in Workers, Ordered(job[v].kind),
                      NEW q \in Products, NEW r \in todo'[v], holder'[q] = v
               PROVE  q < r
    BY <2>1 DEF LocksInOrder
  <2>3. CASE v = w /\ q = p
    BY <2>1, <2>2, <2>3
  <2>4. CASE v = w /\ q # p
    <3>1. r \in todo[w] /\ holder[q] = w
      BY <2>1, <2>4
    <3> QED BY <2>4, <3>1 DEF LocksInOrder
  <2>5. CASE v # w
    <3>1. r \in todo[v] /\ holder[q] = v
      BY <2>1, <2>5
    <3> QED BY <3>1 DEF LocksInOrder
  <2> QED BY <2>3, <2>4, <2>5
<1>3. ASSUME NEW w \in Workers, Finish(w) PROVE LocksInOrder'
  <2>1. /\ todo'[w] = {}
        /\ \A v \in Workers \ {w} : job'[v] = job[v] /\ todo'[v] = todo[v]
        /\ \A q \in Products : holder'[q] = IF holder[q] = w THEN Nobody ELSE holder[q]
    BY <1>0, <1>3 DEF Finish, LocksFreed, TypeOK
  <2> QED BY <2>1, NobodyAssumption DEF LocksInOrder
<1>4. CASE UNCHANGED stockVars
  BY <1>4 DEF stockVars, LocksInOrder
<1> QED BY <1>1, <1>2, <1>3, <1>4

LEMMA LocksInOrderInvariant == Spec => []LocksInOrder
<1>1. Init => LocksInOrder
  BY DEF Init, LocksInOrder
<1>2. StockInv /\ LocksInOrder /\ [Next]_stockVars => LocksInOrder'
  BY TransactionsKeepOrder, BeginsRequest DEF Next, CommitStock, Rollback
<1> QED BY <1>1, <1>2, StockInvariant, PTL DEF Spec

\* A finite, non-empty set of product ids has a largest one.
Above(p) == {q \in Products : q > p}

LEMMA LargestProduct ==
  ASSUME NEW X, X \subseteq Products, X # {}
  PROVE  \E p \in X : \A q \in X : q <= p
<1> DEFINE T == {Above(p) : p \in X}
<1>1. T \subseteq SUBSET Products /\ T # {}
  BY DEF Above
<1>2. PICK m \in T : \A y \in T : ~(y \subseteq m /\ y # m)
  <2>1. IsFiniteSet(Products)
    BY ProductsAssumption
  <2> HIDE DEF T
  <2> QED BY <1>1, <2>1, MinimalSubset
<1>3. PICK p \in X : m = Above(p)
  OBVIOUS
<1>4. X \subseteq Nat
  BY ProductsAssumption
<1>5. ASSUME NEW q \in X, q > p PROVE FALSE
  <2>1. Above(q) \subseteq Above(p)
    <3> SUFFICES ASSUME NEW r \in Products, r > q PROVE r > p
      BY DEF Above
    <3> QED BY <1>4, <1>5, ProductsAssumption
  <2>2. q \in Above(p) /\ q \notin Above(q)
    BY <1>4, <1>5 DEF Above
  <2>3. Above(q) \in T
    OBVIOUS
  <2> QED BY <1>2, <1>3, <2>1, <2>2, <2>3
<1> QED BY <1>4, <1>5

\* The request of a group that waits for the largest product waits for nobody in it.
LEMMA OrderPreventsCircles ==
  ASSUME TypeOK, LocksInOrder
  PROVE  OrderedRequestsNeverDeadlock
<1> SUFFICES ASSUME NEW group \in (SUBSET Workers) \ {{}},
                    \A w \in group : Ordered(job[w].kind),
                    \A w \in group : \E v \in group : WaitsFor(w, v)
             PROVE  FALSE
  BY DEF OrderedRequestsNeverDeadlock
<1> DEFINE Wanted == {p \in Products : \E w \in group :
                        p \in todo[w] /\ \A q \in todo[w] : p <= q}
<1>1. Wanted # {} /\ Wanted \subseteq Products
  BY DEF WaitsFor, TypeOK
<1>2. PICK p \in Wanted : \A q \in Wanted : q <= p
  <2> HIDE DEF Wanted
  <2> QED BY <1>1, LargestProduct
<1>3. PICK w \in group : p \in todo[w] /\ \A q \in todo[w] : p <= q
  OBVIOUS
<1>4. PICK v \in group : WaitsFor(w, v)
  OBVIOUS
<1>5. holder[p] = v
  <2>1. PICK r \in todo[w] : holder[r] = v /\ \A q \in todo[w] : r <= q
    BY <1>4 DEF WaitsFor
  <2>2. r = p
    BY <1>3, <2>1, ProductsAssumption DEF TypeOK
  <2> QED BY <2>1, <2>2
<1>6. PICK u \in group : WaitsFor(v, u)
  OBVIOUS
<1>7. PICK r \in todo[v] : \A q \in todo[v] : r <= q
  BY <1>6 DEF WaitsFor
<1>8. r \in Wanted
  BY <1>7 DEF TypeOK
<1>9. p < r
  BY <1>5, <1>7 DEF LocksInOrder
<1> QED BY <1>2, <1>8, <1>9, ProductsAssumption

\* Carts and transfers of any number of threads never wait in a circle: the one
\* that waits for the largest id waits for nobody in its circle.
THEOREM NoDeadlockBetweenOrderedRequests == Spec => []OrderedRequestsNeverDeadlock
<1>1. TypeOK /\ LocksInOrder => OrderedRequestsNeverDeadlock
  BY OrderPreventsCircles
<1> QED BY <1>1, TypeCorrect, LocksInOrderInvariant, PTL

--------------------------------------------------------------------------------
\* Open transactions serve requests of this module.
JobsAreRequests == \A w \in Workers : job[w].kind # "idle" => job[w] \in Requests

LEMMA JobsAreRequestsInvariant == Spec => []JobsAreRequests
<1>1. Init => JobsAreRequests
  BY DEF Init, JobsAreRequests, Idle
<1>2. StockInv /\ JobsAreRequests /\ [Next]_stockVars => JobsAreRequests'
  <2> SUFFICES ASSUME StockInv, JobsAreRequests, [Next]_stockVars PROVE JobsAreRequests'
    OBVIOUS
  <2>0. TypeOK
    BY DEF StockInv
  <2>1. ASSUME NEW w \in Workers, NEW j \in Requests, Begin(w, j) PROVE JobsAreRequests'
    BY <2>0, <2>1 DEF Begin, TypeOK, JobsAreRequests
  <2>2. ASSUME NEW w \in Workers, NEW p \in Products, AcquireProduct(w, p)
        PROVE  JobsAreRequests'
    BY <2>2 DEF AcquireProduct, JobsAreRequests
  <2>3. ASSUME NEW w \in Workers, Finish(w) PROVE JobsAreRequests'
    BY <2>0, <2>3 DEF Finish, LocksFreed, TypeOK, JobsAreRequests, Idle
  <2>4. CASE UNCHANGED stockVars
    BY <2>4 DEF stockVars, JobsAreRequests
  <2> QED BY <2>1, <2>2, <2>3, <2>4, BeginsRequest DEF Next, CommitStock, Rollback
<1> QED BY <1>1, <1>2, StockInvariant, PTL DEF Spec

\* The operators both specifications take from StockRequests are the same.
LEMMA SerialOperators ==
  /\ \A j, b, p, n : Serial!Delta(j, b, p, n) = Delta(j, b, p, n)
  /\ \A levels : Serial!CompanyTotal(levels) = CompanyTotal(levels)
  /\ \A kind : Serial!Consolidates(kind) = Consolidates(kind)
  /\ Serial!None = None
<1>1. \A j, b, p, n : Serial!Delta(j, b, p, n) = Delta(j, b, p, n)
  BY DEF Serial!Delta, Delta
<1>2. \A levels : Serial!CompanyTotal(levels) = CompanyTotal(levels)
  BY DEF Serial!CompanyTotal, Serial!SumFunction, Serial!SumFunctionOnSet,
         Serial!FoldFunctionOnSet, Serial!MapThenFoldSet,
         CompanyTotal, SumFunction, SumFunctionOnSet, FoldFunctionOnSet, MapThenFoldSet
<1>3. \A kind : Serial!Consolidates(kind) = Consolidates(kind)
  BY DEF Serial!Consolidates, Consolidates
<1>4. Serial!None = None
  BY DEF Serial!None, None
<1> QED BY <1>1, <1>2, <1>3, <1>4

\* A commit is one whole request applied to the balances the last commit left.
LEMMA CommitServes ==
  ASSUME StockInv, NEW w \in Workers, CommitStock(w)
  PROVE  Serial!Serve(job[w])
<1>1. TypeOK /\ Staged(w) /\ todo[w] = {}
  BY DEF StockInv, StagedIsCurrent, CommitStock, ReadyToCommit
<1>2. \A b \in Branches, p \in Products :
        /\ rows[w][b][p].delta = Serial!Effect(job[w], b, p)
        /\ stock'[b][p] = stock[b][p] + Serial!Effect(job[w], b, p)
        /\ moved'[b][p] = moved[b][p] + Serial!Effect(job[w], b, p)
        /\ stock[b][p] + Serial!Effect(job[w], b, p) >= 0
  <2>1. \A b \in Branches, p \in Products :
          Serial!Effect(job[w], b, p)
            = IF p \in job[w].products THEN Delta(job[w], b, p, stock[b][p]) ELSE 0
    BY SerialOperators DEF Serial!Effect
  <2> QED BY <2>1, CommitAppliesDelta
<1>3. stock' \in [Branches -> [Products -> Int]] /\ moved' \in [Branches -> [Products -> Int]]
  BY CommitKeepsStockInv DEF StockInv, TypeOK
<1>4. stock' = [b \in Branches |-> [p \in Products |->
                  stock[b][p] + Serial!Effect(job[w], b, p)]]
  BY <1>2, <1>3
<1>5. moved' = [b \in Branches |-> [p \in Products |->
                  moved[b][p] + Serial!Effect(job[w], b, p)]]
  BY <1>2, <1>3
<1>6. total' = [p \in Products |->
                 IF Consolidates(job[w].kind) /\ p \in job[w].products
                 THEN CompanyTotal([b \in Branches |->
                        stock[b][p] + Serial!Effect(job[w], b, p)])
                 ELSE total[p]]
  <2>1. ASSUME NEW p \in Products, p \in job[w].products
        PROVE  agg[w][p] = CompanyTotal([b \in Branches |->
                             stock[b][p] + Serial!Effect(job[w], b, p)])
    <3>1. holder[p] = w
      BY <1>1, <2>1 DEF Staged
    <3>2. \A b \in Branches : rows[w][b][p].after = stock[b][p] + Serial!Effect(job[w], b, p)
      BY <1>1, <1>2, <3>1 DEF Staged
    <3>3. [b \in Branches |-> rows[w][b][p].after]
            = [b \in Branches |-> stock[b][p] + Serial!Effect(job[w], b, p)]
      BY <3>2
    <3> QED BY <1>1, <3>1, <3>3 DEF Staged
  <2> QED BY <2>1 DEF CommitStock
<1> QED BY <1>2, <1>4, <1>5, <1>6, SerialOperators DEF Serial!Serve

\* Transactions that interleave lock by lock implement requests served one at a
\* time (SerialInventory).
THEOREM ImplementsSerial == Spec => Serializable
<1>1. Init => Serial!Init
  BY SerialOperators DEF Init, Serial!Init
<1>2. StockInv /\ JobsAreRequests /\ [Next]_stockVars => [Serial!Next]_(Serial!vars)
  <2> SUFFICES ASSUME StockInv, JobsAreRequests, [Next]_stockVars
               PROVE  [Serial!Next]_(Serial!vars)
    OBVIOUS
  <2>1. ASSUME NEW w \in Workers, CommitStock(w) PROVE Serial!Next
    <3>1. job[w] \in Requests
      BY <2>1 DEF CommitStock, ReadyToCommit, JobsAreRequests
    <3> QED BY <2>1, <3>1, CommitServes DEF Serial!Next
  <2>2. ASSUME NEW w \in Workers, NEW j \in Requests, Begin(w, j)
        PROVE  UNCHANGED Serial!vars
    BY <2>2 DEF Begin, Serial!vars
  <2>3. ASSUME NEW w \in Workers, NEW p \in Products, AcquireProduct(w, p)
        PROVE  UNCHANGED Serial!vars
    BY <2>3 DEF AcquireProduct, Serial!vars
  <2>4. ASSUME NEW w \in Workers, Rollback(w) PROVE UNCHANGED Serial!vars
    BY <2>4 DEF Rollback, Serial!vars
  <2>5. CASE UNCHANGED stockVars
    BY <2>5 DEF stockVars, Serial!vars
  <2> QED BY <2>1, <2>2, <2>3, <2>4, <2>5, BeginsRequest DEF Next
<1> QED BY <1>1, <1>2, StockInvariant, JobsAreRequestsInvariant, PTL
        DEF Spec, Serializable, Serial!Spec
================================================================================
