--------------------------- MODULE VendorOrdersProofs ---------------------------
(***************************************************************************)
(* Proofs about VendorOrders: for any number of orders, payments and       *)
(* workers.                                                                *)
(***************************************************************************)
EXTENDS VendorOrders, FiniteSetTheorems, TLAPS

--------------------------------------------------------------------------------
\* The invariant.

\* The rows of an order come and go with it, and only an order that exists has a
\* checkout at the provider.
RowsFollowQuote ==
  \A q \in Quotes :
    /\ quote[q].status = "none" => pay[q] = <<>> /\ ~Sold(q) /\ q \notin link
    /\ quote[q].status # "none" => pay[q] # <<>>

\* A payment the provider has, or has told of, is of a checkout it was asked for.
ChargesAreLinked ==
  /\ \A c \in Charges : charge[c].status # "none" => charge[c].quote \in link
  /\ \A m \in mail : charge[m[1]].status # "none"

\* What a worker is busy with exists.
JobIsSound(j) ==
  /\ j.kind # "idle" => j.quote \in Quotes /\ quote[j.quote].status # "none"
  /\ j.kind = "notice" => j.charge \in Charges /\ j.status # "none" /\ j.notice # "none"

JobsAreSound == \A w \in Workers : JobIsSound(job[w])

\* A retry that was admitted finds room for its row.
Retrying(q)     == {w \in Workers : Runs(w, "retry", "read") /\ job[w].quote = q}
RoomForRetries == \A q \in Quotes : Len(pay[q]) + Cardinality(Retrying(q)) <= MaxRows

OrdersInv ==
  /\ OrdersTypeOK
  /\ RowsFollowQuote
  /\ ChargesAreLinked
  /\ JobsAreSound
  /\ RoomForRetries
  /\ SaleIsRecorded
  /\ OneSalePerQuote
  /\ PaymentMatchesSale

--------------------------------------------------------------------------------
\* Rows of payments.

Approved(rows) == \E i \in DOMAIN rows : rows[i].status = "approved"

LEMMA RowReplaced ==
  ASSUME NEW rows \in Seq(Rows), NEW i \in DOMAIN rows, NEW r \in Rows
  PROVE  LET new == [rows EXCEPT ![i] = r] IN
         /\ new \in Seq(Rows) /\ Len(new) = Len(rows) /\ DOMAIN new = DOMAIN rows
         /\ new[i] = r
         /\ \A k \in DOMAIN rows : k # i => new[k] = rows[k]
OBVIOUS

Marked(rows, i, s) == [rows EXCEPT ![i].status = s]

LEMMA StatusReplaced ==
  ASSUME NEW rows \in Seq(Rows), NEW i \in DOMAIN rows, NEW s \in PaymentStatuses
  PROVE  /\ Marked(rows, i, s) \in Seq(Rows) /\ Len(Marked(rows, i, s)) = Len(rows)
         /\ s = "approved" => Approved(Marked(rows, i, s))
         /\ (s = "approved" <=> rows[i].status = "approved") => (Approved(Marked(rows, i, s)) <=> Approved(rows))
<1>1. rows[i] \in Rows
  OBVIOUS
<1> DEFINE r == [rows[i] EXCEPT !.status = s]
<1>2. r \in Rows /\ r.status = s
  BY <1>1 DEF Rows
<1>3. Marked(rows, i, s) = [rows EXCEPT ![i] = r]
  BY DEF Marked
<1> HIDE DEF r
<1> QED BY <1>2, <1>3, RowReplaced DEF Approved

LEMMA RowsSettled ==
  ASSUME NEW rows \in Seq(Rows)
  PROVE  /\ Settle(rows) \in Seq(Rows) /\ Len(Settle(rows)) = Len(rows)
         /\ Approved(Settle(rows)) <=> Approved(rows)
<1> DEFINE new(i) == IF rows[i].status \in Pending
                     THEN [rows[i] EXCEPT !.status = "cancelled"] ELSE rows[i]
<1>1. \A i \in 1..Len(rows) : /\ rows[i] \in Rows /\ new(i) \in Rows
                              /\ new(i).status = "approved" <=> rows[i].status = "approved"
  <2> TAKE i \in 1..Len(rows)
  <2>1. rows[i] \in Rows
    OBVIOUS
  <2>2. \A r \in Rows : [r EXCEPT !.status = "cancelled"] \in Rows
    BY DEF Rows, PaymentStatuses
  <2> QED BY <2>1, <2>2 DEF Rows, Pending
<1>2. Settle(rows) = [i \in 1..Len(rows) |-> new(i)]
  BY DEF Settle
<1> HIDE DEF new
<1>3. Settle(rows) \in Seq(Rows) /\ Len(Settle(rows)) = Len(rows)
  BY <1>1, <1>2
<1> QED BY <1>1, <1>2, <1>3 DEF Approved

LEMMA RowAppended ==
  ASSUME NEW rows \in Seq(Rows), NEW r \in Rows, r.status # "approved"
  PROVE  /\ Append(rows, r) \in Seq(Rows) /\ Len(Append(rows, r)) = Len(rows) + 1
         /\ Approved(Append(rows, r)) <=> Approved(rows)
<1> DEFINE new == Append(rows, r)
<1>1. new \in Seq(Rows) /\ Len(new) = Len(rows) + 1 /\ Len(rows) \in Nat
  OBVIOUS
<1>2. \A k \in 1..Len(rows) : new[k] = rows[k]
  OBVIOUS
<1>3. new[Len(rows) + 1] = r
  OBVIOUS
<1>4. DOMAIN new = 1..(Len(rows) + 1) /\ DOMAIN rows = 1..Len(rows)
  BY <1>1
<1>5. \A k \in 1..(Len(rows) + 1) : k \in 1..Len(rows) \/ k = Len(rows) + 1
  BY <1>1
<1> HIDE DEF new
<1>6. Approved(new) => Approved(rows)
  <2> SUFFICES ASSUME NEW k \in DOMAIN new, new[k].status = "approved"
               PROVE  Approved(rows)
    BY DEF Approved
  <2>1. k \in 1..Len(rows)
    BY <1>3, <1>4, <1>5
  <2> QED BY <1>2, <1>4, <2>1 DEF Approved
<1>7. Approved(rows) => Approved(new)
  <2> SUFFICES ASSUME NEW k \in DOMAIN rows, rows[k].status = "approved"
               PROVE  Approved(new)
    BY DEF Approved
  <2>1. k \in DOMAIN new /\ new[k] = rows[k]
    BY <1>1, <1>2, <1>4
  <2> QED BY <2>1 DEF Approved
<1> QED BY <1>1, <1>6, <1>7 DEF new

\* Its latest row is a row, once an order has one.
LEMMA LatestIsARow ==
  ASSUME NEW rows \in Seq(Rows), rows # <<>>
  PROVE  Len(rows) \in DOMAIN rows /\ rows[Len(rows)] \in Rows
OBVIOUS

LEMMA ApprovalIsARow == \A q \in Quotes : HasApproval(q) <=> Approved(pay[q])
BY DEF HasApproval, Approved

--------------------------------------------------------------------------------
\* What keeps the parts of the invariant.

\* Nothing is sold and no approval appears; only an overtaken order may lose one.
LEMMA SalesAgree ==
  ASSUME OrdersInv, sales' = sales, overtaken \subseteq overtaken',
         \A q \in Quotes : quote'[q].sale = quote[q].sale,
         \A q \in Quotes : Approved(pay'[q]) => Approved(pay[q]),
         \A q \in Quotes \ overtaken' : Approved(pay[q]) => Approved(pay'[q])
  PROVE  SaleIsRecorded' /\ OneSalePerQuote' /\ PaymentMatchesSale'
BY DEF OrdersInv, SaleIsRecorded, OneSalePerQuote, PaymentMatchesSale, Sold, HasApproval, Approved

\* One worker turns to something else; the orders stay.
LEMMA JobChanges ==
  ASSUME OrdersInv, NEW w \in Workers, NEW j \in Jobs, job' = [job EXCEPT ![w] = j],
         \A q \in Quotes : quote[q].status # "none" => quote'[q].status # "none",
         JobIsSound(j)
  PROVE  job' \in [Workers -> Jobs] /\ JobsAreSound'
BY DEF OrdersInv, OrdersTypeOK, JobsAreSound, JobIsSound

LEMMA RoomKept ==
  ASSUME OrdersInv, NEW w \in Workers, NEW j \in Jobs, job' = [job EXCEPT ![w] = j],
         j.kind # "retry", \A q \in Quotes : Len(pay'[q]) = Len(pay[q])
  PROVE  RoomForRetries'
<1> SUFFICES ASSUME NEW q \in Quotes
             PROVE  Len(pay'[q]) + Cardinality(Retrying(q)') <= MaxRows
  BY DEF RoomForRetries
<1>1. Retrying(q)' \subseteq Retrying(q)
  BY DEF Retrying, Runs, OrdersInv, OrdersTypeOK
<1>2. IsFiniteSet(Retrying(q))
  BY WorkersAssumption, FS_Subset DEF Retrying
<1>3. /\ Cardinality(Retrying(q)') \in Nat /\ Cardinality(Retrying(q)) \in Nat
      /\ Cardinality(Retrying(q)') <= Cardinality(Retrying(q))
  BY <1>1, <1>2, FS_Subset, FS_CardinalityType
<1>4. Len(pay[q]) \in Nat /\ Len(pay[q]) + Cardinality(Retrying(q)) <= MaxRows /\ Len(pay'[q]) = Len(pay[q])
  BY DEF OrdersInv, OrdersTypeOK, RoomForRetries
<1> QED BY <1>3, <1>4, BoundsAssumption

LEMMA IdleIsJob == Idle \in Jobs /\ Idle.kind = "idle"
BY NothingAssumption DEF Idle, Jobs, JobKinds, ChargeStatuses, Quote, NoQuote, Statuses

\* A handler ends; it may have changed status and rows of an order that exists.
LEMMA EndKeepsJobs ==
  ASSUME OrdersInv, NEW w \in Workers, Ends(w),
         \A q \in Quotes : quote[q].status # "none" => quote'[q].status # "none",
         \A q \in Quotes : Len(pay'[q]) = Len(pay[q])
  PROVE  job' \in [Workers -> Jobs] /\ JobsAreSound' /\ RoomForRetries'
<1>1. job' = [job EXCEPT ![w] = Idle]
  BY DEF Ends, Becomes
<1>2. JobIsSound(Idle)
  BY IdleIsJob DEF JobIsSound
<1>3. Idle.kind # "retry"
  BY IdleIsJob
<1> QED BY <1>1, <1>2, <1>3, IdleIsJob, JobChanges, RoomKept

LEMMA OrderIsTyped ==
  ASSUME OrdersInv, NEW q \in Quotes
  PROVE  /\ quote[q] \in Quote /\ pay[q] \in Seq(Rows) /\ Len(pay[q]) \in Nat /\ Len(pay[q]) <= MaxRows
         /\ quote[q].status # "none" => pay[q] # <<>>
BY DEF OrdersInv, OrdersTypeOK, RowsFollowQuote

--------------------------------------------------------------------------------
\* Initially.

LEMMA InitOrdersInv == Init => OrdersInv
<1> SUFFICES ASSUME Init PROVE OrdersInv
  OBVIOUS
<1> USE DEF Init
<1>1. OrdersTypeOK
  <2>1. quote \in [Quotes -> Quote]
    BY DEF Quote, NoQuote, Statuses
  <2>2. pay \in [Quotes -> Seq(Rows)] /\ \A q \in Quotes : Len(pay[q]) <= MaxRows
    BY BoundsAssumption
  <2>3. charge \in [Charges -> Charge]
    BY DEF Charge, NoCharge, ChargeStatuses
  <2>4. job \in [Workers -> Jobs]
    BY IdleIsJob
  <2> QED BY <2>1, <2>2, <2>3, <2>4, BoundsAssumption DEF OrdersTypeOK
<1>2. RowsFollowQuote
  BY DEF RowsFollowQuote, NoQuote, Sold
<1>3. ChargesAreLinked
  BY DEF ChargesAreLinked, NoCharge
<1>4. JobsAreSound
  BY IdleIsJob DEF JobsAreSound, JobIsSound
<1>5. RoomForRetries
  <2> SUFFICES ASSUME NEW q \in Quotes PROVE Len(pay[q]) + Cardinality(Retrying(q)) <= MaxRows
    BY DEF RoomForRetries
  <2>1. Retrying(q) = {}
    BY IdleIsJob DEF Retrying, Runs
  <2>2. Cardinality(Retrying(q)) = 0
    BY <2>1, FS_EmptySet
  <2>3. Len(pay[q]) = 0
    OBVIOUS
  <2> QED BY <2>2, <2>3, BoundsAssumption
<1>6. SaleIsRecorded /\ OneSalePerQuote /\ PaymentMatchesSale
  BY DEF SaleIsRecorded, OneSalePerQuote, PaymentMatchesSale, Sold, NoQuote, HasApproval
<1> QED BY <1>1, <1>2, <1>3, <1>4, <1>5, <1>6 DEF OrdersInv

--------------------------------------------------------------------------------
\* Steps that change no order: a handler reads, the provider gets an answer.

LEMMA OrdersStay ==
  ASSUME OrdersInv, UNCHANGED <<quote, pay, sales>>, overtaken' = overtaken,
         stock' \in 0..MaxStock, lapsed' \subseteq Quotes, faults' \in 0..MaxFaults,
         link \subseteq link', link' \subseteq Quotes,
         \A q \in link' : quote[q].status # "none",
         charge' \in [Charges -> Charge], mail' \subseteq Notices, events' \subseteq Notices,
         ChargesAreLinked',
         job' \in [Workers -> Jobs], JobsAreSound', RoomForRetries'
  PROVE  OrdersInv'
<1>1. OrdersTypeOK'
  BY DEF OrdersInv, OrdersTypeOK
<1>2. RowsFollowQuote'
  BY DEF OrdersInv, RowsFollowQuote, Sold
<1>3. SaleIsRecorded' /\ OneSalePerQuote' /\ PaymentMatchesSale'
  BY SalesAgree
<1> QED BY <1>1, <1>2, <1>3 DEF OrdersInv

\* A worker begins a request about an order that exists.
LEMMA AskKeepsInv ==
  ASSUME OrdersInv, NEW w \in Workers, NEW j \in Jobs, job' = [job EXCEPT ![w] = j],
         JobIsSound(j), UNCHANGED <<stock, orders, provider, sales, events, overtaken>>,
         faults' \in 0..MaxFaults, RoomForRetries'
  PROVE  OrdersInv'
<1> USE DEF orders, provider
<1>2. job' \in [Workers -> Jobs] /\ JobsAreSound'
  BY JobChanges
<1>3. ChargesAreLinked'
  BY DEF OrdersInv, ChargesAreLinked
<1>4. \A q \in link' : quote[q].status # "none"
  BY DEF OrdersInv, OrdersTypeOK, RowsFollowQuote
<1> QED BY <1>2, <1>3, <1>4, OrdersStay DEF OrdersInv, OrdersTypeOK

Request(kind, q) == [Idle EXCEPT !.kind = kind, !.quote = q]

LEMMA RequestIsJob ==
  ASSUME NEW q \in Quotes, NEW kind \in JobKinds
  PROVE  /\ Request(kind, q) \in Jobs /\ Request(kind, q).kind = kind
         /\ Request(kind, q).quote = q /\ Request(kind, q).step = "read"
BY IdleIsJob DEF Idle, Jobs, Request

LEMMA AskAboutKeepsInv ==
  ASSUME OrdersInv, NEW w \in Workers, NEW q \in Quotes, NEW kind \in JobKinds,
         kind \notin {"idle", "notice"}, quote[q].status # "none",
         Starts(w, Request(kind, q)),
         UNCHANGED <<stock, orders, provider, sales, events, faults, overtaken>>,
         kind = "retry" => RoomForRetries'
  PROVE  OrdersInv'
<1> DEFINE j == Request(kind, q)
<1>1. job' = [job EXCEPT ![w] = j]
  BY DEF Starts
<1>2. j \in Jobs /\ j.kind = kind /\ j.quote = q
  BY RequestIsJob
<1> HIDE DEF j
<1>3. JobIsSound(j)
  BY <1>2 DEF JobIsSound
<1>4. RoomForRetries'
  BY <1>1, <1>2, RoomKept DEF orders
<1>5. faults' \in 0..MaxFaults
  BY DEF OrdersInv, OrdersTypeOK
<1> QED BY <1>1, <1>2, <1>3, <1>4, <1>5, AskKeepsInv

LEMMA RetryIsAdmitted ==
  ASSUME OrdersInv, NEW w \in Workers, NEW q \in Quotes, AskRetry(w, q)
  PROVE  RoomForRetries'
<1> DEFINE j == Request("retry", q)
           all == {v \in Workers : Runs(v, "retry", "read")}
<1>1. job' = [job EXCEPT ![w] = j] /\ pay' = pay /\ job[w].kind = "idle"
  BY DEF AskRetry, AskAbout, Starts, orders, Request
<1>2. j \in Jobs /\ j.kind = "retry" /\ j.quote = q /\ j.step = "read"
  BY RequestIsJob DEF JobKinds
<1> HIDE DEF j
<1>3. Len(pay[q]) + Cardinality(all) < MaxRows
  BY DEF AskRetry
<1>4. SUFFICES ASSUME NEW x \in Quotes
               PROVE  Len(pay'[x]) + Cardinality(Retrying(x)') <= MaxRows
  BY DEF RoomForRetries
<1>5. CASE x = q
  <2>1. Retrying(x)' = Retrying(x) \cup {w} /\ w \notin Retrying(x)
    BY <1>1, <1>2, <1>5 DEF Retrying, Runs, OrdersInv, OrdersTypeOK
  <2>2. Retrying(x) \subseteq all /\ IsFiniteSet(all)
    BY WorkersAssumption, FS_Subset DEF Retrying
  <2>3. /\ IsFiniteSet(Retrying(x)) /\ Cardinality(Retrying(x)) <= Cardinality(all)
        /\ Cardinality(all) \in Nat /\ Cardinality(Retrying(x)) \in Nat
    BY <2>2, FS_Subset, FS_CardinalityType
  <2>4. Cardinality(Retrying(x)') = Cardinality(Retrying(x)) + 1
    BY <2>1, <2>3, FS_AddElement
  <2> HIDE DEF all
  <2> QED BY <1>1, <1>3, <1>5, <2>3, <2>4, OrderIsTyped, BoundsAssumption
<1>6. CASE x # q
  <2>1. Retrying(x)' = Retrying(x)
    BY <1>1, <1>2, <1>6 DEF Retrying, Runs, OrdersInv, OrdersTypeOK
  <2> QED BY <1>1, <2>1 DEF OrdersInv, RoomForRetries
<1> QED BY <1>5, <1>6

LEMMA FetchKeepsInv ==
  ASSUME OrdersInv, NEW w \in Workers, NEW m \in Notices, Fetch(w, m)
  PROVE  OrdersInv'
<1> DEFINE j == [Idle EXCEPT !.kind = "notice", !.step = "fetched", !.charge = m[1],
                   !.notice = m[2], !.status = charge[m[1]].status, !.quote = charge[m[1]].quote]
<1>1. /\ job' = [job EXCEPT ![w] = j] /\ m \in mail
      /\ UNCHANGED <<stock, orders, provider, sales, events, faults, overtaken>>
  BY DEF Fetch, Starts
<1>2. m[1] \in Charges /\ m[2] \in ChargeStatuses /\ m[2] # "none"
  BY DEF Notices, ChargeStatuses
<1>3. charge[m[1]] \in Charge /\ charge[m[1]].status # "none"
  BY <1>1, <1>2 DEF OrdersInv, OrdersTypeOK, ChargesAreLinked
<1>4. charge[m[1]].quote \in Quotes /\ quote[charge[m[1]].quote].status # "none"
  BY <1>2, <1>3 DEF OrdersInv, OrdersTypeOK, ChargesAreLinked, RowsFollowQuote
<1>5. j \in Jobs /\ j.kind = "notice" /\ j.quote = charge[m[1]].quote /\ j.charge = m[1]
      /\ j.status = charge[m[1]].status /\ j.notice = m[2]
  BY <1>2, <1>3, <1>4, IdleIsJob DEF Idle, Jobs, JobKinds, Charge
<1> HIDE DEF j
<1>6. JobIsSound(j)
  BY <1>2, <1>3, <1>4, <1>5 DEF JobIsSound
<1>7. RoomForRetries'
  BY <1>1, <1>5, RoomKept DEF orders
<1>8. faults' \in 0..MaxFaults
  BY <1>1 DEF OrdersInv, OrdersTypeOK
<1> QED BY <1>1, <1>5, <1>6, <1>7, <1>8, AskKeepsInv

\* The webhook inserts its event and loads its quote.
LEMMA OpenEventKeepsInv ==
  ASSUME OrdersInv, NEW w \in Workers, OpenEvent(w)
  PROVE  OrdersInv'
<1> DEFINE j == [job[w] EXCEPT !.step = "opened", !.seen = quote[job[w].quote]]
<1>1. /\ job' = [job EXCEPT ![w] = j] /\ job[w].kind = "notice"
      /\ UNCHANGED <<stock, orders, provider, sales, events, faults, overtaken>>
  BY DEF OpenEvent, Becomes, Runs
<1>2. job[w] \in Jobs /\ JobIsSound(job[w])
  BY DEF OrdersInv, OrdersTypeOK, JobsAreSound
<1>3. quote[job[w].quote] \in Quote
  BY <1>1, <1>2, OrderIsTyped DEF JobIsSound
<1>4. j \in Jobs /\ j.kind = "notice" /\ j.quote = job[w].quote /\ j.charge = job[w].charge
      /\ j.status = job[w].status /\ j.notice = job[w].notice
  BY <1>1, <1>2, <1>3 DEF Jobs
<1> HIDE DEF j
<1>5. JobIsSound(j)
  BY <1>1, <1>2, <1>4 DEF JobIsSound
<1>6. RoomForRetries'
  BY <1>1, <1>4, RoomKept DEF orders
<1>7. faults' \in 0..MaxFaults
  BY <1>1 DEF OrdersInv, OrdersTypeOK
<1> QED BY <1>1, <1>4, <1>5, <1>6, <1>7, AskKeepsInv

LEMMA LinkOrderKeepsInv ==
  ASSUME OrdersInv, NEW w \in Workers, LinkOrder(w)
  PROVE  OrdersInv'
<1> DEFINE j == [job[w] EXCEPT !.step = "linked"]
<1>1. /\ job' = [job EXCEPT ![w] = j] /\ job[w].kind = "order" /\ link' = link \cup {job[w].quote}
      /\ UNCHANGED <<stock, orders, charge, mail, sales, events, faults, overtaken>>
  BY DEF LinkOrder, Becomes, Runs
<1>2. job[w] \in Jobs /\ JobIsSound(job[w])
  BY DEF OrdersInv, OrdersTypeOK, JobsAreSound
<1>3. j \in Jobs /\ j.kind = "order" /\ j.quote = job[w].quote
  BY <1>1, <1>2 DEF Jobs
<1> HIDE DEF j
<1>4. JobIsSound(j)
  BY <1>1, <1>2, <1>3 DEF JobIsSound
<1>5. job' \in [Workers -> Jobs] /\ JobsAreSound'
  BY <1>1, <1>3, <1>4, JobChanges DEF orders
<1>6. RoomForRetries'
  BY <1>1, <1>3, RoomKept DEF orders
<1>7. ChargesAreLinked'
  BY <1>1 DEF OrdersInv, ChargesAreLinked
<1>8. link' \subseteq Quotes /\ \A q \in link' : quote[q].status # "none"
  BY <1>1, <1>2 DEF OrdersInv, OrdersTypeOK, RowsFollowQuote, JobIsSound
<1> QED BY <1>1, <1>5, <1>6, <1>7, <1>8, OrdersStay DEF OrdersInv, OrdersTypeOK, orders

\* A handler ends without having changed an order.
LEMMA EndKeepsInv ==
  ASSUME OrdersInv, NEW w \in Workers, Ends(w),
         UNCHANGED <<stock, orders, link, charge, sales, events, overtaken>>,
         mail' \subseteq mail, faults' \in 0..MaxFaults
  PROVE  OrdersInv'
<1>1. job' \in [Workers -> Jobs] /\ JobsAreSound' /\ RoomForRetries'
  BY EndKeepsJobs DEF orders
<1>2. ChargesAreLinked'
  BY DEF OrdersInv, ChargesAreLinked
<1>3. \A q \in link' : quote[q].status # "none"
  BY DEF OrdersInv, OrdersTypeOK, RowsFollowQuote
<1> QED BY <1>1, <1>2, <1>3, OrdersStay DEF OrdersInv, OrdersTypeOK, orders

\* The provider, the clock and other customers: no handler is involved.
LEMMA OutsideKeepsInv ==
  ASSUME OrdersInv,
         \/ \E q \in Quotes : Lapse(q)
         \/ SellOther
         \/ \E c \in Charges, q \in Quotes, s \in {"in_process", "approved", "rejected"} : Pay(c, q, s)
         \/ \E c \in Charges, s \in {"approved", "rejected"} : Resolve(c, s)
  PROVE  OrdersInv'
<1>1. UNCHANGED <<quote, pay, sales, overtaken, link, events, job, faults>>
  BY DEF Lapse, SellOther, Pay, Resolve, orders, provider
<1>2. job' \in [Workers -> Jobs] /\ JobsAreSound' /\ RoomForRetries'
  BY <1>1 DEF OrdersInv, OrdersTypeOK, JobsAreSound, JobIsSound, RoomForRetries, Retrying, Runs
<1>3. \A q \in link' : quote[q].status # "none"
  BY <1>1 DEF OrdersInv, OrdersTypeOK, RowsFollowQuote
<1>4. CASE \E q \in Quotes : Lapse(q)
  <2>1. lapsed' \subseteq Quotes /\ UNCHANGED <<stock, charge, mail>>
    BY <1>4 DEF Lapse, provider, OrdersInv, OrdersTypeOK
  <2>2. ChargesAreLinked'
    BY <1>1, <2>1 DEF OrdersInv, ChargesAreLinked
  <2> QED BY <1>1, <1>2, <1>3, <2>1, <2>2, OrdersStay DEF OrdersInv, OrdersTypeOK
<1>5. CASE SellOther
  <2>1. stock' \in 0..MaxStock /\ UNCHANGED <<lapsed, charge, mail>>
    BY <1>5, BoundsAssumption DEF SellOther, orders, provider, OrdersInv, OrdersTypeOK
  <2>2. ChargesAreLinked'
    BY <1>1, <2>1 DEF OrdersInv, ChargesAreLinked
  <2> QED BY <1>1, <1>2, <1>3, <2>1, <2>2, OrdersStay DEF OrdersInv, OrdersTypeOK
<1>6. ASSUME NEW c \in Charges, NEW q \in Quotes, NEW s \in {"in_process", "approved", "rejected"},
             charge' = [charge EXCEPT ![c] = [status |-> s, quote |-> q]], q \in link,
             mail' = mail \cup {<<c, s>>}, UNCHANGED <<stock, lapsed>>
      PROVE  OrdersInv'
  <2>1. charge' \in [Charges -> Charge] /\ mail' \subseteq Notices
    BY <1>6 DEF OrdersInv, OrdersTypeOK, Charge, ChargeStatuses, Notices
  <2>2. \A d \in Charges : charge'[d].status # "none" => charge'[d].quote \in link
    BY <1>6 DEF OrdersInv, OrdersTypeOK, ChargesAreLinked
  <2>3. \A n \in mail' : charge'[n[1]].status # "none"
    BY <1>6 DEF OrdersInv, OrdersTypeOK, ChargesAreLinked, Notices
  <2>4. ChargesAreLinked'
    BY <1>1, <2>2, <2>3 DEF ChargesAreLinked
  <2> QED BY <1>1, <1>2, <1>3, <1>6, <2>1, <2>4, OrdersStay DEF OrdersInv, OrdersTypeOK
<1>7. CASE \E c \in Charges, q \in Quotes, s \in {"in_process", "approved", "rejected"} : Pay(c, q, s)
  BY <1>6, <1>7 DEF Pay, orders
<1>8. CASE \E c \in Charges, s \in {"approved", "rejected"} : Resolve(c, s)
  <2>1. PICK c \in Charges, s \in {"approved", "rejected"} : Resolve(c, s)
    BY <1>8
  <2>2. charge[c] \in Charge /\ charge[c].quote \in link
    BY <2>1 DEF Resolve, OrdersInv, OrdersTypeOK, ChargesAreLinked
  <2>3. charge' = [charge EXCEPT ![c] = [status |-> s, quote |-> charge[c].quote]]
    <3>1. \A r \in Charge : [r EXCEPT !.status = s] = [status |-> s, quote |-> r.quote]
      BY DEF Charge
    <3>2. charge' = [charge EXCEPT ![c] = [charge[c] EXCEPT !.status = s]]
      BY <2>1 DEF Resolve
    <3> QED BY <2>2, <3>1, <3>2
  <2>4. charge[c].quote \in Quotes /\ mail' = mail \cup {<<c, s>>} /\ UNCHANGED <<stock, lapsed>>
    BY <2>1, <2>2 DEF Resolve, orders, OrdersInv, OrdersTypeOK
  <2> QED BY <1>6, <2>2, <2>3, <2>4
<1> QED BY <1>4, <1>5, <1>7, <1>8

--------------------------------------------------------------------------------
\* Steps that write to orders.

LEMMA ChangeKeepsInv ==
  ASSUME OrdersInv,
         stock' \in 0..MaxStock, UNCHANGED <<lapsed, faults, link, charge>>,
         mail' \subseteq mail, events' \subseteq Notices,
         sales' \subseteq Quotes \X Kinds, overtaken' \subseteq Quotes,
         quote' \in [Quotes -> Quote], pay' \in [Quotes -> Seq(Rows)],
         \A q \in Quotes : Len(pay'[q]) = Len(pay[q]),
         \A q \in Quotes : quote'[q].status = "none" <=> quote[q].status = "none",
         \A q \in Quotes : quote[q].status = "none" => quote'[q] = quote[q],
         job' \in [Workers -> Jobs], JobsAreSound', RoomForRetries',
         SaleIsRecorded', OneSalePerQuote', PaymentMatchesSale'
  PROVE  OrdersInv'
<1>1. \A q \in Quotes : Len(pay'[q]) <= MaxRows
  BY DEF OrdersInv, OrdersTypeOK
<1>2. OrdersTypeOK'
  BY <1>1 DEF OrdersInv, OrdersTypeOK
<1>3. RowsFollowQuote'
  <2> SUFFICES ASSUME NEW q \in Quotes
               PROVE  /\ quote'[q].status = "none" => pay'[q] = <<>> /\ ~Sold(q)' /\ q \notin link'
                      /\ quote'[q].status # "none" => pay'[q] # <<>>
    BY DEF RowsFollowQuote
  <2>1. pay'[q] \in Seq(Rows) /\ pay[q] \in Seq(Rows)
    BY DEF OrdersInv, OrdersTypeOK
  <2>2. pay'[q] = <<>> <=> pay[q] = <<>>
    BY <2>1
  <2> QED BY <2>2 DEF OrdersInv, RowsFollowQuote, Sold
<1>4. ChargesAreLinked'
  BY DEF OrdersInv, ChargesAreLinked
<1> QED BY <1>2, <1>3, <1>4 DEF OrdersInv

\* A handler that ends with new statuses and rows of its orders, but sells nothing.
LEMMA WriteKeepsInv ==
  ASSUME OrdersInv, NEW w \in Workers, Ends(w),
         UNCHANGED <<stock, lapsed, faults, link, charge, sales>>,
         mail' \subseteq mail, events' \subseteq Notices,
         overtaken \subseteq overtaken', overtaken' \subseteq Quotes,
         quote' \in [Quotes -> Quote], pay' \in [Quotes -> Seq(Rows)],
         \A q \in Quotes :
           /\ Len(pay'[q]) = Len(pay[q])
           /\ quote'[q].status = "none" <=> quote[q].status = "none"
           /\ quote[q].status = "none" => quote'[q] = quote[q]
           /\ quote'[q].sale = quote[q].sale
           /\ Approved(pay'[q]) => Approved(pay[q])
           /\ q \notin overtaken' /\ Approved(pay[q]) => Approved(pay'[q])
  PROVE  OrdersInv'
<1>1. job' \in [Workers -> Jobs] /\ JobsAreSound' /\ RoomForRetries'
  BY EndKeepsJobs
<1>2. SaleIsRecorded' /\ OneSalePerQuote' /\ PaymentMatchesSale'
  BY SalesAgree
<1>3. stock' \in 0..MaxStock /\ sales' \subseteq Quotes \X Kinds
  BY DEF OrdersInv, OrdersTypeOK
<1> QED BY <1>1, <1>2, <1>3, ChangeKeepsInv

\* The order of a busy worker exists.
LEMMA JobHasOrder ==
  ASSUME OrdersInv, NEW w \in Workers, job[w].kind # "idle"
  PROVE  /\ job[w].quote \in Quotes /\ quote[job[w].quote].status # "none"
         /\ quote[job[w].quote] \in Quote
         /\ pay[job[w].quote] \in Seq(Rows) /\ pay[job[w].quote] # <<>>
BY OrderIsTyped DEF OrdersInv, JobsAreSound, JobIsSound

\* The latest row of an order, closed unless it was approved.
LEMMA LatestClosed ==
  ASSUME NEW q \in Quotes, pay[q] \in Seq(Rows), pay[q] # <<>>, Latest(q) \in Pending
  PROVE  /\ PayAs(q, "cancelled") \in Seq(Rows) /\ Len(PayAs(q, "cancelled")) = Len(pay[q])
         /\ Approved(PayAs(q, "cancelled")) <=> Approved(pay[q])
<1>1. Len(pay[q]) \in DOMAIN pay[q] /\ pay[q][Len(pay[q])].status # "approved"
  BY LatestIsARow DEF Latest, Pending
<1>2. "cancelled" \in PaymentStatuses
  BY DEF PaymentStatuses
<1>3. PayAs(q, "cancelled") = Marked(pay[q], Len(pay[q]), "cancelled")
  BY DEF PayAs, Marked
<1> QED BY <1>1, <1>2, <1>3, StatusReplaced

LEMMA CancelSupersededKeepsInv ==
  ASSUME OrdersInv, NEW w \in Workers, CancelSuperseded(w)
  PROVE  OrdersInv'
<1>1. PICK ids \in SUBSET {q \in Quotes \ {job[w].quote} : Owner[q] = Owner[job[w].quote]} :
        LET gone == {q \in ids : Replaceable(q)} IN
        /\ quote' = [q \in Quotes |->
             IF q \in gone THEN [quote[q] EXCEPT !.status = "ANULADO"] ELSE quote[q]]
        /\ pay' = [q \in Quotes |->
             IF q \in gone /\ Latest(q) \in Pending THEN PayAs(q, "cancelled") ELSE pay[q]]
  BY DEF CancelSuperseded
<1> DEFINE gone == {q \in ids : Replaceable(q)}
<1>2. \A q \in Quotes : /\ quote'[q] = IF q \in gone THEN [quote[q] EXCEPT !.status = "ANULADO"] ELSE quote[q]
                        /\ pay'[q] = IF q \in gone /\ Latest(q) \in Pending THEN PayAs(q, "cancelled") ELSE pay[q]
  BY <1>1
<1>3. \A q \in gone : quote[q].status \in Open
  BY DEF Replaceable
<1>4. quote' = [q \in Quotes |-> quote'[q]] /\ pay' = [q \in Quotes |-> pay'[q]]
  BY <1>1
<1> HIDE DEF gone
<1>5. ASSUME NEW q \in Quotes
      PROVE  /\ quote'[q] \in Quote /\ quote'[q].sale = quote[q].sale
             /\ quote'[q].status = "none" <=> quote[q].status = "none"
             /\ quote[q].status = "none" => quote'[q] = quote[q]
  <2>1. quote[q] \in Quote
    BY OrderIsTyped
  <2>2. \A r \in Quote : LET new == [r EXCEPT !.status = "ANULADO"] IN
          new \in Quote /\ new.sale = r.sale /\ new.status # "none"
    BY DEF Quote, Statuses, Closed, Cancelled
  <2>3. q \in gone => quote[q].status # "none"
    BY <1>3 DEF Open
  <2> QED BY <1>2, <2>1, <2>2, <2>3
<1>6. ASSUME NEW q \in Quotes
      PROVE  /\ pay'[q] \in Seq(Rows) /\ Len(pay'[q]) = Len(pay[q])
             /\ Approved(pay'[q]) <=> Approved(pay[q])
  BY <1>2, <1>3, OrderIsTyped, LatestClosed DEF Open
<1>7. quote' \in [Quotes -> Quote] /\ pay' \in [Quotes -> Seq(Rows)]
  BY <1>4, <1>5, <1>6
<1>8. /\ Ends(w) /\ UNCHANGED <<stock, lapsed, faults, link, charge, sales, mail, events, overtaken>>
      /\ events' \subseteq Notices /\ overtaken' \subseteq Quotes
  BY DEF CancelSuperseded, provider, OrdersInv, OrdersTypeOK
<1> QED BY <1>5, <1>6, <1>7, <1>8, WriteKeepsInv

LEMMA SaveCancelKeepsInv ==
  ASSUME OrdersInv, NEW w \in Workers, SaveCancel(w)
  PROVE  OrdersInv'
<1> DEFINE q == job[w].quote
           rows == IF Latest(q) \in Pending THEN PayAs(q, "cancelled") ELSE pay[q]
<1>1. job[w].kind # "idle"
  BY DEF SaveCancel, Runs
<1>2. /\ quote' = [quote EXCEPT ![q].status = "ANULADO"]
      /\ pay' = [pay EXCEPT ![q] = rows]
      /\ Ends(w) /\ UNCHANGED <<stock, lapsed, faults, link, charge, sales, mail, events, overtaken>>
  BY DEF SaveCancel, provider
<1>3. q \in Quotes /\ quote[q].status # "none" /\ quote[q] \in Quote /\ pay[q] \in Seq(Rows) /\ pay[q] # <<>>
  BY <1>1, JobHasOrder
<1>4. /\ rows \in Seq(Rows) /\ Len(rows) = Len(pay[q])
      /\ Approved(rows) <=> Approved(pay[q])
  BY <1>3, LatestClosed
<1> HIDE DEF rows, q
<1>5. /\ quote' \in [Quotes -> Quote] /\ pay' \in [Quotes -> Seq(Rows)]
      /\ events' \subseteq Notices /\ overtaken' \subseteq Quotes
  BY <1>2, <1>3, <1>4 DEF OrdersInv, OrdersTypeOK, Quote, Statuses, Closed, Cancelled
<1>6. ASSUME NEW x \in Quotes
      PROVE  /\ quote'[x].sale = quote[x].sale
             /\ quote'[x].status = "none" <=> quote[x].status = "none"
             /\ quote[x].status = "none" => quote'[x] = quote[x]
             /\ Len(pay'[x]) = Len(pay[x]) /\ (Approved(pay'[x]) <=> Approved(pay[x]))
  BY <1>2, <1>3, <1>4, <1>6 DEF OrdersInv, OrdersTypeOK, Quote
<1> QED BY <1>2, <1>5, <1>6, WriteKeepsInv

LEMMA SaveStatusKeepsInv ==
  ASSUME OrdersInv, NEW w \in Workers, SaveStatus(w)
  PROVE  OrdersInv'
<1> DEFINE q == job[w].quote
           s == NewStatus[job[w].kind]
<1>1. job[w].kind # "idle" /\ s \in Statuses \ {"none"}
  BY DEF SaveStatus, NewStatus, Statuses, Open, Closed, Cancelled
<1>2. /\ quote' = [quote EXCEPT ![q] = [quote[q] EXCEPT !.status = s]]
      /\ Ends(w) /\ UNCHANGED <<stock, lapsed, faults, pay, link, charge, sales, mail, events, overtaken>>
  BY DEF SaveStatus, OnlyStatus, provider
<1>3. q \in Quotes /\ quote[q].status # "none" /\ quote[q] \in Quote
  BY <1>1, JobHasOrder
<1> HIDE DEF s, q
<1>4. /\ quote' \in [Quotes -> Quote] /\ pay' \in [Quotes -> Seq(Rows)]
      /\ events' \subseteq Notices /\ overtaken' \subseteq Quotes
  BY <1>1, <1>2, <1>3 DEF OrdersInv, OrdersTypeOK, Quote
<1>5. ASSUME NEW x \in Quotes
      PROVE  /\ quote'[x].sale = quote[x].sale
             /\ quote'[x].status = "none" <=> quote[x].status = "none"
             /\ quote[x].status = "none" => quote'[x] = quote[x]
             /\ pay'[x] = pay[x]
  BY <1>1, <1>2, <1>3 DEF OrdersInv, OrdersTypeOK, Quote
<1> QED BY <1>2, <1>4, <1>5, WriteKeepsInv

LEMMA EventIsNotice ==
  ASSUME OrdersInv, NEW w \in Workers, job[w].kind = "notice"
  PROVE  Event(w) \in Notices
BY DEF Event, Notices, OrdersInv, OrdersTypeOK, JobsAreSound, JobIsSound, Jobs, ChargeStatuses

\* A closed row of a webhook: it was pending and is cancelled, or it stays as it was.
LEMMA IgnoreNoticeKeepsInv ==
  ASSUME OrdersInv, NEW w \in Workers, IgnoreNotice(w)
  PROVE  OrdersInv'
<1> DEFINE q == job[w].quote
<1>1. PICK i \in DOMAIN pay[q] :
        pay' = [pay EXCEPT ![q][i].status = IF @ \in Pending THEN "cancelled" ELSE @]
  BY DEF IgnoreNotice
<1>2. job[w].kind # "idle"
  BY DEF IgnoreNotice, Runs
<1>3. q \in Quotes /\ pay[q] \in Seq(Rows) /\ pay[q] # <<>>
  BY <1>2, JobHasOrder
<1> DEFINE s == IF pay[q][i].status \in Pending THEN "cancelled" ELSE pay[q][i].status
           rows == Marked(pay[q], i, s)
<1>4. pay' = [pay EXCEPT ![q] = rows]
  BY <1>1 DEF Marked
<1>5. pay[q][i] \in Rows
  BY <1>1, <1>3
<1>6. s \in PaymentStatuses /\ (s = "approved" <=> pay[q][i].status = "approved")
  BY <1>5 DEF Rows, PaymentStatuses, Pending
<1>7. rows \in Seq(Rows) /\ Len(rows) = Len(pay[q]) /\ (Approved(rows) <=> Approved(pay[q]))
  BY <1>1, <1>3, <1>6, StatusReplaced
<1>8. /\ Ends(w) /\ UNCHANGED <<stock, quote, lapsed, faults, link, charge, sales, overtaken>>
      /\ mail' \subseteq mail /\ events' = events \cup {Event(w)}
  BY DEF IgnoreNotice, Processed, Answer
<1> HIDE DEF rows, s, q
<1>9. /\ quote' \in [Quotes -> Quote] /\ pay' \in [Quotes -> Seq(Rows)]
      /\ overtaken' \subseteq Quotes
  BY <1>4, <1>7, <1>8 DEF OrdersInv, OrdersTypeOK
<1>10. events' \subseteq Notices
  BY <1>2, <1>8, EventIsNotice DEF IgnoreNotice, Runs, OrdersInv, OrdersTypeOK
<1>11. ASSUME NEW x \in Quotes
       PROVE  Len(pay'[x]) = Len(pay[x]) /\ (Approved(pay'[x]) <=> Approved(pay[x]))
  BY <1>3, <1>4, <1>7 DEF OrdersInv, OrdersTypeOK
<1> QED BY <1>8, <1>9, <1>10, <1>11, WriteKeepsInv

\* Another status than an approval is recorded.
LEMMA RecordStatusKeepsInv ==
  ASSUME OrdersInv, NEW w \in Workers, RecordStatus(w)
  PROVE  OrdersInv'
<1> DEFINE q == job[w].quote
           r == Row(job[w].status, job[w].charge)
<1>1. PICK i \in DOMAIN pay[q] : pay' = [pay EXCEPT ![q][i] = r]
  BY DEF RecordStatus, RowsOf
<1>2. /\ job[w].kind = "notice" /\ job[w].status # "approved"
      /\ Ends(w) /\ UNCHANGED <<stock, quote, lapsed, faults, link, charge, sales>>
      /\ mail' \subseteq mail /\ events' = events \cup {Event(w)}
      /\ overtaken' = overtaken \cup {x \in {q} : Sold(x)}
  BY DEF RecordStatus, Recordable, Runs, Processed, Answer
<1>3. q \in Quotes /\ pay[q] \in Seq(Rows)
  BY <1>2, JobHasOrder
<1>4. job[w].status \in {"in_process", "rejected"} /\ job[w].charge \in Charges
  BY <1>2 DEF OrdersInv, OrdersTypeOK, JobsAreSound, JobIsSound, Jobs, ChargeStatuses
<1>5. r \in Rows /\ r.status # "approved"
  BY <1>4 DEF Row, Rows, PaymentStatuses, Pending
<1> DEFINE rows == [pay[q] EXCEPT ![i] = r]
<1>6. pay' = [pay EXCEPT ![q] = rows]
  BY <1>1
<1> HIDE DEF r, q
<1>7. /\ rows \in Seq(Rows) /\ Len(rows) = Len(pay[q]) /\ rows[i] = r /\ DOMAIN rows = DOMAIN pay[q]
      /\ \A k \in DOMAIN pay[q] : k # i => rows[k] = pay[q][k]
  BY <1>1, <1>3, <1>5
<1> HIDE DEF rows
<1>8. Approved(rows) => Approved(pay[q])
  BY <1>5, <1>7 DEF Approved
<1>9. q \notin overtaken' => ~Approved(pay[q])
  BY <1>2, <1>3, ApprovalIsARow DEF OrdersInv, PaymentMatchesSale
<1>10. /\ quote' \in [Quotes -> Quote] /\ pay' \in [Quotes -> Seq(Rows)]
       /\ overtaken \subseteq overtaken' /\ overtaken' \subseteq Quotes
  BY <1>2, <1>3, <1>6, <1>7 DEF OrdersInv, OrdersTypeOK
<1>11. events' \subseteq Notices
  BY <1>2, EventIsNotice DEF OrdersInv, OrdersTypeOK
<1>12. ASSUME NEW x \in Quotes
       PROVE  /\ Len(pay'[x]) = Len(pay[x]) /\ (Approved(pay'[x]) => Approved(pay[x]))
              /\ x \notin overtaken' /\ Approved(pay[x]) => Approved(pay'[x])
  BY <1>3, <1>6, <1>7, <1>8, <1>9 DEF OrdersInv, OrdersTypeOK
<1> QED BY <1>2, <1>10, <1>11, <1>12, WriteKeepsInv

LEMMA ConvertKeepsInv ==
  ASSUME OrdersInv, NEW q \in Quotes, ConvertAtPos(q)
  PROVE  OrdersInv'
<1>1. /\ quote' = [quote EXCEPT ![q] = [status |-> "CONVERTIDO", sale |-> "pos"]]
      /\ pay' = [pay EXCEPT ![q] = Settle(pay[q])]
      /\ sales' = sales \cup {<<q, "pos">>} /\ stock >= 1 /\ stock' = stock - 1
      /\ UNCHANGED <<lapsed, link, charge, mail, events, job, faults, overtaken>>
      /\ quote[q].status # "none" /\ ~Sold(q)
  BY DEF ConvertAtPos, Convertible, provider, Open
<1>2. /\ Settle(pay[q]) \in Seq(Rows) /\ Len(Settle(pay[q])) = Len(pay[q])
      /\ Approved(Settle(pay[q])) <=> Approved(pay[q])
  BY OrderIsTyped, RowsSettled
<1>3. stock' \in 0..MaxStock /\ sales' \subseteq Quotes \X Kinds
  BY <1>1, BoundsAssumption DEF OrdersInv, OrdersTypeOK, Kinds
<1>4. [status |-> "CONVERTIDO", sale |-> "pos"] \in Quote
  BY DEF Quote, Statuses, Closed, Kinds
<1>5. quote' \in [Quotes -> Quote] /\ pay' \in [Quotes -> Seq(Rows)]
  BY <1>1, <1>2, <1>4 DEF OrdersInv, OrdersTypeOK
<1>6. ASSUME NEW x \in Quotes
      PROVE  /\ Len(pay'[x]) = Len(pay[x]) /\ (Approved(pay'[x]) <=> Approved(pay[x]))
             /\ quote'[x].status = "none" <=> quote[x].status = "none"
             /\ quote[x].status = "none" => quote'[x] = quote[x]
             /\ Sold(x)' <=> (Sold(x) \/ x = q)
  BY <1>1, <1>2, NothingAssumption DEF OrdersInv, OrdersTypeOK, Sold
<1>7. job' \in [Workers -> Jobs] /\ JobsAreSound' /\ RoomForRetries'
  BY <1>1, <1>6 DEF OrdersInv, OrdersTypeOK, JobsAreSound, JobIsSound, RoomForRetries, Retrying, Runs
<1>8. ~Approved(pay[q]) /\ \A k \in Kinds : <<q, k>> \notin sales
  BY <1>1, ApprovalIsARow DEF OrdersInv, PaymentMatchesSale, SaleIsRecorded
<1>9. SaleIsRecorded'
  BY <1>1, <1>6, <1>8 DEF OrdersInv, SaleIsRecorded, Kinds
<1>10. OneSalePerQuote'
  BY <1>1, <1>8 DEF OrdersInv, OneSalePerQuote
<1>11. PaymentMatchesSale'
  <2>1. \A x \in Quotes : HasApproval(x)' <=> Approved(pay'[x])
    BY DEF HasApproval, Approved
  <2>2. \A x \in Quotes : <<x, "paid">> \in sales' <=> <<x, "paid">> \in sales
    BY <1>1
  <2> QED BY <1>1, <1>6, <2>1, <2>2, ApprovalIsARow DEF OrdersInv, PaymentMatchesSale
<1>12. mail' \subseteq mail /\ events' \subseteq Notices /\ overtaken' \subseteq Quotes
  BY <1>1 DEF OrdersInv, OrdersTypeOK
<1> QED BY <1>1, <1>3, <1>5, <1>6, <1>7, <1>9, <1>10, <1>11, <1>12, ChangeKeepsInv

\* A paid order: a second sale of it counts only if the webhook overtook the first.
LEMMA FinalizeKeepsInv ==
  ASSUME OrdersInv, NEW w \in Workers, Finalize(w)
  PROVE  OrdersInv'
<1> DEFINE q == job[w].quote
           byId == RowOfId(q, job[w].charge)
<1>1. PICK i \in (IF byId # {} THEN byId ELSE RowsOf(q)) :
        pay' = [pay EXCEPT ![q][i].status = "approved"]
  BY DEF Finalize
<1>2. /\ job[w].kind = "notice"
      /\ Ends(w) /\ UNCHANGED <<lapsed, link, charge, faults>>
      /\ mail' \subseteq mail /\ events' = events \cup {Event(w)}
      /\ stock >= 1 /\ stock' = stock - 1
      /\ sales' = sales \cup {<<q, "paid">>}
      /\ quote' = [quote EXCEPT ![q] = [status |-> "CONVERTIDO", sale |-> "paid"]]
      /\ overtaken' = overtaken \cup {x \in {q} : Sold(x)}
  BY DEF Finalize, Runs, Processed, Answer, Payable
<1>3. q \in Quotes /\ quote[q].status # "none" /\ pay[q] \in Seq(Rows)
  BY <1>2, JobHasOrder
<1>4. i \in DOMAIN pay[q]
  BY <1>1 DEF RowOfId, RowsOf
<1> DEFINE rows == Marked(pay[q], i, "approved")
<1>5. pay' = [pay EXCEPT ![q] = rows]
  BY <1>1 DEF Marked
<1>6. rows \in Seq(Rows) /\ Len(rows) = Len(pay[q]) /\ Approved(rows)
  BY <1>3, <1>4, StatusReplaced DEF PaymentStatuses
<1> HIDE DEF rows, q, byId
<1>7. stock' \in 0..MaxStock /\ sales' \subseteq Quotes \X Kinds
  BY <1>2, <1>3, BoundsAssumption DEF OrdersInv, OrdersTypeOK, Kinds
<1>8. [status |-> "CONVERTIDO", sale |-> "paid"] \in Quote
  BY DEF Quote, Statuses, Closed, Kinds
<1>9. quote' \in [Quotes -> Quote] /\ pay' \in [Quotes -> Seq(Rows)] /\ overtaken' \subseteq Quotes
  BY <1>2, <1>3, <1>5, <1>6, <1>8 DEF OrdersInv, OrdersTypeOK
<1>10. ASSUME NEW x \in Quotes
       PROVE  /\ Len(pay'[x]) = Len(pay[x])
              /\ Approved(pay'[x]) <=> (Approved(pay[x]) \/ x = q)
              /\ quote'[x].status = "none" <=> quote[x].status = "none"
              /\ quote[x].status = "none" => quote'[x] = quote[x]
              /\ Sold(x)' <=> (Sold(x) \/ x = q)
  BY <1>2, <1>3, <1>5, <1>6, NothingAssumption DEF OrdersInv, OrdersTypeOK, Sold
<1>11. job' \in [Workers -> Jobs] /\ JobsAreSound' /\ RoomForRetries'
  BY <1>2, <1>10, EndKeepsJobs
<1>12. q \notin overtaken' => ~Approved(pay[q]) /\ \A k \in Kinds : <<q, k>> \notin sales
  BY <1>2, <1>3, ApprovalIsARow DEF OrdersInv, PaymentMatchesSale, SaleIsRecorded
<1>13. SaleIsRecorded'
  BY <1>2, <1>3, <1>10 DEF OrdersInv, SaleIsRecorded, Kinds
<1>14. OneSalePerQuote'
  BY <1>2, <1>3, <1>12 DEF OrdersInv, OneSalePerQuote
<1>15. PaymentMatchesSale'
  <2>1. \A x \in Quotes : HasApproval(x)' <=> Approved(pay'[x])
    BY DEF HasApproval, Approved
  <2>2. \A x \in Quotes : <<x, "paid">> \in sales' <=> (<<x, "paid">> \in sales \/ x = q)
    BY <1>2
  <2> QED BY <1>2, <1>10, <2>1, <2>2, ApprovalIsARow DEF OrdersInv, PaymentMatchesSale
<1>16. events' \subseteq Notices
  BY <1>2, EventIsNotice DEF OrdersInv, OrdersTypeOK
<1> QED BY <1>2, <1>7, <1>9, <1>10, <1>11, <1>13, <1>14, <1>15, <1>16, ChangeKeepsInv

\* An order comes to life: no sale, no rows but one, and nobody busy with it.
LEMMA PlaceOrderKeepsInv ==
  ASSUME OrdersInv, NEW w \in Workers, NEW q \in Quotes, PlaceOrder(w, q)
  PROVE  OrdersInv'
<1> DEFINE j == Request("order", q)
           rows == <<Row("pending", Nothing)>>
<1>1. /\ quote[q].status = "none"
      /\ job[w].kind = "idle" /\ job' = [job EXCEPT ![w] = j]
      /\ quote' = [quote EXCEPT ![q].status = "ENVIADO"]
      /\ pay' = [pay EXCEPT ![q] = rows]
      /\ UNCHANGED <<stock, lapsed, link, charge, mail, sales, events, faults, overtaken>>
  BY DEF PlaceOrder, Starts, Request, provider
<1>2. rows \in Seq(Rows) /\ Len(rows) = 1 /\ rows # <<>> /\ ~Approved(rows)
  <2>1. Row("pending", Nothing) \in Rows /\ Row("pending", Nothing).status = "pending"
    BY DEF Row, Rows, PaymentStatuses, Pending
  <2> QED BY <2>1 DEF Approved
<1> HIDE DEF rows
<1>3. j \in Jobs /\ j.kind = "order" /\ j.quote = q
  BY RequestIsJob DEF JobKinds
<1> HIDE DEF j
<1>4. quote[q] \in Quote /\ pay[q] = <<>> /\ ~Sold(q) /\ q \notin link
  BY <1>1, OrderIsTyped DEF OrdersInv, RowsFollowQuote
<1>5. ASSUME NEW x \in Quotes
      PROVE  /\ quote'[x] \in Quote /\ quote'[x].sale = quote[x].sale
             /\ x # q => quote'[x] = quote[x] /\ pay'[x] = pay[x]
             /\ x = q => quote'[x].status = "ENVIADO" /\ pay'[x] = rows
             /\ pay'[x] \in Seq(Rows) /\ Len(pay'[x]) <= MaxRows
             /\ Approved(pay'[x]) <=> Approved(pay[x])
  <2>1. CASE x = q
    <3>1. ~Approved(pay[x])
      BY <1>4, <2>1 DEF Approved
    <3>2. pay'[x] = rows /\ quote'[x] = [quote[q] EXCEPT !.status = "ENVIADO"]
      BY <1>1, <2>1 DEF OrdersInv, OrdersTypeOK
    <3>3. quote'[x] \in Quote /\ quote'[x].sale = quote[x].sale /\ quote'[x].status = "ENVIADO"
      BY <1>4, <2>1, <3>2 DEF Quote, Statuses, Open
    <3>4. pay'[x] \in Seq(Rows) /\ Len(pay'[x]) <= MaxRows
      <4>1. pay'[x] \in Seq(Rows) /\ Len(pay'[x]) = 1
        BY <1>2, <3>2
      <4>2. 1 <= MaxRows
        BY BoundsAssumption
      <4> QED BY <4>1, <4>2
    <3>5. ~Approved(pay'[x])
      BY <1>2, <3>2 DEF Approved
    <3> QED BY <2>1, <3>1, <3>2, <3>3, <3>4, <3>5
  <2>2. CASE x # q
    BY <1>1, <2>2, OrderIsTyped DEF OrdersInv, OrdersTypeOK
  <2> QED BY <2>1, <2>2
<1>6. \A v \in Workers : job[v].kind # "idle" => job[v].quote # q
  BY <1>1 DEF OrdersInv, JobsAreSound, JobIsSound
<1>7. OrdersTypeOK'
  <2>1. quote' \in [Quotes -> Quote] /\ pay' \in [Quotes -> Seq(Rows)]
    BY <1>1, <1>5 DEF OrdersInv, OrdersTypeOK
  <2>2. job' \in [Workers -> Jobs]
    BY <1>1, <1>3 DEF OrdersInv, OrdersTypeOK
  <2> QED BY <1>1, <1>5, <2>1, <2>2 DEF OrdersInv, OrdersTypeOK
<1>8. RowsFollowQuote'
  BY <1>1, <1>2, <1>5 DEF OrdersInv, RowsFollowQuote, Sold
<1>9. ChargesAreLinked'
  BY <1>1 DEF OrdersInv, ChargesAreLinked
<1>10. JobsAreSound'
  BY <1>1, <1>3, <1>5, <1>6 DEF OrdersInv, OrdersTypeOK, JobsAreSound, JobIsSound
<1>11. RoomForRetries'
  <2> SUFFICES ASSUME NEW x \in Quotes
               PROVE  Len(pay'[x]) + Cardinality(Retrying(x)') <= MaxRows
    BY DEF RoomForRetries
  <2>1. Retrying(x)' = Retrying(x)
    BY <1>1, <1>3 DEF Retrying, Runs, OrdersInv, OrdersTypeOK
  <2>2. CASE x = q
    <3>1. Retrying(x) = {}
      BY <1>6, <2>2 DEF Retrying, Runs
    <3>2. Cardinality(Retrying(x)') = 0
      BY <2>1, <3>1, FS_EmptySet
    <3>3. Len(pay'[x]) = 1
      BY <1>2, <1>5, <2>2
    <3> QED BY <3>2, <3>3, BoundsAssumption
  <2>3. CASE x # q
    BY <1>5, <2>1, <2>3 DEF OrdersInv, RoomForRetries
  <2> QED BY <2>2, <2>3
<1>12. SaleIsRecorded' /\ OneSalePerQuote' /\ PaymentMatchesSale'
  BY <1>1, <1>5, SalesAgree
<1> QED BY <1>7, <1>8, <1>9, <1>10, <1>11, <1>12 DEF OrdersInv

\* The row of a retry has been counted since it was asked for.
LEMMA SaveRetryKeepsInv ==
  ASSUME OrdersInv, NEW w \in Workers, SaveRetry(w)
  PROVE  OrdersInv'
<1>0. job[w].kind = "retry" /\ job[w].quote \in Quotes
  BY JobHasOrder DEF SaveRetry, Runs
<1> PICK q \in Quotes : q = job[w].quote
  BY <1>0
<1> DEFINE rows == Append(pay[q], Row("pending", Nothing))
<1>1. /\ job[w].kind = "retry" /\ w \in Retrying(q)
      /\ link' = link \cup {q} /\ pay' = [pay EXCEPT ![q] = rows]
      /\ job' = [job EXCEPT ![w] = Idle]
      /\ UNCHANGED <<stock, quote, lapsed, charge, mail, sales, events, faults, overtaken>>
  BY DEF SaveRetry, Runs, Ends, Becomes, Retrying
<1>2. q \in Quotes /\ quote[q].status # "none" /\ pay[q] \in Seq(Rows)
  BY <1>1, JobHasOrder
<1>3. Row("pending", Nothing) \in Rows /\ Row("pending", Nothing).status = "pending"
  BY DEF Row, Rows, PaymentStatuses, Pending
<1>4. rows \in Seq(Rows) /\ Len(rows) = Len(pay[q]) + 1 /\ (Approved(rows) <=> Approved(pay[q]))
  BY <1>2, <1>3, RowAppended
<1>5. rows # <<>>
  BY <1>2, <1>4
<1> HIDE DEF rows
<1>6. Retrying(q)' = Retrying(q) \ {w} /\ \A x \in Quotes \ {q} : Retrying(x)' = Retrying(x)
  BY <1>1, IdleIsJob DEF Retrying, Runs, OrdersInv, OrdersTypeOK
<1>7. /\ Cardinality(Retrying(q)') = Cardinality(Retrying(q)) - 1
      /\ Cardinality(Retrying(q)) \in Nat /\ Cardinality(Retrying(q)') \in Nat
  <2>1. IsFiniteSet(Retrying(q))
    BY WorkersAssumption, FS_Subset DEF Retrying
  <2> QED BY <1>1, <1>6, <2>1, FS_RemoveElement, FS_CardinalityType, FS_Subset
<1>8. RoomForRetries'
  <2> SUFFICES ASSUME NEW x \in Quotes
               PROVE  Len(pay'[x]) + Cardinality(Retrying(x)') <= MaxRows
    BY DEF RoomForRetries
  <2>1. Len(pay[q]) \in Nat /\ Len(pay[q]) + Cardinality(Retrying(q)) <= MaxRows
    BY <1>2 DEF OrdersInv, RoomForRetries
  <2>2. CASE x = q
    BY <1>1, <1>2, <1>4, <1>7, <2>1, <2>2, BoundsAssumption DEF OrdersInv, OrdersTypeOK
  <2>3. CASE x # q
    BY <1>1, <1>6, <2>3 DEF OrdersInv, OrdersTypeOK, RoomForRetries
  <2> QED BY <2>2, <2>3
<1>9. ASSUME NEW x \in Quotes
      PROVE  /\ pay'[x] \in Seq(Rows) /\ Len(pay'[x]) <= MaxRows
             /\ (pay'[x] = <<>> => pay[x] = <<>> /\ x # q) /\ (x # q => pay'[x] = pay[x])
             /\ Approved(pay'[x]) <=> Approved(pay[x])
  <2>1. CASE x = q
    <3>1. Len(pay'[x]) = Len(rows) /\ pay'[x] = rows
      BY <1>1, <1>2, <2>1 DEF OrdersInv, OrdersTypeOK
    <3>2. Len(pay'[x]) + Cardinality(Retrying(q)') <= MaxRows
      BY <1>8, <2>1 DEF RoomForRetries
    <3> QED BY <1>2, <1>4, <1>5, <1>7, <2>1, <3>1, <3>2, BoundsAssumption
  <2>2. CASE x # q
    BY <1>1, <2>2, OrderIsTyped DEF OrdersInv, OrdersTypeOK
  <2> QED BY <2>1, <2>2
<1>10. job' \in [Workers -> Jobs] /\ JobsAreSound'
  <2>1. JobIsSound(Idle)
    BY IdleIsJob DEF JobIsSound
  <2> QED BY <1>1, <2>1, IdleIsJob, JobChanges
<1>11. OrdersTypeOK'
  <2>1. pay' \in [Quotes -> Seq(Rows)] /\ link' \subseteq Quotes
    BY <1>1, <1>2, <1>9 DEF OrdersInv, OrdersTypeOK
  <2> QED BY <1>1, <1>9, <1>10, <2>1 DEF OrdersInv, OrdersTypeOK
<1>12. RowsFollowQuote'
  BY <1>1, <1>2, <1>9 DEF OrdersInv, RowsFollowQuote, Sold
<1>13. ChargesAreLinked'
  BY <1>1 DEF OrdersInv, ChargesAreLinked
<1>14. SaleIsRecorded' /\ OneSalePerQuote' /\ PaymentMatchesSale'
  BY <1>1, <1>9, SalesAgree
<1> QED BY <1>8, <1>10, <1>11, <1>12, <1>13, <1>14 DEF OrdersInv

--------------------------------------------------------------------------------
\* Every step keeps the invariant.

LEMMA RefuseKeepsInv ==
  ASSUME OrdersInv, NEW w \in Workers, RefuseNotice(w) \/ Duplicate(w) \/ Abort(w)
  PROVE  OrdersInv'
<1>1. /\ Ends(w) /\ UNCHANGED <<stock, orders, link, charge, sales, events, overtaken>>
      /\ mail' \subseteq mail
  BY DEF RefuseNotice, Duplicate, Abort, Answer, provider
<1>2. faults' \in 0..MaxFaults
  BY BoundsAssumption DEF RefuseNotice, Duplicate, Abort, OrdersInv, OrdersTypeOK
<1> QED BY <1>1, <1>2, EndKeepsInv

LEMMA AskKindsKeepInv ==
  ASSUME OrdersInv, NEW w \in Workers, NEW q \in Quotes,
         \/ ReuseOrder(w, q) \/ AskRetry(w, q) \/ AskCancel(w, q)
         \/ AskAnnul(w, q) \/ AskExpire(w, q) \/ AskAccept(w, q)
  PROVE  OrdersInv'
<1>1. PICK kind \in {"order", "retry", "cancel", "annul", "expire", "accept"} :
        /\ quote[q].status # "none"
        /\ Starts(w, Request(kind, q))
        /\ UNCHANGED <<stock, orders, provider, sales, events, faults, overtaken>>
        /\ kind = "retry" => AskRetry(w, q)
  <2>1. CASE ReuseOrder(w, q)
    BY <2>1 DEF ReuseOrder, Request, Open
  <2>2. CASE AskRetry(w, q)
    BY <2>2 DEF AskRetry, AskAbout, Request
  <2>3. CASE AskCancel(w, q)
    BY <2>3 DEF AskCancel, AskAbout, Request
  <2>4. CASE AskAnnul(w, q)
    BY <2>4 DEF AskAnnul, AskAbout, Request
  <2>5. CASE AskExpire(w, q)
    BY <2>5 DEF AskExpire, AskAbout, Request
  <2>6. CASE AskAccept(w, q)
    BY <2>6 DEF AskAccept, AskAbout, Request
  <2> QED BY <2>1, <2>2, <2>3, <2>4, <2>5, <2>6
<1>2. kind \in JobKinds /\ kind \notin {"idle", "notice"}
  BY DEF JobKinds
<1>3. kind = "retry" => RoomForRetries'
  BY <1>1, RetryIsAdmitted
<1> QED BY <1>1, <1>2, <1>3, AskAboutKeepsInv

LEMMA NextOrdersInv == OrdersInv /\ [Next]_vars => OrdersInv'
<1> SUFFICES ASSUME OrdersInv, [Next]_vars PROVE OrdersInv'
  OBVIOUS
<1>1. CASE UNCHANGED vars
  <2> USE <1>1 DEF vars, orders, provider
  <2>1. job' \in [Workers -> Jobs] /\ JobsAreSound' /\ RoomForRetries' /\ ChargesAreLinked'
    BY DEF OrdersInv, OrdersTypeOK, JobsAreSound, JobIsSound, RoomForRetries, Retrying, Runs, ChargesAreLinked
  <2>2. \A q \in link' : quote[q].status # "none"
    BY DEF OrdersInv, OrdersTypeOK, RowsFollowQuote
  <2> QED BY <2>1, <2>2, OrdersStay DEF OrdersInv, OrdersTypeOK
<1>2. ASSUME NEW w \in Workers, Buy(w) PROVE OrdersInv'
  BY <1>2, PlaceOrderKeepsInv, AskKindsKeepInv, LinkOrderKeepsInv, CancelSupersededKeepsInv,
     SaveRetryKeepsInv, SaveCancelKeepsInv DEF Buy
<1>3. ASSUME NEW w \in Workers, Attend(w) PROVE OrdersInv'
  BY <1>3, AskKindsKeepInv, SaveStatusKeepsInv DEF Attend
<1>4. ASSUME NEW w \in Workers, Process(w) PROVE OrdersInv'
  BY <1>4, RefuseKeepsInv, OpenEventKeepsInv, IgnoreNoticeKeepsInv, RecordStatusKeepsInv,
     FinalizeKeepsInv DEF Process
<1>5. ASSUME NEW w \in Workers, Abort(w) PROVE OrdersInv'
  BY <1>5, RefuseKeepsInv
<1>6. ASSUME NEW w \in Workers, NEW m \in Notices, Fetch(w, m) PROVE OrdersInv'
  BY <1>6, FetchKeepsInv
<1>7. ASSUME NEW q \in Quotes, ConvertAtPos(q) PROVE OrdersInv'
  BY <1>7, ConvertKeepsInv
<1> QED BY <1>1, <1>2, <1>3, <1>4, <1>5, <1>6, <1>7, OutsideKeepsInv DEF Next

--------------------------------------------------------------------------------
\* The invariant holds in every behaviour, and with it what it consists of.
THEOREM OrdersInvariant == Spec => []OrdersInv
BY InitOrdersInv, NextOrdersInv, PTL DEF Spec

\* Every variable of the vendor's orders keeps its type, and no quote gets more payment
\* rows than its retries were admitted for.
THEOREM OrdersTypeCorrect == Spec => []OrdersTypeOK
<1>1. OrdersInv => OrdersTypeOK
  BY DEF OrdersInv
<1> QED BY <1>1, OrdersInvariant, PTL

\* However payments, conversions, expiry, cancellation and repeated notices interleave,
\* no order is sold twice, unless a webhook overtook the sale.
THEOREM OrdersAreSoldOnce == Spec => []OneSalePerQuote
<1>1. OrdersInv => OneSalePerQuote
  BY DEF OrdersInv
<1> QED BY <1>1, OrdersInvariant, PTL

\* No write of a status that was decided before a sale makes the quote forget that sale.
THEOREM QuotesKnowTheirSale == Spec => []SaleIsRecorded
<1>1. OrdersInv => SaleIsRecorded
  BY DEF OrdersInv
<1> QED BY <1>1, OrdersInvariant, PTL

\* The payments table says approved exactly for the orders that were sold to a payer.
THEOREM PaymentsMatchSales == Spec => []PaymentMatchesSale
<1>1. OrdersInv => PaymentMatchesSale
  BY DEF OrdersInv
<1> QED BY <1>1, OrdersInvariant, PTL
================================================================================
