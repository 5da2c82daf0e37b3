------------------------------ MODULE VendorOrders ------------------------------
(***************************************************************************)
(* The orders of the AI vendor: a quote with a payment link                *)
(* (services/ai_agent/vendor_order_service.py), its payment notices        *)
(* (services/webhook_service.py, flow ai_order), its conversion at the     *)
(* point of sale (services/sales/sale_service.py, sales.py) and the other  *)
(* changes of its status (quotes.py).                                      *)
(*                                                                         *)
(* A handler whose reads and writes are separated by a call to the payment *)
(* provider, or whose read takes no lock, is a job of a worker: one action *)
(* reads, a later one writes with what was read.  SELECT ... FOR UPDATE of *)
(* a row the session has not loaded yet reads it as it is when the lock is *)
(* granted, so such a transaction is one action.  The webhook has loaded   *)
(* its quote before it locks it, and the lock does not refresh the copy.   *)
(***************************************************************************)
EXTENDS Integers, FiniteSets, Sequences

CONSTANTS
  Quotes,       \* rows the quotes table can hold in this instance
  Owner,        \* the conversation each quote would be asked for in
  Charges,      \* payments the provider can receive
  Workers,
  Nothing,      \* NULL
  MaxStock,     \* units of the product at the start, at most
  MaxRows,      \* payment rows of one quote, at most
  MaxFaults     \* aborted transactions, at most

ASSUME NothingAssumption == Nothing \notin Quotes \cup Charges \cup {"pos", "paid"}
ASSUME WorkersAssumption == IsFiniteSet(Workers)
ASSUME BoundsAssumption  == MaxStock \in Nat /\ MaxRows \in Nat \ {0} /\ MaxFaults \in Nat

VARIABLES
  stock,      \* units on the shelf; every quote asks for one
  quote,      \* quotes: status and the kind of sale in converted_sale_id
  lapsed,     \* quotes whose expires_at is over
  pay,        \* per quote, its rows of the payments table, oldest first
  link,       \* quotes with a checkout at the provider
  sales,      \* sales by the quote and the kind in their client_txn_id
  charge,     \* the provider's payments
  mail,       \* notices the provider has not seen answered with a 200
  events,     \* webhook_events: payment and status already processed
  job,        \* what each worker is doing, with what it has read
  faults,
  overtaken   \* quotes a webhook wrote to from a copy older than their sale

orders   == <<quote, lapsed, pay>>
provider == <<link, charge, mail>>
vars     == <<stock, orders, provider, sales, events, job, faults, overtaken>>

--------------------------------------------------------------------------------
Open      == {"ENVIADO", "APROBADO"}
Cancelled == {"ANULADO", "RECHAZADO"}
Closed    == Cancelled \cup {"VENCIDO", "CONVERTIDO"}
Statuses  == {"none"} \cup Open \cup Closed
Pending   == {"pending", "in_process"}

\* "pos" is the client_txn_id quote-cart-<id>, "paid" is ai-order-quote:<id>.
Kinds == {"pos", "paid"}

Quote   == [status : Statuses, sale : Kinds \cup {Nothing}]
NoQuote == [status |-> "none", sale |-> Nothing]

PaymentStatuses == Pending \cup {"approved", "rejected", "cancelled"}
Row(s, c) == [status |-> s, id |-> c]
Rows      == [status : PaymentStatuses, id : Charges \cup {Nothing}]

ChargeStatuses == {"none", "in_process", "approved", "rejected"}
Charge   == [status : ChargeStatuses, quote : Quotes \cup {Nothing}]
NoCharge == [status |-> "none", quote |-> Nothing]

Sold(q)      == quote[q].sale # Nothing
Latest(q)    == pay[q][Len(pay[q])].status
PayAs(q, s)  == [pay[q] EXCEPT ![Len(pay[q])].status = s]
Settle(rows) == [i \in DOMAIN rows |-> IF rows[i].status \in Pending
                                       THEN [rows[i] EXCEPT !.status = "cancelled"] ELSE rows[i]]

\* _active_ai_reservations(): the quotes that hold their unit.
Reserving == {q \in Quotes : /\ quote[q].status \in Open /\ q \notin lapsed
                             /\ \E i \in DOMAIN pay[q] : pay[q][i].status \in Pending}

--------------------------------------------------------------------------------
Idle == [kind |-> "idle", step |-> "read", quote |-> Nothing, charge |-> Nothing,
         notice |-> "none", status |-> "none", seen |-> NoQuote]

JobKinds == {"idle", "order", "retry", "cancel", "annul", "expire", "accept", "notice"}
Jobs == [kind : JobKinds, step : {"read", "linked", "fetched", "opened"},
         quote : Quotes \cup {Nothing}, charge : Charges \cup {Nothing}, notice : ChargeStatuses,
         status : ChargeStatuses, seen : Quote]

Starts(w, j)     == job[w].kind = "idle" /\ job' = [job EXCEPT ![w] = j]
Runs(w, k, step) == job[w].kind = k /\ job[w].step = step
Becomes(w, j)    == job' = [job EXCEPT ![w] = j]
Ends(w)          == Becomes(w, Idle)

Init ==
  /\ stock \in 0..MaxStock
  /\ quote = [q \in Quotes |-> NoQuote]
  /\ lapsed = {}
  /\ pay = [q \in Quotes |-> <<>>]
  /\ link = {}
  /\ sales = {}
  /\ charge = [c \in Charges |-> NoCharge]
  /\ mail = {} /\ events = {}
  /\ job = [w \in Workers |-> Idle]
  /\ faults = 0
  /\ overtaken = {}

--------------------------------------------------------------------------------
(* create_pending_order(), in three transactions *)

\* The conversation and the product are locked; the new order may not take a unit that
\* another one reserves.
PlaceOrder(w, q) ==
  /\ quote[q].status = "none"
  /\ stock - Cardinality(Reserving) >= 1
  /\ Starts(w, [Idle EXCEPT !.kind = "order", !.quote = q])
  /\ quote' = [quote EXCEPT ![q].status = "ENVIADO"]
  /\ pay' = [pay EXCEPT ![q] = <<Row("pending", Nothing)>>]
  /\ UNCHANGED <<stock, lapsed, provider, sales, events, faults, overtaken>>

\* _pending_quote_matches_checkout(): the same order is asked for again.
ReuseOrder(w, q) ==
  /\ quote[q].status \in Open
  /\ Starts(w, [Idle EXCEPT !.kind = "order", !.quote = q])
  /\ UNCHANGED <<stock, orders, provider, sales, events, faults, overtaken>>

\* _ensure_payment_preference(): the provider is asked for a checkout.
LinkOrder(w) ==
  /\ Runs(w, "order", "read")
  /\ link' = link \cup {job[w].quote}
  /\ Becomes(w, [job[w] EXCEPT !.step = "linked"])
  /\ UNCHANGED <<stock, orders, charge, mail, sales, events, faults, overtaken>>

\* The checks _cancel_superseded_quotes() makes under the lock of each quote.
Replaceable(q) == quote[q].status \in Open /\ ~Sold(q) /\ Latest(q) # "approved"

\* The ids come from the metadata of the conversation, which the cart, the webhook and
\* older copies overwrite: any orders of the conversation may be in it.
CancelSuperseded(w) ==
  /\ Runs(w, "order", "linked")
  /\ \E ids \in SUBSET {q \in Quotes \ {job[w].quote} : Owner[q] = Owner[job[w].quote]} :
       LET gone == {q \in ids : Replaceable(q)} IN
       /\ quote' = [q \in Quotes |->
            IF q \in gone THEN [quote[q] EXCEPT !.status = "ANULADO"] ELSE quote[q]]
       /\ pay' = [q \in Quotes |->
            IF q \in gone /\ Latest(q) \in Pending THEN PayAs(q, "cancelled") ELSE pay[q]]
  /\ Ends(w)
  /\ UNCHANGED <<stock, lapsed, provider, sales, events, faults, overtaken>>

--------------------------------------------------------------------------------
(* retry_payment(), cancel_order(): no lock on the quote *)

\* _quote_for_conversation(): the pending order, one named by number, or the latest.
AskAbout(w, kind, q) ==
  /\ quote[q].status # "none"
  /\ Starts(w, [Idle EXCEPT !.kind = kind, !.quote = q])
  /\ UNCHANGED <<stock, orders, provider, sales, events, faults, overtaken>>

\* The stock is checked, without the reservations of others, and the provider is asked
\* for another checkout.  (One the conversation remembers would be handed out again.)
AskRetry(w, q) ==
  /\ ~Sold(q) /\ quote[q].status \notin Cancelled \cup {"CONVERTIDO"}
  /\ q \notin lapsed
  /\ quote[q].status # "none" /\ Latest(q) # "approved"
  /\ stock >= 1
  /\ Len(pay[q]) + Cardinality({v \in Workers : Runs(v, "retry", "read")}) < MaxRows
  /\ AskAbout(w, "retry", q)

SaveRetry(w) ==
  LET q == job[w].quote IN
  /\ Runs(w, "retry", "read")
  /\ link' = link \cup {q}
  /\ pay' = [pay EXCEPT ![q] = Append(@, Row("pending", Nothing))]
  /\ Ends(w)
  /\ UNCHANGED <<stock, quote, lapsed, charge, mail, sales, events, faults, overtaken>>

AskCancel(w, q) ==
  /\ ~Sold(q) /\ quote[q].status \notin Cancelled \cup {"CONVERTIDO"}
  /\ AskAbout(w, "cancel", q)

\* The payment is read when it is written.
SaveCancel(w) ==
  LET q == job[w].quote IN
  /\ Runs(w, "cancel", "read")
  /\ quote' = [quote EXCEPT ![q].status = "ANULADO"]
  /\ pay' = [pay EXCEPT ![q] = IF Latest(q) \in Pending THEN PayAs(q, "cancelled") ELSE @]
  /\ Ends(w)
  /\ UNCHANGED <<stock, lapsed, provider, sales, events, faults, overtaken>>

--------------------------------------------------------------------------------
(* quotes.py: annul_quote(), _expire_quotes(), quote_public_accept() *)

AskAnnul(w, q)  == quote[q].status # "CONVERTIDO" /\ AskAbout(w, "annul", q)
AskExpire(w, q) == quote[q].status \in Open /\ q \in lapsed /\ AskAbout(w, "expire", q)
AskAccept(w, q) == quote[q].status = "ENVIADO" /\ q \notin lapsed /\ AskAbout(w, "accept", q)

NewStatus == [annul |-> "ANULADO", expire |-> "VENCIDO", accept |-> "APROBADO"]

\* Only the status column is written, or the row as the handler found it open.
WholeRow(w)   == [status |-> NewStatus[job[w].kind], sale |-> Nothing]
OnlyStatus(w) == [quote[job[w].quote] EXCEPT !.status = NewStatus[job[w].kind]]

SaveStatus(w) ==
  /\ job[w].kind \in DOMAIN NewStatus
  /\ quote' = [quote EXCEPT ![job[w].quote] = OnlyStatus(w)]
  /\ Ends(w)
  /\ UNCHANGED <<stock, lapsed, pay, provider, sales, events, faults, overtaken>>

Lapse(q) ==
  /\ quote[q].status # "none" /\ q \notin lapsed
  /\ lapsed' = lapsed \cup {q}
  /\ UNCHANGED <<stock, quote, pay, provider, sales, events, job, faults, overtaken>>

--------------------------------------------------------------------------------
(* The point of sale *)

\* create_sale_from_items() with the cart of a quote: the quote is first read under its
\* lock, which is held to the commit.
OpenAtPos(q) == quote[q].status \in Open /\ q \notin lapsed
Convertible(q) ==
  /\ quote[q].status \in Open /\ q \notin lapsed
  /\ Latest(q) # "approved"
  /\ ~Sold(q)

ConvertAtPos(q) ==
  /\ Convertible(q)
  /\ stock >= 1
  /\ stock' = stock - 1
  /\ sales' = sales \cup {<<q, "pos">>}
  /\ quote' = [quote EXCEPT ![q] = [status |-> "CONVERTIDO", sale |-> "pos"]]
  /\ pay' = [pay EXCEPT ![q] = Settle(@)]
  /\ UNCHANGED <<lapsed, provider, events, job, faults, overtaken>>

\* create_sale_from_items() without a quote: a sale to somebody else, which knows nothing of reservations.
SellOther ==
  /\ stock >= 1
  /\ stock' = stock - 1
  /\ UNCHANGED <<orders, provider, sales, events, job, faults, overtaken>>

--------------------------------------------------------------------------------
(* Mercado Pago: a checkout can be paid until the provider has an approved payment of *)
(* its own; every change is notified, and repeated until it is answered with a 200.    *)

Pay(c, q, s) ==
  /\ charge[c].status = "none" /\ q \in link
  /\ charge' = [charge EXCEPT ![c] = [status |-> s, quote |-> q]]
  /\ mail' = mail \cup {<<c, s>>}
  /\ UNCHANGED <<stock, orders, link, sales, events, job, faults, overtaken>>

Resolve(c, s) ==
  /\ charge[c].status = "in_process"
  /\ charge' = [charge EXCEPT ![c].status = s]
  /\ mail' = mail \cup {<<c, s>>}
  /\ UNCHANGED <<stock, orders, link, sales, events, job, faults, overtaken>>

--------------------------------------------------------------------------------
(* WebhookService.process() *)

\* get_payment(): whatever the notice was about, the payment as it is now.
Fetch(w, m) ==
  /\ m \in mail
  /\ Starts(w, [Idle EXCEPT !.kind = "notice", !.step = "fetched", !.charge = m[1],
                            !.notice = m[2], !.status = charge[m[1]].status, !.quote = charge[m[1]].quote])
  /\ UNCHANGED <<stock, orders, provider, sales, events, faults, overtaken>>

\* The key of an event: the payment and the status fetched for it.
EventOfPayment(w) == <<job[w].charge, "in_process">>
Event(w)          == <<job[w].charge, job[w].status>>

\* Two inserts of one event_key: the second waits for the transaction of the first.
EventIsFree(w) ==
  \A v \in Workers \ {w} : ~(job[v].kind = "notice" /\ job[v].step = "opened" /\ Event(v) = Event(w))

\* The 200 answers the notice that was received, whatever status was fetched for it.
Answer(w) == mail' = mail \ {<<job[w].charge, job[w].notice>>}

Duplicate(w) ==
  /\ Runs(w, "notice", "fetched")
  /\ Event(w) \in events
  /\ Answer(w)
  /\ Ends(w)
  /\ UNCHANGED <<stock, orders, link, charge, sales, events, faults, overtaken>>

\* The event row is inserted and the quote is loaded, without a lock.
OpenEvent(w) ==
  /\ Runs(w, "notice", "fetched")
  /\ Event(w) \notin events /\ EventIsFree(w)
  /\ Becomes(w, [job[w] EXCEPT !.step = "opened", !.seen = quote[job[w].quote]])
  /\ UNCHANGED <<stock, orders, provider, sales, events, faults, overtaken>>

\* The event is processed in the transaction of its effects, and answered.
Processed(w) ==
  /\ events' = events \cup {Event(w)}
  /\ Answer(w)
  /\ Ends(w)

\* "A manual POS conversion wins the order lifecycle."
IgnoreNotice(w) ==
  LET q == job[w].quote IN
  /\ Runs(w, "notice", "opened")
  /\ job[w].seen.sale # Nothing
  /\ \E i \in DOMAIN pay[q] :
       pay' = [pay EXCEPT ![q][i].status = IF @ \in Pending THEN "cancelled" ELSE @]
  /\ Processed(w)
  /\ UNCHANGED <<stock, quote, lapsed, link, charge, sales, faults, overtaken>>

\* The payment row of an external_reference: the query has no order.
RowsOf(q) == DOMAIN pay[q]
RowOfId(q, c) == {i \in RowsOf(q) : pay[q][i].id = c}

\* Any other status than an approval is recorded.
AnyStatus(w)  == job[w].seen.sale = Nothing
Recordable(w) == job[w].seen.sale = Nothing /\ job[w].status # "approved"

\* payment_id is unique: a row that has it already is the only one that may take it.
RecordStatus(w) ==
  LET q == job[w].quote IN
  /\ Runs(w, "notice", "opened")
  /\ Recordable(w)
  /\ \E i \in RowsOf(q) :
       /\ RowOfId(q, job[w].charge) \subseteq {i}
       /\ pay' = [pay EXCEPT ![q][i] = Row(job[w].status, job[w].charge)]
  /\ overtaken' = overtaken \cup {x \in {q} : Sold(x)}
  /\ Processed(w)
  /\ UNCHANGED <<stock, quote, lapsed, link, charge, sales, faults>>

\* Enough stock under the product lock, and the unique index on client_txn_id.
OnlyIndexed(w) == <<job[w].quote, "paid">> \notin sales
Payable(w)     == stock >= 1 /\ <<job[w].quote, "paid">> \notin sales

\* finalize_paid_order() checks and overwrites the copy the webhook has loaded.
Finalize(w) ==
  LET q == job[w].quote
      rows == IF RowOfId(q, job[w].charge) # {} THEN RowOfId(q, job[w].charge) ELSE RowsOf(q)
  IN
  /\ Runs(w, "notice", "opened")
  /\ job[w].seen.sale = Nothing /\ job[w].status = "approved"
  /\ job[w].seen.status \notin Cancelled
  /\ Payable(w)
  /\ stock' = stock - 1
  /\ sales' = sales \cup {<<q, "paid">>}
  /\ quote' = [quote EXCEPT ![q] = [status |-> "CONVERTIDO", sale |-> "paid"]]
  /\ \E i \in rows : pay' = [pay EXCEPT ![q][i].status = "approved"]
  /\ overtaken' = overtaken \cup {x \in {q} : Sold(x)}
  /\ Processed(w)
  /\ UNCHANGED <<lapsed, link, charge, faults>>

\* Refused with a 400: nothing is kept and the provider will repeat the notice.
RefuseNotice(w) ==
  LET q == job[w].quote IN
  /\ Runs(w, "notice", "opened")
  /\ job[w].seen.sale = Nothing
  /\ \/ /\ job[w].status = "approved"
        /\ job[w].seen.status \in Cancelled \/ stock = 0 \/ <<q, "paid">> \in sales
     \/ /\ job[w].status # "approved"
        /\ Cardinality(RowsOf(q)) > 1 /\ RowOfId(q, job[w].charge) # {}
  /\ Ends(w)
  /\ UNCHANGED <<stock, orders, provider, sales, events, faults, overtaken>>

--------------------------------------------------------------------------------
\* A handler dies, is the victim of a deadlock or gets no answer from the provider.
Abort(w) ==
  /\ job[w].kind # "idle"
  /\ faults < MaxFaults
  /\ faults' = faults + 1
  /\ Ends(w)
  /\ UNCHANGED <<stock, orders, provider, sales, events, overtaken>>

Buy(w) ==
  \/ \E q \in Quotes : PlaceOrder(w, q) \/ ReuseOrder(w, q) \/ AskRetry(w, q) \/ AskCancel(w, q)
  \/ LinkOrder(w) \/ CancelSuperseded(w) \/ SaveRetry(w) \/ SaveCancel(w)

Attend(w) ==
  \/ \E q \in Quotes : AskAnnul(w, q) \/ AskExpire(w, q) \/ AskAccept(w, q)
  \/ SaveStatus(w)

Process(w) ==
  \/ Duplicate(w) \/ OpenEvent(w) \/ IgnoreNotice(w) \/ RecordStatus(w) \/ Finalize(w)
  \/ RefuseNotice(w)

Notices == Charges \X {"in_process", "approved", "rejected"}

Next ==
  \/ \E w \in Workers : Buy(w) \/ Attend(w) \/ Process(w) \/ Abort(w)
  \/ \E w \in Workers, m \in Notices : Fetch(w, m)
  \/ \E q \in Quotes : Lapse(q) \/ ConvertAtPos(q)
  \/ SellOther
  \/ \E c \in Charges, q \in Quotes, s \in {"in_process", "approved", "rejected"} : Pay(c, q, s)
  \/ \E c \in Charges, s \in {"approved", "rejected"} : Resolve(c, s)

Continues(w) ==
  \/ LinkOrder(w) \/ CancelSuperseded(w) \/ SaveRetry(w) \/ SaveCancel(w) \/ SaveStatus(w)
  \/ Process(w)

Spec == Init /\ [][Next]_vars

\* A request that has begun goes on; the provider repeats a notice until it gets a 200.
FairSpec ==
  /\ Spec
  /\ \A w \in Workers : WF_vars(Continues(w))
  /\ \A c \in Charges : SF_vars(\E w \in Workers : Fetch(w, <<c, "approved">>))

--------------------------------------------------------------------------------
\* Types; in particular stock and the rows of a quote stay within their bounds.
OrdersTypeOK ==
  /\ stock \in 0..MaxStock
  /\ quote \in [Quotes -> Quote] /\ lapsed \subseteq Quotes /\ link \subseteq Quotes
  /\ pay \in [Quotes -> Seq(Rows)] /\ \A q \in Quotes : Len(pay[q]) <= MaxRows
  /\ sales \subseteq Quotes \X Kinds
  /\ charge \in [Charges -> Charge]
  /\ mail \subseteq Notices /\ events \subseteq Notices
  /\ job \in [Workers -> Jobs]
  /\ faults \in 0..MaxFaults /\ overtaken \subseteq Quotes

\* An order is sold once: whatever the customer, the shop, the expiry and repeated or
\* late notices do to its quote, it never has a sale of the point of sale and a paid one
\* (or two paid ones, which have one client_txn_id), unless a webhook overtook that sale.
OneSalePerQuote ==
  \A q \in Quotes \ overtaken, k \in Kinds, l \in Kinds :
    <<q, k>> \in sales /\ <<q, l>> \in sales => k = l

\* A quote knows its sale: converted_sale_id is never lost, although cancelling, annulling,
\* expiring and accepting write the status of a quote they read before it was sold.
SaleIsRecorded == \A q \in Quotes : Sold(q) <=> \E k \in Kinds : <<q, k>> \in sales

\* The payments table agrees with the sales: an approved row means the order is sold, and
\* to the payer of that row, unless a webhook overtook a sale.
HasApproval(q) == \E i \in DOMAIN pay[q] : pay[q][i].status = "approved"
PaymentMatchesSale ==
  \A q \in Quotes : /\ HasApproval(q) => Sold(q)
                    /\ q \notin overtaken => (HasApproval(q) <=> <<q, "paid">> \in sales)

\* Money does not get lost: when the provider has approved a payment, its order becomes a
\* sale in the end, unless it was cancelled or there is nothing left to sell.
PaymentsAreSettled ==
  \A c \in Charges, q \in Quotes :
    charge[c] = [status |-> "approved", quote |-> q] ~>
      Sold(q) \/ quote[q].status \in Cancelled \/ stock = 0

\* "A manual POS conversion wins the order lifecycle.  A late MP approval must not recreate
\* the sale or double-apply stock" (webhook_service.py).  It may: the webhook decides on a
\* copy of the quote that the lock taken later does not refresh.
ManualConversionWins == \A q \in Quotes : <<q, "pos">> \in sales => <<q, "paid">> \notin sales
================================================================================
