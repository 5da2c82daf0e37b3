-------------------------- MODULE SubscriptionBilling --------------------------
(***************************************************************************)
(* The subscription of one company when its plan changes are paid once, by *)
(* QR: the portal (company_billing.py), the checkout                       *)
(* (services/billing_service.py), the notices of its payments              *)
(* (services/webhook_service.py) and the commands that change a            *)
(* subscription (services/subscription_service.py).                        *)
(*                                                                         *)
(* A plan change holds the lock of the company's row from its first read   *)
(* to its first commit.  Every other transaction writes a row that refers  *)
(* to the company (a command, a history entry), so it cannot commit in     *)
(* between.  A command locks the subscriptions of the company, but a row   *)
(* the handler has already loaded keeps the values it was loaded with, and *)
(* the columns the command changes are written over what is stored.        *)
(***************************************************************************)
EXTENDS Integers, FiniteSets

CONSTANTS
  MaxSubs,      \* rows of the company in the subscriptions table, at most
  Charges,      \* payments the provider can receive
  Workers,
  Nothing,      \* NULL
  MaxVersion,   \* changes of one payment at the provider, at most
  MaxFaults     \* aborted transactions, at most

Subs == 1..MaxSubs

ASSUME NothingAssumption == Nothing \notin Subs \cup Charges
ASSUME BoundsAssumption  == MaxSubs \in Nat \ {0} /\ MaxVersion \in Nat \ {0} /\ MaxFaults \in Nat
ASSUME ChargesAssumption == IsFiniteSet(Charges)

VARIABLES
  sub,        \* subscriptions, by id
  trial,      \* the company is in its trial window
  clock,      \* how many dates have been given out
  repriced,   \* subscriptions whose plan no longer costs what their link asks for
  link,       \* subscriptions with a checkout link
  pay,        \* payments, by the provider's id
  done,       \* command keys mercadopago-payment-approved:<id> in use
  events,     \* webhook_events: payments and versions already processed
  charge,     \* the provider's payments
  mail,       \* payments with a notice the provider has not seen answered
  job,        \* what each worker is doing, with what it has read
  faults

rows     == <<sub, link, pay, done, events>>
provider == <<charge, mail>>
time     == <<trial, clock, repriced>>
vars     == <<rows, time, provider, job, faults>>

--------------------------------------------------------------------------------
Statuses == {"none", "trial", "pending", "active", "expired", "cancelled"}
Terminal == {"expired", "cancelled"}

\* The metadata is one column.  closed: checkout_cancelled, or closed_reason plan_change.
Metadata == [change : BOOLEAN, closed : {"no", "checkout", "change"}, previous : Subs \cup {Nothing}]

\* left counts the paid periods that are not over: 1 the current one, 0 the days of grace,
\* -1 overdue.  start orders the rows by start_date.
Sub   == [status : Statuses, left : Int, start : Nat, meta : Metadata]
Plain == [change |-> FALSE, closed |-> "no", previous |-> Nothing]
NoSub == [status |-> "none", left |-> 0, start |-> 0, meta |-> Plain]

ChargeStatuses == {"none", "in_process", "approved", "rejected", "cancelled", "refunded"}
Charge   == [status : ChargeStatuses, ver : Nat, sub : Subs \cup {Nothing}, at : Nat]
NoCharge == [status |-> "none", ver |-> 0, sub |-> Nothing, at |-> 0]
Payment  == [status : ChargeStatuses, ver : Nat]
NoPayment == [status |-> "none", ver |-> 0]

HasAccess(s)   == s.status = "active" /\ s.left >= 1
PendingChange(s) == s.status = "pending" /\ s.meta.change

--------------------------------------------------------------------------------
(* SubscriptionService *)

\* active_subscription_for_company(): the best state, and in it the latest start_date; a
\* row that has ended only if there is no other.
Rank(s) ==
  CASE HasAccess(s)                                          -> 0
    [] s.status = "trial" \/ (s.status = "pending" /\ trial) -> 1
    [] (s.status = "pending" /\ ~trial)
         \/ (s.status = "active" /\ s.left <= 0)             -> 2
    [] s.status \in Terminal                                 -> 3
    [] OTHER                                                 -> 4

Newer(t, x, y) == t[x].start > t[y].start \/ (t[x].start = t[y].start /\ x >= y)
Ahead(t, x, y) == Rank(t[x]) < Rank(t[y]) \/ (Rank(t[x]) = Rank(t[y]) /\ Newer(t, x, y))
IsCurrent(t, x)  == Rank(t[x]) < 4 /\ \A y \in Subs : Ahead(t, x, y)

\* Open, and not expired to get_effective_subscription_status().
Operational(s) ==
  \/ s.status = "active" /\ s.left >= 0
  \/ s.status \in {"pending", "trial"} /\ trial

\* The date of what happens now; dates are compared, not measured.
Now  == clock + 1
Ticks(used) == clock' = IF used THEN Now ELSE clock

\* What is written: the columns that differ from the copy that was loaded.
Flush(copy, new, stored) ==
  [f \in DOMAIN stored |-> IF new[f] # copy[f] THEN new[f] ELSE stored[f]]

CloseForChange(s) ==
  [s EXCEPT !.status = IF @ \in Terminal THEN @ ELSE "cancelled", !.meta.closed = "change"]

\* _handle_renew(): a running period is prolonged, any other row starts one when it was paid.
Renewed(s, at) ==
  [s EXCEPT !.status = "active",
            !.left   = IF HasAccess(s) THEN s.left + 1 ELSE 1,
            !.start  = IF HasAccess(s) THEN @ ELSE at,
            !.meta.change = FALSE]

\* A paid plan change replaces the current subscription, which is closed in the same
\* command; any other renewal must not meet another operational one.  The dates are always
\* new, hence always written.
Replaces(t, r, x) ==
  /\ t[r].meta.change /\ x # r
  /\ IsCurrent(t, x) /\ t[x].status \in {"active", "trial"}
NotInTheWay(t, r) ==
  t[r].meta.change \/ \A x \in Subs \ {r} : ~(IsCurrent(t, x) /\ Operational(t[x]))

AfterRenewal(t, r, at) ==
  [x \in Subs |->
     IF x = r THEN LET new == Renewed(t[r], at) IN
       [Flush(t[r], new, sub[r]) EXCEPT !.left = new.left, !.start = new.start]
     ELSE IF Replaces(t, r, x) THEN Flush(t[x], CloseForChange(t[x]), sub[x])
     ELSE sub[x]]

\* _enforce_company_invariants() and the index uq_subscriptions_single_active_company.
SingleActive(t) == \A x, y \in Subs : t[x].status = "active" /\ t[y].status = "active" => x = y

--------------------------------------------------------------------------------
\* copy: the rows a worker has loaded; NoSub is one it has not.
NoCopy == [x \in Subs |-> NoSub]
Idle == [kind |-> "idle", step |-> "read", sub |-> Nothing, charge |-> Nothing,
         ver |-> 0, status |-> "none", seen |-> NoPayment, valid |-> TRUE, copy |-> NoCopy]

Starts(w, j)     == job[w].kind = "idle" /\ job' = [job EXCEPT ![w] = j]
Runs(w, k, step) == job[w].kind = k /\ job[w].step = step
Becomes(w, j)    == job' = [job EXCEPT ![w] = j]
Ends(w)          == Becomes(w, Idle)
Loaded(set)      == [x \in Subs |-> IF x \in set THEN sub[x] ELSE NoSub]
View(w)          == [x \in Subs |-> IF job[w].copy[x] = NoSub THEN sub[x] ELSE job[w].copy[x]]

\* The company's row is locked by a plan change that has not committed.
Locked == \E w \in Workers : Runs(w, "change", "read")

\* The company starts in its trial, or with a plan it paid for and can pay again.
Init ==
  /\ trial \in BOOLEAN
  /\ sub = [r \in Subs |->
       IF r # 1 THEN NoSub
       ELSE [status |-> IF trial THEN "trial" ELSE "active",
             left |-> IF trial THEN 0 ELSE 1, start |-> 1, meta |-> Plain]]
  /\ link = IF trial THEN {} ELSE {1}
  /\ pay = [c \in Charges |-> NoPayment]
  /\ done = {} /\ events = {}
  /\ charge = [c \in Charges |-> NoCharge]
  /\ mail = {}
  /\ job = [w \in Workers |-> Idle]
  /\ faults = 0 /\ clock = 1 /\ repriced = {}

--------------------------------------------------------------------------------
(* subscription_change_confirm(), in two transactions *)

\* The company is locked; is there a pending change of another plan to replace?
IsFree(n) == sub[n].status = "none" /\ \A x \in Subs : x < n => sub[x].status # "none"

\* Mutant: the company is read without its lock.
UnlockedAskChange(w) ==
  /\ \E n \in Subs : IsFree(n)
  /\ \E r \in Subs \cup {Nothing} :
       /\ IF \E x \in Subs : PendingChange(sub[x])
            THEN r \in Subs /\ PendingChange(sub[r]) ELSE r = Nothing
       /\ Starts(w, [Idle EXCEPT !.kind = "change", !.sub = r])
  /\ UNCHANGED <<rows, time, provider, faults>>

AskChange(w) ==
  /\ ~Locked
  /\ \E n \in Subs : IsFree(n)
  /\ \E r \in Subs \cup {Nothing} :
       /\ IF \E x \in Subs : PendingChange(sub[x])
            THEN r \in Subs /\ PendingChange(sub[r]) ELSE r = Nothing
       /\ Starts(w, [Idle EXCEPT !.kind = "change", !.sub = r])
  /\ UNCHANGED <<rows, time, provider, faults>>

\* The replaced change is closed and ChangePlanCommand adds a row; the plan in force is
\* left alone until the new one is paid.  (The check for a payment in progress looks it up
\* by the preference, which the webhook never stores, and finds none.)
NewSub(p) == [status |-> "pending", left |-> 0, start |-> Now,
              meta |-> [change |-> TRUE, closed |-> "no", previous |-> p]]
Replaced(s) == [CloseForChange(s) EXCEPT !.meta.change = FALSE]
\* Mutant: the plan in force is closed with it.
SupersededAll(r) == [x \in Subs |->
  IF x = r \/ sub[x].status = "active" THEN Replaced(sub[x]) ELSE sub[x]]
Superseded(r) == [x \in Subs |-> IF x = r THEN Replaced(sub[x]) ELSE sub[x]]

SaveChange(w) ==
  /\ Runs(w, "change", "read")
  /\ \E n, p \in Subs :
       LET t == Superseded(job[w].sub) IN
       /\ IsFree(n)
       /\ IsCurrent(t, p)
       /\ sub' = [t EXCEPT ![n] = NewSub(p)]
       /\ Becomes(w, [job[w] EXCEPT !.step = "saved", !.sub = n])
  /\ Ticks(TRUE)
  /\ UNCHANGED <<link, pay, done, events, trial, repriced, provider, faults>>

\* The pending change is asked for again; one with a link would only be shown again.
RetryChange(w, r) ==
  /\ ~Locked
  /\ PendingChange(sub[r]) /\ r \notin link
  /\ Starts(w, [Idle EXCEPT !.kind = "change", !.step = "saved", !.sub = r])
  /\ UNCHANGED <<rows, time, provider, faults>>

\* create_checkout_for_plan() reads the row again under its lock, not its status.
LinkChange(w) ==
  LET r == job[w].sub IN
  /\ Runs(w, "change", "saved")
  /\ ~Locked
  /\ link' = link \cup {r}
  /\ sub' = IF r \in link \/ sub[r].meta.closed # "checkout" THEN sub
            ELSE [sub EXCEPT ![r].meta.closed = "no"]
  /\ Ends(w)
  /\ UNCHANGED <<pay, done, events, time, provider, faults>>

--------------------------------------------------------------------------------
(* cancel_checkout(): a plain read, and a command on what was read *)

AskCancel(w, r) ==
  /\ sub[r].status # "none"
  /\ PendingChange(sub[r]) \/ (r \in link /\ sub[r].meta.closed # "checkout")
  /\ Starts(w, [Idle EXCEPT !.kind = "cancel", !.sub = r, !.copy = Loaded({r})])
  /\ UNCHANGED <<rows, time, provider, faults>>

CheckoutCancelled(s) ==
  [s EXCEPT !.status = IF PendingChange(s) THEN "cancelled" ELSE @,
            !.meta.change = @ /\ ~PendingChange(s), !.meta.closed = "checkout"]

SaveCancel(w) ==
  LET r == job[w].sub
      s == job[w].copy[r]
  IN
  /\ Runs(w, "cancel", "read")
  /\ ~Locked
  /\ sub' = [sub EXCEPT ![r] = Flush(s, CheckoutCancelled(s), @)]
  /\ Ends(w)
  /\ UNCHANGED <<link, pay, done, events, time, provider, faults>>

--------------------------------------------------------------------------------
(* Mercado Pago: a checkout link can be paid any number of times; every change of a *)
(* payment, also one that keeps its status, is notified until it is answered.        *)

Pay(c, r, s) ==
  /\ charge[c].status = "none" /\ r \in link
  /\ charge' = [charge EXCEPT ![c] = [status |-> s, ver |-> 1, sub |-> r,
                                   at |-> IF s = "approved" THEN Now ELSE 0]]
  /\ mail' = mail \cup {c}
  /\ Ticks(s = "approved")
  /\ UNCHANGED <<rows, trial, repriced, job, faults>>

Approves(c, s) == s = "approved" /\ charge[c].status # "approved"
Resolve(c, s) ==
  /\ charge[c].status = "in_process" \/ (charge[c].status = "approved" /\ s = "approved")
  /\ charge[c].ver < MaxVersion
  /\ charge' = [charge EXCEPT ![c].status = s, ![c].ver = @ + 1,
                              ![c].at = IF Approves(c, s) THEN Now ELSE @]
  /\ mail' = mail \cup {c}
  /\ Ticks(Approves(c, s))
  /\ UNCHANGED <<rows, trial, repriced, job, faults>>

--------------------------------------------------------------------------------
(* WebhookService.process() *)

Fetch(w, c) ==
  /\ c \in mail
  /\ Starts(w, [Idle EXCEPT !.kind = "notice", !.step = "fetched", !.charge = c,
                !.sub = charge[c].sub, !.ver = charge[c].ver, !.status = charge[c].status])
  /\ UNCHANGED <<rows, time, provider, faults>>

Event(w)  == <<job[w].charge, job[w].ver>>
Answer(w) == mail' = IF charge[job[w].charge].ver = job[w].ver THEN mail \ {job[w].charge} ELSE mail

Duplicate(w) ==
  /\ Runs(w, "notice", "fetched")
  /\ Event(w) \in events
  /\ Answer(w)
  /\ Ends(w)
  /\ UNCHANGED <<rows, time, charge, faults>>

\* The event is inserted (two inserts of one key wait for each other) and the payment is
\* read without a lock.
OpenEvent(w) ==
  /\ Runs(w, "notice", "fetched")
  /\ Event(w) \notin events
  /\ \A v \in Workers \ {w} : job[v].step \in {"opened", "held"} => Event(v) # Event(w)
  /\ Becomes(w, [job[w] EXCEPT !.step = "opened", !.seen = pay[job[w].charge]])
  /\ UNCHANGED <<rows, time, provider, faults>>

Known(w)    == job[w].seen # NoPayment
Outdated(w) == Known(w) /\ job[w].ver < job[w].seen.ver

IgnoreStale(w) ==
  /\ Runs(w, "notice", "opened")
  /\ Outdated(w)
  /\ events' = events \cup {Event(w)}
  /\ Answer(w)
  /\ Ends(w)
  /\ UNCHANGED <<sub, link, pay, done, time, charge, faults>>

\* "Preserve a verified payment outcome against delayed notifications."
Preserved(w) ==
  LET old == job[w].seen.status IN
  CASE old = "refunded"                                   -> "refunded"
    [] old = "approved" /\ job[w].status # "refunded"     -> "approved"
    [] OTHER                                              -> job[w].status

\* An approved payment that is not of the price of the plan, read with the subscription,
\* becomes a rejected one.  (The other checks compare what a link carries with the company
\* and the plan of its own row, which no action here changes.)
Valid(w)   == IF job[w].step = "held" THEN job[w].valid ELSE job[w].sub \notin repriced
Outcome(w) == IF Preserved(w) = "approved" /\ ~Valid(w) THEN "rejected" ELSE Preserved(w)

\* The update of a known payment locks its row; the subscription is read after it, and
\* with an approved plan change the one it was asked under.
HoldPayment(w) ==
  LET r == job[w].sub
      p == sub[r].meta.previous
  IN
  /\ Runs(w, "notice", "opened")
  /\ Known(w) /\ ~Outdated(w)
  /\ \A v \in Workers : job[v].step = "held" => job[v].charge # job[w].charge
  /\ Becomes(w, [job[w] EXCEPT !.step = "held", !.valid = Valid(w),
       !.copy = Loaded(IF Outcome(w) = "approved" /\ sub[r].meta.change /\ p # Nothing
                       THEN {r, p} ELSE {r})])
  /\ UNCHANGED <<rows, time, provider, faults>>

\* A payment the database does not have is inserted, which keeps every command from its
\* subscription (the row it refers to) until the commit: such a notice is processed at once.
New(w)   == job[w].step = "opened" /\ ~Known(w) /\ pay[job[w].charge] = NoPayment
Ready(w) == job[w].kind = "notice" /\ (job[w].step = "held" \/ New(w)) /\ ~Locked

Target(w)  == View(w)[job[w].sub]
Closed(w)  == Target(w).meta.closed # "no"
Applies(w) == ~Closed(w) /\ Outcome(w) # job[w].seen.status

Records(w, s) ==
  LET old == job[w].seen.status IN
  /\ pay' = [pay EXCEPT ![job[w].charge].status = IF {s, Preserved(w)} = {old} THEN @ ELSE s,
                        ![job[w].charge].ver = job[w].ver]
  /\ events' = events \cup {Event(w)}
  /\ Ends(w)

\* Mutant: the command has a key of its own for every delivery.
PaidAnew(w) == Outcome(w) = "approved"
Paid(w)    == Outcome(w) = "approved" /\ job[w].charge \notin done
Fails(w)   == Outcome(w) = "rejected" /\ ~HasAccess(Target(w))
Waits(w)   == Outcome(w) = "in_process"

\* Mutant: a payment that arrives for a closed checkout is recorded and kept.
KeepNotice(w) ==
  /\ Ready(w)
  /\ \/ Closed(w)
     \/ ~Applies(w)
     \/ /\ Applies(w) /\ Outcome(w) # "cancelled"
        /\ ~Paid(w) /\ ~Fails(w)
        /\ Waits(w) => Target(w).status = "pending"
  /\ Records(w, Outcome(w))
  /\ Answer(w)
  /\ UNCHANGED <<sub, link, done, time, charge, faults>>

\* Nothing but the payment changes: the outcome is not new, is a refund, has been paid out,
\* or is a failed attempt that leaves a paid period alone.
RecordNotice(w) ==
  /\ Ready(w)
  /\ \/ Closed(w) /\ Outcome(w) # "approved"
     \/ ~Closed(w) /\ ~Applies(w)
     \/ /\ Applies(w) /\ Outcome(w) # "cancelled"
        /\ ~Paid(w) /\ ~Fails(w)
        /\ Waits(w) => Target(w).status = "pending"
  /\ Records(w, Outcome(w))
  /\ Answer(w)
  /\ UNCHANGED <<sub, link, done, time, charge, faults>>

\* RenewSubscriptionCommand, with the payment as its key.
Renewal(w)   == AfterRenewal(View(w), job[w].sub, charge[job[w].charge].at)
Renewable(w) == /\ NotInTheWay(View(w), job[w].sub)
                /\ SingleActive(Renewal(w))
GrantPeriod(w) ==
  /\ Ready(w)
  /\ Applies(w) /\ Paid(w) /\ Renewable(w)
  /\ sub' = Renewal(w)
  /\ done' = done \cup {job[w].charge}
  /\ Records(w, "approved")
  /\ Answer(w)
  /\ UNCHANGED <<link, time, charge, faults>>

\* CancelSubscriptionCommand at once, or ExpireSubscriptionCommand.
\* Mutant: the status of the payment becomes the one of the subscription.
EndedAsPaid(s, status) == [s EXCEPT !.status = IF status = "expired" THEN "rejected" ELSE status]
Ended(s, status) == [s EXCEPT !.status = status]
Expirable(w) == Target(w).status \in {"pending", "active", "expired"}

EndSubscription(w) ==
  LET r == job[w].sub
      status == IF Outcome(w) = "cancelled" THEN "cancelled" ELSE "expired"
  IN
  /\ Ready(w)
  /\ Applies(w)
  /\ Outcome(w) = "cancelled" \/ (Fails(w) /\ Expirable(w))
  /\ sub' = [sub EXCEPT ![r] = Flush(Target(w), Ended(Target(w), status), @)]
  /\ Records(w, Outcome(w))
  /\ Answer(w)
  /\ UNCHANGED <<link, done, time, charge, faults>>

\* The payment of a cancelled or replaced checkout is given back by the provider, which
\* the transaction records if it commits.
Refunds(w) ==
  /\ Ready(w)
  /\ Closed(w) /\ Outcome(w) = "approved"
  /\ charge[job[w].charge].status = "approved"
  /\ charge' = [charge EXCEPT ![job[w].charge].status = "refunded", ![job[w].charge].ver = @ + 1]
  /\ mail' = mail \cup {job[w].charge}

RefundNotice(w) ==
  /\ Refunds(w)
  /\ Records(w, "refunded")
  /\ UNCHANGED <<sub, link, done, time, faults>>

RefundAndDie(w) ==
  /\ Refunds(w)
  /\ faults < MaxFaults
  /\ faults' = faults + 1
  /\ Ends(w)
  /\ UNCHANGED <<rows, time>>

\* Answered with a 400: nothing is kept and the provider will repeat the notice.
RefuseNotice(w) ==
  /\ \/ Runs(w, "notice", "opened") /\ ~Known(w) /\ pay[job[w].charge] # NoPayment
     \/ Ready(w) /\ Applies(w) /\ Paid(w) /\ ~Renewable(w)
     \/ Ready(w) /\ Applies(w) /\ Fails(w) /\ ~Expirable(w)
     \/ Ready(w) /\ Applies(w) /\ Waits(w) /\ Target(w).status # "pending"
     \/ Ready(w) /\ Closed(w) /\ Outcome(w) = "approved" /\ charge[job[w].charge].status # "approved"
  /\ Ends(w)
  /\ UNCHANGED <<rows, time, provider, faults>>

--------------------------------------------------------------------------------
\* A paid period runs out, then the days of grace; no transaction lasts that long.
Lapse(r) ==
  /\ sub[r].status = "active" /\ sub[r].left >= 0
  /\ \A w \in Workers : job[w].copy = NoCopy /\ ~Runs(w, "change", "read")
  /\ sub' = [sub EXCEPT ![r].left = @ - 1, ![r].start = IF sub[r].left = 2 THEN Now ELSE @]
  /\ Ticks(sub[r].left = 2)
  /\ UNCHANGED <<link, pay, done, events, trial, repriced, provider, job, faults>>

EndTrial ==
  /\ trial
  /\ trial' = FALSE
  /\ UNCHANGED <<rows, clock, repriced, provider, job, faults>>

\* A plan gets another price, or its old one again ("under Superadmin control", says
\* ensure_defaults()); a link that was made keeps the amount it was made with.
Reprice(r) ==
  /\ r \in link
  /\ repriced' = IF r \in repriced THEN repriced \ {r} ELSE repriced \cup {r}
  /\ UNCHANGED <<rows, trial, clock, provider, job, faults>>

\* A handler dies, is the victim of a deadlock or gets no answer from the provider.
Abort(w) ==
  /\ job[w].kind # "idle"
  /\ faults < MaxFaults
  /\ faults' = faults + 1
  /\ Ends(w)
  /\ UNCHANGED <<rows, time, provider>>

Portal(w) ==
  \/ AskChange(w) \/ SaveChange(w) \/ LinkChange(w) \/ SaveCancel(w)
  \/ \E r \in Subs : RetryChange(w, r) \/ AskCancel(w, r)

Process(w) ==
  \/ Duplicate(w) \/ OpenEvent(w) \/ IgnoreStale(w) \/ HoldPayment(w) \/ RecordNotice(w)
  \/ GrantPeriod(w) \/ EndSubscription(w) \/ RefundNotice(w) \/ RefuseNotice(w)

Next ==
  \/ \E w \in Workers : Portal(w) \/ Process(w) \/ RefundAndDie(w) \/ Abort(w)
  \/ \E w \in Workers, c \in Charges : Fetch(w, c)
  \/ \E c \in Charges, r \in Subs, s \in {"in_process", "approved", "rejected"} : Pay(c, r, s)
  \/ \E c \in Charges, s \in {"approved", "rejected", "cancelled"} : Resolve(c, s)
  \/ \E r \in Subs : Lapse(r) \/ Reprice(r)
  \/ EndTrial

Continues(w) == SaveChange(w) \/ LinkChange(w) \/ SaveCancel(w) \/ Process(w)

Spec == Init /\ [][Next]_vars

\* A request that has begun goes on; the provider repeats a notice until it gets a 200.
FairSpec ==
  /\ Spec
  /\ \A w \in Workers : WF_vars(Continues(w))
  /\ \A c \in Charges : SF_vars(\E w \in Workers : Fetch(w, c))

--------------------------------------------------------------------------------
Kinds == {"idle", "change", "cancel", "notice"}
Steps == {"read", "saved", "fetched", "opened", "held"}
Job   == [kind : Kinds, step : Steps, sub : Subs \cup {Nothing}, charge : Charges \cup {Nothing},
          ver : Nat, status : ChargeStatuses, seen : Payment, valid : BOOLEAN,
          copy : [Subs -> Sub]]

\* Every variable keeps its type.
BillingTypeOK ==
  /\ sub \in [Subs -> Sub] /\ trial \in BOOLEAN /\ clock \in Nat /\ repriced \subseteq Subs
  /\ link \subseteq Subs
  /\ pay \in [Charges -> Payment] /\ done \subseteq Charges /\ events \subseteq Charges \X Nat
  /\ charge \in [Charges -> Charge] /\ mail \subseteq Charges
  /\ job \in [Workers -> Job] /\ faults \in 0..MaxFaults

\* The company has at most one active subscription and at most one plan change that waits
\* for its payment, whatever requests and notices run together: the lock of the company in
\* subscription_change_confirm() and the replacement of the pending change.
OneOfEach ==
  \A x, y \in Subs :
    \/ x = y
    \/ /\ ~(sub[x].status = "active" /\ sub[y].status = "active")
       /\ ~(PendingChange(sub[x]) /\ PendingChange(sub[y]))

\* No period without a payment: a subscription has at most as many paid periods ahead as
\* payments were applied to it (and the one it starts with), although two notices of one
\* payment may both read it before either is applied; and what was applied had been approved.
Paying(r) == {c \in done : charge[c].sub = r}
PeriodsArePaid ==
  /\ \A r \in Subs : sub[r].left <= Cardinality(Paying(r)) + (IF r = 1 THEN 1 ELSE 0)
  /\ \A c \in done : charge[c].status \in {"approved", "refunded"}

\* A company that has paid keeps its access until the period runs out: no plan change that
\* is asked for, replaced, given up, rejected or paid takes it away, unless a request writes
\* over a row that changed after it was read, or a payment of the row is cancelled.
Overtakes(w)  == View(w) # sub
Revokes(w, r) == job[w].kind = "notice" /\ job[w].sub = r /\ job[w].status = "cancelled"

PaidAccessKept ==
  [][\A r \in Subs : HasAccess(sub[r]) =>
       \/ \E x \in Subs : HasAccess(sub'[x])
       \/ Lapse(r)
       \/ \E w \in Workers : job'[w] = Idle /\ (Overtakes(w) \/ Revokes(w, r))]_vars

\* An approved payment is not forgotten: sooner or later it has given a period or been given
\* back, unless its subscription cannot be made the active one, when every repetition of the
\* notice is refused, or the price of the plan has changed, when it is recorded as rejected.
Settled(c) == c \in done \/ charge[c].status # "approved"
Blocked(c) ==
  LET r == charge[c].sub IN
  /\ r # Nothing /\ sub[r].meta.closed = "no"
  /\ ~(NotInTheWay(sub, r) /\ SingleActive(AfterRenewal(sub, r, charge[c].at)))

TurnedAway(c) == pay[c] = [status |-> "rejected", ver |-> charge[c].ver]

PaymentsAreAnswered == \A c \in Charges : []<>(Settled(c) \/ Blocked(c) \/ TurnedAway(c))
================================================================================
