---------------------------- MODULE FollowupOutbox ----------------------------
(***************************************************************************)
(* The automatic reminders of one WhatsApp conversation: the planner       *)
(* (followup_service.py), the delivery worker (followup_delivery_service.  *)
(* py), the threads and the cron job that run them (gunicorn.conf.py,      *)
(* run_ai_followups.py), the operators who take a conversation over        *)
(* (human_attention.py, whatsapp_agent.py) and the customer's messages.    *)
(*                                                                         *)
(* All of them keep their state in one JSON column, metadata_json, which   *)
(* is always written whole.  The delivery worker and the attention panel   *)
(* read it under the row lock they write it with, so each of their         *)
(* transactions is one action.  The planner, the webhook and the order     *)
(* page read it without a lock and save it later: their read and their     *)
(* save are two actions, and the save carries the copy that was read.      *)
(***************************************************************************)
EXTENDS Integers, FiniteSets

CONSTANTS
  Schedulers,    \* the background threads of the web processes
  Crons,         \* runs of run_ai_followups.py: each plans once and delivers nothing
  Nobody,        \* holder of the advisory lock while it is free
  Carts,         \* contents a cart can have
  NoItems,       \* the empty cart
  Prices,        \* prices the shop can have
  ListPrice,     \* its prices at first
  FirstDelay, SecondDelay, MaxReminders,
  StaleAfter, Lease, Backoff,
  Workload,      \* the requests this instance exercises
  MaxClock, MaxMessages, MaxRequests, MaxFaults, MaxSends   \* bounds of exploration

ASSUME DelaysAssumption ==
  /\ {FirstDelay, SecondDelay, StaleAfter, Lease} \subseteq Nat
  /\ Backoff \in Nat \ {0}
  /\ MaxReminders \in {1, 2}
ASSUME WorkersAssumption == Schedulers \cap Crons = {} /\ Nobody \notin Schedulers
ASSUME CartsAssumption   == NoItems \in Carts
ASSUME PricesAssumption  == ListPrice \in Prices
ASSUME BoundsAssumption  ==
  {MaxClock, MaxRequests, MaxFaults, MaxSends} \subseteq Nat /\ MaxMessages \in Nat \ {0}

VARIABLES
  meta,      \* metadata_json of the conversation, as committed
  latest,    \* id of the customer's latest message
  heardAt,   \* and when it came
  clock,
  price,     \* what get_cart() prices a cart with: products and promotions, now
  lock,      \* holder of the PostgreSQL advisory lock
  task,      \* what each worker is doing, with the values it has read
  turn,      \* the webhook that is answering the customer
  desk,      \* the order page that is changing who attends
  requests,  \* webhooks, openings of the order page and changes of prices so far
  faults,    \* failures of workers so far
  accepted,  \* how often the provider accepted each reminder
  audit,     \* how often the message history shows each reminder
  held,      \* an operator has the conversation and nobody gave it back
  undone     \* reminders whose row a late save has replaced by an older one

memory == <<meta, accepted, audit, undone>>
world  == <<latest, heardAt, clock, price>>
vars   == <<memory, world, lock, task, turn, desk, requests, faults, held>>

--------------------------------------------------------------------------------
Workers == Schedulers \cup Crons

\* The fields of dedupe_key; _cart_fingerprint() hashes the items with their prices.
Keys == [anchor : 1..MaxMessages, cart : Carts \ {NoItems}, price : Prices, stage : {1, 2}]
NoKey == [anchor |-> 0, cart |-> NoItems, price |-> ListPrice, stage |-> 0]

\* "dropped": blocked or stale, which nothing tells apart.
\* at: sending_at of a row in "sending", next_attempt_at of a "pending" one, 0 if unset.
Statuses == {"pending", "sending", "uncertain", "sent", "dropped"}
Row(k, s, t) == [key |-> k, status |-> s, at |-> t]
Rows == [key : Keys, status : Statuses, at : 0..(MaxClock + Backoff)]

Metadata == [attention : {"ai", "requested", "taken", "resolved"},
             cart : Carts, rows : SUBSET Rows]

\* The rows of one key.  _outbox() puts the active rows first, so a search by key
\* finds an active row whenever there is one.
With(rows, k, statuses) == {r \in rows : r.key = k /\ r.status \in statuses}

\* _has_queued()
HasQueuedPending(rows, k) == With(rows, k, {"pending"}) # {}
HasQueued(rows, k) == With(rows, k, {"pending", "sending", "uncertain", "sent"}) # {}

\* A search by key that changes the row to row "to", if it has one of the statuses.
Rewrite(rows, k, statuses, to) ==
  IF With(rows, k, statuses) = {} THEN rows
                                  ELSE (rows \ With(rows, k, statuses)) \cup {to}

\* _mutate_item() over a list of keys, and _block_pending_outbox(): only what is
\* still pending changes.
Discard(rows, ks) ==
  {IF r.key \in ks /\ r.status = "pending" THEN Row(r.key, "dropped", 0) ELSE r : r \in rows}

ByOperator(a) == a \in {"requested", "taken", "resolved"}

\* What writing the column from "copy" replaces: the rows that have changed since it
\* was read.
OfKey(rows, k) == {r \in rows : r.key = k}
Undoes(copy) == {k \in Keys : OfKey(copy.rows, k) # OfKey(meta.rows, k)}

--------------------------------------------------------------------------------
NoCopy == [attention |-> "ai", cart |-> NoItems, rows |-> {}]
Idle   == [step |-> "idle", bare |-> FALSE, now |-> 0, copy |-> NoCopy,
           todo |-> {}, anchor |-> 0, price |-> ListPrice, key |-> NoKey]
Ended(w) == IF w \in Crons THEN [Idle EXCEPT !.step = "ended"] ELSE Idle
Closed == [open |-> FALSE, copy |-> NoCopy]
Opened == [open |-> TRUE, copy |-> meta]

Steps == {"idle", "ended", "planning", "queued", "planned", "listed", "screening", "items",
          "calling", "accepted", "ambiguous", "rejected"}

Tasks == [step : Steps, bare : BOOLEAN, now : 0..MaxClock, copy : Metadata,
          todo : SUBSET Keys, anchor : 0..MaxMessages, price : Prices,
          key : Keys \cup {NoKey}]
Pages == [open : BOOLEAN, copy : Metadata]

Init ==
  /\ meta \in [attention : {"ai"}, cart : Carts \ {NoItems}, rows : {{}}]
  /\ latest = 1 /\ heardAt = 0 /\ clock = 0 /\ price = ListPrice
  /\ lock = Nobody
  /\ task = [w \in Workers |-> Idle]
  /\ turn = Closed /\ desk = Closed
  /\ requests = 0 /\ faults = 0
  /\ accepted = [k \in Keys |-> 0]
  /\ audit = [k \in Keys |-> 0]
  /\ held = FALSE /\ undone = {}

At(w, step) == task[w].step = step
Becomes(w, t) == task' = [task EXCEPT ![w] = t]
Goto(w, step) == Becomes(w, [task[w] EXCEPT !.step = step])
Release(w) == lock' = IF lock = w THEN Nobody ELSE lock

--------------------------------------------------------------------------------
(* _run_once(), _worker() and the cron entry point *)

Scanning(bare) == [Idle EXCEPT !.step = "planning", !.bare = bare,
                               !.now = clock, !.copy = meta]

\* pg_try_advisory_lock succeeds; scan() reads the conversations.
Begin(s) ==
  /\ At(s, "idle") /\ lock = Nobody
  /\ lock' = s
  /\ Becomes(s, Scanning(FALSE))
  /\ UNCHANGED <<memory, world, turn, desk, requests, faults, held>>

\* An exception while the lock is asked for or held: it is released, and
\* "except Exception" runs the whole cycle again without it.
Fault(s) ==
  /\ ~task[s].bare
  /\ faults < MaxFaults
  /\ faults' = faults + 1
  /\ Release(s)
  /\ Becomes(s, Scanning(TRUE))
  /\ UNCHANGED <<memory, world, turn, desk, requests, held>>

\* The process dies, or the cycle without the lock fails.  The server frees the
\* advisory lock of a closed connection and rolls its transaction back.
Crash(w) ==
  /\ ~At(w, "idle") /\ ~At(w, "ended")
  /\ faults < MaxFaults
  /\ faults' = faults + 1
  /\ Release(w)
  /\ Becomes(w, Ended(w))
  /\ UNCHANGED <<memory, world, turn, desk, requests, held>>

BeginCron(c) ==
  /\ At(c, "idle")
  /\ Becomes(c, Scanning(FALSE))
  /\ UNCHANGED <<memory, world, lock, turn, desk, requests, faults, held>>

--------------------------------------------------------------------------------
(* AIFollowupService.scan() *)

\* After scan() a thread goes on to dispatch_pending(), the cron job ends.
Planned(w) == IF w \in Schedulers THEN [Idle EXCEPT !.step = "planned", !.bare = task[w].bare]
                                  ELSE Ended(w)

IdleTime(w) == task[w].now - heardAt

Stage(w) == IF IdleTime(w) >= SecondDelay THEN MaxReminders ELSE 1

Reminder(w) ==
  [anchor |-> latest, cart |-> task[w].copy.cart, price |-> price, stage |-> Stage(w)]

\* The latest message and the prices are queried now; everything else is the copy's.
PlanReminder(w) ==
  /\ At(w, "planning")
  /\ ~ByOperator(task[w].copy.attention)
  /\ task[w].copy.cart # NoItems
  /\ IdleTime(w) >= FirstDelay
  /\ ~HasQueued(task[w].copy.rows, Reminder(w))
  /\ Becomes(w, [task[w] EXCEPT !.step = "queued", !.key = Reminder(w)])
  /\ UNCHANGED <<memory, world, lock, turn, desk, requests, faults, held>>

\* Not eligible, already queued, or follow-ups are off for the shop.
PlanNothing(w) ==
  /\ At(w, "planning")
  /\ Becomes(w, Planned(w))
  /\ UNCHANGED <<memory, world, lock, turn, desk, requests, faults, held>>

\* The whole copy is written, with the new row.
SavePlan(w) ==
  /\ At(w, "queued")
  /\ meta' = [task[w].copy EXCEPT !.rows = @ \cup {Row(task[w].key, "pending", 0)}]
  /\ undone' = undone \cup Undoes(task[w].copy)
  /\ Becomes(w, Planned(w))
  /\ UNCHANGED <<accepted, audit, world, lock, turn, desk, requests, faults, held>>

--------------------------------------------------------------------------------
(* AIFollowupDeliveryService.dispatch_pending(), up to the items *)

List(w) ==
  /\ At(w, "planned")
  /\ Becomes(w, [task[w] EXCEPT !.step = "listed", !.now = clock, !.copy = meta])
  /\ UNCHANGED <<memory, world, lock, turn, desk, requests, faults, held>>

\* A commit for an earlier conversation of the list has expired the loaded rows.
Reload(w) ==
  /\ At(w, "listed")
  /\ task[w].copy # meta
  /\ Becomes(w, [task[w] EXCEPT !.copy = meta])
  /\ UNCHANGED <<memory, world, lock, turn, desk, requests, faults, held>>

ExpiredLater(w, r) == r.status = "sending" /\ task[w].now - r.at > Lease
Expired(w, r)      == r.status = "sending" /\ task[w].now - r.at >= Lease

\* _recover_expired_sending(): asked for by the copy, decided under the lock.
Recover(w) ==
  /\ At(w, "listed")
  /\ \E r \in task[w].copy.rows : Expired(w, r)
  /\ meta' = [meta EXCEPT !.rows =
       {IF Expired(w, r) THEN Row(r.key, "uncertain", 0) ELSE r : r \in @}]
  /\ Becomes(w, [task[w] EXCEPT !.step = "screening", !.copy = meta'])
  /\ UNCHANGED <<accepted, audit, undone, world, lock, turn, desk, requests, faults, held>>

NothingToRecover(w) ==
  /\ At(w, "listed")
  /\ ~\E r \in task[w].copy.rows : Expired(w, r)
  /\ Goto(w, "screening")
  /\ UNCHANGED <<memory, world, lock, turn, desk, requests, faults, held>>

\* The list "pending" of the copy: those whose back-off is over.
Due(w) == {r.key : r \in {x \in task[w].copy.rows : x.status = "pending" /\ x.at <= task[w].now}}

EndPass(w) == Release(w) /\ Becomes(w, Idle)

\* Under operator attention, nothing due, or the shop is inactive, its AI or its
\* WhatsApp connection is off.
SkipPass(w) ==
  /\ At(w, "screening")
  /\ EndPass(w)
  /\ UNCHANGED <<memory, world, turn, desk, requests, faults, held>>

\* Everything due is dropped: the branch licence or the follow-up option is off, the
\* customer is idle for too long, the cart is empty, or its order is paid or confirmed.
DropPass(w) ==
  /\ At(w, "screening")
  /\ ~ByOperator(task[w].copy.attention) /\ Due(w) # {}
  /\ meta' = [meta EXCEPT !.rows = Discard(@, Due(w))]
  /\ EndPass(w)
  /\ UNCHANGED <<accepted, audit, undone, world, turn, desk, requests, faults, held>>

\* The items will be compared with the message, the cart and the prices read here.
OpenPass(w) ==
  /\ At(w, "screening")
  /\ ~ByOperator(task[w].copy.attention) /\ Due(w) # {}
  /\ IdleTime(w) <= StaleAfter
  /\ task[w].copy.cart # NoItems
  /\ Becomes(w, [task[w] EXCEPT !.step = "items", !.todo = Due(w), !.anchor = latest,
                                !.price = price,
                                !.copy = [NoCopy EXCEPT !.cart = task[w].copy.cart]])
  /\ UNCHANGED <<memory, world, lock, turn, desk, requests, faults, held>>

--------------------------------------------------------------------------------
(* dispatch_pending(), the items *)

Current(w, k) ==
  k.anchor = task[w].anchor /\ k.cart = task[w].copy.cart /\ k.price = task[w].price

\* The customer wrote again, the cart is another one or its prices are.
OutdatedItem(w, k) ==
  /\ At(w, "items") /\ k \in task[w].todo
  /\ ~Current(w, k)
  /\ meta' = [meta EXCEPT !.rows = Discard(@, {k})]
  /\ Becomes(w, [task[w] EXCEPT !.todo = @ \ {k}])
  /\ UNCHANGED <<accepted, audit, undone, world, lock, turn, desk, requests, faults, held>>

Blocking == {"sending", "sent", "uncertain"}

\* What _claim_pending_item() may claim for key k, in a pass that began at "now".
Claimable(rows, k, now) ==
  IF With(rows, k, Blocking) # {} THEN {}
                                  ELSE {r \in With(rows, k, {"pending"}) : r.at <= now}

\* _claim_pending_item(): under the lock and committed before the provider is called.
ClaimItem(w, k) ==
  /\ At(w, "items") /\ k \in task[w].todo
  /\ Current(w, k)
  /\ Claimable(meta.rows, k, task[w].now) # {}
  /\ meta' = [meta EXCEPT !.rows =
                Rewrite(@, k, {"pending"}, Row(k, "sending", task[w].now))]
  /\ Becomes(w, [task[w] EXCEPT !.step = "calling", !.todo = @ \ {k}, !.key = k])
  /\ UNCHANGED <<accepted, audit, undone, world, lock, turn, desk, requests, faults, held>>

\* Somebody else has it, it is no longer pending, or its back-off is not over.
LoseItem(w, k) ==
  /\ At(w, "items") /\ k \in task[w].todo
  /\ Current(w, k)
  /\ Claimable(meta.rows, k, task[w].now) = {}
  /\ meta' = [meta EXCEPT !.rows = IF With(@, k, Blocking) # {} THEN Discard(@, {k})
                                                               ELSE @]
  /\ Becomes(w, [task[w] EXCEPT !.todo = @ \ {k}])
  /\ UNCHANGED <<accepted, audit, undone, world, lock, turn, desk, requests, faults, held>>

Finish(w) ==
  /\ At(w, "items") /\ task[w].todo = {}
  /\ EndPass(w)
  /\ UNCHANGED <<memory, world, turn, desk, requests, faults, held>>

\* The provider takes the reminder and its answer arrives, or it is lost.
Accept(w) ==
  /\ At(w, "calling")
  /\ accepted[task[w].key] < MaxSends
  /\ accepted' = [accepted EXCEPT ![task[w].key] = @ + 1]
  /\ \E step \in {"accepted", "ambiguous"} : Goto(w, step)
  /\ UNCHANGED <<meta, audit, undone, world, lock, turn, desk, requests, faults, held>>

\* A 4xx answer or an error before the call, a proof that nothing was sent; or an
\* error of transport, which proves nothing.
Refuse(w) ==
  /\ At(w, "calling")
  /\ \E step \in {"rejected", "ambiguous"} : Goto(w, step)
  /\ UNCHANGED <<memory, world, lock, turn, desk, requests, faults, held>>

NextItem(w) == Becomes(w, [task[w] EXCEPT !.step = "items", !.key = NoKey])

\* _mark_sent_and_audit()
MarkSent(w) ==
  LET k == task[w].key IN
  /\ At(w, "accepted")
  /\ meta' = [meta EXCEPT !.rows = Rewrite(@, k, {"sending", "uncertain"}, Row(k, "sent", 0))]
  /\ audit' = IF With(meta.rows, k, {"sending", "uncertain"}) = {}
              THEN audit ELSE [audit EXCEPT ![k] = @ + 1]
  /\ NextItem(w)
  /\ UNCHANGED <<accepted, undone, world, lock, turn, desk, requests, faults, held>>

\* _mark_sent_and_audit() raises: rolled back, and treated like a lost answer.
MarkFailsHalfway(w) ==
  /\ At(w, "accepted")
  /\ audit' = [audit EXCEPT ![task[w].key] = @ + 1]
  /\ Goto(w, "ambiguous")
  /\ UNCHANGED <<meta, accepted, undone, world, lock, turn, desk, requests, faults, held>>
MarkFails(w) ==
  /\ At(w, "accepted")
  /\ Goto(w, "ambiguous")
  /\ UNCHANGED <<memory, world, lock, turn, desk, requests, faults, held>>

\* _mark_delivery_uncertain()
MarkForRetry(w) ==
  LET k == task[w].key IN
  /\ At(w, "ambiguous")
  /\ meta' = [meta EXCEPT !.rows = Rewrite(@, k, {"sending", "uncertain"}, Row(k, "pending", 0))]
  /\ NextItem(w)
  /\ UNCHANGED <<accepted, audit, undone, world, lock, turn, desk, requests, faults, held>>
MarkUncertain(w) ==
  LET k == task[w].key IN
  /\ At(w, "ambiguous")
  /\ meta' = [meta EXCEPT !.rows = Rewrite(@, k, {"sending", "uncertain"}, Row(k, "uncertain", 0))]
  /\ NextItem(w)
  /\ UNCHANGED <<accepted, audit, undone, world, lock, turn, desk, requests, faults, held>>

NextAttemptAtOnce == clock
NextAttemptLate   == clock + 2 * Backoff
NextAttempt       == clock + Backoff

\* _record_failure(): back to pending, not before the back-off is over.
RecordAnyFailure(w) ==
  LET k == task[w].key IN
  /\ At(w, "rejected")
  /\ meta' = [meta EXCEPT !.rows =
       Rewrite(@, k, {"sending", "uncertain"}, Row(k, "pending", NextAttempt))]
  /\ NextItem(w)
  /\ UNCHANGED <<accepted, audit, undone, world, lock, turn, desk, requests, faults, held>>
RecordFailure(w) ==
  LET k == task[w].key IN
  /\ At(w, "rejected")
  /\ meta' = [meta EXCEPT !.rows = Rewrite(@, k, {"sending"}, Row(k, "pending", NextAttempt))]
  /\ NextItem(w)
  /\ UNCHANGED <<accepted, audit, undone, world, lock, turn, desk, requests, faults, held>>

--------------------------------------------------------------------------------
(* The attention panel: the conversation is locked before it is read *)

BlockPending(m) == Discard(m.rows, {r.key : r \in m.rows})

AttendOnly(m, a) == [m EXCEPT !.attention = a]
Attend(m, a) == [m EXCEPT !.attention = a, !.rows = BlockPending(m)]

\* set_attention("human") by an operator
Take ==
  /\ "panel" \in Workload
  /\ meta.attention # "taken"
  /\ meta' = Attend(meta, "taken")
  /\ held' = TRUE
  /\ UNCHANGED <<accepted, audit, undone, world, lock, task, turn, desk, requests, faults>>

Resolve ==
  /\ "panel" \in Workload
  /\ meta.attention = "taken"
  /\ meta' = Attend(meta, "resolved")
  /\ UNCHANGED <<accepted, audit, undone, world, lock, task, turn, desk, requests, faults, held>>

\* resume_ai() does not revive the reminders that were blocked.
Resume ==
  /\ "panel" \in Workload
  /\ meta.attention \in {"taken", "resolved"}
  /\ meta' = [meta EXCEPT !.attention = "ai"]
  /\ held' = FALSE
  /\ UNCHANGED <<accepted, audit, undone, world, lock, task, turn, desk, requests, faults>>

--------------------------------------------------------------------------------
(* ai_order_attention(): the same changes from the order page, without a lock *)

OpenDesk ==
  /\ "order page" \in Workload
  /\ ~desk.open
  /\ requests < MaxRequests /\ requests' = requests + 1
  /\ desk' = Opened
  /\ UNCHANGED <<memory, world, lock, task, turn, faults, held>>

SaveDesk ==
  /\ desk.open
  /\ \/ meta' = Attend(desk.copy, "requested") /\ held' = TRUE
     \/ meta' = Attend(desk.copy, "resolved") /\ held' = TRUE
     \/ meta' = [desk.copy EXCEPT !.attention = "ai"] /\ held' = FALSE
  /\ undone' = undone \cup Undoes(desk.copy)
  /\ desk' = Closed
  /\ UNCHANGED <<accepted, audit, world, lock, task, turn, requests, faults>>

DropDesk ==
  /\ desk.open
  /\ desk' = Closed
  /\ UNCHANGED <<memory, world, lock, task, turn, requests, faults, held>>

--------------------------------------------------------------------------------
(* webhook(): a message of the customer *)

OpenTurn ==
  /\ "webhook" \in Workload
  /\ ~turn.open /\ latest < MaxMessages
  /\ requests < MaxRequests /\ requests' = requests + 1
  /\ turn' = Opened
  /\ UNCHANGED <<memory, world, lock, task, desk, faults, held>>

\* A resolved conversation goes back to the AI, in a commit of its own.  One that an
\* operator has taken since then was not given back by anybody.
TurnResumes ==
  /\ turn.open /\ turn.copy.attention = "resolved"
  /\ meta' = [turn.copy EXCEPT !.attention = "ai"]
  /\ undone' = undone \cup Undoes(turn.copy)
  /\ turn' = [turn EXCEPT !.copy = meta']
  /\ held' = (held /\ meta.attention # "resolved")
  /\ UNCHANGED <<accepted, audit, world, lock, task, desk, requests, faults>>

\* The message is stored; for an operator, or by an answer that leaves the cart alone.
TurnReplies ==
  /\ turn.open /\ turn.copy.attention # "resolved"
  /\ latest' = latest + 1 /\ heardAt' = clock
  /\ turn' = Closed
  /\ UNCHANGED <<memory, clock, price, lock, task, desk, requests, faults, held>>

\* A command of the customer changes the cart: add_to_cart(), remove_from_cart().
TurnChangesCart ==
  /\ turn.open /\ turn.copy.attention = "ai"
  /\ \E c \in Carts \ {turn.copy.cart} : meta' = [turn.copy EXCEPT !.cart = c]
  /\ undone' = undone \cup Undoes(turn.copy)
  /\ latest' = latest + 1 /\ heardAt' = clock
  /\ turn' = Closed
  /\ UNCHANGED <<accepted, audit, clock, price, lock, task, desk, requests, faults, held>>

DropTurn ==
  /\ turn.open
  /\ turn' = Closed
  /\ UNCHANGED <<memory, world, lock, task, desk, requests, faults, held>>

Tick ==
  /\ clock < MaxClock
  /\ clock' = clock + 1
  /\ UNCHANGED <<memory, latest, heardAt, price, lock, task, turn, desk, requests, faults, held>>

\* The shop changes a price, or a promotion begins or ends.
Reprice ==
  /\ "prices" \in Workload
  /\ requests < MaxRequests /\ requests' = requests + 1
  /\ price' \in Prices \ {price}
  /\ UNCHANGED <<memory, latest, heardAt, clock, lock, task, turn, desk, faults, held>>

--------------------------------------------------------------------------------
Plan(w) == PlanReminder(w) \/ PlanNothing(w) \/ SavePlan(w)

Deliver(w) ==
  \/ List(w) \/ Recover(w) \/ NothingToRecover(w)
  \/ SkipPass(w) \/ DropPass(w) \/ OpenPass(w)
  \/ \E k \in Keys : OutdatedItem(w, k) \/ ClaimItem(w, k) \/ LoseItem(w, k)
  \/ Finish(w) \/ Accept(w) \/ Refuse(w)
  \/ MarkSent(w) \/ MarkFails(w) \/ MarkUncertain(w) \/ RecordFailure(w)

People ==
  \/ Take \/ Resolve \/ Resume
  \/ OpenDesk \/ SaveDesk \/ DropDesk
  \/ OpenTurn \/ TurnResumes \/ TurnReplies \/ TurnChangesCart \/ DropTurn

Next ==
  \/ \E s \in Schedulers : Begin(s) \/ Fault(s)
  \/ \E c \in Crons : BeginCron(c)
  \/ \E w \in Workers : Crash(w) \/ Plan(w) \/ Reload(w) \/ Deliver(w)
  \/ People
  \/ Reprice
  \/ Tick

Spec == Init /\ [][Next]_vars

\* The threads keep running their cycles, and time goes on.
Works(s) == Begin(s) \/ Plan(s) \/ Deliver(s)

FairSpec == Spec /\ WF_vars(Tick) /\ \A s \in Schedulers : WF_vars(Works(s))

--------------------------------------------------------------------------------
(* Properties *)

TypeOK ==
  /\ meta \in Metadata
  /\ latest \in 1..MaxMessages /\ clock \in 0..MaxClock /\ heardAt \in 0..MaxClock
  /\ lock \in Schedulers \cup {Nobody}
  /\ task \in [Workers -> Tasks]
  /\ turn \in Pages /\ desk \in Pages
  /\ requests \in 0..MaxRequests /\ faults \in 0..MaxFaults
  /\ accepted \in [Keys -> 0..MaxSends] /\ audit \in [Keys -> Nat]
  /\ held \in BOOLEAN /\ undone \subseteq Keys /\ price \in Prices

\* However the copies overwrite each other, a reminder never has two rows that a
\* worker could still act on or that count as sent (_has_queued, and the search for
\* the first row of a key in the delivery worker, which relies on it).
OneLiveRow ==
  \A k \in Keys :
    Cardinality(With(meta.rows, k, {"pending", "sending", "uncertain", "sent"})) <= 1

\* The provider never accepts the same reminder twice, whatever two workers, a
\* crash, an expired lease or a retry do, unless a late save has brought an older row
\* of it back: "never resend after an ambiguous outcome" (_recover_expired_sending).
SentOnce == \A k \in Keys \ undone : accepted[k] <= 1

\* The history shows a reminder once, when its row says sent, and only if the
\* provider accepted it, unless a late save has replaced its row: "Record provider
\* acceptance once" (_mark_sent_and_audit).
HistoryMatchesOutbox ==
  \A k \in Keys \ undone : /\ audit[k] = Cardinality(With(meta.rows, k, {"sent"}))
                           /\ audit[k] <= accepted[k]

\* A reminder whose outcome is unknown is only ever reconciled: it is not queued,
\* sent or dropped again (_mark_delivery_uncertain, _has_queued), unless this very
\* step or an earlier one is a late save over its row.
UncertainIsNotRetried ==
  [][\A k \in Keys \ undone' : With(meta.rows, k, {"uncertain"}) # {} =>
       /\ With(meta.rows, k, {"uncertain", "sent"})' # {}
       /\ With(meta.rows, k, {"pending", "sending"})' = {}]_vars

\* While the conversation says that it is an operator's, no reminder is claimed, not
\* one that a pass had already listed nor one that was in flight at the handoff and
\* came back rejected (_block_pending_outbox, and the back-off of _record_failure).
NoReminderWhileAttended ==
  [][ByOperator(meta.attention) =>
       \A k \in Keys \ undone' : With(meta.rows, k, {"sending"})' # {} =>
                                 With(meta.rows, k, {"sending"}) # {}]_vars

\* The same of an operator who has taken the conversation and not given it back,
\* whatever the conversation says by then: "A queued reminder must not escape after
\* an operator has taken over" (pending_for_conversation).
NoReminderDuringHandoff ==
  [][held => \A k \in Keys : With(meta.rows, k, {"sending"})' # {} =>
                             With(meta.rows, k, {"sending"}) # {}]_vars

\* "Máximo: 2 recordatorios por ciclo de actividad" (AI_THIRD_PHASE_FOLLOWUPS.md): while
\* the customer says nothing, the provider accepts no more than the configured number.
FewPerCycle ==
  \A a \in 1..MaxMessages :
    Cardinality({k \in Keys : k.anchor = a /\ accepted[k] > 0}) <= MaxReminders

\* No claim whose lease ends within the explored time stays "sending" for ever, not
\* even one that a late save brings back: its worker settles it, or a later pass
\* declares it uncertain (_recover_expired_sending).
Overdue == {r \in meta.rows : r.status = "sending" /\ r.at + Lease <= MaxClock}
ClaimsAreSettled == []<>(Overdue = {})

\* The outbox implements the promise, which is given up for a reminder when a late
\* save replaces its row.
Phase(k) ==
  IF k \in undone THEN "lost"
  ELSE IF With(meta.rows, k, {"sent"}) # {} THEN "closed"
  ELSE IF With(meta.rows, k, {"sending", "uncertain"}) # {} THEN "tried"
  ELSE IF With(meta.rows, k, {"pending"}) # {} THEN "waiting" ELSE "out"

Promise == INSTANCE ReminderPromise WITH
  phase <- [k \in Keys |-> Phase(k)],
  delivered <- [k \in Keys |-> IF k \in undone THEN 0 ELSE accepted[k]],
  attended <- ByOperator(meta.attention)

KeepsPromise == Promise!Spec
================================================================================
