# Verification of StockARmobile

StockARmobile is a multi-branch shop system: a Flask application on PostgreSQL
that keeps stock, sells, runs cash drawers and talks to customers through an AI
agent. Requests run in parallel threads and processes; the only thing between
them is the database. This directory holds TLA+ models of the parts where that
matters most (stock, sales, cash, automatic reminders, orders paid online, the
subscription of a shop), the
TLC instances that check them, and TLAPS proofs of their main properties for
every number of branches, products, rows and request threads.

Contents: [inventory](#inventory-of-the-system) ·
[modules](#modules-and-how-they-correspond-to-the-code) ·
[runs](#what-the-runs-check) · [proofs](#what-is-proved) ·
[findings](#where-the-code-and-its-comments-disagree) ·
[limits](#what-is-not-modelled-and-what-the-models-leave-out) · [plan](#plan)

To check: `tlc -config MCBranchInventory.cfg MCBranchInventory.tla` (likewise for
the other `.cfg` files; see the table of runs for the module of each), and
`tlapm BranchInventoryProofs.tla` (likewise `SaleLifecycleProofs`,
`SaleLedgerProofs`, `CashDrawersProofs`, `FollowupOutboxProofs`, `VendorOrdersProofs`,
`SubscriptionBillingProofs`, `SumLemmas`). The community modules must be on the path.

## Inventory of the system

| Component (source) | State it keeps | Operations | Hard behaviour | What makes it correct |
|---|---|---|---|---|
| **Branch inventory** (`stockarmobile/branch_inventory.py`) | `branch_stock` rows, `branch_stock_movements`, `Product.stock` as their total | decrease, increase, set a level, adjust, transfer several products, reconcile the total | product row locks taken one by one; read-modify-write of rows; rollback in the middle; lock order | no negative balance, balance = opening + movements, total = sum of the branches, requests look as if run one at a time |
| **Sale lifecycle** (`services/sales/*.py`) | `sales`, `sale_items`, the stock movements of a sale | create, edit, annul (cancel and delete exist too) | edit and annul start from a copy read before the locks; checkouts are resent | stock follows the lines of the sale, one sale per token, annulled is final |
| **Stock writers outside sales** (`branches.py`, `purchases.py`, `products.py`) | – (they write the rows above) | transfer form, purchases, product form, import | absolute levels racing relative changes | as branch inventory |
| **Treasury postings** (`cash_treasury.py`) | `treasury_movements` of sales, their reversals | record, reverse, reconcile | the reversal of a posting is guarded by its idempotency key | at most one posting in force per sale, none reversed twice |
| **Cash sessions** (`cash.py`) | `cash_sessions`, `cash_movements` | open, movement, close, void, reopen | the page loads a session before it locks it; sales arrive while it closes | a closing counts what came before it; a closed session moves no more |
| **Registers and cash transfers** (`cash_treasury.py`) | `cash_registers`, `cash_transfers` | create and switch registers; create, dispatch, receive, reject, cancel a transfer | two locks (branch or register) guard one thing; five handlers of one transfer | one open session per register, none on a register that is off; cash leaves once and arrives once |
| **Sales routes, POS QR** (`sales.py`) | QR payment payloads | checkout, edit, annul, payment polling | payment and sale are separate commits | a payment becomes one sale |
| **AI follow-up outbox** (`services/ai_agent/followup_service.py`, `followup_delivery_service.py`, `human_attention.py`, `run_ai_followups.py`, `gunicorn.conf.py`) | reminders inside the JSON metadata of a conversation | scan, claim, dispatch, record, recover, take over | several processes, leases, a provider that may or may not have sent | a reminder is sent at most once, in one row at a time, and not while an operator attends |
| **AI orders and payments** (`services/ai_agent/vendor_order_service.py`) | quotes with a payment link, their payment rows | place, reuse, replace, retry, cancel, finalize when paid | the provider is called between two transactions; the finalizing webhook works on a copy of the quote older than its lock | one sale per order, the payment row says whose money it is |
| **Webhooks** (`services/webhook_service.py`) | received events | receive, deduplicate, apply | duplicates, reordering, refused notices that come back | an event is applied once, an approved payment becomes a sale in the end |
| **Quotes** (`quotes.py`, `services/quote_cleanup_service.py`) | quotes and lines | create, accept, annul, convert, expire, clean up | status written on an unlocked read, conversion racing expiry and payment | converted once, a sold quote keeps its sale |
| **Subscriptions and billing** (`company_billing.py`, `services/subscription_service.py`, `billing_service.py`, `webhook_service.py`) | subscriptions, their checkout links, payments, command keys | ask for a plan change, replace it, give it up, pay it, renew, cancel, expire | portal pages and webhooks that write over rows loaded earlier; notices repeated, late and in any order; two links paid | one active subscription, no period without a payment, no payment without a period or a refund, paid access is kept |
| **Referrals** (`referrals.py`, `services/referral_*.py`) | commissions, payouts | accrue, pay, revert | double payouts | paid at most once |
| CRM and campaigns, backup, wholesale pricing and promotions, WhatsApp agent, accounts, print agent, front end, migrations | – | – | mostly reads, pure calculation, I/O or presentation | not planned |

How they interact: the sales routes call `SaleService`, which calls the
inventory helpers and the treasury postings *in the same transaction*; cash
sessions and transfers share `cash_movements` with sales; quotes, POS QR and AI
orders all end in `SaleService.create_sale_from_items`. There is no shared
memory between requests: the interactions that count are rows, row locks, unique
indexes and the moment of COMMIT. Follow-ups run in one background thread of each
gunicorn worker, which share a PostgreSQL advisory lock, and may also be planned
by a cron job; they meet the webhook and the operators' pages in the JSON
metadata of a conversation.

The list of hazards, each at the line where it bites and with the properties
that would notice it, is in `PROJECT.json` under `hazards`.

## Modules and how they correspond to the code

```
StockRequests ── SerialInventory                     (abstract: one request at a time)
      └── BranchInventory ── SaleLifecycle           (detailed: lock by lock)
CashRows ── SerialCash                               (abstract: cash, one request at a time)
      └── CashDrawers                                (cash sessions, registers, transfers)
VendorOrders                                         (AI orders, their quotes, payments, webhook)
SubscriptionBilling                                  (plan changes, payments, paid periods)
ReminderPromise ── FollowupOutbox                    (what a reminder promises; how it is kept)
SumLemmas, *Proofs                                   (theorems)        MC* (instances)
```

**The transaction model.** All modules use one idea of a transaction. A request
takes row locks one after another (`SELECT … FOR UPDATE`), each its own step;
between two of them, anyone else may commit. What it writes stays private until
its COMMIT, one step that publishes every row and releases every lock. An
exception, a deadlock victim, a lost connection and a killed process all end the
same way: a rollback step, possible at any point. The default isolation level of
PostgreSQL (READ COMMITTED) means a read under a lock sees the last committed
row. It also means that an ORM object loaded *before* the lock is not refreshed by it,
which the models of edits, annulments and the cash page reproduce.

**StockRequests** defines what a request asks for (`Job`) and what it does to one
`branch_stock` row (`Delta`, the `quantity_delta` of the code). Quantities are
whole units; the code's thousandths are a scale. **SerialInventory** is the
promise: requests are served whole, one at a time (`Serve`).

**BranchInventory** is `branch_inventory.py`. `stock`, `total` and `moved` are
the committed `BranchStock.stock`, `Product.stock` and the sum of
`BranchStockMovement.quantity_delta`; `holder` the product row locks; `job`,
`todo`, `rows`, `agg` the open transaction of each worker. `AcquireProduct` is one
round of the loops in the code: lock the product, read its rows, refuse a
negative balance, stage rows, movement and total. `InLockOrder` is the `sorted` /
`ORDER BY id` that carts and transfers have and purchases do not. `CommitStock`
publishes. `Serial!Spec`, under the identity mapping on the committed variables,
is what it must implement.

**SaleLifecycle** extends it with `SaleService`: `StartCheckout`/`CommitCheckout`,
`StartEdit`/`CommitEdit`, `StartAnnul`/`ReverseLedger`/`CommitAnnul`. The `form`
of a worker holds what its handler read before it had any lock (`seen`,
`seenRev`). `cash` and `posted` are the drawer rows and the non-cash treasury
postings of a sale; `undone` counts the reversals of each. `StagedByOthers`
stands for the second writer of a row, or of a unique key, waiting for the
first. `raced` is a history variable: it becomes true for a sale when a change
commits that had loaded the sale before another change of it committed. No guard reads it.

**CashRows** has the rows of the cash desk and what is read off them: `till` sums up the
rows linked to a session (sales, their cash, manual movements); `sent` and `landed` say
which session holds the "retiro" and the "ingreso" of a transfer; `Expected` is
`_session_summary(...)["expected"]`. **SerialCash** is the promise about them: each
request served whole, checked against the rows of that moment. It also spells out
what the code does not promise: a movement or closing loaded before the session ended
is served after it (`Late`), the cash of the sales may be counted as it was before one
of them was changed (`Readings`), and the register a new transfer goes to may have been
switched off since it was looked up.

**CashDrawers** is `cash.py` and the register and transfer handlers of
`cash_treasury.py`, with the checkouts that pay into a session. `task` is what
a handler carries from its first read to its commit, in three steps ("asked",
"held", "ready"). The locks are those of the code, and they differ: opening on
the default register locks the *branch* row (`PickDefault`), opening on a chosen
one the *register* row (`PickNamed`), creating a register the branch, switching
one the register. A transfer is asked for in three steps: the session of the drawer is locked
(`TakeSource`), then the branch it goes to, and under these locks the register there and the cash of the drawer are
read (`LockTarget`), which neither lock protects; `CommitCreate` looks at neither
again. `stale` marks a request whose handler had loaded the target session before
locking it; `StatusSeen` is then the old status, and `CommitClose` leaves out a
column set to the value it was loaded with, as the UPDATE does. `ChangeSale` is an edit or annulment that rewrites
the cash of a sale without the lock of its session; `clean` records whether that
happened to the locked session since the lock was granted.

**ReminderPromise** is what a reminder promises: it is tried only while no
operator has the conversation, after a try whose outcome is unknown it never waits
for another, and it is closed as sent only when the provider took it, once. A late save
(`TakeOver`, `GiveBack`, `Queue` with a set of keys) may make it lose reminders, of which nothing
is promised any more.

**FollowupOutbox** is one WhatsApp conversation. `meta` is its `metadata_json` as
committed: who attends, the cart, and the rows of `ai_outbox`. A row is its
`dedupe_key` (message, cart, prices, stage), its status and the one time that matters for
that status. The outbox is a *set* of rows: a search by key takes the first
match in the code, and `_outbox()` puts active rows first, so that is the active row
whenever there is one; that there is never more than one is `OneLiveRow`, checked, not
assumed. `task` is what a thread is doing and has read, through `scan()`
(`PlanReminder`, `SavePlan`), the checks of `dispatch_pending()` (`List`,
`Recover`, `DropPass`, `OpenPass`, …) and its items (`ClaimItem`, `Accept`/`Refuse`, then
`MarkSent`, `MarkUncertain` or `RecordFailure`). Whatever the code does under
`with_for_update().populate_existing()` up to its commit is one action; the call
of the provider lies between two of them. `Fault` is the
`except Exception` of `_run_once`, which runs the whole cycle again *without* the
advisory lock (`bare`); `Crash` is the death of the process at any step.
`Take`/`Resolve`/`Resume` are the attention panel, which locks the conversation
first. The planner, the order page (`OpenDesk`/`SaveDesk`) and the webhook
(`OpenTurn`/`TurnChangesCart`/`TurnResumes`) read without a lock and write the
whole column later, whatever it has become meanwhile: `SavePlan`, `SaveDesk` and the saves of the
webhook always write the copy they read, as the code does. `undone` is a history variable: the
reminders whose rows such a save has replaced by what they were at the reading (`Undoes`).
A claim that is overwritten is a pending row again, and the code then sends the reminder a second
time; the properties about single reminders except `undone` and say so, `OneLiveRow` and
`ClaimsAreSettled` do not. `price` stands for what `get_cart()` makes of products
and promotions: `Reprice` changes it, the planner puts it into the key and a pass compares it with
the price of its own reading (`Current`). `accepted` counts acceptances by the provider, `audit`
the history messages, `held` is the history variable "an operator took it and nobody gave it back".

**VendorOrders** is an order of the AI vendor from its quote to its sale:
`vendor_order_service.py`, the `ai_order` flow of `webhook_service.py`, the
conversion of a quote in `sale_service.py` and the status pages of `quotes.py`.
`quote[q].sale` is `converted_sale_id` with the kind of sale it points to, `pay[q]` the
rows of `payments` in their order, `link`, `charge` and `mail` the provider:
which quotes have a checkout, the payments made, the notices not yet answered
with a 200. A `job` carries what a handler has read until it writes: an order
or a retry calls the provider between its two transactions (`LinkOrder`,
`SaveRetry`); cancelling, annulling, expiring and accepting read a quote without a
lock and write its status later, only that column (`OnlyStatus`), even when it has
been sold meanwhile. `OpenEvent` inserts the webhook's event and loads the
quote; the lock that `Finalize` takes later does not refresh that copy (`seen`), so
its checks are about an older quote, and only the stock and the unique
`client_txn_id` are checked as they are now (`Payable`). `overtaken` is a history variable:
the quotes a webhook wrote to from a copy older than their sale.
`ConvertAtPos`, which first reads the quote under its lock, is one action. The metadata of
the conversation is abstracted, because the cart, the webhook and older copies all
overwrite it: an order may be reused while it is open (`ReuseOrder`), and the
superseded orders are any of the same conversation (`CancelSuperseded`). Two inserts of
one event key are modelled as the second waiting for the first.

**SubscriptionBilling** is the subscription of one company while its plan changes are
paid once, by QR. `sub` holds the rows of `subscriptions`: status, paid periods that are
not over (`left`), the order of their start dates and the part of the metadata the
handlers decide on; `link` the rows with a checkout, `pay` the rows of `payments`, `done`
the keys of applied renewals, `events` the webhook events; `charge` and `mail` are the
provider. `clock` only orders dates. `IsCurrent` is `active_subscription_for_company()`.
`subscription_change_confirm()` is two transactions: from `AskChange` to
`SaveChange` it holds the row of the company, which stops every other commit that
writes a row referring to the company (`Locked`), and `LinkChange` asks for the
checkout. `cancel_checkout()` (`AskCancel`, `SaveCancel`) reads a plain row and later
runs a command on it. A command locks the subscriptions, but a row the session has loaded
keeps its old values (`copy`), and the UPDATE writes the columns that differ from that
copy: that is `Flush`, the heart of the model. A notice goes through `Fetch`, `OpenEvent`, `HoldPayment` (the
update of a known payment locks its row before the subscription is loaded) and ends in one of
`RecordNotice`, `GrantPeriod`, `EndSubscription`, `RefundNotice`, `RefuseNotice`, `IgnoreStale`,
`Duplicate`. Before a notice acts, the code validates it: an approved payment whose amount is not
the price of the plan becomes a rejected one (`Valid`, `Outcome`), whatever its checkout is by then. A link keeps
the amount it was made with, so a plan that gets another price (`Reprice`, `repriced`) turns its
payment away. A payment that is new is inserted, and its foreign key holds off commands
on the subscription until the commit, so that path is one action. `RefundAndDie` is a
refund at the provider whose transaction is lost. `Abort` is any other failure.

Every definition that stands for code is listed in `PROJECT.json` under `map`
with its lines. Operators in pairs such as `RowLockIgnored`/`RowIsFree` or
`StockUnchecked`/`EnoughStock` are a guard of the code and a faulty version of
it: replacing one by the other must break a property, which shows that the
property depends on the guard (`PROJECT.json`, `mutants`).

## What the runs check

| Run (`.cfg` of module) | Instance | Distinct states | What it shows |
|---|---|---|---|
| `branch_inventory` (`MCBranchInventory`) | 2 branches, 2 products, 2 workers, quantities 0–1, `MaxStock` 2 | 152,931 | types; no negative stock; ledger = stock; total = sum; staged values still right at commit; sorted requests never wait in a circle; refinement of `SerialInventory` |
| `sale_changes` (`MCSaleChanges` of `MCSaleLifecycle`) | 2 sales, 1 token, 2 products (2 and 1 units), 2 workers, cash/card/both, `MaxRev` 2 | 547,599 | stock, drawer and treasury follow a sale through overlapping edits and annulments; nothing is reversed twice; annulled is final; checkouts that race for the last unit and for one token: units conserved, one sale per token (that stock is never negative is checked in `branch_inventory` and proved for sales) |
| `cash_shop` (`MCCashShop` of `MCCashDrawers`) | 2 branches, 3 registers (one to be created), an admin and a clerk, 2 sessions, 2 transfers, 2 workers | 266,822 | refinement of `SerialCash` (so only an open drawer is charged); one open session per register, none on a register that is off; a closing counts everything before it; cash leaves one open drawer and enters exactly one; dispatches never overdraw |
| `followup_delivery` (`MCFollowupDelivery` of `MCFollowupOutbox`) | 2 threads that plan and deliver, operators at the panel, 1 failure, or 1 thread, the panel and the webhook; 2 messages, clock 0–1, lease and back-off 1 | 659,430 | types; one live row per reminder; of every reminder no late save has touched: accepted once, shown as it was sent, an unknown outcome never retried, no claim for an attended conversation; refinement of `ReminderPromise` |
| `followup_settling` (`MCFollowupSettling` of `MCFollowupOutbox`) | 1 thread and 1 cron run, 2 prices, one change on the order page or of the price, 1 failure; fair | 475,667 | one live row per reminder in spite of lost updates; no claim stays "sending" |
| `vendor_orders` (`MCVendorOrders`) | 2 orders of one customer, 2 payments, 2 workers, 2 units, 1 abort; fair | 197,623 | one sale per order and the quote knows it; approved rows match the sales; an approved payment becomes a sale in the end |
| `subscription_billing` (`MCSubscriptionBilling`) | 3 subscriptions, 2 payments with up to 3 versions, 2 workers, 1 abort, prices that change; fair | 322,382 | types; one active subscription and one waiting plan change; no period without a payment; paid access outlives plan changes; an approved payment gives a period, is given back, or is turned away for its price |
| `followup_handoff` (`MCFollowupHandoff` of `MCFollowupOutbox`) | 1 thread, operators | violated | finding 3 |
| `followup_prices` (`MCFollowupPrices` of `MCFollowupOutbox`) | 1 thread, 1 cart, 2 prices, `MaxReminders` 2 | violated | finding 5 |
| `sale_cancelled` (`MCSaleCancelled` of `MCSaleLifecycle`) | 1 sale, cash only | violated | finding 1 |
| `cash_closed` (`MCCashClosed` of `MCCashDrawers`) | 1 register, 2 sessions | violated | finding 2 |
| `vendor_double_sale` (`MCVendorDoubleSale` of `MCVendorOrders`) | 1 order, 1 payment | violated | finding 4 |

**Why the bounds are enough.** Every hazard listed is a meeting of two actors:
of two handlers, or of a handler and a step that takes no lock and is one action
(a change of a sale in `CashDrawers`, the clock, the customer, the provider).
Two products are needed for opposite lock orders and a half-done request, two
branches for transfers and for a total that must add up, two payments for an
order paid twice, two prices for a reminder that looks new. `MaxStock`, `MaxRev`, `MaxCash` and `MaxRows` only cut off growth: no
row grows past `MaxStock` units, a sale changes at most `MaxRev` times (2: a
change of a changed sale), sums in a drawer stay within `MaxCash`, an order has at most
`MaxRows` payment rows (2: one retry). With opening stock of one or two units a
product runs out in a few requests, so the refusals happen. What no instance
can show, any number of each, is the business of the proofs.

**Scopes.** Five instances carry a `CONSTRAINT InScope`, because everything at once
would be hundreds of millions of states of which most are two unrelated stories
side by side. `sale_changes`: a sale alone with all payments and two revisions, or
two sales and tokens in cash with one revision each. `cash_shop`: two users opening,
closing and switching registers without money; one drawer with all its money;
transfers between two shops; a transfer that is asked for while its register is created and switched and
sales change. `followup_delivery`: two threads and a failure while the customer is silent; one thread
while the customer writes. `vendor_orders`: an order alone with everything that
can happen to it; an order paid twice; an order that replaces another.
`subscription_billing`: one plan change and one payment with everything; two plan changes;
two payments of one change; one plan change, one payment and changing prices. TLC
explores every state in scope and checks the states one step beyond it without
continuing from them; the liveness properties of `vendor_orders` and
`subscription_billing` are checked on the behaviours that stay in scope. In `vendor_orders`, expiry, retries and an abort meet
the webhook, but not one another. The theorems have no scope.

**Symmetry.** Workers (and in `CashDrawers` sessions and transfers) are
interchangeable: no definition names one or applies `CHOOSE` to them, and no
property under symmetry is a liveness property. The threads of `FollowupOutbox` are
permuted in `followup_delivery` only, nothing in `vendor_orders` and `subscription_billing`, which have liveness properties. Sales are not permuted: the default `sale` of an
idle form is a chosen one, and the scope names one.
Products are not symmetric: their ids order the locks.

**Fairness and deadlock.** Three runs assume fairness. In `followup_settling` the threads
run `while True: _run_once(); sleep()`, so each keeps taking steps (`Works`), and the clock
moves on (`Tick`). Failures need no fairness and are bounded by `MaxFaults`, which is what makes
"eventually" meaningful: a process that dies in every cycle settles nothing.
`Reload`, operators, customers and the cron job are not fair. `ClaimsAreSettled` speaks of
claims whose lease ends within `MaxClock`, since later ones have no time left
to be recovered. In `vendor_orders`, `Continues` says that a request which has begun goes on
(a thread of the server runs its handler to its end; `Abort`, bounded by `MaxFaults`, is not fair),
and the strong fairness of `Fetch` says that the provider repeats the notice of an approved
payment until it is answered with a 200, which is why a refused webhook answers 400 and
keeps no event. `subscription_billing` assumes the same of requests and notices; paid
periods need not run out. Nothing says that a customer pays, cancels or retries. The other runs
promise only that bad things do not happen: a
request may always fail. TLC's deadlock check is on wherever some request can always start,
commit or roll back; the runs of `VendorOrders` and `SubscriptionBilling` switch it off: a shop without
a unit or a quote left, or a company whose periods have run out, has nothing more to do. Deadlocks *inside* the database, which PostgreSQL resolves by
aborting a victim, appear as rollbacks; that sorted requests cannot cause one
among themselves is `OrderedRequestsNeverDeadlock`.

## What is proved

All theorems hold for any finite numbers of branches, products and transfers
and for any sets of workers, sales, sessions, registers and subscriptions, under the named
assumptions of the modules: `Nobody` is not a worker (nor a row), product ids are
naturals, quantities and opening balances are naturals, each register stands in
a branch, amounts are positive. The bounds of exploration are constants of the
same specifications; the theorems hold for every value of them.

* **`BranchInventoryProofs`**: `TypeCorrect`, `StockNeverNegative`,
  `LedgerIsComplete`, `StagingIsCurrent`, `AggregateIsSum`,
  `NoDeadlockBetweenOrderedRequests`, and `ImplementsSerial`, the refinement.
  None of the stated invariants is inductive alone. `StockInv` adds the link
  between a transaction and its locks: the products a worker has finished with
  are those whose row it holds, and for exactly these the staged rows agree with
  the committed stock (`StagedIsCurrent`). A commit of one worker changes only products it
  holds, so it cannot disturb what another has staged; that is the whole reason
  the committed ledger stays right. The refinement follows: at commit, staged =
  committed + delta for each product of the request, so COMMIT is one `Serve`
  step and any other step a stutter. Absence of deadlock needs `LocksInOrder` (a
  sorted request holds only ids below those it still wants): in a group,
  whoever holds the largest id the group waits for can only wait for a larger one.
* **`SaleLifecycleProofs`** carries the same argument through the sale actions:
  `SaleTypeCorrect`, `SalesNeverOversell`, `SalesKeepLedger`,
  `StockFollowsEverySale`, `AnnulmentIsFinal`, `TokenBuysOneSale`. `SaleInv` says
  which copy of a sale a form holds and that a form whose revision is still the
  current one has seen the current lines. `SalesStageCurrentRows`, `SalesKeepAggregate`
  and `CheckoutsNeverDeadlock` carry over what the branch inventory promises of its
  own requests: the product locks are taken by the same steps whoever runs them, so the
  lemmas are shared (`TransactionsKeepOrder`, `OrderPreventsCircles`). Absence of deadlock
  is claimed for requests that lock their products in increasing order, as checkouts do.
* **`SaleLedgerProofs`** goes on to what a sale leaves in the treasury ledger:
  `NoPostingTwice`, `TreasuryFollowsEverySale`, and in the branch: `NoUnitIsLost`. A posting is
  reversed in two ways, and the difference is the argument: an edit reverses and
  commits in one step, an annulment writes its reversals, waits for product locks and
  commits later, while another change of the sale may commit. `LedgerInv` therefore says
  that each posting is of a committed revision and reversed at most once
  (`OneInForce`), that what an open annulment has staged is still in force, staged by
  nobody else, and complete if the sale has not changed since it was read
  (`StagedReversals`), and that a confirmed sale nobody raced has exactly the posting of
  its last revision in force (`Settled`). `NoUnitIsLost` needs a sum: what the branches lack
  is what the sales hold, and a change moves one entry of each; `EveryUnitIsAccounted` is
  the form that holds through races: there the stock follows the movements charged to a sale,
  which its lines may no longer match. `OnlyRacesTouchAnnulledSales` is the complement of
  finding 1 below: only a change that loaded the sale before it was annulled moves any of
  its lines, stock, cash or postings afterwards, and the sale counts as raced from then on.
  `SalesAreServedWhole` shows that the whole sale lifecycle, with its forms, retries and
  staged ledger, refines `SerialInventory`: each commit serves one request for stock.
* **`CashDrawersProofs`**: `CashTypeCorrect`, `RegisterHasOneSession`,
  `OpenSessionsStandOnActiveRegisters`, `TransferredCashIsAccounted`,
  `DrawersMoveOnlyWhileOpen`, `ClosingsCountTheirDrawer`,
  `DispatchesNeverOverdraw`, `BranchHasOneDefault`, `OnlyEarlyPagesReachClosings`, and
  `HandlersAreServedWhole`, the refinement of `SerialCash`. The invariant `CashInv` says, for each handler, which
  locks it holds at its step (`Holds`) and what it still knows because of them
  (`KnowsSession`, `KnowsTransfer`, `KnowsRegister`). The interesting case is a
  register picked as default: its holder has the branch, not the register, so
  somebody may switch that register meanwhile. It is safe because the default
  register cannot be switched off and the flag only moves under the branch lock.
  `OthersUndisturbed` is the frame: a commit that leaves alone the rows another
  handler has locked leaves its knowledge true. The refinement needs more (`ServingInv`):
  a reopening keeps its closed session locked, so its money is still what was counted
  (`KnowsClosed`); a handler that is about to create the first register of a branch holds the
  branch, so there is still none (`KnowsNoDefault`); and a reading of the drawer is at most
  wrong in the cash of its sales, which only a change of a sale touches without the lock
  (`KnowsReading`; without "change" in `Workload` it is exact). Of the register a transfer is asked for, its
  handler knows at the commit only that it exists (`KnowsRegister`), which is why `SerialCash` has
  its third exception. Each commit is then one action
  of `SerialCash`, everything before it a stutter. `DrawersMoveOnlyWhileOpen` is a
  consequence a reader may want on its own; no run checks it since the refinement says
  more. `BranchHasOneDefault` is what the index `uq_cash_registers_default_branch` demands: the
  handlers that set the flag all hold the branch, so the index never refuses a commit.
  `OnlyEarlyPagesReachClosings` is the complement of finding 2: a closed session keeps its
  closing and gets no movement, sale or transfer, except from a movement or a closing whose
  request had loaded the session before it was closed. Its invariant is `FreshInv`: a request
  that reads the session under the lock has seen it open, and the lock keeps it open
  (`LockKeepsSession`) until the commit.
* **`SumLemmas`** proves, by minimal counterexample over finite sets, what the
  sums of the library do (integer, natural, unchanged, shifted by one entry, without
  one member, without the members that are zero).

* **`FollowupOutboxProofs`**: `OutboxTypeCorrect` and `RemindersHaveOneLiveRow` hold of
  all reminders, however outdated copies overwrite newer ones: each
  copy anybody holds is itself an outbox with one live row per reminder
  (`Agreeing`), and the planner appends only what its own copy lacks
  (`Sound`). `RemindersAreSentOnce`, `HistoryFollowsOutbox`,
  `UncertainIsReconciled`, `HandoffStopsReminders` and `OutboxKeepsPromise` speak of the
  reminders that no late save has touched (`Intact`), in behaviours with any number of late saves;
  findings 3 and 5 show what the code loses beside them. `SendInv` is the
  argument: a worker between its claim and the record of the outcome is the only
  one for its reminder, the row still says "sending" or "uncertain" (a lease may
  expire under it, never return the row to the queue), and its step tells what the
  provider has accepted. Every other step is `Quiet`: it tries, settles and records
  nothing for a reminder that stays intact, because a save that would change its tries
  has put it into `undone`. `HandoffStopsReminders` and `OutboxKeepsPromise`,
  the refinement of `ReminderPromise`, add `HandoffInv`: while the conversation says it is an
  operator's, every pending row is due later than the time at which any pass under way began,
  because the handoff blocked the others and a rejected reminder comes back only after its
  back-off; so no pass can claim it. With the claim settled, each step is one step of
  the promise or a stutter.

* **`VendorOrdersProofs`**: `OrdersTypeCorrect`, `OrdersAreSoldOnce`,
  `QuotesKnowTheirSale`, `PaymentsMatchSales`, from
  the invariant `OrdersInvariant`, for any quotes, owners, payments and finite set of workers.
  `OrdersInv` adds to the stated properties what the handlers rely on: a quote exists
  exactly when it has a payment row (`RowsFollowQuote`), a payment is for a quote with a
  checkout (`ChargesAreLinked`), what a job has read was once true (`JobsAreSound`), a
  retry that was admitted has its row reserved (`RoomForRetries`), so concurrent
  retries stay within `MaxRows`. The argument: a quote that is not sold has no approved row and no
  sale, so a webhook whose copy was current adds the first of both; a webhook
  whose copy was not adds the quote to `overtaken`, and only then may an approval be
  lost or a second sale appear.

* **`SubscriptionBillingProofs`**: `BillingTypesCorrect`, `OnePlanAtATime`,
  `NoFreePeriods`, `PaidAccessIsKept`, from the invariant `BillingInvariant`, for any
  numbers of subscriptions and workers and any finite set of payments. `BillingInv` says what
  old copies may still be trusted for: a row that waits for payment now waited when it was
  loaded (rows never go back to waiting), and a copy has no more periods ahead than
  payments applied by now (`CopyIsSound`). So `Flush` never brings a closed plan
  change back to life, and a renewal computed from an old copy adds its one period to a
  number the payments cover. `LockIsHeld` says that the request with the company's lock still
  knows the only waiting change when it replaces it; without the lock two changes would
  wait. `Grows` is the frame shared by all steps: rows stay, payments keep their
  subscription, an approved payment is at most refunded. `PaidAccessIsKept` then goes
  through the six steps that write a subscription.

Model-checked only: the liveness properties `ClaimsAreSettled`,
`PaymentsAreSettled` and `PaymentsAreAnswered`. Every invariant and action property that a
passing run checks is stated by a theorem. Out of the prover's reach, and so left to TLC wherever they appear:
liveness, `ENABLED`, induction over data and recursive operators. None of the
modules declares a recursive operator.

## Where the code and its comments disagree

1. **A cancelled sale is not immutable** (`CancelledSaleIsImmutable`).
   `SaleService.update_sale` refuses a cancelled sale, and says "A cancelled sale is immutable" about it,
   but it looks at the copy the route loaded before it waits for the product
   locks. An annulment that commits while the edit waits is not seen: the edit
   then changes the lines, stock and drawer of an annulled sale. The status
   stays annulled (`AnnulmentIsFinal`) and no posting doubles (`NoDoublePosting`).
   Nothing else changes an annulled sale (`OnlyRacesTouchAnnulledSales`).
2. **A closed session does not keep its closing** (`ClosedSessionKeepsItsClosing`).
   `cash.py` locks the session "so two computers cannot close/reopen/void the
   same session concurrently", but the open session of the user is already loaded when it is locked
   and a locking query does not refresh a loaded object. A second closing that
   waited for the first overwrites the counted amount; a movement is still added
   after the closing.

3. **A reminder escapes a handoff** (`NoReminderDuringHandoff`).
   `followup_service.py` says "A queued reminder must not escape after an operator has
   taken over". The planner reads a conversation, an operator takes it over, and
   the planner saves the metadata it had read with its new reminder appended: the
   takeover is gone and the same cycle claims the reminder. In the same way a copy that a planner, a webhook
   or the order page read before a claim and saves after it turns the claimed row
   back into a pending one, and the reminder is sent twice: that is what the exception `undone` of
   `SentOnce` and its neighbours stands for.
4. **A late approval sells an order a second time** (`ManualConversionWins`).
  `webhook_service.py` says "A manual POS conversion wins the order lifecycle" and that a late
  approval must not recreate the sale; `sales.py` says that any late webhook
  "must see the converted quote". The webhook loads the quote before it waits for its lock. A cashier
  who converts the quote in between is not seen, the two sales have different
  `client_txn_id`s, and stock is taken twice. `OneSalePerQuote` holds for every order
  no webhook has overtaken in this way.

5. **A price brings the same reminders again** (`FewPerCycle`).
   `AI_THIRD_PHASE_FOLLOWUPS.md` says "Máximo: 2 recordatorios por ciclo de actividad." and that a new
   message of the customer begins a new cycle. The key of a reminder also hashes the prices of the
   cart, so a price or a promotion that changes during the silence makes a new key:
   the reminders already sent are not found and are queued and sent again.

All quote their lines in `PROJECT.json` under `findings`. Some properties have an
exception for another thing the code lets happen, without claiming otherwise:
two edits of one sale that start from the same copy both reverse its lines
(`raced`); an edit of a sale rewrites the cash of a session that is being
closed (`ChangedSinceRead`); a transfer is asked for to a register that was switched off
after it was looked up (`SerialCash`); and an AI order that is paid, but whose notice has not come,
can be replaced by the next one (`CancelSuperseded` asks for orders without a sale), after which its
notice is refused for ever: `PaymentsAreSettled` excepts cancelled orders for that reason.

**Subscriptions.** The properties of `SubscriptionBilling` hold as stated; where the code
departs from one of its comments, the property names the exception, and the list here says
where to look. No run claims these as violations.

* `cancel_checkout()` promises "Cancela solo el checkout pendiente sin cancelar una
  suscripción ya paga." It decides on a row read before its command locks: a payment that
  activates the row in between is overwritten with "cancelled" (`Overtakes`). In the same
  way a rejected notice, processed on a copy that still waits, expires a row that another payment
  has just activated.
* A plan change paid while the plan in force is overdue is itself the current row, so the
  renewal does not close the old one, which is still stored as active; the check for a single
  active subscription then refuses the payment each time it is notified (`Blocked`).
* A "cancelled" notice of a payment cancels the active, paid subscription at once
  (`Revokes`), next to a comment that "A failed attempt to charge the next period must not
  revoke an already-paid active period."
* The payment is read without a lock, so two notices of one payment can both find it
  not yet applied. Only the key of the renewal command keeps the second from granting a period,
  which is what the mutant of `PeriodsArePaid` removes.
* Replacing a pending change looks for a payment in progress by the id of the preference; the
  webhook stores the id of the payment over it, so none is found. The payment of the replaced
  change is then refunded when it arrives.
* A notice that changes nothing about an applied payment, but comes after its subscription was closed
  for a later plan change, refunds the payment (`Refunds` does not look at what was recorded).

* An approved payment whose plan got another price after its link was made is recorded as rejected
  and a subscription that waits for it expires: no period and, even if the checkout was closed
  meanwhile, no refund (`TurnedAway`). A test expects it of a wrong amount
  (`test_webhook_approved_amount_mismatch_does_not_activate_subscription`). `ensure_defaults()` leaves prices
  to the superadmin; the form for it (`saas.index()`) uses `plan` without setting it in this version,
  so here a price changes in the database.

## What is not modelled and what the models leave out

* Prices, discounts, taxes, quantities in thousandths, names, notices, exports,
  audit rows: no property depends on them. `validate_stock_quantity` is a
  parser of amounts.
* `cancel_sale` and `delete_sale` of `SaleService` have no reachable caller for
  a confirmed sale.
* The row lock of `branch_stock` is only asked for by the holder of its product
  lock and never waits. The share locks of foreign keys are not modelled.
* The lock of the cash session inside a checkout is in `CashDrawers`, not in
  `SaleLifecycle`; the two modules meet in `CommitSale` and `ChangeSale`, which
  stand for what `SaleLifecycle` details.
* In `CashDrawers`: sessions without a register, registers assigned to users, the
  idempotency key of the transfer form, owner and card movements.
* In `FollowupOutbox`: one conversation (each has its own row and lock); the cut of
  finished rows beyond 50; the limit of sends per pass; texts and templates;
  `mark_sent` and `mark_failed`, which nothing calls. The back-off is one
  constant, where the code doubles it up to six hours. Commands of the customer are
  represented by those that change the cart.
* In `VendorOrders`: every order asks for one unit of one product; the provider's
  "authorized" status; refunds; the texts the customer gets. The event key holds the
  payment and its status only.
* In `SubscriptionBilling`: the move of a subscription to another plan by the superadmin (the notices
  of its older links would fail the validation of the plan), monthly preapprovals, the renewing checkout of the plan in
  force, cancelling and reactivating by the customer or by an administrator, manual
  subscriptions, chargebacks and refunds in progress, invoices and commissions, the
  subscription of the AI add-on, and reconciliation with the provider. Dates are only
  ordered. A cancellation that touches nothing but the metadata could commit between the insert of a
  new payment and its commit; the model lets it come before or after.
* The components of the last row of the inventory: pure calculation,
  presentation, file and printer I/O, natural language over external models.
* POS QR, the other flows of the webhook, the cleanup of old quotes and referrals are in the
  plan.

## Plan

Done, in this order because everything that sells ends in it: `StockRequests`,
`SerialInventory`, `BranchInventory` and its refinement; `SaleLifecycle`;
`CashDrawers`; the proofs of the three; `ReminderPromise` and `FollowupOutbox`;
`VendorOrders` with its quotes and its webhook; the proofs of both;
`SubscriptionBilling` and its proofs; the ledger, units and deadlocks of sales;
`SerialCash` and the proof that the cash desk implements it.

Next, most important first:

1. **The rest of the subscriptions**: renewing checkouts, monthly preapprovals and the
   reconciliation, which meet the notices modelled here in the same rows.
2. **POS QR** (payment against sale) and the cleanup of quotes.
3. **Purchases** with their own annulment and the remaining treasury movements.
4. **Referrals**.
5. Proofs: that `VendorOrders` and `SubscriptionBilling` implement abstract specifications
   of an order and of a paid period, as stock, cash and reminders already do.
