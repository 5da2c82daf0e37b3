------------------------- MODULE FollowupOutboxProofs -------------------------
(***************************************************************************)
(* Theorems about FollowupOutbox, in layers: types; one live row of each   *)
(* reminder, whatever copies are saved; for the reminders whose row no     *)
(* late save has replaced, that they are sent once, that the history       *)
(* follows the outbox and that an unknown outcome is not retried; that no  *)
(* reminder is claimed while the conversation is an operator's; and that   *)
(* the outbox refines ReminderPromise.                                     *)
(***************************************************************************)
EXTENDS FollowupOutbox, FiniteSetTheorems, TLAPS

Holding == {"calling", "accepted", "ambiguous", "rejected"}
Keyed   == Holding \cup {"queued"}

TypeInv ==
  /\ TypeOK
  /\ turn.open => latest < MaxMessages
  /\ \A w \in Workers : task[w].step \in Keyed => task[w].key \in Keys

--------------------------------------------------------------------------------
(* Types *)

\* What the rewriting of rows returns is again an outbox.
LEMMA RowsTyped ==
  ASSUME NEW rows \in SUBSET Rows, NEW k \in Keys, NEW s \in Statuses,
         NEW t \in 0..(MaxClock + Backoff), NEW ks, NEW S
  PROVE  /\ Row(k, s, t) \in Rows
         /\ Row(k, s, 0) \in Rows
         /\ Discard(rows, ks) \in SUBSET Rows
         /\ Rewrite(rows, k, S, Row(k, s, t)) \in SUBSET Rows
         /\ Rewrite(rows, k, S, Row(k, s, 0)) \in SUBSET Rows
<1>1. 0 \in 0..(MaxClock + Backoff)
  BY DelaysAssumption, BoundsAssumption
<1>2. \A j \in Keys : Row(j, s, 0) \in Rows /\ Row(j, s, t) \in Rows
  BY <1>1 DEF Row, Rows
<1>3. \A r \in rows : r \in Rows /\ r.key \in Keys
  BY DEF Rows
<1>4. Discard(rows, ks) \in SUBSET Rows
  BY <1>1, <1>3 DEF Discard, Row, Rows, Statuses
<1>5. Rewrite(rows, k, S, Row(k, s, t)) \in SUBSET Rows
  BY <1>2 DEF Rewrite
<1>6. Rewrite(rows, k, S, Row(k, s, 0)) \in SUBSET Rows
  BY <1>2 DEF Rewrite
<1> QED BY <1>2, <1>4, <1>5, <1>6

LEMMA MetadataTyped ==
  ASSUME NEW m \in Metadata, NEW c \in Carts,
         NEW a \in {"ai", "requested", "taken", "resolved"}
  PROVE  /\ [m EXCEPT !.attention = a] \in Metadata
         /\ [m EXCEPT !.cart = c] \in Metadata
         /\ Attend(m, a) \in Metadata
         /\ m.rows \in SUBSET Rows /\ m.cart \in Carts
<1>1. /\ m.rows \in SUBSET Rows /\ m.cart \in Carts
      /\ m.attention \in {"ai", "requested", "taken", "resolved"}
      /\ m = [attention |-> m.attention, cart |-> m.cart, rows |-> m.rows]
  BY DEF Metadata
<1>2. 0 \in 0..(MaxClock + Backoff)
  BY DelaysAssumption, BoundsAssumption
<1>3. BlockPending(m) \in SUBSET Rows
  BY <1>1, <1>2 DEF BlockPending, Discard, Row, Rows, Statuses
<1>4. ASSUME NEW B \in SUBSET Rows
      PROVE  [m EXCEPT !.attention = a, !.rows = B] \in Metadata
  BY <1>1 DEF Metadata
<1>5. Attend(m, a) \in Metadata
  BY <1>3, <1>4 DEF Attend
<1> QED BY <1>1, <1>5 DEF Metadata

\* The tasks that handlers start and go back to.
LEMMA TasksTyped ==
  ASSUME TypeInv
  PROVE  /\ NoCopy \in Metadata /\ NoKey \notin Keys
         /\ Idle \in Tasks /\ Idle.step \notin Keyed
         /\ \A w \in Workers : Ended(w) \in Tasks /\ Ended(w).step \notin Keyed
         /\ \A b \in BOOLEAN : Scanning(b) \in Tasks /\ Scanning(b).step \notin Keyed
         /\ \A w \in Workers : Planned(w) \in Tasks /\ Planned(w).step \notin Keyed
         /\ Closed \in Pages /\ Opened \in Pages
<1>1. NoCopy \in Metadata
  BY CartsAssumption DEF NoCopy, Metadata
<1>2. NoKey \notin Keys
  BY DEF NoKey, Keys
<1>3. /\ 0 \in 0..MaxClock /\ 0 \in 0..MaxMessages
  BY BoundsAssumption
<1>4. Idle \in Tasks /\ Idle.step \notin Keyed
  BY <1>1, <1>3, PricesAssumption DEF Idle, Tasks, Steps, Keyed, Holding
<1>5. \A w \in Workers : Ended(w) \in Tasks /\ Ended(w).step \notin Keyed
  BY <1>1, <1>3, PricesAssumption DEF Ended, Idle, Tasks, Steps, Keyed, Holding
<1>6. \A b \in BOOLEAN : Scanning(b) \in Tasks /\ Scanning(b).step \notin Keyed
  BY <1>1, <1>3, PricesAssumption DEF Scanning, Idle, Tasks, Steps, Keyed, Holding, TypeInv, TypeOK
<1>7. \A w \in Workers : task[w].bare \in BOOLEAN
  BY DEF TypeInv, TypeOK, Tasks
<1>8. \A w \in Workers : Planned(w) \in Tasks /\ Planned(w).step \notin Keyed
  BY <1>1, <1>3, <1>5, <1>7, PricesAssumption DEF Planned, Idle, Tasks, Steps, Keyed, Holding
<1>9. Closed \in Pages /\ Opened \in Pages
  BY <1>1 DEF Closed, Opened, Pages, TypeInv, TypeOK
<1> QED BY <1>1, <1>2, <1>4, <1>5, <1>6, <1>8, <1>9

LEMMA InitTyped == Init => TypeInv
<1> SUFFICES ASSUME Init PROVE TypeInv
  OBVIOUS
<1>1. meta \in Metadata
  BY DEF Init, Metadata
<1>2. 0 \in 0..MaxClock /\ 0 \in 0..MaxRequests /\ 0 \in 0..MaxFaults /\ 0 \in 0..MaxSends
      /\ 1 \in 1..MaxMessages /\ 0 \in 0..MaxMessages
  BY BoundsAssumption
<1>3. NoCopy \in Metadata
  BY CartsAssumption DEF NoCopy, Metadata
<1>4. Idle \in Tasks /\ Idle.step \notin Keyed
  BY <1>2, <1>3, PricesAssumption DEF Idle, Tasks, Steps, Keyed, Holding
<1>5. task \in [Workers -> Tasks] /\ \A w \in Workers : task[w].step \notin Keyed
  BY <1>4 DEF Init
<1>6. turn \in Pages /\ desk \in Pages /\ ~turn.open
  BY <1>3 DEF Init, Closed, Pages
<1>7. accepted \in [Keys -> 0..MaxSends] /\ audit \in [Keys -> Nat]
  BY <1>2 DEF Init
<1> QED BY <1>1, <1>2, <1>5, <1>6, <1>7, PricesAssumption DEF Init, TypeInv, TypeOK

\* What a save undoes are reminders.
LEMMA UndoesTyped ==
  ASSUME TypeInv, NEW m, undone' = undone \cup Undoes(m)
  PROVE  undone' \subseteq Keys
BY DEF Undoes, TypeInv, TypeOK

\* One task changes.
LEMMA BecomesTyped ==
  ASSUME TypeInv, NEW w \in Workers, NEW t \in Tasks,
         t.step \in Keyed => t.key \in Keys, Becomes(w, t)
  PROVE  /\ task' \in [Workers -> Tasks]
         /\ \A v \in Workers : task'[v].step \in Keyed => task'[v].key \in Keys
<1>1. task \in [Workers -> Tasks]
  BY DEF TypeInv, TypeOK
<1>2. task' \in [Workers -> Tasks]
  BY <1>1 DEF Becomes
<1>3. \A v \in Workers : task'[v] = IF v = w THEN t ELSE task[v]
  BY <1>1 DEF Becomes
<1> QED BY <1>2, <1>3 DEF TypeInv

LEMMA GotoTyped ==
  ASSUME TypeInv, NEW w \in Workers, NEW step \in Steps,
         step \in Keyed => task[w].step \in Keyed, Goto(w, step)
  PROVE  /\ task' \in [Workers -> Tasks]
         /\ \A v \in Workers : task'[v].step \in Keyed => task'[v].key \in Keys
<1>1. task[w] \in Tasks /\ (task[w].step \in Keyed => task[w].key \in Keys)
  BY DEF TypeInv, TypeOK
<1>2. [task[w] EXCEPT !.step = step] \in Tasks
  BY <1>1 DEF Tasks
<1>3. [task[w] EXCEPT !.step = step].step = step /\ [task[w] EXCEPT !.step = step].key = task[w].key
  BY <1>1 DEF Tasks
<1> QED BY <1>1, <1>2, <1>3, BecomesTyped DEF Goto

LEMMA ReleaseTyped ==
  ASSUME TypeInv, NEW w \in Workers, Release(w)
  PROVE  lock' \in Schedulers \cup {Nobody}
BY DEF Release, TypeInv, TypeOK

LEMMA PlanTyped ==
  ASSUME TypeInv, NEW w \in Workers, Plan(w)
  PROVE  TypeInv'
<1> USE DEF TypeInv
<1>1. task[w] \in Tasks /\ meta \in Metadata
  BY DEF TypeOK
<1>2. CASE PlanReminder(w)
  <2>1. /\ task[w].copy \in Metadata /\ task[w].copy.cart \in Carts \ {NoItems}
        /\ task[w].key \in Keys \cup {NoKey}
    BY <1>1, <1>2 DEF Tasks, PlanReminder, Metadata
  <2>2. Stage(w) \in {1, 2}
    BY DelaysAssumption DEF Stage
  <2>3. Reminder(w) \in Keys
    BY <2>1, <2>2 DEF Reminder, Keys, TypeOK
  <2> DEFINE t == [task[w] EXCEPT !.step = "queued", !.key = Reminder(w)]
  <2>4. t \in Tasks /\ t.key = Reminder(w)
    <3>1. ASSUME NEW k \in Keys
          PROVE  LET u == [task[w] EXCEPT !.step = "queued", !.key = k] IN u \in Tasks /\ u.key = k
      BY <1>1 DEF Tasks, Steps
    <3> QED BY <3>1, <2>3
  <2>5. Becomes(w, t)
    BY <1>2 DEF PlanReminder
  <2>6. /\ task' \in [Workers -> Tasks]
        /\ \A v \in Workers : task'[v].step \in Keyed => task'[v].key \in Keys
    <3> HIDE DEF t
    <3> QED BY <2>3, <2>4, <2>5, BecomesTyped
  <2> QED BY <1>2, <2>6 DEF PlanReminder, memory, world, TypeOK
<1>3. CASE PlanNothing(w)
  <2>1. Planned(w) \in Tasks /\ Planned(w).step \notin Keyed
    BY TasksTyped
  <2>2. /\ task' \in [Workers -> Tasks]
        /\ \A v \in Workers : task'[v].step \in Keyed => task'[v].key \in Keys
    BY <1>3, <2>1, BecomesTyped DEF PlanNothing
  <2> QED BY <1>3, <2>2 DEF PlanNothing, memory, world, TypeOK
<1>4. CASE SavePlan(w)
  <2>1. Planned(w) \in Tasks /\ Planned(w).step \notin Keyed
    BY TasksTyped
  <2>2. /\ task' \in [Workers -> Tasks]
        /\ \A v \in Workers : task'[v].step \in Keyed => task'[v].key \in Keys
    BY <1>4, <2>1, BecomesTyped DEF SavePlan
  <2>3. task[w].key \in Keys /\ task[w].copy \in Metadata
    BY <1>1, <1>4 DEF SavePlan, At, Keyed, Tasks
  <2>4. Row(task[w].key, "pending", 0) \in Rows
    BY <2>3, DelaysAssumption, BoundsAssumption DEF Row, Rows, Statuses
  <2>5. task[w].copy.rows \in SUBSET Rows
    BY <2>3 DEF Metadata
  <2>6. meta' = [task[w].copy EXCEPT !.rows = @ \cup {Row(task[w].key, "pending", 0)}]
    BY <1>4 DEF SavePlan
  <2>7. ASSUME NEW m \in Metadata, NEW r \in Rows
        PROVE  [m EXCEPT !.rows = @ \cup {r}] \in Metadata
    BY DEF Metadata
  <2>8. meta' \in Metadata
    BY <2>3, <2>4, <2>6, <2>7
  <2>9. undone' \subseteq Keys
    BY <1>4, UndoesTyped DEF SavePlan
  <2> QED BY <1>4, <2>2, <2>8, <2>9 DEF SavePlan, world, TypeOK
<1> QED BY <1>2, <1>3, <1>4 DEF Plan

\* Beginnings, failures and fresh reads.
LEMMA CyclesTyped ==
  ASSUME TypeInv,
         \/ \E s \in Schedulers : Begin(s) \/ Fault(s)
         \/ \E c \in Crons : BeginCron(c)
         \/ \E w \in Workers : Crash(w) \/ Reload(w)
  PROVE  TypeInv'
<1> USE DEF TypeInv
<1>1. ASSUME NEW s \in Schedulers, Begin(s)
      PROVE  TypeInv'
  <2>1. s \in Workers /\ Scanning(FALSE) \in Tasks /\ Scanning(FALSE).step \notin Keyed
    BY TasksTyped DEF Workers
  <2>2. /\ task' \in [Workers -> Tasks]
        /\ \A v \in Workers : task'[v].step \in Keyed => task'[v].key \in Keys
    BY <1>1, <2>1, BecomesTyped DEF Begin
  <2> QED BY <1>1, <2>2 DEF Begin, memory, world, TypeOK
<1>2. ASSUME NEW s \in Schedulers, Fault(s)
      PROVE  TypeInv'
  <2>1. s \in Workers /\ Scanning(TRUE) \in Tasks /\ Scanning(TRUE).step \notin Keyed
    BY TasksTyped DEF Workers
  <2>2. /\ task' \in [Workers -> Tasks]
        /\ \A v \in Workers : task'[v].step \in Keyed => task'[v].key \in Keys
    BY <1>2, <2>1, BecomesTyped DEF Fault
  <2>3. lock' \in Schedulers \cup {Nobody}
    BY <1>2, <2>1, ReleaseTyped DEF Fault
  <2>4. faults' \in 0..MaxFaults
    BY <1>2, BoundsAssumption DEF Fault, TypeOK
  <2> QED BY <1>2, <2>2, <2>3, <2>4 DEF Fault, memory, world, TypeOK
<1>3. ASSUME NEW c \in Crons, BeginCron(c)
      PROVE  TypeInv'
  <2>1. c \in Workers /\ Scanning(FALSE) \in Tasks /\ Scanning(FALSE).step \notin Keyed
    BY TasksTyped DEF Workers
  <2>2. /\ task' \in [Workers -> Tasks]
        /\ \A v \in Workers : task'[v].step \in Keyed => task'[v].key \in Keys
    BY <1>3, <2>1, BecomesTyped DEF BeginCron
  <2> QED BY <1>3, <2>2 DEF BeginCron, memory, world, TypeOK
<1>4. ASSUME NEW w \in Workers, Crash(w)
      PROVE  TypeInv'
  <2>1. Ended(w) \in Tasks /\ Ended(w).step \notin Keyed
    BY TasksTyped
  <2>2. /\ task' \in [Workers -> Tasks]
        /\ \A v \in Workers : task'[v].step \in Keyed => task'[v].key \in Keys
    BY <1>4, <2>1, BecomesTyped DEF Crash
  <2>3. lock' \in Schedulers \cup {Nobody}
    BY <1>4, ReleaseTyped DEF Crash
  <2>4. faults' \in 0..MaxFaults
    BY <1>4, BoundsAssumption DEF Crash, TypeOK
  <2> QED BY <1>4, <2>2, <2>3, <2>4 DEF Crash, memory, world, TypeOK
<1>5. ASSUME NEW w \in Workers, Reload(w)
      PROVE  TypeInv'
  <2> DEFINE t == [task[w] EXCEPT !.copy = meta]
  <2>1. t \in Tasks /\ t.step \notin Keyed
    BY <1>5 DEF Tasks, TypeOK, Reload, At, Keyed, Holding
  <2>2. /\ task' \in [Workers -> Tasks]
        /\ \A v \in Workers : task'[v].step \in Keyed => task'[v].key \in Keys
    <3>1. Becomes(w, t)
      BY <1>5 DEF Reload
    <3> HIDE DEF t
    <3> QED BY <2>1, <3>1, BecomesTyped
  <2> QED BY <1>5, <2>2 DEF Reload, memory, world, TypeOK
<1> QED BY <1>1, <1>2, <1>3, <1>4, <1>5

\* The outbox is rewritten under the lock and nothing else of the column changes.
LEMMA RowsSaved ==
  ASSUME TypeInv, NEW X \in SUBSET Rows, meta' = [meta EXCEPT !.rows = X]
  PROVE  /\ meta' \in Metadata
         /\ meta'.rows = X /\ meta'.attention = meta.attention /\ meta'.cart = meta.cart
BY DEF TypeInv, TypeOK, Metadata

LEMMA ListingTyped ==
  ASSUME TypeInv, NEW w \in Workers,
         \/ List(w) \/ Recover(w) \/ NothingToRecover(w)
         \/ SkipPass(w) \/ DropPass(w) \/ OpenPass(w)
  PROVE  TypeInv'
<1> USE DEF TypeInv
<1>1. /\ task[w] \in Tasks /\ meta \in Metadata /\ meta.rows \in SUBSET Rows
      /\ task[w].copy \in Metadata /\ task[w].copy.rows \in SUBSET Rows
  BY DEF TypeOK, Tasks, Metadata
<1>2. Due(w) \in SUBSET Keys
  BY <1>1 DEF Due, Rows
<1>3. CASE List(w)
  <2> DEFINE t == [task[w] EXCEPT !.step = "listed", !.now = clock, !.copy = meta]
  <2>1. t \in Tasks /\ t.step = "listed"
    BY <1>1 DEF Tasks, Steps, TypeOK
  <2>2. Becomes(w, t)
    BY <1>3 DEF List
  <2>3. /\ task' \in [Workers -> Tasks]
        /\ \A v \in Workers : task'[v].step \in Keyed => task'[v].key \in Keys
    <3>1. t.step \notin Keyed
      BY <2>1 DEF Keyed, Holding
    <3> HIDE DEF t
    <3> QED BY <2>1, <2>2, <3>1, BecomesTyped
  <2> QED BY <1>3, <2>3 DEF List, memory, world, TypeOK
<1>4. CASE Recover(w)
  <2> DEFINE X == {IF Expired(w, r) THEN Row(r.key, "uncertain", 0) ELSE r : r \in meta.rows}
  <2>1. X \in SUBSET Rows
    <3>1. 0 \in 0..(MaxClock + Backoff)
      BY DelaysAssumption, BoundsAssumption
    <3>2. ASSUME NEW r \in meta.rows
          PROVE  (IF Expired(w, r) THEN Row(r.key, "uncertain", 0) ELSE r) \in Rows
      BY <1>1, <3>1 DEF Row, Rows, Statuses
    <3> QED BY <3>2
  <2>2. meta' = [meta EXCEPT !.rows = X]
    BY <1>4 DEF Recover
  <2>3. meta' \in Metadata
    <3> HIDE DEF X
    <3> QED BY <2>1, <2>2, RowsSaved
  <2> DEFINE t == [task[w] EXCEPT !.step = "screening", !.copy = meta']
  <2>4. t \in Tasks /\ t.step = "screening"
    BY <1>1, <2>3 DEF Tasks, Steps
  <2>5. Becomes(w, t)
    BY <1>4 DEF Recover
  <2>6. /\ task' \in [Workers -> Tasks]
        /\ \A v \in Workers : task'[v].step \in Keyed => task'[v].key \in Keys
    <3>1. t.step \notin Keyed
      BY <2>4 DEF Keyed, Holding
    <3> HIDE DEF t
    <3> QED BY <2>4, <2>5, <3>1, BecomesTyped
  <2> QED BY <1>4, <2>3, <2>6 DEF Recover, world, TypeOK
<1>5. CASE NothingToRecover(w)
  <2>1. /\ task' \in [Workers -> Tasks]
        /\ \A v \in Workers : task'[v].step \in Keyed => task'[v].key \in Keys
    BY <1>5, GotoTyped DEF NothingToRecover, Steps, Keyed, Holding
  <2> QED BY <1>5, <2>1 DEF NothingToRecover, memory, world, TypeOK
<1>6. ASSUME EndPass(w)
      PROVE  /\ task' \in [Workers -> Tasks] /\ lock' \in Schedulers \cup {Nobody}
             /\ \A v \in Workers : task'[v].step \in Keyed => task'[v].key \in Keys
  BY <1>6, TasksTyped, BecomesTyped, ReleaseTyped DEF EndPass
<1>7. CASE SkipPass(w)
  BY <1>6, <1>7 DEF SkipPass, memory, world, TypeOK
<1>8. Discard(meta.rows, Due(w)) \in SUBSET Rows
  <2>1. 0 \in 0..(MaxClock + Backoff)
    BY DelaysAssumption, BoundsAssumption
  <2> QED BY <1>1, <2>1 DEF Discard, Row, Rows, Statuses
<1>9. CASE DropPass(w)
  <2>1. meta' \in Metadata
    BY <1>8, <1>9, RowsSaved DEF DropPass
  <2> QED BY <1>6, <1>9, <2>1 DEF DropPass, world, TypeOK
<1>10. CASE OpenPass(w)
  <2> DEFINE c == [NoCopy EXCEPT !.cart = task[w].copy.cart]
             t == [task[w] EXCEPT !.step = "items", !.todo = Due(w), !.anchor = latest,
                                  !.price = price, !.copy = c]
  <2>1. c \in Metadata
    BY <1>1, TasksTyped DEF Metadata
  <2>2. latest \in 0..MaxMessages /\ price \in Prices
    BY BoundsAssumption DEF TypeOK
  <2>3. t \in Tasks /\ t.step = "items"
    <3> HIDE DEF c
    <3> QED BY <1>1, <1>2, <2>1, <2>2 DEF Tasks, Steps
  <2>4. Becomes(w, t)
    BY <1>10 DEF OpenPass
  <2>5. /\ task' \in [Workers -> Tasks]
        /\ \A v \in Workers : task'[v].step \in Keyed => task'[v].key \in Keys
    <3>1. t.step \notin Keyed
      BY <2>3 DEF Keyed, Holding
    <3> HIDE DEF t
    <3> QED BY <2>3, <2>4, <3>1, BecomesTyped
  <2> QED BY <1>10, <2>5 DEF OpenPass, memory, world, TypeOK
<1> QED BY <1>3, <1>4, <1>5, <1>7, <1>9, <1>10

LEMMA ItemsTyped ==
  ASSUME TypeInv, NEW w \in Workers,
         \/ \E k \in Keys : OutdatedItem(w, k) \/ ClaimItem(w, k) \/ LoseItem(w, k)
         \/ Finish(w)
  PROVE  TypeInv'
<1> USE DEF TypeInv
<1>1. /\ task[w] \in Tasks /\ meta \in Metadata /\ meta.rows \in SUBSET Rows
      /\ task[w].todo \in SUBSET Keys /\ task[w].now \in 0..MaxClock
  BY DEF TypeOK, Tasks, Metadata
<1>2. 0 \in 0..(MaxClock + Backoff) /\ task[w].now \in 0..(MaxClock + Backoff)
  BY <1>1, DelaysAssumption, BoundsAssumption
<1>3. ASSUME NEW k \in Keys
      PROVE  Discard(meta.rows, {k}) \in SUBSET Rows
  BY <1>1, <1>2 DEF Discard, Row, Rows, Statuses
<1>4. ASSUME NEW k \in Keys, At(w, "items"), Becomes(w, [task[w] EXCEPT !.todo = @ \ {k}])
      PROVE  /\ task' \in [Workers -> Tasks]
             /\ \A v \in Workers : task'[v].step \in Keyed => task'[v].key \in Keys
  <2> DEFINE t == [task[w] EXCEPT !.todo = @ \ {k}]
  <2>1. t \in Tasks /\ t.step = "items"
    BY <1>1, <1>4 DEF Tasks, At
  <2>2. t.step \notin Keyed
    BY <2>1 DEF Keyed, Holding
  <2>3. Becomes(w, t)
    BY <1>4
  <2> HIDE DEF t
  <2> QED BY <2>1, <2>2, <2>3, BecomesTyped
<1>5. ASSUME NEW k \in Keys, OutdatedItem(w, k)
      PROVE  TypeInv'
  <2>1. meta' \in Metadata
    BY <1>3, <1>5, RowsSaved DEF OutdatedItem
  <2> QED BY <1>4, <1>5, <2>1 DEF OutdatedItem, world, TypeOK
<1>6. ASSUME NEW k \in Keys, LoseItem(w, k)
      PROVE  TypeInv'
  <2> DEFINE X == IF With(meta.rows, k, Blocking) # {} THEN Discard(meta.rows, {k})
                                                       ELSE meta.rows
  <2>1. X \in SUBSET Rows
    BY <1>1, <1>3
  <2>2. meta' = [meta EXCEPT !.rows = X]
    BY <1>6 DEF LoseItem
  <2>3. meta' \in Metadata
    <3> HIDE DEF X
    <3> QED BY <2>1, <2>2, RowsSaved
  <2> QED BY <1>4, <1>6, <2>3 DEF LoseItem, world, TypeOK
<1>7. ASSUME NEW k \in Keys, ClaimItem(w, k)
      PROVE  TypeInv'
  <2>1. Rewrite(meta.rows, k, {"pending"}, Row(k, "sending", task[w].now)) \in SUBSET Rows
    BY <1>1, <1>2 DEF Rewrite, Row, Rows, Statuses
  <2>2. meta' \in Metadata
    BY <1>7, <2>1, RowsSaved DEF ClaimItem
  <2> DEFINE t == [task[w] EXCEPT !.step = "calling", !.todo = @ \ {k}, !.key = k]
  <2>3. t \in Tasks /\ t.key = k
    BY <1>1 DEF Tasks, Steps
  <2>4. Becomes(w, t)
    BY <1>7 DEF ClaimItem
  <2>5. /\ task' \in [Workers -> Tasks]
        /\ \A v \in Workers : task'[v].step \in Keyed => task'[v].key \in Keys
    <3> HIDE DEF t
    <3> QED BY <2>3, <2>4, BecomesTyped
  <2> QED BY <1>7, <2>2, <2>5 DEF ClaimItem, world, TypeOK
<1>8. CASE Finish(w)
  <2>1. /\ task' \in [Workers -> Tasks] /\ lock' \in Schedulers \cup {Nobody}
        /\ \A v \in Workers : task'[v].step \in Keyed => task'[v].key \in Keys
    BY <1>8, TasksTyped, BecomesTyped, ReleaseTyped DEF Finish, EndPass
  <2> QED BY <1>8, <2>1 DEF Finish, memory, world, TypeOK
<1> QED BY <1>5, <1>6, <1>7, <1>8

LEMMA CallsTyped ==
  ASSUME TypeInv, NEW w \in Workers,
         \/ Accept(w) \/ Refuse(w) \/ MarkSent(w) \/ MarkFails(w)
         \/ MarkUncertain(w) \/ RecordFailure(w)
  PROVE  TypeInv'
<1> USE DEF TypeInv
<1>1. /\ task[w] \in Tasks /\ meta \in Metadata /\ meta.rows \in SUBSET Rows
      /\ clock \in 0..MaxClock
  BY DEF TypeOK, Tasks, Metadata
<1>2. task[w].step \in Keyed /\ task[w].key \in Keys
  BY DEF Accept, Refuse, MarkSent, MarkFails, MarkUncertain, RecordFailure, At, Keyed, Holding
<1>3. 0 \in 0..(MaxClock + Backoff) /\ NextAttempt \in 0..(MaxClock + Backoff)
  BY <1>1, DelaysAssumption, BoundsAssumption DEF NextAttempt
<1>4. ASSUME NEW step \in {"accepted", "ambiguous", "rejected"}, Goto(w, step)
      PROVE  /\ task' \in [Workers -> Tasks]
             /\ \A v \in Workers : task'[v].step \in Keyed => task'[v].key \in Keys
  BY <1>2, <1>4, GotoTyped DEF Steps
<1>5. ASSUME NextItem(w)
      PROVE  /\ task' \in [Workers -> Tasks]
             /\ \A v \in Workers : task'[v].step \in Keyed => task'[v].key \in Keys
  <2> DEFINE t == [task[w] EXCEPT !.step = "items", !.key = NoKey]
  <2>1. t \in Tasks /\ t.step = "items"
    BY <1>1 DEF Tasks, Steps
  <2>2. t.step \notin Keyed
    BY <2>1 DEF Keyed, Holding
  <2>3. Becomes(w, t)
    BY <1>5 DEF NextItem
  <2> HIDE DEF t
  <2> QED BY <2>1, <2>2, <2>3, BecomesTyped
<1>6. ASSUME NEW S, NEW s \in Statuses, NEW t \in {0, NextAttempt}
      PROVE  Rewrite(meta.rows, task[w].key, S, Row(task[w].key, s, t)) \in SUBSET Rows
  BY <1>1, <1>2, <1>3 DEF Rewrite, Row, Rows
<1>7. CASE Accept(w)
  <2>1. accepted' \in [Keys -> 0..MaxSends]
    BY <1>2, <1>7, BoundsAssumption DEF Accept, TypeOK
  <2> QED BY <1>4, <1>7, <2>1 DEF Accept, world, TypeOK
<1>8. CASE Refuse(w)
  BY <1>4, <1>8 DEF Refuse, memory, world, TypeOK
<1>9. CASE MarkSent(w)
  <2>1. meta' \in Metadata
    BY <1>6, <1>9, RowsSaved DEF MarkSent, Statuses
  <2>2. audit' \in [Keys -> Nat]
    BY <1>2, <1>9 DEF MarkSent, TypeOK
  <2> QED BY <1>5, <1>9, <2>1, <2>2 DEF MarkSent, world, TypeOK
<1>10. CASE MarkFails(w)
  BY <1>4, <1>10 DEF MarkFails, memory, world, TypeOK
<1>11. CASE MarkUncertain(w)
  <2>1. meta' \in Metadata
    BY <1>6, <1>11, RowsSaved DEF MarkUncertain, Statuses
  <2> QED BY <1>5, <1>11, <2>1 DEF MarkUncertain, world, TypeOK
<1>12. CASE RecordFailure(w)
  <2>1. meta' \in Metadata
    BY <1>6, <1>12, RowsSaved DEF RecordFailure, Statuses
  <2> QED BY <1>5, <1>12, <2>1 DEF RecordFailure, world, TypeOK
<1> QED BY <1>7, <1>8, <1>9, <1>10, <1>11, <1>12

LEMMA DeliverTyped ==
  ASSUME TypeInv, NEW w \in Workers, Deliver(w)
  PROVE  TypeInv'
BY ListingTyped, ItemsTyped, CallsTyped DEF Deliver

LEMMA PeopleTyped ==
  ASSUME TypeInv, People
  PROVE  TypeInv'
<1> USE DEF TypeInv
<1>1. /\ meta \in Metadata /\ turn \in Pages /\ desk \in Pages
      /\ turn.copy \in Metadata /\ desk.copy \in Metadata
      /\ Closed \in Pages /\ ~Closed.open /\ Opened \in Pages
  BY TasksTyped DEF TypeOK, Pages, Closed
<1>2. ASSUME NEW m \in Metadata, NEW c \in Carts, NEW a \in {"requested", "taken", "resolved"}
      PROVE  /\ Attend(m, a) \in Metadata
             /\ [m EXCEPT !.attention = "ai"] \in Metadata
             /\ [m EXCEPT !.cart = c] \in Metadata
  BY MetadataTyped
<1>3. NoItems \in Carts
  BY CartsAssumption
<1>4. CASE Take \/ Resolve \/ Resume
  <2>1. meta' \in Metadata /\ held' \in BOOLEAN
    BY <1>1, <1>2, <1>3, <1>4 DEF Take, Resolve, Resume, TypeOK
  <2> QED BY <1>4, <2>1 DEF Take, Resolve, Resume, world, TypeOK
<1>5. CASE OpenDesk \/ OpenTurn
  <2>1. requests' \in 0..MaxRequests
    <3>1. requests < MaxRequests /\ requests' = requests + 1
      BY <1>5 DEF OpenDesk, OpenTurn
    <3>2. requests \in 0..MaxRequests /\ MaxRequests \in Nat
      BY BoundsAssumption DEF TypeOK
    <3> QED BY <3>1, <3>2
  <2> QED BY <1>1, <1>5, <2>1 DEF OpenDesk, OpenTurn, memory, world, TypeOK
<1>6. CASE SaveDesk
  <2>1. meta' \in Metadata /\ held' \in BOOLEAN /\ undone' \subseteq Keys
    BY <1>1, <1>2, <1>3, <1>6, UndoesTyped DEF SaveDesk
  <2> QED BY <1>1, <1>6, <2>1 DEF SaveDesk, world, TypeOK
<1>7. CASE DropDesk \/ DropTurn
  BY <1>1, <1>7 DEF DropDesk, DropTurn, memory, world, TypeOK
<1>8. CASE TurnResumes
  <2>1. meta' \in Metadata /\ undone' \subseteq Keys
    BY <1>1, <1>2, <1>3, <1>8, UndoesTyped DEF TurnResumes
  <2>2. turn' \in Pages /\ turn'.open = turn.open
    BY <1>1, <1>8, <2>1 DEF TurnResumes, Pages
  <2>3. held' \in BOOLEAN
    BY <1>8 DEF TurnResumes, TypeOK
  <2> QED BY <1>8, <2>1, <2>2, <2>3 DEF TurnResumes, world, TypeOK
<1>9. CASE TurnReplies
  <2>1. latest' \in 1..MaxMessages /\ heardAt' \in 0..MaxClock
    BY <1>9, BoundsAssumption DEF TurnReplies, TypeOK
  <2> QED BY <1>1, <1>9, <2>1 DEF TurnReplies, memory, TypeOK
<1>10. CASE TurnChangesCart
  <2>1. latest' \in 1..MaxMessages /\ heardAt' \in 0..MaxClock
    BY <1>10, BoundsAssumption DEF TurnChangesCart, TypeOK
  <2>2. meta' \in Metadata /\ undone' \subseteq Keys
    BY <1>1, <1>2, <1>10, UndoesTyped DEF TurnChangesCart
  <2> QED BY <1>1, <1>10, <2>1, <2>2 DEF TurnChangesCart, TypeOK
<1> QED BY <1>4, <1>5, <1>6, <1>7, <1>8, <1>9, <1>10 DEF People

LEMMA NextTyped == TypeInv /\ [Next]_vars => TypeInv'
<1> SUFFICES ASSUME TypeInv, [Next]_vars PROVE TypeInv'
  OBVIOUS
<1>1. CASE Tick
  <2>1. clock' \in 0..MaxClock
    BY <1>1, BoundsAssumption DEF Tick, TypeInv, TypeOK
  <2> QED BY <1>1, <2>1 DEF Tick, memory, TypeInv, TypeOK
<1>2. CASE UNCHANGED vars
  BY <1>2 DEF vars, memory, world, TypeInv, TypeOK
<1>3. CASE Reprice
  <2>1. requests' \in 0..MaxRequests
    <3>1. requests < MaxRequests /\ requests' = requests + 1
      BY <1>3 DEF Reprice
    <3>2. requests \in 0..MaxRequests /\ MaxRequests \in Nat
      BY BoundsAssumption DEF TypeInv, TypeOK
    <3> QED BY <3>1, <3>2
  <2> QED BY <1>3, <2>1 DEF Reprice, memory, TypeInv, TypeOK
<1> QED BY <1>1, <1>2, <1>3, CyclesTyped, PlanTyped, DeliverTyped, PeopleTyped DEF Next

\* The metadata, the copies read from it, the counters and the lock keep their types;
\* in particular no bound of exploration is overrun by an action.
THEOREM OutboxTypeCorrect == Spec => []TypeOK
<1>1. TypeInv => TypeOK
  BY DEF TypeInv
<1> QED BY <1>1, InitTyped, NextTyped, PTL DEF Spec

--------------------------------------------------------------------------------
(* Rows *)

Alive == {"pending", "sending", "uncertain", "sent"}

Has(rows, k, s) == \E r \in rows : r.key = k /\ r.status = s

\* A reminder has one row that is alive; finished rows of the same key may lie around.
Agreeing(rows) ==
  \A q, r \in rows : q.key = r.key /\ q.status \in Alive /\ r.status \in Alive => q = r

LEMMA RowFields ==
  ASSUME NEW k, NEW s, NEW t
  PROVE  Row(k, s, t).key = k /\ Row(k, s, t).status = s /\ Row(k, s, t).at = t
BY DEF Row

\* With and HasQueued in terms of Has.
LEMMA WithHas ==
  ASSUME NEW rows, NEW k, NEW S
  PROVE  /\ With(rows, k, S) # {} <=> \E s \in S : Has(rows, k, s)
         /\ HasQueued(rows, k) <=> \E s \in Alive : Has(rows, k, s)
BY DEF With, Has, HasQueued, Alive

LEMMA DiscardEffect ==
  ASSUME NEW rows, NEW ks
  PROVE  /\ Agreeing(rows) => Agreeing(Discard(rows, ks))
         /\ \A k : \A st \in Alive :
              Has(Discard(rows, ks), k, st) <=> Has(rows, k, st) /\ (st = "pending" => k \notin ks)
         /\ \A r \in Discard(rows, ks) : r.status \in Alive => r \in rows
<1> DEFINE f(r) == IF r.key \in ks /\ r.status = "pending" THEN Row(r.key, "dropped", 0) ELSE r
<1>1. Discard(rows, ks) = {f(r) : r \in rows}
  BY DEF Discard
<1>2. ASSUME NEW r
      PROVE  /\ f(r).key = r.key
             /\ f(r).status \in Alive => f(r) = r
             /\ f(r).status \in Alive => ~(r.key \in ks /\ r.status = "pending")
             /\ ~(r.key \in ks /\ r.status = "pending") => f(r) = r
  BY RowFields DEF Alive
<1> HIDE DEF f
<1>3. Agreeing(rows) => Agreeing(Discard(rows, ks))
  BY <1>1, <1>2 DEF Agreeing
<1>4. ASSUME NEW k, NEW st \in Alive
      PROVE  Has(Discard(rows, ks), k, st) <=> Has(rows, k, st) /\ (st = "pending" => k \notin ks)
  BY <1>1, <1>2 DEF Has
<1>5. \A r \in Discard(rows, ks) : r.status \in Alive => r \in rows
  BY <1>1, <1>2
<1> QED BY <1>3, <1>4, <1>5

LEMMA RewriteEffect ==
  ASSUME NEW rows, NEW k, NEW from, NEW t, NEW a,
         \A x \in from : x \in Alive, t \in Alive, Agreeing(rows)
  PROVE  /\ Agreeing(Rewrite(rows, k, from, Row(k, t, a)))
         /\ \A j, st : j # k =>
              (Has(Rewrite(rows, k, from, Row(k, t, a)), j, st) <=> Has(rows, j, st))
         /\ With(rows, k, from) # {} => \A st \in Alive :
              Has(Rewrite(rows, k, from, Row(k, t, a)), k, st) <=> st = t
         /\ With(rows, k, from) = {} => Rewrite(rows, k, from, Row(k, t, a)) = rows
         /\ \A r \in Rewrite(rows, k, from, Row(k, t, a)) : r \in rows \/ r = Row(k, t, a)
<1>1. CASE With(rows, k, from) = {}
  BY <1>1 DEF Rewrite
<1>2. CASE With(rows, k, from) # {}
  <2> DEFINE R == (rows \ With(rows, k, from)) \cup {Row(k, t, a)}
  <2>1. Rewrite(rows, k, from, Row(k, t, a)) = R
    BY <1>2 DEF Rewrite
  <2>2. PICK q \in rows : q.key = k /\ q.status \in from
    BY <1>2 DEF With
  <2>3. \A r \in rows : r.key = k /\ r.status \in Alive => r = q
    BY <2>2 DEF Agreeing
  <2>4. \A r \in rows : r.key = k /\ r.status \in Alive => r \in With(rows, k, from)
    BY <2>2, <2>3 DEF With
  <2>5. \A r \in R : r.key = k /\ r.status \in Alive => r = Row(k, t, a)
    BY <2>4
  <2>6. Row(k, t, a) \in R /\ Row(k, t, a).key = k /\ Row(k, t, a).status = t
    BY RowFields
  <2>7. \A r : r.key # k => (r \in R <=> r \in rows)
    BY <2>6 DEF With
  <2>8. \A r \in R : r \in rows \/ r = Row(k, t, a)
    OBVIOUS
  <2> HIDE DEF R
  <2>9. Agreeing(R)
    <3> SUFFICES ASSUME NEW q1 \in R, NEW r1 \in R, q1.key = r1.key,
                        q1.status \in Alive, r1.status \in Alive
                 PROVE  q1 = r1
      BY DEF Agreeing
    <3> QED BY <2>5, <2>7 DEF Agreeing
  <2>10. \A j, st : j # k => (Has(R, j, st) <=> Has(rows, j, st))
    BY <2>7 DEF Has
  <2>11. \A st \in Alive : Has(R, k, st) <=> st = t
    BY <2>5, <2>6 DEF Has
  <2> QED BY <1>2, <2>1, <2>8, <2>9, <2>10, <2>11
<1> QED BY <1>1, <1>2

LEMMA AppendEffect ==
  ASSUME NEW rows, NEW k, Agreeing(rows), ~HasQueued(rows, k)
  PROVE  /\ Agreeing(rows \cup {Row(k, "pending", 0)})
         /\ \A j, st : Has(rows \cup {Row(k, "pending", 0)}, j, st) <=>
                       Has(rows, j, st) \/ (j = k /\ st = "pending")
<1>1. Row(k, "pending", 0).key = k /\ Row(k, "pending", 0).status = "pending"
  BY RowFields
<1>2. \A r \in rows : ~(r.key = k /\ r.status \in Alive)
  BY WithHas DEF Has
<1> QED BY <1>1, <1>2 DEF Agreeing, Has

Recovered(w) == {IF Expired(w, r) THEN Row(r.key, "uncertain", 0) ELSE r : r \in meta.rows}

LEMMA RecoverEffect ==
  ASSUME NEW w, Agreeing(meta.rows)
  PROVE  /\ Agreeing(Recovered(w))
         /\ \A k : \A st \in {"pending", "sent"} : Has(Recovered(w), k, st) <=> Has(meta.rows, k, st)
         /\ \A k : Has(meta.rows, k, "uncertain") => Has(Recovered(w), k, "uncertain")
         /\ \A k : Has(Recovered(w), k, "sending") => Has(meta.rows, k, "sending")
         /\ \A k : Has(Recovered(w), k, "sending") \/ Has(Recovered(w), k, "uncertain") <=>
                   Has(meta.rows, k, "sending") \/ Has(meta.rows, k, "uncertain")
         /\ \A r \in Recovered(w) : r \in meta.rows \/ r.status = "uncertain"
<1> DEFINE f(r) == IF Expired(w, r) THEN Row(r.key, "uncertain", 0) ELSE r
<1>1. Recovered(w) = {f(r) : r \in meta.rows}
  BY DEF Recovered
<1>2. ASSUME NEW r
      PROVE  /\ f(r).key = r.key
             /\ f(r) = r \/ (r.status = "sending" /\ f(r).status = "uncertain")
  BY RowFields DEF Expired
<1> HIDE DEF f
<1>3. Agreeing(Recovered(w))
  <2> SUFFICES ASSUME NEW q \in meta.rows, NEW r \in meta.rows, f(q).key = f(r).key,
                      f(q).status \in Alive, f(r).status \in Alive
               PROVE  f(q) = f(r)
    BY <1>1 DEF Agreeing
  <2>1. q.status \in Alive /\ r.status \in Alive /\ q.key = r.key
    BY <1>2 DEF Alive
  <2> QED BY <2>1 DEF Agreeing
<1>4. \A k : \A st \in {"pending", "sent"} : Has(Recovered(w), k, st) <=> Has(meta.rows, k, st)
  BY <1>1, <1>2 DEF Has
<1>5. \A k : Has(meta.rows, k, "uncertain") => Has(Recovered(w), k, "uncertain")
  BY <1>1, <1>2 DEF Has
<1>6. \A k : Has(Recovered(w), k, "sending") => Has(meta.rows, k, "sending")
  BY <1>1, <1>2 DEF Has
<1>7. \A k : Has(Recovered(w), k, "sending") \/ Has(Recovered(w), k, "uncertain") <=>
            Has(meta.rows, k, "sending") \/ Has(meta.rows, k, "uncertain")
  BY <1>1, <1>2 DEF Has
<1>8. \A r \in Recovered(w) : r \in meta.rows \/ r.status = "uncertain"
  BY <1>1, <1>2
<1> QED BY <1>3, <1>4, <1>5, <1>6, <1>7, <1>8

--------------------------------------------------------------------------------
(* One live row per reminder, whatever copies are saved *)

\* What a task remembers of the outbox, with the reminder it is about to append.
Sound(t) == Agreeing(t.copy.rows) /\ (t.step = "queued" => ~HasQueued(t.copy.rows, t.key))

LiveInv ==
  /\ TypeInv
  /\ Agreeing(meta.rows) /\ Agreeing(turn.copy.rows) /\ Agreeing(desk.copy.rows)
  /\ \A w \in Workers : Sound(task[w])

LEMMA BecomesSound ==
  ASSUME LiveInv, NEW w \in Workers, NEW t, Sound(t), Becomes(w, t)
  PROVE  \A v \in Workers : Sound(task'[v])
<1>1. task \in [Workers -> Tasks]
  BY DEF LiveInv, TypeInv, TypeOK
<1>2. \A v \in Workers : task'[v] = IF v = w THEN t ELSE task[v]
  BY <1>1 DEF Becomes
<1> QED BY <1>2 DEF LiveInv

\* The tasks that carry no reminder.
LEMMA FreshSound ==
  ASSUME LiveInv
  PROVE  /\ Sound(Idle) /\ \A w : Sound(Ended(w)) /\ Sound(Planned(w))
         /\ \A b : Sound(Scanning(b))
         /\ Agreeing(Closed.copy.rows) /\ Agreeing(Opened.copy.rows)
<1>1. Agreeing(NoCopy.rows)
  BY DEF NoCopy, Agreeing
<1>2. Idle.copy = NoCopy /\ Idle.step # "queued"
  BY DEF Idle
<1>3. Sound(Idle)
  BY <1>1, <1>2 DEF Sound
<1>4. \A w : Sound(Ended(w))
  BY <1>1, <1>3 DEF Ended, Idle, Sound
<1>5. \A w : Sound(Planned(w))
  BY <1>1, <1>4 DEF Planned, Idle, Sound
<1>6. \A b : Sound(Scanning(b))
  BY DEF Scanning, Idle, Sound, LiveInv
<1>7. Agreeing(Closed.copy.rows) /\ Agreeing(Opened.copy.rows)
  BY <1>1 DEF Closed, Opened, LiveInv
<1> QED BY <1>3, <1>4, <1>5, <1>6, <1>7

LEMMA InitLive == Init => LiveInv
<1> SUFFICES ASSUME Init PROVE LiveInv
  OBVIOUS
<1>1. TypeInv
  BY InitTyped
<1>2. meta.rows = {} /\ turn.copy.rows = {} /\ desk.copy.rows = {}
  BY DEF Init, Closed, NoCopy
<1>3. \A w \in Workers : task[w].copy.rows = {} /\ task[w].step # "queued"
  BY DEF Init, Idle, NoCopy
<1> QED BY <1>1, <1>2, <1>3 DEF LiveInv, Agreeing, Sound

\* A goto or an update of other fields keeps what the task remembers.
LEMMA KeptSound ==
  ASSUME LiveInv, NEW w \in Workers, NEW t, Becomes(w, t), t.step # "queued",
         t.copy = task[w].copy
  PROVE  \A v \in Workers : Sound(task'[v])
BY BecomesSound DEF Sound, LiveInv

LEMMA WorkersLive ==
  ASSUME LiveInv, TypeInv',
         \/ \E s \in Schedulers : Begin(s) \/ Fault(s)
         \/ \E c \in Crons : BeginCron(c)
         \/ \E w \in Workers : Crash(w) \/ Plan(w) \/ Reload(w)
  PROVE  LiveInv'
<1>1. TypeInv
  BY DEF LiveInv
<1>2. ASSUME NEW s \in Schedulers, Begin(s) \/ Fault(s)
      PROVE  LiveInv'
  BY <1>2, BecomesSound, FreshSound DEF Begin, Fault, Workers, LiveInv, memory
<1>3. ASSUME NEW c \in Crons, BeginCron(c)
      PROVE  LiveInv'
  BY <1>3, BecomesSound, FreshSound DEF BeginCron, Workers, LiveInv, memory
<1>4. ASSUME NEW w \in Workers, Crash(w) \/ PlanNothing(w)
      PROVE  LiveInv'
  BY <1>4, BecomesSound, FreshSound DEF Crash, PlanNothing, LiveInv, memory
<1>5. ASSUME NEW w \in Workers, PlanReminder(w)
      PROVE  LiveInv'
  <2> DEFINE t == [task[w] EXCEPT !.step = "queued", !.key = Reminder(w)]
  <2>1. task[w] \in Tasks
    BY <1>1 DEF TypeInv, TypeOK
  <2>2. t.copy = task[w].copy /\ t.key = Reminder(w) /\ t.step = "queued"
    BY <2>1 DEF Tasks
  <2>3. Becomes(w, t) /\ ~HasQueued(task[w].copy.rows, Reminder(w))
    BY <1>5 DEF PlanReminder
  <2> HIDE DEF t
  <2>4. Sound(t)
    BY <2>2, <2>3 DEF Sound, LiveInv
  <2> QED BY <1>5, <2>3, <2>4, BecomesSound DEF PlanReminder, LiveInv, memory
<1>6. ASSUME NEW w \in Workers, SavePlan(w)
      PROVE  LiveInv'
  <2> DEFINE m == [task[w].copy EXCEPT !.rows = @ \cup {Row(task[w].key, "pending", 0)}]
  <2>1. /\ Agreeing(task[w].copy.rows) /\ ~HasQueued(task[w].copy.rows, task[w].key)
    BY <1>6 DEF SavePlan, At, LiveInv, Sound
  <2>2. task[w].copy \in Metadata
    BY <1>1 DEF TypeInv, TypeOK, Tasks
  <2>3. m.rows = task[w].copy.rows \cup {Row(task[w].key, "pending", 0)}
    BY <2>2 DEF Metadata
  <2>4. Agreeing(m.rows)
    BY <2>1, <2>3, AppendEffect
  <2>5. meta' = m
    BY <1>6 DEF SavePlan
  <2> HIDE DEF m
  <2>6. Agreeing(meta'.rows)
    BY <2>4, <2>5
  <2> QED BY <1>6, <2>6, BecomesSound, FreshSound DEF SavePlan, LiveInv
<1>7. ASSUME NEW w \in Workers, Reload(w)
      PROVE  LiveInv'
  <2> DEFINE t == [task[w] EXCEPT !.copy = meta]
  <2>1. task[w] \in Tasks /\ task[w].step = "listed"
    BY <1>1, <1>7 DEF TypeInv, TypeOK, Reload, At
  <2>2. t.copy = meta /\ t.step = "listed"
    BY <2>1 DEF Tasks
  <2>3. Becomes(w, t)
    BY <1>7 DEF Reload
  <2> HIDE DEF t
  <2>4. Sound(t)
    BY <2>2 DEF Sound, LiveInv
  <2> QED BY <1>7, <2>3, <2>4, BecomesSound DEF Reload, LiveInv, memory
<1> QED BY <1>2, <1>3, <1>4, <1>5, <1>6, <1>7 DEF Plan

LEMMA ListingLive ==
  ASSUME LiveInv, TypeInv', NEW w \in Workers,
         \/ List(w) \/ Recover(w) \/ NothingToRecover(w)
         \/ SkipPass(w) \/ DropPass(w) \/ OpenPass(w) \/ Finish(w)
  PROVE  LiveInv'
<1>1. TypeInv /\ task[w] \in Tasks /\ meta \in Metadata
  BY DEF LiveInv, TypeInv, TypeOK
<1>2. CASE List(w)
  <2> DEFINE t == [task[w] EXCEPT !.step = "listed", !.now = clock, !.copy = meta]
  <2>1. t.copy = meta /\ t.step = "listed"
    BY <1>1 DEF Tasks
  <2>2. Becomes(w, t)
    BY <1>2 DEF List
  <2> HIDE DEF t
  <2>3. Sound(t)
    BY <2>1 DEF Sound, LiveInv
  <2> QED BY <1>2, <2>2, <2>3, BecomesSound DEF List, LiveInv, memory
<1>3. CASE Recover(w)
  <2> DEFINE t == [task[w] EXCEPT !.step = "screening", !.copy = meta']
  <2>1. meta' = [meta EXCEPT !.rows = Recovered(w)]
    BY <1>3 DEF Recover, Recovered
  <2>2. meta'.rows = Recovered(w)
    BY <1>1, <2>1 DEF Metadata
  <2>3. Agreeing(meta'.rows)
    BY <2>2, RecoverEffect DEF LiveInv
  <2>4. t.copy = meta' /\ t.step = "screening"
    BY <1>1 DEF Tasks
  <2>5. Becomes(w, t)
    BY <1>3 DEF Recover
  <2> HIDE DEF t
  <2>6. Sound(t)
    BY <2>3, <2>4 DEF Sound
  <2> QED BY <1>3, <2>3, <2>5, <2>6, BecomesSound DEF Recover, LiveInv
<1>4. CASE NothingToRecover(w)
  <2> DEFINE t == [task[w] EXCEPT !.step = "screening"]
  <2>1. t.copy = task[w].copy /\ t.step = "screening"
    BY <1>1 DEF Tasks
  <2>2. Becomes(w, t)
    BY <1>4 DEF NothingToRecover, Goto
  <2> HIDE DEF t
  <2> QED BY <1>4, <2>1, <2>2, KeptSound DEF NothingToRecover, LiveInv, memory
<1>5. CASE SkipPass(w) \/ Finish(w)
  BY <1>5, BecomesSound, FreshSound DEF SkipPass, Finish, EndPass, LiveInv, memory
<1>6. CASE DropPass(w)
  <2>1. meta' = [meta EXCEPT !.rows = Discard(@, Due(w))]
    BY <1>6 DEF DropPass
  <2>2. meta'.rows = Discard(meta.rows, Due(w))
    BY <1>1, <2>1 DEF Metadata
  <2>3. Agreeing(meta'.rows)
    BY <2>2, DiscardEffect DEF LiveInv
  <2> QED BY <1>6, <2>3, BecomesSound, FreshSound DEF DropPass, EndPass, LiveInv
<1>7. CASE OpenPass(w)
  <2> DEFINE c == [NoCopy EXCEPT !.cart = task[w].copy.cart]
             t == [task[w] EXCEPT !.step = "items", !.todo = Due(w), !.anchor = latest,
                                  !.price = price, !.copy = c]
  <2>1. c.rows = {}
    BY DEF NoCopy
  <2>2. t.copy = c /\ t.step = "items"
    BY <1>1 DEF Tasks
  <2>3. Becomes(w, t)
    BY <1>7 DEF OpenPass
  <2> HIDE DEF t, c
  <2>4. Sound(t)
    BY <2>1, <2>2 DEF Sound, Agreeing
  <2> QED BY <1>7, <2>3, <2>4, BecomesSound DEF OpenPass, LiveInv, memory
<1> QED BY <1>2, <1>3, <1>4, <1>5, <1>6, <1>7

LEMMA ItemsLive ==
  ASSUME LiveInv, TypeInv', NEW w \in Workers,
         \/ \E k \in Keys : OutdatedItem(w, k) \/ ClaimItem(w, k) \/ LoseItem(w, k)
         \/ Accept(w) \/ Refuse(w) \/ MarkSent(w) \/ MarkFails(w)
         \/ MarkUncertain(w) \/ RecordFailure(w)
  PROVE  LiveInv'
<1>1. TypeInv /\ task[w] \in Tasks /\ meta \in Metadata /\ Agreeing(meta.rows)
  BY DEF LiveInv, TypeInv, TypeOK
<1>2. ASSUME NEW k, At(w, "items"), Becomes(w, [task[w] EXCEPT !.todo = @ \ {k}])
      PROVE  \A v \in Workers : Sound(task'[v])
  <2> DEFINE t == [task[w] EXCEPT !.todo = @ \ {k}]
  <2>1. t.copy = task[w].copy /\ t.step = "items"
    BY <1>1, <1>2 DEF Tasks, At
  <2>2. Becomes(w, t)
    BY <1>2
  <2> HIDE DEF t
  <2> QED BY <2>1, <2>2, KeptSound
<1>3. ASSUME NEW step \in {"accepted", "ambiguous", "rejected"}, Goto(w, step)
      PROVE  \A v \in Workers : Sound(task'[v])
  <2> DEFINE t == [task[w] EXCEPT !.step = step]
  <2>1. t.copy = task[w].copy /\ t.step = step
    BY <1>1 DEF Tasks
  <2>2. Becomes(w, t)
    BY <1>3 DEF Goto
  <2> HIDE DEF t
  <2> QED BY <2>1, <2>2, KeptSound
<1>4. ASSUME NextItem(w)
      PROVE  \A v \in Workers : Sound(task'[v])
  <2> DEFINE t == [task[w] EXCEPT !.step = "items", !.key = NoKey]
  <2>1. t.copy = task[w].copy /\ t.step = "items"
    BY <1>1 DEF Tasks
  <2>2. Becomes(w, t)
    BY <1>4 DEF NextItem
  <2> HIDE DEF t
  <2> QED BY <2>1, <2>2, KeptSound
<1>5. ASSUME NEW X, Agreeing(X), meta' = [meta EXCEPT !.rows = X]
      PROVE  Agreeing(meta'.rows)
  <2>1. meta'.rows = X
    BY <1>1, <1>5 DEF Metadata
  <2> QED BY <1>5, <2>1
<1>6. ASSUME NEW k \in Keys, OutdatedItem(w, k) \/ LoseItem(w, k)
      PROVE  LiveInv'
  <2>1. Agreeing(Discard(meta.rows, {k}))
    BY <1>1, DiscardEffect
  <2>2. PICK X \in {meta.rows, Discard(meta.rows, {k})} : meta' = [meta EXCEPT !.rows = X]
    BY <1>6 DEF OutdatedItem, LoseItem
  <2>3. Agreeing(meta'.rows)
    BY <1>1, <1>5, <2>1, <2>2
  <2> QED BY <1>2, <1>6, <2>3 DEF OutdatedItem, LoseItem, LiveInv
<1>7. ASSUME NEW k \in Keys, ClaimItem(w, k)
      PROVE  LiveInv'
  <2> DEFINE t == [task[w] EXCEPT !.step = "calling", !.todo = @ \ {k}, !.key = k]
  <2>1. t.copy = task[w].copy /\ t.step = "calling"
    BY <1>1 DEF Tasks
  <2>2. Becomes(w, t)
    BY <1>7 DEF ClaimItem
  <2> HIDE DEF t
  <2>3. Agreeing(Rewrite(meta.rows, k, {"pending"}, Row(k, "sending", task[w].now)))
    BY <1>1, RewriteEffect DEF Alive
  <2>4. Agreeing(meta'.rows)
    BY <1>5, <1>7, <2>3 DEF ClaimItem
  <2> QED BY <1>7, <2>1, <2>2, <2>4, KeptSound DEF ClaimItem, LiveInv
<1>8. CASE Accept(w) \/ Refuse(w) \/ MarkFails(w)
  BY <1>3, <1>8 DEF Accept, Refuse, MarkFails, LiveInv, memory
<1>9. ASSUME NEW k, NEW a
      PROVE  /\ Agreeing(Rewrite(meta.rows, k, {"sending", "uncertain"}, Row(k, "sent", a)))
             /\ Agreeing(Rewrite(meta.rows, k, {"sending", "uncertain"}, Row(k, "uncertain", a)))
             /\ Agreeing(Rewrite(meta.rows, k, {"sending"}, Row(k, "pending", a)))
  <2>1. /\ \A x \in {"sending", "uncertain"} : x \in Alive
        /\ \A x \in {"sending"} : x \in Alive
        /\ {"sent", "uncertain", "pending"} \subseteq Alive
    BY DEF Alive
  <2>2. Agreeing(Rewrite(meta.rows, k, {"sending", "uncertain"}, Row(k, "sent", a)))
    BY <1>1, <2>1, RewriteEffect
  <2>3. Agreeing(Rewrite(meta.rows, k, {"sending", "uncertain"}, Row(k, "uncertain", a)))
    BY <1>1, <2>1, RewriteEffect
  <2>4. Agreeing(Rewrite(meta.rows, k, {"sending"}, Row(k, "pending", a)))
    BY <1>1, <2>1, RewriteEffect
  <2> QED BY <2>2, <2>3, <2>4
<1>10. CASE MarkSent(w)
  <2>1. Agreeing(meta'.rows)
    BY <1>5, <1>9, <1>10 DEF MarkSent
  <2> QED BY <1>4, <1>10, <2>1 DEF MarkSent, LiveInv
<1>11. CASE MarkUncertain(w)
  <2>1. Agreeing(meta'.rows)
    BY <1>5, <1>9, <1>11 DEF MarkUncertain
  <2> QED BY <1>4, <1>11, <2>1 DEF MarkUncertain, LiveInv
<1>12. CASE RecordFailure(w)
  <2>1. Agreeing(meta'.rows)
    BY <1>5, <1>9, <1>12 DEF RecordFailure
  <2> QED BY <1>4, <1>12, <2>1 DEF RecordFailure, LiveInv
<1> QED BY <1>6, <1>7, <1>8, <1>10, <1>11, <1>12

LEMMA PeopleLive ==
  ASSUME LiveInv, TypeInv', People
  PROVE  LiveInv'
<1>1. /\ meta \in Metadata /\ turn \in Pages /\ desk \in Pages
      /\ turn.copy \in Metadata /\ desk.copy \in Metadata
  BY DEF LiveInv, TypeInv, TypeOK, Pages
<1>2. ASSUME NEW m \in Metadata, Agreeing(m.rows)
      PROVE  /\ \A a : Agreeing(Attend(m, a).rows)
             /\ Agreeing([m EXCEPT !.attention = "ai"].rows)
             /\ \A c : Agreeing([m EXCEPT !.cart = c].rows)
  <2>1. Agreeing(BlockPending(m))
    BY <1>2, DiscardEffect DEF BlockPending
  <2>2. \A a : Attend(m, a).rows = BlockPending(m)
    BY DEF Attend, Metadata
  <2>3. [m EXCEPT !.attention = "ai"].rows = m.rows /\ \A c : [m EXCEPT !.cart = c].rows = m.rows
    BY DEF Metadata
  <2> QED BY <1>2, <2>1, <2>2, <2>3
<1>3. Agreeing(Closed.copy.rows) /\ Agreeing(Opened.copy.rows)
  BY FreshSound
<1>4. CASE Take \/ Resolve \/ Resume
  <2>1. Agreeing(meta'.rows)
    BY <1>1, <1>2, <1>4 DEF Take, Resolve, Resume, LiveInv
  <2> QED BY <1>4, <2>1 DEF Take, Resolve, Resume, LiveInv
<1>5. CASE OpenDesk \/ DropDesk \/ OpenTurn \/ DropTurn \/ TurnReplies
  BY <1>3, <1>5 DEF OpenDesk, DropDesk, OpenTurn, DropTurn, TurnReplies, memory, LiveInv
<1>6. CASE SaveDesk
  <2>1. Agreeing(meta'.rows)
    BY <1>1, <1>2, <1>6 DEF SaveDesk, LiveInv
  <2> QED BY <1>3, <1>6, <2>1 DEF SaveDesk, LiveInv
<1>7. CASE TurnResumes
  <2>1. Agreeing(meta'.rows)
    BY <1>1, <1>2, <1>7 DEF TurnResumes, LiveInv
  <2>2. turn'.copy = meta'
    BY <1>1, <1>7 DEF TurnResumes, Pages
  <2> QED BY <1>7, <2>1, <2>2 DEF TurnResumes, LiveInv
<1>8. CASE TurnChangesCart
  <2>1. Agreeing(meta'.rows)
    BY <1>1, <1>2, <1>8 DEF TurnChangesCart, LiveInv
  <2> QED BY <1>3, <1>8, <2>1 DEF TurnChangesCart, LiveInv
<1> QED BY <1>4, <1>5, <1>6, <1>7, <1>8 DEF People

LEMMA NextLive == LiveInv /\ [Next]_vars => LiveInv'
<1> SUFFICES ASSUME LiveInv, [Next]_vars PROVE LiveInv'
  OBVIOUS
<1>1. TypeInv'
  BY NextTyped DEF LiveInv
<1>2. CASE Tick \/ Reprice \/ UNCHANGED vars
  BY <1>1, <1>2 DEF Tick, Reprice, vars, memory, LiveInv
<1>3. ASSUME NEW w \in Workers, Deliver(w)
      PROVE  LiveInv'
  BY <1>1, <1>3, ListingLive, ItemsLive DEF Deliver
<1> QED BY <1>1, <1>2, <1>3, WorkersLive, PeopleLive DEF Next

\* No sequence of saves, of outdated copies or not, leaves two live rows of a reminder.
THEOREM RemindersHaveOneLiveRow == Spec => []OneLiveRow
<1>1. LiveInv => OneLiveRow
  <2> SUFFICES ASSUME LiveInv, NEW k \in Keys
               PROVE  Cardinality(With(meta.rows, k, Alive)) <= 1
    BY DEF OneLiveRow, Alive
  <2>1. \A q, r \in With(meta.rows, k, Alive) : q = r
    BY DEF With, LiveInv, Agreeing
  <2>2. CASE With(meta.rows, k, Alive) = {}
    BY <2>2, FS_EmptySet
  <2>3. CASE \E q : With(meta.rows, k, Alive) = {q}
    <3>1. PICK q : With(meta.rows, k, Alive) = {q}
      BY <2>3
    <3>2. Cardinality({q}) = 1
      BY FS_Singleton
    <3> QED BY <3>1, <3>2
  <2> QED BY <2>1, <2>2, <2>3
<1> QED BY <1>1, InitLive, NextLive, PTL DEF Spec

--------------------------------------------------------------------------------
(* A reminder is sent once, unless a late save replaces its row *)

Tried(rows, k) == Has(rows, k, "sending") \/ Has(rows, k, "uncertain")

\* The reminders whose row no late save has replaced.
Intact == Keys \ undone

\* The worker that claimed a reminder and has not yet recorded the outcome is the only
\* one, its row says so, and it knows what the provider has accepted.
SendInv ==
  /\ LiveInv
  /\ \A v, w \in Workers :
       task[v].step \in Holding /\ task[w].step \in Holding
       /\ task[v].key = task[w].key /\ task[v].key \in Intact => v = w
  /\ \A w \in Workers : task[w].key \in Intact =>
       /\ task[w].step \in Holding => Tried(meta.rows, task[w].key)
       /\ task[w].step \in {"calling", "rejected"} => accepted[task[w].key] = 0
       /\ task[w].step = "accepted" => accepted[task[w].key] = 1
  /\ \A k \in Intact :
       /\ accepted[k] \in {0, 1}
       /\ accepted[k] = 1 => Tried(meta.rows, k) \/ Has(meta.rows, k, "sent")
       /\ Has(meta.rows, k, "sent") => accepted[k] = 1
       /\ audit[k] = IF Has(meta.rows, k, "sent") THEN 1 ELSE 0

\* A reminder that is tried is not sent, and neither is queued.
LEMMA OneStatus ==
  ASSUME NEW rows, Agreeing(rows), NEW k, NEW s \in Alive, NEW t \in Alive,
         Has(rows, k, s), Has(rows, k, t)
  PROVE  s = t
BY DEF Agreeing, Has

LEMMA InitSends == Init => SendInv
<1> SUFFICES ASSUME Init PROVE SendInv
  OBVIOUS
<1>1. LiveInv
  BY InitLive
<1>2. meta.rows = {} /\ \A k : ~Has(meta.rows, k, "sent")
  BY DEF Init, Has
<1>3. \A w \in Workers : task[w].step = "idle"
  BY DEF Init, Idle
<1>4. \A k \in Keys : accepted[k] = 0 /\ audit[k] = 0
  BY DEF Init
<1> QED BY <1>1, <1>2, <1>3, <1>4 DEF SendInv, Holding, Intact

\* Nothing is claimed, settled or recorded.
SameTries ==
  \A k \in Intact' : /\ k \in Intact
                     /\ Tried(meta'.rows, k) <=> Tried(meta.rows, k)
                     /\ Has(meta'.rows, k, "sent") <=> Has(meta.rows, k, "sent")

SameHolders ==
  \A w \in Workers : task'[w].step \in Holding =>
    task'[w].step = task[w].step /\ task'[w].key = task[w].key

Quiet == SameTries /\ SameHolders /\ accepted' = accepted /\ audit' = audit

LEMMA QuietKeepsSends ==
  ASSUME SendInv, LiveInv', Quiet
  PROVE  SendInv'
<1>1. \A s \in {"calling", "rejected", "accepted"} : s \in Holding
  BY DEF Holding
<1>2. \A k \in Intact' : /\ k \in Intact
                         /\ Tried(meta'.rows, k) <=> Tried(meta.rows, k)
                         /\ Has(meta'.rows, k, "sent") <=> Has(meta.rows, k, "sent")
  BY DEF Quiet, SameTries
<1>3. \A v, w \in Workers :
        task'[v].step \in Holding /\ task'[w].step \in Holding
        /\ task'[v].key = task'[w].key /\ task'[v].key \in Intact' => v = w
  BY <1>2 DEF SendInv, Quiet, SameHolders
<1>4. \A w \in Workers : task'[w].key \in Intact' =>
        /\ task'[w].step \in Holding => Tried(meta'.rows, task'[w].key)
        /\ task'[w].step \in {"calling", "rejected"} => accepted'[task'[w].key] = 0
        /\ task'[w].step = "accepted" => accepted'[task'[w].key] = 1
  BY <1>1, <1>2 DEF SendInv, Quiet, SameHolders
<1>5. \A k \in Intact' :
        /\ accepted'[k] \in {0, 1}
        /\ accepted'[k] = 1 => Tried(meta'.rows, k) \/ Has(meta'.rows, k, "sent")
        /\ Has(meta'.rows, k, "sent") => accepted'[k] = 1
        /\ audit'[k] = IF Has(meta'.rows, k, "sent") THEN 1 ELSE 0
  BY <1>2 DEF SendInv, Quiet
<1> QED BY <1>3, <1>4, <1>5 DEF SendInv

LEMMA DiscardTries ==
  ASSUME NEW rows, NEW ks, NEW k
  PROVE  /\ Tried(Discard(rows, ks), k) <=> Tried(rows, k)
         /\ Has(Discard(rows, ks), k, "sent") <=> Has(rows, k, "sent")
BY DiscardEffect DEF Alive, Tried

\* For a reminder it does not undo, an old copy is as good as the rows it replaces.
LEMMA SavedRows ==
  ASSUME NEW m, undone' = undone \cup Undoes(m), NEW k \in Intact'
  PROVE  k \in Intact /\ \A s : Has(m.rows, k, s) <=> Has(meta.rows, k, s)
<1>1. k \in Keys /\ k \notin undone /\ OfKey(m.rows, k) = OfKey(meta.rows, k)
  BY DEF Intact, Undoes
<1>2. \A rows, s : Has(rows, k, s) <=> \E r \in OfKey(rows, k) : r.status = s
  BY DEF Has, OfKey
<1> QED BY <1>1, <1>2 DEF Intact

LEMMA BlockEffect ==
  ASSUME NEW m, NEW k, NEW s \in Alive
  PROVE  Has(BlockPending(m), k, s) <=> Has(m.rows, k, s) /\ s # "pending"
<1>1. Has(m.rows, k, s) => k \in {r.key : r \in m.rows}
  BY DEF Has
<1> QED BY <1>1, DiscardEffect DEF BlockPending

Same(k)    == \A s \in Alive : Has(meta'.rows, k, s) <=> Has(meta.rows, k, s)
Blocked(k) == \A s \in Alive : Has(meta'.rows, k, s) <=> Has(meta.rows, k, s) /\ s # "pending"

\* What people do to the column: they hand it to an operator, with nothing left pending, or
\* to the AI; for most of them the copy they start from is the column itself.
LEMMA PeopleSave ==
  ASSUME TypeInv, People
  PROVE  \/ meta' = meta /\ undone' = undone
         \/ \E m \in Metadata :
              /\ undone' = undone \cup Undoes(m)
              /\ \/ \E a \in {"requested", "taken", "resolved"} : meta' = Attend(m, a)
                 \/ meta'.rows = m.rows /\ meta'.attention = "ai"
<1>1. meta \in Metadata /\ turn.copy \in Metadata /\ desk.copy \in Metadata
  BY DEF TypeInv, TypeOK, Pages
<1>2. Undoes(meta) = {}
  BY DEF Undoes
<1>3. ASSUME NEW m \in Metadata
      PROVE  /\ [m EXCEPT !.attention = "ai"].rows = m.rows
             /\ [m EXCEPT !.attention = "ai"].attention = "ai"
             /\ \A c : /\ [m EXCEPT !.cart = c].rows = m.rows
                       /\ [m EXCEPT !.cart = c].attention = m.attention
  BY DEF Metadata
<1>4. CASE Take \/ Resolve \/ Resume
  BY <1>1, <1>2, <1>3, <1>4 DEF Take, Resolve, Resume
<1>5. CASE OpenDesk \/ DropDesk \/ OpenTurn \/ TurnReplies \/ DropTurn
  BY <1>5 DEF OpenDesk, DropDesk, OpenTurn, TurnReplies, DropTurn, memory
<1>6. CASE SaveDesk
  <2>1. /\ [desk.copy EXCEPT !.attention = "ai"].rows = desk.copy.rows
        /\ [desk.copy EXCEPT !.attention = "ai"].attention = "ai"
    BY <1>1, <1>3
  <2> QED BY <1>1, <1>6, <2>1 DEF SaveDesk
<1>7. CASE TurnResumes \/ TurnChangesCart
  <2>1. /\ [turn.copy EXCEPT !.attention = "ai"].rows = turn.copy.rows
        /\ [turn.copy EXCEPT !.attention = "ai"].attention = "ai"
        /\ \A c : /\ [turn.copy EXCEPT !.cart = c].rows = turn.copy.rows
                  /\ [turn.copy EXCEPT !.cart = c].attention = turn.copy.attention
    BY <1>1, <1>3
  <2> QED BY <1>1, <1>7, <2>1 DEF TurnResumes, TurnChangesCart
<1> QED BY <1>4, <1>5, <1>6, <1>7 DEF People

\* The rows of an intact reminder after a handoff, and after another save of people.
LEMMA TakenRows ==
  ASSUME NEW m \in Metadata, NEW a, meta' = Attend(m, a),
         undone' = undone \cup Undoes(m), NEW k \in Intact'
  PROVE  k \in Intact /\ Blocked(k)
<1>1. k \in Intact /\ \A s : Has(m.rows, k, s) <=> Has(meta.rows, k, s)
  BY SavedRows
<1>2. meta'.rows = BlockPending(m)
  BY DEF Attend, Metadata
<1> QED BY <1>1, <1>2, BlockEffect DEF Blocked

LEMMA KeptRows ==
  ASSUME NEW m, meta'.rows = m.rows, undone' = undone \cup Undoes(m), NEW k \in Intact'
  PROVE  k \in Intact /\ Same(k)
BY SavedRows DEF Same

LEMMA PeopleRows ==
  ASSUME LiveInv, People, NEW k \in Intact'
  PROVE  k \in Intact /\ (Same(k) \/ Blocked(k))
<1>1. TypeInv
  BY DEF LiveInv
<1>2. CASE meta' = meta /\ undone' = undone
  BY <1>2 DEF Same, Intact
<1> QED BY <1>1, <1>2, PeopleSave, TakenRows, KeptRows

LEMMA PeopleQuiet ==
  ASSUME LiveInv, People
  PROVE  SameTries /\ task' = task /\ accepted' = accepted /\ audit' = audit
<1>1. task' = task /\ accepted' = accepted /\ audit' = audit
  BY DEF People, Take, Resolve, Resume, OpenDesk, SaveDesk, DropDesk, OpenTurn, TurnResumes,
         TurnReplies, TurnChangesCart, DropTurn, memory
<1>2. SameTries
  BY PeopleRows DEF SameTries, Same, Blocked, Tried, Alive
<1> QED BY <1>1, <1>2

\* The planner adds its reminder to the copy, in which it is not queued.
LEMMA PlannedRows ==
  ASSUME LiveInv, NEW w \in Workers, SavePlan(w), NEW k \in Intact'
  PROVE  /\ k \in Intact
         /\ \A s : Has(meta'.rows, k, s) <=>
                   Has(meta.rows, k, s) \/ (k = task[w].key /\ s = "pending")
         /\ k = task[w].key => \A s \in Alive : ~Has(meta.rows, k, s)
<1> DEFINE m == task[w].copy
<1>1. m \in Metadata /\ task[w] \in Tasks
  BY DEF LiveInv, TypeInv, TypeOK, Tasks
<1>2. Agreeing(m.rows) /\ ~HasQueued(m.rows, task[w].key)
  BY DEF SavePlan, At, LiveInv, Sound
<1>3. meta'.rows = m.rows \cup {Row(task[w].key, "pending", 0)}
  BY <1>1 DEF SavePlan, Metadata
<1>4. undone' = undone \cup Undoes(m)
  BY DEF SavePlan
<1> HIDE DEF m
<1>5. k \in Intact /\ \A s : Has(m.rows, k, s) <=> Has(meta.rows, k, s)
  BY <1>4, SavedRows
<1>6. \A s : Has(meta'.rows, k, s) <=> Has(m.rows, k, s) \/ (k = task[w].key /\ s = "pending")
  BY <1>2, <1>3, AppendEffect
<1>7. k = task[w].key => \A s \in Alive : ~Has(m.rows, k, s)
  BY <1>2, WithHas
<1> QED BY <1>5, <1>6, <1>7

LEMMA BecomesNoHolder ==
  ASSUME TypeInv, NEW w \in Workers, NEW t, t.step \notin Holding, Becomes(w, t)
  PROVE  SameHolders
<1>1. task \in [Workers -> Tasks]
  BY DEF TypeInv, TypeOK
<1>2. \A v \in Workers : task'[v] = IF v = w THEN t ELSE task[v]
  BY <1>1 DEF Becomes
<1> QED BY <1>2 DEF SameHolders

LEMMA WorkersQuiet ==
  ASSUME LiveInv,
         \/ \E s \in Schedulers : Begin(s) \/ Fault(s)
         \/ \E c \in Crons : BeginCron(c)
         \/ \E w \in Workers : Crash(w) \/ Plan(w) \/ Reload(w)
  PROVE  Quiet
<1>1. TypeInv /\ \A k \in Keyed \ {"queued"} : k \in Holding
  BY DEF LiveInv, Keyed
<1>2. /\ \A w \in Workers : Ended(w).step \notin Holding /\ Planned(w).step \notin Holding
      /\ \A b \in BOOLEAN : Scanning(b).step \notin Holding
  BY <1>1, TasksTyped DEF Keyed
<1>3. ASSUME NEW s \in Schedulers, Begin(s) \/ Fault(s)
      PROVE  Quiet
  BY <1>1, <1>2, <1>3, BecomesNoHolder DEF Begin, Fault, Workers, Quiet, SameTries, Intact, memory
<1>4. ASSUME NEW c \in Crons, BeginCron(c)
      PROVE  Quiet
  BY <1>1, <1>2, <1>4, BecomesNoHolder DEF BeginCron, Workers, Quiet, SameTries, Intact, memory
<1>5. ASSUME NEW w \in Workers, Crash(w) \/ PlanNothing(w)
      PROVE  Quiet
  BY <1>1, <1>2, <1>5, BecomesNoHolder DEF Crash, PlanNothing, Quiet, SameTries, Intact, memory
<1>6. ASSUME NEW w \in Workers, PlanReminder(w)
      PROVE  Quiet
  <2> DEFINE t == [task[w] EXCEPT !.step = "queued", !.key = Reminder(w)]
  <2>1. t.step = "queued"
    BY <1>1 DEF TypeInv, TypeOK, Tasks
  <2>2. Becomes(w, t)
    BY <1>6 DEF PlanReminder
  <2> HIDE DEF t
  <2>3. SameHolders
    BY <1>1, <2>1, <2>2, BecomesNoHolder DEF Holding
  <2> QED BY <1>6, <2>3 DEF PlanReminder, Quiet, SameTries, Intact, memory
<1>7. ASSUME NEW w \in Workers, Reload(w)
      PROVE  Quiet
  <2> DEFINE t == [task[w] EXCEPT !.copy = meta]
  <2>1. t.step = "listed"
    BY <1>1, <1>7 DEF TypeInv, TypeOK, Tasks, Reload, At
  <2>2. Becomes(w, t)
    BY <1>7 DEF Reload
  <2> HIDE DEF t
  <2>3. SameHolders
    BY <1>1, <2>1, <2>2, BecomesNoHolder DEF Holding
  <2> QED BY <1>7, <2>3 DEF Reload, Quiet, SameTries, Intact, memory
<1>8. ASSUME NEW w \in Workers, SavePlan(w)
      PROVE  Quiet
  <2>1. SameHolders
    BY <1>1, <1>2, <1>8, BecomesNoHolder DEF SavePlan
  <2>2. SameTries
    BY <1>8, PlannedRows DEF SameTries, Tried, Alive
  <2> QED BY <1>8, <2>1, <2>2 DEF SavePlan, Quiet
<1> QED BY <1>3, <1>4, <1>5, <1>6, <1>7, <1>8 DEF Plan

LEMMA ListingQuiet ==
  ASSUME LiveInv, NEW w \in Workers,
         \/ List(w) \/ Recover(w) \/ NothingToRecover(w)
         \/ SkipPass(w) \/ DropPass(w) \/ OpenPass(w) \/ Finish(w)
         \/ \E k \in Keys : OutdatedItem(w, k) \/ LoseItem(w, k)
  PROVE  Quiet
<1>1. TypeInv /\ task[w] \in Tasks /\ meta \in Metadata
  BY DEF LiveInv, TypeInv, TypeOK
<1>2. Idle.step \notin Holding
  BY DEF Idle, Holding
<1>3. ASSUME NEW X, meta' = [meta EXCEPT !.rows = X]
      PROVE  meta'.rows = X
  BY <1>1, <1>3 DEF Metadata
<1>4. ASSUME NEW ks, meta' = [meta EXCEPT !.rows = Discard(@, ks)], undone' = undone
      PROVE  SameTries
  <2>1. meta'.rows = Discard(meta.rows, ks)
    BY <1>3, <1>4
  <2> QED BY <1>4, <2>1, DiscardTries DEF SameTries, Intact
<1>5. CASE List(w)
  <2> DEFINE t == [task[w] EXCEPT !.step = "listed", !.now = clock, !.copy = meta]
  <2>1. t.step \notin Holding
    BY <1>1 DEF Tasks, Holding
  <2>2. Becomes(w, t)
    BY <1>5 DEF List
  <2> HIDE DEF t
  <2> QED BY <1>1, <1>5, <2>1, <2>2, BecomesNoHolder DEF List, Quiet, SameTries, Intact, memory
<1>6. CASE Recover(w)
  <2> DEFINE t == [task[w] EXCEPT !.step = "screening", !.copy = meta']
  <2>1. t.step \notin Holding
    BY <1>1 DEF Tasks, Holding
  <2>2. Becomes(w, t)
    BY <1>6 DEF Recover
  <2> HIDE DEF t
  <2>3. meta'.rows = Recovered(w)
    BY <1>3, <1>6 DEF Recover, Recovered
  <2>4. SameTries
    BY <1>6, <2>3, RecoverEffect DEF Recover, SameTries, Intact, Tried, LiveInv
  <2> QED BY <1>1, <1>6, <2>1, <2>2, <2>4, BecomesNoHolder DEF Recover, Quiet
<1>7. CASE NothingToRecover(w)
  <2> DEFINE t == [task[w] EXCEPT !.step = "screening"]
  <2>1. t.step \notin Holding
    BY <1>1 DEF Tasks, Holding
  <2>2. Becomes(w, t)
    BY <1>7 DEF NothingToRecover, Goto
  <2> HIDE DEF t
  <2> QED BY <1>1, <1>7, <2>1, <2>2, BecomesNoHolder DEF NothingToRecover, Quiet, SameTries, Intact, memory
<1>8. CASE SkipPass(w) \/ Finish(w)
  BY <1>1, <1>2, <1>8, BecomesNoHolder DEF SkipPass, Finish, EndPass, Quiet, SameTries, Intact, memory
<1>9. CASE DropPass(w)
  <2>1. SameTries
    BY <1>4, <1>9 DEF DropPass
  <2> QED BY <1>1, <1>2, <1>9, <2>1, BecomesNoHolder DEF DropPass, EndPass, Quiet
<1>10. CASE OpenPass(w)
  <2> DEFINE t == [task[w] EXCEPT !.step = "items", !.todo = Due(w), !.anchor = latest,
                                  !.price = price,
                                  !.copy = [NoCopy EXCEPT !.cart = task[w].copy.cart]]
  <2>1. t.step \notin Holding
    BY <1>1 DEF Tasks, Holding
  <2>2. Becomes(w, t)
    BY <1>10 DEF OpenPass
  <2> HIDE DEF t
  <2> QED BY <1>1, <1>10, <2>1, <2>2, BecomesNoHolder DEF OpenPass, Quiet, SameTries, Intact, memory
<1>11. ASSUME NEW k \in Keys, OutdatedItem(w, k) \/ LoseItem(w, k)
       PROVE  Quiet
  <2> DEFINE t == [task[w] EXCEPT !.todo = @ \ {k}]
  <2>1. t.step \notin Holding
    BY <1>1, <1>11 DEF Tasks, Holding, OutdatedItem, LoseItem, At
  <2>2. Becomes(w, t)
    BY <1>11 DEF OutdatedItem, LoseItem
  <2> HIDE DEF t
  <2>3. /\ \/ meta' = [meta EXCEPT !.rows = Discard(@, {k})]
           \/ meta' = [meta EXCEPT !.rows = meta.rows]
        /\ undone' = undone
    BY <1>11 DEF OutdatedItem, LoseItem
  <2>4. SameTries
    BY <1>3, <1>4, <2>3 DEF SameTries, Intact
  <2> QED BY <1>1, <1>11, <2>1, <2>2, <2>4, BecomesNoHolder DEF OutdatedItem, LoseItem, Quiet
<1> QED BY <1>5, <1>6, <1>7, <1>8, <1>9, <1>10, <1>11

\* A worker claims a reminder that nobody has tried.
LEMMA ClaimKeepsSends ==
  ASSUME SendInv, LiveInv', NEW w \in Workers, NEW k \in Keys, ClaimItem(w, k)
  PROVE  SendInv'
<1>1. /\ task \in [Workers -> Tasks] /\ task[w] \in Tasks /\ meta \in Metadata
      /\ Agreeing(meta.rows)
  BY DEF SendInv, LiveInv, TypeInv, TypeOK
<1> DEFINE t == [task[w] EXCEPT !.step = "calling", !.todo = @ \ {k}, !.key = k]
<1>2. t.step = "calling" /\ t.key = k
  BY <1>1 DEF Tasks
<1>3. task' = [task EXCEPT ![w] = t]
  BY DEF ClaimItem, Becomes
<1> HIDE DEF t
<1>4. \A v \in Workers : task'[v] = IF v = w THEN t ELSE task[v]
  BY <1>1, <1>3
<1>5. ~Tried(meta.rows, k) /\ ~Has(meta.rows, k, "sent") /\ With(meta.rows, k, {"pending"}) # {}
  <2>1. /\ With(meta.rows, k, Blocking) = {}
        /\ With(meta.rows, k, {"pending"}) # {}
    BY DEF ClaimItem, Claimable
  <2> QED BY <2>1, WithHas DEF Blocking, Tried
<1>6. k \in Intact => accepted[k] = 0
  BY <1>5 DEF SendInv
<1>7. meta'.rows = Rewrite(meta.rows, k, {"pending"}, Row(k, "sending", task[w].now))
  BY <1>1 DEF ClaimItem, Metadata
<1>8. /\ \A j, st : j # k => (Has(meta'.rows, j, st) <=> Has(meta.rows, j, st))
      /\ \A st \in Alive : Has(meta'.rows, k, st) <=> st = "sending"
  BY <1>1, <1>5, <1>7, RewriteEffect DEF Alive
<1>9. Tried(meta'.rows, k) /\ ~Has(meta'.rows, k, "sent")
  BY <1>8 DEF Tried, Alive
<1>10. \A j : j # k => (Tried(meta'.rows, j) <=> Tried(meta.rows, j))
  BY <1>8 DEF Tried
<1>11. accepted' = accepted /\ audit' = audit /\ Intact' = Intact
  BY DEF ClaimItem, Intact
<1>12. \A v \in Workers : task[v].step \in Holding /\ task[v].key \in Intact => task[v].key # k
  BY <1>5 DEF SendInv
<1>13. \A v, u \in Workers :
         task'[v].step \in Holding /\ task'[u].step \in Holding
         /\ task'[v].key = task'[u].key /\ task'[v].key \in Intact' => v = u
  BY <1>2, <1>4, <1>11, <1>12 DEF SendInv
<1>14. \A v \in Workers : task'[v].key \in Intact' =>
         /\ task'[v].step \in Holding => Tried(meta'.rows, task'[v].key)
         /\ task'[v].step \in {"calling", "rejected"} => accepted'[task'[v].key] = 0
         /\ task'[v].step = "accepted" => accepted'[task'[v].key] = 1
  <2> SUFFICES ASSUME NEW v \in Workers, task'[v].key \in Intact
               PROVE  /\ task'[v].step \in Holding => Tried(meta'.rows, task'[v].key)
                      /\ task'[v].step \in {"calling", "rejected"} => accepted[task'[v].key] = 0
                      /\ task'[v].step = "accepted" => accepted[task'[v].key] = 1
    BY <1>11
  <2>1. CASE v = w
    BY <1>2, <1>4, <1>6, <1>9, <2>1
  <2>2. CASE v # w
    BY <1>4, <1>9, <1>10, <2>2 DEF SendInv
  <2> QED BY <2>1, <2>2
<1>15. \A j \in Intact' : /\ accepted'[j] \in {0, 1}
                          /\ accepted'[j] = 1 => Tried(meta'.rows, j) \/ Has(meta'.rows, j, "sent")
                          /\ Has(meta'.rows, j, "sent") => accepted'[j] = 1
                          /\ audit'[j] = IF Has(meta'.rows, j, "sent") THEN 1 ELSE 0
  BY <1>5, <1>8, <1>9, <1>10, <1>11 DEF SendInv
<1> QED BY <1>13, <1>14, <1>15 DEF SendInv

\* Steps of the worker that holds a reminder which leave the outbox alone.
LEMMA CallKeepsSends ==
  ASSUME SendInv, LiveInv', NEW w \in Workers, Accept(w) \/ Refuse(w) \/ MarkFails(w)
  PROVE  SendInv'
<1>1. /\ task \in [Workers -> Tasks] /\ task[w] \in Tasks
      /\ accepted \in [Keys -> 0..MaxSends] /\ TypeInv
  BY DEF SendInv, LiveInv, TypeInv, TypeOK
<1>2. task[w].step \in Holding /\ task[w].key \in Keys
  BY <1>1 DEF Accept, Refuse, MarkFails, At, Holding, Keyed, TypeInv
<1> DEFINE k == task[w].key
<1>3. PICK step \in {"accepted", "ambiguous", "rejected"} : Goto(w, step) /\ (step = "rejected" => Refuse(w))
                                                           /\ (step = "accepted" => Accept(w))
  BY DEF Accept, Refuse, MarkFails
<1>4. \A v \in Workers : /\ task'[v].key = task[v].key
                         /\ task'[v].step = IF v = w THEN step ELSE task[v].step
  BY <1>1, <1>3 DEF Goto, Becomes, Tasks
<1>5. step \in Holding
  BY DEF Holding
<1>6. meta' = meta /\ audit' = audit /\ Intact' = Intact
  BY DEF Accept, Refuse, MarkFails, memory, Intact
<1>7. \/ Accept(w) /\ accepted' = [accepted EXCEPT ![k] = accepted[k] + 1]
      \/ ~Accept(w) /\ accepted' = accepted
  BY DEF Accept, Refuse, MarkFails, memory
<1>8. \A j \in Keys : j # k => accepted'[j] = accepted[j]
  BY <1>1, <1>7
<1>9. \A v \in Workers : v # w /\ task[v].step \in Holding /\ task[v].key \in Intact => task[v].key # k
  BY <1>2 DEF SendInv
<1>10. \A v, u \in Workers :
         task'[v].step \in Holding /\ task'[u].step \in Holding
         /\ task'[v].key = task'[u].key /\ task'[v].key \in Intact' => v = u
  BY <1>2, <1>4, <1>6 DEF SendInv
\* What the step does to the worker's own reminder.
<1>11. ASSUME k \in Intact
       PROVE  /\ Tried(meta.rows, k) /\ accepted'[k] \in {0, 1}
              /\ step = "rejected" => accepted'[k] = 0
              /\ step = "accepted" => accepted'[k] = 1
              /\ Has(meta.rows, k, "sent") => accepted'[k] = 1
  <2>1. Tried(meta.rows, k) /\ accepted[k] \in {0, 1} /\ ~Has(meta.rows, k, "sent")
    <3>1. Tried(meta.rows, k) /\ accepted[k] \in {0, 1} /\ Agreeing(meta.rows)
      BY <1>2, <1>11 DEF SendInv, LiveInv
    <3> QED BY <3>1, OneStatus DEF Tried, Alive
  <2>2. ASSUME Accept(w) PROVE accepted[k] = 0 /\ accepted'[k] = 1
    BY <1>1, <1>2, <1>7, <1>11, <2>2 DEF Accept, At, SendInv
  <2>3. ASSUME Refuse(w) PROVE accepted[k] = 0 /\ accepted'[k] = 0
    BY <1>11, <2>3 DEF Refuse, At, SendInv, memory
  <2>4. accepted'[k] \in {0, 1}
    BY <1>7, <2>1, <2>2
  <2> QED BY <1>3, <2>1, <2>2, <2>3, <2>4
<1>12. \A v \in Workers : task'[v].key \in Intact' =>
         /\ task'[v].step \in Holding => Tried(meta'.rows, task'[v].key)
         /\ task'[v].step \in {"calling", "rejected"} => accepted'[task'[v].key] = 0
         /\ task'[v].step = "accepted" => accepted'[task'[v].key] = 1
  <2> SUFFICES ASSUME NEW v \in Workers, task[v].key \in Intact
               PROVE  /\ task'[v].step \in Holding => Tried(meta.rows, task[v].key)
                      /\ task'[v].step \in {"calling", "rejected"} => accepted'[task[v].key] = 0
                      /\ task'[v].step = "accepted" => accepted'[task[v].key] = 1
    BY <1>4, <1>6
  <2>1. CASE v = w
    <3>1. step # "calling"
      BY <1>3
    <3> QED BY <1>4, <1>11, <2>1, <3>1
  <2>2. CASE v # w
    <3>1. task[v].key \in Keys /\ task'[v].step = task[v].step
      BY <1>4, <2>2 DEF Intact
    <3>2. task[v].step \in Holding => accepted'[task[v].key] = accepted[task[v].key]
      BY <1>8, <1>9, <2>2, <3>1
    <3>3. \A s \in {"calling", "rejected", "accepted"} : s \in Holding
      BY DEF Holding
    <3> QED BY <3>1, <3>2, <3>3 DEF SendInv
  <2> QED BY <2>1, <2>2
<1>13. \A j \in Intact' : /\ accepted'[j] \in {0, 1}
                          /\ accepted'[j] = 1 => Tried(meta'.rows, j) \/ Has(meta'.rows, j, "sent")
                          /\ Has(meta'.rows, j, "sent") => accepted'[j] = 1
                          /\ audit'[j] = IF Has(meta'.rows, j, "sent") THEN 1 ELSE 0
  <2> SUFFICES ASSUME NEW j \in Intact
               PROVE  /\ accepted'[j] \in {0, 1}
                      /\ accepted'[j] = 1 => Tried(meta.rows, j) \/ Has(meta.rows, j, "sent")
                      /\ Has(meta.rows, j, "sent") => accepted'[j] = 1
                      /\ audit[j] = IF Has(meta.rows, j, "sent") THEN 1 ELSE 0
    BY <1>6
  <2>1. CASE j = k
    BY <1>11, <2>1 DEF SendInv
  <2>2. CASE j # k
    <3>1. accepted'[j] = accepted[j]
      BY <1>8, <2>2 DEF Intact
    <3> QED BY <3>1 DEF SendInv
  <2> QED BY <2>1, <2>2
<1> QED BY <1>10, <1>12, <1>13 DEF SendInv

\* The outcome is recorded in the row of the reminder, which is still there.
LEMMA SettleKeepsSends ==
  ASSUME SendInv, LiveInv', NEW w \in Workers,
         MarkSent(w) \/ MarkUncertain(w) \/ RecordFailure(w)
  PROVE  SendInv'
<1>1. /\ task \in [Workers -> Tasks] /\ task[w] \in Tasks /\ meta \in Metadata
      /\ TypeInv /\ Agreeing(meta.rows) /\ audit \in [Keys -> Nat]
  BY DEF SendInv, LiveInv, TypeInv, TypeOK
<1>2. task[w].step \in Holding /\ task[w].key \in Keys
  BY <1>1 DEF MarkSent, MarkUncertain, RecordFailure, At, Holding, Keyed, TypeInv
<1> DEFINE k == task[w].key
           t == [task[w] EXCEPT !.step = "items", !.key = NoKey]
<1>3. t.step = "items"
  BY <1>1 DEF Tasks
<1>4. Becomes(w, t)
  BY DEF MarkSent, MarkUncertain, RecordFailure, NextItem
<1> HIDE DEF t
<1>5. \A v \in Workers : task'[v] = IF v = w THEN t ELSE task[v]
  BY <1>1, <1>4 DEF Becomes
<1>6. accepted' = accepted /\ Intact' = Intact
  BY DEF MarkSent, MarkUncertain, RecordFailure, Intact
<1>7. \A v \in Workers : task'[v].step \in Holding =>
        v # w /\ task'[v] = task[v] /\ (task[v].key \in Intact => task[v].key # k)
  BY <1>2, <1>3, <1>5 DEF SendInv, Holding
<1>8. k \in Intact => Tried(meta.rows, k) /\ ~Has(meta.rows, k, "sent") /\ audit[k] = 0
  BY <1>1, <1>2, OneStatus DEF SendInv, Tried, Alive
<1>9. \A v, u \in Workers :
        task'[v].step \in Holding /\ task'[u].step \in Holding
        /\ task'[v].key = task'[u].key /\ task'[v].key \in Intact' => v = u
  BY <1>6, <1>7 DEF SendInv
\* What remains are the rows of k, which differ from one outcome to the other.
<1>10. ASSUME \A j : j # k => /\ Tried(meta'.rows, j) <=> Tried(meta.rows, j)
                              /\ Has(meta'.rows, j, "sent") <=> Has(meta.rows, j, "sent"),
              \A j \in Keys : j # k => audit'[j] = audit[j],
              k \in Intact =>
                /\ accepted[k] = 1 => Tried(meta'.rows, k) \/ Has(meta'.rows, k, "sent")
                /\ Has(meta'.rows, k, "sent") => accepted[k] = 1
                /\ audit'[k] = IF Has(meta'.rows, k, "sent") THEN 1 ELSE 0
       PROVE  SendInv'
  <2>1. \A v \in Workers : task'[v].key \in Intact' =>
          /\ task'[v].step \in Holding => Tried(meta'.rows, task'[v].key)
          /\ task'[v].step \in {"calling", "rejected"} => accepted'[task'[v].key] = 0
          /\ task'[v].step = "accepted" => accepted'[task'[v].key] = 1
    <3> SUFFICES ASSUME NEW v \in Workers, task'[v].step \in Holding, task'[v].key \in Intact
                 PROVE  /\ Tried(meta'.rows, task'[v].key)
                        /\ task'[v].step \in {"calling", "rejected"} => accepted[task'[v].key] = 0
                        /\ task'[v].step = "accepted" => accepted[task'[v].key] = 1
      BY <1>6 DEF Holding
    <3>1. task'[v] = task[v] /\ task[v].key # k
      BY <1>7
    <3>2. Tried(meta.rows, task[v].key)
      BY <3>1 DEF SendInv
    <3>3. Tried(meta'.rows, task[v].key)
      BY <1>10, <3>1, <3>2
    <3> QED BY <3>1, <3>3 DEF SendInv
  <2>2. \A j \in Intact' : /\ accepted'[j] \in {0, 1}
                           /\ accepted'[j] = 1 => Tried(meta'.rows, j) \/ Has(meta'.rows, j, "sent")
                           /\ Has(meta'.rows, j, "sent") => accepted'[j] = 1
                           /\ audit'[j] = IF Has(meta'.rows, j, "sent") THEN 1 ELSE 0
    <3> SUFFICES ASSUME NEW j \in Intact
                 PROVE  /\ accepted[j] \in {0, 1}
                        /\ accepted[j] = 1 => Tried(meta'.rows, j) \/ Has(meta'.rows, j, "sent")
                        /\ Has(meta'.rows, j, "sent") => accepted[j] = 1
                        /\ audit'[j] = IF Has(meta'.rows, j, "sent") THEN 1 ELSE 0
      BY <1>6
    <3>1. /\ accepted[j] \in {0, 1}
          /\ accepted[j] = 1 => Tried(meta.rows, j) \/ Has(meta.rows, j, "sent")
          /\ Has(meta.rows, j, "sent") => accepted[j] = 1
          /\ audit[j] = IF Has(meta.rows, j, "sent") THEN 1 ELSE 0
      BY DEF SendInv
    <3>2. CASE j = k
      BY <1>10, <3>1, <3>2
    <3>3. CASE j # k
      <4>1. /\ Tried(meta'.rows, j) <=> Tried(meta.rows, j)
            /\ Has(meta'.rows, j, "sent") <=> Has(meta.rows, j, "sent")
            /\ audit'[j] = audit[j]
        BY <1>10, <3>3 DEF Intact
      <4> QED BY <3>1, <4>1
    <3> QED BY <3>2, <3>3
  <2> QED BY <1>9, <2>1, <2>2 DEF SendInv
<1>11. ASSUME NEW from, \A x \in from : x \in Alive, NEW s \in Alive, NEW a,
              meta' = [meta EXCEPT !.rows = Rewrite(@, k, from, Row(k, s, a))]
       PROVE  /\ \A j : j # k => /\ Tried(meta'.rows, j) <=> Tried(meta.rows, j)
                                 /\ Has(meta'.rows, j, "sent") <=> Has(meta.rows, j, "sent")
              /\ With(meta.rows, k, from) # {} => \A st \in Alive : Has(meta'.rows, k, st) <=> st = s
              /\ With(meta.rows, k, from) = {} => meta'.rows = meta.rows
  <2>1. meta'.rows = Rewrite(meta.rows, k, from, Row(k, s, a))
    BY <1>1, <1>11 DEF Metadata
  <2> QED BY <1>1, <1>11, <2>1, RewriteEffect DEF Tried
<1>12. k \in Intact => With(meta.rows, k, {"sending", "uncertain"}) # {}
  BY <1>8, WithHas DEF Tried
<1>13. /\ \A x \in {"sending", "uncertain"} : x \in Alive
       /\ \A x \in {"sending"} : x \in Alive
       /\ "sent" \in Alive /\ "uncertain" \in Alive /\ "pending" \in Alive
  BY DEF Alive
<1>14. CASE MarkSent(w)
  <2>1. meta' = [meta EXCEPT !.rows = Rewrite(@, k, {"sending", "uncertain"}, Row(k, "sent", 0))]
    BY <1>14 DEF MarkSent
  <2>2. \A j \in Keys : j # k => audit'[j] = audit[j]
    BY <1>1, <1>14 DEF MarkSent
  <2>3. ASSUME k \in Intact
        PROVE  Has(meta'.rows, k, "sent") /\ audit'[k] = 1 /\ accepted[k] = 1
    <3>1. Has(meta'.rows, k, "sent")
      BY <1>11, <1>12, <1>13, <2>1, <2>3
    <3>2. audit' = [audit EXCEPT ![k] = @ + 1]
      BY <1>12, <1>14, <2>3 DEF MarkSent
    <3>3. accepted[k] = 1
      BY <1>14, <2>3 DEF MarkSent, At, SendInv
    <3> QED BY <1>1, <1>2, <1>8, <2>3, <3>1, <3>2, <3>3
  <2>4. \A j : j # k => /\ Tried(meta'.rows, j) <=> Tried(meta.rows, j)
                        /\ Has(meta'.rows, j, "sent") <=> Has(meta.rows, j, "sent")
    BY <1>11, <1>13, <2>1
  <2> QED BY <1>10, <2>2, <2>3, <2>4
<1>15. CASE MarkUncertain(w)
  <2>1. meta' = [meta EXCEPT !.rows = Rewrite(@, k, {"sending", "uncertain"}, Row(k, "uncertain", 0))]
    BY <1>15 DEF MarkUncertain
  <2>2. audit' = audit
    BY <1>15 DEF MarkUncertain
  <2>3. k \in Intact => Tried(meta'.rows, k) /\ ~Has(meta'.rows, k, "sent")
    BY <1>11, <1>12, <1>13, <2>1 DEF Tried
  <2>4. \A j : j # k => /\ Tried(meta'.rows, j) <=> Tried(meta.rows, j)
                        /\ Has(meta'.rows, j, "sent") <=> Has(meta.rows, j, "sent")
    BY <1>11, <1>13, <2>1
  <2> QED BY <1>8, <1>10, <2>2, <2>3, <2>4
<1>16. CASE RecordFailure(w)
  <2>1. meta' = [meta EXCEPT !.rows = Rewrite(@, k, {"sending"}, Row(k, "pending", NextAttempt))]
    BY <1>16 DEF RecordFailure
  <2>2. audit' = audit /\ (k \in Intact => accepted[k] = 0)
    BY <1>16 DEF RecordFailure, At, SendInv
  <2>3. k \in Intact => ~Has(meta'.rows, k, "sent")
    BY <1>8, <1>11, <1>13, <2>1
  <2>4. \A j : j # k => /\ Tried(meta'.rows, j) <=> Tried(meta.rows, j)
                        /\ Has(meta'.rows, j, "sent") <=> Has(meta.rows, j, "sent")
    BY <1>11, <1>13, <2>1
  <2> QED BY <1>8, <1>10, <2>2, <2>3, <2>4
<1> QED BY <1>14, <1>15, <1>16

LEMMA NextSends == SendInv /\ [Next]_vars => SendInv'
<1> SUFFICES ASSUME SendInv, [Next]_vars PROVE SendInv'
  OBVIOUS
<1>1. LiveInv /\ LiveInv'
  BY NextLive DEF SendInv
<1>2. CASE Tick \/ Reprice \/ UNCHANGED vars
  <2>1. Quiet
    BY <1>2 DEF Tick, Reprice, vars, memory, Quiet, SameTries, SameHolders, Intact
  <2> QED BY <1>1, <2>1, QuietKeepsSends
<1>3. CASE People
  <2>1. Quiet
    BY <1>1, <1>3, PeopleQuiet DEF Quiet, SameHolders
  <2> QED BY <1>1, <2>1, QuietKeepsSends
<1>4. ASSUME NEW w \in Workers, Deliver(w)
      PROVE  SendInv'
  BY <1>1, <1>4, ListingQuiet, QuietKeepsSends, ClaimKeepsSends, CallKeepsSends, SettleKeepsSends
     DEF Deliver
<1> QED BY <1>1, <1>2, <1>3, <1>4, WorkersQuiet, QuietKeepsSends DEF Next

\* Whatever is saved, a reminder whose own row no late save has replaced does not reach the
\* customer twice: not by two threads at once, not by a retry, not after a crash, not when an
\* expired claim is answered late.
THEOREM RemindersAreSentOnce == Spec => []SentOnce
<1>1. SendInv => SentOnce
  BY DEF SendInv, SentOnce, Intact
<1> QED BY <1>1, InitSends, NextSends, PTL DEF Spec

\* Of the same reminders the message history shows exactly those whose row says sent, and
\* all of them were accepted.
THEOREM HistoryFollowsOutbox == Spec => []HistoryMatchesOutbox
<1>1. SendInv => HistoryMatchesOutbox
  <2> SUFFICES ASSUME SendInv, NEW k \in Intact
               PROVE  /\ audit[k] = Cardinality(With(meta.rows, k, {"sent"}))
                      /\ audit[k] <= accepted[k]
    BY DEF HistoryMatchesOutbox, Intact
  <2>1. \A q, r \in With(meta.rows, k, {"sent"}) : q = r
    BY DEF With, SendInv, LiveInv, Agreeing, Alive
  <2>2. With(meta.rows, k, {"sent"}) # {} <=> Has(meta.rows, k, "sent")
    BY WithHas
  <2>3. accepted[k] \in {0, 1} /\ (Has(meta.rows, k, "sent") => accepted[k] = 1)
        /\ audit[k] = IF Has(meta.rows, k, "sent") THEN 1 ELSE 0
    BY DEF SendInv
  <2>4. CASE With(meta.rows, k, {"sent"}) = {}
    BY <2>2, <2>3, <2>4, FS_EmptySet
  <2>5. CASE \E q : With(meta.rows, k, {"sent"}) = {q}
    <3>1. PICK q : With(meta.rows, k, {"sent"}) = {q}
      BY <2>5
    <3>2. Cardinality({q}) = 1
      BY FS_Singleton
    <3> QED BY <2>2, <2>3, <3>1, <3>2
  <2> QED BY <2>1, <2>4, <2>5
<1> QED BY <1>1, InitSends, NextSends, PTL DEF Spec

--------------------------------------------------------------------------------
(* An unknown outcome is only reconciled *)

Reconciled ==
  \A k \in Intact' :
    Has(meta.rows, k, "uncertain") => Has(meta'.rows, k, "uncertain") \/ Has(meta'.rows, k, "sent")

LEMMA DiscardReconciles ==
  ASSUME NEW ks, meta'.rows = Discard(meta.rows, ks)
  PROVE  Reconciled
BY DiscardEffect DEF Reconciled, Alive

LEMMA WorkersReconcile ==
  ASSUME LiveInv,
         \/ \E s \in Schedulers : Begin(s) \/ Fault(s)
         \/ \E c \in Crons : BeginCron(c)
         \/ \E w \in Workers : Crash(w) \/ Plan(w) \/ Reload(w)
  PROVE  Reconciled
<1>1. ASSUME NEW w \in Workers, SavePlan(w)
      PROVE  Reconciled
  BY <1>1, PlannedRows DEF Reconciled
<1> QED BY <1>1 DEF Begin, Fault, BeginCron, Crash, Plan, PlanReminder, PlanNothing, Reload,
                    memory, Reconciled

LEMMA DeliveryReconciles ==
  ASSUME LiveInv, NEW w \in Workers, Deliver(w)
  PROVE  Reconciled
<1>1. meta \in Metadata /\ Agreeing(meta.rows)
  BY DEF LiveInv, TypeInv, TypeOK
<1>2. ASSUME NEW X, meta' = [meta EXCEPT !.rows = X]
      PROVE  meta'.rows = X
  BY <1>1, <1>2 DEF Metadata
<1>3. CASE \/ List(w) \/ NothingToRecover(w) \/ SkipPass(w) \/ OpenPass(w) \/ Finish(w)
           \/ Accept(w) \/ Refuse(w) \/ MarkFails(w)
  BY <1>3 DEF List, NothingToRecover, SkipPass, OpenPass, Finish, Accept, Refuse, MarkFails,
              memory, Reconciled
<1>4. CASE Recover(w)
  <2>1. meta'.rows = Recovered(w)
    BY <1>2, <1>4 DEF Recover, Recovered
  <2> QED BY <1>1, <2>1, RecoverEffect DEF Reconciled
<1>5. CASE DropPass(w)
  <2>1. meta'.rows = Discard(meta.rows, Due(w))
    BY <1>2, <1>5 DEF DropPass
  <2> QED BY <2>1, DiscardReconciles
<1>6. ASSUME NEW k \in Keys, OutdatedItem(w, k) \/ LoseItem(w, k)
      PROVE  Reconciled
  <2>1. meta'.rows = Discard(meta.rows, {k}) \/ meta'.rows = meta.rows
    BY <1>2, <1>6 DEF OutdatedItem, LoseItem
  <2> QED BY <2>1, DiscardReconciles DEF Reconciled
\* A search by key leaves every other reminder alone.
<1>7. ASSUME NEW k, NEW from \in SUBSET Alive, NEW t \in Alive, NEW a,
             meta' = [meta EXCEPT !.rows = Rewrite(@, k, from, Row(k, t, a))],
             \/ t \in {"uncertain", "sent"}
             \/ With(meta.rows, k, from) # {} => ~Has(meta.rows, k, "uncertain")
      PROVE  Reconciled
  <2>1. meta'.rows = Rewrite(meta.rows, k, from, Row(k, t, a))
    BY <1>2, <1>7
  <2>2. ASSUME NEW j, Has(meta.rows, j, "uncertain")
        PROVE  Has(meta'.rows, j, "uncertain") \/ Has(meta'.rows, j, "sent")
    <3>1. CASE j # k \/ With(meta.rows, k, from) = {}
      BY <1>1, <2>1, <2>2, <3>1, RewriteEffect
    <3>2. CASE j = k /\ With(meta.rows, k, from) # {}
      <4>1. t \in {"uncertain", "sent"}
        BY <1>7, <2>2, <3>2
      <4>2. Has(meta'.rows, k, t)
        BY <1>1, <2>1, <3>2, RewriteEffect
      <4> QED BY <3>2, <4>1, <4>2
    <3> QED BY <3>1, <3>2
  <2> QED BY <2>2 DEF Reconciled
<1>8. ASSUME NEW k \in Keys, ClaimItem(w, k)
      PROVE  Reconciled
  <2>1. With(meta.rows, k, Blocking) = {}
    BY <1>8 DEF ClaimItem, Claimable
  <2>2. ~Has(meta.rows, k, "uncertain")
    BY <2>1, WithHas DEF Blocking
  <2>3. meta' = [meta EXCEPT !.rows = Rewrite(@, k, {"pending"}, Row(k, "sending", task[w].now))]
    BY <1>8 DEF ClaimItem
  <2>4. {"pending"} \in SUBSET Alive /\ "sending" \in Alive
    BY DEF Alive
  <2> QED BY <1>7, <2>2, <2>3, <2>4
<1>9. {"sending", "uncertain"} \in SUBSET Alive /\ {"sending"} \in SUBSET Alive
      /\ "sent" \in Alive /\ "uncertain" \in Alive /\ "pending" \in Alive
  BY DEF Alive
<1>10. CASE MarkSent(w)
  <2>1. meta' = [meta EXCEPT !.rows =
          Rewrite(@, task[w].key, {"sending", "uncertain"}, Row(task[w].key, "sent", 0))]
    BY <1>10 DEF MarkSent
  <2> QED BY <1>7, <1>9, <2>1
<1>11. CASE MarkUncertain(w)
  <2>1. meta' = [meta EXCEPT !.rows =
          Rewrite(@, task[w].key, {"sending", "uncertain"}, Row(task[w].key, "uncertain", 0))]
    BY <1>11 DEF MarkUncertain
  <2> QED BY <1>7, <1>9, <2>1
\* A rejected reminder goes back to the queue only if its row still says "sending".
<1>12. CASE RecordFailure(w)
  <2> DEFINE k == task[w].key
  <2>1. meta' = [meta EXCEPT !.rows =
          Rewrite(@, k, {"sending"}, Row(k, "pending", NextAttempt))]
    BY <1>12 DEF RecordFailure
  <2>2. With(meta.rows, k, {"sending"}) # {} => ~Has(meta.rows, k, "uncertain")
    <3>1. With(meta.rows, k, {"sending"}) # {} => Has(meta.rows, k, "sending")
      BY WithHas
    <3> QED BY <1>1, <1>9, <3>1, OneStatus DEF Alive
  <2> QED BY <1>7, <1>9, <2>1, <2>2
<1> QED BY <1>3, <1>4, <1>5, <1>6, <1>8, <1>10, <1>11, <1>12 DEF Deliver

\* A reminder whose outcome is unknown is only ever reported as sent: no step but a late save
\* over its row queues, claims or drops it again.
THEOREM UncertainIsReconciled == Spec => UncertainIsNotRetried
<1> DEFINE Kept == \A k \in Keys \ undone' : With(meta.rows, k, {"uncertain"}) # {} =>
                     /\ With(meta.rows, k, {"uncertain", "sent"})' # {}
                     /\ With(meta.rows, k, {"pending", "sending"})' = {}
<1>1. LiveInv /\ [Next]_vars => [Kept]_vars
  <2> SUFFICES ASSUME LiveInv, Next, NEW k \in Intact', With(meta.rows, k, {"uncertain"}) # {}
               PROVE  /\ With(meta'.rows, k, {"uncertain", "sent"}) # {}
                      /\ With(meta'.rows, k, {"pending", "sending"}) = {}
    BY DEF With, Intact
  <2>1. ASSUME People PROVE Reconciled
    BY <2>1, PeopleRows DEF Reconciled, Same, Blocked, Alive
  <2>2. ASSUME Tick \/ Reprice PROVE Reconciled
    BY <2>2 DEF Tick, Reprice, memory, Reconciled
  <2>3. Reconciled
    BY <2>1, <2>2, WorkersReconcile, DeliveryReconciles DEF Next
  <2>4. Has(meta.rows, k, "uncertain")
    BY WithHas
  <2>5. Has(meta'.rows, k, "uncertain") \/ Has(meta'.rows, k, "sent")
    BY <2>3, <2>4 DEF Reconciled
  <2>6. Agreeing(meta'.rows)
    BY NextLive DEF LiveInv
  <2>7. ~Has(meta'.rows, k, "pending") /\ ~Has(meta'.rows, k, "sending")
    BY <2>5, <2>6, OneStatus DEF Alive
  <2>8. With(meta'.rows, k, {"uncertain", "sent"}) # {}
    BY <2>5, WithHas
  <2>9. With(meta'.rows, k, {"pending", "sending"}) = {}
    BY <2>7, WithHas
  <2> QED BY <2>8, <2>9
<1> QED BY <1>1, InitLive, NextLive, PTL DEF Spec, UncertainIsNotRetried

--------------------------------------------------------------------------------
(* What an operator who takes the conversation over can rely on *)

\* A pass that may still claim something.
Passing(t) == \/ t.step \in Holding \cup {"items"}
              \/ t.step \in {"listed", "screening"} /\ ~ByOperator(t.copy.attention)

Later(rows, now) == \A r \in rows : r.status = "pending" => r.at > now

Attended == ByOperator(meta.attention)

\* While the conversation is an operator's, what came back rejected waits for longer than
\* any pass under way looks.
HandoffInv ==
  /\ LiveInv
  /\ \A w \in Workers : task[w].now <= clock
  /\ \A w \in Workers : task[w].step = "queued" => ~ByOperator(task[w].copy.attention)
  /\ Attended => \A w \in Workers : Passing(task[w]) => Later(meta.rows, task[w].now)

LEMMA InitHandoff == Init => HandoffInv
<1> SUFFICES ASSUME Init PROVE HandoffInv
  OBVIOUS
<1>1. \A w \in Workers : task[w].step = "idle" /\ task[w].now = 0
  BY DEF Init, Idle
<1>2. ~Attended
  BY DEF Init, Attended, ByOperator
<1> QED BY <1>1, <1>2, InitLive DEF Init, HandoffInv

\* Nothing becomes pending during a handoff, and none begins.
Calm ==
  Attended' => /\ Attended
               /\ \A r \in meta'.rows : r.status = "pending" => r \in meta.rows

\* A task that does not start looking for reminders during a handoff.
Patient(t, u) ==
  /\ u.now <= clock
  /\ u.step = "queued" => ~ByOperator(u.copy.attention)
  /\ Attended /\ Passing(u) => Passing(t) /\ u.now = t.now

LEMMA CalmStep ==
  ASSUME NEW w \in Workers, NEW t, HandoffInv, LiveInv', clock' = clock, Calm,
         Patient(task[w], t), Becomes(w, t)
  PROVE  HandoffInv'
<1>1. task \in [Workers -> Tasks]
  BY DEF HandoffInv, LiveInv, TypeInv, TypeOK
<1>2. \A v \in Workers : task'[v] = IF v = w THEN t ELSE task[v]
  BY <1>1 DEF Becomes
<1>3. \A v \in Workers : Patient(task[v], task'[v])
  BY <1>2 DEF HandoffInv, Patient
<1> HIDE DEF Passing
<1>4. Attended' => \A v \in Workers : Passing(task'[v]) => Later(meta'.rows, task'[v].now)
  BY <1>3 DEF HandoffInv, Calm, Patient, Later
<1> QED BY <1>3, <1>4 DEF HandoffInv, Calm, Patient

\* Steps that leave the conversation alone.
LEMMA SameConversation == meta' = meta => Calm
BY DEF Attended, Calm

\* Steps that only change the outbox.
LEMMA SameAttention ==
  ASSUME NEW X, HandoffInv, meta' = [meta EXCEPT !.rows = X],
         Attended => \A r \in X : r.status = "pending" => r \in meta.rows
  PROVE  Calm
<1>1. meta'.rows = X /\ meta'.attention = meta.attention
  BY DEF HandoffInv, LiveInv, TypeInv, TypeOK, Metadata
<1> QED BY <1>1 DEF Attended, Calm

LEMMA FreshPatient ==
  ASSUME HandoffInv
  PROVE  \A w \in Workers : /\ Patient(task[w], Idle)
                            /\ Patient(task[w], Ended(w)) /\ Patient(task[w], Planned(w))
                            /\ \A b : Patient(task[w], Scanning(b))
<1>1. clock \in Nat
  BY BoundsAssumption DEF HandoffInv, LiveInv, TypeInv, TypeOK
<1>2. \A b : Scanning(b).step = "planning" /\ Scanning(b).now = clock
  BY DEF Scanning, Idle
<1>3. Idle.step = "idle" /\ Idle.now = 0
  BY DEF Idle
<1>4. \A w : Ended(w).step \in {"idle", "ended"} /\ Ended(w).now = 0
  BY DEF Ended, Idle
<1>5. \A w : Planned(w).step \in {"planned", "idle", "ended"} /\ Planned(w).now = 0
  BY <1>4 DEF Planned, Idle
<1> QED BY <1>1, <1>2, <1>3, <1>4, <1>5 DEF Patient, Passing, Holding

LEMMA WorkersHandoff ==
  ASSUME HandoffInv, LiveInv',
         \/ \E s \in Schedulers : Begin(s) \/ Fault(s)
         \/ \E c \in Crons : BeginCron(c)
         \/ \E w \in Workers : Crash(w) \/ Plan(w) \/ Reload(w)
  PROVE  HandoffInv'
<1>1. task \in [Workers -> Tasks] /\ meta \in Metadata
  BY DEF HandoffInv, LiveInv, TypeInv, TypeOK
<1>2. ASSUME NEW s \in Schedulers, Begin(s) \/ Fault(s)
      PROVE  HandoffInv'
  BY <1>2, CalmStep, SameConversation, FreshPatient DEF Begin, Fault, Workers, memory, world
<1>3. ASSUME NEW c \in Crons, BeginCron(c)
      PROVE  HandoffInv'
  BY <1>3, CalmStep, SameConversation, FreshPatient DEF BeginCron, Workers, memory, world
<1>4. ASSUME NEW w \in Workers, Crash(w) \/ PlanNothing(w)
      PROVE  HandoffInv'
  BY <1>4, CalmStep, SameConversation, FreshPatient DEF Crash, PlanNothing, memory, world
<1>5. ASSUME NEW w \in Workers, PlanReminder(w)
      PROVE  HandoffInv'
  <2> DEFINE t == [task[w] EXCEPT !.step = "queued", !.key = Reminder(w)]
  <2>1. t.step = "queued" /\ t.now = task[w].now /\ t.copy = task[w].copy
    BY <1>1 DEF Tasks
  <2>2. Becomes(w, t) /\ ~ByOperator(task[w].copy.attention)
    BY <1>5 DEF PlanReminder
  <2> HIDE DEF t
  <2>3. Patient(task[w], t)
    BY <2>1, <2>2 DEF Patient, Passing, Holding, HandoffInv
  <2> QED BY <1>5, <2>2, <2>3, CalmStep, SameConversation DEF PlanReminder, memory, world
\* The planner only saves copies that give the conversation to the AI.
<1>6. ASSUME NEW w \in Workers, SavePlan(w)
      PROVE  HandoffInv'
  <2>1. ~ByOperator(task[w].copy.attention) /\ task[w].copy \in Metadata
    BY <1>1, <1>6 DEF SavePlan, At, HandoffInv, Tasks
  <2>2. meta'.attention = task[w].copy.attention
    BY <1>6, <2>1 DEF SavePlan, Metadata
  <2>3. Calm
    BY <2>1, <2>2 DEF Calm, Attended
  <2> QED BY <1>6, <2>3, CalmStep, FreshPatient DEF SavePlan, world
<1>7. ASSUME NEW w \in Workers, Reload(w)
      PROVE  HandoffInv'
  <2> DEFINE t == [task[w] EXCEPT !.copy = meta]
  <2>1. t.step = "listed" /\ t.copy = meta /\ t.now = task[w].now
    BY <1>1, <1>7 DEF Tasks, Reload, At
  <2>2. Becomes(w, t)
    BY <1>7 DEF Reload
  <2> HIDE DEF t
  <2>3. Patient(task[w], t)
    BY <2>1 DEF Patient, Passing, Holding, HandoffInv, Attended
  <2> QED BY <1>7, <2>2, <2>3, CalmStep, SameConversation DEF Reload, memory, world
<1> QED BY <1>2, <1>3, <1>4, <1>5, <1>6, <1>7 DEF Plan

LEMMA PeopleHandoff ==
  ASSUME HandoffInv, LiveInv', People
  PROVE  HandoffInv'
<1>1. task' = task
  BY PeopleQuiet DEF HandoffInv
<1>2. clock' = clock
  BY DEF People, Take, Resolve, Resume, OpenDesk, SaveDesk, DropDesk, OpenTurn, TurnResumes,
         TurnReplies, TurnChangesCart, DropTurn, memory, world
\* An operator takes the conversation: nothing stays pending.
<1>3. ASSUME NEW m \in Metadata, NEW a, meta' = Attend(m, a)
      PROVE  HandoffInv'
  <2>1. meta'.rows = BlockPending(m)
    BY <1>3 DEF Attend, Metadata
  <2>2. \A r \in meta'.rows : r.status # "pending"
    BY <2>1 DEF BlockPending, Discard, Row
  <2> QED BY <1>1, <1>2, <2>2 DEF HandoffInv, Later
\* The other steps of people leave it as it is, or give it to the AI.
<1>4. ASSUME meta' = meta \/ meta'.attention = "ai"
      PROVE  HandoffInv'
  <2>1. Calm
    BY <1>4, SameConversation DEF Calm, Attended, ByOperator
  <2> QED BY <1>1, <1>2, <2>1 DEF HandoffInv, Calm, Later
<1> QED BY <1>3, <1>4, PeopleSave DEF HandoffInv, LiveInv

LEMMA DeliverHandoff ==
  ASSUME HandoffInv, LiveInv', NEW w \in Workers, Deliver(w)
  PROVE  HandoffInv'
<1>1. /\ task \in [Workers -> Tasks] /\ meta \in Metadata /\ task[w] \in Tasks
      /\ clock \in Nat /\ Agreeing(meta.rows)
  BY BoundsAssumption DEF HandoffInv, LiveInv, TypeInv, TypeOK
<1>2. task[w].now <= clock
  BY DEF HandoffInv
<1>3. clock' = clock
  BY DEF Deliver, List, Recover, NothingToRecover, SkipPass, DropPass, OpenPass,
         OutdatedItem, ClaimItem, LoseItem, Finish, Accept, Refuse, MarkSent, MarkFails,
         MarkUncertain, RecordFailure, memory, world
<1>4. ASSUME NEW t, Becomes(w, t), Calm, t.step \in Steps \ {"queued"}, t.now = task[w].now,
             Passing(t) => Passing(task[w])
      PROVE  HandoffInv'
  BY <1>2, <1>3, <1>4, CalmStep DEF Patient
<1>5. Idle.step = "idle" /\ Idle.now = 0 /\ Patient(task[w], Idle)
  BY FreshPatient DEF Idle
<1>6. CASE List(w)
  <2> DEFINE t == [task[w] EXCEPT !.step = "listed", !.now = clock, !.copy = meta]
  <2>1. t.step = "listed" /\ t.copy = meta /\ t.now = clock
    BY <1>1 DEF Tasks
  <2>2. Becomes(w, t) /\ Calm
    BY <1>3, <1>6, SameConversation DEF List, memory
  <2> HIDE DEF t
  <2>3. Patient(task[w], t)
    BY <1>1, <2>1 DEF Patient, Passing, Holding, HandoffInv, Attended
  <2> QED BY <1>3, <2>2, <2>3, CalmStep
<1>7. CASE Recover(w)
  <2> DEFINE t == [task[w] EXCEPT !.step = "screening", !.copy = meta']
  <2>1. t.step = "screening" /\ t.copy = meta' /\ t.now = task[w].now
    BY <1>1 DEF Tasks
  <2>2. Becomes(w, t) /\ meta' = [meta EXCEPT !.rows = Recovered(w)]
    BY <1>7 DEF Recover, Recovered
  <2>3. Calm
    BY <1>1, <1>3, <2>2, SameAttention, RecoverEffect
  <2> HIDE DEF t
  <2>4. Patient(task[w], t)
    <3>1. meta'.attention = meta.attention
      BY <1>1, <2>2 DEF Metadata
    <3> QED BY <1>2, <2>1, <3>1 DEF Patient, Passing, Holding, Attended
  <2> QED BY <1>3, <2>2, <2>3, <2>4, CalmStep
<1>8. CASE NothingToRecover(w)
  <2> DEFINE t == [task[w] EXCEPT !.step = "screening"]
  <2>1. t.step = "screening" /\ t.copy = task[w].copy /\ t.now = task[w].now /\ task[w].step = "listed"
    BY <1>1, <1>8 DEF Tasks, NothingToRecover, At
  <2>2. Becomes(w, t) /\ Calm
    BY <1>3, <1>8, SameConversation DEF NothingToRecover, Goto, memory
  <2> HIDE DEF t
  <2> QED BY <1>4, <2>1, <2>2 DEF Passing, Holding, Steps
<1>9. CASE SkipPass(w) \/ Finish(w)
  BY <1>3, <1>5, <1>9, CalmStep, SameConversation DEF SkipPass, Finish, EndPass, memory
<1>10. ASSUME NEW ks, meta' = [meta EXCEPT !.rows = Discard(@, ks)]
       PROVE  Calm
  <2>1. \A r \in Discard(meta.rows, ks) : r.status = "pending" => r \in meta.rows
    BY DiscardEffect DEF Alive
  <2> QED BY <1>10, <2>1, SameAttention
<1>11. CASE DropPass(w)
  BY <1>3, <1>5, <1>10, <1>11, CalmStep DEF DropPass, EndPass
<1>12. CASE OpenPass(w)
  <2> DEFINE t == [task[w] EXCEPT !.step = "items", !.todo = Due(w), !.anchor = latest,
                                  !.price = price,
                                  !.copy = [NoCopy EXCEPT !.cart = task[w].copy.cart]]
  <2>1. t.step = "items" /\ t.now = task[w].now
    BY <1>1 DEF Tasks
  <2>2. Becomes(w, t) /\ Calm /\ Passing(task[w])
    BY <1>3, <1>12, SameConversation DEF OpenPass, memory, Passing, At
  <2> HIDE DEF t
  <2> QED BY <1>4, <2>1, <2>2 DEF Steps
<1>13. ASSUME NEW k \in Keys, OutdatedItem(w, k) \/ LoseItem(w, k)
       PROVE  HandoffInv'
  <2> DEFINE t == [task[w] EXCEPT !.todo = @ \ {k}]
  <2>1. t.step = "items" /\ task[w].step = "items" /\ t.now = task[w].now
    BY <1>1, <1>13 DEF Tasks, OutdatedItem, LoseItem, At
  <2>2. Becomes(w, t)
    BY <1>13 DEF OutdatedItem, LoseItem
  <2> HIDE DEF t
  <2>3. \/ meta' = [meta EXCEPT !.rows = Discard(@, {k})]
        \/ meta' = [meta EXCEPT !.rows = meta.rows]
    BY <1>13 DEF OutdatedItem, LoseItem
  <2>4. Calm
    BY <1>3, <1>10, <2>3, SameAttention
  <2> QED BY <1>4, <2>1, <2>2, <2>4 DEF Passing, Steps
<1>14. ASSUME NEW k, NEW from \in SUBSET Alive, NEW s \in Alive \ {"pending"}, NEW a,
              meta' = [meta EXCEPT !.rows = Rewrite(@, k, from, Row(k, s, a))]
       PROVE  Calm
  <2>1. \A r \in Rewrite(meta.rows, k, from, Row(k, s, a)) : r.status = "pending" => r \in meta.rows
    BY <1>1, <1>14, RewriteEffect, RowFields
  <2> QED BY <1>3, <1>14, <2>1, SameAttention
<1>15. /\ {"pending"} \in SUBSET Alive /\ {"sending", "uncertain"} \in SUBSET Alive
       /\ {"sending"} \in SUBSET Alive
       /\ \A s \in {"sending", "sent", "uncertain"} : s \in Alive \ {"pending"}
  BY DEF Alive
<1>16. ASSUME NEW k \in Keys, ClaimItem(w, k)
       PROVE  HandoffInv'
  <2> DEFINE t == [task[w] EXCEPT !.step = "calling", !.todo = @ \ {k}, !.key = k]
  <2>1. t.step = "calling" /\ task[w].step = "items" /\ t.now = task[w].now
    BY <1>1, <1>16 DEF Tasks, ClaimItem, At
  <2>2. Becomes(w, t)
    BY <1>16 DEF ClaimItem
  <2> HIDE DEF t
  <2>3. Calm
    BY <1>14, <1>15, <1>16 DEF ClaimItem
  <2> QED BY <1>4, <2>1, <2>2, <2>3 DEF Passing, Steps
<1>17. ASSUME NEW step \in Holding, task[w].step \in Holding, Goto(w, step), meta' = meta
       PROVE  HandoffInv'
  <2> DEFINE t == [task[w] EXCEPT !.step = step]
  <2>1. t.step = step /\ t.now = task[w].now
    BY <1>1 DEF Tasks
  <2>2. Becomes(w, t) /\ Calm
    BY <1>3, <1>17, SameConversation DEF Goto
  <2> HIDE DEF t
  <2> QED BY <1>4, <1>17, <2>1, <2>2 DEF Passing, Holding, Steps
<1>18. CASE Accept(w) \/ Refuse(w) \/ MarkFails(w)
  BY <1>17, <1>18 DEF Accept, Refuse, MarkFails, At, Holding, memory
\* The outcome is recorded, and the pass goes on with its next item.
<1> DEFINE k == task[w].key
           t == [task[w] EXCEPT !.step = "items", !.key = NoKey]
<1>19. t.step = "items" /\ t.now = task[w].now
  BY <1>1 DEF Tasks
<1>20. ASSUME MarkSent(w) \/ MarkUncertain(w) \/ RecordFailure(w)
       PROVE  Becomes(w, t) /\ Passing(task[w])
  BY <1>20 DEF MarkSent, MarkUncertain, RecordFailure, NextItem, At, Passing, Holding
<1> HIDE DEF t
<1>21. CASE MarkSent(w) \/ MarkUncertain(w)
  <2>1. Calm
    BY <1>14, <1>15, <1>21 DEF MarkSent, MarkUncertain
  <2> QED BY <1>4, <1>19, <1>20, <1>21, <2>1 DEF Steps
\* What comes back rejected waits beyond every pass under way.
<1>22. CASE RecordFailure(w)
  <2>1. meta' = [meta EXCEPT !.rows = Rewrite(@, k, {"sending"}, Row(k, "pending", NextAttempt))]
    BY <1>22 DEF RecordFailure
  <2>2. /\ meta'.rows = Rewrite(meta.rows, k, {"sending"}, Row(k, "pending", NextAttempt))
        /\ meta'.attention = meta.attention
    BY <1>1, <2>1 DEF Metadata
  <2>3. \A r \in meta'.rows : r \in meta.rows \/ r.at = NextAttempt
    BY <1>1, <1>15, <2>2, RewriteEffect, RowFields DEF Alive
  <2>4. \A v \in Workers : task'[v] = IF v = w THEN t ELSE task[v]
    BY <1>1, <1>20, <1>22 DEF Becomes
  <2>5. \A v \in Workers : /\ task'[v].now = task[v].now /\ task[v].now <= clock
                           /\ task[v].now \in Nat
                           /\ task'[v].step = "queued" => ~ByOperator(task'[v].copy.attention)
                           /\ Passing(task'[v]) => Passing(task[v])
    <3>1. \A v \in Workers : task[v].now \in Nat
      BY <1>1, BoundsAssumption DEF Tasks
    <3> QED BY <1>19, <1>20, <1>22, <2>4, <3>1 DEF HandoffInv
  <2>6. NextAttempt > clock /\ \A v \in Workers : NextAttempt > task[v].now
    BY <1>1, <2>5, DelaysAssumption DEF NextAttempt
  <2>7. Attended' => \A v \in Workers : Passing(task'[v]) => Later(meta'.rows, task'[v].now)
    BY <2>2, <2>3, <2>5, <2>6 DEF HandoffInv, Attended, Later
  <2> QED BY <1>3, <2>5, <2>7 DEF HandoffInv
<1> QED BY <1>6, <1>7, <1>8, <1>9, <1>11, <1>12, <1>13, <1>16, <1>18, <1>21, <1>22 DEF Deliver

LEMMA NextHandoff == HandoffInv /\ [Next]_vars => HandoffInv'
<1> SUFFICES ASSUME HandoffInv, [Next]_vars PROVE HandoffInv'
  OBVIOUS
<1>1. LiveInv'
  BY NextLive DEF HandoffInv
<1>2. CASE Tick
  <2>1. clock \in Nat /\ \A w \in Workers : task[w].now \in Nat
    BY BoundsAssumption DEF HandoffInv, LiveInv, TypeInv, TypeOK, Tasks
  <2> QED BY <1>1, <1>2, <2>1 DEF Tick, memory, HandoffInv, Attended
<1>3. CASE Reprice \/ UNCHANGED vars
  BY <1>1, <1>3 DEF Reprice, vars, memory, world, HandoffInv, Attended
<1> QED BY <1>1, <1>2, <1>3, WorkersHandoff, PeopleHandoff, DeliverHandoff DEF Next

--------------------------------------------------------------------------------
(* No claim during a handoff *)

\* What a pass may claim is due, and during a handoff every pending row waits for longer.
LEMMA ClaimsOnlyForAI ==
  ASSUME HandoffInv, NEW w \in Workers, NEW k \in Keys, ClaimItem(w, k)
  PROVE  ~Attended
<1>1. PICK r \in meta.rows : r.status = "pending" /\ r.at <= task[w].now
  BY DEF ClaimItem, Claimable, With
<1>2. meta.rows \in SUBSET Rows /\ task[w].now \in 0..MaxClock
  BY DEF HandoffInv, LiveInv, TypeInv, TypeOK, Metadata, Tasks
<1>3. r.at \in Int /\ task[w].now \in Int
  BY <1>2, DelaysAssumption, BoundsAssumption DEF Rows
<1>4. Passing(task[w])
  BY DEF ClaimItem, At, Passing
<1> QED BY <1>1, <1>3, <1>4 DEF HandoffInv, Later

NoClaim == \A k \in Intact' : Has(meta'.rows, k, "sending") => Has(meta.rows, k, "sending")

LEMMA OthersClaimNothing ==
  ASSUME LiveInv, Next
  PROVE  NoClaim \/ \E w \in Workers, k \in Keys : ClaimItem(w, k)
<1>1. meta \in Metadata /\ Agreeing(meta.rows)
  BY DEF LiveInv, TypeInv, TypeOK
<1>2. ASSUME NEW X, meta' = [meta EXCEPT !.rows = X]
      PROVE  meta'.rows = X
  BY <1>1, <1>2 DEF Metadata
<1>3. ASSUME meta'.rows = meta.rows
      PROVE  NoClaim
  BY <1>3 DEF NoClaim
<1>4. ASSUME NEW ks, meta'.rows = Discard(meta.rows, ks)
      PROVE  NoClaim
  BY <1>4, DiscardEffect DEF NoClaim, Alive
<1>5. ASSUME NEW w \in Workers, NEW from \in SUBSET Alive, NEW s \in Alive \ {"sending"}, NEW a,
             meta' = [meta EXCEPT !.rows = Rewrite(@, task[w].key, from, Row(task[w].key, s, a))]
      PROVE  NoClaim
  <2>1. meta'.rows = Rewrite(meta.rows, task[w].key, from, Row(task[w].key, s, a))
    BY <1>2, <1>5
  <2>2. \A r \in meta'.rows : r \in meta.rows \/ r.status = s
    BY <1>1, <1>5, <2>1, RewriteEffect, RowFields
  <2> QED BY <2>2 DEF NoClaim, Has
<1>6. ASSUME People PROVE NoClaim
  BY <1>6, PeopleRows DEF NoClaim, Same, Blocked, Alive
<1>7. ASSUME NEW w \in Workers, SavePlan(w) PROVE NoClaim
  BY <1>7, PlannedRows DEF NoClaim
<1>8. ASSUME NEW w \in Workers, Recover(w) PROVE NoClaim
  <2>1. meta'.rows = Recovered(w)
    BY <1>2, <1>8 DEF Recover, Recovered
  <2> QED BY <1>1, <2>1, RecoverEffect DEF NoClaim
<1>9. ASSUME NEW w \in Workers, DropPass(w) PROVE NoClaim
  <2>1. meta'.rows = Discard(meta.rows, Due(w))
    BY <1>2, <1>9 DEF DropPass
  <2> QED BY <1>4, <2>1
<1>10. ASSUME NEW w \in Workers, NEW k \in Keys, OutdatedItem(w, k) \/ LoseItem(w, k) PROVE NoClaim
  <2>1. meta'.rows = Discard(meta.rows, {k}) \/ meta'.rows = meta.rows
    BY <1>2, <1>10 DEF OutdatedItem, LoseItem
  <2> QED BY <1>3, <1>4, <2>1
<1>11. ASSUME NEW w \in Workers, MarkSent(w) \/ MarkUncertain(w) \/ RecordFailure(w) PROVE NoClaim
  <2>1. /\ {"sending", "uncertain"} \in SUBSET Alive /\ {"sending"} \in SUBSET Alive
        /\ \A s \in {"sent", "uncertain", "pending"} : s \in Alive \ {"sending"}
    BY DEF Alive
  <2>2. CASE MarkSent(w)
    BY <1>5, <2>1, <2>2 DEF MarkSent
  <2>3. CASE MarkUncertain(w)
    BY <1>5, <2>1, <2>3 DEF MarkUncertain
  <2>4. CASE RecordFailure(w)
    BY <1>5, <2>1, <2>4 DEF RecordFailure
  <2> QED BY <1>11, <2>2, <2>3, <2>4
<1>12. ASSUME NEW w \in Workers, \/ List(w) \/ NothingToRecover(w) \/ SkipPass(w) \/ OpenPass(w)
                                 \/ Finish(w) \/ Accept(w) \/ Refuse(w) \/ MarkFails(w)
       PROVE  NoClaim
  BY <1>3, <1>12 DEF List, NothingToRecover, SkipPass, OpenPass, Finish, Accept, Refuse,
                     MarkFails, memory
<1>13. ASSUME NEW w \in Workers, Deliver(w)
       PROVE  NoClaim \/ \E k \in Keys : ClaimItem(w, k)
  BY <1>8, <1>9, <1>10, <1>11, <1>12, <1>13 DEF Deliver
<1>14. ASSUME \/ Tick \/ Reprice
              \/ \E s \in Schedulers : Begin(s) \/ Fault(s)
              \/ \E c \in Crons : BeginCron(c)
              \/ \E w \in Workers : Crash(w) \/ PlanReminder(w) \/ PlanNothing(w) \/ Reload(w)
       PROVE  NoClaim
  BY <1>3, <1>14 DEF Tick, Reprice, Begin, Fault, BeginCron, Crash, PlanReminder, PlanNothing, Reload, memory
<1> QED BY <1>6, <1>7, <1>13, <1>14 DEF Next, Plan

\* Whatever is saved, nothing is claimed while the conversation says that it is an operator's:
\* only a lost handoff lets a reminder escape.
THEOREM HandoffStopsReminders == Spec => NoReminderWhileAttended
<1> DEFINE Stopped == ByOperator(meta.attention) =>
                        \A k \in Keys \ undone' : With(meta.rows, k, {"sending"})' # {} =>
                                                  With(meta.rows, k, {"sending"}) # {}
<1>1. HandoffInv /\ [Next]_vars => [Stopped]_vars
  <2> SUFFICES ASSUME HandoffInv, Next, Attended, NEW k \in Intact',
                      With(meta'.rows, k, {"sending"}) # {}
               PROVE  With(meta.rows, k, {"sending"}) # {}
    BY DEF With, Attended, Intact
  <2>1. NoClaim
    BY OthersClaimNothing, ClaimsOnlyForAI DEF HandoffInv
  <2> QED BY <2>1, WithHas DEF NoClaim
<1> QED BY <1>1, InitHandoff, NextHandoff, PTL DEF Spec, NoReminderWhileAttended

--------------------------------------------------------------------------------
(* The refinement *)

\* The phase of an intact reminder, seen in its rows.
PhaseIn(rows, k) ==
  IF Has(rows, k, "sent") THEN "closed"
  ELSE IF Tried(rows, k) THEN "tried"
  ELSE IF Has(rows, k, "pending") THEN "waiting" ELSE "out"

Phases    == [k \in Keys |-> Phase(k)]
Delivered == [k \in Keys |-> IF k \in undone THEN 0 ELSE accepted[k]]

LEMMA PhaseOfRows ==
  \A k \in Keys : /\ Phase(k) = IF k \in undone THEN "lost" ELSE PhaseIn(meta.rows, k)
                  /\ Phase(k)' = IF k \in undone' THEN "lost" ELSE PhaseIn(meta'.rows, k)
<1>1. ASSUME NEW rows, NEW k
      PROVE  /\ With(rows, k, {"sent"}) # {} <=> Has(rows, k, "sent")
             /\ With(rows, k, {"sending", "uncertain"}) # {} <=> Tried(rows, k)
             /\ With(rows, k, {"pending"}) # {} <=> Has(rows, k, "pending")
  BY WithHas DEF Tried
<1>2. ASSUME NEW k
      PROVE  Phase(k) = IF k \in undone THEN "lost" ELSE PhaseIn(meta.rows, k)
  <2>1. /\ With(meta.rows, k, {"sent"}) # {} <=> Has(meta.rows, k, "sent")
        /\ With(meta.rows, k, {"sending", "uncertain"}) # {} <=> Tried(meta.rows, k)
        /\ With(meta.rows, k, {"pending"}) # {} <=> Has(meta.rows, k, "pending")
    BY <1>1
  <2> QED BY <2>1 DEF Phase, PhaseIn
<1>3. ASSUME NEW k
      PROVE  Phase(k)' = IF k \in undone' THEN "lost" ELSE PhaseIn(meta'.rows, k)
  <2>1. /\ With(meta'.rows, k, {"sent"}) # {} <=> Has(meta'.rows, k, "sent")
        /\ With(meta'.rows, k, {"sending", "uncertain"}) # {} <=> Tried(meta'.rows, k)
        /\ With(meta'.rows, k, {"pending"}) # {} <=> Has(meta'.rows, k, "pending")
    BY <1>1
  <2> QED BY <2>1 DEF Phase, PhaseIn
<1> QED BY <1>2, <1>3

\* One intact reminder moves.
LEMMA OneMoves ==
  ASSUME NEW k \in Intact, NEW from, NEW to, undone' = undone,
         PhaseIn(meta.rows, k) = from, PhaseIn(meta'.rows, k) = to,
         \A j \in Intact : j # k => PhaseIn(meta'.rows, j) = PhaseIn(meta.rows, j)
  PROVE  Promise!Move(k, from, to)
BY PhaseOfRows DEF Promise!Move, Intact

\* None does.
LEMMA NoneMoves ==
  ASSUME undone' = undone, \A k \in Intact : PhaseIn(meta'.rows, k) = PhaseIn(meta.rows, k)
  PROVE  UNCHANGED Phases
BY PhaseOfRows DEF Intact, Phases

LEMMA NothingDelivered ==
  ASSUME undone' = undone, \A k \in Intact : accepted'[k] = accepted[k]
  PROVE  UNCHANGED Delivered
BY DEF Delivered, Intact

\* What is pending leaves the outbox.
LEMMA DiscardKeepsPromise ==
  ASSUME NEW ks, meta'.rows = Discard(meta.rows, ks),
         accepted' = accepted, undone' = undone, Attended' = Attended
  PROVE  Promise!Next
<1> DEFINE gone == {k \in Promise!Waiting : k \in ks}
<1>1. \A k \in Keys : k \in Promise!Waiting <=> k \in Intact /\ PhaseIn(meta.rows, k) = "waiting"
  BY PhaseOfRows DEF Promise!Waiting, Intact
<1>2. ASSUME NEW k \in Intact
      PROVE  PhaseIn(meta'.rows, k) = IF k \in gone THEN "out" ELSE PhaseIn(meta.rows, k)
  <2>1. /\ Has(meta'.rows, k, "sent") <=> Has(meta.rows, k, "sent")
        /\ Tried(meta'.rows, k) <=> Tried(meta.rows, k)
    BY DiscardTries
  <2>2. Has(meta'.rows, k, "pending") <=> Has(meta.rows, k, "pending") /\ k \notin ks
    BY DiscardEffect DEF Alive
  <2> QED BY <1>1, <2>1, <2>2 DEF PhaseIn, Intact
<1>3. gone \in SUBSET Promise!Waiting /\ \A k \in Keys : k \in gone => k \in Intact
  BY <1>1
<1> HIDE DEF gone
<1>4. Phases' = [k \in Keys |-> IF k \in gone THEN "out" ELSE Phases[k]]
  BY <1>2, <1>3, PhaseOfRows DEF Intact, Phases
<1>5. UNCHANGED Delivered
  BY NothingDelivered
<1> QED BY <1>3, <1>4, <1>5 DEF Promise!Next, Promise!Discard, Phases, Delivered, Attended

\* A save loses what it undoes, and nothing else is forgotten.
LEMMA SaveDelivered ==
  ASSUME accepted' = accepted, \A k \in Intact' : k \in Intact
  PROVE  Delivered' = [k \in Keys |-> IF k \in undone' THEN 0 ELSE Delivered[k]]
BY DEF Delivered, Intact

LEMMA TakeOverKeepsPromise ==
  ASSUME TypeInv', accepted' = accepted, Attended',
         \A k \in Intact' : k \in Intact /\ Blocked(k)
  PROVE  Promise!Next
<1>1. PICK ks \in SUBSET Keys : ks = undone'
  BY DEF TypeInv, TypeOK
<1>2. \A k \in Intact' : PhaseIn(meta'.rows, k) =
        IF PhaseIn(meta.rows, k) = "waiting" THEN "out" ELSE PhaseIn(meta.rows, k)
  BY DEF PhaseIn, Blocked, Tried, Alive
<1>3. \A k \in Intact' : k \in Promise!Waiting <=> PhaseIn(meta.rows, k) = "waiting"
  BY PhaseOfRows DEF Promise!Waiting, Intact
<1>4. Phases' = [k \in Keys |-> IF k \in undone' THEN "lost"
                               ELSE IF k \in Promise!Waiting THEN "out" ELSE Phases[k]]
  BY <1>2, <1>3, PhaseOfRows DEF Intact, Phases
<1>5. Promise!TakeOver(ks)
  BY <1>1, <1>4, SaveDelivered DEF Promise!TakeOver, Promise!Lose, Phases, Delivered, Attended
<1> QED BY <1>1, <1>5 DEF Promise!Next

LEMMA GiveBackKeepsPromise ==
  ASSUME TypeInv', accepted' = accepted, ~Attended',
         \A k \in Intact' : k \in Intact /\ Same(k)
  PROVE  Promise!Next
<1>1. PICK ks \in SUBSET Keys : ks = undone'
  BY DEF TypeInv, TypeOK
<1>2. \A k \in Intact' : PhaseIn(meta'.rows, k) = PhaseIn(meta.rows, k)
  BY DEF PhaseIn, Same, Tried, Alive
<1>3. Phases' = [k \in Keys |-> IF k \in undone' THEN "lost" ELSE Phases[k]]
  BY <1>2, PhaseOfRows DEF Intact, Phases
<1>4. Promise!GiveBack(ks)
  BY <1>1, <1>3, SaveDelivered DEF Promise!GiveBack, Promise!Lose, Phases, Delivered, Attended
<1> QED BY <1>1, <1>4 DEF Promise!Next

LEMMA PeopleKeepPromise ==
  ASSUME LiveInv, TypeInv', People
  PROVE  [Promise!Next]_(Promise!promised)
<1>1. TypeInv /\ accepted' = accepted
  BY PeopleQuiet DEF LiveInv
<1>2. CASE meta' = meta /\ undone' = undone
  <2>1. UNCHANGED Phases /\ UNCHANGED Delivered
    BY <1>1, <1>2, NoneMoves, NothingDelivered
  <2> QED BY <1>2, <2>1 DEF Promise!promised, Phases, Delivered
<1>3. ASSUME NEW m \in Metadata, NEW a \in {"requested", "taken", "resolved"},
             meta' = Attend(m, a), undone' = undone \cup Undoes(m)
      PROVE  Promise!Next
  <2>1. Attended'
    BY <1>3 DEF Attended, ByOperator, Attend, Metadata
  <2> QED BY <1>1, <1>3, <2>1, TakenRows, TakeOverKeepsPromise
<1>4. ASSUME NEW m \in Metadata, meta'.rows = m.rows, meta'.attention = "ai",
             undone' = undone \cup Undoes(m)
      PROVE  Promise!Next
  <2>1. ~Attended'
    BY <1>4 DEF Attended, ByOperator
  <2> QED BY <1>1, <1>4, <2>1, KeptRows, GiveBackKeepsPromise
<1> QED BY <1>1, <1>2, <1>3, <1>4, PeopleSave

LEMMA WorkersKeepPromise ==
  ASSUME HandoffInv, TypeInv',
         \/ \E s \in Schedulers : Begin(s) \/ Fault(s)
         \/ \E c \in Crons : BeginCron(c)
         \/ \E w \in Workers : Crash(w) \/ Plan(w) \/ Reload(w)
  PROVE  [Promise!Next]_(Promise!promised)
<1>1. LiveInv /\ TypeInv
  BY DEF HandoffInv, LiveInv
<1>2. CASE UNCHANGED <<meta, accepted, undone>>
  <2>1. UNCHANGED Phases /\ UNCHANGED Delivered
    BY <1>2, NoneMoves, NothingDelivered
  <2> QED BY <1>2, <2>1 DEF Promise!promised, Phases, Delivered
<1>3. ASSUME NEW w \in Workers, SavePlan(w)
      PROVE  Promise!Next
  <2> DEFINE q == task[w].key
  <2>1. q \in Keys /\ accepted' = accepted
    BY <1>1, <1>3 DEF SavePlan, At, TypeInv, Keyed
  <2>2. ~Attended'
    <3>1. ~ByOperator(task[w].copy.attention) /\ task[w].copy \in Metadata
      BY <1>1, <1>3 DEF SavePlan, At, HandoffInv, TypeInv, TypeOK, Tasks
    <3> QED BY <1>3, <3>1 DEF SavePlan, Metadata, Attended
  <2>3. \A k \in Intact' :
          /\ k \in Intact
          /\ \A s : Has(meta'.rows, k, s) <=> Has(meta.rows, k, s) \/ (k = q /\ s = "pending")
          /\ k = q => \A s \in Alive : ~Has(meta.rows, k, s)
    BY <1>1, <1>3, PlannedRows
  \* A planner whose own reminder is lost only gives the conversation back.
  <2>4. CASE q \notin Intact'
    <3>1. \A k \in Intact' : k \in Intact /\ Same(k)
      BY <2>3, <2>4 DEF Same
    <3> QED BY <2>1, <2>2, <3>1, GiveBackKeepsPromise
  <2>5. CASE q \in Intact'
    <3>1. PhaseIn(meta.rows, q) = "out" /\ PhaseIn(meta'.rows, q) = "waiting"
      BY <2>3, <2>5 DEF PhaseIn, Tried, Alive
    <3>2. \A k \in Intact' : k # q => PhaseIn(meta'.rows, k) = PhaseIn(meta.rows, k)
      BY <2>3 DEF PhaseIn, Tried
    <3>3. Phases' = [k \in Keys |-> IF k \in undone' THEN "lost"
                                   ELSE IF k = q THEN "waiting" ELSE Phases[k]]
      BY <2>3, <3>1, <3>2, PhaseOfRows DEF Intact, Phases
    <3>4. Phases[q] = "out"
      BY <2>1, <2>3, <2>5, <3>1, PhaseOfRows DEF Intact, Phases
    <3>5. Delivered' = [k \in Keys |-> IF k \in undone' THEN 0 ELSE Delivered[k]]
      BY <2>1, <2>3, SaveDelivered
    <3>6. PICK ks \in SUBSET Keys : ks = undone'
      BY DEF TypeInv, TypeOK
    <3>7. Promise!Queue(q, ks)
      BY <2>2, <3>3, <3>4, <3>5, <3>6
         DEF Promise!Queue, Promise!Lose, Phases, Delivered, Attended
    <3> QED BY <2>1, <3>7 DEF Promise!Next
  <2> QED BY <2>4, <2>5
<1> QED BY <1>2, <1>3 DEF Begin, Fault, BeginCron, Crash, Plan, PlanReminder, PlanNothing,
                          Reload, memory

LEMMA DeliverKeepsPromise ==
  ASSUME SendInv, HandoffInv, NEW w \in Workers, Deliver(w)
  PROVE  [Promise!Next]_(Promise!promised)
<1>1. /\ meta \in Metadata /\ Agreeing(meta.rows) /\ TypeInv
      /\ accepted \in [Keys -> 0..MaxSends]
  BY DEF SendInv, LiveInv, TypeInv, TypeOK
<1>2. ASSUME NEW X, meta' = [meta EXCEPT !.rows = X]
      PROVE  meta'.rows = X
  BY <1>1, <1>2 DEF Metadata
<1>3. undone' = undone /\ Attended' = Attended
  <2>1. undone' = undone /\ (meta' = meta \/ \E X : meta' = [meta EXCEPT !.rows = X])
    BY DEF Deliver, List, Recover, NothingToRecover, SkipPass, DropPass, OpenPass, OutdatedItem,
           ClaimItem, LoseItem, Finish, Accept, Refuse, MarkSent, MarkFails, MarkUncertain,
           RecordFailure, memory
  <2>2. meta'.attention = meta.attention
    BY <1>1, <2>1 DEF Metadata
  <2> QED BY <2>1, <2>2 DEF Attended
<1>4. ASSUME \A k \in Intact : /\ PhaseIn(meta'.rows, k) = PhaseIn(meta.rows, k)
                               /\ accepted'[k] = accepted[k]
      PROVE  UNCHANGED Promise!promised
  <2>1. UNCHANGED Phases /\ UNCHANGED Delivered
    BY <1>3, <1>4, NoneMoves, NothingDelivered
  <2> QED BY <1>3, <2>1 DEF Promise!promised, Phases, Delivered, Attended
<1>5. CASE List(w) \/ NothingToRecover(w) \/ SkipPass(w) \/ OpenPass(w) \/ Finish(w)
           \/ Refuse(w) \/ MarkFails(w)
  BY <1>4, <1>5 DEF List, NothingToRecover, SkipPass, OpenPass, Finish, Refuse, MarkFails, memory
<1>6. CASE Recover(w)
  <2>1. meta'.rows = Recovered(w) /\ accepted' = accepted
    BY <1>2, <1>6 DEF Recover, Recovered
  <2>2. \A k : PhaseIn(meta'.rows, k) = PhaseIn(meta.rows, k)
    BY <1>1, <2>1, RecoverEffect DEF PhaseIn, Tried
  <2> QED BY <1>4, <2>1, <2>2
<1>7. CASE DropPass(w)
  <2>1. meta'.rows = Discard(meta.rows, Due(w)) /\ accepted' = accepted
    BY <1>2, <1>7 DEF DropPass
  <2> QED BY <1>3, <2>1, DiscardKeepsPromise
<1>8. ASSUME NEW k \in Keys, OutdatedItem(w, k) \/ LoseItem(w, k)
      PROVE  [Promise!Next]_(Promise!promised)
  <2>1. /\ accepted' = accepted
        /\ meta'.rows = Discard(meta.rows, {k}) \/ meta'.rows = meta.rows
    BY <1>2, <1>8 DEF OutdatedItem, LoseItem
  <2> QED BY <1>3, <1>4, <2>1, DiscardKeepsPromise
\* What happens to the one reminder k that the worker claims or holds; a step on a lost
\* reminder is none of the promise.
<1>9. ASSUME NEW k \in Keys, NEW from, \A x \in from : x \in Alive, NEW s \in Alive, NEW a,
             meta' = [meta EXCEPT !.rows = Rewrite(@, k, from, Row(k, s, a))]
      PROVE  /\ \A j : j # k => PhaseIn(meta'.rows, j) = PhaseIn(meta.rows, j)
             /\ With(meta.rows, k, from) # {} => \A st \in Alive : Has(meta'.rows, k, st) <=> st = s
             /\ With(meta.rows, k, from) = {} => PhaseIn(meta'.rows, k) = PhaseIn(meta.rows, k)
  <2>1. meta'.rows = Rewrite(meta.rows, k, from, Row(k, s, a))
    BY <1>2, <1>9
  <2>2. \A j, st : j # k => (Has(meta'.rows, j, st) <=> Has(meta.rows, j, st))
    BY <1>1, <1>9, <2>1, RewriteEffect
  <2>3. /\ With(meta.rows, k, from) # {} => \A st \in Alive : Has(meta'.rows, k, st) <=> st = s
        /\ With(meta.rows, k, from) = {} => meta'.rows = meta.rows
    BY <1>1, <1>9, <2>1, RewriteEffect
  <2> QED BY <2>2, <2>3 DEF PhaseIn, Tried
<1>10. /\ {"pending", "sending", "uncertain", "sent"} = Alive
       /\ \A x \in {"sending", "uncertain"} : x \in Alive
       /\ \A x \in {"sending"} : x \in Alive
       /\ \A x \in {"pending"} : x \in Alive
  BY DEF Alive
\* A claim is a try: while an operator has it every pending row waits for longer.
<1>11. ASSUME NEW k \in Keys, ClaimItem(w, k)
       PROVE  [Promise!Next]_(Promise!promised)
  <2>1. meta' = [meta EXCEPT !.rows = Rewrite(@, k, {"pending"}, Row(k, "sending", task[w].now))]
        /\ accepted' = accepted
    BY <1>11 DEF ClaimItem
  <2>2. \A j : j # k => PhaseIn(meta'.rows, j) = PhaseIn(meta.rows, j)
    BY <1>9, <1>10, <2>1
  <2>3. CASE k \notin Intact
    BY <1>4, <2>1, <2>2, <2>3
  <2>4. CASE k \in Intact
    <3>1. /\ With(meta.rows, k, Blocking) = {}
          /\ With(meta.rows, k, {"pending"}) # {}
      BY <1>11 DEF ClaimItem, Claimable
    <3>2. /\ ~Tried(meta.rows, k) /\ ~Has(meta.rows, k, "sent")
          /\ Has(meta.rows, k, "pending")
      BY <3>1, WithHas DEF Blocking, Tried
    <3>3. \A st \in Alive : Has(meta'.rows, k, st) <=> st = "sending"
      BY <1>9, <1>10, <2>1, <3>1
    <3>4. PhaseIn(meta.rows, k) = "waiting" /\ PhaseIn(meta'.rows, k) = "tried"
      BY <3>2, <3>3 DEF PhaseIn, Tried, Alive
    <3>5. Promise!Move(k, "waiting", "tried")
      BY <1>3, <2>2, <2>4, <3>4, OneMoves
    <3>6. ~Attended
      BY <1>11, ClaimsOnlyForAI
    <3>7. UNCHANGED Delivered
      BY <1>3, <2>1, NothingDelivered
    <3>8. Promise!Try(k)
      BY <1>3, <3>5, <3>6, <3>7 DEF Promise!Try, Delivered, Attended
    <3> QED BY <3>8 DEF Promise!Next
  <2> QED BY <2>3, <2>4
\* The worker that holds reminder k.
<1> DEFINE k == task[w].key
<1>12. ASSUME task[w].step \in Holding
       PROVE  k \in Keys /\ (k \in Intact => PhaseIn(meta.rows, k) = "tried" /\ Tried(meta.rows, k)
                                            /\ k \notin undone)
  <2>1. k \in Keys /\ (k \in Intact => Tried(meta.rows, k))
    BY <1>1, <1>12 DEF SendInv, TypeInv, Keyed
  <2>2. k \in Intact => ~Has(meta.rows, k, "sent")
    BY <1>1, <2>1, OneStatus DEF Tried, Alive
  <2> QED BY <2>1, <2>2 DEF PhaseIn, Intact
<1>13. CASE Accept(w)
  <2>1. task[w].step = "calling" /\ task[w].step \in Holding
    BY <1>13 DEF Accept, At, Holding
  <2>2. meta' = meta /\ accepted' = [accepted EXCEPT ![k] = accepted[k] + 1] /\ k \in Keys
    BY <1>12, <1>13, <2>1 DEF Accept
  <2>3. CASE k \notin Intact
    <3>1. \A j \in Intact : accepted'[j] = accepted[j]
      BY <1>1, <2>2, <2>3 DEF Intact
    <3> QED BY <1>4, <2>2, <3>1
  <2>4. CASE k \in Intact
    <3>1. accepted[k] = 0 /\ k \notin undone
      BY <2>1, <2>4 DEF SendInv, Intact
    <3>2. UNCHANGED Phases
      BY <1>3, <2>2, NoneMoves
    <3>3. Phases[k] = "tried" /\ Delivered[k] = 0
      BY <1>12, <2>1, <2>2, <2>4, <3>1, PhaseOfRows DEF Phases, Delivered
    <3>4. Delivered' = [Delivered EXCEPT ![k] = 1]
      <4>1. accepted' = [accepted EXCEPT ![k] = 1]
        BY <2>2, <3>1
      <4>2. \A j \in Keys : accepted'[j] = IF j = k THEN 1 ELSE accepted[j]
        BY <1>1, <4>1
      <4> QED BY <1>3, <2>2, <3>1, <4>2 DEF Delivered
    <3>5. PICK q \in Keys : q = k
      BY <2>2
    <3>6. Promise!Deliver(q)
      BY <1>3, <3>2, <3>3, <3>4, <3>5 DEF Promise!Deliver, Phases, Delivered, Attended
    <3> QED BY <3>6 DEF Promise!Next
  <2> QED BY <2>3, <2>4
<1>14. CASE MarkSent(w)
  <2>1. task[w].step = "accepted" /\ task[w].step \in Holding /\ accepted' = accepted
    BY <1>14 DEF MarkSent, At, Holding
  <2>2. meta' = [meta EXCEPT !.rows = Rewrite(@, k, {"sending", "uncertain"}, Row(k, "sent", 0))]
    BY <1>14 DEF MarkSent
  <2>3. k \in Keys /\ \A j : j # k => PhaseIn(meta'.rows, j) = PhaseIn(meta.rows, j)
    BY <1>9, <1>10, <1>12, <2>1, <2>2
  <2>4. CASE k \notin Intact
    BY <1>4, <2>1, <2>3, <2>4
  <2>5. CASE k \in Intact
    <3>1. With(meta.rows, k, {"sending", "uncertain"}) # {}
      BY <1>12, <2>1, <2>5, WithHas DEF Tried
    <3>2. \A st \in Alive : Has(meta'.rows, k, st) <=> st = "sent"
      BY <1>9, <1>10, <2>2, <2>3, <3>1
    <3>3. PhaseIn(meta'.rows, k) = "closed" /\ PhaseIn(meta.rows, k) = "tried"
      BY <1>12, <2>1, <2>5, <3>2 DEF PhaseIn, Alive
    <3>4. Promise!Move(k, "tried", "closed")
      BY <1>3, <2>3, <2>5, <3>3, OneMoves
    <3>5. Delivered[k] = 1 /\ UNCHANGED Delivered
      BY <1>3, <1>12, <2>1, <2>3, <2>5, NothingDelivered DEF SendInv, Delivered
    <3>6. Promise!Close(k)
      BY <1>3, <3>4, <3>5 DEF Promise!Close, Delivered, Attended
    <3> QED BY <2>3, <3>6 DEF Promise!Next
  <2> QED BY <2>4, <2>5
<1>15. CASE MarkUncertain(w)
  <2>1. task[w].step \in Holding /\ accepted' = accepted
    BY <1>15 DEF MarkUncertain, At, Holding
  <2>2. meta' = [meta EXCEPT !.rows =
          Rewrite(@, k, {"sending", "uncertain"}, Row(k, "uncertain", 0))]
    BY <1>15 DEF MarkUncertain
  <2>3. k \in Keys /\ \A j : j # k => PhaseIn(meta'.rows, j) = PhaseIn(meta.rows, j)
    BY <1>9, <1>10, <1>12, <2>1, <2>2
  <2>4. ASSUME k \in Intact
        PROVE  PhaseIn(meta'.rows, k) = PhaseIn(meta.rows, k)
    <3>1. With(meta.rows, k, {"sending", "uncertain"}) # {}
      BY <1>12, <2>1, <2>4, WithHas DEF Tried
    <3>2. \A st \in Alive : Has(meta'.rows, k, st) <=> st = "uncertain"
      BY <1>9, <1>10, <2>2, <2>3, <3>1
    <3> QED BY <1>12, <2>1, <2>4, <3>2 DEF PhaseIn, Tried, Alive
  <2> QED BY <1>4, <2>1, <2>3, <2>4
<1>16. CASE RecordFailure(w)
  <2>1. task[w].step = "rejected" /\ task[w].step \in Holding /\ accepted' = accepted
    BY <1>16 DEF RecordFailure, At, Holding
  <2>2. meta' = [meta EXCEPT !.rows = Rewrite(@, k, {"sending"}, Row(k, "pending", NextAttempt))]
    BY <1>16 DEF RecordFailure
  <2>3. k \in Keys /\ \A j : j # k => PhaseIn(meta'.rows, j) = PhaseIn(meta.rows, j)
    BY <1>9, <1>10, <1>12, <2>1, <2>2
  <2>4. CASE k \notin Intact
    BY <1>4, <2>1, <2>3, <2>4
  <2>5. CASE With(meta.rows, k, {"sending"}) = {}
    <3>1. PhaseIn(meta'.rows, k) = PhaseIn(meta.rows, k)
      BY <1>9, <1>10, <2>2, <2>3, <2>5
    <3> QED BY <1>4, <2>1, <2>3, <3>1
  <2>6. CASE k \in Intact /\ With(meta.rows, k, {"sending"}) # {}
    <3>1. \A st \in Alive : Has(meta'.rows, k, st) <=> st = "pending"
      BY <1>9, <1>10, <2>2, <2>3, <2>6
    <3>2. PhaseIn(meta'.rows, k) = "waiting" /\ PhaseIn(meta.rows, k) = "tried"
      BY <1>12, <2>1, <2>6, <3>1 DEF PhaseIn, Tried, Alive
    <3>3. Promise!Move(k, "tried", "waiting")
      BY <1>3, <2>3, <2>6, <3>2, OneMoves
    <3>4. Delivered[k] = 0 /\ UNCHANGED Delivered
      BY <1>3, <2>1, <2>3, <2>6, NothingDelivered DEF SendInv, Delivered
    <3>5. Promise!Retry(k)
      BY <1>3, <3>3, <3>4 DEF Promise!Retry, Delivered, Attended
    <3> QED BY <2>3, <3>5 DEF Promise!Next
  <2> QED BY <2>4, <2>5, <2>6
<1> QED BY <1>5, <1>6, <1>7, <1>8, <1>11, <1>13, <1>14, <1>15, <1>16 DEF Deliver

\* Whatever is saved, the planner, the threads, the operators and the customer together do
\* what ReminderPromise says of each reminder; a late save loses those whose row it replaces.
THEOREM OutboxKeepsPromise == Spec => KeepsPromise
<1>1. Init => Promise!Init
  <2> SUFFICES ASSUME Init PROVE Promise!Init
    OBVIOUS
  <2>1. meta.rows = {} /\ undone = {} /\ meta.attention = "ai"
    BY DEF Init
  <2>2. \A k \in Keys : Phase(k) = "out"
    BY <2>1, PhaseOfRows DEF PhaseIn, Has, Tried
  <2> QED BY <2>1, <2>2 DEF Init, ByOperator, Promise!Init
<1>2. SendInv /\ HandoffInv /\ [Next]_vars => [Promise!Next]_(Promise!promised)
  <2> SUFFICES ASSUME SendInv, HandoffInv, [Next]_vars
               PROVE  [Promise!Next]_(Promise!promised)
    OBVIOUS
  <2>1. LiveInv /\ TypeInv'
    BY NextTyped DEF SendInv, LiveInv
  <2>2. CASE Tick \/ Reprice \/ UNCHANGED vars
    <3>1. meta' = meta /\ accepted' = accepted /\ undone' = undone
      BY <2>2 DEF Tick, Reprice, vars, memory
    <3>2. UNCHANGED Phases /\ UNCHANGED Delivered
      BY <3>1, NoneMoves, NothingDelivered
    <3> QED BY <3>1, <3>2 DEF Promise!promised, Phases, Delivered
  <2>3. CASE People
    BY <2>1, <2>3, PeopleKeepPromise
  <2>4. CASE \/ \E s \in Schedulers : Begin(s) \/ Fault(s)
             \/ \E c \in Crons : BeginCron(c)
             \/ \E w \in Workers : Crash(w) \/ Plan(w) \/ Reload(w)
    BY <2>1, <2>4, WorkersKeepPromise
  <2>5. ASSUME NEW w \in Workers, Deliver(w)
        PROVE  [Promise!Next]_(Promise!promised)
    BY <2>5, DeliverKeepsPromise
  <2> QED
    <3>1. CASE Next
      <4>1. \/ People \/ Tick \/ Reprice
            \/ \E s \in Schedulers : Begin(s) \/ Fault(s)
            \/ \E c \in Crons : BeginCron(c)
            \/ \E w \in Workers : Crash(w) \/ Plan(w) \/ Reload(w)
            \/ \E w \in Workers : Deliver(w)
        BY <3>1 DEF Next
      <4>2. CASE \E w \in Workers : Deliver(w)
        BY <2>5, <4>2
      <4> QED BY <2>2, <2>3, <2>4, <4>1, <4>2
    <3> QED BY <2>2, <3>1
<1> QED BY <1>1, <1>2, InitSends, NextSends, InitHandoff, NextHandoff, PTL
        DEF Spec, KeepsPromise, Promise!Spec
================================================================================
