------------------------ MODULE SubscriptionBillingProofs ------------------------
(***************************************************************************)
(* Proofs about SubscriptionBilling: for any number of subscriptions,      *)
(* payments and workers.                                                   *)
(***************************************************************************)
EXTENDS SubscriptionBilling, FiniteSetTheorems, TLAPS

--------------------------------------------------------------------------------
\* The invariant.

IsRow(r) == sub[r].status # "none"

\* The paid periods a subscription may have ahead.
PaidPeriods(r) == Cardinality(Paying(r)) + (IF r = 1 THEN 1 ELSE 0)

\* A row that is not there is empty, and only a plan change waits for a payment.
RowsAreSound ==
  \A x \in Subs : /\ ~IsRow(x) => sub[x] = NoSub
                  /\ sub[x].status = "pending" => sub[x].meta.change

\* Only subscriptions that exist can be paid, and only payments that exist are told of.
ChargesAreKnown ==
  /\ \A r \in link : IsRow(r)
  /\ \A c \in Charges : charge[c].status # "none" => charge[c].sub \in Subs /\ IsRow(charge[c].sub)
  /\ \A c \in mail : charge[c].status # "none"

\* What a request has loaded may be old, but a row that waits now waited then.
CopyIsSound(x, s) ==
  s # NoSub =>
    /\ IsRow(x)
    /\ s.left <= PaidPeriods(x)
    /\ sub[x].status = "pending" => s.status = "pending" /\ s.meta.change

\* What a worker is busy with exists.
WasPaid(c) == charge[c].status \in {"approved", "refunded"}
JobIsSound(j) ==
  /\ j.kind = "change" /\ j.step = "read" => j.sub = Nothing \/ (j.sub \in Subs /\ PendingChange(sub[j.sub]))
  /\ j.kind = "change" /\ j.step # "read" => j.sub \in Subs /\ IsRow(j.sub)
  /\ j.kind = "cancel" => j.sub \in Subs /\ IsRow(j.sub) /\ j.copy[j.sub] # NoSub
  /\ j.kind = "notice" =>
       /\ j.charge \in Charges /\ charge[j.charge].status # "none"
       /\ j.sub = charge[j.charge].sub
       /\ j.status = "approved" => WasPaid(j.charge)
  /\ \A x \in Subs : CopyIsSound(x, j.copy[x])

JobsAreSound == \A w \in Workers : JobIsSound(job[w])

\* While the company is locked one request knows the plan change that waits.
Reading(w) == Runs(w, "change", "read")
LockIsHeld ==
  \A w \in Workers : Reading(w) =>
    /\ \A v \in Workers : Reading(v) => v = w
    /\ \A x \in Subs : PendingChange(sub[x]) => x = job[w].sub

BillingInv ==
  /\ BillingTypeOK
  /\ RowsAreSound
  /\ ChargesAreKnown
  /\ JobsAreSound
  /\ LockIsHeld
  /\ OneOfEach
  /\ PeriodsArePaid

--------------------------------------------------------------------------------
\* Rows and what is written to them.

LEMMA FlushedRow ==
  ASSUME NEW c \in Sub, NEW n \in Sub, NEW s \in Sub
  PROVE  /\ Flush(c, n, s) \in Sub
         /\ Flush(c, n, s).status = IF n.status # c.status THEN n.status ELSE s.status
         /\ Flush(c, n, s).left = IF n.left # c.left THEN n.left ELSE s.left
         /\ Flush(c, n, s).start = IF n.start # c.start THEN n.start ELSE s.start
         /\ Flush(c, n, s).meta = IF n.meta # c.meta THEN n.meta ELSE s.meta
<1> DEFINE new == [status |-> IF n.status # c.status THEN n.status ELSE s.status,
                   left |-> IF n.left # c.left THEN n.left ELSE s.left,
                   start |-> IF n.start # c.start THEN n.start ELSE s.start,
                   meta |-> IF n.meta # c.meta THEN n.meta ELSE s.meta]
<1>1. DOMAIN s = {"status", "left", "start", "meta"}
  BY DEF Sub
<1>2. Flush(c, n, s) = new
  BY <1>1 DEF Flush
<1>3. new \in Sub
  BY DEF Sub
<1> QED BY <1>2, <1>3

LEMMA ClosedRow ==
  ASSUME NEW s \in Sub
  PROVE  /\ CloseForChange(s) \in Sub
         /\ CloseForChange(s).status = IF s.status \in Terminal THEN s.status ELSE "cancelled"
         /\ CloseForChange(s).left = s.left /\ CloseForChange(s).start = s.start
BY DEF CloseForChange, Sub, Metadata, Statuses, Terminal

LEMMA ReplacedRow ==
  ASSUME NEW s \in Sub
  PROVE  /\ Replaced(s) \in Sub
         /\ Replaced(s).status = IF s.status \in Terminal THEN s.status ELSE "cancelled"
         /\ Replaced(s).left = s.left /\ Replaced(s).start = s.start
<1> DEFINE c == CloseForChange(s)
<1>1. c \in Sub /\ Replaced(s) = [c EXCEPT !.meta.change = FALSE]
  BY ClosedRow DEF Replaced
<1>2. /\ c.status = (IF s.status \in Terminal THEN s.status ELSE "cancelled")
      /\ c.left = s.left /\ c.start = s.start
  BY ClosedRow
<1> HIDE DEF c
<1>3. c.meta \in Metadata /\ [c.meta EXCEPT !.change = FALSE] \in Metadata
  BY <1>1 DEF Sub, Metadata
<1>4. Replaced(s) = [status |-> c.status, left |-> c.left, start |-> c.start,
                     meta |-> [c.meta EXCEPT !.change = FALSE]]
  BY <1>1 DEF Sub
<1>5. Replaced(s) \in Sub
  BY <1>1, <1>3, <1>4 DEF Sub
<1> QED BY <1>2, <1>4, <1>5

LEMMA RenewedRow ==
  ASSUME NEW s \in Sub, NEW at \in Nat
  PROVE  /\ Renewed(s, at) \in Sub
         /\ Renewed(s, at).status = "active"
         /\ Renewed(s, at).left = IF HasAccess(s) THEN s.left + 1 ELSE 1
         /\ Renewed(s, at).left >= 1
<1> DEFINE left == IF HasAccess(s) THEN s.left + 1 ELSE 1
           start == IF HasAccess(s) THEN s.start ELSE at
<1>1. s.left \in Int /\ s.start \in Nat
  BY DEF Sub
<1>2. left \in Int /\ start \in Nat /\ left >= 1
  BY <1>1 DEF HasAccess
<1>3. Renewed(s, at) = [s EXCEPT !.status = "active", !.left = left, !.start = start, !.meta.change = FALSE]
  BY DEF Renewed
<1> HIDE DEF left, start
<1>4. s.meta \in Metadata /\ [s.meta EXCEPT !.change = FALSE] \in Metadata
  BY DEF Sub, Metadata
<1>5. Renewed(s, at) = [status |-> "active", left |-> left, start |-> start,
                        meta |-> [s.meta EXCEPT !.change = FALSE]]
  BY <1>3 DEF Sub
<1>6. Renewed(s, at) \in Sub /\ Renewed(s, at).status = "active" /\ Renewed(s, at).left = left
  BY <1>2, <1>4, <1>5 DEF Sub, Statuses
<1> QED BY <1>2, <1>6 DEF left

LEMMA CancelledRow ==
  ASSUME NEW s \in Sub
  PROVE  /\ CheckoutCancelled(s) \in Sub
         /\ CheckoutCancelled(s).status = IF PendingChange(s) THEN "cancelled" ELSE s.status
         /\ CheckoutCancelled(s).left = s.left /\ CheckoutCancelled(s).start = s.start
BY DEF CheckoutCancelled, PendingChange, Sub, Metadata, Statuses

LEMMA EndedRow ==
  ASSUME NEW s \in Sub, NEW status \in Statuses
  PROVE  /\ Ended(s, status) \in Sub
         /\ Ended(s, status).status = status
         /\ Ended(s, status).left = s.left /\ Ended(s, status).start = s.start
         /\ Ended(s, status).meta = s.meta
BY DEF Ended, Sub

LEMMA EmptyRow == NoSub \in Sub /\ NoSub.status = "none" /\ NoSub.left = 0
BY DEF NoSub, Sub, Plain, Metadata, Statuses

LEMMA IdleIsJob ==
  /\ Idle \in Job /\ Idle.kind = "idle" /\ Idle.step = "read"
  /\ Idle.sub = Nothing /\ Idle.charge = Nothing
  /\ \A x \in Subs : Idle.copy[x] = NoSub
BY EmptyRow DEF Idle, Job, Kinds, Steps, NoCopy, NoPayment, Payment, ChargeStatuses

--------------------------------------------------------------------------------
\* Paid periods.

LEMMA PeriodsAreFinite ==
  ASSUME BillingTypeOK, NEW r \in Subs
  PROVE  IsFiniteSet(Paying(r)) /\ PaidPeriods(r) \in Nat
<1>1. Paying(r) \subseteq Charges
  BY DEF Paying, BillingTypeOK
<1>2. IsFiniteSet(Paying(r)) /\ Cardinality(Paying(r)) \in Nat
  BY <1>1, ChargesAssumption, FS_Subset, FS_CardinalityType
<1> QED BY <1>2 DEF PaidPeriods

LEMMA PeriodsGrow ==
  ASSUME BillingTypeOK, BillingTypeOK', done \subseteq done',
         \A c \in done : charge'[c].sub = charge[c].sub,
         NEW r \in Subs
  PROVE  PaidPeriods(r) <= PaidPeriods(r)'
<1>1. Paying(r) \subseteq Paying(r)'
  BY DEF Paying
<1>2. IsFiniteSet(Paying(r)')
  <2>1. Paying(r)' \subseteq Charges
    BY DEF Paying, BillingTypeOK
  <2> QED BY <2>1, ChargesAssumption, FS_Subset
<1>3. /\ Cardinality(Paying(r)) \in Nat /\ Cardinality(Paying(r)') \in Nat
      /\ Cardinality(Paying(r)) <= Cardinality(Paying(r)')
  BY <1>1, <1>2, FS_Subset, FS_CardinalityType
<1> QED BY <1>3 DEF PaidPeriods

--------------------------------------------------------------------------------
\* What no step does: a row that exists stays, one that does not wait never waits again, a
\* payment keeps its subscription and one that was approved is at most refunded.

RowGrows(x) ==
  IsRow(x) => /\ sub'[x].status # "none"
              /\ sub'[x].status = "pending" => sub[x].status = "pending"
ChargeGrows(c) ==
  charge[c].status # "none" =>
    /\ charge'[c].status # "none" /\ charge'[c].sub = charge[c].sub
    /\ WasPaid(c) => charge'[c].status \in {"approved", "refunded"}
Grows ==
  /\ \A x \in Subs : RowGrows(x)
  /\ \A c \in Charges : ChargeGrows(c)
  /\ done \subseteq done'

LEMMA GrowingPeriods ==
  ASSUME BillingInv, BillingTypeOK', Grows, NEW r \in Subs
  PROVE  PaidPeriods(r) \in Nat /\ PaidPeriods(r)' \in Nat /\ PaidPeriods(r) <= PaidPeriods(r)'
<1>1. PaidPeriods(r) \in Nat
  BY PeriodsAreFinite DEF BillingInv
<1>2. PaidPeriods(r)' \in Nat
  <2>1. Paying(r)' \subseteq Charges
    BY DEF Paying, BillingTypeOK
  <2>2. Cardinality(Paying(r)') \in Nat
    BY <2>1, ChargesAssumption, FS_Subset, FS_CardinalityType
  <2> QED BY <2>2 DEF PaidPeriods
<1>3. \A c \in done : charge'[c].sub = charge[c].sub
  <2>1. \A c \in done : c \in Charges /\ charge[c].status # "none"
    BY DEF BillingInv, BillingTypeOK, PeriodsArePaid
  <2> QED BY <2>1 DEF Grows, ChargeGrows
<1> QED BY <1>1, <1>2, <1>3, PeriodsGrow DEF BillingInv, Grows

LEMMA CopyKept ==
  ASSUME BillingInv, BillingTypeOK', Grows, NEW x \in Subs, NEW s \in Sub, CopyIsSound(x, s)
  PROVE  CopyIsSound(x, s)'
<1>1. PaidPeriods(x) \in Nat /\ PaidPeriods(x)' \in Nat /\ PaidPeriods(x) <= PaidPeriods(x)'
  BY GrowingPeriods
<1>2. s # NoSub => s.left <= PaidPeriods(x)'
  BY <1>1 DEF CopyIsSound, Sub
<1> QED BY <1>2 DEF CopyIsSound, Grows, RowGrows, IsRow

LEMMA JobKept ==
  ASSUME BillingInv, BillingTypeOK', Grows, NEW j \in Job, JobIsSound(j),
         j.kind = "change" /\ j.step = "read" => sub' = sub
  PROVE  JobIsSound(j)'
<1>1. \A x \in Subs : IsRow(x) => IsRow(x)'
  BY DEF Grows, RowGrows, IsRow
<1>2. j.kind = "change" /\ j.step = "read" =>
        j.sub = Nothing \/ (j.sub \in Subs /\ PendingChange(sub'[j.sub]))
  BY DEF JobIsSound
<1>3. j.kind = "change" /\ j.step # "read" => j.sub \in Subs /\ IsRow(j.sub)'
  BY <1>1 DEF JobIsSound
<1>4. j.kind = "cancel" => j.sub \in Subs /\ IsRow(j.sub)' /\ j.copy[j.sub] # NoSub
  BY <1>1 DEF JobIsSound
<1>5. j.kind = "notice" => /\ j.charge \in Charges /\ charge'[j.charge].status # "none"
                           /\ j.sub = charge'[j.charge].sub
                           /\ j.status = "approved" => WasPaid(j.charge)'
  BY DEF JobIsSound, Grows, ChargeGrows, WasPaid
<1>6. ASSUME NEW x \in Subs PROVE CopyIsSound(x, j.copy[x])'
  BY CopyKept DEF JobIsSound, Job
<1> QED BY <1>2, <1>3, <1>4, <1>5, <1>6 DEF JobIsSound

LEMMA IdleIsSound == JobIsSound(Idle)
BY IdleIsJob DEF JobIsSound, CopyIsSound

LEMMA JobsEnd ==
  ASSUME BillingInv, BillingTypeOK', Grows,
         \A v \in Workers : job'[v] \in {job[v], Idle},
         \A v \in Workers : Reading(v) => sub' = sub
  PROVE  JobsAreSound' /\ LockIsHeld'
<1>1. ASSUME NEW v \in Workers PROVE JobIsSound(job[v])'
  <2>1. JobIsSound(Idle)'
    <3>1. Idle.kind = "change" /\ Idle.step = "read" => sub' = sub
      BY IdleIsJob
    <3> QED BY <3>1, IdleIsJob, IdleIsSound, JobKept
  <2>2. ASSUME job'[v] = job[v] PROVE JobIsSound(job[v])'
    <3> DEFINE j == job[v]
    <3>1. j \in Job /\ JobIsSound(j)
      BY DEF BillingInv, BillingTypeOK, JobsAreSound
    <3>2. j.kind = "change" /\ j.step = "read" => sub' = sub
      BY DEF Reading, Runs
    <3>3. j = job'[v]
      BY <2>2
    <3> HIDE DEF j
    <3> QED BY <3>1, <3>2, <3>3, JobKept
  <2> QED BY <2>1, <2>2
<1>2. JobsAreSound'
  BY <1>1 DEF JobsAreSound
<1>3. ASSUME NEW v \in Workers, Reading(v)' PROVE Reading(v) /\ job'[v] = job[v] /\ sub' = sub
  BY <1>3, IdleIsJob DEF Reading, Runs
<1>4. LockIsHeld'
  BY <1>3 DEF BillingInv, LockIsHeld
<1> QED BY <1>2, <1>4

LEMMA JobGoesOn ==
  ASSUME BillingInv, BillingTypeOK', UNCHANGED <<sub, charge, done>>,
         NEW w \in Workers, NEW j \in Job, job' = [job EXCEPT ![w] = j], JobIsSound(j)
  PROVE  JobsAreSound' /\ (~(j.kind = "change" /\ j.step = "read") => LockIsHeld')
<1>1. Grows
  BY DEF Grows, RowGrows, IsRow, ChargeGrows, WasPaid
<1>2. ASSUME NEW v \in Workers PROVE JobIsSound(job[v])'
  <2>1. PICK k \in Job : k = job'[v] /\ JobIsSound(k)
    BY DEF BillingInv, BillingTypeOK, JobsAreSound
  <2>2. JobIsSound(k)'
    BY <1>1, <2>1, JobKept
  <2> QED BY <2>1, <2>2
<1>3. JobsAreSound'
  BY <1>2 DEF JobsAreSound
<1>4. ASSUME ~(j.kind = "change" /\ j.step = "read") PROVE LockIsHeld'
  <2>1. ASSUME NEW v \in Workers, Reading(v)' PROVE Reading(v) /\ job'[v] = job[v]
    BY <1>4, <2>1 DEF Reading, Runs, BillingInv, BillingTypeOK
  <2> QED BY <2>1 DEF BillingInv, LockIsHeld
<1> QED BY <1>3, <1>4

LEMMA ChargesKept ==
  ASSUME BillingInv, BillingTypeOK', Grows,
         \A r \in link' : IsRow(r)',
         \A c \in Charges : charge[c].status = "none" /\ charge'[c].status # "none" => charge'[c].sub \in link,
         \A c \in mail' : c \in mail \/ charge'[c].status # "none"
  PROVE  ChargesAreKnown'
<1>1. \A x \in Subs : IsRow(x) => IsRow(x)'
  BY DEF Grows, RowGrows, IsRow
<1>2. \A c \in Charges : charge'[c].status # "none" => charge'[c].sub \in Subs /\ IsRow(charge[c].sub)'
  <2> TAKE c \in Charges
  <2>1. CASE charge[c].status = "none"
    BY <1>1, <2>1 DEF BillingInv, BillingTypeOK, ChargesAreKnown
  <2>2. CASE charge[c].status # "none"
    BY <1>1, <2>2 DEF BillingInv, ChargesAreKnown, Grows, ChargeGrows
  <2> QED BY <2>1, <2>2
<1>3. \A c \in mail' : charge'[c].status # "none"
  BY DEF BillingInv, BillingTypeOK, ChargesAreKnown, Grows, ChargeGrows
<1> QED BY <1>2, <1>3 DEF ChargesAreKnown

\* A step of a request that ends, of the provider or of the time, which neither adds a row
\* nor grants a period.
RowKept(x) ==
  /\ ~IsRow(x) => sub'[x] = sub[x]
  /\ IsRow(x) => sub'[x].status # "none"
  /\ sub'[x].status = "pending" => sub[x].status = "pending" /\ sub'[x].meta.change
  /\ sub'[x].status = "active" => sub[x].status = "active"
  /\ sub'[x].left <= sub[x].left

LEMMA StepKeepsInv ==
  ASSUME BillingInv, BillingTypeOK', done' = done,
         \A x \in Subs : RowKept(x), \A c \in Charges : ChargeGrows(c),
         link' \subseteq {r \in Subs : IsRow(r)},
         \A c \in Charges : charge[c].status = "none" /\ charge'[c].status # "none" => charge'[c].sub \in link,
         \A c \in mail' : c \in mail \/ charge'[c].status # "none",
         \A v \in Workers : job'[v] \in {job[v], Idle},
         \A v \in Workers : Reading(v) => sub' = sub
  PROVE  BillingInv'
<1>1. Grows
  BY DEF Grows, RowKept, RowGrows
<1>2. JobsAreSound' /\ LockIsHeld'
  BY <1>1, JobsEnd
<1>3. \A r \in link' : IsRow(r)'
  BY DEF RowKept, IsRow
<1>4. ChargesAreKnown'
  BY <1>1, <1>3, ChargesKept
<1>5. RowsAreSound'
  BY DEF BillingInv, RowsAreSound, RowKept, IsRow
<1>6. OneOfEach'
  BY DEF BillingInv, RowsAreSound, OneOfEach, RowKept, PendingChange
<1>7. PeriodsArePaid'
  <2>1. ASSUME NEW r \in Subs PROVE sub'[r].left <= PaidPeriods(r)'
    <3>1. PaidPeriods(r) \in Nat /\ PaidPeriods(r)' \in Nat /\ PaidPeriods(r) <= PaidPeriods(r)'
      BY <1>1, GrowingPeriods
    <3>2. sub[r].left <= PaidPeriods(r)
      BY DEF BillingInv, PeriodsArePaid, PaidPeriods
    <3>3. sub[r].left \in Int /\ sub'[r].left \in Int /\ sub'[r].left <= sub[r].left
      BY DEF BillingInv, BillingTypeOK, Sub, RowKept
    <3> QED BY <3>1, <3>2, <3>3
  <2>2. \A c \in done' : charge'[c].status \in {"approved", "refunded"}
    BY DEF BillingInv, BillingTypeOK, PeriodsArePaid, ChargeGrows, WasPaid
  <2> QED BY <2>1, <2>2 DEF PeriodsArePaid, PaidPeriods
<1> QED BY <1>2, <1>4, <1>5, <1>6, <1>7 DEF BillingInv

LEMMA EndsAJob ==
  ASSUME BillingInv, NEW w \in Workers, Ends(w)
  PROVE  /\ job' \in [Workers -> Job] /\ job'[w] = Idle
         /\ \A v \in Workers : job'[v] \in {job[v], Idle}
BY IdleIsJob DEF BillingInv, BillingTypeOK, Ends, Becomes

--------------------------------------------------------------------------------
\* Initially.

LEMMA InitBillingInv == Init => BillingInv
<1> SUFFICES ASSUME Init PROVE BillingInv
  OBVIOUS
<1> DEFINE first == [status |-> IF trial THEN "trial" ELSE "active",
                     left |-> IF trial THEN 0 ELSE 1, start |-> 1, meta |-> Plain]
<1>1. \A r \in Subs : sub[r] = IF r # 1 THEN NoSub ELSE first
  BY DEF Init
<1>2. /\ first \in Sub /\ first.status \in {"trial", "active"}
      /\ first.left <= 1 /\ first.left \in Int /\ (~trial => first.status = "active")
  BY DEF Sub, Plain, Metadata, Statuses
<1> HIDE DEF first
<1>3. done = {} /\ mail = {} /\ job = [w \in Workers |-> Idle] /\ link = IF trial THEN {} ELSE {1}
  BY DEF Init
<1>4. BillingTypeOK
  <2>1. sub \in [Subs -> Sub]
    BY <1>1, <1>2, EmptyRow DEF Init
  <2>2. charge \in [Charges -> Charge] /\ pay \in [Charges -> Payment]
    BY DEF Init, Charge, NoCharge, NoPayment, Payment, ChargeStatuses
  <2>3. job \in [Workers -> Job]
    BY <1>3, IdleIsJob
  <2>4. link \subseteq Subs
    BY <1>3, BoundsAssumption DEF Subs
  <2> QED BY <2>1, <2>2, <2>3, <2>4, BoundsAssumption DEF Init, BillingTypeOK
<1>5. RowsAreSound /\ OneOfEach
  BY <1>1, <1>2, EmptyRow DEF RowsAreSound, IsRow, OneOfEach, PendingChange
<1>6. ChargesAreKnown
  <2>1. \A r \in link : IsRow(r)
    BY <1>1, <1>2, <1>3, BoundsAssumption DEF IsRow, Subs
  <2> QED BY <2>1, <1>3 DEF ChargesAreKnown, Init, NoCharge
<1>7. JobsAreSound
  BY <1>3, IdleIsSound DEF JobsAreSound
<1>8. LockIsHeld
  BY <1>3, IdleIsJob DEF LockIsHeld, Reading, Runs
<1>9. PeriodsArePaid
  <2>1. ASSUME NEW r \in Subs PROVE sub[r].left <= PaidPeriods(r)
    <3>1. Paying(r) = {}
      BY <1>3 DEF Paying
    <3>2. Cardinality(Paying(r)) = 0
      BY <3>1, FS_EmptySet
    <3>3. PaidPeriods(r) = IF r = 1 THEN 1 ELSE 0
      BY <3>2 DEF PaidPeriods
    <3> QED BY <1>1, <1>2, <3>3, EmptyRow
  <2> QED BY <1>3, <2>1 DEF PeriodsArePaid, PaidPeriods
<1> QED BY <1>4, <1>5, <1>6, <1>7, <1>8, <1>9 DEF BillingInv

--------------------------------------------------------------------------------
\* Steps that leave the subscriptions alone.

LEMMA QuietEnd ==
  ASSUME BillingInv, NEW w \in Workers, Ends(w), UNCHANGED <<sub, link, done, charge, time>>,
         mail' \subseteq mail, pay' \in [Charges -> Payment], events' \subseteq Charges \X Nat,
         faults' \in 0..MaxFaults
  PROVE  BillingInv'
<1>1. BillingTypeOK'
  BY EndsAJob DEF BillingInv, BillingTypeOK, time
<1>2. \A x \in Subs : RowKept(x)
  BY DEF RowKept, IsRow, BillingInv, BillingTypeOK, RowsAreSound, Sub
<1>3. \A c \in Charges : ChargeGrows(c)
  BY DEF ChargeGrows, WasPaid
<1>4. link' \subseteq {r \in Subs : IsRow(r)}
  BY DEF BillingInv, BillingTypeOK, ChargesAreKnown
<1> QED BY <1>1, <1>2, <1>3, <1>4, EndsAJob, StepKeepsInv

LEMMA NoticeIsSound ==
  ASSUME BillingInv, NEW w \in Workers, job[w].kind = "notice"
  PROVE  /\ job[w].charge \in Charges /\ Event(w) \in Charges \X Nat
         /\ job[w].sub = charge[job[w].charge].sub
         /\ job[w].sub \in Subs /\ IsRow(job[w].sub)
         /\ job[w].seen \in Payment /\ Outcome(w) \in ChargeStatuses
         /\ charge[job[w].charge] \in Charge
         /\ job[w].status = "approved" => WasPaid(job[w].charge)
<1>1. job[w] \in Job /\ JobIsSound(job[w])
  BY DEF BillingInv, BillingTypeOK, JobsAreSound
<1>2. /\ job[w].charge \in Charges /\ charge[job[w].charge].status # "none"
      /\ job[w].sub = charge[job[w].charge].sub
      /\ job[w].status = "approved" => WasPaid(job[w].charge)
  BY <1>1 DEF JobIsSound
<1>3. job[w].sub \in Subs /\ IsRow(job[w].sub)
  BY <1>2 DEF BillingInv, ChargesAreKnown
<1>4. Outcome(w) \in ChargeStatuses
  BY <1>1 DEF Outcome, Preserved, Job, Payment, ChargeStatuses
<1> QED BY <1>1, <1>2, <1>3, <1>4 DEF Event, Job, BillingInv, BillingTypeOK

LEMMA RecordsAreTyped ==
  ASSUME BillingInv, NEW w \in Workers, job[w].kind = "notice", NEW s \in ChargeStatuses, Records(w, s)
  PROVE  pay' \in [Charges -> Payment] /\ events' \subseteq Charges \X Nat /\ Ends(w)
<1>1. job[w].ver \in Nat
  BY DEF BillingInv, BillingTypeOK, Job
<1>2. pay' \in [Charges -> Payment]
  BY <1>1, NoticeIsSound DEF Records, BillingInv, BillingTypeOK, Payment
<1> QED BY <1>2, NoticeIsSound DEF Records, BillingInv, BillingTypeOK

LEMMA EndOfNotice ==
  ASSUME BillingInv, NEW w \in Workers,
         Duplicate(w) \/ IgnoreStale(w) \/ RecordNotice(w) \/ RefuseNotice(w) \/ Abort(w)
  PROVE  BillingInv'
<1>1. CASE Duplicate(w)
  BY <1>1, QuietEnd DEF Duplicate, Answer, rows, BillingInv, BillingTypeOK
<1>2. CASE IgnoreStale(w)
  <2>1. events' \subseteq Charges \X Nat
    BY <1>2, NoticeIsSound DEF IgnoreStale, Runs, BillingInv, BillingTypeOK
  <2> QED BY <1>2, <2>1, QuietEnd DEF IgnoreStale, Answer, BillingInv, BillingTypeOK
<1>3. CASE RecordNotice(w)
  <2>1. job[w].kind = "notice" /\ Records(w, Outcome(w)) /\ Answer(w)
        /\ UNCHANGED <<sub, link, done, time, charge, faults>>
    BY <1>3 DEF RecordNotice, Ready
  <2>2. Outcome(w) \in ChargeStatuses
    BY <2>1, NoticeIsSound
  <2>3. pay' \in [Charges -> Payment] /\ events' \subseteq Charges \X Nat /\ Ends(w)
    BY <2>1, <2>2, RecordsAreTyped
  <2> QED BY <2>1, <2>3, QuietEnd DEF Answer, BillingInv, BillingTypeOK
<1>4. CASE RefuseNotice(w)
  BY <1>4, QuietEnd DEF RefuseNotice, rows, provider, BillingInv, BillingTypeOK
<1>5. CASE Abort(w)
  <2>1. faults' \in 0..MaxFaults
    BY <1>5, BoundsAssumption DEF Abort, BillingInv, BillingTypeOK
  <2> QED BY <1>5, <2>1, QuietEnd DEF Abort, rows, provider, BillingInv, BillingTypeOK
<1> QED BY <1>1, <1>2, <1>3, <1>4, <1>5

LEMMA TimeKeepsInv ==
  ASSUME BillingInv, EndTrial \/ \E r \in Subs : Reprice(r) PROVE BillingInv'
<1>1. BillingTypeOK'
  BY DEF BillingInv, BillingTypeOK, EndTrial, Reprice, rows, provider
<1>2. UNCHANGED <<sub, link, done, charge, mail, job>>
  BY DEF EndTrial, Reprice, rows, provider
<1>3. \A x \in Subs : RowKept(x)
  BY <1>2 DEF RowKept, IsRow, BillingInv, BillingTypeOK, RowsAreSound, Sub
<1>4. \A c \in Charges : ChargeGrows(c)
  BY <1>2 DEF ChargeGrows, WasPaid
<1>5. link' \subseteq {r \in Subs : IsRow(r)}
  BY <1>2 DEF BillingInv, BillingTypeOK, ChargesAreKnown
<1> QED BY <1>1, <1>2, <1>3, <1>4, <1>5, StepKeepsInv

--------------------------------------------------------------------------------
\* Steps in which a request reads.

LEMMA ReadKeepsInv ==
  ASSUME BillingInv, NEW w \in Workers, NEW j \in Job, job' = [job EXCEPT ![w] = j], JobIsSound(j),
         UNCHANGED <<rows, time, provider, faults>>,
         j.kind = "change" /\ j.step = "read" => LockIsHeld'
  PROVE  BillingInv'
<1>1. UNCHANGED <<sub, link, pay, done, events, trial, clock, repriced, charge, mail, faults>>
  BY DEF rows, time, provider
<1>2. BillingTypeOK'
  BY <1>1 DEF BillingInv, BillingTypeOK
<1>3. JobsAreSound' /\ LockIsHeld'
  BY <1>1, <1>2, JobGoesOn
<1>4. RowsAreSound' /\ OneOfEach'
  BY <1>1 DEF BillingInv, RowsAreSound, IsRow, OneOfEach
<1>5. ChargesAreKnown'
  BY <1>1 DEF BillingInv, ChargesAreKnown, IsRow
<1>6. PeriodsArePaid'
  BY <1>1 DEF BillingInv, PeriodsArePaid, Paying
<1> QED BY <1>2, <1>3, <1>4, <1>5, <1>6 DEF BillingInv

LEMMA LoadedIsSound ==
  ASSUME BillingInv, NEW set
  PROVE  /\ Loaded(set) \in [Subs -> Sub]
         /\ \A x \in Subs : CopyIsSound(x, Loaded(set)[x])
         /\ \A x \in Subs : x \in set => Loaded(set)[x] = sub[x]
<1>1. Loaded(set) \in [Subs -> Sub]
  BY EmptyRow DEF Loaded, BillingInv, BillingTypeOK
<1>2. ASSUME NEW x \in Subs PROVE CopyIsSound(x, Loaded(set)[x])
  <2>1. Loaded(set)[x] \in {NoSub, sub[x]}
    BY DEF Loaded
  <2>2. sub[x] # NoSub => IsRow(x)
    BY DEF BillingInv, RowsAreSound
  <2> QED BY <2>1, <2>2 DEF CopyIsSound, BillingInv, RowsAreSound, PeriodsArePaid, PaidPeriods
<1> QED BY <1>1, <1>2 DEF Loaded

LEMMA NothingLoaded == \A x \in Subs : CopyIsSound(x, Idle.copy[x])
BY IdleIsJob DEF CopyIsSound

LEMMA AskChangeKeepsInv ==
  ASSUME BillingInv, NEW w \in Workers, AskChange(w)
  PROVE  BillingInv'
<1>1. PICK r \in Subs \cup {Nothing} :
        /\ IF \E x \in Subs : PendingChange(sub[x])
             THEN r \in Subs /\ PendingChange(sub[r]) ELSE r = Nothing
        /\ Starts(w, [Idle EXCEPT !.kind = "change", !.sub = r])
  BY DEF AskChange
<1> DEFINE j == [Idle EXCEPT !.kind = "change", !.sub = r]
<1>2. job' = [job EXCEPT ![w] = j]
  BY <1>1 DEF Starts
<1>3. j \in Job /\ j.kind = "change" /\ j.step = "read" /\ j.sub = r /\ j.copy = Idle.copy
  BY IdleIsJob DEF Job, Kinds
<1> HIDE DEF j
<1>4. JobIsSound(j)
  BY <1>1, <1>3, NothingLoaded DEF JobIsSound
<1>5. sub' = sub
  BY DEF AskChange, rows
<1>6. \A v \in Workers : ~Reading(v)
  BY DEF AskChange, Locked, Reading
<1>7. \A v \in Workers : Reading(v)' => v = w
  BY <1>2, <1>6 DEF Reading, Runs, BillingInv, BillingTypeOK
<1>8. job'[w].sub = r
  BY <1>2, <1>3 DEF BillingInv, BillingTypeOK
<1>9. \A x \in Subs : PendingChange(sub[x]) => x = r
  BY <1>1 DEF BillingInv, OneOfEach
<1>10. LockIsHeld'
  BY <1>5, <1>7, <1>8, <1>9 DEF LockIsHeld
<1> QED BY <1>2, <1>3, <1>4, <1>10, ReadKeepsInv DEF AskChange

LEMMA AskAboutSubKeepsInv ==
  ASSUME BillingInv, NEW w \in Workers, NEW r \in Subs, RetryChange(w, r) \/ AskCancel(w, r)
  PROVE  BillingInv'
<1>1. CASE RetryChange(w, r)
  <2> DEFINE j == [Idle EXCEPT !.kind = "change", !.step = "saved", !.sub = r]
  <2>1. job' = [job EXCEPT ![w] = j]
    BY <1>1 DEF RetryChange, Starts
  <2>2. j \in Job /\ j.kind = "change" /\ j.step = "saved" /\ j.sub = r /\ j.copy = Idle.copy
    BY IdleIsJob DEF Job, Kinds, Steps
  <2> HIDE DEF j
  <2>3. IsRow(r)
    BY <1>1 DEF RetryChange, PendingChange, IsRow
  <2>4. JobIsSound(j)
    BY <2>2, <2>3, NothingLoaded DEF JobIsSound
  <2> QED BY <1>1, <2>1, <2>2, <2>4, ReadKeepsInv DEF RetryChange
<1>2. CASE AskCancel(w, r)
  <2> DEFINE j == [Idle EXCEPT !.kind = "cancel", !.sub = r, !.copy = Loaded({r})]
  <2>1. job' = [job EXCEPT ![w] = j]
    BY <1>2 DEF AskCancel, Starts
  <2>2. j \in Job /\ j.kind = "cancel" /\ j.sub = r /\ j.copy = Loaded({r})
    BY LoadedIsSound, IdleIsJob DEF Job, Kinds
  <2> HIDE DEF j
  <2>3. IsRow(r) /\ Loaded({r})[r] # NoSub
    BY <1>2, LoadedIsSound, EmptyRow DEF AskCancel, IsRow
  <2>4. JobIsSound(j)
    BY <2>2, <2>3, LoadedIsSound DEF JobIsSound
  <2> QED BY <1>2, <2>1, <2>2, <2>4, ReadKeepsInv DEF AskCancel
<1> QED BY <1>1, <1>2

LEMMA FetchKeepsInv ==
  ASSUME BillingInv, NEW w \in Workers, NEW c \in Charges, Fetch(w, c)
  PROVE  BillingInv'
<1> DEFINE j == [Idle EXCEPT !.kind = "notice", !.step = "fetched", !.charge = c,
                   !.sub = charge[c].sub, !.ver = charge[c].ver, !.status = charge[c].status]
<1>1. job' = [job EXCEPT ![w] = j] /\ c \in mail
  BY DEF Fetch, Starts
<1>2. charge[c] \in Charge /\ charge[c].status # "none"
  BY <1>1 DEF BillingInv, BillingTypeOK, ChargesAreKnown
<1>3. /\ j \in Job /\ j.kind = "notice" /\ j.charge = c /\ j.sub = charge[c].sub
      /\ j.status = charge[c].status /\ j.copy = Idle.copy
  BY <1>2, IdleIsJob DEF Job, Kinds, Steps, Charge
<1> HIDE DEF j
<1>4. JobIsSound(j)
  BY <1>2, <1>3, IdleIsJob DEF JobIsSound, WasPaid, CopyIsSound
<1> QED BY <1>1, <1>3, <1>4, ReadKeepsInv DEF Fetch

LEMMA NoticeReadsKeepInv ==
  ASSUME BillingInv, NEW w \in Workers, OpenEvent(w) \/ HoldPayment(w)
  PROVE  BillingInv'
<1>1. job[w] \in Job /\ JobIsSound(job[w]) /\ job[w].kind = "notice"
  BY DEF BillingInv, BillingTypeOK, JobsAreSound, OpenEvent, HoldPayment, Runs
<1>2. CASE OpenEvent(w)
  <2> DEFINE j == [job[w] EXCEPT !.step = "opened", !.seen = pay[job[w].charge]]
  <2>1. job' = [job EXCEPT ![w] = j]
    BY <1>2 DEF OpenEvent, Becomes
  <2>2. pay[job[w].charge] \in Payment
    BY <1>1, NoticeIsSound DEF BillingInv, BillingTypeOK
  <2>3. /\ j \in Job /\ j.kind = "notice" /\ j.charge = job[w].charge /\ j.sub = job[w].sub
        /\ j.status = job[w].status /\ j.copy = job[w].copy
    BY <1>1, <2>2 DEF Job, Steps
  <2> HIDE DEF j
  <2>4. JobIsSound(j)
    BY <1>1, <2>3 DEF JobIsSound
  <2> QED BY <1>2, <2>1, <2>3, <2>4, ReadKeepsInv DEF OpenEvent
<1>3. CASE HoldPayment(w)
  <2>1. PICK set : Becomes(w, [job[w] EXCEPT !.step = "held", !.valid = Valid(w), !.copy = Loaded(set)])
    BY <1>3 DEF HoldPayment
  <2> DEFINE j == [job[w] EXCEPT !.step = "held", !.valid = Valid(w), !.copy = Loaded(set)]
  <2>2. job' = [job EXCEPT ![w] = j]
    BY <2>1 DEF Becomes
  <2>3. /\ j \in Job /\ j.kind = "notice" /\ j.charge = job[w].charge /\ j.sub = job[w].sub
        /\ j.status = job[w].status /\ j.copy = Loaded(set)
    <3>1. Valid(w) \in BOOLEAN
      BY <1>1 DEF Valid, Job
    <3> QED BY <1>1, <3>1, LoadedIsSound DEF Job, Steps
  <2> HIDE DEF j
  <2>4. JobIsSound(j)
    BY <1>1, <2>3, LoadedIsSound DEF JobIsSound
  <2> QED BY <1>3, <2>2, <2>3, <2>4, ReadKeepsInv DEF HoldPayment
<1> QED BY <1>2, <1>3

--------------------------------------------------------------------------------
\* Steps of the provider, and of the time.

\* Only the payments change.
LEMMA ProviderKeepsInv ==
  ASSUME BillingInv, UNCHANGED <<sub, link, done, trial, repriced>>, clock' \in Nat, faults' \in 0..MaxFaults,
         pay' \in [Charges -> Payment], events' \subseteq Charges \X Nat,
         charge' \in [Charges -> Charge], mail' \subseteq Charges,
         job' \in [Workers -> Job], \A v \in Workers : job'[v] \in {job[v], Idle},
         \A c \in Charges : ChargeGrows(c),
         \A c \in Charges : charge[c].status = "none" /\ charge'[c].status # "none" => charge'[c].sub \in link,
         \A c \in mail' : c \in mail \/ charge'[c].status # "none"
  PROVE  BillingInv'
<1>1. BillingTypeOK'
  BY DEF BillingInv, BillingTypeOK
<1>2. \A x \in Subs : RowKept(x)
  BY DEF RowKept, IsRow, BillingInv, BillingTypeOK, RowsAreSound, Sub
<1>3. link' \subseteq {r \in Subs : IsRow(r)}
  BY DEF BillingInv, BillingTypeOK, ChargesAreKnown
<1> QED BY <1>1, <1>2, <1>3, StepKeepsInv

LEMMA PayKeepsInv ==
  ASSUME BillingInv, NEW c \in Charges, NEW r \in Subs, NEW s \in {"in_process", "approved", "rejected"},
         Pay(c, r, s)
  PROVE  BillingInv'
<1> DEFINE new == [status |-> s, ver |-> 1, sub |-> r, at |-> IF s = "approved" THEN Now ELSE 0]
<1>1. /\ charge' = [charge EXCEPT ![c] = new] /\ charge[c].status = "none" /\ r \in link
      /\ mail' = mail \cup {c}
      /\ UNCHANGED <<sub, link, pay, done, events, trial, repriced, job, faults>>
  BY DEF Pay, rows
<1>2. clock \in Nat /\ Now \in Nat
  BY DEF BillingInv, BillingTypeOK, Now
<1>3. clock' \in Nat
  BY <1>2 DEF Pay, Ticks
<1>4. new \in Charge /\ new.status = s /\ new.sub = r
  BY <1>2 DEF Charge, ChargeStatuses
<1> HIDE DEF new
<1>5. charge' \in [Charges -> Charge] /\ mail' \subseteq Charges
  BY <1>1, <1>4 DEF BillingInv, BillingTypeOK
<1>6. \A d \in Charges : charge'[d] = IF d = c THEN new ELSE charge[d]
  BY <1>1 DEF BillingInv, BillingTypeOK
<1>7. \A d \in Charges : ChargeGrows(d)
  BY <1>1, <1>6 DEF ChargeGrows, WasPaid
<1>8. \A d \in Charges : charge[d].status = "none" /\ charge'[d].status # "none" => charge'[d].sub \in link
  BY <1>1, <1>4, <1>6
<1>9. \A d \in mail' : d \in mail \/ charge'[d].status # "none"
  BY <1>1, <1>4, <1>6
<1>10. /\ pay' \in [Charges -> Payment] /\ events' \subseteq Charges \X Nat /\ faults' \in 0..MaxFaults
       /\ job' \in [Workers -> Job] /\ \A v \in Workers : job'[v] \in {job[v], Idle}
  BY <1>1 DEF BillingInv, BillingTypeOK
<1> QED BY <1>1, <1>3, <1>5, <1>7, <1>8, <1>9, <1>10, ProviderKeepsInv

\* A payment the provider has gets another status.
LEMMA ChargeMoves ==
  ASSUME BillingInv, NEW c \in Charges, charge[c].status # "none",
         NEW new \in Charge, new.sub = charge[c].sub, new.status # "none",
         WasPaid(c) => new.status \in {"approved", "refunded"},
         charge' = [charge EXCEPT ![c] = new], mail' = mail \cup {c}
  PROVE  /\ charge' \in [Charges -> Charge] /\ mail' \subseteq Charges
         /\ \A d \in Charges : ChargeGrows(d) /\ (charge[d].status = "none" => charge'[d].status = "none")
         /\ \A d \in mail' : d \in mail \/ charge'[d].status # "none"
<1>1. charge \in [Charges -> Charge] /\ mail \subseteq Charges
  BY DEF BillingInv, BillingTypeOK
<1>2. \A d \in Charges : charge'[d] = IF d = c THEN new ELSE charge[d]
  BY <1>1
<1>3. charge' \in [Charges -> Charge] /\ mail' \subseteq Charges
  BY <1>1
<1>4. \A d \in Charges : ChargeGrows(d) /\ (charge[d].status = "none" => charge'[d].status = "none")
  BY <1>2 DEF ChargeGrows, WasPaid
<1> QED BY <1>2, <1>3, <1>4

LEMMA ResolveKeepsInv ==
  ASSUME BillingInv, NEW c \in Charges, NEW s \in {"approved", "rejected", "cancelled"}, Resolve(c, s)
  PROVE  BillingInv'
<1> DEFINE at == IF Approves(c, s) THEN Now ELSE charge[c].at
           ver == charge[c].ver + 1
           new == [charge[c] EXCEPT !.status = s, !.ver = ver, !.at = at]
<1>1. /\ charge' = [charge EXCEPT ![c] = new] /\ mail' = mail \cup {c}
      /\ charge[c].status = "in_process" \/ (charge[c].status = "approved" /\ s = "approved")
      /\ UNCHANGED <<sub, link, pay, done, events, trial, repriced, job, faults>>
  BY DEF Resolve, rows
<1>2. charge[c] \in Charge /\ clock \in Nat /\ Now \in Nat
  BY DEF BillingInv, BillingTypeOK, Now
<1>3. at \in Nat /\ ver \in Nat /\ clock' \in Nat
  BY <1>2 DEF Charge, Resolve, Ticks
<1> HIDE DEF at, ver
<1>4. new \in Charge /\ new.status = s /\ new.sub = charge[c].sub
  <2>1. s \in ChargeStatuses
    BY DEF ChargeStatuses
  <2> QED BY <1>2, <1>3, <2>1 DEF Charge
<1> HIDE DEF new
<1>5. WasPaid(c) => new.status \in {"approved", "refunded"}
  BY <1>1, <1>4 DEF WasPaid
<1>6. charge[c].status # "none" /\ new.status # "none"
  BY <1>1, <1>4
<1>7. /\ charge' \in [Charges -> Charge] /\ mail' \subseteq Charges
      /\ \A d \in Charges : ChargeGrows(d) /\ (charge[d].status = "none" => charge'[d].status = "none")
      /\ \A d \in mail' : d \in mail \/ charge'[d].status # "none"
  BY <1>1, <1>4, <1>5, <1>6, ChargeMoves
<1>8. /\ pay' \in [Charges -> Payment] /\ events' \subseteq Charges \X Nat /\ faults' \in 0..MaxFaults
      /\ job' \in [Workers -> Job] /\ \A v \in Workers : job'[v] \in {job[v], Idle}
  BY <1>1 DEF BillingInv, BillingTypeOK
<1> QED BY <1>1, <1>3, <1>7, <1>8, ProviderKeepsInv

LEMMA RefundKeepsInv ==
  ASSUME BillingInv, NEW w \in Workers, RefundNotice(w) \/ RefundAndDie(w)
  PROVE  BillingInv'
<1> DEFINE c == job[w].charge
           ver == charge[c].ver + 1
           new == [charge[c] EXCEPT !.status = "refunded", !.ver = ver]
<1>1. Refunds(w) /\ job[w].kind = "notice"
  BY DEF RefundNotice, RefundAndDie, Refunds, Ready
<1>2. charge' = [charge EXCEPT ![c] = new] /\ mail' = mail \cup {c} /\ charge[c].status = "approved"
  BY <1>1 DEF Refunds
<1>3. c \in Charges /\ charge[c] \in Charge
  BY <1>1, NoticeIsSound
<1>4. new \in Charge /\ new.status = "refunded" /\ new.sub = charge[c].sub
  <2>1. ver \in Nat /\ "refunded" \in ChargeStatuses
    BY <1>3 DEF Charge, ChargeStatuses
  <2> HIDE DEF ver
  <2> QED BY <1>3, <2>1 DEF Charge
<1>5. /\ UNCHANGED <<sub, link, done, time>> /\ Ends(w) /\ faults' \in 0..MaxFaults
      /\ pay' \in [Charges -> Payment] /\ events' \subseteq Charges \X Nat
  <2>1. CASE RefundNotice(w)
    <3>1. "refunded" \in ChargeStatuses
      BY DEF ChargeStatuses
    <3>2. Records(w, "refunded") /\ UNCHANGED <<sub, link, done, time, faults>>
      BY <2>1 DEF RefundNotice
    <3> QED BY <1>1, <3>1, <3>2, RecordsAreTyped DEF BillingInv, BillingTypeOK
  <2>2. CASE RefundAndDie(w)
    BY <2>2, BoundsAssumption DEF RefundAndDie, rows, BillingInv, BillingTypeOK
  <2> QED BY <2>1, <2>2
<1> HIDE DEF new, c
<1>6. /\ charge' \in [Charges -> Charge] /\ mail' \subseteq Charges
      /\ \A d \in Charges : ChargeGrows(d) /\ (charge[d].status = "none" => charge'[d].status = "none")
      /\ \A d \in mail' : d \in mail \/ charge'[d].status # "none"
  BY <1>2, <1>3, <1>4, ChargeMoves
<1>7. clock' \in Nat /\ UNCHANGED <<trial, repriced>>
  BY <1>5 DEF time, BillingInv, BillingTypeOK
<1> QED BY <1>5, <1>6, <1>7, EndsAJob, ProviderKeepsInv

LEMMA LapseKeepsInv ==
  ASSUME BillingInv, NEW r \in Subs, Lapse(r)
  PROVE  BillingInv'
<1> DEFINE start == IF sub[r].left = 2 THEN Now ELSE sub[r].start
           left == sub[r].left - 1
           new == [sub[r] EXCEPT !.left = left, !.start = start]
<1>1. /\ sub' = [sub EXCEPT ![r] = new] /\ sub[r].status = "active"
      /\ UNCHANGED <<link, pay, done, events, trial, repriced, charge, mail, job, faults>>
  BY DEF Lapse, provider
<1>2. sub[r] \in Sub /\ clock \in Nat /\ Now \in Nat
  BY DEF BillingInv, BillingTypeOK, Now
<1>3. start \in Nat /\ left \in Int /\ left <= sub[r].left /\ clock' \in Nat
  BY <1>2 DEF Sub, Lapse, Ticks
<1> HIDE DEF start, left
<1>4. new \in Sub /\ new.status = "active" /\ new.left <= sub[r].left
  <2>1. new \in Sub /\ new.status = sub[r].status /\ new.left = left
    BY <1>2, <1>3 DEF Sub
  <2> QED BY <1>1, <1>3, <2>1
<1> HIDE DEF new
<1>5. \A x \in Subs : sub'[x] = IF x = r THEN new ELSE sub[x]
  BY <1>1 DEF BillingInv, BillingTypeOK
<1>6. \A x \in Subs : RowKept(x)
  BY <1>1, <1>4, <1>5 DEF RowKept, IsRow, BillingInv, BillingTypeOK, RowsAreSound, Sub
<1>7. BillingTypeOK'
  BY <1>1, <1>3, <1>4 DEF BillingInv, BillingTypeOK
<1>8. \A c \in Charges : ChargeGrows(c)
  BY <1>1 DEF ChargeGrows, WasPaid
<1>9. link' \subseteq {x \in Subs : IsRow(x)}
  BY <1>1 DEF BillingInv, BillingTypeOK, ChargesAreKnown
<1>10. \A v \in Workers : ~Reading(v)
  BY DEF Lapse, Reading
<1> QED BY <1>1, <1>6, <1>7, <1>8, <1>9, <1>10, StepKeepsInv

--------------------------------------------------------------------------------
\* Steps that write to one subscription.

LEMMA WriteKeepsInv ==
  ASSUME BillingInv, NEW w \in Workers, Ends(w), ~Locked,
         NEW r \in Subs, IsRow(r), NEW new \in Sub, sub' = [sub EXCEPT ![r] = new],
         new.status # "none",
         new.status = "pending" => sub[r].status = "pending" /\ new.meta.change,
         new.status = "active" => sub[r].status = "active",
         new.left = sub[r].left,
         link' \subseteq link \cup {r}, UNCHANGED <<done, time, charge, faults>>, mail' \subseteq mail,
         pay' \in [Charges -> Payment], events' \subseteq Charges \X Nat
  PROVE  BillingInv'
<1>1. \A x \in Subs : sub'[x] = IF x = r THEN new ELSE sub[x]
  BY DEF BillingInv, BillingTypeOK
<1>2. \A x \in Subs : RowKept(x)
  BY <1>1 DEF RowKept, IsRow, BillingInv, BillingTypeOK, RowsAreSound, Sub
<1>3. BillingTypeOK'
  BY EndsAJob DEF BillingInv, BillingTypeOK, time
<1>4. \A c \in Charges : ChargeGrows(c)
  BY DEF ChargeGrows, WasPaid
<1>5. link' \subseteq {x \in Subs : IsRow(x)}
  BY DEF BillingInv, BillingTypeOK, ChargesAreKnown
<1>6. \A v \in Workers : ~Reading(v)
  BY DEF Locked, Reading
<1> QED BY <1>2, <1>3, <1>4, <1>5, <1>6, EndsAJob, StepKeepsInv

LEMMA RequestIsSound ==
  ASSUME BillingInv, NEW w \in Workers, (job[w].kind = "change" /\ job[w].step # "read") \/ job[w].kind = "cancel"
  PROVE  job[w].sub \in Subs /\ IsRow(job[w].sub) /\ sub[job[w].sub] \in Sub
BY DEF BillingInv, BillingTypeOK, JobsAreSound, JobIsSound

LEMMA LinkChangeKeepsInv ==
  ASSUME BillingInv, NEW w \in Workers, LinkChange(w)
  PROVE  BillingInv'
<1> DEFINE r == job[w].sub
           shown == r \in link \/ sub[r].meta.closed # "checkout"
           new == IF shown THEN sub[r] ELSE [sub[r] EXCEPT !.meta.closed = "no"]
<1>1. r \in Subs /\ IsRow(r) /\ sub[r] \in Sub
  BY RequestIsSound DEF LinkChange, Runs
<1>2. sub \in [Subs -> Sub]
  BY DEF BillingInv, BillingTypeOK
<1>3. sub' = IF shown THEN sub ELSE [sub EXCEPT ![r].meta.closed = "no"]
  BY DEF LinkChange
<1>4. sub' = [sub EXCEPT ![r] = new]
  <2>1. CASE shown
    <3>1. sub' = sub /\ new = sub[r]
      BY <1>3, <2>1
    <3> HIDE DEF new
    <3> QED BY <1>1, <1>2, <3>1
  <2>2. CASE ~shown
    BY <1>3, <2>2
  <2> QED BY <2>1, <2>2
<1> HIDE DEF shown
<1>5. /\ new \in Sub /\ new.status = sub[r].status /\ new.left = sub[r].left
      /\ new.meta.change = sub[r].meta.change
  <2> SUFFICES LET n == [sub[r] EXCEPT !.meta.closed = "no"] IN
               /\ n \in Sub /\ n.status = sub[r].status /\ n.left = sub[r].left
               /\ n.meta.change = sub[r].meta.change
    BY <1>1
  <2> QED BY <1>1 DEF Sub, Metadata
<1> HIDE DEF new
<1>6. /\ Ends(w) /\ ~Locked /\ link' = link \cup {r}
      /\ UNCHANGED <<pay, done, events, time, charge, mail, faults>>
  BY DEF LinkChange, provider
<1>7. new.status = "pending" => new.meta.change
  BY <1>1, <1>5 DEF BillingInv, RowsAreSound
<1>8. new.status # "none"
  BY <1>1, <1>5 DEF IsRow
<1>9. pay' \in [Charges -> Payment] /\ events' \subseteq Charges \X Nat
  BY <1>6 DEF BillingInv, BillingTypeOK
<1> QED BY <1>1, <1>4, <1>5, <1>6, <1>7, <1>8, <1>9, WriteKeepsInv

LEMMA SaveCancelKeepsInv ==
  ASSUME BillingInv, NEW w \in Workers, SaveCancel(w)
  PROVE  BillingInv'
<1> DEFINE r == job[w].sub
           s == job[w].copy[r]
           new == Flush(s, CheckoutCancelled(s), sub[r])
<1>1. job[w].kind = "cancel" /\ job[w] \in Job /\ JobIsSound(job[w])
  BY DEF SaveCancel, Runs, BillingInv, BillingTypeOK, JobsAreSound
<1>2. r \in Subs /\ IsRow(r) /\ sub[r] \in Sub
  BY <1>1, RequestIsSound
<1>3. /\ sub' = [sub EXCEPT ![r] = new] /\ Ends(w) /\ ~Locked
      /\ UNCHANGED <<link, pay, done, events, time, charge, mail, faults>>
  BY DEF SaveCancel, provider
<1>4. s \in Sub /\ (sub[r].status = "pending" => PendingChange(s))
  BY <1>1, <1>2 DEF JobIsSound, CopyIsSound, Job, PendingChange
<1> HIDE DEF s
<1>5. /\ new \in Sub /\ new.left = sub[r].left
      /\ new.status \in {"cancelled", sub[r].status}
      /\ PendingChange(s) => new.status = "cancelled"
  BY <1>2, <1>4, CancelledRow, FlushedRow DEF PendingChange
<1> HIDE DEF new
<1>6. new.status # "none" /\ new.status # "pending" /\ (new.status = "active" => sub[r].status = "active")
  BY <1>2, <1>4, <1>5 DEF IsRow
<1>7. pay' \in [Charges -> Payment] /\ events' \subseteq Charges \X Nat
  BY <1>3 DEF BillingInv, BillingTypeOK
<1> QED BY <1>2, <1>3, <1>5, <1>6, <1>7, WriteKeepsInv

\* What a notice works on: the row as it was loaded, or as it is.
LEMMA ViewIsSound ==
  ASSUME BillingInv, NEW w \in Workers, NEW x \in Subs
  PROVE  /\ View(w)[x] \in Sub /\ View(w)[x].left <= PaidPeriods(x)
         /\ sub[x].status = "pending" => View(w)[x].status = "pending"
<1>1. job[w] \in Job /\ CopyIsSound(x, job[w].copy[x])
  BY DEF BillingInv, BillingTypeOK, JobsAreSound, JobIsSound
<1>2. job[w].copy[x] \in Sub /\ sub[x] \in Sub /\ sub[x].left <= PaidPeriods(x)
  BY <1>1 DEF Job, BillingInv, BillingTypeOK, PeriodsArePaid, PaidPeriods
<1>3. View(w)[x] = IF job[w].copy[x] = NoSub THEN sub[x] ELSE job[w].copy[x]
  BY DEF View
<1> QED BY <1>1, <1>2, <1>3 DEF CopyIsSound

LEMMA EndSubscriptionKeepsInv ==
  ASSUME BillingInv, NEW w \in Workers, EndSubscription(w)
  PROVE  BillingInv'
<1> DEFINE r == job[w].sub
           s == View(w)[r]
           status == IF Outcome(w) = "cancelled" THEN "cancelled" ELSE "expired"
           new == Flush(s, Ended(s, status), sub[r])
<1>1. job[w].kind = "notice" /\ ~Locked /\ Records(w, Outcome(w)) /\ Answer(w)
  BY DEF EndSubscription, Ready
<1>2. sub' = [sub EXCEPT ![r] = new] /\ UNCHANGED <<link, done, time, charge, faults>>
  BY DEF EndSubscription, Target
<1>3. r \in Subs /\ IsRow(r) /\ Outcome(w) \in ChargeStatuses
  BY <1>1, NoticeIsSound
<1>4. s \in Sub /\ (sub[r].status = "pending" => s.status = "pending") /\ sub[r] \in Sub
  BY <1>3, ViewIsSound DEF BillingInv, BillingTypeOK
<1>5. status \in Statuses /\ status \in {"cancelled", "expired"}
  BY DEF Statuses
<1> HIDE DEF s, status
<1>6. /\ new \in Sub /\ new.left = sub[r].left
      /\ new.status = IF status # s.status THEN status ELSE sub[r].status
  BY <1>4, <1>5, EndedRow, FlushedRow
<1> HIDE DEF new
<1>7. new.status # "none" /\ new.status # "pending" /\ (new.status = "active" => sub[r].status = "active")
  BY <1>3, <1>4, <1>5, <1>6 DEF IsRow
<1>8. pay' \in [Charges -> Payment] /\ events' \subseteq Charges \X Nat /\ Ends(w)
  BY <1>1, <1>3, RecordsAreTyped
<1>9. mail' \subseteq mail
  BY <1>1 DEF Answer
<1> QED BY <1>1, <1>2, <1>3, <1>6, <1>7, <1>8, <1>9, WriteKeepsInv

--------------------------------------------------------------------------------
\* The plan change: a new row, and the one it replaces is closed.

LEMMA SaveChangeKeepsInv ==
  ASSUME BillingInv, NEW w \in Workers, SaveChange(w)
  PROVE  BillingInv'
<1> DEFINE o == job[w].sub
<1>1. PICK n \in Subs, p \in Subs :
        /\ sub[n].status = "none"
        /\ sub' = [Superseded(o) EXCEPT ![n] = NewSub(p)]
        /\ Becomes(w, [job[w] EXCEPT !.step = "saved", !.sub = n])
  BY DEF SaveChange, IsFree
<1> DEFINE new == NewSub(p)
           j == [job[w] EXCEPT !.step = "saved", !.sub = n]
<1>2. /\ UNCHANGED <<link, pay, done, events, trial, repriced, charge, mail, faults>>
      /\ Reading(w) /\ clock' \in Nat /\ Now \in Nat
  BY DEF SaveChange, provider, Ticks, Reading, BillingInv, BillingTypeOK, Now
<1>3. /\ job[w] \in Job /\ job[w].kind = "change"
      /\ o = Nothing \/ (o \in Subs /\ PendingChange(sub[o]))
      /\ \A x \in Subs : CopyIsSound(x, job[w].copy[x])
  BY <1>2 DEF Reading, Runs, BillingInv, BillingTypeOK, JobsAreSound, JobIsSound
<1>4. /\ new \in Sub /\ new.status = "pending" /\ new.meta.change /\ new.left = 0
  BY <1>2 DEF NewSub, Sub, Metadata, Statuses
<1> HIDE DEF new
<1>5. /\ j \in Job /\ j.kind = "change" /\ j.step = "saved" /\ j.sub = n /\ j.copy = job[w].copy
      /\ job' = [job EXCEPT ![w] = j]
  BY <1>1, <1>3 DEF Job, Steps, Becomes
<1> HIDE DEF j
<1>6. \A x \in Subs : sub'[x] = IF x = n THEN new ELSE IF x = o THEN Replaced(sub[x]) ELSE sub[x]
  BY <1>1 DEF Superseded, new
<1>7. \A x \in Subs : sub[x] \in Sub
  BY DEF BillingInv, BillingTypeOK
<1>8. ASSUME NEW x \in Subs, x # n
      PROVE  /\ sub'[x] \in Sub /\ sub'[x].left = sub[x].left
             /\ sub'[x].status = (IF x = o THEN "cancelled" ELSE sub[x].status)
             /\ x # o => sub'[x] = sub[x]
  <2>1. CASE x = o
    <3>1. sub[x].status = "pending"
      BY <1>3, <2>1, NothingAssumption DEF PendingChange
    <3>2. sub'[x] = Replaced(sub[x])
      BY <1>6, <1>8, <2>1
    <3> QED BY <1>7, <2>1, <3>1, <3>2, ReplacedRow DEF Terminal
  <2>2. CASE x # o
    BY <1>6, <1>7, <1>8, <2>2
  <2> QED BY <2>1, <2>2
<1>9. sub'[n] = new
  BY <1>6
<1>10. BillingTypeOK'
  <2>1. sub' \in [Subs -> Sub]
    <3>1. sub' = [x \in Subs |-> sub'[x]]
      BY <1>1 DEF Superseded
    <3> QED BY <1>4, <1>8, <1>9, <3>1
  <2> QED BY <1>2, <1>5, <2>1 DEF BillingInv, BillingTypeOK
<1> HIDE DEF o
<1>11. Grows
  BY <1>1, <1>2, <1>8 DEF Grows, RowGrows, IsRow, ChargeGrows, WasPaid
<1>12. \A v \in Workers : Reading(v) => v = w
  BY <1>2 DEF BillingInv, LockIsHeld
<1>13. JobsAreSound'
  <2>1. ASSUME NEW v \in Workers PROVE JobIsSound(job[v])'
    <3>1. CASE v = w
      <4>1. PICK k \in Job : /\ k = job'[v] /\ k.kind = "change" /\ k.step = "saved" /\ k.sub = n
                             /\ k.copy = job[w].copy
        BY <1>5, <3>1 DEF BillingInv, BillingTypeOK
      <4>2. IsRow(n)'
        BY <1>4, <1>9 DEF IsRow
      <4>3. \A x \in Subs : CopyIsSound(x, k.copy[x])
        BY <1>3, <4>1
      <4>4. \A x \in Subs : CopyIsSound(x, k.copy[x])'
        BY <1>10, <1>11, <4>3, CopyKept DEF Job
      <4>5. JobIsSound(k)'
        BY <4>1, <4>2, <4>4 DEF JobIsSound
      <4> QED BY <4>1, <4>5
    <3>2. CASE v # w
      <4>1. PICK k \in Job : k = job[v] /\ k = job'[v] /\ JobIsSound(k) /\ ~(k.kind = "change" /\ k.step = "read")
        BY <1>5, <1>12, <3>2 DEF BillingInv, BillingTypeOK, JobsAreSound, Reading, Runs
      <4>2. JobIsSound(k)'
        BY <1>10, <1>11, <4>1, JobKept
      <4> QED BY <4>1, <4>2
    <3> QED BY <3>1, <3>2
  <2> QED BY <2>1 DEF JobsAreSound
<1>14. LockIsHeld'
  <2>1. \A v \in Workers : ~Reading(v)'
    BY <1>5, <1>12 DEF Reading, Runs, BillingInv, BillingTypeOK
  <2> QED BY <2>1 DEF LockIsHeld
<1>15. RowsAreSound'
  BY <1>4, <1>8, <1>9 DEF BillingInv, RowsAreSound, IsRow
<1>16. ChargesAreKnown'
  BY <1>2, <1>10, <1>11, ChargesKept DEF BillingInv, BillingTypeOK, ChargesAreKnown, Grows, RowGrows, IsRow
<1>17. OneOfEach'
  <2>1. \A x \in Subs : sub'[x].status = "active" => sub[x].status = "active"
    BY <1>4, <1>8, <1>9
  <2>2. \A x \in Subs : PendingChange(sub'[x]) => x = n
    <3> SUFFICES ASSUME NEW x \in Subs, x # n, PendingChange(sub'[x]) PROVE FALSE
      OBVIOUS
    <3>1. x # job[w].sub /\ sub'[x] = sub[x]
      BY <1>8 DEF PendingChange, o
    <3> QED BY <1>2, <3>1 DEF BillingInv, LockIsHeld
  <2> QED BY <2>1, <2>2 DEF BillingInv, OneOfEach
<1>18. PeriodsArePaid'
  <2>1. ASSUME NEW r \in Subs PROVE sub'[r].left <= PaidPeriods(r)'
    <3>1. PaidPeriods(r) \in Nat /\ PaidPeriods(r)' \in Nat /\ PaidPeriods(r) <= PaidPeriods(r)'
      BY <1>10, <1>11, GrowingPeriods
    <3>2. sub[r].left <= PaidPeriods(r) /\ sub[r].left \in Int
      BY <1>7 DEF BillingInv, PeriodsArePaid, PaidPeriods, Sub
    <3>3. sub'[r].left \in {0, sub[r].left}
      BY <1>4, <1>8, <1>9
    <3> QED BY <3>1, <3>2, <3>3
  <2>2. \A c \in done' : charge'[c].status \in {"approved", "refunded"}
    BY <1>2 DEF BillingInv, PeriodsArePaid
  <2> QED BY <2>1, <2>2 DEF PeriodsArePaid, PaidPeriods
<1> QED BY <1>10, <1>13, <1>14, <1>15, <1>16, <1>17, <1>18 DEF BillingInv

--------------------------------------------------------------------------------
\* A paid period.

\* What the renewal writes: the paid row is active with one period more than was loaded,
\* the row it replaces is closed, and every other row stays.
LEMMA GrantedRows ==
  ASSUME BillingInv, NEW w \in Workers, GrantPeriod(w)
  PROVE  LET r == job[w].sub
             s == View(w)[r]
         IN
         /\ r \in Subs /\ s \in Sub
         /\ sub'[r] \in Sub /\ sub'[r].status \notin {"none", "pending"}
         /\ sub'[r].status = IF s.status = "active" THEN sub[r].status ELSE "active"
         /\ sub'[r].left = IF HasAccess(s) THEN s.left + 1 ELSE 1
         /\ \A x \in Subs \ {r} :
              \/ sub'[x] = sub[x]
              \/ sub'[x] \in Sub /\ sub'[x].status = "cancelled" /\ sub'[x].left = sub[x].left
         /\ sub' = [x \in Subs |-> sub'[x]]
         /\ SingleActive(sub')
<1> DEFINE r == job[w].sub
           t == View(w)
           at == charge[job[w].charge].at
           new == Renewed(t[r], at)
           flat == Flush(t[r], new, sub[r])
<1>1. job[w].kind = "notice" /\ sub' = Renewal(w) /\ SingleActive(Renewal(w))
  BY DEF GrantPeriod, Ready, Renewable
<1>2. r \in Subs /\ IsRow(r) /\ at \in Nat
  BY <1>1, NoticeIsSound DEF Charge
<1>3. \A x \in Subs : t[x] \in Sub /\ sub[x] \in Sub /\ (sub[x].status = "pending" => t[x].status = "pending")
  BY ViewIsSound DEF BillingInv, BillingTypeOK
<1>4. sub' = AfterRenewal(t, r, at)
  BY <1>1 DEF Renewal
<1>5. \A x \in Subs :
        sub'[x] = IF x = r THEN [flat EXCEPT !.left = new.left, !.start = new.start]
                  ELSE IF Replaces(t, r, x) THEN Flush(t[x], CloseForChange(t[x]), sub[x])
                  ELSE sub[x]
  BY <1>4 DEF AfterRenewal
<1>6. /\ new \in Sub /\ new.status = "active"
      /\ new.left = IF HasAccess(t[r]) THEN t[r].left + 1 ELSE 1
  BY <1>2, <1>3, RenewedRow
<1> HIDE DEF new, at, t
<1>7. flat \in Sub /\ flat.status = IF t[r].status = "active" THEN sub[r].status ELSE "active"
  BY <1>2, <1>3, <1>6, FlushedRow
<1> HIDE DEF flat
<1>8. /\ sub'[r] \in Sub /\ sub'[r].status = flat.status /\ sub'[r].left = new.left
  <2>1. sub'[r] = [flat EXCEPT !.left = new.left, !.start = new.start]
    BY <1>2, <1>5
  <2>2. new.left \in Int /\ new.start \in Nat
    BY <1>6 DEF Sub
  <2> QED BY <1>7, <2>1, <2>2 DEF Sub
<1>9. sub'[r].status \notin {"none", "pending"}
  BY <1>2, <1>3, <1>7, <1>8 DEF IsRow
<1>10. ASSUME NEW x \in Subs, x # r, sub'[x] # sub[x]
       PROVE  sub'[x] \in Sub /\ sub'[x].status = "cancelled" /\ sub'[x].left = sub[x].left
  <2>1. Replaces(t, r, x) /\ sub'[x] = Flush(t[x], CloseForChange(t[x]), sub[x])
    BY <1>5, <1>10
  <2>2. t[x].status \in {"active", "trial"}
    BY <2>1 DEF Replaces
  <2> QED BY <1>3, <2>1, <2>2, ClosedRow, FlushedRow DEF Terminal
<1>11. sub' = [x \in Subs |-> sub'[x]]
  BY <1>4 DEF AfterRenewal
<1>12. SingleActive(sub')
  BY <1>1
<1> HIDE DEF r
<1> QED BY <1>2, <1>3, <1>6, <1>7, <1>8, <1>9, <1>10, <1>11, <1>12 DEF t, r

LEMMA GrantPeriodKeepsInv ==
  ASSUME BillingInv, NEW w \in Workers, GrantPeriod(w)
  PROVE  BillingInv'
<1> DEFINE r == job[w].sub
           s == View(w)[r]
           c == job[w].charge
<1>1. /\ job[w].kind = "notice" /\ ~Locked /\ Records(w, "approved") /\ Answer(w)
      /\ Outcome(w) = "approved" /\ c \notin done /\ Outcome(w) # job[w].seen.status
      /\ done' = done \cup {c} /\ UNCHANGED <<link, time, charge, faults>>
  BY DEF GrantPeriod, Ready, Paid, Applies
<1>2. /\ r \in Subs /\ IsRow(r) /\ c \in Charges /\ r = charge[c].sub
      /\ job[w].status = "approved" => WasPaid(c)
  BY <1>1, NoticeIsSound
<1>3. WasPaid(c)
  BY <1>1, <1>2 DEF Outcome, Preserved
<1>4. /\ s \in Sub /\ sub'[r] \in Sub /\ sub'[r].status \notin {"none", "pending"}
      /\ sub'[r].left = IF HasAccess(s) THEN s.left + 1 ELSE 1
      /\ \A x \in Subs \ {r} :
           \/ sub'[x] = sub[x]
           \/ sub'[x] \in Sub /\ sub'[x].status = "cancelled" /\ sub'[x].left = sub[x].left
      /\ sub' = [x \in Subs |-> sub'[x]]
      /\ SingleActive(sub')
  BY GrantedRows
<1>5. s.left <= PaidPeriods(r) /\ s.left \in Int
  BY <1>2, <1>4, ViewIsSound DEF Sub
<1>6. pay' \in [Charges -> Payment] /\ events' \subseteq Charges \X Nat /\ Ends(w) /\ mail' \subseteq mail
  <2>1. "approved" \in ChargeStatuses
    BY DEF ChargeStatuses
  <2> QED BY <1>1, <2>1, RecordsAreTyped DEF Answer
<1> HIDE DEF r, s, c
<1>7. BillingTypeOK'
  <2>1. sub' \in [Subs -> Sub]
    BY <1>2, <1>4 DEF BillingInv, BillingTypeOK
  <2> QED BY <1>1, <1>2, <1>6, <2>1, EndsAJob DEF BillingInv, BillingTypeOK, time
<1>8. Grows
  <2>1. \A x \in Subs : RowGrows(x)
    BY <1>4 DEF RowGrows, IsRow
  <2> QED BY <1>1, <2>1 DEF Grows, ChargeGrows, WasPaid
<1>9. JobsAreSound' /\ LockIsHeld'
  BY <1>1, <1>6, <1>7, <1>8, EndsAJob, JobsEnd DEF Locked, Reading
<1>10. RowsAreSound'
  BY <1>2, <1>4 DEF BillingInv, RowsAreSound, IsRow
<1>11. ChargesAreKnown'
  BY <1>1, <1>6, <1>7, <1>8, ChargesKept DEF BillingInv, BillingTypeOK, ChargesAreKnown, Grows, RowGrows, IsRow
<1>12. OneOfEach'
  <2>1. \A x \in Subs : PendingChange(sub'[x]) => sub'[x] = sub[x]
    BY <1>4 DEF PendingChange
  <2> QED BY <1>4, <2>1 DEF BillingInv, OneOfEach, SingleActive
<1>13. PeriodsArePaid'
  <2>1. ASSUME NEW x \in Subs PROVE sub'[x].left <= PaidPeriods(x)'
    <3>1. PaidPeriods(x) \in Nat /\ PaidPeriods(x)' \in Nat /\ PaidPeriods(x) <= PaidPeriods(x)'
      BY <1>7, <1>8, GrowingPeriods
    <3>2. CASE x = r
      <4>1. Paying(x)' = Paying(x) \cup {c} /\ c \notin Paying(x)
        BY <1>1, <1>2, <3>2 DEF Paying
      <4>2. IsFiniteSet(Paying(x)) /\ Cardinality(Paying(x)) \in Nat
        BY PeriodsAreFinite, FS_CardinalityType DEF BillingInv
      <4>3. Cardinality(Paying(x)') = Cardinality(Paying(x)) + 1
        BY <4>1, <4>2, FS_AddElement
      <4>4. PaidPeriods(x)' = PaidPeriods(x) + 1
        BY <4>2, <4>3 DEF PaidPeriods
      <4>5. sub'[x].left = s.left + 1 \/ sub'[x].left = 1
        BY <1>4, <3>2
      <4> QED BY <1>5, <3>1, <3>2, <4>4, <4>5
    <3>3. CASE x # r
      <4>1. sub'[x].left = sub[x].left
        BY <1>4, <3>3
      <4>2. sub[x].left <= PaidPeriods(x) /\ sub[x].left \in Int
        BY DEF BillingInv, BillingTypeOK, PeriodsArePaid, PaidPeriods, Sub
      <4> QED BY <3>1, <4>1, <4>2
    <3> QED BY <3>2, <3>3
  <2>2. \A d \in done' : charge'[d].status \in {"approved", "refunded"}
    BY <1>1, <1>3 DEF BillingInv, PeriodsArePaid, WasPaid
  <2> QED BY <2>1, <2>2 DEF PeriodsArePaid, PaidPeriods
<1> QED BY <1>7, <1>9, <1>10, <1>11, <1>12, <1>13 DEF BillingInv

--------------------------------------------------------------------------------
\* The invariant holds.

LEMMA NextKeepsInv ==
  ASSUME BillingInv, [Next]_vars
  PROVE  BillingInv'
<1>1. ASSUME NEW w \in Workers, Portal(w) PROVE BillingInv'
  BY <1>1, AskChangeKeepsInv, SaveChangeKeepsInv, LinkChangeKeepsInv, SaveCancelKeepsInv,
     AskAboutSubKeepsInv DEF Portal
<1>2. ASSUME NEW w \in Workers, Process(w) PROVE BillingInv'
  BY <1>2, EndOfNotice, NoticeReadsKeepInv, GrantPeriodKeepsInv, EndSubscriptionKeepsInv,
     RefundKeepsInv DEF Process
<1>3. ASSUME NEW w \in Workers, RefundAndDie(w) \/ Abort(w) PROVE BillingInv'
  BY <1>3, RefundKeepsInv, EndOfNotice
<1>4. ASSUME NEW w \in Workers, NEW c \in Charges, Fetch(w, c) PROVE BillingInv'
  BY <1>4, FetchKeepsInv
<1>5. CASE \/ \E c \in Charges, r \in Subs, s \in {"in_process", "approved", "rejected"} : Pay(c, r, s)
           \/ \E c \in Charges, s \in {"approved", "rejected", "cancelled"} : Resolve(c, s)
           \/ \E r \in Subs : Lapse(r) \/ Reprice(r)
           \/ EndTrial
  BY <1>5, PayKeepsInv, ResolveKeepsInv, LapseKeepsInv, TimeKeepsInv
<1>6. CASE UNCHANGED vars
  <2>1. UNCHANGED <<sub, link, pay, done, events, trial, clock, repriced, charge, mail, job, faults>>
    BY <1>6 DEF vars, rows, time, provider
  <2>2. \A c \in Charges : ChargeGrows(c)
    BY <2>1 DEF ChargeGrows, WasPaid
  <2> QED BY <2>1, <2>2, ProviderKeepsInv DEF BillingInv, BillingTypeOK
<1> QED BY <1>1, <1>2, <1>3, <1>4, <1>5, <1>6 DEF Next

\* The named parts hold in every reachable state.
THEOREM BillingInvariant == Spec => []BillingInv
<1>1. BillingInv /\ [Next]_vars => BillingInv'
  BY NextKeepsInv
<1> QED BY <1>1, InitBillingInv, PTL DEF Spec

--------------------------------------------------------------------------------
\* What follows from it.

\* Every variable keeps its type.
THEOREM BillingTypesCorrect == Spec => []BillingTypeOK
<1>1. BillingInv => BillingTypeOK
  BY DEF BillingInv
<1> QED BY <1>1, BillingInvariant, PTL

\* The company never has two active subscriptions nor two plan changes waiting: what the
\* lock in subscription_change_confirm() and the checks of run_command() are for.
THEOREM OnePlanAtATime == Spec => []OneOfEach
<1>1. BillingInv => OneOfEach
  BY DEF BillingInv
<1> QED BY <1>1, BillingInvariant, PTL

\* No subscription has more periods ahead than payments applied to it, however many notices
\* of one payment are processed together.
THEOREM NoFreePeriods == Spec => []PeriodsArePaid
<1>1. BillingInv => PeriodsArePaid
  BY DEF BillingInv
<1> QED BY <1>1, BillingInvariant, PTL

\* The paid subscription r keeps its access, or the step is one of the named exceptions.
AccessKept(r) ==
  \/ \E x \in Subs : HasAccess(sub'[x])
  \/ Lapse(r)
  \/ \E w \in Workers : job'[w] = Idle /\ (Overtakes(w) \/ Revokes(w, r))

LEMMA AccessOfRow ==
  ASSUME NEW r \in Subs, HasAccess(sub[r]), sub'[r].status = sub[r].status, sub'[r].left = sub[r].left
  PROVE  AccessKept(r)
BY DEF AccessKept, HasAccess

LEMMA RequestsKeepAccess ==
  ASSUME BillingInv, NEW r \in Subs, HasAccess(sub[r]), NEW w \in Workers,
         SaveChange(w) \/ LinkChange(w) \/ SaveCancel(w)
  PROVE  AccessKept(r)
<1>1. sub[r] \in Sub /\ sub[r].status = "active" /\ sub \in [Subs -> Sub]
  BY DEF BillingInv, BillingTypeOK, HasAccess
<1>2. CASE SaveChange(w)
  <2>1. PICK n \in Subs, p \in Subs :
          sub[n].status = "none" /\ sub' = [Superseded(job[w].sub) EXCEPT ![n] = NewSub(p)]
    BY <1>2 DEF SaveChange, IsFree
  <2>2. job[w].sub = Nothing \/ PendingChange(sub[job[w].sub])
    BY <1>2 DEF SaveChange, Runs, BillingInv, JobsAreSound, JobIsSound
  <2>3. r # n /\ r # job[w].sub
    BY <1>1, <2>1, <2>2, NothingAssumption DEF PendingChange
  <2>4. sub'[r] = sub[r]
    BY <2>1, <2>3 DEF Superseded
  <2> QED BY <2>4, AccessOfRow
<1>3. CASE LinkChange(w)
  <2> DEFINE o == job[w].sub
             new == [sub[o] EXCEPT !.meta.closed = "no"]
  <2>1. sub' \in {sub, [sub EXCEPT ![o] = new]}
    BY <1>3 DEF LinkChange
  <2>2. o \in Subs /\ sub[o] \in Sub
    BY <1>3, RequestIsSound DEF LinkChange, Runs
  <2>3. new.status = sub[o].status /\ new.left = sub[o].left
    BY <2>2 DEF Sub
  <2> HIDE DEF new, o
  <2>4. sub'[r].status = sub[r].status /\ sub'[r].left = sub[r].left
    BY <1>1, <2>1, <2>2, <2>3
  <2> QED BY <2>4, AccessOfRow
<1>4. CASE SaveCancel(w)
  <2> DEFINE o == job[w].sub
             s == job[w].copy[o]
  <2>1. job'[w] = Idle
    BY <1>4, EndsAJob DEF SaveCancel
  <2>2. CASE View(w) # sub
    BY <2>1, <2>2 DEF AccessKept, Overtakes
  <2>3. CASE View(w) = sub
    <3>1. o \in Subs /\ sub[o] \in Sub /\ s # NoSub
      BY <1>4, RequestIsSound DEF SaveCancel, Runs, BillingInv, JobsAreSound, JobIsSound
    <3>2. s = sub[o]
      BY <2>3, <3>1 DEF View
    <3>3. sub' = [sub EXCEPT ![o] = Flush(sub[o], CheckoutCancelled(sub[o]), sub[o])]
      BY <1>4, <3>2 DEF SaveCancel
    <3> HIDE DEF o, s
    <3>4. CASE o = r
      <4>1. /\ sub'[r].status = CheckoutCancelled(sub[r]).status
            /\ sub'[r].left = CheckoutCancelled(sub[r]).left
        BY <1>1, <3>3, <3>4, CancelledRow, FlushedRow
      <4>2. ~PendingChange(sub[r])
        BY <1>1 DEF PendingChange
      <4> QED BY <1>1, <4>1, <4>2, CancelledRow, AccessOfRow
    <3>5. CASE o # r
      <4>1. sub'[r] = sub[r]
        BY <1>1, <3>3, <3>5
      <4> QED BY <4>1, AccessOfRow
    <3> QED BY <3>4, <3>5
  <2> QED BY <2>2, <2>3
<1> QED BY <1>2, <1>3, <1>4

LEMMA NoticesKeepAccess ==
  ASSUME BillingInv, NEW r \in Subs, HasAccess(sub[r]), NEW w \in Workers,
         GrantPeriod(w) \/ EndSubscription(w)
  PROVE  AccessKept(r)
<1> DEFINE o == job[w].sub
<1>1. job[w].kind = "notice" /\ job'[w] = Idle
  BY EndsAJob DEF GrantPeriod, EndSubscription, Ready, Records
<1>2. o \in Subs /\ sub[o] \in Sub /\ sub \in [Subs -> Sub]
  BY <1>1, NoticeIsSound DEF BillingInv, BillingTypeOK
<1>3. CASE View(w) # sub
  BY <1>1, <1>3 DEF AccessKept, Overtakes
<1>4. CASE View(w) = sub /\ GrantPeriod(w)
  <2>1. /\ sub'[o].status = IF sub[o].status = "active" THEN sub[o].status ELSE "active"
        /\ sub'[o].left = IF HasAccess(sub[o]) THEN sub[o].left + 1 ELSE 1
    BY <1>4, GrantedRows
  <2>2. sub[o].left \in Int
    BY <1>2 DEF Sub
  <2>3. HasAccess(sub'[o])
    BY <2>1, <2>2 DEF HasAccess
  <2> QED BY <1>2, <2>3 DEF AccessKept
<1>5. CASE View(w) = sub /\ EndSubscription(w)
  <2>1. PICK new : sub' = [sub EXCEPT ![o] = new]
    BY <1>5 DEF EndSubscription
  <2>2. CASE o # r
    <3>1. sub'[r] = sub[r]
      BY <1>2, <2>1, <2>2
    <3> QED BY <3>1, AccessOfRow
  <2>3. CASE o = r
    <3>1. Target(w) = sub[r]
      BY <1>5, <2>3 DEF Target
    <3>2. Outcome(w) = "cancelled" /\ Outcome(w) # job[w].seen.status
      BY <1>5, <3>1 DEF EndSubscription, Fails, Applies
    <3>3. job[w].status = "cancelled"
      BY <3>2 DEF Outcome, Preserved
    <3> QED BY <1>1, <2>3, <3>3 DEF AccessKept, Revokes
  <2> QED BY <2>2, <2>3
<1> QED BY <1>3, <1>4, <1>5

\* Paid access does not end before its period, whatever plan changes are asked for, given
\* up, paid or refused: only the time, a cancelled payment of the row itself, or a request
\* that writes over rows it has not read again can end it.
THEOREM PaidAccessIsKept == Spec => PaidAccessKept
<1>1. ASSUME BillingInv, [Next]_vars, NEW r \in Subs, HasAccess(sub[r])
      PROVE  AccessKept(r)
  <2>1. CASE sub' = sub
    BY <1>1, <2>1, AccessOfRow
  <2>2. CASE \E x \in Subs : Lapse(x)
    <3>1. PICK x \in Subs : Lapse(x)
      BY <2>2
    <3>2. CASE x = r
      BY <3>1, <3>2 DEF AccessKept
    <3>3. CASE x # r
      <4>1. sub'[r] = sub[r]
        BY <1>1, <3>1, <3>3 DEF Lapse, BillingInv, BillingTypeOK
      <4> QED BY <1>1, <4>1, AccessOfRow
    <3> QED BY <3>2, <3>3
  <2>3. CASE \E w \in Workers : SaveChange(w) \/ LinkChange(w) \/ SaveCancel(w)
    BY <1>1, <2>3, RequestsKeepAccess
  <2>4. CASE \E w \in Workers : GrantPeriod(w) \/ EndSubscription(w)
    BY <1>1, <2>4, NoticesKeepAccess
  <2>5. \/ sub' = sub \/ \E x \in Subs : Lapse(x)
        \/ \E w \in Workers : SaveChange(w) \/ LinkChange(w) \/ SaveCancel(w)
        \/ \E w \in Workers : GrantPeriod(w) \/ EndSubscription(w)
    BY <1>1 DEF Next, Portal, Process, vars, rows, provider, AskChange, RetryChange, AskCancel,
       Duplicate, OpenEvent, IgnoreStale, HoldPayment, RecordNotice, RefundNotice, RefuseNotice,
       RefundAndDie, Abort, Fetch, Pay, Resolve, EndTrial, Reprice
  <2> QED BY <2>1, <2>2, <2>3, <2>4, <2>5
<1>2. BillingInv /\ [Next]_vars =>
        [\A r \in Subs : HasAccess(sub[r]) =>
           \/ \E x \in Subs : HasAccess(sub'[x])
           \/ Lapse(r)
           \/ \E w \in Workers : job'[w] = Idle /\ (Overtakes(w) \/ Revokes(w, r))]_vars
  BY <1>1 DEF AccessKept
<1> QED BY <1>2, BillingInvariant, PTL DEF Spec, PaidAccessKept

================================================================================
