--------------------------- MODULE CashDrawersProofs ---------------------------
(***************************************************************************)
(* Proofs about CashDrawers: for any number of branches, registers, users, *)
(* sessions, transfers and request threads, and any amounts.               *)
(***************************************************************************)
EXTENDS CashDrawers, SumLemmas

\* The rows a handler refers to exist.
Refers(w) ==
  LET j == task[w] IN
  /\ j.kind \in {"movement", "close", "void", "reopen", "sale", "create"} =>
       j.session \in Sessions /\ session[j.session].status # "none"
  /\ j.kind \in {"open", "reopen", "create", "toggle", "register"} => j.register \in Registers
  /\ j.kind \in {"open", "reopen"} => j.user \in Users
  /\ j.kind \in {"dispatch", "receive", "reject", "cancel"} => j.transfer \in Transfers
  /\ j.kind \in {"sale", "create"} => j.amount \in Nat
  /\ j.kind = "reopen" => ~j.default
  /\ (j.kind = "create" /\ j.step = "ready") =>
       BranchOf[j.register] # BranchOf[session[j.session].register]

\* A handler that is past its first lock holds the locks it took.
Holds(w) ==
  LET j == task[w] IN
  /\ (j.kind \in {"movement", "close", "void"} /\ j.step = "ready") => lock[j.session] = w
  /\ j.kind \in {"sale", "create"} => lock[j.session] = w
  /\ j.kind \in {"dispatch", "receive", "reject", "cancel"} => lock[j.transfer] = w
  /\ (j.kind \in {"dispatch", "receive", "reject"} /\ j.step = "ready") =>
       j.session \in Sessions /\ lock[j.session] = w
  /\ (j.kind \in {"open", "reopen"} /\ j.step = "ready") =>
       lock[IF j.default THEN BranchOf[j.register] ELSE j.register] = w
  /\ j.kind = "toggle" => lock[j.register] = w
  /\ j.kind = "register" => lock[BranchOf[j.register]] = w

\* What it has read under those locks is still so.
KnowsSession(w) ==
  LET j == task[w] IN
  /\ j.kind \in {"sale", "create"} => Open(j.session)
  /\ (j.kind = "close" /\ j.step = "ready" /\ j.clean) => j.read = Expected(j.session)
  /\ (j.kind = "create" /\ j.step = "ready" /\ j.clean) => j.amount <= Expected(j.session)

KnowsTransfer(w) ==
  LET j == task[w]
      x == transfer[j.transfer]
  IN
  /\ j.kind \in {"dispatch", "receive", "reject", "cancel"} =>
       x.status = Needed(j.kind) /\ j.amount = x.amount
  /\ (j.kind \in {"dispatch", "receive", "reject"} /\ j.step = "ready") =>
       j.session \in Drawers(w) /\ Open(j.session)
  /\ (j.kind = "dispatch" /\ j.step = "ready" /\ j.clean) => j.amount <= Expected(j.session)

KnowsRegister(w) ==
  LET j == task[w] IN
  /\ (j.kind \in {"open", "reopen"} /\ j.step = "ready") =>
       IF j.default
       THEN register[j.register] \in {[state |-> "active", default |-> TRUE],
                                      [state |-> "none", default |-> FALSE]}
       ELSE register[j.register].state = "active"
  /\ j.kind = "toggle" => register[j.register].state # "none"
  /\ (j.kind = "toggle" /\ ~j.default) => ~register[j.register].default /\ ~Occupied(j.register)
  /\ (j.kind = "create" /\ j.step = "ready") => register[j.register].state # "none"

TasksMatch ==
  \A w \in Workers :
    Refers(w) /\ Holds(w) /\ KnowsSession(w) /\ KnowsTransfer(w) /\ KnowsRegister(w)

\* Rows are empty until inserted, then keep their references; the expected cash
\* of an open session is its opening.
RowsFilled ==
  /\ \A s \in Sessions :
       /\ session[s].status = "none" => session[s] = NoSession
       /\ session[s].status # "none" => session[s].register \in Registers /\ session[s].user \in Users
       /\ Open(s) => session[s].expected = session[s].opening
  /\ \A t \in Transfers : transfer[t].status # "none" =>
       /\ transfer[t].source \in Sessions /\ session[transfer[t].source].status # "none"
       /\ transfer[t].target \in Registers

CashInv ==
  /\ CashTypeOK
  /\ RowsFilled
  /\ TasksMatch
  /\ OneSessionPerRegister
  /\ OpenSessionsHaveActiveRegister
  /\ TransferRowsMatchStatus

--------------------------------------------------------------------------------
\* Lemmas on the expected cash.

LEMMA MovedIsInt ==
  ASSUME CashTypeOK, NEW rows \in [Transfers -> SUBSET Sessions], NEW s \in Sessions
  PROVE  Moved(rows, s) \in Int
<1> DEFINE T == {x \in Transfers : s \in rows[x]}
           f == [t \in T |-> transfer[t].amount]
<1>1. IsFiniteSet(T)
  BY TransfersAssumption, FS_Subset
<1>2. \A t \in T : f[t] \in Int
  BY DEF CashTypeOK, TransferRow
<1>3. DOMAIN f = T
  OBVIOUS
<1> HIDE DEF f, T
<1>4. SumFunction(f) = SumOver(f, T)
  BY <1>3, SumOverIsLibrarySum DEF SumFunction
<1>5. SumOver(f, T) \in Int
  BY <1>1, <1>2, SumOverInt
<1> QED BY <1>4, <1>5 DEF Moved, f, T

LEMMA ExpectedIsInt ==
  ASSUME CashTypeOK, NEW s \in Sessions
  PROVE  Expected(s) \in Int /\ BesidesSales(s) \in Int
<1>1. Moved(landed, s) \in Int /\ Moved(sent, s) \in Int
  BY MovedIsInt DEF CashTypeOK
<1>2. session[s].opening \in Int /\ till[s].takings \in Int /\ till[s].manual \in Int
  BY DEF CashTypeOK, SessionRow
<1> QED BY <1>1, <1>2 DEF Expected, BesidesSales

\* What a session should hold follows from its own rows.
LEMMA BesidesSalesStays ==
  ASSUME NEW s \in Sessions,
         session'[s].opening = session[s].opening, till'[s].manual = till[s].manual,
         \A t \in Transfers :
           /\ s \in sent'[t] <=> s \in sent[t]
           /\ s \in landed'[t] <=> s \in landed[t]
           /\ s \in sent[t] \cup landed[t] => transfer'[t].amount = transfer[t].amount
  PROVE  BesidesSales(s)' = BesidesSales(s)
<1>1. [t \in {x \in Transfers : s \in sent'[x]} |-> transfer'[t].amount]
        = [t \in {x \in Transfers : s \in sent[x]} |-> transfer[t].amount]
  OBVIOUS
<1>2. [t \in {x \in Transfers : s \in landed'[x]} |-> transfer'[t].amount]
        = [t \in {x \in Transfers : s \in landed[x]} |-> transfer[t].amount]
  OBVIOUS
<1>3. Moved(sent, s)' = Moved(sent, s)
  BY <1>1 DEF Moved
<1>4. Moved(landed, s)' = Moved(landed, s)
  BY <1>2 DEF Moved
<1> QED BY <1>3, <1>4 DEF BesidesSales

LEMMA ExpectedStays ==
  ASSUME NEW s \in Sessions,
         session'[s].opening = session[s].opening, till'[s] = till[s],
         \A t \in Transfers :
           /\ s \in sent'[t] <=> s \in sent[t]
           /\ s \in landed'[t] <=> s \in landed[t]
           /\ s \in sent[t] \cup landed[t] => transfer'[t].amount = transfer[t].amount
  PROVE  Expected(s)' = Expected(s)
BY BesidesSalesStays DEF Expected

--------------------------------------------------------------------------------
\* Steps that change no data.

LEMMA IdleIsTask == Idle \in Task
BY DEF Idle, Task, Kinds

LEMMA IdleFields ==
  /\ Idle.kind = "idle" /\ Idle.step = "asked" /\ Idle.clean
  /\ Idle.session = Nobody /\ Idle.transfer = Nobody /\ ~Idle.default
BY DEF Idle

LEMMA IdleMatches ==
  ASSUME NEW w \in Workers, task[w] = Idle
  PROVE  Refers(w) /\ Holds(w) /\ KnowsSession(w) /\ KnowsTransfer(w) /\ KnowsRegister(w)
BY DEF Idle, Refers, Holds, KnowsSession, KnowsTransfer, KnowsRegister

\* A handler keeps its locks while nobody takes them away.
LEMMA HoldsStays ==
  ASSUME NEW v \in Workers, Refers(v), Holds(v), task'[v] = task[v],
         \A y \in Rows : lock[y] = v => lock'[y] = v
  PROVE  Holds(v)'
<1>1. \A r \in Registers : BranchOf[r] \in Rows /\ r \in Rows
  BY RegistersAssumption DEF Rows
<1>2. Sessions \subseteq Rows /\ Transfers \subseteq Rows
  BY DEF Rows
<1> QED BY <1>1, <1>2 DEF Refers, Holds

\* Nor does it forget what it knows while nothing of it changes.
LEMMA KnowledgeStays ==
  ASSUME NEW v \in Workers, UNCHANGED data, task'[v] = task[v]
  PROVE  /\ Refers(v) => Refers(v)'
         /\ KnowsSession(v) => KnowsSession(v)'
         /\ KnowsTransfer(v) => KnowsTransfer(v)'
         /\ KnowsRegister(v) => KnowsRegister(v)'
<1>1. \A s : Expected(s)' = Expected(s) /\ Open(s)' = Open(s)
  BY DEF data, Expected, BesidesSales, Moved, Open
<1>2. \A r : Occupied(r)' = Occupied(r)
  BY <1>1 DEF data, Occupied
<1>3. Drawers(v)' = Drawers(v)
  BY DEF data, Drawers
<1>4. Refers(v) => Refers(v)'
  BY DEF data, Refers
<1>5. KnowsSession(v) => KnowsSession(v)'
  BY <1>1 DEF KnowsSession
<1>6. KnowsTransfer(v) => KnowsTransfer(v)'
  BY <1>1, <1>3 DEF data, KnowsTransfer
<1>7. KnowsRegister(v) => KnowsRegister(v)'
  BY <1>2 DEF data, KnowsRegister
<1> QED BY <1>4, <1>5, <1>6, <1>7

\* w goes on to task n, perhaps with one more lock, and changes no data.
LEMMA AskKeepsInv ==
  ASSUME CashInv, NEW w \in Workers, NEW n \in Task, UNCHANGED data,
         task' = [task EXCEPT ![w] = n],
         lock' = lock \/ \E x \in Rows : lock[x] = Nobody /\ lock' = [lock EXCEPT ![x] = w],
         (Refers(w) /\ Holds(w) /\ KnowsSession(w) /\ KnowsTransfer(w) /\ KnowsRegister(w))'
  PROVE  CashInv'
<1>1. task \in [Workers -> Task] /\ lock \in [Rows -> Workers \cup {Nobody}]
  BY DEF CashInv, CashTypeOK
<1>2. task' \in [Workers -> Task] /\ lock' \in [Rows -> Workers \cup {Nobody}]
  BY <1>1
<1>3. CashTypeOK'
  BY <1>2 DEF CashInv, CashTypeOK, data
<1>4. RowsFilled'
  BY DEF CashInv, RowsFilled, data, Open
<1>5. OneSessionPerRegister' /\ OpenSessionsHaveActiveRegister'
  BY DEF CashInv, OneSessionPerRegister, OpenSessionsHaveActiveRegister, data, Open
<1>6. TransferRowsMatchStatus'
  BY DEF CashInv, TransferRowsMatchStatus, data
<1>7. TasksMatch'
  <2> SUFFICES ASSUME NEW v \in Workers, v # w
               PROVE  (Refers(v) /\ Holds(v) /\ KnowsSession(v) /\ KnowsTransfer(v) /\ KnowsRegister(v))'
    BY DEF TasksMatch
  <2>1. task'[v] = task[v]
    BY <1>1
  <2>2. \A y \in Rows : lock[y] = v => lock'[y] = v
    BY <1>1, NobodyAssumption
  <2> QED BY <2>1, <2>2, HoldsStays, KnowledgeStays DEF CashInv, TasksMatch
<1> QED BY <1>3, <1>4, <1>5, <1>6, <1>7 DEF CashInv

\* w ends.  What others know must survive its commit; their locks do.
LEMMA EndKeepsInv ==
  ASSUME CashInv, NEW w \in Workers, End(w),
         session' \in [Sessions -> SessionRow],
         till'    \in [Sessions -> [sold : Nat, takings : Nat, manual : Int]],
         register' \in [Registers -> [state : {"none", "active", "inactive"}, default : BOOLEAN]],
         transfer' \in [Transfers -> TransferRow],
         sent' \in [Transfers -> SUBSET Sessions], landed' \in [Transfers -> SUBSET Sessions],
         RowsFilled', OneSessionPerRegister', OpenSessionsHaveActiveRegister',
         TransferRowsMatchStatus',
         \A v \in Workers \ {w} :
           task'[v] = task[v] =>
             Refers(v)' /\ KnowsSession(v)' /\ KnowsTransfer(v)' /\ KnowsRegister(v)'
  PROVE  CashInv'
<1>1. task \in [Workers -> Task] /\ lock \in [Rows -> Workers \cup {Nobody}]
  BY DEF CashInv, CashTypeOK
<1>2. lock' = [x \in Rows |-> IF lock[x] = w THEN Nobody ELSE lock[x]]
  BY DEF End, LocksFreed
<1>3. task' = [task EXCEPT ![w] = Idle]
  BY DEF End
<1>4. CashTypeOK'
  BY <1>1, <1>2, <1>3, IdleIsTask DEF CashTypeOK
<1>5. TasksMatch'
  <2> SUFFICES ASSUME NEW v \in Workers
               PROVE  (Refers(v) /\ Holds(v) /\ KnowsSession(v) /\ KnowsTransfer(v) /\ KnowsRegister(v))'
    BY DEF TasksMatch
  <2>1. CASE v = w
    <3>1. task'[v] = Idle
      BY <1>1, <1>3, <2>1
    <3> QED BY <3>1 DEF Idle, Refers, Holds, KnowsSession, KnowsTransfer, KnowsRegister
  <2>2. CASE v # w
    <3>1. task'[v] = task[v]
      BY <1>1, <1>3, <2>2
    <3>2. \A y \in Rows : lock[y] = v => lock'[y] = v
      BY <1>2, <2>2
    <3>3. Holds(v)'
      BY <3>1, <3>2, HoldsStays DEF CashInv, TasksMatch
    <3> QED BY <2>2, <3>1, <3>3
  <2> QED BY <2>1, <2>2
<1> QED BY <1>4, <1>5 DEF CashInv

LEMMA InitKeepsInv == Init => CashInv
<1> SUFFICES ASSUME Init PROVE CashInv
  OBVIOUS
<1> USE DEF NoRows
<1>1. NoSession \in SessionRow /\ NoTransfer \in TransferRow
  BY DEF NoSession, NoTransfer, SessionRow, TransferRow
<1>2. CashTypeOK
  BY <1>1, IdleIsTask DEF Init, CashTypeOK, Empty
<1>3. RowsFilled
  BY DEF Init, RowsFilled, NoSession, NoTransfer, Open
<1>4. TasksMatch
  BY IdleMatches DEF Init, TasksMatch
<1>5. OneSessionPerRegister /\ OpenSessionsHaveActiveRegister
  BY DEF Init, OneSessionPerRegister, OpenSessionsHaveActiveRegister, Open, NoSession
<1>6. TransferRowsMatchStatus
  BY DEF Init, TransferRowsMatchStatus, NoTransfer
<1> QED BY <1>2, <1>3, <1>4, <1>5, <1>6 DEF CashInv

LEMMA AskOpenKeepsInv ==
  ASSUME CashInv, NEW w \in Workers, AskOpen(w) PROVE CashInv'
<1>1. PICK u \in Users, r \in Registers, default \in BOOLEAN, amount \in Amounts \cup {0} :
        AskOpen(w)!(u, r, default, amount)
  BY DEF AskOpen
<1> DEFINE n == [Idle EXCEPT !.kind = "open", !.user = u, !.register = r,
                             !.default = default, !.amount = amount]
<1>2. n \in Task
  <2>1. amount \in Int
    BY AmountsAssumption
  <2> QED BY <2>1, IdleIsTask DEF Task, Kinds
<1>3. UNCHANGED data /\ lock' = lock
  BY <1>1
<1>4. task'[w] = n
  BY <1>1 DEF CashInv, CashTypeOK
<1>5. (Refers(w) /\ Holds(w) /\ KnowsSession(w) /\ KnowsTransfer(w) /\ KnowsRegister(w))'
  BY <1>4, IdleIsTask, IdleFields DEF Task, Refers, Holds, KnowsSession, KnowsTransfer, KnowsRegister
<1> HIDE DEF n
<1> QED BY <1>1, <1>2, <1>3, <1>5, AskKeepsInv DEF n

LEMMA PickRegisterKeepsInv ==
  ASSUME CashInv, NEW w \in Workers, PickRegister(w) PROVE CashInv'
<1> DEFINE j == task[w]
<1>1. j \in Task /\ j.kind \in {"open", "reopen"} /\ UNCHANGED data
  BY DEF PickRegister, CashInv, CashTypeOK
<1>2. Refers(w) /\ Holds(w) /\ KnowsSession(w) /\ KnowsTransfer(w) /\ KnowsRegister(w)
  BY DEF CashInv, TasksMatch
<1>3. j.register \in Registers /\ BranchOf[j.register] \in Branches
  BY <1>1, <1>2, RegistersAssumption DEF Refers
<1>4. CASE PickDefault(w)
  <2>1. PICK r \in DefaultsOf(BranchOf[j.register]) :
          task' = [task EXCEPT ![w].register = r, ![w].step = "ready"]
    BY <1>4 DEF PickDefault
  <2> DEFINE n == [j EXCEPT !.register = r, !.step = "ready"]
  <2>2. /\ r \in Registers /\ BranchOf[r] = BranchOf[j.register]
        /\ register[r] \in {[state |-> "active", default |-> TRUE],
                            [state |-> "none", default |-> FALSE]}
    BY DEF DefaultsOf
  <2>3. task' = [task EXCEPT ![w] = n] /\ n \in Task
    BY <1>1, <2>1, <2>2 DEF CashInv, CashTypeOK, Task
  <2>4. task'[w] = n
    BY <2>3 DEF CashInv, CashTypeOK
  <2>5. /\ lock[BranchOf[r]] = Nobody /\ lock' = [lock EXCEPT ![BranchOf[r]] = w]
        /\ j.default /\ BranchOf[r] \in Rows
    BY <1>3, <1>4, <2>2 DEF PickDefault, Take, RowIsFree, Rows
  <2>6. Refers(w)'
    BY <1>1, <1>2, <2>2, <2>4, <2>5 DEF Refers, Task, data
  <2>7. lock'[BranchOf[r]] = w
    BY <2>5 DEF CashInv, CashTypeOK
  <2>8. Holds(w)'
    BY <1>1, <2>4, <2>5, <2>7 DEF Holds, Task
  <2>9. KnowsSession(w)' /\ KnowsTransfer(w)'
    BY <1>1, <2>4 DEF KnowsSession, KnowsTransfer, Task
  <2>10. KnowsRegister(w)'
    BY <1>1, <2>2, <2>4, <2>5 DEF KnowsRegister, Task, data
  <2> HIDE DEF n
  <2> QED BY <1>1, <2>3, <2>5, <2>6, <2>8, <2>9, <2>10, AskKeepsInv
<1>5. CASE PickNamed(w)
  <2> DEFINE n == [j EXCEPT !.step = "ready"]
             r == j.register
  <2>1. task' = [task EXCEPT ![w] = n] /\ n \in Task
    BY <1>1, <1>5 DEF PickNamed, CashInv, CashTypeOK, Task
  <2>2. task'[w] = n
    BY <2>1 DEF CashInv, CashTypeOK
  <2>3. /\ lock[r] = Nobody /\ lock' = [lock EXCEPT ![r] = w]
        /\ ~j.default /\ r \in Rows /\ register[r].state = "active"
    BY <1>3, <1>5 DEF PickNamed, Take, RowIsFree, Rows
  <2>4. Refers(w)'
    BY <1>1, <1>2, <2>2, <2>3 DEF Refers, Task, data
  <2>5. lock'[r] = w
    BY <2>3 DEF CashInv, CashTypeOK
  <2>6. Holds(w)'
    BY <1>1, <2>2, <2>3, <2>5 DEF Holds, Task
  <2>7. KnowsSession(w)' /\ KnowsTransfer(w)'
    BY <1>1, <2>2 DEF KnowsSession, KnowsTransfer, Task
  <2>8. KnowsRegister(w)'
    BY <1>1, <2>2, <2>3 DEF KnowsRegister, Task, data
  <2> HIDE DEF n, r
  <2> QED BY <1>1, <2>1, <2>3, <2>4, <2>6, <2>7, <2>8, AskKeepsInv
<1> QED BY <1>4, <1>5 DEF PickRegister

LEMMA AskSessionKeepsInv ==
  ASSUME CashInv, NEW w \in Workers, AskSession(w) PROVE CashInv'
<1>1. PICK kind \in {"movement", "close", "void", "reopen"}, u \in Users, s \in Sessions :
        AskSession(w)!(kind, u, s)
  BY DEF AskSession
<1>a. PICK loaded, amount :
        /\ session[s].status # "none"
        /\ amount \in IF kind = "movement" THEN Amounts \cup {-a : a \in Amounts} ELSE {0}
        /\ task' = [task EXCEPT ![w] =
             [Idle EXCEPT !.kind = kind, !.user = u, !.session = s, !.stale = (loaded = s),
                          !.register = session[s].register, !.amount = amount]]
  BY <1>1
<1> DEFINE stale == loaded = s
           n == [Idle EXCEPT !.kind = kind, !.user = u, !.session = s, !.stale = stale,
                             !.register = session[s].register, !.amount = amount]
<1>2. amount \in Int /\ session[s].register \in Registers
  BY <1>a, AmountsAssumption DEF CashInv, RowsFilled
<1>3. n \in Task
  <2>1. stale \in BOOLEAN
    OBVIOUS
  <2> HIDE DEF stale
  <2> QED BY <1>2, <2>1, IdleIsTask DEF Task, Kinds
<1>4. UNCHANGED data /\ lock' = lock
  BY <1>1
<1>5. task'[w] = n
  BY <1>a DEF CashInv, CashTypeOK
<1>6. Refers(w)'
  <2>1. n.kind = kind /\ n.session = s /\ n.register = session[s].register /\ n.user = u
    BY IdleIsTask DEF Task
  <2>2. ~n.default
    BY IdleIsTask, IdleFields DEF Task
  <2> HIDE DEF n
  <2> QED BY <1>a, <1>2, <1>4, <1>5, <2>1, <2>2 DEF Refers, data
<1>7. (Holds(w) /\ KnowsSession(w) /\ KnowsTransfer(w) /\ KnowsRegister(w))'
  BY <1>5, IdleIsTask, IdleFields DEF Task, Holds, KnowsSession, KnowsTransfer, KnowsRegister
<1> HIDE DEF n
<1> QED BY <1>a, <1>3, <1>4, <1>6, <1>7, AskKeepsInv DEF n

LEMMA LockSessionKeepsInv ==
  ASSUME CashInv, NEW w \in Workers, LockSession(w) PROVE CashInv'
<1> DEFINE j == task[w]
           s == j.session
           step == IF j.kind = "reopen" THEN "held" ELSE "ready"
           read == IF j.kind = "close" THEN Expected(s) ELSE 0
           n == [j EXCEPT !.step = step, !.read = read]
<1>1. j \in Task /\ j.kind \in {"movement", "close", "void", "reopen"} /\ UNCHANGED data
  BY DEF LockSession, CashInv, CashTypeOK
<1>2. Refers(w)
  BY DEF CashInv, TasksMatch
<1>3. s \in Sessions /\ s \in Rows
  BY <1>1, <1>2 DEF Refers, Rows
<1>4. Expected(s) \in Int
  BY <1>3, ExpectedIsInt DEF CashInv
<1>5. task' = [task EXCEPT ![w] = n] /\ n \in Task
  <2>1. step \in {"held", "ready"} /\ read \in Int
    BY <1>4
  <2>2. task' = [task EXCEPT ![w].step = step, ![w].read = read]
    BY Zenon DEF LockSession
  <2> HIDE DEF step, read
  <2> QED BY <1>1, <2>1, <2>2 DEF CashInv, CashTypeOK, Task
<1>6. task'[w] = n
  BY <1>5 DEF CashInv, CashTypeOK
<1>7. lock[s] = Nobody /\ lock' = [lock EXCEPT ![s] = w]
  BY DEF LockSession, Take, RowIsFree
<1>8. lock'[s] = w
  BY <1>3, <1>7 DEF CashInv, CashTypeOK
<1>9. Refers(w)'
  BY <1>1, <1>2, <1>6 DEF Refers, Task, data
<1>10. Holds(w)'
  BY <1>1, <1>6, <1>8 DEF Holds, Task
<1>11. \A x : Expected(x)' = Expected(x)
  BY <1>1 DEF data, Expected, BesidesSales, Moved
<1>12. KnowsSession(w)'
  BY <1>1, <1>6, <1>11 DEF KnowsSession, Task
<1>13. KnowsTransfer(w)'
  BY <1>1, <1>6 DEF KnowsTransfer, Task
<1>14. KnowsRegister(w)'
  BY <1>1, <1>6 DEF KnowsRegister, Task
<1> HIDE DEF n, s
<1> QED BY <1>1, <1>3, <1>5, <1>7, <1>9, <1>10, <1>12, <1>13, <1>14, AskKeepsInv

LEMMA TakeOpenSessionKeepsInv ==
  ASSUME CashInv, NEW w \in Workers, TakeOpenSession(w) PROVE CashInv'
<1>1. PICK s \in Sessions, amount \in Amounts \cup {0} : TakeOpenSession(w)!(s, amount)
  BY DEF TakeOpenSession
<1> DEFINE n == [Idle EXCEPT !.kind = "sale", !.step = "ready", !.session = s, !.amount = amount]
<1>2. amount \in Nat /\ s \in Rows
  BY AmountsAssumption DEF Rows
<1>3. n \in Task
  <2>1. amount \in Int
    BY <1>2
  <2> QED BY <2>1, IdleIsTask DEF Task, Kinds
<1>4. n.kind = "sale" /\ n.session = s /\ n.amount = amount
  BY IdleIsTask DEF Task
<1>5. task' = [task EXCEPT ![w] = n] /\ UNCHANGED data
  BY <1>1
<1>6. lock[s] = Nobody /\ lock' = [lock EXCEPT ![s] = w]
  BY <1>1 DEF Take, RowIsFree
<1> HIDE DEF n
<1>7. task'[w] = n /\ lock'[s] = w
  BY <1>2, <1>5, <1>6 DEF CashInv, CashTypeOK
<1>8. Refers(w)'
  BY <1>1, <1>2, <1>4, <1>5, <1>7 DEF Refers, Open, data
<1>9. Holds(w)'
  BY <1>4, <1>7 DEF Holds
<1>10. (KnowsSession(w) /\ KnowsTransfer(w) /\ KnowsRegister(w))'
  BY <1>1, <1>4, <1>5, <1>7 DEF KnowsSession, KnowsTransfer, KnowsRegister, Open, data
<1> QED BY <1>2, <1>3, <1>5, <1>6, <1>8, <1>9, <1>10, AskKeepsInv

LEMMA TakeSourceKeepsInv ==
  ASSUME CashInv, NEW w \in Workers, TakeSource(w) PROVE CashInv'
<1>1. PICK s \in Sessions, target \in Registers, amount \in Amounts :
        TakeSource(w)!(s, target, amount)
  BY DEF TakeSource
<1> DEFINE n == [Idle EXCEPT !.kind = "create", !.step = "held", !.session = s,
                             !.register = target, !.amount = amount]
<1>2. amount \in Nat /\ s \in Rows
  BY AmountsAssumption DEF Rows
<1>3. n \in Task
  <2>1. amount \in Int
    BY <1>2
  <2> QED BY <2>1, IdleIsTask DEF Task, Kinds
<1>4. /\ n.kind = "create" /\ n.step = "held" /\ n.session = s
      /\ n.amount = amount /\ n.register = target
  BY IdleIsTask DEF Task
<1>5. task' = [task EXCEPT ![w] = n] /\ UNCHANGED data
  BY <1>1
<1>6. lock[s] = Nobody /\ lock' = [lock EXCEPT ![s] = w]
  BY <1>1 DEF Take, RowIsFree
<1> HIDE DEF n
<1>7. task'[w] = n /\ lock'[s] = w
  BY <1>2, <1>5, <1>6 DEF CashInv, CashTypeOK
<1>8. Refers(w)'
  BY <1>1, <1>2, <1>4, <1>5, <1>7 DEF Refers, Open, data
<1>9. Holds(w)'
  BY <1>4, <1>7 DEF Holds
<1>10. (KnowsSession(w) /\ KnowsTransfer(w) /\ KnowsRegister(w))'
  BY <1>1, <1>4, <1>5, <1>7 DEF KnowsSession, KnowsTransfer, KnowsRegister, Open, data
<1> QED BY <1>2, <1>3, <1>5, <1>6, <1>8, <1>9, <1>10, AskKeepsInv

\* What LockTarget has read of the drawer holds as long as its sales stay; the branches of
\* the two registers stay for good.
LEMMA LockTargetKeepsInv ==
  ASSUME CashInv, NEW w \in Workers, LockTarget(w) PROVE CashInv'
<1> DEFINE j == task[w]
           n == [j EXCEPT !.step = "ready"]
<1>1. /\ j \in Task /\ UNCHANGED data /\ j.kind = "create" /\ j.step = "held"
      /\ Refers(w) /\ Holds(w) /\ KnowsSession(w)
  BY DEF LockTarget, CashInv, TasksMatch, CashTypeOK
<1>2. PICK s \in Sessions, r \in Registers :
        /\ s = j.session /\ r = j.register
        /\ session[s].status # "none" /\ Open(s) /\ lock[s] = w
  BY <1>1 DEF Refers, Holds, KnowsSession
<1>3. /\ register[r].state = "active" /\ BranchOf[r] # BranchOf[session[s].register]
      /\ j.amount <= Expected(s)
      /\ lock[BranchOf[r]] = Nobody /\ lock' = [lock EXCEPT ![BranchOf[r]] = w]
  BY <1>2 DEF LockTarget, Take, RowIsFree
<1>4. BranchOf[r] \in Rows /\ s \in Rows
  BY RegistersAssumption DEF Rows
<1>5. n \in Task
  BY <1>1 DEF Task
<1>6. task' = [task EXCEPT ![w] = n]
  BY DEF LockTarget, CashInv, CashTypeOK
<1>7. /\ n.kind = "create" /\ n.step = "ready" /\ n.session = s /\ n.register = r
      /\ n.amount = j.amount
  BY <1>1, <1>2 DEF Task
<1> HIDE DEF n
<1>8. task'[w] = n /\ lock'[s] = w
  BY <1>2, <1>3, <1>4, <1>6 DEF CashInv, CashTypeOK
<1>9. /\ \A x : Expected(x)' = Expected(x) /\ Open(x)' = Open(x)
      /\ register' = register /\ session' = session
  BY <1>1 DEF data, Expected, BesidesSales, Moved, Open
<1>10. Refers(w)'
  BY <1>1, <1>2, <1>3, <1>7, <1>8, <1>9 DEF Refers
<1>11. Holds(w)'
  BY <1>7, <1>8 DEF Holds
<1>12. (KnowsSession(w) /\ KnowsTransfer(w) /\ KnowsRegister(w))'
  BY <1>2, <1>3, <1>7, <1>8, <1>9 DEF KnowsSession, KnowsTransfer, KnowsRegister
<1> QED BY <1>1, <1>3, <1>4, <1>5, <1>6, <1>10, <1>11, <1>12, AskKeepsInv

LEMMA LockTransferKeepsInv ==
  ASSUME CashInv, NEW w \in Workers, LockTransfer(w) PROVE CashInv'
<1>1. PICK t \in Transfers, kind \in {"dispatch", "receive", "reject", "cancel"} :
        LockTransfer(w)!(t, kind)
  BY DEF LockTransfer
<1> DEFINE step == IF kind = "cancel" THEN "ready" ELSE "held"
           amount == transfer[t].amount
           n == [Idle EXCEPT !.kind = kind, !.step = step, !.transfer = t, !.amount = amount]
<1>2. amount \in Int /\ t \in Rows /\ step \in {"ready", "held"}
  BY DEF Rows, CashInv, CashTypeOK, TransferRow
<1>3. task' = [task EXCEPT ![w] = n] /\ UNCHANGED data
  BY <1>1
<1>4. kind # "cancel" => step = "held"
  OBVIOUS
<1>5. amount = transfer[t].amount
  OBVIOUS
<1> HIDE DEF step, amount
<1>6. n \in Task
  BY <1>2, IdleIsTask DEF Task, Kinds
<1>7. n.kind = kind /\ n.step = step /\ n.transfer = t /\ n.amount = amount
  BY IdleIsTask DEF Task
<1>8. lock[t] = Nobody /\ lock' = [lock EXCEPT ![t] = w]
  BY <1>1 DEF Take, RowIsFree
<1> HIDE DEF n
<1>9. task'[w] = n /\ lock'[t] = w
  BY <1>2, <1>3, <1>8 DEF CashInv, CashTypeOK
<1>10. Refers(w)'
  BY <1>7, <1>9 DEF Refers
<1>11. Holds(w)'
  BY <1>4, <1>7, <1>9 DEF Holds
<1>12. (KnowsSession(w) /\ KnowsRegister(w))'
  BY <1>7, <1>9 DEF KnowsSession, KnowsRegister
<1>13. KnowsTransfer(w)'
  BY <1>1, <1>3, <1>4, <1>5, <1>7, <1>9 DEF KnowsTransfer, Needed, data
<1> QED BY <1>2, <1>3, <1>6, <1>8, <1>10, <1>11, <1>12, <1>13, AskKeepsInv

LEMMA LockDrawerKeepsInv ==
  ASSUME CashInv, NEW w \in Workers, LockDrawer(w) PROVE CashInv'
<1> DEFINE j == task[w]
<1>1. /\ j \in Task /\ UNCHANGED data
      /\ j.step = "held" /\ j.kind \in {"dispatch", "receive", "reject"}
  BY DEF LockDrawer, CashInv, CashTypeOK
<1>2. PICK s \in Drawers(w) :
        /\ Open(s) /\ Take(w, s) /\ CashSuffices(w, s)
        /\ task' = [task EXCEPT ![w].step = "ready", ![w].session = s]
  BY DEF LockDrawer
<1> DEFINE n == [j EXCEPT !.step = "ready", !.session = s]
<1>3. s \in Sessions /\ s \in Rows
  BY <1>1 DEF Drawers, Rows
<1>4. n \in Task
  BY <1>1, <1>3 DEF Task
<1>5. task' = [task EXCEPT ![w] = n]
  BY <1>2 DEF CashInv, CashTypeOK
<1>6. /\ n.kind = j.kind /\ n.step = "ready" /\ n.transfer = j.transfer
      /\ n.amount = j.amount /\ n.session = s
  BY <1>1 DEF Task
<1>7. lock[s] = Nobody /\ lock' = [lock EXCEPT ![s] = w]
  BY <1>2 DEF Take, RowIsFree
<1> HIDE DEF n
<1>8. task'[w] = n /\ lock'[s] = w
  BY <1>3, <1>5, <1>7 DEF CashInv, CashTypeOK
<1>9. Refers(w) /\ Holds(w) /\ KnowsTransfer(w)
  BY DEF CashInv, TasksMatch
<1>10. j.transfer \in Transfers /\ j.transfer \in Rows
  BY <1>1, <1>9 DEF Refers, Rows
<1>11. lock'[j.transfer] = w
  BY <1>1, <1>7, <1>9, <1>10 DEF Holds, CashInv, CashTypeOK
<1>12. Refers(w)'
  BY <1>1, <1>6, <1>8, <1>10 DEF Refers
<1>13. Holds(w)'
  BY <1>1, <1>3, <1>6, <1>8, <1>11 DEF Holds
<1>14. (KnowsSession(w) /\ KnowsRegister(w))'
  BY <1>1, <1>6, <1>8 DEF KnowsSession, KnowsRegister
<1>15. KnowsTransfer(w)'
  <2>1. \A x : Expected(x)' = Expected(x) /\ Open(x)' = Open(x)
    BY <1>1 DEF data, Expected, BesidesSales, Moved, Open
  <2>2. Drawers(w)' = Drawers(w)
    BY <1>1, <1>6, <1>8 DEF Drawers, data
  <2>3. j.kind = "dispatch" => j.amount <= Expected(s)
    BY <1>2 DEF CashSuffices
  <2>4. UNCHANGED transfer /\ s \in Drawers(w)
    BY <1>1 DEF data
  <2>5. j.amount = transfer[j.transfer].amount /\ transfer[j.transfer].status = Needed(j.kind)
    BY <1>1, <1>9 DEF KnowsTransfer
  <2> QED BY <1>1, <1>2, <1>6, <1>8, <2>1, <2>2, <2>3, <2>4, <2>5 DEF KnowsTransfer
<1> QED BY <1>1, <1>3, <1>4, <1>5, <1>7, <1>12, <1>13, <1>14, <1>15, AskKeepsInv

LEMMA LockRegisterKeepsInv ==
  ASSUME CashInv, NEW w \in Workers, LockRegister(w) PROVE CashInv'
<1>1. PICK r \in Registers, on \in BOOLEAN : LockRegister(w)!(r, on)
  BY DEF LockRegister
<1> DEFINE n == [Idle EXCEPT !.kind = "toggle", !.step = "ready", !.register = r, !.default = on]
<1>2. r \in Rows
  BY DEF Rows
<1>3. n \in Task
  BY IdleIsTask DEF Task, Kinds
<1>4. n.kind = "toggle" /\ n.register = r /\ n.default = on
  BY IdleIsTask DEF Task
<1>5. task' = [task EXCEPT ![w] = n] /\ UNCHANGED data
  BY <1>1
<1>6. lock[r] = Nobody /\ lock' = [lock EXCEPT ![r] = w]
  BY <1>1 DEF Take, RowIsFree
<1> HIDE DEF n
<1>7. task'[w] = n /\ lock'[r] = w
  BY <1>2, <1>5, <1>6 DEF CashInv, CashTypeOK
<1>8. Refers(w)'
  BY <1>4, <1>7 DEF Refers
<1>9. Holds(w)'
  BY <1>4, <1>7 DEF Holds
<1>10. (KnowsSession(w) /\ KnowsTransfer(w))'
  BY <1>4, <1>7 DEF KnowsSession, KnowsTransfer
<1>11. Occupied(r)' = Occupied(r) /\ register' = register
  BY <1>5 DEF data, Occupied, Open
<1>12. KnowsRegister(w)'
  BY <1>1, <1>4, <1>7, <1>11 DEF KnowsRegister
<1> QED BY <1>2, <1>3, <1>5, <1>6, <1>8, <1>9, <1>10, <1>12, AskKeepsInv

LEMMA LockBranchKeepsInv ==
  ASSUME CashInv, NEW w \in Workers, LockBranch(w) PROVE CashInv'
<1>1. PICK r \in Registers, default \in BOOLEAN : LockBranch(w)!(r, default)
  BY DEF LockBranch
<1> DEFINE n == [Idle EXCEPT !.kind = "register", !.step = "ready", !.register = r,
                             !.default = default]
           b == BranchOf[r]
<1>2. b \in Rows
  BY RegistersAssumption DEF Rows
<1>3. n \in Task
  BY IdleIsTask DEF Task, Kinds
<1>4. n.kind = "register" /\ n.register = r
  BY IdleIsTask DEF Task
<1>5. task' = [task EXCEPT ![w] = n] /\ UNCHANGED data
  BY <1>1
<1>6. lock[b] = Nobody /\ lock' = [lock EXCEPT ![b] = w]
  BY <1>1 DEF Take, RowIsFree
<1> HIDE DEF n
<1>7. task'[w] = n /\ lock'[b] = w
  BY <1>2, <1>5, <1>6 DEF CashInv, CashTypeOK
<1>8. Refers(w)'
  BY <1>4, <1>7 DEF Refers
<1>9. Holds(w)'
  BY <1>4, <1>7 DEF Holds
<1>10. (KnowsSession(w) /\ KnowsTransfer(w) /\ KnowsRegister(w))'
  BY <1>4, <1>7 DEF KnowsSession, KnowsTransfer, KnowsRegister
<1> HIDE DEF b
<1> QED BY <1>2, <1>3, <1>5, <1>6, <1>8, <1>9, <1>10, AskKeepsInv

--------------------------------------------------------------------------------
\* Commits.  A commit disturbs nobody who holds the lock of a row it leaves alone.
LEMMA OthersUndisturbed ==
  ASSUME CashInv, NEW v \in Workers, task'[v] = task[v],
         \A x \in Sessions : (lock[x] = v /\ session[x].status # "none") =>
           /\ session'[x] = session[x] /\ till'[x] = till[x]
           /\ \A t \in Transfers : /\ x \in sent'[t] <=> x \in sent[t]
                                   /\ x \in landed'[t] <=> x \in landed[t],
         \A t \in Transfers :
           /\ (lock[t] = v /\ transfer[t].status # "none") => transfer'[t] = transfer[t]
           /\ (sent[t] # {} \/ landed[t] # {}) => transfer'[t].amount = transfer[t].amount,
         \A x \in Sessions : session[x].status # "none" =>
           session'[x].status # "none" /\ session'[x].register = session[x].register
  PROVE  Refers(v)' /\ KnowsSession(v)' /\ KnowsTransfer(v)'
<1> DEFINE j == task[v]
<1>1. /\ Refers(v) /\ Holds(v) /\ KnowsSession(v) /\ KnowsTransfer(v)
      /\ j \in Task
  BY DEF CashInv, TasksMatch, CashTypeOK
<1>2. \A x \in Sessions : (lock[x] = v /\ session[x].status # "none") =>
        Expected(x)' = Expected(x) /\ Open(x)' = Open(x)
  <2> SUFFICES ASSUME NEW x \in Sessions, lock[x] = v, session[x].status # "none"
               PROVE  Expected(x)' = Expected(x) /\ Open(x)' = Open(x)
    OBVIOUS
  <2>1. Open(x)' = Open(x)
    BY DEF Open
  <2>2. Expected(x)' = Expected(x)
    BY ExpectedStays
  <2> QED BY <2>1, <2>2
<1>3. Refers(v)'
  BY <1>1 DEF Refers
<1>4. KnowsSession(v)'
  <2>1. j.kind \in {"sale", "create"} =>
          j.session \in Sessions /\ lock[j.session] = v /\ session[j.session].status # "none"
    BY <1>1 DEF Refers, Holds
  <2>2. (j.kind = "close" /\ j.step = "ready") =>
          j.session \in Sessions /\ lock[j.session] = v /\ session[j.session].status # "none"
    BY <1>1 DEF Refers, Holds
  <2> QED BY <1>1, <1>2, <2>1, <2>2 DEF KnowsSession
<1>5. KnowsTransfer(v)'
  <2> DEFINE t == j.transfer
  <2>1. CASE j.kind \notin {"dispatch", "receive", "reject", "cancel"}
    BY <2>1 DEF KnowsTransfer
  <2>2. CASE j.kind \in {"dispatch", "receive", "reject", "cancel"}
    <3>0. t \in Transfers /\ lock[t] = v
      BY <1>1, <2>2 DEF Refers, Holds
    <3>2. transfer[t].status = Needed(j.kind) /\ j.amount = transfer[t].amount
      BY <1>1, <2>2 DEF KnowsTransfer
    <3>1. t \in Transfers /\ lock[t] = v /\ transfer'[t] = transfer[t]
      BY <3>0, <3>2 DEF Needed
    <3>3. transfer[t].source \in Sessions /\ session[transfer[t].source].status # "none"
      BY <3>1, <3>2 DEF CashInv, RowsFilled, Needed
    <3>4. CASE j.kind = "cancel" \/ j.step # "ready"
      BY <2>2, <3>1, <3>2, <3>4 DEF KnowsTransfer
    <3>5. CASE j.kind # "cancel" /\ j.step = "ready"
      <4>1. j.session \in Sessions /\ lock[j.session] = v
        BY <1>1, <2>2, <3>5 DEF Holds
      <4>2. j.session \in Drawers(v) /\ Open(j.session)
        BY <1>1, <2>2, <3>5 DEF KnowsTransfer
      <4>3. session'[j.session] = session[j.session] /\ session[j.session].status # "none"
        BY <4>1, <4>2 DEF Open
      <4>4. session'[transfer[t].source].register = session[transfer[t].source].register
        BY <3>3
      <4>5. j.session \in Drawers(v)'
        BY <3>1, <4>1, <4>2, <4>3, <4>4 DEF Drawers
      <4>6. Open(j.session)' /\ Expected(j.session)' = Expected(j.session)
        BY <1>2, <4>1, <4>2, <4>3
      <4> QED BY <1>1, <2>2, <3>1, <3>2, <4>5, <4>6 DEF KnowsTransfer
    <3> QED BY <3>4, <3>5
  <2> QED BY <2>1, <2>2
<1> QED BY <1>3, <1>4, <1>5

\* Registers that do not change and do not become occupied disturb nobody.
LEMMA RegistersUndisturbed ==
  ASSUME CashInv, NEW v \in Workers, task'[v] = task[v], register' = register,
         \A r \in Registers : Occupied(r)' => Occupied(r)
  PROVE  KnowsRegister(v)'
<1>1. KnowsRegister(v) /\ Refers(v)
  BY DEF CashInv, TasksMatch
<1> QED BY <1>1 DEF KnowsRegister, Refers

\* A transfer is recorded where it landed as long as sessions keep their registers.
LEMMA TransferRowsStay ==
  ASSUME CashInv, UNCHANGED <<transfer, sent, landed>>,
         \A x \in Sessions : session[x].status # "none" => session'[x].register = session[x].register
  PROVE  TransferRowsMatchStatus'
<1> DEFINE Landed(t, r) == \E x \in Sessions : landed[t] = {x} /\ session[x].register = r
<1> SUFFICES ASSUME NEW t \in Transfers
             PROVE  /\ transfer[t].status = "recibida" => Landed(t, transfer[t].target)'
                    /\ transfer[t].status = "rechazada" => Landed(t, session[transfer[t].source].register)'
  BY DEF CashInv, TransferRowsMatchStatus
<1>1. ASSUME NEW r \in Registers, Landed(t, r)
      PROVE  \E x \in Sessions : landed'[t] = {x} /\ session'[x].register = r
  <2>1. PICK x \in Sessions : landed[t] = {x} /\ session[x].register = r
    BY <1>1
  <2>2. session[x].status # "none"
    BY <2>1, NobodyAssumption DEF CashInv, RowsFilled, NoSession
  <2> QED BY <2>1, <2>2
<1>2. CASE transfer[t].status = "recibida"
  <2>1. transfer[t].target \in Registers /\ Landed(t, transfer[t].target)
    BY <1>2 DEF CashInv, RowsFilled, TransferRowsMatchStatus
  <2> QED BY <1>1, <1>2, <2>1
<1>3. CASE transfer[t].status = "rechazada"
  <2>1. /\ transfer[t].source \in Sessions /\ session[transfer[t].source].status # "none"
        /\ Landed(t, session[transfer[t].source].register)
    BY <1>3 DEF CashInv, RowsFilled, TransferRowsMatchStatus
  <2>2. session[transfer[t].source].register \in Registers
    BY <2>1 DEF CashInv, RowsFilled
  <2>3. session'[transfer[t].source].register = session[transfer[t].source].register
    BY <2>1
  <2>4. \E x \in Sessions : landed'[t] = {x} /\ session'[x].register = session[transfer[t].source].register
    BY <1>1, <2>1, <2>2
  <2>5. \E x \in Sessions : landed'[t] = {x} /\ session'[x].register = session'[transfer'[t].source].register
    BY <2>3, <2>4
  <2> QED BY <1>3, <2>5
<1> QED BY <1>2, <1>3

LEMMA AbortKeepsInv ==
  ASSUME CashInv, NEW w \in Workers, Abort(w) PROVE CashInv'
<1>1. UNCHANGED data /\ End(w)
  BY DEF Abort
<1>2. ASSUME NEW v \in Workers \ {w}, task'[v] = task[v]
      PROVE  Refers(v)' /\ KnowsSession(v)' /\ KnowsTransfer(v)' /\ KnowsRegister(v)'
  BY <1>1, <1>2, KnowledgeStays DEF CashInv, TasksMatch
<1>3. (RowsFilled /\ OneSessionPerRegister /\ OpenSessionsHaveActiveRegister)'
  BY <1>1 DEF CashInv, RowsFilled, OneSessionPerRegister, OpenSessionsHaveActiveRegister, data, Open
<1>4. TransferRowsMatchStatus'
  BY <1>1 DEF CashInv, TransferRowsMatchStatus, data
<1>5. UNCHANGED <<session, till, register, transfer, sent, landed>> /\ CashTypeOK
  BY <1>1 DEF data, CashInv
<1> QED BY <1>1, <1>2, <1>3, <1>4, <1>5, EndKeepsInv DEF CashTypeOK

\* A movement or a sale adds to the till of the session its handler has locked.
LEMMA CommitTillKeepsInv ==
  ASSUME CashInv, NEW w \in Workers, CommitMovement(w) \/ CommitSale(w) PROVE CashInv'
<1> DEFINE j == task[w]
           s == j.session
<1>1. /\ j \in Task /\ Refers(w) /\ Holds(w) /\ End(w)
      /\ j.kind \in {"movement", "sale"} /\ j.step = "ready"
      /\ UNCHANGED <<session, register, transfer, sent, landed>>
  BY DEF CashInv, TasksMatch, CashTypeOK, CommitMovement, CommitSale, Ready
<1>2. s \in Sessions /\ lock[s] = w
  BY <1>1 DEF Refers, Holds
<1>3. CashTypeOK
  BY DEF CashInv
<1>4. /\ till' \in [Sessions -> [sold : Nat, takings : Nat, manual : Int]]
      /\ \A x \in Sessions : x # s => till'[x] = till[x]
  <2>1. CASE CommitMovement(w)
    <3>1. j.amount \in Int
      BY <1>1 DEF Task
    <3> QED BY <1>2, <1>3, <2>1, <3>1 DEF CommitMovement, CashTypeOK
  <2>2. CASE CommitSale(w)
    <3>1. j.amount \in Nat
      BY <1>1, <2>2 DEF Refers, CommitSale, Ready
    <3> QED BY <1>2, <1>3, <2>2, <3>1 DEF CommitSale, CashTypeOK
  <2> QED BY <2>1, <2>2
<1>5. (RowsFilled /\ OneSessionPerRegister /\ OpenSessionsHaveActiveRegister)'
  BY <1>1 DEF CashInv, RowsFilled, OneSessionPerRegister, OpenSessionsHaveActiveRegister, Open
<1>6. TransferRowsMatchStatus'
  BY <1>1 DEF CashInv, TransferRowsMatchStatus
<1>7. ASSUME NEW v \in Workers \ {w}, task'[v] = task[v]
      PROVE  Refers(v)' /\ KnowsSession(v)' /\ KnowsTransfer(v)' /\ KnowsRegister(v)'
  <2>1. \A x \in Sessions : lock[x] = v => x # s
    BY <1>2, <1>7
  <2>2. \A r \in Registers : Occupied(r)' => Occupied(r)
    BY <1>1 DEF Occupied, Open
  <2>3. KnowsRegister(v)'
    BY <1>1, <1>7, <2>2, RegistersUndisturbed
  <2> HIDE DEF s
  <2>4. Refers(v)' /\ KnowsSession(v)' /\ KnowsTransfer(v)'
    BY <1>1, <1>4, <1>7, <2>1, OthersUndisturbed
  <2> QED BY <2>3, <2>4
<1> QED BY <1>1, <1>3, <1>4, <1>5, <1>6, <1>7, EndKeepsInv DEF CashTypeOK

\* A closing or a voiding rewrites the session its handler has locked, which is
\* not open afterwards.
LEMMA CommitEndOfSessionKeepsInv ==
  ASSUME CashInv, NEW w \in Workers, CommitClose(w) \/ CommitVoid(w) PROVE CashInv'
<1> DEFINE j == task[w]
           s == j.session
<1>1. /\ j \in Task /\ Refers(w) /\ Holds(w) /\ End(w)
      /\ j.kind \in {"close", "void"} /\ j.step = "ready"
      /\ UNCHANGED <<till, register, transfer, sent, landed>>
  BY DEF CashInv, TasksMatch, CashTypeOK, CommitClose, CommitVoid, Ready
<1>2. s \in Sessions /\ lock[s] = w /\ session[s].status # "none"
  BY <1>1 DEF Refers, Holds
<1>3. CashTypeOK /\ session \in [Sessions -> SessionRow]
  BY DEF CashInv, CashTypeOK
<1>4. /\ session' \in [Sessions -> SessionRow]
      /\ \A x \in Sessions : x # s => session'[x] = session[x]
      /\ session'[s].status \in {"cerrada", "anulada"}
      /\ session'[s].register = session[s].register /\ session'[s].user = session[s].user
  <2>1. CASE CommitClose(w)
    <3>1. PICK counted \in 0..MaxCash, expected \in Int :
            session' = [session EXCEPT ![s].status = "cerrada", ![s].counted = counted,
                                       ![s].expected = expected]
      <4>1. session[s].expected \in Int /\ j.read \in Int
        BY <1>1, <1>2, <1>3 DEF SessionRow, Task
      <4> DEFINE e == IF j.stale /\ j.read = session[s].opening THEN session[s].expected ELSE j.read
      <4>2. e \in Int
        BY <4>1
      <4>3. PICK counted \in 0..MaxCash :
              session' = [session EXCEPT ![s].status = "cerrada", ![s].counted = counted,
                   ![s].expected = IF j.stale /\ j.read = session[s].opening THEN @ ELSE j.read]
        BY <2>1 DEF CommitClose
      <4>4. session' = [session EXCEPT ![s].status = "cerrada", ![s].counted = counted,
                                       ![s].expected = e]
        BY <1>2, <1>3, <4>3 DEF SessionRow
      <4> HIDE DEF e, s, j
      <4> QED BY <4>2, <4>4
    <3>2. counted \in Nat
      BY AmountsAssumption
    <3> DEFINE row == [session[s] EXCEPT !.status = "cerrada", !.counted = counted,
                                         !.expected = expected]
    <3>3. /\ row \in SessionRow /\ row.status = "cerrada"
          /\ row.register = session[s].register /\ row.user = session[s].user
      <4> HIDE DEF s
      <4> QED BY <1>2, <1>3, <3>2 DEF SessionRow
    <3>4. session' = [session EXCEPT ![s] = row]
      BY <1>2, <1>3, <3>1
    <3> HIDE DEF row
    <3> QED BY <1>2, <1>3, <3>3, <3>4
  <2>2. CASE CommitVoid(w)
    BY <1>2, <1>3, <2>2 DEF CommitVoid, SessionRow
  <2> QED BY <2>1, <2>2
<1> HIDE DEF s
<1>5. \A x \in Sessions : Open(x)' => session'[x] = session[x] /\ Open(x)
  BY <1>4 DEF Open
<1>6. RowsFilled'
  BY <1>1, <1>2, <1>4, <1>5 DEF CashInv, RowsFilled, Open
<1>7. OneSessionPerRegister' /\ OpenSessionsHaveActiveRegister'
  BY <1>1, <1>5 DEF CashInv, OneSessionPerRegister, OpenSessionsHaveActiveRegister
<1>8. \A x \in Sessions : session'[x].register = session[x].register
  BY <1>4
<1>9. TransferRowsMatchStatus'
  BY <1>1, <1>8, TransferRowsStay
<1>10. ASSUME NEW v \in Workers \ {w}, task'[v] = task[v]
       PROVE  Refers(v)' /\ KnowsSession(v)' /\ KnowsTransfer(v)' /\ KnowsRegister(v)'
  <2>1. \A x \in Sessions : lock[x] = v => x # s
    BY <1>2, <1>10
  <2>2. \A r \in Registers : Occupied(r)' => Occupied(r)
    BY <1>5 DEF Occupied
  <2>3. KnowsRegister(v)'
    BY <1>1, <1>10, <2>2, RegistersUndisturbed
  <2>4. \A x \in Sessions : session[x].status # "none" =>
          session'[x].status # "none" /\ session'[x].register = session[x].register
    BY <1>4
  <2>5. Refers(v)' /\ KnowsSession(v)' /\ KnowsTransfer(v)'
    BY <1>1, <1>4, <1>10, <2>1, <2>4, OthersUndisturbed
  <2> QED BY <2>3, <2>5
<1> QED BY <1>1, <1>3, <1>4, <1>6, <1>7, <1>9, <1>10, EndKeepsInv DEF CashTypeOK

\* The part of TransferRowsMatchStatus that is about one transfer.
RowMatches(t) ==
  LET x == transfer[t] IN
  /\ sent[t] = IF x.status \in {"en_transito", "recibida", "rechazada"} THEN {x.source} ELSE {}
  /\ CASE x.status = "recibida"  -> \E s \in Sessions : landed[t] = {s} /\ session[s].register = x.target
       [] x.status = "rechazada" -> \E s \in Sessions : landed[t] = {s} /\ session[s].register = session[x.source].register
       [] OTHER -> landed[t] = {}

\* The commit of a handler of one transfer, which moves cash only of the session
\* the handler has locked.
TransferCommit(w, t, row, out, in) ==
  /\ End(w) /\ UNCHANGED <<session, till, register>>
  /\ transfer' = [transfer EXCEPT ![t] = row]
  /\ sent' = [sent EXCEPT ![t] = out] /\ landed' = [landed EXCEPT ![t] = in]
  /\ transfer[t].status # "none" => lock[t] = w
  /\ \A x \in Sessions : lock[x] # w => /\ x \in out <=> x \in sent[t]
                                        /\ x \in in <=> x \in landed[t]
  /\ (sent[t] # {} \/ landed[t] # {}) => row.amount = transfer[t].amount
  /\ row.status # "none" /\ row.target \in Registers
  /\ row.source \in Sessions /\ session[row.source].status # "none"
  /\ RowMatches(t)'

LEMMA TransferCommitKeepsInv ==
  ASSUME CashInv, NEW w \in Workers,
         NEW t \in Transfers, NEW row \in TransferRow,
         NEW out \in SUBSET Sessions, NEW in \in SUBSET Sessions,
         TransferCommit(w, t, row, out, in)
  PROVE  CashInv'
<1> USE DEF TransferCommit
<1>1. /\ transfer \in [Transfers -> TransferRow]
      /\ sent \in [Transfers -> SUBSET Sessions] /\ landed \in [Transfers -> SUBSET Sessions]
      /\ CashTypeOK
  BY DEF CashInv, CashTypeOK
<1>2. /\ transfer' \in [Transfers -> TransferRow]
      /\ sent' \in [Transfers -> SUBSET Sessions] /\ landed' \in [Transfers -> SUBSET Sessions]
  BY <1>1
<1>3. /\ transfer'[t] = row /\ sent'[t] = out /\ landed'[t] = in
      /\ \A u \in Transfers : u # t =>
           transfer'[u] = transfer[u] /\ sent'[u] = sent[u] /\ landed'[u] = landed[u]
  BY <1>1
<1>4. RowsFilled'
  BY <1>3 DEF CashInv, RowsFilled, Open
<1>5. (OneSessionPerRegister /\ OpenSessionsHaveActiveRegister)'
  BY DEF CashInv, OneSessionPerRegister, OpenSessionsHaveActiveRegister, Open
<1>6. TransferRowsMatchStatus'
  <2>1. ASSUME NEW u \in Transfers, u # t PROVE RowMatches(u)'
    <3>1. RowMatches(u)
      BY DEF CashInv, TransferRowsMatchStatus, RowMatches
    <3> QED BY <1>3, <2>1, <3>1 DEF RowMatches
  <2>2. \A u \in Transfers : RowMatches(u)'
    BY <2>1
  <2> QED BY <2>2 DEF TransferRowsMatchStatus, RowMatches
<1>7. ASSUME NEW v \in Workers \ {w}, task'[v] = task[v]
      PROVE  Refers(v)' /\ KnowsSession(v)' /\ KnowsTransfer(v)' /\ KnowsRegister(v)'
  <2>1. \A r \in Registers : Occupied(r)' => Occupied(r)
    BY DEF Occupied, Open
  <2>2. KnowsRegister(v)'
    BY <1>7, <2>1, RegistersUndisturbed
  <2>3. \A x \in Sessions : lock[x] = v =>
          \A u \in Transfers : /\ x \in sent'[u] <=> x \in sent[u]
                               /\ x \in landed'[u] <=> x \in landed[u]
    BY <1>3, <1>7
  <2>4. \A u \in Transfers :
          /\ (lock[u] = v /\ transfer[u].status # "none") => transfer'[u] = transfer[u]
          /\ (sent[u] # {} \/ landed[u] # {}) => transfer'[u].amount = transfer[u].amount
    BY <1>3, <1>7
  <2>5. Refers(v)' /\ KnowsSession(v)' /\ KnowsTransfer(v)'
    BY <1>7, <2>3, <2>4, OthersUndisturbed
  <2> QED BY <2>2, <2>5
<1> QED BY <1>1, <1>2, <1>4, <1>5, <1>6, <1>7, EndKeepsInv DEF CashTypeOK

LEMMA CommitCreateKeepsInv ==
  ASSUME CashInv, NEW w \in Workers, CommitCreate(w) PROVE CashInv'
<1>1. /\ Refers(w) /\ Holds(w) /\ KnowsSession(w) /\ task[w].kind = "create" /\ End(w)
      /\ UNCHANGED <<session, till, register, sent, landed>>
  BY DEF CashInv, TasksMatch, CommitCreate, Ready
<1>2. PICK s \in Sessions, target \in Registers, amount \in Nat :
        /\ s = task[w].session /\ target = task[w].register /\ amount = task[w].amount
        /\ session[s].status # "none"
  BY <1>1 DEF Refers
<1>3. PICK row : row = [status |-> "pendiente", source |-> s, target |-> target, amount |-> amount]
  OBVIOUS
<1>4. /\ row \in TransferRow /\ row.status = "pendiente"
      /\ row.source = s /\ row.target = target
  BY <1>3 DEF TransferRow
<1>5. PICK t \in Transfers : transfer[t].status = "none" /\ transfer' = [transfer EXCEPT ![t] = row]
  BY <1>2, <1>3 DEF CommitCreate
<1>6. sent[t] = {} /\ landed[t] = {}
  BY <1>5 DEF CashInv, TransferRowsMatchStatus
<1>7. sent' = [sent EXCEPT ![t] = {}] /\ landed' = [landed EXCEPT ![t] = {}]
  BY <1>1, <1>6 DEF CashInv, CashTypeOK
<1>8. transfer'[t] = row /\ sent'[t] = {} /\ landed'[t] = {}
  BY <1>1, <1>5, <1>6 DEF CashInv, CashTypeOK
<1>9. RowMatches(t)'
  BY <1>4, <1>8 DEF RowMatches
<1>10. {} \in SUBSET Sessions /\ session[row.source].status # "none"
  BY <1>2, <1>4
<1>20. TransferCommit(w, t, row, {}, {})
  BY <1>1, <1>4, <1>5, <1>6, <1>7, <1>9, <1>10 DEF TransferCommit
<1> QED BY <1>4, <1>10, <1>20, TransferCommitKeepsInv

LEMMA CommitDispatchKeepsInv ==
  ASSUME CashInv, NEW w \in Workers, CommitDispatch(w) PROVE CashInv'
<1>1. /\ Refers(w) /\ Holds(w) /\ KnowsTransfer(w) /\ End(w)
      /\ task[w].kind = "dispatch" /\ task[w].step = "ready"
      /\ UNCHANGED <<session, till, register, landed>>
      /\ CashTypeOK
  BY DEF CashInv, TasksMatch, CommitDispatch, Ready
<1>2. PICK t \in Transfers, s \in Sessions :
        /\ t = task[w].transfer /\ s = task[w].session
        /\ lock[t] = w /\ transfer[t].status = "pendiente"
        /\ lock[s] = w /\ s = transfer[t].source
  BY <1>1 DEF Refers, Holds, KnowsTransfer, Needed, Drawers
<1>3. PICK row : row = [transfer[t] EXCEPT !.status = "en_transito"]
  OBVIOUS
<1>4. transfer[t] \in TransferRow
  BY <1>1, <1>2 DEF CashTypeOK
<1>5. /\ row \in TransferRow /\ row.status = "en_transito" /\ row.amount = transfer[t].amount
      /\ row.source = s /\ row.target = transfer[t].target
  BY <1>2, <1>3, <1>4 DEF TransferRow
<1>6. /\ row.target \in Registers /\ row.source \in Sessions
      /\ session[row.source].status # "none"
  BY <1>2, <1>5 DEF CashInv, RowsFilled
<1>7. transfer' = [transfer EXCEPT ![t] = row] /\ sent' = [sent EXCEPT ![t] = {s}]
  BY <1>1, <1>2, <1>3 DEF CommitDispatch, CashTypeOK
<1>8. sent[t] = {} /\ landed[t] = {} /\ landed' = [landed EXCEPT ![t] = {}]
  BY <1>1, <1>2 DEF CashInv, TransferRowsMatchStatus, CashTypeOK
<1>9. transfer'[t] = row /\ sent'[t] = {s} /\ landed'[t] = {}
  BY <1>1, <1>2, <1>7, <1>8 DEF CashTypeOK
<1>10. RowMatches(t)'
  BY <1>5, <1>9 DEF RowMatches
<1>11. {} \in SUBSET Sessions /\ {s} \in SUBSET Sessions
  BY <1>2
<1>12. \A x \in Sessions : lock[x] # w => (x \in {s} <=> x \in sent[t]) /\ (x \in {} <=> x \in landed[t])
  BY <1>2, <1>8
<1>20. TransferCommit(w, t, row, {s}, {})
  BY <1>1, <1>2, <1>5, <1>6, <1>7, <1>8, <1>10, <1>11, <1>12 DEF TransferCommit
<1> QED BY <1>2, <1>5, <1>11, <1>20, TransferCommitKeepsInv

LEMMA CommitLandingKeepsInv ==
  ASSUME CashInv, NEW w \in Workers, CommitLanding(w) PROVE CashInv'
<1>1. /\ Refers(w) /\ Holds(w) /\ KnowsTransfer(w) /\ End(w)
      /\ task[w].kind \in {"receive", "reject"} /\ task[w].step = "ready"
      /\ UNCHANGED <<session, till, register, sent>>
      /\ CashTypeOK
  BY DEF CashInv, TasksMatch, CommitLanding, Ready
<1>2. PICK t \in Transfers, s \in Sessions :
        /\ t = task[w].transfer /\ s = task[w].session
        /\ lock[t] = w /\ transfer[t].status = "en_transito" /\ lock[s] = w
        /\ task[w].kind = "receive" => session[s].register = transfer[t].target
        /\ task[w].kind = "reject" => session[s].register = session[transfer[t].source].register
  BY <1>1 DEF Refers, Holds, KnowsTransfer, Needed, Drawers
<1>3. PICK status \in {"recibida", "rechazada"} :
        status = IF task[w].kind = "receive" THEN "recibida" ELSE "rechazada"
  OBVIOUS
<1>4. PICK row : row = [transfer[t] EXCEPT !.status = status]
  OBVIOUS
<1>5. transfer[t] \in TransferRow
  BY <1>1, <1>2 DEF CashTypeOK
<1>6. /\ row \in TransferRow /\ row.status = status /\ row.amount = transfer[t].amount
      /\ row.source = transfer[t].source /\ row.target = transfer[t].target
  BY <1>4, <1>5 DEF TransferRow
<1>7. /\ row.target \in Registers /\ row.source \in Sessions
      /\ session[row.source].status # "none"
  BY <1>2, <1>6 DEF CashInv, RowsFilled
<1>8. transfer' = [transfer EXCEPT ![t] = row] /\ landed' = [landed EXCEPT ![t] = {s}]
  BY <1>1, <1>2, <1>3, <1>4 DEF CommitLanding, CashTypeOK
<1>9. /\ sent[t] = {row.source} /\ landed[t] = {}
      /\ sent' = [sent EXCEPT ![t] = {row.source}]
  BY <1>1, <1>2, <1>6 DEF CashInv, TransferRowsMatchStatus, CashTypeOK
<1>10. transfer'[t] = row /\ sent'[t] = {row.source} /\ landed'[t] = {s} /\ session' = session
  BY <1>1, <1>2, <1>8, <1>9 DEF CashTypeOK
<1>11. /\ status = "recibida" => session[s].register = row.target
       /\ status = "rechazada" => session[s].register = session[row.source].register
  BY <1>1, <1>2, <1>3, <1>6
<1>12. RowMatches(t)'
  BY <1>2, <1>6, <1>10, <1>11 DEF RowMatches
<1>13. {row.source} \in SUBSET Sessions /\ {s} \in SUBSET Sessions
  BY <1>2, <1>7
<1>14. \A x \in Sessions :
         lock[x] # w => (x \in {row.source} <=> x \in sent[t]) /\ (x \in {s} <=> x \in landed[t])
  BY <1>2, <1>9
<1>15. row.status # "none"
  BY <1>6
<1>20. TransferCommit(w, t, row, {row.source}, {s})
  BY <1>1, <1>2, <1>6, <1>7, <1>8, <1>9, <1>12, <1>13, <1>14, <1>15 DEF TransferCommit
<1> QED BY <1>2, <1>6, <1>13, <1>20, TransferCommitKeepsInv

LEMMA CommitCancelKeepsInv ==
  ASSUME CashInv, NEW w \in Workers, CommitCancel(w) PROVE CashInv'
<1>1. /\ Refers(w) /\ Holds(w) /\ KnowsTransfer(w) /\ End(w) /\ task[w].kind = "cancel"
      /\ UNCHANGED <<session, till, register, sent, landed>>
      /\ CashTypeOK
  BY DEF CashInv, TasksMatch, CommitCancel, Ready
<1>2. PICK t \in Transfers :
        t = task[w].transfer /\ lock[t] = w /\ transfer[t].status = "pendiente"
  BY <1>1 DEF Refers, Holds, KnowsTransfer, Needed
<1>3. PICK row : row = [transfer[t] EXCEPT !.status = "cancelada"]
  OBVIOUS
<1>4. transfer[t] \in TransferRow
  BY <1>1, <1>2 DEF CashTypeOK
<1>5. /\ row \in TransferRow /\ row.status = "cancelada"
      /\ row.source = transfer[t].source /\ row.target = transfer[t].target
  BY <1>3, <1>4 DEF TransferRow
<1>6. /\ row.target \in Registers /\ row.source \in Sessions
      /\ session[row.source].status # "none"
  BY <1>2, <1>5 DEF CashInv, RowsFilled
<1>7. sent[t] = {} /\ landed[t] = {}
  BY <1>2 DEF CashInv, TransferRowsMatchStatus
<1>8. /\ transfer' = [transfer EXCEPT ![t] = row]
      /\ sent' = [sent EXCEPT ![t] = {}] /\ landed' = [landed EXCEPT ![t] = {}]
  BY <1>1, <1>2, <1>3, <1>7 DEF CommitCancel, CashTypeOK
<1>9. transfer'[t] = row /\ sent'[t] = {} /\ landed'[t] = {}
  BY <1>1, <1>2, <1>8 DEF CashTypeOK
<1>10. RowMatches(t)'
  BY <1>5, <1>9 DEF RowMatches
<1>11. {} \in SUBSET Sessions
  OBVIOUS
<1>20. TransferCommit(w, t, row, {}, {})
  BY <1>1, <1>2, <1>5, <1>6, <1>7, <1>8, <1>10, <1>11 DEF TransferCommit
<1> QED BY <1>5, <1>11, <1>20, TransferCommitKeepsInv

\* A new session is inserted on a register whose lock, or whose branch's, its
\* handler holds.
LEMMA CommitOpenKeepsInv ==
  ASSUME CashInv, NEW w \in Workers, CommitOpen(w) PROVE CashInv'
<1>1. /\ Refers(w) /\ Holds(w) /\ KnowsRegister(w) /\ End(w)
      /\ task[w] \in Task /\ task[w].kind \in {"open", "reopen"} /\ task[w].step = "ready"
      /\ UNCHANGED <<till, transfer, sent, landed>> /\ CashTypeOK
  BY DEF CashInv, TasksMatch, CashTypeOK, CommitOpen, Ready
<1>2. PICK r \in Registers, u \in Users : r = task[w].register /\ u = task[w].user
  BY <1>1 DEF Refers
<1>3. PICK opening \in Int :
        opening = IF task[w].kind = "open" THEN task[w].amount ELSE session[task[w].session].counted
  BY <1>1 DEF Refers, Task, CashTypeOK, SessionRow
<1>4. PICK row : row = [status |-> "abierta", user |-> u, register |-> r,
                        opening |-> opening, expected |-> opening, counted |-> 0]
  OBVIOUS
<1>5. /\ row \in SessionRow /\ row.status = "abierta" /\ row.user = u /\ row.register = r
      /\ row.expected = row.opening
  BY <1>4 DEF SessionRow
<1>6. PICK s \in Sessions : session[s].status = "none" /\ session' = [session EXCEPT ![s] = row]
  BY <1>2, <1>3, <1>4 DEF CommitOpen
<1>7. session' \in [Sessions -> SessionRow]
  BY <1>1, <1>5, <1>6 DEF CashTypeOK
<1>8. session'[s] = row /\ \A x \in Sessions : x # s => session'[x] = session[x]
  BY <1>1, <1>6 DEF CashTypeOK
<1>9. ~Occupied(r)
  BY <1>2 DEF CommitOpen, IndexAdmits
<1>10. \/ task[w].default /\ register[r] \in {[state |-> "active", default |-> TRUE],
                                              [state |-> "none", default |-> FALSE]}
       \/ lock[r] = w /\ register[r].state = "active"
  BY <1>1, <1>2 DEF KnowsRegister, Holds
<1>11. /\ register' \in [Registers -> [state : {"none", "active", "inactive"}, default : BOOLEAN]]
       /\ \A x \in Registers : x # r => register'[x] = register[x]
       /\ register'[r] = IF register[r].state = "none" THEN [state |-> "active", default |-> TRUE]
                         ELSE register[r]
  BY <1>1, <1>2 DEF CommitOpen, CashTypeOK
<1>12. RowsFilled'
  BY <1>1, <1>5, <1>8 DEF CashInv, RowsFilled, Open
<1>13. OneSessionPerRegister'
  BY <1>5, <1>8, <1>9 DEF CashInv, OneSessionPerRegister, Open, Occupied
<1>14. register'[r].state = "active" /\ \A x \in Registers :
         register[x].state # "none" => register'[x] = register[x]
  BY <1>10, <1>11
<1>15. OpenSessionsHaveActiveRegister'
  <2> SUFFICES ASSUME NEW x \in Sessions, Open(x)'
               PROVE  register'[session'[x].register].state = "active"
    BY DEF OpenSessionsHaveActiveRegister
  <2>1. CASE x = s
    BY <1>5, <1>8, <1>14, <2>1
  <2>2. CASE x # s
    <3>1. Open(x) /\ session[x].register \in Registers
      BY <1>8, <2>2 DEF Open, CashInv, RowsFilled
    <3> QED BY <1>8, <1>14, <2>2, <3>1 DEF CashInv, OpenSessionsHaveActiveRegister
  <2> QED BY <2>1, <2>2
<1>16. \A x \in Sessions : session[x].status # "none" => session'[x] = session[x]
  BY <1>6, <1>8
<1>17. TransferRowsMatchStatus'
  BY <1>1, <1>16, TransferRowsStay
<1>18. ASSUME NEW v \in Workers \ {w}, task'[v] = task[v]
       PROVE  Refers(v)' /\ KnowsSession(v)' /\ KnowsTransfer(v)' /\ KnowsRegister(v)'
  <2>1. Refers(v)' /\ KnowsSession(v)' /\ KnowsTransfer(v)'
    BY <1>1, <1>16, <1>18, OthersUndisturbed
  <2>2. Refers(v) /\ Holds(v) /\ KnowsRegister(v)
    BY DEF CashInv, TasksMatch
  <2>3. \A x \in Registers : x # r /\ Occupied(x)' => Occupied(x)
    BY <1>5, <1>8 DEF Occupied, Open
  <2>4. (task[v].kind = "toggle" /\ ~task[v].default) => task[v].register # r
    BY <1>10, <1>18, <2>2 DEF Holds, KnowsRegister
  <2>5. \A x \in Registers : register'[x] \in {register[x], [state |-> "active", default |-> TRUE]}
    BY <1>11
  <2>6. KnowsRegister(v)'
    BY <1>14, <1>18, <2>2, <2>3, <2>4, <2>5 DEF KnowsRegister, Refers
  <2> QED BY <2>1, <2>6
<1> QED BY <1>1, <1>7, <1>11, <1>12, <1>13, <1>15, <1>17, <1>18, EndKeepsInv DEF CashTypeOK

\* A register is switched under its own lock.  Who opens on the default register
\* does not hold that one, but the default register is never switched off.
LEMMA CommitToggleKeepsInv ==
  ASSUME CashInv, NEW w \in Workers, CommitToggle(w) PROVE CashInv'
<1>1. /\ Refers(w) /\ Holds(w) /\ KnowsRegister(w) /\ End(w) /\ task[w].kind = "toggle"
      /\ UNCHANGED <<session, till, transfer, sent, landed>> /\ CashTypeOK
  BY DEF CashInv, TasksMatch, CommitToggle, Ready
<1>2. PICK r \in Registers : r = task[w].register /\ lock[r] = w /\ register[r].state # "none"
  BY <1>1 DEF Refers, Holds, KnowsRegister
<1>3. PICK state \in {"active", "inactive"} :
        /\ state = IF task[w].default THEN "active" ELSE "inactive"
        /\ state = "inactive" => ~register[r].default /\ ~Occupied(r)
  BY <1>1, <1>2 DEF KnowsRegister
<1>4. PICK row : row = [register[r] EXCEPT !.state = state]
  OBVIOUS
<1>5. /\ row \in [state : {"none", "active", "inactive"}, default : BOOLEAN]
      /\ row = [state |-> state, default |-> register[r].default]
      /\ row.state = state /\ row.default = register[r].default
  BY <1>1, <1>4 DEF CashTypeOK
<1>6. register' = [register EXCEPT ![r] = row]
  BY <1>1, <1>2, <1>3, <1>4 DEF CommitToggle, CashTypeOK
<1>7. register' \in [Registers -> [state : {"none", "active", "inactive"}, default : BOOLEAN]]
  BY <1>1, <1>5, <1>6 DEF CashTypeOK
<1>8. register'[r] = row /\ \A x \in Registers : x # r => register'[x] = register[x]
  BY <1>1, <1>6 DEF CashTypeOK
<1>9. RowsFilled' /\ OneSessionPerRegister'
  BY <1>1 DEF CashInv, RowsFilled, OneSessionPerRegister, Open
<1>10. OpenSessionsHaveActiveRegister'
  <2> SUFFICES ASSUME NEW x \in Sessions, Open(x)
               PROVE  register'[session[x].register].state = "active"
    BY <1>1 DEF OpenSessionsHaveActiveRegister, Open
  <2>1. /\ session[x].register \in Registers
        /\ register[session[x].register].state = "active"
    BY DEF CashInv, OpenSessionsHaveActiveRegister, RowsFilled, Open
  <2>2. session[x].register = r => state = "active"
    BY <1>3 DEF Occupied
  <2> QED BY <1>5, <1>8, <2>1, <2>2
<1>11. TransferRowsMatchStatus'
  BY <1>1, TransferRowsStay
<1>12. ASSUME NEW v \in Workers \ {w}, task'[v] = task[v]
       PROVE  Refers(v)' /\ KnowsSession(v)' /\ KnowsTransfer(v)' /\ KnowsRegister(v)'
  <2>1. Refers(v)' /\ KnowsSession(v)' /\ KnowsTransfer(v)'
    BY <1>1, <1>12, OthersUndisturbed
  <2>2. Refers(v) /\ Holds(v) /\ KnowsRegister(v)
    BY DEF CashInv, TasksMatch
  <2>3. \A x : Occupied(x)' = Occupied(x)
    BY <1>1 DEF Occupied, Open
  <2> PICK j : j = task[v]
    OBVIOUS
  <2>4. v # w /\ task'[v] = j /\ task[v] = j
    BY <1>12
  <2>5. CASE j.kind = "toggle"
    <3>1. j.register \in Registers /\ j.register # r
      BY <1>2, <2>2, <2>4, <2>5 DEF Holds, Refers
    <3> QED BY <1>8, <2>1, <2>2, <2>3, <2>4, <2>5, <3>1 DEF KnowsRegister
  <2>6. CASE j.kind \in {"open", "reopen"} /\ j.step = "ready"
    <3>1. j.register \in Registers
      BY <2>2, <2>4, <2>6 DEF Refers
    <3>2. CASE j.default
      <4>1. register[j.register] \in {[state |-> "active", default |-> TRUE],
                                      [state |-> "none", default |-> FALSE]}
        BY <2>2, <2>4, <2>6, <3>2 DEF KnowsRegister
      <4>2. register'[j.register] = register[j.register]
        <5>1. CASE j.register = r
          <6>1. register[r].default /\ register[r].state = "active"
            BY <1>2, <4>1, <5>1
          <6>2. state = "active" /\ register[r] = [state |-> "active", default |-> TRUE]
            BY <1>2, <1>3, <4>1, <5>1, <6>1
          <6> QED BY <1>5, <1>8, <5>1, <6>1, <6>2
        <5>2. CASE j.register # r
          BY <1>8, <3>1, <5>2
        <5> QED BY <5>1, <5>2
      <4> QED BY <2>1, <2>4, <2>6, <3>2, <4>1, <4>2 DEF KnowsRegister
    <3>3. CASE ~j.default
      <4>1. j.register # r
        BY <1>2, <2>2, <2>4, <2>6, <3>3 DEF Holds
      <4>2. register[j.register].state = "active"
        BY <2>2, <2>4, <2>6, <3>3 DEF KnowsRegister
      <4> QED BY <1>8, <2>1, <2>4, <2>6, <3>1, <3>3, <4>1, <4>2 DEF KnowsRegister
    <3> QED BY <3>2, <3>3
  <2>7. CASE j.kind # "toggle" /\ ~(j.kind \in {"open", "reopen"} /\ j.step = "ready")
    <3>1. j.kind = "create" => j.register \in Registers
      BY <2>2, <2>4 DEF Refers
    <3>2. \A x \in Registers : register[x].state # "none" => register'[x].state # "none"
      BY <1>3, <1>5, <1>8
    <3> QED BY <2>1, <2>2, <2>4, <2>7, <3>1, <3>2 DEF KnowsRegister
  <2> QED BY <2>5, <2>6, <2>7
<1> QED BY <1>1, <1>7, <1>9, <1>10, <1>11, <1>12, EndKeepsInv DEF CashTypeOK

\* A register is created under the lock of its branch, which whoever opens on
\* the default register of the branch needs too.
LEMMA CommitRegisterKeepsInv ==
  ASSUME CashInv, NEW w \in Workers, CommitRegister(w) PROVE CashInv'
<1>1. /\ Refers(w) /\ Holds(w) /\ End(w) /\ task[w].kind = "register" /\ task[w] \in Task
      /\ UNCHANGED <<session, till, transfer, sent, landed>> /\ CashTypeOK
  BY DEF CashInv, TasksMatch, CommitRegister, Ready, CashTypeOK
<1>2. PICK r \in Registers, on \in BOOLEAN :
        /\ r = task[w].register /\ on = task[w].default
        /\ lock[BranchOf[r]] = w /\ register[r].state = "none"
  BY <1>1 DEF Refers, Holds, CommitRegister, Task
<1>3. /\ register' \in [Registers -> [state : {"none", "active", "inactive"}, default : BOOLEAN]]
      /\ \A x \in Registers : x # r =>
           /\ register'[x].state = register[x].state
           /\ register'[x].default => register[x].default
           /\ BranchOf[x] # BranchOf[r] => register'[x] = register[x]
      /\ register'[r].state = "active"
  BY <1>1, <1>2 DEF CommitRegister, CashTypeOK
<1>4. RowsFilled' /\ OneSessionPerRegister'
  BY <1>1 DEF CashInv, RowsFilled, OneSessionPerRegister, Open
<1>5. OpenSessionsHaveActiveRegister'
  <2> SUFFICES ASSUME NEW x \in Sessions, Open(x)
               PROVE  register'[session[x].register].state = "active"
    BY <1>1 DEF OpenSessionsHaveActiveRegister, Open
  <2>1. /\ session[x].register \in Registers
        /\ register[session[x].register].state = "active"
    BY DEF CashInv, OpenSessionsHaveActiveRegister, RowsFilled, Open
  <2> QED BY <1>2, <1>3, <2>1
<1>6. TransferRowsMatchStatus'
  BY <1>1, TransferRowsStay
<1>7. ASSUME NEW v \in Workers \ {w}, task'[v] = task[v]
      PROVE  Refers(v)' /\ KnowsSession(v)' /\ KnowsTransfer(v)' /\ KnowsRegister(v)'
  <2>1. Refers(v)' /\ KnowsSession(v)' /\ KnowsTransfer(v)'
    BY <1>1, <1>7, OthersUndisturbed
  <2>2. Refers(v) /\ Holds(v) /\ KnowsRegister(v)
    BY DEF CashInv, TasksMatch
  <2>3. \A x : Occupied(x)' = Occupied(x)
    BY <1>1 DEF Occupied, Open
  <2> PICK j : j = task[v]
    OBVIOUS
  <2>4. v # w /\ task'[v] = j /\ task[v] = j
    BY <1>7
  <2>5. KnowsRegister(v)'
    <3>1. CASE j.kind = "toggle"
      <4>1. j.register \in Registers /\ register[j.register].state # "none"
        BY <2>2, <2>4, <3>1 DEF Refers, KnowsRegister
      <4> QED BY <1>2, <1>3, <2>2, <2>3, <2>4, <3>1, <4>1 DEF KnowsRegister
    <3>2. CASE j.kind \in {"open", "reopen"} /\ j.step = "ready"
      <4>1. j.register \in Registers
        BY <2>2, <2>4, <3>2 DEF Refers
      <4>2. CASE j.default
        <5>1. lock[BranchOf[j.register]] = v
          BY <2>2, <2>4, <3>2, <4>2 DEF Holds
        <5>2. BranchOf[j.register] # BranchOf[r]
          BY <1>2, <2>4, <5>1
        <5>3. register'[j.register] = register[j.register]
          BY <1>3, <4>1, <5>2
        <5>4. register[j.register] \in {[state |-> "active", default |-> TRUE],
                                        [state |-> "none", default |-> FALSE]}
          BY <2>2, <2>4, <3>2, <4>2 DEF KnowsRegister
        <5> QED BY <2>4, <3>2, <4>2, <5>3, <5>4 DEF KnowsRegister
      <4>3. CASE ~j.default
        <5>1. register[j.register].state = "active"
          BY <2>2, <2>4, <3>2, <4>3 DEF KnowsRegister
        <5>2. register'[j.register].state = "active"
          BY <1>3, <4>1, <5>1
        <5> QED BY <2>4, <3>2, <4>3, <5>2 DEF KnowsRegister
      <4> QED BY <4>2, <4>3
    <3>3. CASE j.kind # "toggle" /\ ~(j.kind \in {"open", "reopen"} /\ j.step = "ready")
      <4>1. j.kind = "create" => j.register \in Registers
        BY <2>2, <2>4 DEF Refers
      <4>2. \A x \in Registers : register[x].state # "none" => register'[x].state # "none"
        BY <1>2, <1>3
      <4> QED BY <2>2, <2>4, <3>3, <4>1, <4>2 DEF KnowsRegister
    <3> QED BY <3>1, <3>2, <3>3
  <2> QED BY <2>1, <2>5
<1> QED BY <1>1, <1>3, <1>4, <1>5, <1>6, <1>7, EndKeepsInv DEF CashTypeOK

\* An edited sale is the one change of a session that takes no lock of it: its
\* holder no longer knows the expected cash, and everybody else is undisturbed.
LEMMA ChangeSaleKeepsInv ==
  ASSUME CashInv, NEW s \in Sessions, ChangeSale(s) PROVE CashInv'
<1>1. UNCHANGED <<session, register, transfer, sent, landed, lock>> /\ CashTypeOK
  BY DEF ChangeSale, CashInv
<1>2. PICK takings \in 0..MaxCash : till' = [till EXCEPT ![s].takings = takings]
  BY Zenon DEF ChangeSale
<1>3. /\ till' \in [Sessions -> [sold : Nat, takings : Nat, manual : Int]]
      /\ \A x \in Sessions : x # s => till'[x] = till[x]
  <2>1. takings \in Nat
    BY AmountsAssumption
  <2> QED BY <1>1, <1>2, <2>1 DEF CashTypeOK
<1>4. task' = [v \in Workers |-> [task[v] EXCEPT !.clean = @ /\ lock[s] # v]]
  BY DEF ChangeSale
<1>5. ASSUME NEW v \in Workers
      PROVE  \E c \in BOOLEAN : /\ c => task[v].clean /\ lock[s] # v
                                /\ task'[v] = [task[v] EXCEPT !.clean = c]
  <2> DEFINE c == task[v].clean /\ lock[s] # v
  <2>1. c \in BOOLEAN
    BY Zenon
  <2>2. task'[v] = [task[v] EXCEPT !.clean = c]
    BY <1>4, Zenon
  <2> QED BY <2>1, <2>2, Zenon
<1>6. CashTypeOK'
  <2>1. ASSUME NEW v \in Workers PROVE task'[v] \in Task
    <3>1. PICK c \in BOOLEAN : task'[v] = [task[v] EXCEPT !.clean = c]
      BY <1>5
    <3>2. task[v] \in Task
      BY <1>1 DEF CashTypeOK
    <3> QED BY <3>1, <3>2 DEF Task
  <2>2. task' \in [Workers -> Task]
    BY <1>4, <2>1
  <2> QED BY <1>1, <1>3, <2>2 DEF CashTypeOK
<1>7. (RowsFilled /\ OneSessionPerRegister /\ OpenSessionsHaveActiveRegister)'
  BY <1>1 DEF CashInv, RowsFilled, OneSessionPerRegister, OpenSessionsHaveActiveRegister, Open
<1>8. TransferRowsMatchStatus'
  BY <1>1 DEF CashInv, TransferRowsMatchStatus
<1>9. \A x \in Sessions : x # s => Expected(x)' = Expected(x)
  BY <1>1, <1>3, ExpectedStays
<1>10. TasksMatch'
  <2> SUFFICES ASSUME NEW v \in Workers
               PROVE  (Refers(v) /\ Holds(v) /\ KnowsSession(v) /\ KnowsTransfer(v) /\ KnowsRegister(v))'
    BY DEF TasksMatch
  <2> PICK j : j = task[v]
    OBVIOUS
  <2> PICK n : n = task'[v]
    OBVIOUS
  <2>1. j \in Task /\ Refers(v) /\ Holds(v) /\ KnowsSession(v) /\ KnowsTransfer(v) /\ KnowsRegister(v)
    BY DEF CashInv, TasksMatch, CashTypeOK
  <2>2. /\ n.kind = j.kind /\ n.step = j.step /\ n.user = j.user /\ n.session = j.session
        /\ n.register = j.register /\ n.default = j.default /\ n.transfer = j.transfer
        /\ n.amount = j.amount /\ n.read = j.read
        /\ n.clean => j.clean /\ lock[s] # v
    BY <1>5, <2>1 DEF Task
  <2>3. task[v] = j /\ task'[v] = n
    OBVIOUS
  <2>4. \A x : Open(x)' = Open(x) /\ Occupied(x)' = Occupied(x)
    BY <1>1 DEF Open, Occupied
  <2>5. Refers(v)' /\ Holds(v)'
    BY <1>1, <2>1, <2>2, <2>3 DEF Refers, Holds
  <2>6. KnowsRegister(v)'
    BY <1>1, <2>1, <2>2, <2>3, <2>4 DEF KnowsRegister
  <2>7. KnowsSession(v)'
    <3>1. (j.kind \in {"close", "create"} /\ j.step = "ready") =>
            j.session \in Sessions /\ lock[j.session] = v
      BY <2>1, <2>3 DEF Refers, Holds
    <3>2. (j.kind \in {"close", "create"} /\ j.step = "ready" /\ n.clean) => j.session # s
      BY <2>2, <3>1
    <3> QED BY <1>9, <2>1, <2>2, <2>3, <2>4, <3>1, <3>2 DEF KnowsSession
  <2>8. KnowsTransfer(v)'
    <3>1. (j.kind = "dispatch" /\ j.step = "ready") => j.session \in Sessions /\ lock[j.session] = v
      BY <2>1, <2>3 DEF Holds
    <3>2. (j.kind = "dispatch" /\ j.step = "ready" /\ n.clean) =>
            j.session # s /\ j.amount <= Expected(j.session)
      BY <2>1, <2>2, <2>3, <3>1 DEF KnowsTransfer
    <3>3. (j.kind = "dispatch" /\ j.step = "ready" /\ n.clean) => j.amount <= Expected(j.session)'
      BY <1>9, <3>1, <3>2
    <3>4. Drawers(v)' = Drawers(v)
      BY <1>1, <2>2, <2>3 DEF Drawers
    <3> QED BY <1>1, <2>1, <2>2, <2>3, <2>4, <3>3, <3>4 DEF KnowsTransfer
  <2> QED BY <2>5, <2>6, <2>7, <2>8
<1> QED BY <1>6, <1>7, <1>8, <1>10 DEF CashInv

LEMMA StutterKeepsInv ==
  ASSUME CashInv, UNCHANGED vars PROVE CashInv'
<1>1. UNCHANGED <<session, till, register, transfer, sent, landed, lock, task>> /\ UNCHANGED data
  BY DEF vars, data
<1>2. (CashTypeOK /\ RowsFilled /\ OneSessionPerRegister /\ OpenSessionsHaveActiveRegister)'
  BY <1>1 DEF CashInv, CashTypeOK, RowsFilled, OneSessionPerRegister, OpenSessionsHaveActiveRegister, Open
<1>3. TransferRowsMatchStatus'
  BY <1>1 DEF CashInv, TransferRowsMatchStatus
<1>4. TasksMatch'
  <2> SUFFICES ASSUME NEW v \in Workers
               PROVE  (Refers(v) /\ Holds(v) /\ KnowsSession(v) /\ KnowsTransfer(v) /\ KnowsRegister(v))'
    BY DEF TasksMatch
  <2> QED BY <1>1, HoldsStays, KnowledgeStays DEF CashInv, TasksMatch
<1> QED BY <1>2, <1>3, <1>4 DEF CashInv

--------------------------------------------------------------------------------
LEMMA CashInvStep == CashInv /\ [Next]_vars => CashInv'
<1> SUFFICES ASSUME CashInv, [Next]_vars PROVE CashInv'
  OBVIOUS
<1>1. ASSUME NEW w \in Workers, AskOpen(w) \/ PickRegister(w) \/ CommitOpen(w) PROVE CashInv'
  BY <1>1, AskOpenKeepsInv, PickRegisterKeepsInv, CommitOpenKeepsInv
<1>2. ASSUME NEW w \in Workers, AskSession(w) \/ LockSession(w) PROVE CashInv'
  BY <1>2, AskSessionKeepsInv, LockSessionKeepsInv
<1>3. ASSUME NEW w \in Workers,
             CommitMovement(w) \/ CommitSale(w) \/ CommitClose(w) \/ CommitVoid(w)
      PROVE  CashInv'
  BY <1>3, CommitTillKeepsInv, CommitEndOfSessionKeepsInv
<1>4. ASSUME NEW w \in Workers,
             TakeOpenSession(w) \/ TakeSource(w) \/ LockTarget(w) \/ CommitCreate(w)
      PROVE  CashInv'
  BY <1>4, TakeOpenSessionKeepsInv, TakeSourceKeepsInv, LockTargetKeepsInv, CommitCreateKeepsInv
<1>5. ASSUME NEW w \in Workers, LockTransfer(w) \/ LockDrawer(w) PROVE CashInv'
  BY <1>5, LockTransferKeepsInv, LockDrawerKeepsInv
<1>6. ASSUME NEW w \in Workers, CommitDispatch(w) \/ CommitLanding(w) \/ CommitCancel(w) PROVE CashInv'
  BY <1>6, CommitDispatchKeepsInv, CommitLandingKeepsInv, CommitCancelKeepsInv
<1>7. ASSUME NEW w \in Workers,
             LockRegister(w) \/ CommitToggle(w) \/ LockBranch(w) \/ CommitRegister(w)
      PROVE  CashInv'
  BY <1>7, LockRegisterKeepsInv, CommitToggleKeepsInv, LockBranchKeepsInv, CommitRegisterKeepsInv
<1>8. ASSUME NEW w \in Workers, Abort(w) PROVE CashInv'
  BY <1>8, AbortKeepsInv
<1>9. ASSUME NEW s \in Sessions, ChangeSale(s) PROVE CashInv'
  BY <1>9, ChangeSaleKeepsInv
<1>10. CASE UNCHANGED vars
  BY <1>10, StutterKeepsInv
<1> QED BY <1>1, <1>2, <1>3, <1>4, <1>5, <1>6, <1>7, <1>8, <1>9, <1>10 DEF Next

LEMMA CashInvariant == Spec => []CashInv
BY InitKeepsInv, CashInvStep, PTL DEF Spec

\* The rows of sessions, registers and transfers, the row locks and the handlers
\* that hold them keep their types through every handler of the cash pages.
THEOREM CashTypeCorrect == Spec => []CashTypeOK
<1>1. CashInv => CashTypeOK
  BY DEF CashInv
<1> QED BY <1>1, CashInvariant, PTL

\* However the two ways of opening, the reopening of a closed session and the
\* creation of registers interleave, a register has one open session at most.
THEOREM RegisterHasOneSession == Spec => []OneSessionPerRegister
<1>1. CashInv => OneSessionPerRegister
  BY DEF CashInv
<1> QED BY <1>1, CashInvariant, PTL

\* A register is never switched off under an open session: who opens on the
\* default register holds another lock than who switches it, and is safe because
\* the default register cannot be switched off and keeps its flag until the lock
\* of the branch is released.
THEOREM OpenSessionsStandOnActiveRegisters == Spec => []OpenSessionsHaveActiveRegister
<1>1. CashInv => OpenSessionsHaveActiveRegister
  BY DEF CashInv
<1> QED BY <1>1, CashInvariant, PTL

\* The cash of a transfer leaves one drawer once and enters one drawer once, the
\* one its final status says, whatever handlers of it run at the same time.
THEOREM TransferredCashIsAccounted == Spec => []TransferRowsMatchStatus
<1>1. CashInv => TransferRowsMatchStatus
  BY DEF CashInv
<1> QED BY <1>1, CashInvariant, PTL

--------------------------------------------------------------------------------
\* The steps that touch the drawers, by what they touch.
LEMMA WhoMovesCash ==
  ASSUME [Next]_vars
  PROVE  \/ UNCHANGED <<till, sent, landed>>
         \/ \E w \in Workers : \/ CommitMovement(w) \/ CommitSale(w)
                               \/ CommitDispatch(w) \/ CommitLanding(w)
         \/ \E s \in Sessions : ChangeSale(s)
<1>1. ASSUME NEW w \in Workers,
             \/ AskOpen(w) \/ PickRegister(w) \/ AskSession(w) \/ LockSession(w)
             \/ TakeOpenSession(w) \/ TakeSource(w) \/ LockTarget(w) \/ LockTransfer(w) \/ LockDrawer(w)
             \/ LockRegister(w) \/ LockBranch(w) \/ Abort(w)
      PROVE  UNCHANGED data
  BY <1>1 DEF AskOpen, PickRegister, AskSession, LockSession, TakeOpenSession, TakeSource,
              LockTarget, LockTransfer, LockDrawer, LockRegister, LockBranch, Abort
<1>2. UNCHANGED data => UNCHANGED <<till, sent, landed>>
  BY DEF data
<1>3. ASSUME NEW w \in Workers,
             \/ CommitOpen(w) \/ CommitClose(w) \/ CommitVoid(w) \/ CommitCreate(w)
             \/ CommitCancel(w) \/ CommitToggle(w) \/ CommitRegister(w)
      PROVE  UNCHANGED <<till, sent, landed>>
  BY <1>3 DEF CommitOpen, CommitClose, CommitVoid, CommitCreate, CommitCancel, CommitToggle,
              CommitRegister
<1>4. UNCHANGED vars => UNCHANGED data
  BY DEF vars
<1> QED BY <1>1, <1>2, <1>3, <1>4 DEF Next

LEMMA WhoEndsSessions ==
  ASSUME [Next]_vars
  PROVE  \/ UNCHANGED session
         \/ \E w \in Workers : CommitOpen(w) \/ CommitClose(w) \/ CommitVoid(w)
<1>1. ASSUME NEW w \in Workers,
             \/ AskOpen(w) \/ PickRegister(w) \/ AskSession(w) \/ LockSession(w)
             \/ TakeOpenSession(w) \/ TakeSource(w) \/ LockTarget(w) \/ LockTransfer(w) \/ LockDrawer(w)
             \/ LockRegister(w) \/ LockBranch(w) \/ Abort(w)
      PROVE  UNCHANGED data
  BY <1>1 DEF AskOpen, PickRegister, AskSession, LockSession, TakeOpenSession, TakeSource,
              LockTarget, LockTransfer, LockDrawer, LockRegister, LockBranch, Abort
<1>2. UNCHANGED data => UNCHANGED session
  BY DEF data
<1>3. ASSUME NEW w \in Workers,
             \/ CommitMovement(w) \/ CommitSale(w) \/ CommitDispatch(w) \/ CommitLanding(w)
             \/ CommitCreate(w) \/ CommitCancel(w) \/ CommitToggle(w) \/ CommitRegister(w)
      PROVE  UNCHANGED session
  BY <1>3 DEF CommitMovement, CommitSale, CommitDispatch, CommitLanding, CommitCreate,
              CommitCancel, CommitToggle, CommitRegister
<1>4. UNCHANGED vars => UNCHANGED data
  BY DEF vars
<1>5. \A s \in Sessions : ChangeSale(s) => UNCHANGED session
  BY DEF ChangeSale
<1> QED BY <1>1, <1>2, <1>3, <1>4, <1>5 DEF Next

LEMMA DrawersMoveOpen ==
  ASSUME CashInv, [Next]_vars, NEW s \in Sessions,
         \/ till'[s].sold # till[s].sold
         \/ \E t \in Transfers : s \in (sent'[t] \ sent[t]) \cup (landed'[t] \ landed[t])
  PROVE  Open(s)
<1>1. CashTypeOK
  BY DEF CashInv
<1>2. ASSUME NEW w \in Workers, CommitMovement(w) PROVE FALSE
  <2>1. task[w].session \in Sessions
    BY <1>2 DEF CashInv, TasksMatch, Refers, CommitMovement, Ready
  <2> QED BY <1>1, <1>2, <2>1 DEF CommitMovement, CashTypeOK
<1>3. ASSUME NEW x \in Sessions, ChangeSale(x) PROVE FALSE
  BY <1>1, <1>3 DEF ChangeSale, CashTypeOK
<1>4. ASSUME NEW w \in Workers, CommitSale(w) PROVE Open(s)
  <2>1. task[w].session \in Sessions /\ Open(task[w].session)
    BY <1>4 DEF CashInv, TasksMatch, Refers, KnowsSession, CommitSale, Ready
  <2>2. s = task[w].session
    BY <1>1, <1>4, <2>1 DEF CommitSale, CashTypeOK
  <2> QED BY <2>1, <2>2
<1>5. ASSUME NEW w \in Workers, CommitDispatch(w) \/ CommitLanding(w) PROVE Open(s)
  <2>1. Open(task[w].session)
    BY <1>5 DEF CashInv, TasksMatch, KnowsTransfer, CommitDispatch, CommitLanding, Ready
  <2>2. task[w].transfer \in Transfers
    BY <1>5 DEF CashInv, TasksMatch, Refers, CommitDispatch, CommitLanding, Ready
  <2>3. PICK t \in Transfers : s \in (sent'[t] \ sent[t]) \cup (landed'[t] \ landed[t])
    BY <1>5 DEF CommitDispatch, CommitLanding
  <2>4. CASE CommitDispatch(w)
    <3>1. s \in sent'[t] /\ s \notin sent[t]
      BY <2>3, <2>4 DEF CommitDispatch
    <3>2. s = task[w].session
      BY <1>1, <2>2, <2>4, <3>1 DEF CommitDispatch, CashTypeOK
    <3> QED BY <2>1, <3>2
  <2>5. CASE CommitLanding(w)
    <3>1. s \in landed'[t] /\ s \notin landed[t]
      BY <2>3, <2>5 DEF CommitLanding
    <3>2. s = task[w].session
      BY <1>1, <2>2, <2>5, <3>1 DEF CommitLanding, CashTypeOK
    <3> QED BY <2>1, <3>2
  <2> QED BY <1>5, <2>4, <2>5
<1> QED BY <1>2, <1>3, <1>4, <1>5, WhoMovesCash

\* A sale is charged only to a drawer that is open at the moment of its commit,
\* and a transfer leaves or enters no other: the status read under the lock of
\* the session still holds when the handler commits.
THEOREM DrawersMoveOnlyWhileOpen == Spec => OnlyOpenDrawersMove
<1>1. CashInv /\ [Next]_vars =>
        [\A s \in Sessions :
           (till'[s].sold # till[s].sold
              \/ \E t \in Transfers : s \in (sent'[t] \ sent[t]) \cup (landed'[t] \ landed[t]))
             => Open(s)]_vars
  BY DrawersMoveOpen
<1> QED BY <1>1, CashInvariant, PTL DEF Spec, OnlyOpenDrawersMove

\* The expected cash a closing writes down is that of the moment it commits,
\* unless a sale of the session was edited after it was read: the one change that
\* does not take the lock of the session.
THEOREM ClosingsCountTheirDrawer == Spec => ClosingCountsEverything
<1>1. ASSUME CashInv, [Next]_vars, NEW s \in Sessions, Open(s), session'[s].status = "cerrada"
      PROVE  session'[s].expected = Expected(s) \/ ChangedSinceRead(s)
  <2>1. CashTypeOK /\ session[s] \in SessionRow /\ session[s].status = "abierta"
    BY <1>1 DEF CashInv, CashTypeOK, Open
  <2>2. PICK w \in Workers : CommitOpen(w) \/ CommitClose(w) \/ CommitVoid(w)
    BY <1>1, <2>1, WhoEndsSessions
  <2>3. CASE CommitOpen(w)
    <3>1. PICK x \in Sessions : /\ session[x].status = "none"
                                /\ \A y \in Sessions : y # x => session'[y] = session[y]
      BY <2>1, <2>3 DEF CommitOpen, CashTypeOK
    <3> QED BY <1>1, <2>1, <3>1
  <2>4. CASE CommitVoid(w)
    <3>1. session'[s] = session[s] \/ session'[s].status = "anulada"
      BY <2>1, <2>4 DEF CommitVoid, CashTypeOK, SessionRow
    <3> QED BY <1>1, <2>1, <3>1
  <2>5. CASE CommitClose(w)
    <3>1. /\ task[w].kind = "close" /\ task[w].step = "ready" /\ task[w].session \in Sessions
          /\ lock[task[w].session] = w
          /\ task[w].clean => task[w].read = Expected(task[w].session)
      BY <1>1, <2>5 DEF CashInv, TasksMatch, Refers, Holds, KnowsSession, CommitClose, Ready
    <3>2. s = task[w].session
      BY <1>1, <2>1, <2>5 DEF CommitClose, CashTypeOK
    <3>3. session[s].expected = session[s].opening
      BY <1>1 DEF CashInv, RowsFilled
    <3>4. session'[s].expected = task[w].read
      BY <2>1, <2>5, <3>2, <3>3 DEF CommitClose, CashTypeOK, SessionRow
    <3> QED BY <3>1, <3>2, <3>4 DEF ChangedSinceRead
  <2> QED BY <2>2, <2>3, <2>4, <2>5
<1>2. CashInv /\ [Next]_vars =>
        [\A s \in Sessions : (Open(s) /\ session'[s].status = "cerrada")
           => session'[s].expected = Expected(s) \/ ChangedSinceRead(s)]_vars
  BY <1>1
<1> QED BY <1>2, CashInvariant, PTL DEF Spec, ClosingCountsEverything

\* Several dispatches, sales and withdrawals of one drawer never spend the same
\* cash twice: what a dispatch takes is there when it commits, with the same
\* exception.
THEOREM DispatchesNeverOverdraw == Spec => DispatchNeverOverdraws
<1>1. ASSUME CashInv, [Next]_vars, NEW t \in Transfers, NEW s \in sent'[t] \ sent[t]
      PROVE  Expected(s) >= transfer[t].amount \/ ChangedSinceRead(s)
  <2>1. PICK w \in Workers : CommitDispatch(w)
    BY <1>1, WhoMovesCash DEF CommitMovement, CommitSale, CommitLanding, ChangeSale
  <2>2. /\ task[w].kind = "dispatch" /\ task[w].step = "ready"
        /\ lock[task[w].session] = w
        /\ task[w].amount = transfer[task[w].transfer].amount
        /\ task[w].clean => task[w].amount <= Expected(task[w].session)
    BY <1>1, <2>1 DEF CashInv, TasksMatch, Holds, KnowsTransfer, CommitDispatch, Ready
  <2>3. t = task[w].transfer /\ s = task[w].session
    BY <1>1, <2>1 DEF CommitDispatch, CashInv, CashTypeOK
  <2> QED BY <2>2, <2>3 DEF ChangedSinceRead
<1>2. CashInv /\ [Next]_vars =>
        [\A t \in Transfers : \A s \in sent'[t] \ sent[t] :
           Expected(s) >= transfer[t].amount \/ ChangedSinceRead(s)]_vars
  BY <1>1
<1> QED BY <1>2, CashInvariant, PTL DEF Spec, DispatchNeverOverdraws
--------------------------------------------------------------------------------
(* Running in parallel, the handlers serve one request at a time               *)

\* What a form may carry.
AmountFits(w) ==
  LET j == task[w] IN
  /\ j.kind \in {"open", "sale"} => j.amount \in Amounts \cup {0}
  /\ j.kind = "movement" => j.amount \in Amounts \cup {-a : a \in Amounts}
  /\ j.kind = "create" => j.amount \in Amounts

\* A reopening past its first lock keeps the closed session from being voided.
KnowsClosed(w) ==
  LET j == task[w] IN
  j.kind = "reopen" =>
    /\ j.register = session[j.session].register
    /\ j.step # "asked" => lock[j.session] = w /\ session[j.session].status = "cerrada"

\* What was read of a drawer is out of date in the cash of its sales at most.
KnowsReading(w) ==
  LET j == task[w] IN
  /\ (j.kind = "close" /\ j.step = "ready") => j.read - BesidesSales(j.session) \in 0..MaxCash
  /\ (j.kind \in {"create", "dispatch"} /\ j.step = "ready") =>
       j.amount - BesidesSales(j.session) <= MaxCash
  /\ "change" \notin Workload => j.clean

\* Who creates the first register of a branch knows that there is none by its lock.
KnowsNoDefault(w) ==
  LET j == task[w] IN
  (j.kind \in {"open", "reopen"} /\ j.step = "ready" /\ j.default /\ register[j.register].state = "none")
    => \A r \in Registers : BranchOf[r] = BranchOf[j.register] => ~register[r].default

TakingsFit == \A s \in Sessions : till[s].takings \in 0..MaxCash

DefaultsStand == \A r \in Registers : register[r].default => register[r].state = "active"

\* uq_cash_registers_default_branch: a branch has one default register, whether it was
\* created with the flag or by the first opening, and although neither checks the index.
OneDefaultPerBranch ==
  \A r1, r2 \in Registers :
    register[r1].default /\ register[r2].default /\ BranchOf[r1] = BranchOf[r2] => r1 = r2

Serves(w) == AmountFits(w) /\ KnowsClosed(w) /\ KnowsReading(w) /\ KnowsNoDefault(w)

ServingInv ==
  /\ CashInv
  /\ TakingsFit /\ DefaultsStand /\ OneDefaultPerBranch
  /\ \A w \in Workers : Serves(w)

LEMMA InitServing == Init => ServingInv
<1> SUFFICES ASSUME Init PROVE ServingInv
  OBVIOUS
<1>1. CashInv
  BY InitKeepsInv
<1>2. TakingsFit
  BY AmountsAssumption DEF Init, NoRows, Empty, TakingsFit
<1>3. DefaultsStand /\ OneDefaultPerBranch
  BY RegistersAssumption, DefaultsAssumption DEF Init, NoRows, DefaultsStand, OneDefaultPerBranch
<1>4. \A w \in Workers : Serves(w)
  BY DEF Init, Idle, Serves, AmountFits, KnowsClosed, KnowsReading, KnowsNoDefault
<1> QED BY <1>1, <1>2, <1>3, <1>4 DEF ServingInv

--------------------------------------------------------------------------------
\* A step that changes no row of the database: only what w knows can change.
LEMMA ReadKeepsServing ==
  ASSUME ServingInv, CashInv', NEW w \in Workers, UNCHANGED data,
         \A v \in Workers \ {w} : task'[v] = task[v] /\ \A y \in Rows : lock[y] = v => lock'[y] = v,
         Serves(w)'
  PROVE  ServingInv'
<1>1. TakingsFit' /\ DefaultsStand' /\ OneDefaultPerBranch'
  BY DEF ServingInv, data, TakingsFit, DefaultsStand, OneDefaultPerBranch
<1>2. \A s : BesidesSales(s)' = BesidesSales(s)
  BY DEF data, BesidesSales, Moved
<1>3. ASSUME NEW v \in Workers \ {w} PROVE Serves(v)'
  <2>1. task'[v] = task[v] /\ Serves(v)
    BY DEF ServingInv
  <2>2. task[v].kind = "reopen" => task[v].session \in Rows
    BY DEF ServingInv, CashInv, TasksMatch, Refers, Rows
  <2>3. AmountFits(v)'
    BY <2>1 DEF Serves, AmountFits
  <2>4. KnowsClosed(v)'
    BY <2>1, <2>2 DEF Serves, KnowsClosed, data
  <2>5. KnowsReading(v)'
    BY <1>2, <2>1 DEF Serves, KnowsReading
  <2>6. KnowsNoDefault(v)'
    BY <2>1 DEF Serves, KnowsNoDefault, data
  <2> QED BY <2>3, <2>4, <2>5, <2>6 DEF Serves
<1> QED BY <1>1, <1>3 DEF ServingInv

\* A request that has only begun knows what its form carries; one that ended, nothing.
LEMMA AskKeepsServing ==
  ASSUME ServingInv, CashInv', NEW w \in Workers,
         \/ AskOpen(w) \/ AskSession(w) \/ TakeOpenSession(w) \/ TakeSource(w)
         \/ LockTransfer(w) \/ LockRegister(w) \/ LockBranch(w) \/ Abort(w)
  PROVE  ServingInv'
<1>1. task \in [Workers -> Task] /\ Idle \in Task /\ lock \in [Rows -> Workers \cup {Nobody}]
  BY IdleIsTask DEF ServingInv, CashInv, CashTypeOK
<1>2. ASSUME NEW n \in Task, UNCHANGED data, task' = [task EXCEPT ![w] = n],
             lock' = lock \/ (\E x \in Rows : Take(w, x)) \/ lock' = LocksFreed(w),
             n.clean,
             n.kind = "reopen" => n.step = "asked" /\ n.register = session[n.session].register,
             n.kind \in {"open", "close", "create", "dispatch"} => n.step # "ready",
             n.kind \in {"open", "sale"} => n.amount \in Amounts \cup {0},
             n.kind = "movement" => n.amount \in Amounts \cup {-a : a \in Amounts},
             n.kind = "create" => n.amount \in Amounts
      PROVE  ServingInv'
  <2>1. task'[w] = n /\ \A v \in Workers \ {w} : task'[v] = task[v]
    BY <1>1, <1>2
  <2>2. \A v \in Workers \ {w} : \A y \in Rows : lock[y] = v => lock'[y] = v
    BY <1>1, <1>2, NobodyAssumption DEF Take, RowIsFree, LocksFreed
  <2>3. Serves(w)'
    BY <1>2, <2>1 DEF Serves, AmountFits, KnowsClosed, KnowsReading, KnowsNoDefault, data
  <2> QED BY <1>2, <2>1, <2>2, <2>3, ReadKeepsServing
<1>3. CASE AskOpen(w)
  <2>1. PICK u \in Users, r \in Registers, default \in BOOLEAN, amount \in Amounts \cup {0} :
          AskOpen(w)!(u, r, default, amount)
    BY <1>3 DEF AskOpen
  <2> DEFINE n == [Idle EXCEPT !.kind = "open", !.user = u, !.register = r,
                               !.default = default, !.amount = amount]
  <2>2. amount \in Int
    BY AmountsAssumption
  <2>3. /\ n \in Task /\ n.kind = "open" /\ n.step = "asked" /\ n.amount = amount /\ n.clean
    BY <1>1, <2>2, IdleFields DEF Task, Kinds
  <2>4. task' = [task EXCEPT ![w] = n] /\ UNCHANGED <<data, lock>>
    BY <2>1
  <2> HIDE DEF n
  <2> QED BY <1>2, <2>3, <2>4
<1>4. CASE AskSession(w)
  <2>1. PICK kind \in {"movement", "close", "void", "reopen"}, u \in Users, s \in Sessions :
          AskSession(w)!(kind, u, s)
    BY <1>4 DEF AskSession
  <2>2. PICK loaded, amount :
          /\ session[s].status # "none"
          /\ amount \in IF kind = "movement" THEN Amounts \cup {-a : a \in Amounts} ELSE {0}
          /\ task' = [task EXCEPT ![w] =
               [Idle EXCEPT !.kind = kind, !.user = u, !.session = s, !.stale = (loaded = s),
                            !.register = session[s].register, !.amount = amount]]
    BY <2>1
  <2> DEFINE stale == loaded = s
             n == [Idle EXCEPT !.kind = kind, !.user = u, !.session = s, !.stale = stale,
                               !.register = session[s].register, !.amount = amount]
  <2>3. amount \in Int /\ session[s].register \in Registers /\ stale \in BOOLEAN
    BY <2>2, AmountsAssumption DEF ServingInv, CashInv, RowsFilled
  <2>4. task' = [task EXCEPT ![w] = n] /\ UNCHANGED <<data, lock>>
    BY <2>1, <2>2
  <2> HIDE DEF stale
  <2>5. /\ n \in Task /\ n.kind = kind /\ n.step = "asked" /\ n.amount = amount /\ n.clean
        /\ n.session = s /\ n.register = session[s].register
    BY <1>1, <2>3, IdleFields DEF Task, Kinds
  <2> HIDE DEF n
  <2> QED BY <1>2, <2>2, <2>4, <2>5
<1>5. CASE TakeOpenSession(w)
  <2>1. PICK s \in Sessions, amount \in Amounts \cup {0} : TakeOpenSession(w)!(s, amount)
    BY <1>5 DEF TakeOpenSession
  <2> DEFINE n == [Idle EXCEPT !.kind = "sale", !.step = "ready", !.session = s, !.amount = amount]
  <2>2. amount \in Int
    BY AmountsAssumption
  <2>3. n \in Task /\ n.kind = "sale" /\ n.amount = amount /\ n.clean
    BY <1>1, <2>2, IdleFields DEF Task, Kinds
  <2>4. task' = [task EXCEPT ![w] = n] /\ UNCHANGED data /\ Take(w, s) /\ s \in Rows
    BY <2>1 DEF Rows
  <2> HIDE DEF n
  <2> QED BY <1>2, <2>3, <2>4
<1>6. CASE TakeSource(w)
  <2>1. PICK s \in Sessions, target \in Registers, amount \in Amounts :
          TakeSource(w)!(s, target, amount)
    BY <1>6 DEF TakeSource
  <2> DEFINE n == [Idle EXCEPT !.kind = "create", !.step = "held", !.session = s,
                               !.register = target, !.amount = amount]
  <2>2. amount \in Int
    BY AmountsAssumption
  <2>3. n \in Task /\ n.kind = "create" /\ n.step = "held" /\ n.amount = amount /\ n.clean
    BY <1>1, <2>2, IdleFields DEF Task, Kinds
  <2>4. task' = [task EXCEPT ![w] = n] /\ UNCHANGED data /\ Take(w, s) /\ s \in Rows
    BY <2>1 DEF Rows
  <2> HIDE DEF n
  <2> QED BY <1>2, <2>3, <2>4
<1>7. CASE LockTransfer(w)
  <2>1. PICK t \in Transfers, kind \in {"dispatch", "receive", "reject", "cancel"} :
          LockTransfer(w)!(t, kind)
    BY <1>7 DEF LockTransfer
  <2> DEFINE step == IF kind = "cancel" THEN "ready" ELSE "held"
             amount == transfer[t].amount
             n == [Idle EXCEPT !.kind = kind, !.step = step, !.transfer = t, !.amount = amount]
  <2>2. amount \in Int /\ step \in {"ready", "held"} /\ (kind = "dispatch" => step # "ready")
    BY DEF ServingInv, CashInv, CashTypeOK, TransferRow
  <2>3. task' = [task EXCEPT ![w] = n] /\ UNCHANGED data /\ Take(w, t) /\ t \in Rows
    BY <2>1 DEF Rows
  <2> HIDE DEF step, amount
  <2>4. n \in Task /\ n.kind = kind /\ n.step = step /\ n.clean
    BY <1>1, <2>2, IdleFields DEF Task, Kinds
  <2> HIDE DEF n
  <2> QED BY <1>2, <2>2, <2>3, <2>4
<1>8. CASE LockRegister(w)
  <2>1. PICK r \in Registers, on \in BOOLEAN : LockRegister(w)!(r, on)
    BY <1>8 DEF LockRegister
  <2> DEFINE n == [Idle EXCEPT !.kind = "toggle", !.step = "ready", !.register = r, !.default = on]
  <2>2. n \in Task /\ n.kind = "toggle" /\ n.clean
    BY <1>1, IdleFields DEF Task, Kinds
  <2>3. task' = [task EXCEPT ![w] = n] /\ UNCHANGED data /\ Take(w, r) /\ r \in Rows
    BY <2>1 DEF Rows
  <2> HIDE DEF n
  <2> QED BY <1>2, <2>2, <2>3
<1>9. CASE LockBranch(w)
  <2>1. PICK r \in Registers, default \in BOOLEAN : LockBranch(w)!(r, default)
    BY <1>9 DEF LockBranch
  <2> DEFINE n == [Idle EXCEPT !.kind = "register", !.step = "ready", !.register = r,
                               !.default = default]
  <2>2. n \in Task /\ n.kind = "register" /\ n.clean
    BY <1>1, IdleFields DEF Task, Kinds
  <2>3. task' = [task EXCEPT ![w] = n] /\ UNCHANGED data /\ Take(w, BranchOf[r])
        /\ BranchOf[r] \in Rows
    BY <2>1, RegistersAssumption DEF Rows
  <2> HIDE DEF n
  <2> QED BY <1>2, <2>2, <2>3
<1>10. CASE Abort(w)
  <2>1. task' = [task EXCEPT ![w] = Idle] /\ UNCHANGED data /\ lock' = LocksFreed(w)
    BY <1>10 DEF Abort, End
  <2> QED BY <1>1, <1>2, <2>1, IdleFields
<1> QED BY <1>3, <1>4, <1>5, <1>6, <1>7, <1>8, <1>9, <1>10

\* w has taken one more lock and changed its task to n.
LEMMA LockKeepsServing ==
  ASSUME ServingInv, CashInv', NEW w \in Workers, NEW n, UNCHANGED data,
         task' = [task EXCEPT ![w] = n], NEW x \in Rows, Take(w, x),
         task'[w] = n => Serves(w)'
  PROVE  ServingInv'
<1>1. task \in [Workers -> Task] /\ lock \in [Rows -> Workers \cup {Nobody}]
  BY DEF ServingInv, CashInv, CashTypeOK
<1>2. task'[w] = n /\ \A v \in Workers \ {w} : task'[v] = task[v]
  BY <1>1
<1>3. \A v \in Workers \ {w} : \A y \in Rows : lock[y] = v => lock'[y] = v
  BY <1>1, NobodyAssumption DEF Take, RowIsFree
<1> QED BY <1>2, <1>3, ReadKeepsServing

LEMMA PickRegisterKeepsServing ==
  ASSUME ServingInv, CashInv', NEW w \in Workers, PickRegister(w) PROVE ServingInv'
<1> DEFINE j == task[w]
<1>1. /\ j \in Task /\ j.kind \in {"open", "reopen"} /\ UNCHANGED data
      /\ task \in [Workers -> Task] /\ lock \in [Rows -> Workers \cup {Nobody}]
  BY DEF PickRegister, ServingInv, CashInv, CashTypeOK
<1>2. Refers(w) /\ Serves(w)
  BY DEF ServingInv, CashInv, TasksMatch
<1>3. /\ j.register \in Registers /\ BranchOf[j.register] \in Rows /\ j.register \in Rows
      /\ j.kind = "reopen" => j.session \in Rows
  BY <1>1, <1>2, RegistersAssumption DEF Refers, Rows
<1>4. CASE PickDefault(w)
  <2>1. PICK r \in DefaultsOf(BranchOf[j.register]) :
          task' = [task EXCEPT ![w].register = r, ![w].step = "ready"]
    BY <1>4 DEF PickDefault
  <2> DEFINE n == [j EXCEPT !.register = r, !.step = "ready"]
  <2>2. task' = [task EXCEPT ![w] = n] /\ Take(w, BranchOf[j.register])
    BY <1>1, <1>4, <2>1 DEF PickDefault
  <2>3. j.kind = "open" /\ n.kind = "open" /\ n.amount = j.amount /\ n.clean = j.clean /\ n.register = r
    BY <1>1, <1>2, <1>4 DEF Task, PickDefault, Refers
  <2>4. register[r].state = "none" =>
          \A x \in Registers : BranchOf[x] = BranchOf[r] => ~register[x].default
    <3> SUFFICES ASSUME register[r].state = "none",
                        NEW x \in Registers, BranchOf[x] = BranchOf[r], register[x].default
                 PROVE  FALSE
      OBVIOUS
    <3>1. BranchOf[r] = BranchOf[j.register]
      BY DEF DefaultsOf
    <3>2. register[x] = [state |-> "active", default |-> TRUE]
      BY DEF ServingInv, DefaultsStand, CashInv, CashTypeOK
    <3>3. \A y \in DefaultsOf(BranchOf[j.register]) : register[y].state = "active"
      BY <3>1, <3>2 DEF DefaultsOf
    <3> QED BY <3>3
  <2> HIDE DEF n
  <2>5. ASSUME task'[w] = n PROVE Serves(w)'
    <3>1. AmountFits(w)' /\ KnowsReading(w)'
      BY <1>2, <2>3, <2>5 DEF Serves, AmountFits, KnowsReading
    <3>2. KnowsClosed(w)'
      BY <2>3, <2>5 DEF KnowsClosed
    <3>3. KnowsNoDefault(w)'
      BY <1>1, <2>3, <2>4, <2>5 DEF KnowsNoDefault, data
    <3> QED BY <3>1, <3>2, <3>3 DEF Serves
  <2> QED BY <1>1, <1>3, <2>2, <2>5, LockKeepsServing
<1>5. CASE PickNamed(w)
  <2> DEFINE n == [j EXCEPT !.step = "ready"]
  <2>1. task' = [task EXCEPT ![w] = n] /\ Take(w, j.register) /\ ~j.default
    BY <1>1, <1>5 DEF PickNamed, PickRegister
  <2>2. /\ n.kind = j.kind /\ n.amount = j.amount /\ n.clean = j.clean /\ ~n.default
        /\ n.register = j.register /\ n.session = j.session
    BY <1>1, <2>1 DEF Task
  <2>3. j.kind = "reopen" => /\ j.register = session[j.session].register
                             /\ lock[j.session] = w /\ session[j.session].status = "cerrada"
    BY <1>2 DEF Serves, KnowsClosed, PickRegister
  <2>4. j.kind = "reopen" => lock'[j.session] = w
    BY <1>1, <1>3, <2>1, <2>3, NobodyAssumption DEF Take, RowIsFree
  <2> HIDE DEF n
  <2>5. ASSUME task'[w] = n PROVE Serves(w)'
    <3>1. AmountFits(w)' /\ KnowsReading(w)'
      BY <1>1, <1>2, <2>2, <2>5 DEF Serves, AmountFits, KnowsReading
    <3>2. KnowsClosed(w)'
      BY <1>1, <2>2, <2>3, <2>4, <2>5 DEF KnowsClosed, data
    <3>3. KnowsNoDefault(w)'
      BY <2>2, <2>5 DEF KnowsNoDefault
    <3> QED BY <3>1, <3>2, <3>3 DEF Serves
  <2> QED BY <1>1, <1>3, <2>1, <2>5, LockKeepsServing
<1> QED BY <1>4, <1>5 DEF PickRegister

LEMMA LockSessionKeepsServing ==
  ASSUME ServingInv, CashInv', NEW w \in Workers, LockSession(w) PROVE ServingInv'
<1> DEFINE j == task[w]
           s == j.session
           step == IF j.kind = "reopen" THEN "held" ELSE "ready"
           read == IF j.kind = "close" THEN Expected(s) ELSE 0
           n == [j EXCEPT !.step = step, !.read = read]
<1>1. /\ j \in Task /\ j.kind \in {"movement", "close", "void", "reopen"} /\ UNCHANGED data
      /\ task \in [Workers -> Task] /\ lock \in [Rows -> Workers \cup {Nobody}]
  BY DEF LockSession, ServingInv, CashInv, CashTypeOK
<1>2. Refers(w) /\ Serves(w) /\ CashTypeOK
  BY DEF ServingInv, CashInv, TasksMatch
<1>3. s \in Sessions /\ s \in Rows
  BY <1>1, <1>2 DEF Refers, Rows
<1>4. Expected(s) - BesidesSales(s) \in 0..MaxCash
  <2>1. till[s].takings \in 0..MaxCash /\ BesidesSales(s) \in Int
    BY <1>2, <1>3, ExpectedIsInt DEF ServingInv, TakingsFit
  <2> QED BY <2>1, AmountsAssumption DEF Expected
<1>5. task' = [task EXCEPT ![w] = n]
  <2>1. task' = [task EXCEPT ![w].step = step, ![w].read = read]
    BY Zenon DEF LockSession
  <2> HIDE DEF step, read
  <2> QED BY <1>1, <2>1
<1>6. Take(w, s) /\ (j.kind = "reopen" => session[s].status = "cerrada")
  BY DEF LockSession, StatusSeen
<1>7. lock'[s] = w
  BY <1>1, <1>3, <1>6 DEF Take
<1>8. /\ n.kind = j.kind /\ n.amount = j.amount /\ n.clean = j.clean
      /\ n.register = j.register /\ n.session = s /\ (j.kind = "close" => n.read = Expected(s))
  BY <1>1 DEF Task
<1>9. \A x : BesidesSales(x)' = BesidesSales(x)
  BY <1>1 DEF data, BesidesSales, Moved
<1> HIDE DEF n
<1>10. task'[w] = n => Serves(w)'
  <2> SUFFICES ASSUME task'[w] = n PROVE Serves(w)'
    OBVIOUS
  <2>1. AmountFits(w)'
    BY <1>1, <1>2, <1>8 DEF Serves, AmountFits
  <2>2. KnowsClosed(w)'
    BY <1>1, <1>2, <1>6, <1>7, <1>8 DEF Serves, KnowsClosed, data
  <2>3. KnowsReading(w)'
    BY <1>1, <1>2, <1>4, <1>8, <1>9 DEF Serves, KnowsReading
  <2>4. KnowsNoDefault(w)'
    <3>1. j.kind = "reopen" => n.step = "held"
      BY <1>1 DEF n, Task
    <3> QED BY <1>1, <1>8, <3>1 DEF KnowsNoDefault
  <2> QED BY <2>1, <2>2, <2>3, <2>4 DEF Serves
<1> HIDE DEF s
<1> QED BY <1>1, <1>3, <1>5, <1>6, <1>10, LockKeepsServing

LEMMA LockTargetKeepsServing ==
  ASSUME ServingInv, CashInv', NEW w \in Workers, LockTarget(w) PROVE ServingInv'
<1> DEFINE j == task[w]
           n == [j EXCEPT !.step = "ready"]
<1>1. /\ j \in Task /\ UNCHANGED data /\ j.kind = "create"
      /\ Refers(w) /\ Serves(w) /\ CashTypeOK
  BY DEF LockTarget, ServingInv, CashInv, TasksMatch, CashTypeOK
<1>2. PICK s \in Sessions, r \in Registers : s = j.session /\ r = j.register
  BY <1>1 DEF Refers
<1>3. /\ j.amount <= Expected(s) /\ Take(w, BranchOf[r]) /\ BranchOf[r] \in Rows
      /\ task' = [task EXCEPT ![w] = n]
  BY <1>1, <1>2, RegistersAssumption DEF LockTarget, Rows, CashTypeOK
<1>4. /\ n.kind = j.kind /\ n.amount = j.amount /\ n.session = s /\ n.clean = j.clean
  BY <1>1, <1>2 DEF Task
<1>5. j.amount - BesidesSales(s) <= MaxCash
  <2>1. /\ till[s].takings \in 0..MaxCash /\ BesidesSales(s) \in Int /\ j.amount \in Int
        /\ j.amount <= BesidesSales(s) + till[s].takings
    BY <1>1, <1>3, ExpectedIsInt DEF ServingInv, TakingsFit, Task, Expected
  <2> QED BY <2>1, AmountsAssumption
<1>6. \A x : BesidesSales(x)' = BesidesSales(x)
  BY <1>1 DEF data, BesidesSales, Moved
<1> HIDE DEF n
<1>7. task'[w] = n => Serves(w)'
  BY <1>1, <1>4, <1>5, <1>6
     DEF Serves, AmountFits, KnowsClosed, KnowsReading, KnowsNoDefault
<1> QED BY <1>1, <1>3, <1>7, LockKeepsServing

LEMMA LockDrawerKeepsServing ==
  ASSUME ServingInv, CashInv', NEW w \in Workers, LockDrawer(w) PROVE ServingInv'
<1> DEFINE j == task[w]
<1>1. /\ j \in Task /\ UNCHANGED data
      /\ j.step = "held" /\ j.kind \in {"dispatch", "receive", "reject"}
      /\ task \in [Workers -> Task]
  BY DEF LockDrawer, ServingInv, CashInv, CashTypeOK
<1>2. PICK s \in Drawers(w) :
        /\ Open(s) /\ Take(w, s) /\ CashSuffices(w, s)
        /\ task' = [task EXCEPT ![w].step = "ready", ![w].session = s]
  BY DEF LockDrawer
<1> DEFINE n == [j EXCEPT !.step = "ready", !.session = s]
<1>3. s \in Sessions /\ s \in Rows
  BY <1>1 DEF Drawers, Rows
<1>4. task' = [task EXCEPT ![w] = n]
  BY <1>1, <1>2
<1>5. n.kind = j.kind /\ n.amount = j.amount /\ n.session = s /\ n.clean = j.clean
  BY <1>1 DEF Task
<1>6. j.kind = "dispatch" => j.amount - BesidesSales(s) <= MaxCash
  <2>1. /\ till[s].takings \in 0..MaxCash /\ BesidesSales(s) \in Int /\ j.amount \in Int
        /\ j.kind = "dispatch" => j.amount <= BesidesSales(s) + till[s].takings
    BY <1>1, <1>2, <1>3, ExpectedIsInt
       DEF ServingInv, CashInv, TakingsFit, Task, CashSuffices, Expected
  <2> QED BY <2>1, AmountsAssumption
<1>7. \A x : BesidesSales(x)' = BesidesSales(x)
  BY <1>1 DEF data, BesidesSales, Moved
<1>8. Serves(w)
  BY DEF ServingInv
<1> HIDE DEF n
<1>9. task'[w] = n => Serves(w)'
  BY <1>1, <1>5, <1>6, <1>7, <1>8
     DEF Serves, AmountFits, KnowsClosed, KnowsReading, KnowsNoDefault
<1> QED BY <1>1, <1>2, <1>3, <1>4, <1>9, LockKeepsServing


--------------------------------------------------------------------------------
\* A commit by w: the locks of the other handlers keep what they know.
LEMMA CommitKeepsServing ==
  ASSUME ServingInv, CashInv', NEW w \in Workers, End(w),
         TakingsFit', DefaultsStand', OneDefaultPerBranch',
         \A x \in Sessions : session[x].status # "none" =>
           session'[x].register = session[x].register,
         \A x \in Sessions : (session[x].status # "none" /\ lock[x] # w) =>
           session'[x].status = session[x].status /\ BesidesSales(x)' = BesidesSales(x),
         \A r \in Registers :
           /\ register'[r].state = "none" => register[r].state = "none"
           /\ (register'[r].default /\ ~register[r].default) => lock[BranchOf[r]] = w
  PROVE  ServingInv'
<1>1. /\ task \in [Workers -> Task] /\ lock \in [Rows -> Workers \cup {Nobody}]
      /\ task' = [task EXCEPT ![w] = Idle] /\ lock' = LocksFreed(w)
  BY DEF ServingInv, CashInv, CashTypeOK, End
<1>2. Serves(w)'
  <2>1. task'[w] = Idle
    BY <1>1
  <2> QED BY <2>1, IdleFields DEF Serves, AmountFits, KnowsClosed, KnowsReading, KnowsNoDefault
<1>3. ASSUME NEW v \in Workers \ {w} PROVE Serves(v)'
  <2> DEFINE j == task[v]
  <2>1. task'[v] = j /\ \A y \in Rows : lock[y] = v => lock'[y] = v
    BY <1>1 DEF LocksFreed
  <2>2. Serves(v) /\ Refers(v) /\ Holds(v) /\ KnowsTransfer(v)
    BY DEF ServingInv, CashInv, TasksMatch
  <2>3. AmountFits(v)'
    BY <2>1, <2>2 DEF Serves, AmountFits
  <2>4. KnowsClosed(v)'
    <3> SUFFICES ASSUME j.kind = "reopen"
                 PROVE  /\ j.register = session'[j.session].register
                        /\ j.step # "asked" => /\ lock'[j.session] = v
                                               /\ session'[j.session].status = "cerrada"
      BY <2>1 DEF KnowsClosed
    <3>1. j.session \in Sessions /\ session[j.session].status # "none" /\ j.session \in Rows
      BY <2>2 DEF Refers, Rows
    <3> QED BY <2>1, <2>2, <3>1 DEF Serves, KnowsClosed
  <2>5. KnowsReading(v)'
    <3>1. (j.kind \in {"close", "create", "dispatch"} /\ j.step = "ready") =>
            BesidesSales(j.session)' = BesidesSales(j.session)
      <4> SUFFICES ASSUME j.kind \in {"close", "create", "dispatch"}, j.step = "ready"
                   PROVE  BesidesSales(j.session)' = BesidesSales(j.session)
        OBVIOUS
      <4>1. j.session \in Sessions /\ lock[j.session] = v /\ session[j.session].status # "none"
        BY <2>2 DEF Refers, Holds, KnowsTransfer, Open
      <4> QED BY <2>1, <4>1
    <3> QED BY <2>1, <2>2, <3>1 DEF Serves, KnowsReading
  <2>6. KnowsNoDefault(v)'
    <3> SUFFICES ASSUME j.kind \in {"open", "reopen"}, j.step = "ready", j.default,
                        register'[j.register].state = "none",
                        NEW r \in Registers, BranchOf[r] = BranchOf[j.register],
                        register'[r].default
                 PROVE  FALSE
      BY <2>1 DEF KnowsNoDefault
    <3>1. j.register \in Registers /\ lock[BranchOf[j.register]] = v
      BY <2>2 DEF Refers, Holds
    <3>2. ~register[r].default
      BY <2>2, <3>1 DEF Serves, KnowsNoDefault
    <3> QED BY <3>1, <3>2
  <2> QED BY <2>3, <2>4, <2>5, <2>6 DEF Serves
<1> QED BY <1>2, <1>3 DEF ServingInv

\* A commit that leaves the registers alone.
LEMMA CashCommitKeepsServing ==
  ASSUME ServingInv, CashInv', NEW w \in Workers, End(w), UNCHANGED register, TakingsFit',
         \A x \in Sessions : session[x].status # "none" =>
           session'[x].register = session[x].register,
         \A x \in Sessions : (session[x].status # "none" /\ lock[x] # w) =>
           /\ session'[x].status = session[x].status /\ session'[x].opening = session[x].opening
           /\ till'[x].manual = till[x].manual
           /\ \A t \in Transfers :
                /\ x \in sent'[t] <=> x \in sent[t]
                /\ x \in landed'[t] <=> x \in landed[t]
                /\ x \in sent[t] \cup landed[t] => transfer'[t].amount = transfer[t].amount
  PROVE  ServingInv'
<1>1. DefaultsStand' /\ OneDefaultPerBranch'
  BY DEF ServingInv, DefaultsStand, OneDefaultPerBranch
<1>2. \A x \in Sessions : (session[x].status # "none" /\ lock[x] # w) =>
        session'[x].status = session[x].status /\ BesidesSales(x)' = BesidesSales(x)
  BY BesidesSalesStays
<1> QED BY <1>1, <1>2, CommitKeepsServing

LEMMA TillCommitKeepsServing ==
  ASSUME ServingInv, CashInv', NEW w \in Workers, CommitMovement(w) \/ CommitSale(w)
  PROVE  ServingInv'
<1> DEFINE s == task[w].session
<1>1. Holds(w) /\ Refers(w) /\ CashTypeOK /\ TakingsFit
  BY DEF ServingInv, CashInv, TasksMatch
<1>2. s \in Sessions /\ lock[s] = w
  BY <1>1 DEF CommitMovement, CommitSale, Ready, Refers, Holds
<1>3. \A x \in Sessions \ {s} : till'[x] = till[x]
  BY <1>1 DEF CommitMovement, CommitSale, CashTypeOK
<1>4. TakingsFit'
  <2>1. till'[s].takings \in Int /\ till'[s].takings \in 0..MaxCash
    <3>1. CASE CommitMovement(w)
      BY <1>1, <1>2, <3>1, AmountsAssumption DEF CommitMovement, CashTypeOK, TakingsFit
    <3>2. CASE CommitSale(w)
      <4>1. till[s].takings \in Nat /\ task[w].amount \in Nat
        BY <1>1, <1>2, <3>2 DEF CommitSale, Ready, CashTypeOK, Refers
      <4>2. till'[s].takings = till[s].takings + task[w].amount
        BY <1>1, <1>2, <3>2 DEF CommitSale, CashTypeOK
      <4> QED BY <3>2, <4>1, <4>2, AmountsAssumption DEF CommitSale
    <3> QED BY <3>1, <3>2
  <2> QED BY <1>1, <1>3, <2>1 DEF TakingsFit
<1>5. End(w) /\ UNCHANGED <<session, register, transfer, sent, landed>>
  BY DEF CommitMovement, CommitSale
<1> QED BY <1>2, <1>3, <1>4, <1>5, CashCommitKeepsServing

LEMMA EndOfSessionKeepsServing ==
  ASSUME ServingInv, CashInv', NEW w \in Workers, CommitClose(w) \/ CommitVoid(w)
  PROVE  ServingInv'
<1> DEFINE s == task[w].session
<1>1. Holds(w) /\ Refers(w) /\ CashTypeOK /\ TakingsFit
  BY DEF ServingInv, CashInv, TasksMatch
<1>2. s \in Sessions /\ lock[s] = w
  BY <1>1 DEF CommitClose, CommitVoid, Ready, Refers, Holds
<1>3. \A x \in Sessions : /\ session'[x].register = session[x].register
                          /\ x # s => session'[x] = session[x]
  <2>1. CASE CommitClose(w)
    <3> DEFINE e == IF task[w].stale /\ task[w].read = session[s].opening
                    THEN session[s].expected ELSE task[w].read
    <3>1. PICK counted \in 0..MaxCash :
            session' = [session EXCEPT ![s].status = "cerrada", ![s].counted = counted,
                 ![s].expected = IF task[w].stale /\ task[w].read = session[s].opening
                                 THEN @ ELSE task[w].read]
      BY <2>1 DEF CommitClose
    <3>2. session' = [session EXCEPT ![s].status = "cerrada", ![s].counted = counted,
                                     ![s].expected = e]
      BY <1>1, <1>2, <3>1 DEF CashTypeOK, SessionRow
    <3> HIDE DEF e, s
    <3> QED BY <1>1, <1>2, <3>2 DEF CashTypeOK, SessionRow
  <2>2. CASE CommitVoid(w)
    BY <1>1, <1>2, <2>2 DEF CommitVoid, CashTypeOK, SessionRow
  <2> QED BY <2>1, <2>2
<1>4. End(w) /\ UNCHANGED <<till, register, transfer, sent, landed>>
  BY DEF CommitClose, CommitVoid
<1>5. TakingsFit'
  BY <1>1, <1>4 DEF TakingsFit
<1> QED BY <1>2, <1>3, <1>4, <1>5, CashCommitKeepsServing

LEMMA TransferCommitKeepsServing ==
  ASSUME ServingInv, CashInv', NEW w \in Workers,
         CommitCreate(w) \/ CommitDispatch(w) \/ CommitLanding(w) \/ CommitCancel(w)
  PROVE  ServingInv'
<1> DEFINE s == task[w].session
           t == task[w].transfer
<1>1. /\ Holds(w) /\ Refers(w) /\ CashTypeOK /\ TakingsFit /\ TransferRowsMatchStatus
      /\ KnowsTransfer(w)
  BY DEF ServingInv, CashInv, TasksMatch
<1>2. End(w) /\ UNCHANGED <<session, till, register>>
  BY DEF CommitCreate, CommitDispatch, CommitLanding, CommitCancel
<1>3. TakingsFit'
  BY <1>1, <1>2 DEF TakingsFit
<1>4. \A x \in Sessions : lock[x] # w => \A y \in Transfers :
        /\ x \in sent'[y] <=> x \in sent[y]
        /\ x \in landed'[y] <=> x \in landed[y]
        /\ x \in sent[y] \cup landed[y] => transfer'[y].amount = transfer[y].amount
  <2>1. CASE CommitCreate(w)
    <3>1. PICK y \in Transfers :
            /\ transfer[y].status = "none"
            /\ \A z \in Transfers \ {y} : transfer'[z] = transfer[z]
      BY <1>1, <2>1 DEF CommitCreate, CashTypeOK
    <3>2. sent[y] = {} /\ landed[y] = {}
      BY <1>1, <3>1 DEF TransferRowsMatchStatus
    <3> QED BY <2>1, <3>1, <3>2 DEF CommitCreate
  <2>2. CASE CommitDispatch(w)
    <3>1. t \in Transfers /\ s \in Sessions /\ lock[s] = w
      BY <1>1, <2>2 DEF CommitDispatch, Ready, Refers, Holds
    <3>2. sent[t] = {} /\ sent'[t] = {s} /\ landed' = landed
          /\ \A y \in Transfers \ {t} : sent'[y] = sent[y]
      BY <1>1, <2>2, <3>1 DEF CommitDispatch, CashTypeOK
    <3>3. \A y \in Transfers : transfer'[y].amount = transfer[y].amount
      BY <1>1, <2>2, <3>1 DEF CommitDispatch, CashTypeOK, TransferRow
    <3> QED BY <3>1, <3>2, <3>3
  <2>3. CASE CommitLanding(w)
    <3>1. t \in Transfers /\ s \in Sessions /\ lock[s] = w
      BY <1>1, <2>3 DEF CommitLanding, Ready, Refers, Holds
    <3>2. landed[t] = {} /\ landed'[t] = {s} /\ sent' = sent
          /\ \A y \in Transfers \ {t} : landed'[y] = landed[y]
      BY <1>1, <2>3, <3>1 DEF CommitLanding, CashTypeOK
    <3>3. \A y \in Transfers : transfer'[y].amount = transfer[y].amount
      BY <1>1, <2>3, <3>1 DEF CommitLanding, CashTypeOK, TransferRow
    <3> QED BY <3>1, <3>2, <3>3
  <2>4. CASE CommitCancel(w)
    <3>1. \A y \in Transfers : transfer'[y].amount = transfer[y].amount
      BY <1>1, <2>4 DEF CommitCancel, Ready, Refers, CashTypeOK, TransferRow
    <3> QED BY <2>4, <3>1 DEF CommitCancel
  <2> QED BY <2>1, <2>2, <2>3, <2>4
<1> QED BY <1>2, <1>3, <1>4, CashCommitKeepsServing

LEMMA CommitOpenKeepsServing ==
  ASSUME ServingInv, CashInv', NEW w \in Workers, CommitOpen(w) PROVE ServingInv'
<1> DEFINE r == task[w].register
<1>1. /\ Refers(w) /\ Holds(w) /\ KnowsRegister(w) /\ Serves(w) /\ CashTypeOK
      /\ TakingsFit /\ DefaultsStand /\ OneDefaultPerBranch
  BY DEF ServingInv, CashInv, TasksMatch
<1>2. /\ r \in Registers /\ End(w) /\ UNCHANGED <<till, transfer, sent, landed>>
      /\ task[w].kind \in {"open", "reopen"} /\ task[w].step = "ready"
  BY <1>1 DEF CommitOpen, Ready, Refers
<1>3. /\ register'[r] = IF register[r].state = "none" THEN [state |-> "active", default |-> TRUE]
                        ELSE register[r]
      /\ \A x \in Registers \ {r} : register'[x] = register[x]
  BY <1>1, <1>2 DEF CommitOpen, CashTypeOK
<1>4. register[r].state = "none" =>
        /\ lock[BranchOf[r]] = w
        /\ \A x \in Registers : BranchOf[x] = BranchOf[r] => ~register[x].default
  BY <1>1, <1>2 DEF KnowsRegister, Holds, Serves, KnowsNoDefault
<1>5. DefaultsStand'
  BY <1>1, <1>3 DEF DefaultsStand
<1>6. OneDefaultPerBranch'
  <2> SUFFICES ASSUME NEW r1 \in Registers, NEW r2 \in Registers, BranchOf[r1] = BranchOf[r2],
                      register'[r1].default, register'[r2].default
               PROVE  r1 = r2
    BY DEF OneDefaultPerBranch
  <2> HIDE DEF r
  <2>1. CASE register[r].state = "none"
    BY <1>1, <1>3, <1>4, <2>1 DEF OneDefaultPerBranch
  <2>2. CASE register[r].state # "none"
    BY <1>1, <1>2, <1>3, <2>2 DEF OneDefaultPerBranch
  <2> QED BY <2>1, <2>2
<1>7. TakingsFit'
  BY <1>1, <1>2 DEF TakingsFit
<1>8. \A x \in Sessions : session[x].status # "none" => session'[x] = session[x]
  <2>1. PICK s \in Sessions :
          session[s].status = "none" /\ \E row : session' = [session EXCEPT ![s] = row]
    BY DEF CommitOpen
  <2> QED BY <1>1, <2>1 DEF CashTypeOK
<1>9. \A x \in Sessions : session[x].status # "none" => BesidesSales(x)' = BesidesSales(x)
  BY <1>2, <1>8, BesidesSalesStays
<1>10. \A x \in Registers :
         /\ register'[x].state = "none" => register[x].state = "none"
         /\ (register'[x].default /\ ~register[x].default) => lock[BranchOf[x]] = w
  BY <1>2, <1>3, <1>4
<1> QED BY <1>2, <1>5, <1>6, <1>7, <1>8, <1>9, <1>10, CommitKeepsServing

\* The default register is never switched off.
LEMMA CommitToggleKeepsServing ==
  ASSUME ServingInv, CashInv', NEW w \in Workers, CommitToggle(w) PROVE ServingInv'
<1> DEFINE r == task[w].register
<1>1. /\ Refers(w) /\ KnowsRegister(w) /\ CashTypeOK
      /\ TakingsFit /\ DefaultsStand /\ OneDefaultPerBranch
  BY DEF ServingInv, CashInv, TasksMatch
<1>2. /\ r \in Registers /\ End(w) /\ UNCHANGED <<session, till, transfer, sent, landed>>
      /\ register[r].state # "none" /\ (register[r].default => task[w].default)
  BY <1>1 DEF CommitToggle, Ready, Refers, KnowsRegister
<1>3. /\ register'[r].state = IF task[w].default THEN "active" ELSE "inactive"
      /\ \A x \in Registers : register'[x].default = register[x].default
      /\ \A x \in Registers \ {r} : register'[x] = register[x]
  BY <1>1, <1>2 DEF CommitToggle, CashTypeOK
<1>4. DefaultsStand'
  BY <1>1, <1>2, <1>3 DEF DefaultsStand
<1>5. OneDefaultPerBranch' /\ TakingsFit'
  BY <1>1, <1>2, <1>3 DEF OneDefaultPerBranch, TakingsFit
<1>6. \A x \in Sessions : BesidesSales(x)' = BesidesSales(x)
  BY <1>2, BesidesSalesStays
<1>7. \A x \in Registers : register'[x].state = "none" => register[x].state = "none"
  BY <1>2, <1>3
<1> QED BY <1>2, <1>3, <1>4, <1>5, <1>6, <1>7, CommitKeepsServing

\* A new default register takes the flag from the others of its branch.
LEMMA CommitRegisterKeepsServing ==
  ASSUME ServingInv, CashInv', NEW w \in Workers, CommitRegister(w) PROVE ServingInv'
<1> DEFINE r == task[w].register
           on == task[w].default
<1>1. /\ Refers(w) /\ Holds(w) /\ CashTypeOK
      /\ TakingsFit /\ DefaultsStand /\ OneDefaultPerBranch
  BY DEF ServingInv, CashInv, TasksMatch
<1>2. /\ r \in Registers /\ End(w) /\ UNCHANGED <<session, till, transfer, sent, landed>>
      /\ lock[BranchOf[r]] = w /\ register[r].state = "none" /\ on \in BOOLEAN
  BY <1>1 DEF CommitRegister, Ready, Refers, Holds, CashTypeOK, Task
<1>3. /\ register'[r].state = "active" /\ register'[r].default = on
      /\ \A x \in Registers \ {r} :
           /\ register'[x].state = register[x].state
           /\ register'[x].default => register[x].default
           /\ on /\ BranchOf[x] = BranchOf[r] => ~register'[x].default
  BY <1>1, <1>2 DEF CommitRegister, CashTypeOK
<1> HIDE DEF r, on
<1>4. DefaultsStand'
  BY <1>1, <1>3 DEF DefaultsStand
<1>5. OneDefaultPerBranch'
  <2> SUFFICES ASSUME NEW r1 \in Registers, NEW r2 \in Registers, BranchOf[r1] = BranchOf[r2],
                      register'[r1].default, register'[r2].default
               PROVE  r1 = r2
    BY DEF OneDefaultPerBranch
  <2>1. CASE r \in {r1, r2}
    BY <1>3, <2>1
  <2>2. CASE r \notin {r1, r2}
    BY <1>1, <1>3, <2>2 DEF OneDefaultPerBranch
  <2> QED BY <2>1, <2>2
<1>6. TakingsFit' /\ \A x \in Sessions : BesidesSales(x)' = BesidesSales(x)
  BY <1>1, <1>2, BesidesSalesStays DEF TakingsFit
<1>7. \A x \in Registers :
         /\ register'[x].state = "none" => register[x].state = "none"
         /\ (register'[x].default /\ ~register[x].default) => lock[BranchOf[x]] = w
  BY <1>2, <1>3
<1> QED BY <1>2, <1>4, <1>5, <1>6, <1>7, CommitKeepsServing

\* An edited sale spoils a reading of its session, which then counts all the rest.
LEMMA ChangeSaleKeepsServing ==
  ASSUME ServingInv, CashInv', NEW s \in Sessions, ChangeSale(s) PROVE ServingInv'
<1>1. UNCHANGED <<session, register, transfer, sent, landed, lock>> /\ CashTypeOK /\ TakingsFit
      /\ "change" \in Workload
  BY DEF ChangeSale, ServingInv, CashInv
<1>2. PICK takings \in 0..MaxCash : till' = [till EXCEPT ![s].takings = takings]
  BY Zenon DEF ChangeSale
<1>3. TakingsFit' /\ \A x \in Sessions : till'[x].manual = till[x].manual
  BY <1>1, <1>2 DEF CashTypeOK, TakingsFit
<1>4. \A x \in Sessions : BesidesSales(x)' = BesidesSales(x)
  BY <1>1, <1>3, BesidesSalesStays
<1>5. ASSUME NEW v \in Workers PROVE Serves(v)'
  <2>1. /\ task'[v] = [task[v] EXCEPT !.clean = @ /\ lock[s] # v] /\ task[v] \in Task
    BY <1>1, Zenon DEF ChangeSale, CashTypeOK
  <2>2. /\ task'[v].kind = task[v].kind /\ task'[v].step = task[v].step
        /\ task'[v].session = task[v].session /\ task'[v].register = task[v].register
        /\ task'[v].default = task[v].default /\ task'[v].amount = task[v].amount
        /\ task'[v].read = task[v].read
    BY <2>1 DEF Task
  <2>3. Serves(v) /\ Refers(v) /\ Holds(v)
    BY DEF ServingInv, CashInv, TasksMatch
  <2>4. (task[v].kind \in {"close", "create", "dispatch"} /\ task[v].step = "ready") =>
          BesidesSales(task[v].session)' = BesidesSales(task[v].session)
    BY <1>4, <2>2, <2>3 DEF Refers, Holds
  <2>5. AmountFits(v)' /\ KnowsClosed(v)' /\ KnowsNoDefault(v)'
    BY <1>1, <2>2, <2>3 DEF Serves, AmountFits, KnowsClosed, KnowsNoDefault
  <2>6. KnowsReading(v)'
    BY <1>1, <2>2, <2>3, <2>4 DEF Serves, KnowsReading
  <2> QED BY <2>5, <2>6 DEF Serves
<1> QED BY <1>1, <1>3, <1>5 DEF ServingInv, DefaultsStand, OneDefaultPerBranch

LEMMA ServingStep == ServingInv /\ [Next]_vars => ServingInv'
<1> SUFFICES ASSUME ServingInv, [Next]_vars PROVE ServingInv'
  OBVIOUS
<1>1. CashInv'
  BY CashInvStep DEF ServingInv
<1>2. ASSUME NEW w \in Workers,
             \/ AskOpen(w) \/ AskSession(w) \/ TakeOpenSession(w) \/ TakeSource(w)
             \/ LockTransfer(w) \/ LockRegister(w) \/ LockBranch(w) \/ Abort(w)
      PROVE  ServingInv'
  BY <1>1, <1>2, AskKeepsServing
<1>3. ASSUME NEW w \in Workers,
             PickRegister(w) \/ LockSession(w) \/ LockTarget(w) \/ LockDrawer(w)
      PROVE  ServingInv'
  BY <1>1, <1>3, PickRegisterKeepsServing, LockSessionKeepsServing, LockTargetKeepsServing,
     LockDrawerKeepsServing
<1>4. ASSUME NEW w \in Workers,
             CommitMovement(w) \/ CommitSale(w) \/ CommitClose(w) \/ CommitVoid(w)
      PROVE  ServingInv'
  BY <1>1, <1>4, TillCommitKeepsServing, EndOfSessionKeepsServing
<1>5. ASSUME NEW w \in Workers,
             CommitCreate(w) \/ CommitDispatch(w) \/ CommitLanding(w) \/ CommitCancel(w)
      PROVE  ServingInv'
  BY <1>1, <1>5, TransferCommitKeepsServing
<1>6. ASSUME NEW w \in Workers, CommitOpen(w) \/ CommitToggle(w) \/ CommitRegister(w)
      PROVE  ServingInv'
  BY <1>1, <1>6, CommitOpenKeepsServing, CommitToggleKeepsServing, CommitRegisterKeepsServing
<1>7. ASSUME NEW s \in Sessions, ChangeSale(s) PROVE ServingInv'
  BY <1>1, <1>7, ChangeSaleKeepsServing
<1>8. CASE UNCHANGED vars
  <2>1. UNCHANGED <<session, till, register, transfer, sent, landed, lock, task>>
    BY <1>8 DEF vars, data
  <2>2. \A x : BesidesSales(x)' = BesidesSales(x)
    BY <2>1 DEF BesidesSales, Moved
  <2>3. \A w \in Workers : Serves(w)'
    BY <2>1, <2>2 DEF ServingInv, Serves, AmountFits, KnowsClosed, KnowsReading, KnowsNoDefault
  <2> QED BY <1>1, <2>1, <2>3 DEF ServingInv, TakingsFit, DefaultsStand, OneDefaultPerBranch
<1> QED BY <1>2, <1>3, <1>4, <1>5, <1>6, <1>7, <1>8 DEF Next

LEMMA ServingInvariant == Spec => []ServingInv
BY InitServing, ServingStep, PTL DEF Spec

\* uq_cash_registers_default_branch is never violated: a branch has at most one default
\* register, though the first opening and the form of a new register both set the flag.
THEOREM BranchHasOneDefault == Spec => []OneDefaultPerBranch
<1>1. ServingInv => OneDefaultPerBranch
  BY DEF ServingInv
<1> QED BY <1>1, ServingInvariant, PTL

--------------------------------------------------------------------------------
\* The rows as SerialCash reads them are the rows.
LEMMA SerialRows ==
  /\ \A s : Serial!Open(s) <=> Open(s)
  /\ \A r : Serial!Occupied(r) <=> Occupied(r)
  /\ \A s : Serial!BesidesSales(s) = BesidesSales(s) /\ Serial!Expected(s) = Expected(s)
  /\ Serial!NoRows <=> NoRows
  /\ UNCHANGED data <=> UNCHANGED Serial!data
<1>1. \A rows, s : Serial!Moved(rows, s) = Moved(rows, s)
  BY DEF Serial!Moved, Serial!SumFunction, Serial!SumFunctionOnSet, Serial!FoldFunctionOnSet,
         Serial!MapThenFoldSet, Moved, SumFunction, SumFunctionOnSet, FoldFunctionOnSet,
         MapThenFoldSet
<1>2. \A s : Serial!Open(s) <=> Open(s)
  BY DEF Serial!Open, Open
<1>3. \A r : Serial!Occupied(r) <=> Occupied(r)
  BY DEF Serial!Occupied, Serial!Open, Occupied, Open
<1>4. \A s : Serial!BesidesSales(s) = BesidesSales(s)
  BY <1>1 DEF Serial!BesidesSales, BesidesSales
<1>5. \A s : Serial!Expected(s) = Expected(s)
  BY <1>4 DEF Serial!Expected, Expected
<1>6. Serial!NoRows <=> NoRows
  BY DEF Serial!NoRows, NoRows, Serial!NoSession, NoSession, Serial!Empty, Empty,
         Serial!NoTransfer, NoTransfer
<1>7. UNCHANGED data <=> UNCHANGED Serial!data
  BY DEF data, Serial!data
<1> QED BY <1>2, <1>3, <1>4, <1>5, <1>6, <1>7

\* What a handler has read under its lock is what SerialCash allows it to take.
LEMMA ReadingsAllowed ==
  ASSUME ServingInv, NEW w \in Workers, task[w].step = "ready",
         task[w].kind \in {"close", "create", "dispatch"}, NEW s, s = task[w].session
  PROVE  /\ task[w].kind = "close" => task[w].read \in Serial!Readings(s)
         /\ task[w].kind \in {"create", "dispatch"} =>
              \E expected \in Serial!Readings(s) : task[w].amount <= expected
<1>1. /\ Refers(w) /\ Holds(w) /\ KnowsSession(w) /\ KnowsTransfer(w) /\ KnowsReading(w)
      /\ CashTypeOK /\ task[w] \in Task
  BY DEF ServingInv, CashInv, TasksMatch, Serves, CashTypeOK
<1>2. s \in Sessions /\ BesidesSales(s) \in Int
  BY <1>1, ExpectedIsInt DEF Refers, Holds
<1>3. Serial!Readings(s) = {Expected(s)} \cup
        {BesidesSales(s) + c : c \in IF "change" \in Workload THEN 0..MaxCash ELSE {}}
  BY SerialRows DEF Serial!Readings
<1>4. CASE task[w].clean
  BY <1>1, <1>3, <1>4 DEF KnowsSession, KnowsTransfer
<1>5. CASE ~task[w].clean
  <2>1. Serial!Readings(s) = {Expected(s)} \cup {BesidesSales(s) + c : c \in 0..MaxCash}
    BY <1>1, <1>3, <1>5 DEF KnowsReading
  <2>2. CASE task[w].kind = "close"
    <3>1. task[w].read \in Int /\ task[w].read - BesidesSales(s) \in 0..MaxCash
      BY <1>1, <2>2 DEF KnowsReading, Task
    <3>2. task[w].read = BesidesSales(s) + (task[w].read - BesidesSales(s))
      BY <1>2, <3>1
    <3> QED BY <2>1, <2>2, <3>1, <3>2
  <2>3. CASE task[w].kind \in {"create", "dispatch"}
    <3>1. task[w].amount \in Int /\ task[w].amount <= BesidesSales(s) + MaxCash
      BY <1>1, <1>2, <2>3, AmountsAssumption DEF KnowsReading, Task
    <3>2. MaxCash \in 0..MaxCash
      BY AmountsAssumption
    <3> QED BY <2>1, <2>3, <3>1, <3>2
  <2> QED BY <2>2, <2>3
<1> QED BY <1>4, <1>5

LEMMA MovementIsServed ==
  ASSUME ServingInv, NEW w \in Workers, CommitMovement(w) PROVE Serial!Next
<1>1. /\ Refers(w) /\ AmountFits(w) /\ CashTypeOK
  BY DEF ServingInv, CashInv, TasksMatch, Serves
<1>2. PICK s \in Sessions : s = task[w].session /\ session[s].status # "none"
  BY <1>1 DEF CommitMovement, Ready, Refers
<1>3. PICK amount \in Amounts \cup {-a : a \in Amounts} : amount = task[w].amount
  BY <1>1 DEF CommitMovement, Ready, AmountFits
<1>4. Serial!Open(s) \/ Serial!Late(s)
  BY <1>1, <1>2, SerialRows DEF CashTypeOK, SessionRow, Open, Serial!Late
<1>5. Serial!MoveCash(s, amount)
  BY <1>2, <1>3, <1>4 DEF CommitMovement, Serial!MoveCash
<1> QED BY <1>5 DEF Serial!Next

LEMMA ClosingIsServed ==
  ASSUME ServingInv, NEW w \in Workers, CommitClose(w) PROVE Serial!Next
<1>1. /\ Refers(w) /\ CashTypeOK /\ RowsFilled /\ Ready(w, {"close"})
  BY DEF ServingInv, CashInv, TasksMatch, CommitClose
<1>2. PICK s \in Sessions : s = task[w].session /\ session[s].status # "none"
  BY <1>1 DEF Ready, Refers
<1>3. task[w].read \in Serial!Readings(s)
  BY <1>1, <1>2, ReadingsAllowed DEF Ready
<1> DEFINE e == IF task[w].stale /\ task[w].read = session[s].opening
                THEN session[s].expected ELSE task[w].read
<1>4. PICK counted \in 0..MaxCash :
        session' = [session EXCEPT ![s].status = "cerrada", ![s].counted = counted,
             ![s].expected = IF task[w].stale /\ task[w].read = session[s].opening
                             THEN @ ELSE task[w].read]
  BY <1>2 DEF CommitClose
<1>5. session' = [session EXCEPT ![s].status = "cerrada", ![s].counted = counted,
                                 ![s].expected = e]
  BY <1>1, <1>2, <1>4 DEF CashTypeOK, SessionRow
<1>6. Open(s) => e = task[w].read
  BY <1>1, <1>2 DEF RowsFilled
<1>7. e \in {task[w].read, session[s].expected}
  OBVIOUS
<1> HIDE DEF e
<1>8. session' = [session EXCEPT ![s].status = "cerrada", ![s].expected = e,
                                 ![s].counted = counted]
  BY <1>1, <1>2, <1>5 DEF CashTypeOK, SessionRow
<1>9. Serial!CloseAs(s, e, counted)
  BY <1>8 DEF CommitClose, Serial!CloseAs
<1>10. Serial!Open(s) \/ Serial!Late(s)
  BY <1>1, <1>2, SerialRows DEF CashTypeOK, SessionRow, Open, Serial!Late
<1>11. Serial!CloseSession(s, counted)
  <2>1. CASE Open(s)
    BY <1>3, <1>6, <1>9, <2>1, SerialRows DEF Serial!CloseSession
  <2>2. CASE ~Open(s)
    BY <1>3, <1>7, <1>9, <1>10, <2>2, SerialRows DEF Serial!CloseSession
  <2> QED BY <2>1, <2>2
<1> QED BY <1>11 DEF Serial!Next

LEMMA VoidIsServed ==
  ASSUME ServingInv, NEW w \in Workers, CommitVoid(w) PROVE Serial!Next
<1>1. PICK s \in Sessions : s = task[w].session /\ session[s].status # "none"
  BY DEF ServingInv, CashInv, TasksMatch, CommitVoid, Ready, Refers
<1>2. Serial!VoidSession(s)
  BY <1>1 DEF CommitVoid, Serial!VoidSession, Serial!Known
<1> QED BY <1>2 DEF Serial!Next

LEMMA SaleIsServed ==
  ASSUME ServingInv, NEW w \in Workers, CommitSale(w) PROVE Serial!Next
<1>1. /\ Refers(w) /\ KnowsSession(w) /\ AmountFits(w)
  BY DEF ServingInv, CashInv, TasksMatch, Serves
<1>2. PICK s \in Sessions : s = task[w].session /\ Open(s)
  BY <1>1 DEF CommitSale, Ready, Refers, KnowsSession
<1>3. PICK amount \in Amounts \cup {0} : amount = task[w].amount
  BY <1>1 DEF CommitSale, Ready, AmountFits
<1>4. Serial!Sell(s, amount)
  BY <1>2, <1>3, SerialRows DEF CommitSale, Serial!Sell
<1> QED BY <1>4 DEF Serial!Next

LEMMA ChangeIsServed ==
  ASSUME NEW s \in Sessions, ChangeSale(s) PROVE Serial!Next
<1>1. PICK takings \in 0..MaxCash : till' = [till EXCEPT ![s].takings = takings]
  BY Zenon DEF ChangeSale
<1>2. Serial!ChangeSale(s, takings)
  BY <1>1 DEF ChangeSale, Serial!ChangeSale
<1> QED BY <1>2 DEF Serial!Next

LEMMA CreationIsServed ==
  ASSUME ServingInv, NEW w \in Workers, CommitCreate(w) PROVE Serial!Next
<1>1. /\ Refers(w) /\ KnowsSession(w) /\ AmountFits(w)
  BY DEF ServingInv, CashInv, TasksMatch, Serves
<1>2. PICK s \in Sessions : s = task[w].session /\ Open(s)
  BY <1>1 DEF CommitCreate, Ready, Refers, KnowsSession
<1>3. PICK target \in Registers, amount \in Amounts :
        target = task[w].register /\ amount = task[w].amount
  BY <1>1 DEF CommitCreate, Ready, Refers, AmountFits
<1>4. PICK t \in Transfers :
        /\ transfer[t].status = "none"
        /\ transfer' = [transfer EXCEPT ![t] =
             [status |-> "pendiente", source |-> s, target |-> target, amount |-> amount]]
  BY <1>2, <1>3 DEF CommitCreate
<1>5. \E expected \in Serial!Readings(s) : amount <= expected
  BY <1>2, <1>3, ReadingsAllowed DEF CommitCreate, Ready
<1>6. register[session[s].register].state = "active"
  BY <1>2 DEF ServingInv, CashInv, OpenSessionsHaveActiveRegister
<1>7. register[target].state # "none" /\ BranchOf[target] # BranchOf[session[s].register]
  <2>1. KnowsRegister(w)
    BY DEF ServingInv, CashInv, TasksMatch
  <2> QED BY <1>1, <1>2, <1>3, <2>1 DEF CommitCreate, Ready, Refers, KnowsRegister
<1>8. Serial!AskTransfer(t, s, target, amount)
  BY <1>2, <1>4, <1>5, <1>6, <1>7, SerialRows DEF CommitCreate, Serial!AskTransfer
<1> QED BY <1>8 DEF Serial!Next

LEMMA DispatchIsServed ==
  ASSUME ServingInv, NEW w \in Workers, CommitDispatch(w) PROVE Serial!Next
<1>1. /\ Refers(w) /\ Holds(w) /\ KnowsTransfer(w) /\ Ready(w, {"dispatch"})
  BY DEF ServingInv, CashInv, TasksMatch, CommitDispatch
<1>2. PICK t \in Transfers, s \in Sessions :
        /\ t = task[w].transfer /\ s = task[w].session /\ s = transfer[t].source
        /\ Open(s) /\ transfer[t].status = "pendiente" /\ task[w].amount = transfer[t].amount
  BY <1>1 DEF Ready, Refers, Holds, KnowsTransfer, Drawers, Needed
<1>3. \E expected \in Serial!Readings(s) : transfer[t].amount <= expected
  BY <1>1, <1>2, ReadingsAllowed DEF Ready
<1>4. Serial!Dispatch(t)
  BY <1>2, <1>3, SerialRows DEF CommitDispatch, Serial!Dispatch, Serial!Settle
<1> QED BY <1>4 DEF Serial!Next

LEMMA LandingIsServed ==
  ASSUME ServingInv, NEW w \in Workers, CommitLanding(w) PROVE Serial!Next
<1>1. /\ Refers(w) /\ Holds(w) /\ KnowsTransfer(w) /\ Ready(w, {"receive", "reject"})
  BY DEF ServingInv, CashInv, TasksMatch, CommitLanding
<1>2. PICK t \in Transfers, s \in Sessions :
        /\ t = task[w].transfer /\ s = task[w].session
        /\ Open(s) /\ transfer[t].status = "en_transito" /\ s \in Drawers(w)
  BY <1>1 DEF Ready, Refers, Holds, KnowsTransfer, Needed
<1>3. CASE task[w].kind = "receive"
  <2>1. session[s].register = transfer[t].target
    BY <1>2, <1>3 DEF Drawers
  <2>2. Serial!Receive(t, s)
    BY <1>2, <1>3, <2>1, SerialRows
       DEF CommitLanding, Serial!Receive, Serial!Land, Serial!Settle
  <2> QED BY <2>2 DEF Serial!Next
<1>4. CASE task[w].kind = "reject"
  <2>1. session[s].register = session[transfer[t].source].register
    BY <1>2, <1>4 DEF Drawers
  <2>2. Serial!Return(t, s)
    BY <1>2, <1>4, <2>1, SerialRows
       DEF CommitLanding, Serial!Return, Serial!Land, Serial!Settle
  <2> QED BY <2>2 DEF Serial!Next
<1> QED BY <1>1, <1>3, <1>4 DEF Ready

LEMMA CancellingIsServed ==
  ASSUME ServingInv, NEW w \in Workers, CommitCancel(w) PROVE Serial!Next
<1>1. PICK t \in Transfers : t = task[w].transfer /\ transfer[t].status = "pendiente"
  BY DEF ServingInv, CashInv, TasksMatch, CommitCancel, Ready, Refers, KnowsTransfer, Needed
<1>2. Serial!CancelTransfer(t)
  BY <1>1 DEF CommitCancel, Serial!CancelTransfer, Serial!Settle
<1> QED BY <1>2 DEF Serial!Next

LEMMA SwitchIsServed ==
  ASSUME ServingInv, NEW w \in Workers, CommitToggle(w) PROVE Serial!Next
<1>1. /\ Refers(w) /\ KnowsRegister(w) /\ task[w] \in Task
  BY DEF ServingInv, CashInv, TasksMatch, CashTypeOK
<1>2. PICK r \in Registers, on \in BOOLEAN : r = task[w].register /\ on = task[w].default
  BY <1>1 DEF CommitToggle, Ready, Refers, Task
<1>3. register[r].state # "none" /\ (~on => ~register[r].default /\ ~Occupied(r))
  BY <1>1, <1>2 DEF CommitToggle, Ready, KnowsRegister
<1>4. Serial!SwitchRegister(r, on)
  BY <1>2, <1>3, SerialRows DEF CommitToggle, Serial!SwitchRegister
<1> QED BY <1>4 DEF Serial!Next

LEMMA RegistrationIsServed ==
  ASSUME ServingInv, NEW w \in Workers, CommitRegister(w) PROVE Serial!Next
<1>1. /\ Refers(w) /\ task[w] \in Task /\ CashTypeOK
  BY DEF ServingInv, CashInv, TasksMatch, CashTypeOK
<1>2. PICK r \in Registers, on \in BOOLEAN : r = task[w].register /\ on = task[w].default
  BY <1>1 DEF CommitRegister, Ready, Refers, Task
<1>3. \A x \in Registers : ~register[x].default =>
        [register[x] EXCEPT !.default = FALSE] = register[x]
  BY <1>1 DEF CashTypeOK
<1>4. register' = [x \in Registers |->
        IF x = r THEN [state |-> "active", default |-> on]
        ELSE IF on /\ BranchOf[x] = BranchOf[r] THEN [register[x] EXCEPT !.default = FALSE]
        ELSE register[x]]
  BY <1>2, <1>3 DEF CommitRegister
<1>5. Serial!CreateRegister(r, on)
  BY <1>2, <1>4 DEF CommitRegister, Serial!CreateRegister
<1> QED BY <1>5 DEF Serial!Next

LEMMA OpeningIsServed ==
  ASSUME ServingInv, NEW w \in Workers, CommitOpen(w) PROVE Serial!Next
<1>1. /\ Refers(w) /\ Serves(w) /\ KnowsRegister(w) /\ Ready(w, {"open", "reopen"}) /\ CashTypeOK
  BY DEF ServingInv, CashInv, TasksMatch, CommitOpen
<1>2. PICK r \in Registers, u \in Users : r = task[w].register /\ u = task[w].user
  BY <1>1 DEF Ready, Refers
<1>3. PICK opening : opening = IF task[w].kind = "open" THEN task[w].amount
                               ELSE session[task[w].session].counted
  OBVIOUS
<1>4. PICK s \in Sessions :
        /\ session[s].status = "none"
        /\ session' = [session EXCEPT ![s] =
             [status |-> "abierta", user |-> u, register |-> r,
              opening |-> opening, expected |-> opening, counted |-> 0]]
  BY <1>2, <1>3 DEF CommitOpen
<1>5. Serial!InsertSession(s, u, r, opening)
  BY <1>2, <1>4, SerialRows DEF CommitOpen, IndexAdmits, Serial!InsertSession, Serial!Known
<1>6. register[r].state = "active" => register' = register
  BY <1>1, <1>2 DEF CommitOpen, CashTypeOK
<1>7. UNCHANGED <<till, transfer, sent, landed>>
  BY DEF CommitOpen
<1>8. CASE task[w].kind = "open"
  <2>1. opening \in Amounts \cup {0}
    BY <1>1, <1>3, <1>8 DEF Serves, AmountFits
  <2>2. CASE register[r].state = "active"
    <3>1. Serial!OpenSession(s, u, r, opening)
      BY <1>5, <1>6, <1>7, <2>2 DEF Serial!OpenSession
    <3> QED BY <2>1, <3>1 DEF Serial!Next
  <2>3. CASE register[r].state = "none"
    <3>1. \A x \in Registers : BranchOf[x] = BranchOf[r] => ~register[x].default
      BY <1>1, <1>2, <2>3 DEF Ready, KnowsRegister, Serves, KnowsNoDefault
    <3>2. ~Serial!HasDefault(BranchOf[r])
      BY <3>1 DEF Serial!HasDefault
    <3>3. register' = [register EXCEPT ![r] = [state |-> "active", default |-> TRUE]]
      BY <1>1, <1>2, <2>3 DEF CommitOpen, CashTypeOK
    <3>4. Serial!OpenSession(s, u, r, opening)
      BY <1>5, <1>7, <2>3, <3>2, <3>3 DEF Serial!OpenSession
    <3> QED BY <2>1, <3>4 DEF Serial!Next
  <2> QED BY <1>1, <1>2, <2>2, <2>3 DEF Ready, KnowsRegister
<1>9. CASE task[w].kind = "reopen"
  <2>1. PICK old \in Sessions : old = task[w].session
    BY <1>1, <1>9 DEF Refers
  <2>2. /\ session[old].status = "cerrada" /\ session[old].register = r
        /\ session[old].counted = opening
    BY <1>1, <1>2, <1>3, <1>9, <2>1 DEF Ready, Serves, KnowsClosed
  <2>3. register[r].state = "active"
    BY <1>1, <1>2, <1>9 DEF Ready, Refers, KnowsRegister
  <2>4. Serial!ReopenSession(s, old, u)
    BY <1>5, <1>6, <1>7, <2>2, <2>3 DEF Serial!ReopenSession
  <2> QED BY <2>4 DEF Serial!Next
<1> QED BY <1>1, <1>8, <1>9 DEF Ready

\* However the handlers of the cash pages, the checkouts and the transfers interleave,
\* sessions, drawers, registers and transfers change one whole request at a time, each
\* checked against the rows as the last one left them; what SerialCash grants beyond that
\* is the page loaded before the session ended, the sale edited after the reading, and the
\* register switched off after a transfer to it was checked.
THEOREM HandlersAreServedWhole == Spec => ServedOneAtATime
<1>1. Init => Serial!NoRows
  BY SerialRows DEF Init
<1>2. ServingInv /\ [Next]_vars => [Serial!Next]_(Serial!data)
  <2> SUFFICES ASSUME ServingInv, [Next]_vars PROVE Serial!Next \/ UNCHANGED data
    BY SerialRows
  <2>1. ASSUME NEW w \in Workers,
               \/ AskOpen(w) \/ PickRegister(w) \/ AskSession(w) \/ LockSession(w)
               \/ TakeOpenSession(w) \/ TakeSource(w) \/ LockTarget(w) \/ LockTransfer(w) \/ LockDrawer(w)
               \/ LockRegister(w) \/ LockBranch(w) \/ Abort(w)
        PROVE  UNCHANGED data
    BY <2>1 DEF AskOpen, PickRegister, AskSession, LockSession, TakeOpenSession, TakeSource,
       LockTarget, LockTransfer, LockDrawer, LockRegister, LockBranch, Abort
  <2>2. ASSUME NEW w \in Workers,
               CommitMovement(w) \/ CommitClose(w) \/ CommitVoid(w) \/ CommitSale(w)
        PROVE  Serial!Next
    BY <2>2, MovementIsServed, ClosingIsServed, VoidIsServed, SaleIsServed
  <2>3. ASSUME NEW w \in Workers,
               CommitCreate(w) \/ CommitDispatch(w) \/ CommitLanding(w) \/ CommitCancel(w)
        PROVE  Serial!Next
    BY <2>3, CreationIsServed, DispatchIsServed, LandingIsServed, CancellingIsServed
  <2>4. ASSUME NEW w \in Workers, CommitOpen(w) \/ CommitToggle(w) \/ CommitRegister(w)
        PROVE  Serial!Next
    BY <2>4, OpeningIsServed, SwitchIsServed, RegistrationIsServed
  <2>5. ASSUME NEW s \in Sessions, ChangeSale(s) PROVE Serial!Next
    BY <2>5, ChangeIsServed
  <2>6. CASE UNCHANGED vars
    BY <2>6 DEF vars
  <2> QED BY <2>1, <2>2, <2>3, <2>4, <2>5, <2>6 DEF Next
<1> QED BY <1>1, <1>2, ServingInvariant, PTL DEF Spec, ServedOneAtATime, Serial!Spec

--------------------------------------------------------------------------------
(* What a page loaded too early can do to a closed session, and nothing else can *)

\* A movement or closing that loaded its session under the lock has seen it open.
Checking(w) == task[w].kind \in {"movement", "close"} /\ task[w].step = "ready"

SeesOpen(w) == Checking(w) /\ ~task[w].stale => Open(task[w].session)

FreshInv == CashInv /\ \A w \in Workers : SeesOpen(w)

\* A closed session stays as it is, or is voided; no sale, movement or transfer is added.
KeepsClosing(s) ==
  /\ session'[s] \in {session[s], [session[s] EXCEPT !.status = "anulada"]}
  /\ till'[s].sold = till[s].sold /\ till'[s].manual = till[s].manual
  /\ \A t \in Transfers : /\ s \in sent'[t] <=> s \in sent[t]
                          /\ s \in landed'[t] <=> s \in landed[t]

\* w is about to commit a movement or a closing of s, loaded while s was open.
LoadedEarly(w, s) == Checking(w) /\ task[w].stale /\ task[w].session = s /\ lock[s] = w

OnlyEarlyPagesTouchClosings ==
  [][\A s \in Sessions : session[s].status = "cerrada" =>
       KeepsClosing(s) \/ \E w \in Workers : LoadedEarly(w, s)]_vars

SameCheck(v) ==
  /\ task'[v].kind = task[v].kind /\ task'[v].step = task[v].step
  /\ task'[v].stale = task[v].stale /\ task'[v].session = task[v].session

\* Only LockSession brings a movement or a closing to its commit.
LEMMA WhoChecks ==
  ASSUME CashInv, [Next]_vars, NEW v \in Workers
  PROVE  SameCheck(v) \/ ~Checking(v)' \/ LockSession(v)
<1>1. task \in [Workers -> Task] /\ task[v] \in Task
  BY DEF CashInv, CashTypeOK
<1>2. ASSUME NEW w \in Workers, End(w) PROVE SameCheck(v) \/ ~Checking(v)'
  BY <1>1, <1>2, IdleFields DEF End, SameCheck, Checking
<1>3. ASSUME NEW w \in Workers,
             \/ CommitOpen(w) \/ CommitMovement(w) \/ CommitClose(w) \/ CommitVoid(w)
             \/ CommitSale(w) \/ CommitCreate(w) \/ CommitDispatch(w) \/ CommitLanding(w)
             \/ CommitCancel(w) \/ CommitToggle(w) \/ CommitRegister(w) \/ Abort(w)
      PROVE  End(w)
  BY <1>3 DEF CommitOpen, CommitMovement, CommitClose, CommitVoid, CommitSale, CommitCreate,
              CommitDispatch, CommitLanding, CommitCancel, CommitToggle, CommitRegister, Abort
<1>4. ASSUME NEW w \in Workers, NEW n, task' = [task EXCEPT ![w] = n],
             n.kind \in {"movement", "close"} => n.step # "ready"
      PROVE  SameCheck(v) \/ ~Checking(v)'
  BY <1>1, <1>4 DEF SameCheck, Checking
<1>5. ASSUME NEW w \in Workers, AskOpen(w) \/ AskSession(w)
      PROVE  SameCheck(v) \/ ~Checking(v)'
  <2>1. CASE AskOpen(w)
    <3>1. PICK u, r, default, amount :
            task' = [task EXCEPT ![w] = [Idle EXCEPT !.kind = "open", !.user = u, !.register = r,
                                           !.default = default, !.amount = amount]]
      BY <2>1 DEF AskOpen
    <3> DEFINE n == [Idle EXCEPT !.kind = "open", !.user = u, !.register = r,
                                 !.default = default, !.amount = amount]
    <3>2. n.step = "asked"
      BY DEF Idle
    <3> HIDE DEF n
    <3> QED BY <1>4, <3>1, <3>2 DEF n
  <2>2. CASE AskSession(w)
    <3>1. PICK kind \in {"movement", "close", "void", "reopen"}, u \in Users, s \in Sessions :
            AskSession(w)!(kind, u, s)
      BY <2>2 DEF AskSession
    <3>2. PICK loaded, amount :
            task' = [task EXCEPT ![w] =
              [Idle EXCEPT !.kind = kind, !.user = u, !.session = s, !.stale = (loaded = s),
                           !.register = session[s].register, !.amount = amount]]
      BY <3>1
    <3> DEFINE stale == loaded = s
               n == [Idle EXCEPT !.kind = kind, !.user = u, !.session = s, !.stale = stale,
                                 !.register = session[s].register, !.amount = amount]
    <3>3. task' = [task EXCEPT ![w] = n]
      BY <3>2
    <3> HIDE DEF stale
    <3>4. n.step = "asked"
      BY DEF Idle
    <3> HIDE DEF n
    <3> QED BY <1>4, <3>3, <3>4
  <2> QED BY <1>5, <2>1, <2>2
<1>6. ASSUME NEW w \in Workers,
             \/ TakeOpenSession(w) \/ TakeSource(w) \/ LockTransfer(w)
             \/ LockRegister(w) \/ LockBranch(w)
      PROVE  SameCheck(v) \/ ~Checking(v)'
  <2>1. CASE TakeOpenSession(w)
    <3>1. PICK s \in Sessions, amount \in Amounts \cup {0} : TakeOpenSession(w)!(s, amount)
      BY <2>1 DEF TakeOpenSession
    <3> DEFINE n == [Idle EXCEPT !.kind = "sale", !.step = "ready", !.session = s, !.amount = amount]
    <3>2. task' = [task EXCEPT ![w] = n]
      BY <3>1
    <3>3. n.kind \notin {"movement", "close"}
      BY DEF Idle
    <3> HIDE DEF n
    <3> QED BY <1>4, <3>2, <3>3
  <2>2. CASE TakeSource(w)
    <3>1. PICK s \in Sessions, target \in Registers, amount \in Amounts : TakeSource(w)!(s, target, amount)
      BY <2>2 DEF TakeSource
    <3> DEFINE n == [Idle EXCEPT !.kind = "create", !.step = "held", !.session = s,
                             !.register = target, !.amount = amount]
    <3>2. task' = [task EXCEPT ![w] = n]
      BY <3>1
    <3>3. n.kind \notin {"movement", "close"}
      BY DEF Idle
    <3> HIDE DEF n
    <3> QED BY <1>4, <3>2, <3>3
  <2>3. CASE LockTransfer(w)
    <3>1. PICK t \in Transfers, kind \in {"dispatch", "receive", "reject", "cancel"} :
            LockTransfer(w)!(t, kind)
      BY <2>3 DEF LockTransfer
    <3> DEFINE step == IF kind = "cancel" THEN "ready" ELSE "held"
               amount == transfer[t].amount
               n == [Idle EXCEPT !.kind = kind, !.step = step, !.transfer = t, !.amount = amount]
    <3>2. task' = [task EXCEPT ![w] = n]
      BY <3>1
    <3> HIDE DEF step, amount
    <3>3. n.kind \notin {"movement", "close"}
      BY DEF Idle
    <3> HIDE DEF n
    <3> QED BY <1>4, <3>2, <3>3
  <2>4. CASE LockRegister(w)
    <3>1. PICK r \in Registers, on \in BOOLEAN : LockRegister(w)!(r, on)
      BY <2>4 DEF LockRegister
    <3> DEFINE n == [Idle EXCEPT !.kind = "toggle", !.step = "ready", !.register = r, !.default = on]
    <3>2. task' = [task EXCEPT ![w] = n]
      BY <3>1
    <3>3. n.kind \notin {"movement", "close"}
      BY DEF Idle
    <3> HIDE DEF n
    <3> QED BY <1>4, <3>2, <3>3
  <2>5. CASE LockBranch(w)
    <3>1. PICK r \in Registers, default \in BOOLEAN : LockBranch(w)!(r, default)
      BY <2>5 DEF LockBranch
    <3> DEFINE n == [Idle EXCEPT !.kind = "register", !.step = "ready", !.register = r,
                             !.default = default]
    <3>2. task' = [task EXCEPT ![w] = n]
      BY <3>1
    <3>3. n.kind \notin {"movement", "close"}
      BY DEF Idle
    <3> HIDE DEF n
    <3> QED BY <1>4, <3>2, <3>3
  <2> QED BY <1>6, <2>1, <2>2, <2>3, <2>4, <2>5
<1>7. ASSUME NEW w \in Workers, PickRegister(w) \/ LockTarget(w) \/ LockDrawer(w)
      PROVE  SameCheck(v) \/ ~Checking(v)'
  <2>1. task[w].kind \notin {"movement", "close"}
    BY <1>7 DEF PickRegister, LockTarget, LockDrawer
  <2>2. task'[w].kind = task[w].kind /\ (w # v => task'[v] = task[v])
    <3>1. task[w] \in Task
      BY <1>1
    <3>2. CASE PickDefault(w)
      <4>1. PICK r : task' = [task EXCEPT ![w].register = r, ![w].step = "ready"]
        BY <3>2 DEF PickDefault
      <4> QED BY <1>1, <3>1, <4>1 DEF Task
    <3>3. CASE PickNamed(w)
      BY <1>1, <3>1, <3>3 DEF PickNamed, Task
    <3>4. CASE LockDrawer(w)
      <4>1. PICK s : task' = [task EXCEPT ![w].step = "ready", ![w].session = s]
        BY <3>4 DEF LockDrawer
      <4> QED BY <1>1, <3>1, <4>1 DEF Task
    <3>5. CASE LockTarget(w)
      BY <1>1, <3>1, <3>5 DEF LockTarget, Task
    <3> QED BY <1>7, <3>2, <3>3, <3>4, <3>5 DEF PickRegister
  <2> QED BY <2>1, <2>2 DEF SameCheck, Checking
<1>8. ASSUME NEW w \in Workers, LockSession(w), w # v PROVE SameCheck(v)
  BY <1>1, <1>8 DEF LockSession, SameCheck
<1>9. ASSUME NEW s \in Sessions, ChangeSale(s) PROVE SameCheck(v)
  <2>1. task'[v] = [task[v] EXCEPT !.clean = @ /\ lock[s] # v]
    BY <1>9, Zenon DEF ChangeSale
  <2> QED BY <1>1, <2>1 DEF SameCheck, Task
<1>10. CASE UNCHANGED vars
  BY <1>10 DEF vars, SameCheck
<1> QED BY <1>2, <1>3, <1>5, <1>6, <1>7, <1>8, <1>9, <1>10 DEF Next

\* The lock of a session keeps its row from changing under its holder.
LEMMA LockKeepsSession ==
  ASSUME CashInv, [Next]_vars, NEW v \in Workers, NEW s \in Sessions, lock[s] = v,
         session[s].status # "none"
  PROVE  session'[s] = session[s] \/ CommitClose(v) \/ CommitVoid(v)
<1>1. CashTypeOK
  BY DEF CashInv
<1>2. ASSUME NEW w \in Workers, CommitOpen(w) PROVE session'[s] = session[s]
  <2>1. PICK x \in Sessions :
          session[x].status = "none" /\ \E row : session' = [session EXCEPT ![x] = row]
    BY <1>2 DEF CommitOpen
  <2> QED BY <1>1, <2>1 DEF CashTypeOK
<1>3. ASSUME NEW w \in Workers, CommitClose(w) \/ CommitVoid(w), session'[s] # session[s]
      PROVE  CommitClose(v) \/ CommitVoid(v)
  <2>1. lock[task[w].session] = w
    BY <1>3 DEF CashInv, TasksMatch, Holds, CommitClose, CommitVoid, Ready
  <2>2. s = task[w].session
    BY <1>1, <1>3 DEF CommitClose, CommitVoid, CashTypeOK
  <2> QED BY <1>3, <2>1, <2>2
<1> QED BY <1>2, <1>3, WhoEndsSessions

LEMMA FreshStep == FreshInv /\ [Next]_vars => FreshInv'
<1> SUFFICES ASSUME FreshInv, [Next]_vars PROVE FreshInv'
  OBVIOUS
<1>1. CashInv /\ CashInv' /\ CashTypeOK
  BY CashInvStep DEF FreshInv, CashInv
<1>2. ASSUME NEW v \in Workers, Checking(v)', ~task'[v].stale
      PROVE  session'[task'[v].session].status = "abierta"
  <2>1. CASE LockSession(v)
    <3>1. UNCHANGED session /\ task'[v].kind = task[v].kind /\ task'[v].stale = task[v].stale
          /\ task'[v].session = task[v].session
      BY <1>1, <2>1 DEF LockSession, data, CashTypeOK, Task
    <3>2. session[task[v].session].status = "abierta"
      BY <1>2, <2>1, <3>1 DEF LockSession, StatusSeen, Checking
    <3> QED BY <3>1, <3>2 DEF Open
  <2>2. CASE SameCheck(v)
    <3>1. Checking(v) /\ Open(task[v].session)
      BY <1>2, <2>2 DEF FreshInv, SeesOpen, SameCheck, Checking
    <3>2. task[v].session \in Sessions /\ lock[task[v].session] = v
      BY <1>1, <3>1 DEF CashInv, TasksMatch, Refers, Holds, Checking
    <3>3. ~CommitClose(v) /\ ~CommitVoid(v)
      <4>1. CommitClose(v) \/ CommitVoid(v) => task'[v] = Idle
        BY <1>1 DEF CommitClose, CommitVoid, End, CashTypeOK
      <4> QED BY <2>2, <3>1, <4>1, IdleFields DEF SameCheck, Checking
    <3>4. session'[task[v].session] = session[task[v].session]
      BY <1>1, <3>1, <3>2, <3>3, LockKeepsSession DEF Open
    <3> QED BY <2>2, <3>1, <3>4 DEF Open, SameCheck
  <2> QED BY <1>1, <1>2, <2>1, <2>2, WhoChecks
<1> QED BY <1>1, <1>2 DEF FreshInv, SeesOpen, Open

LEMMA FreshInvariant == Spec => []FreshInv
<1>1. Init => FreshInv
  BY InitKeepsInv, IdleFields DEF Init, FreshInv, SeesOpen, Checking
<1> QED BY <1>1, FreshStep, PTL DEF Spec

LEMMA ClosingKept ==
  ASSUME FreshInv, [Next]_vars, NEW s \in Sessions, session[s].status = "cerrada",
         \A w \in Workers : ~LoadedEarly(w, s)
  PROVE  KeepsClosing(s)
<1>1. CashInv /\ CashTypeOK
  BY DEF FreshInv, CashInv
<1>2. ASSUME NEW w \in Workers, CommitMovement(w) \/ CommitClose(w) PROVE task[w].session # s
  <2>1. Checking(w) /\ lock[task[w].session] = w
    BY <1>1, <1>2 DEF CommitMovement, CommitClose, Ready, Checking, CashInv, TasksMatch, Holds
  <2>2. task[w].stale \/ Open(task[w].session)
    BY <2>1 DEF FreshInv, SeesOpen
  <2> QED BY <2>1, <2>2 DEF LoadedEarly, Open
<1>3. session'[s] \in {session[s], [session[s] EXCEPT !.status = "anulada"]}
  <2>1. ASSUME NEW w \in Workers, CommitOpen(w) PROVE session'[s] = session[s]
    <3>1. PICK x \in Sessions :
            session[x].status = "none" /\ \E row : session' = [session EXCEPT ![x] = row]
      BY <2>1 DEF CommitOpen
    <3> QED BY <1>1, <3>1 DEF CashTypeOK
  <2>2. ASSUME NEW w \in Workers, CommitClose(w) PROVE session'[s] = session[s]
    BY <1>1, <1>2, <2>2 DEF CommitClose, CashTypeOK
  <2>3. ASSUME NEW w \in Workers, CommitVoid(w)
        PROVE  session'[s] \in {session[s], [session[s] EXCEPT !.status = "anulada"]}
    BY <1>1, <2>3 DEF CommitVoid, CashTypeOK
  <2> QED BY <2>1, <2>2, <2>3, WhoEndsSessions
<1>4. /\ till'[s].sold = till[s].sold
      /\ \A t \in Transfers : s \notin (sent'[t] \ sent[t]) \cup (landed'[t] \ landed[t])
  BY <1>1, DrawersMoveOpen DEF Open
<1>5. till'[s].manual = till[s].manual
      /\ \A t \in Transfers : (s \in sent[t] => s \in sent'[t]) /\ (s \in landed[t] => s \in landed'[t])
  <2>1. ASSUME NEW w \in Workers, CommitMovement(w) PROVE till'[s] = till[s]
    BY <1>1, <1>2, <2>1 DEF CommitMovement, CashTypeOK
  <2>2. ASSUME NEW w \in Workers, CommitSale(w) PROVE till'[s].manual = till[s].manual
    BY <1>1, <2>2 DEF CommitSale, CashTypeOK
  <2>3. ASSUME NEW x \in Sessions, ChangeSale(x) PROVE till'[s].manual = till[s].manual
    BY <1>1, <2>3 DEF ChangeSale, CashTypeOK
  <2>4. ASSUME NEW w \in Workers, CommitDispatch(w)
        PROVE  \A t \in Transfers : sent[t] \subseteq sent'[t]
    BY <1>1, <2>4 DEF CommitDispatch, CashTypeOK
  <2>5. ASSUME NEW w \in Workers, CommitLanding(w)
        PROVE  \A t \in Transfers : landed[t] \subseteq landed'[t]
    BY <1>1, <2>5 DEF CommitLanding, CashTypeOK
  <2> QED BY <2>1, <2>2, <2>3, <2>4, <2>5, WhoMovesCash
       DEF CommitMovement, CommitSale, ChangeSale, CommitDispatch, CommitLanding
<1> QED BY <1>3, <1>4, <1>5 DEF KeepsClosing

\* A closed session keeps its closing and gets no movement, sale or transfer, unless a
\* movement or a closing is committed by a request that had loaded the session before it was
\* closed: the race of the run cash_closed is the only way. (A change of one of its sales may
\* still rewrite the cash of that sale, see ChangeSale; the closing itself stays.)
THEOREM OnlyEarlyPagesReachClosings == Spec => OnlyEarlyPagesTouchClosings
<1>1. FreshInv /\ [Next]_vars =>
        [\A s \in Sessions : session[s].status = "cerrada" =>
           KeepsClosing(s) \/ \E w \in Workers : LoadedEarly(w, s)]_vars
  BY ClosingKept
<1> QED BY <1>1, FreshInvariant, PTL DEF Spec, OnlyEarlyPagesTouchClosings
================================================================================
