------------------------------ MODULE CashDrawers ------------------------------
(***************************************************************************)
(* Cash sessions (cash.py), physical registers and the transfers of cash   *)
(* between branches (cash_treasury.py), with the checkouts that pay into a *)
(* session (sales.py, services/sales/sale_service.py).                     *)
(*                                                                         *)
(* Handlers take row locks one after another and commit once.  A row that  *)
(* is first read by SELECT ... FOR UPDATE is read as it is when the lock   *)
(* is granted.  The cash page is different: it has loaded the open session *)
(* of its user before it locks it, and the lock does not refresh that copy.*)
(***************************************************************************)
EXTENDS CashRows

CONSTANTS
  Admins,
  Workers,       \* request threads; Nobody also stands for no worker
  Workload       \* the handlers this instance exercises

ASSUME AdminsAssumption == Admins \subseteq Users
ASSUME NobodyAssumption == Nobody \notin Workers \cup Sessions \cup Transfers \cup Registers \cup Users

VARIABLES
  lock,      \* who holds the FOR UPDATE lock of each row
  task       \* the handler each worker runs

vars == <<data, lock, task>>

--------------------------------------------------------------------------------
Rows == Sessions \cup Transfers \cup Registers \cup Branches

\* step: "asked" before any lock, "held" with one more row to lock, "ready" with
\* only the commit left.  stale: the session was loaded before it was locked.
\* read: _session_summary(...)["expected"] under the lock; clean: no sale of the
\* session was changed since.
Idle == [kind |-> "idle", step |-> "asked", user |-> Nobody, session |-> Nobody,
         stale |-> FALSE, register |-> Nobody, default |-> FALSE, transfer |-> Nobody,
         amount |-> 0, read |-> 0, clean |-> TRUE]

\* _current_open_session: an open session of the user in branch b.
Own(u, b) == {s \in Sessions : Open(s) /\ session[s].user = u /\ BranchOf[session[s].register] = b}

\* A row lock is granted to one transaction at a time.
RowLockIgnored(x) == TRUE
RowIsFree(x)      == lock[x] = Nobody

Take(w, x) == RowIsFree(x) /\ lock' = [lock EXCEPT ![x] = w]

\* Commit and rollback release every row lock of the transaction.
LocksForgotten(w) == [x \in {y \in Rows : lock[y] # w} |-> lock[x]]
LocksFreed(w)     == [x \in Rows |-> IF lock[x] = w THEN Nobody ELSE lock[x]]

End(w) ==
  /\ lock' = LocksFreed(w)
  /\ task' = [task EXCEPT ![w] = Idle]

Ask(w, kind) == kind \in Workload /\ task[w].kind = "idle"
Ready(w, kinds) == task[w].kind \in kinds /\ task[w].step = "ready"

Init ==
  /\ NoRows
  /\ lock = [x \in Rows |-> Nobody]
  /\ task = [w \in Workers |-> Idle]

--------------------------------------------------------------------------------
\* "open": the check for a session of one's own is made without a lock.  The
\* form names a register or leaves the default one of the branch of r.
AskOpen(w) ==
  \E u \in Users, r \in Registers, default \in BOOLEAN, amount \in Amounts \cup {0} :
    /\ Ask(w, "open")
    /\ Own(u, BranchOf[r]) = {}
    /\ task' = [task EXCEPT ![w] = [Idle EXCEPT !.kind = "open", !.user = u, !.register = r,
                                      !.default = default, !.amount = amount]]
    /\ UNCHANGED <<data, lock>>

\* ensure_default_cash_register: the active default register of the branch, or a
\* new row when there is none.
DefaultsOf(b) ==
  LET Of(state, default) ==
        {r \in Registers : BranchOf[r] = b /\ register[r] = [state |-> state, default |-> default]}
  IN IF Of("active", TRUE) # {} THEN Of("active", TRUE) ELSE Of("none", FALSE)

PickDefault(w) ==
  LET b == BranchOf[task[w].register] IN
  /\ task[w].default
  /\ Take(w, b)
  /\ \E r \in DefaultsOf(b) :
       /\ ~Occupied(r)
       /\ task' = [task EXCEPT ![w].register = r, ![w].step = "ready"]

PickNamed(w) ==
  /\ ~task[w].default
  /\ register[task[w].register].state = "active"
  /\ Take(w, task[w].register)
  /\ ~Occupied(task[w].register)
  /\ task' = [task EXCEPT ![w].step = "ready"]

\* The register of a session to be opened: the default one under the lock of its
\* branch, a named one under its own lock; either must have no open session.
PickRegister(w) ==
  /\ \/ task[w].kind = "open" /\ task[w].step = "asked"
     \/ task[w].kind = "reopen" /\ task[w].step = "held"
  /\ PickDefault(w) \/ PickNamed(w)
  /\ UNCHANGED data

\* uq_cash_sessions_open_register
IndexDropped(r) == TRUE
IndexAdmits(r)  == ~Occupied(r)

\* The insert of "open", and of "reopen", whose opening is what the closed
\* session was left with.
CommitOpen(w) ==
  LET r == task[w].register
      opening == IF task[w].kind = "open" THEN task[w].amount ELSE session[task[w].session].counted
  IN
  /\ Ready(w, {"open", "reopen"})
  /\ IndexAdmits(r)
  /\ \E s \in Sessions :
       /\ session[s].status = "none"
       /\ session' = [session EXCEPT ![s] =
            [status |-> "abierta", user |-> task[w].user, register |-> r,
             opening |-> opening, expected |-> opening, counted |-> 0]]
  /\ register' = [register EXCEPT ![r] =
                   IF @.state = "none" THEN [state |-> "active", default |-> TRUE] ELSE @]
  /\ End(w)
  /\ UNCHANGED <<till, transfer, sent, landed>>

--------------------------------------------------------------------------------
\* "movement", "close", "void" and "reopen" of a session.  The page has loaded
\* an open session of its user, without a lock, before it locks the target.
AskSession(w) ==
  \E kind \in {"movement", "close", "void", "reopen"}, u \in Users, s \in Sessions :
    LET own == Own(u, BranchOf[session[s].register]) IN
    /\ Ask(w, kind)
    /\ session[s].status # "none"
    /\ u \in Admins \/ (session[s].user = u /\ kind \in {"movement", "close"})
    /\ \E loaded \in IF own = {} THEN {Nobody} ELSE own,
          amount \in IF kind = "movement" THEN Amounts \cup {-a : a \in Amounts} ELSE {0} :
         task' = [task EXCEPT ![w] =
           [Idle EXCEPT !.kind = kind, !.user = u, !.session = s, !.stale = (loaded = s),
                        !.register = session[s].register, !.amount = amount]]
    /\ UNCHANGED <<data, lock>>

\* The status the handler checks: the identity map answers with the copy loaded
\* before the lock when the target is the open session of the user.
StatusSeen(w) ==
  IF task[w].stale THEN "abierta" ELSE session[task[w].session].status

\* A movement and a closing need an open session, a reopening a closed one.
LockSession(w) ==
  LET kind == task[w].kind IN
  /\ task[w].step = "asked" /\ kind \in {"movement", "close", "void", "reopen"}
  /\ Take(w, task[w].session)
  /\ kind \in {"movement", "close"} => StatusSeen(w) = "abierta"
  /\ kind = "reopen" => StatusSeen(w) = "cerrada"
  /\ task' = [task EXCEPT ![w].step = IF kind = "reopen" THEN "held" ELSE "ready",
                          ![w].read = IF kind = "close" THEN Expected(task[w].session) ELSE 0]
  /\ UNCHANGED data

CommitMovement(w) ==
  LET s == task[w].session IN
  /\ Ready(w, {"movement"})
  /\ till[s].manual + task[w].amount \in -MaxCash..MaxCash
  /\ till' = [till EXCEPT ![s].manual = @ + task[w].amount]
  /\ End(w)
  /\ UNCHANGED <<session, register, transfer, sent, landed>>

\* The closing snapshot: the expected cash read under the lock, the cash counted.
\* The UPDATE leaves out a column set to the value it was loaded with, and an
\* open session is loaded with its opening as the expected cash.
CommitClose(w) ==
  LET s         == task[w].session
      unchanged == task[w].stale /\ task[w].read = session[s].opening
  IN
  /\ Ready(w, {"close"})
  /\ \E counted \in 0..MaxCash :
       session' = [session EXCEPT ![s].status = "cerrada", ![s].counted = counted,
                                  ![s].expected = IF unchanged THEN @ ELSE task[w].read]
  /\ End(w)
  /\ UNCHANGED <<till, register, transfer, sent, landed>>

\* "void" checks no status.
CommitVoid(w) ==
  /\ Ready(w, {"void"})
  /\ session' = [session EXCEPT ![task[w].session].status = "anulada"]
  /\ End(w)
  /\ UNCHANGED <<till, register, transfer, sent, landed>>

--------------------------------------------------------------------------------
\* A checkout locks the seller's open session before anything else.  It reads the
\* row for the first time, so the status is the one at the grant of the lock.
TakeOpenSession(w) ==
  \E s \in Sessions, amount \in Amounts \cup {0} :
    /\ Ask(w, "sale")
    /\ Open(s)
    /\ Take(w, s)
    /\ task' = [task EXCEPT ![w] = [Idle EXCEPT !.kind = "sale", !.step = "ready",
                                      !.session = s, !.amount = amount]]
    /\ UNCHANGED data

\* The sale is linked to the session; its cash part, if any, goes into the drawer.
CommitSale(w) ==
  LET s == task[w].session IN
  /\ Ready(w, {"sale"})
  /\ till[s].sold < MaxCash /\ till[s].takings + task[w].amount <= MaxCash
  /\ till' = [till EXCEPT ![s].sold = @ + 1, ![s].takings = @ + task[w].amount]
  /\ End(w)
  /\ UNCHANGED <<session, register, transfer, sent, landed>>

\* An edit or an annulment of a sale of the session rewrites its cash without
\* taking the lock of that session, open or not.
ChangeSale(s) ==
  /\ "change" \in Workload
  /\ till[s].sold > 0
  /\ \E takings \in 0..MaxCash : till' = [till EXCEPT ![s].takings = takings]
  /\ task' = [w \in Workers |-> [task[w] EXCEPT !.clean = @ /\ lock[s] # w]]
  /\ UNCHANGED <<session, register, transfer, sent, landed, lock>>

--------------------------------------------------------------------------------
\* create_transfer: the open source session is locked, its register is active.
TakeSource(w) ==
  \E s \in Sessions, target \in Registers, amount \in Amounts :
    /\ Ask(w, "create")
    /\ Open(s)
    /\ Take(w, s)
    /\ register[session[s].register].state = "active"
    /\ task' = [task EXCEPT ![w] =
         [Idle EXCEPT !.kind = "create", !.step = "held", !.session = s,
                      !.register = target, !.amount = amount]]
    /\ UNCHANGED data

\* Then the target branch is.  The target register, of another branch, and the cash of
\* the drawer are read here, and nothing keeps them as they are until the commit: the
\* register has a lock of its own, a sale changes without any.
LockTarget(w) ==
  LET s == task[w].session
      r == task[w].register
  IN
  /\ task[w].kind = "create" /\ task[w].step = "held"
  /\ Take(w, BranchOf[r])
  /\ register[r].state = "active"
  /\ BranchOf[r] # BranchOf[session[s].register]
  /\ task[w].amount <= Expected(s)
  /\ task' = [task EXCEPT ![w].step = "ready"]
  /\ UNCHANGED data

CommitCreate(w) ==
  /\ Ready(w, {"create"})
  /\ \E t \in Transfers :
       /\ transfer[t].status = "none"
       /\ transfer' = [transfer EXCEPT ![t] =
            [status |-> "pendiente", source |-> task[w].session,
             target |-> task[w].register, amount |-> task[w].amount]]
  /\ End(w)
  /\ UNCHANGED <<session, till, register, sent, landed>>

\* The status each handler of a transfer needs.
Needed(kind) == IF kind \in {"dispatch", "cancel"} THEN "pendiente" ELSE "en_transito"

\* The transfer row is locked first and read for the first time under its lock.
LockTransfer(w) ==
  \E t \in Transfers, kind \in {"dispatch", "receive", "reject", "cancel"} :
    /\ Ask(w, kind)
    /\ Take(w, t)
    /\ transfer[t].status = Needed(kind)
    /\ task' = [task EXCEPT ![w] =
         [Idle EXCEPT !.kind = kind, !.step = IF kind = "cancel" THEN "ready" ELSE "held",
                      !.transfer = t, !.amount = transfer[t].amount]]
    /\ UNCHANGED data

\* The drawer the cash leaves or enters: a dispatch empties the very session the
\* transfer was asked from, a reception and a return go to whichever session is
\* open on the target or the source register.
Drawers(w) ==
  LET x == transfer[task[w].transfer] IN
  CASE task[w].kind = "dispatch" -> {s \in Sessions : s = x.source}
    [] task[w].kind = "receive"  -> {s \in Sessions : session[s].register = x.target}
    [] task[w].kind = "reject"   -> {s \in Sessions : session[s].register = session[x.source].register}
    [] OTHER -> {}

\* "El efectivo disponible ya no alcanza para despachar la transferencia."
CashUnchecked(w, s) == TRUE
CashSuffices(w, s)  == task[w].kind = "dispatch" => task[w].amount <= Expected(s)

LockDrawer(w) ==
  /\ task[w].step = "held" /\ task[w].kind \in {"dispatch", "receive", "reject"}
  /\ \E s \in Drawers(w) :
       /\ Open(s)
       /\ Take(w, s)
       /\ CashSuffices(w, s)
       /\ task' = [task EXCEPT ![w].step = "ready", ![w].session = s]
  /\ UNCHANGED data

\* uq_cash_movements_transfer_type: one "retiro" and one "ingreso" per transfer.
CommitDispatch(w) ==
  LET t == task[w].transfer IN
  /\ Ready(w, {"dispatch"}) /\ sent[t] = {}
  /\ sent' = [sent EXCEPT ![t] = {task[w].session}]
  /\ transfer' = [transfer EXCEPT ![t].status = "en_transito"]
  /\ End(w)
  /\ UNCHANGED <<session, till, register, landed>>

CommitLanding(w) ==
  LET t == task[w].transfer IN
  /\ Ready(w, {"receive", "reject"}) /\ landed[t] = {}
  /\ landed' = [landed EXCEPT ![t] = {task[w].session}]
  /\ transfer' = [transfer EXCEPT ![t].status =
                   IF task[w].kind = "receive" THEN "recibida" ELSE "rechazada"]
  /\ End(w)
  /\ UNCHANGED <<session, till, register, sent>>

CommitCancel(w) ==
  /\ Ready(w, {"cancel"})
  /\ transfer' = [transfer EXCEPT ![task[w].transfer].status = "cancelada"]
  /\ End(w)
  /\ UNCHANGED <<session, till, register, sent, landed>>

--------------------------------------------------------------------------------
\* toggle_register: under the lock of the register, which must not be the default
\* one nor have an open session to be switched off.
LockRegister(w) ==
  \E r \in Registers, on \in BOOLEAN :
    /\ Ask(w, "toggle")
    /\ register[r].state # "none"
    /\ Take(w, r)
    /\ ~on => ~register[r].default /\ ~Occupied(r)
    /\ task' = [task EXCEPT ![w] = [Idle EXCEPT !.kind = "toggle", !.step = "ready",
                                      !.register = r, !.default = on]]
    /\ UNCHANGED data

CommitToggle(w) ==
  /\ Ready(w, {"toggle"})
  /\ register' = [register EXCEPT ![task[w].register].state =
                   IF task[w].default THEN "active" ELSE "inactive"]
  /\ End(w)
  /\ UNCHANGED <<session, till, transfer, sent, landed>>

\* create_register: under the lock of the branch.
LockBranch(w) ==
  \E r \in Registers, default \in BOOLEAN :
    /\ Ask(w, "register")
    /\ Take(w, BranchOf[r])
    /\ task' = [task EXCEPT ![w] = [Idle EXCEPT !.kind = "register", !.step = "ready",
                                      !.register = r, !.default = default]]
    /\ UNCHANGED data

\* A new default register takes the flag from the old one, whose row the UPDATE
\* has to wait for.
CommitRegister(w) ==
  LET r   == task[w].register
      old == {x \in Registers : BranchOf[x] = BranchOf[r] /\ register[x].default}
  IN
  /\ Ready(w, {"register"})
  /\ register[r].state = "none"
  /\ task[w].default => \A x \in old : RowIsFree(x)
  /\ register' = [x \in Registers |->
       IF x = r THEN [state |-> "active", default |-> task[w].default]
       ELSE IF task[w].default /\ x \in old THEN [register[x] EXCEPT !.default = FALSE]
       ELSE register[x]]
  /\ End(w)
  /\ UNCHANGED <<session, till, transfer, sent, landed>>

\* A refused request, an IntegrityError, a deadlock victim or the end of a process.
Abort(w) == task[w].kind # "idle" /\ End(w) /\ UNCHANGED data

Next ==
  \/ \E w \in Workers :
       \/ AskOpen(w) \/ PickRegister(w) \/ CommitOpen(w)
       \/ AskSession(w) \/ LockSession(w)
       \/ CommitMovement(w) \/ CommitClose(w) \/ CommitVoid(w)
       \/ TakeOpenSession(w) \/ CommitSale(w)
       \/ TakeSource(w) \/ LockTarget(w) \/ CommitCreate(w)
       \/ LockTransfer(w) \/ LockDrawer(w)
       \/ CommitDispatch(w) \/ CommitLanding(w) \/ CommitCancel(w)
       \/ LockRegister(w) \/ CommitToggle(w)
       \/ LockBranch(w) \/ CommitRegister(w)
       \/ Abort(w)
  \/ \E s \in Sessions : ChangeSale(s)

Spec == Init /\ [][Next]_vars

--------------------------------------------------------------------------------
SessionRow == [status : {"none", "abierta", "cerrada", "anulada"}, user : Users \cup {Nobody},
               register : Registers \cup {Nobody}, opening : Int, expected : Int, counted : Nat]

TransferRow == [status : {"none", "pendiente", "en_transito", "recibida", "rechazada", "cancelada"},
                source : Sessions \cup {Nobody}, target : Registers \cup {Nobody}, amount : Nat]

Kinds == {"idle", "open", "reopen", "movement", "close", "void", "sale", "create",
          "dispatch", "receive", "reject", "cancel", "toggle", "register"}

Task == [kind : Kinds, step : {"asked", "held", "ready"}, user : Users \cup {Nobody},
         session : Sessions \cup {Nobody}, stale : BOOLEAN,
         register : Registers \cup {Nobody}, default : BOOLEAN,
         transfer : Transfers \cup {Nobody}, amount : Int, read : Int, clean : BOOLEAN]

CashTypeOK ==
  /\ session  \in [Sessions -> SessionRow]
  /\ till     \in [Sessions -> [sold : Nat, takings : Nat, manual : Int]]
  /\ register \in [Registers -> [state : {"none", "active", "inactive"}, default : BOOLEAN]]
  /\ transfer \in [Transfers -> TransferRow]
  /\ sent     \in [Transfers -> SUBSET Sessions]
  /\ landed   \in [Transfers -> SUBSET Sessions]
  /\ lock     \in [Rows -> Workers \cup {Nobody}]
  /\ task     \in [Workers -> Task]

\* A register never has two open sessions, though opening on the default register
\* and opening on a named one take different locks.
OneSessionPerRegister ==
  \A s1, s2 \in Sessions :
    (Open(s1) /\ Open(s2) /\ session[s1].register = session[s2].register) => s1 = s2

\* No session stays open on a register that was switched off, though switching
\* off locks the register, opening on the default one locks the branch, and the
\* default may move to another register meanwhile.
OpenSessionsHaveActiveRegister ==
  \A s \in Sessions : Open(s) => register[session[s].register].state = "active"

\* The cash of a transfer leaves one drawer when it is dispatched and enters
\* exactly one, on the right register, when it is received or rejected; a
\* cancelled one moved nothing.  Whatever handlers of it ran at once, with
\* sessions closing and opening in between.
TransferRowsMatchStatus ==
  \A t \in Transfers :
    LET x == transfer[t] IN
    /\ sent[t] = IF x.status \in {"en_transito", "recibida", "rechazada"} THEN {x.source} ELSE {}
    /\ CASE x.status = "recibida"  -> \E s \in Sessions : landed[t] = {s} /\ session[s].register = x.target
         [] x.status = "rechazada" -> \E s \in Sessions : landed[t] = {s} /\ session[s].register = session[x.source].register
         [] OTHER -> landed[t] = {}

\* A sale is never charged to a drawer, nor does a transfer leave or enter one,
\* that is not open at that very moment.
OnlyOpenDrawersMove ==
  [][\A s \in Sessions :
       (till'[s].sold # till[s].sold
          \/ \E t \in Transfers : s \in (sent'[t] \ sent[t]) \cup (landed'[t] \ landed[t]))
         => Open(s)]_vars

\* The holder of the lock of s computed the expected cash before a sale of s was
\* edited or annulled.
ChangedSinceRead(s) == \E w \in Workers : lock[s] = w /\ ~task[w].clean

\* The expected cash the closing of an open session writes down counts every sale,
\* movement and transfer committed before it, save an edit or annulment that slips
\* in between its reading and its commit.
ClosingCountsEverything ==
  [][\A s \in Sessions :
       (Open(s) /\ session'[s].status = "cerrada")
         => session'[s].expected = Expected(s) \/ ChangedSinceRead(s)]_vars

\* Two dispatches from one drawer cannot both spend its last cash.
DispatchNeverOverdraws ==
  [][\A t \in Transfers : \A s \in sent'[t] \ sent[t] :
       Expected(s) >= transfer[t].amount \/ ChangedSinceRead(s)]_vars

\* A closed session keeps the closing it was given, until it is voided.  This is
\* what the lock of the cash page is there for; the copy loaded before the lock
\* breaks it.
ClosedSessionKeepsItsClosing ==
  [][\A s \in Sessions : session[s].status = "cerrada" =>
       session'[s] \in {session[s], [session[s] EXCEPT !.status = "anulada"]}]_vars

\* Whatever handlers run at once and however their locks interleave, each commit serves one
\* whole request, on the rows as the one before has left them, and every other step changes
\* no row: what SerialCash says, with the three exceptions it spells out.
Serial == INSTANCE SerialCash WITH SalesChange <- ("change" \in Workload)

ServedOneAtATime == Serial!Spec
================================================================================
