------------------------------- MODULE CashRows -------------------------------
(***************************************************************************)
(* The rows of cash.py and cash_treasury.py: cash sessions, the money in   *)
(* them, physical registers and transfers of cash between branches.        *)
(***************************************************************************)
EXTENDS Integers, FiniteSets, Functions

CONSTANTS
  Branches, Registers,
  BranchOf,      \* the branch each register stands in
  Defaults,      \* the registers that exist at the start, one per branch
  Users,
  Sessions,      \* rows the cash_sessions table can hold in this instance
  Transfers,     \* rows the cash_transfers table can hold
  Nobody,        \* the NULL of a reference
  Amounts,       \* sums of money a form may carry
  MaxCash        \* bound of exploration: sums and numbers of sales

ASSUME RegistersAssumption == BranchOf \in [Registers -> Branches] /\ Defaults \subseteq Registers
ASSUME DefaultsAssumption  == \A r1, r2 \in Defaults : BranchOf[r1] = BranchOf[r2] => r1 = r2
ASSUME TransfersAssumption == IsFiniteSet(Transfers)
ASSUME AmountsAssumption   == Amounts \subseteq Nat \ {0} /\ MaxCash \in Nat

VARIABLES
  session,   \* cash_sessions rows
  till,      \* per session: cash sales linked to it, their cash, manual movements
  register,  \* cash_registers rows
  transfer,  \* cash_transfers rows
  sent,      \* sessions with a "retiro" movement of a transfer
  landed     \* sessions with an "ingreso" movement of a transfer

data == <<session, till, register, transfer, sent, landed>>

NoSession == [status |-> "none", user |-> Nobody, register |-> Nobody,
              opening |-> 0, expected |-> 0, counted |-> 0]

Empty == [sold |-> 0, takings |-> 0, manual |-> 0]

NoTransfer == [status |-> "none", source |-> Nobody, target |-> Nobody, amount |-> 0]

Open(s) == session[s].status = "abierta"

Occupied(r) == \E s \in Sessions : Open(s) /\ session[s].register = r

Moved(rows, s) ==
  SumFunction([t \in {x \in Transfers : s \in rows[x]} |-> transfer[t].amount])

\* What a session should hold, apart from the cash of its sales.
BesidesSales(s) ==
  session[s].opening + till[s].manual + Moved(landed, s) - Moved(sent, s)

\* _session_summary(s)["expected"]
Expected(s) == BesidesSales(s) + till[s].takings

\* Before the first request: one default register per branch, nothing else.
NoRows ==
  /\ session  = [s \in Sessions |-> NoSession]
  /\ till     = [s \in Sessions |-> Empty]
  /\ register = [r \in Registers |->
                  [state |-> IF r \in Defaults THEN "active" ELSE "none", default |-> r \in Defaults]]
  /\ transfer = [t \in Transfers |-> NoTransfer]
  /\ sent     = [t \in Transfers |-> {}]
  /\ landed   = [t \in Transfers |-> {}]
================================================================================
