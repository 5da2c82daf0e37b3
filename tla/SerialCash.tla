------------------------------- MODULE SerialCash -------------------------------
(***************************************************************************)
(* What the cash pages promise: every request is served whole, on the rows *)
(* as the one before has left them, and checks and uses what they say at   *)
(* that moment.  Three exceptions are spelled out.  A movement or a        *)
(* closing whose page was loaded while the session was open is also served *)
(* after it ended (Late).  The cash of the sales of a session may be       *)
(* counted as it was before the last of them were changed (Readings).  And *)
(* the register a new transfer goes to may just have been switched off.    *)
(***************************************************************************)
EXTENDS CashRows

CONSTANT SalesChange   \* sales of a session are edited and annulled

Known(s) == session[s].status # "none"
Late(s)  == session[s].status \in {"cerrada", "anulada"}

\* What a handler may take for the expected cash of s.
Readings(s) ==
  {Expected(s)} \cup {BesidesSales(s) + c : c \in IF SalesChange THEN 0..MaxCash ELSE {}}

HasDefault(b) == \E r \in Registers : BranchOf[r] = b /\ register[r].default

InsertSession(s, u, r, opening) ==
  /\ ~Known(s) /\ ~Occupied(r)
  /\ session' = [session EXCEPT ![s] = [status |-> "abierta", user |-> u, register |-> r,
                                        opening |-> opening, expected |-> opening, counted |-> 0]]

\* On a register in use, or on a first one of the branch, which is created.
OpenSession(s, u, r, opening) ==
  /\ InsertSession(s, u, r, opening)
  /\ \/ register[r].state = "active" /\ register' = register
     \/ /\ register[r].state = "none" /\ ~HasDefault(BranchOf[r])
        /\ register' = [register EXCEPT ![r] = [state |-> "active", default |-> TRUE]]
  /\ UNCHANGED <<till, transfer, sent, landed>>

\* A new session on the register of a closed one, with what was counted there.
ReopenSession(s, old, u) ==
  /\ session[old].status = "cerrada"
  /\ register[session[old].register].state = "active"
  /\ InsertSession(s, u, session[old].register, session[old].counted)
  /\ UNCHANGED <<till, register, transfer, sent, landed>>

MoveCash(s, amount) ==
  /\ Open(s) \/ Late(s)
  /\ till' = [till EXCEPT ![s].manual = @ + amount]
  /\ UNCHANGED <<session, register, transfer, sent, landed>>

CloseAs(s, expected, counted) ==
  /\ session' = [session EXCEPT ![s].status = "cerrada", ![s].expected = expected,
                                ![s].counted = counted]
  /\ UNCHANGED <<till, register, transfer, sent, landed>>

CloseSession(s, counted) ==
  \/ Open(s) /\ \E expected \in Readings(s) : CloseAs(s, expected, counted)
  \/ Late(s) /\ \E expected \in Readings(s) \cup {session[s].expected} :
                  CloseAs(s, expected, counted)

VoidSession(s) ==
  /\ Known(s)
  /\ session' = [session EXCEPT ![s].status = "anulada"]
  /\ UNCHANGED <<till, register, transfer, sent, landed>>

Sell(s, amount) ==
  /\ Open(s)
  /\ till' = [till EXCEPT ![s].sold = @ + 1, ![s].takings = @ + amount]
  /\ UNCHANGED <<session, register, transfer, sent, landed>>

ChangeSale(s, takings) ==
  /\ SalesChange /\ till[s].sold > 0
  /\ till' = [till EXCEPT ![s].takings = takings]
  /\ UNCHANGED <<session, register, transfer, sent, landed>>

--------------------------------------------------------------------------------
\* The drawers of two branches, of which the first has the cash.
AskTransfer(t, s, target, amount) ==
  /\ transfer[t].status = "none"
  /\ Open(s) /\ \E expected \in Readings(s) : amount <= expected
  /\ register[session[s].register].state = "active" /\ register[target].state # "none"
  /\ BranchOf[target] # BranchOf[session[s].register]
  /\ transfer' = [transfer EXCEPT ![t] =
       [status |-> "pendiente", source |-> s, target |-> target, amount |-> amount]]
  /\ UNCHANGED <<session, till, register, sent, landed>>

Settle(t, from, to) ==
  /\ transfer[t].status = from
  /\ transfer' = [transfer EXCEPT ![t].status = to]
  /\ UNCHANGED <<session, till, register>>

\* The cash leaves the drawer it was asked from.
Dispatch(t) ==
  LET s == transfer[t].source IN
  /\ Settle(t, "pendiente", "en_transito")
  /\ Open(s) /\ \E expected \in Readings(s) : transfer[t].amount <= expected
  /\ sent[t] = {} /\ sent' = [sent EXCEPT ![t] = {s}]
  /\ UNCHANGED landed

\* It enters a drawer that is open on the target register, or again on the source.
Land(t, s, r, status) ==
  /\ Settle(t, "en_transito", status)
  /\ Open(s) /\ session[s].register = r
  /\ landed[t] = {} /\ landed' = [landed EXCEPT ![t] = {s}]
  /\ UNCHANGED sent

Receive(t, s)    == Land(t, s, transfer[t].target, "recibida")
Return(t, s)     == Land(t, s, session[transfer[t].source].register, "rechazada")
CancelTransfer(t) == Settle(t, "pendiente", "cancelada") /\ UNCHANGED <<sent, landed>>

--------------------------------------------------------------------------------
\* Neither the default register nor one with an open session is switched off.
SwitchRegister(r, on) ==
  /\ register[r].state # "none"
  /\ ~on => ~register[r].default /\ ~Occupied(r)
  /\ register' = [register EXCEPT ![r].state = IF on THEN "active" ELSE "inactive"]
  /\ UNCHANGED <<session, till, transfer, sent, landed>>

\* A new default register takes the flag from the old one.
CreateRegister(r, default) ==
  /\ register[r].state = "none"
  /\ register' = [x \in Registers |->
       IF x = r THEN [state |-> "active", default |-> default]
       ELSE IF default /\ BranchOf[x] = BranchOf[r] THEN [register[x] EXCEPT !.default = FALSE]
       ELSE register[x]]
  /\ UNCHANGED <<session, till, transfer, sent, landed>>

Next ==
  \/ \E s \in Sessions :
       \/ \E u \in Users, r \in Registers, opening \in Amounts \cup {0} : OpenSession(s, u, r, opening)
       \/ \E u \in Users, old \in Sessions : ReopenSession(s, old, u)
       \/ \E amount \in Amounts \cup {-a : a \in Amounts} : MoveCash(s, amount)
       \/ \E counted \in 0..MaxCash : CloseSession(s, counted)
       \/ VoidSession(s)
       \/ \E amount \in Amounts \cup {0} : Sell(s, amount)
       \/ \E takings \in 0..MaxCash : ChangeSale(s, takings)
  \/ \E t \in Transfers :
       \/ \E s \in Sessions, target \in Registers, amount \in Amounts : AskTransfer(t, s, target, amount)
       \/ Dispatch(t) \/ CancelTransfer(t)
       \/ \E s \in Sessions : Receive(t, s) \/ Return(t, s)
  \/ \E r \in Registers, flag \in BOOLEAN : SwitchRegister(r, flag) \/ CreateRegister(r, flag)

Spec == NoRows /\ [][Next]_data
================================================================================
