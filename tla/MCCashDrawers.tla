----------------------------- MODULE MCCashDrawers -----------------------------
(* Two shops: "centro" with one register and room for a second, "norte" with one. *)
(* The scope keeps to one of four stories at a time: two users and two registers  *)
(* of one shop; one drawer and its money; cash sent between the shops; a transfer *)
(* asked for while its register and the sales of its drawer change.               *)
EXTENDS CashDrawers, TLC

CONSTANTS centro, norte, r1, r2, r3, ana, beto, c1, c2, t1, t2, w1, w2

OneBranch     == {centro}
TwoBranches   == {centro, norte}
OneRegister   == {r1}
OnlyRegister  == r1 :> centro
TwoShops      == r1 :> centro @@ r2 :> centro @@ r3 :> norte
AllRegisters  == {r1, r2, r3}
FirstOfEach   == {r1, r3}
OnlyAna       == {ana}
AnaAndBeto    == {ana, beto}
TwoSessions   == {c1, c2}
NoTransfers   == {}
TwoTransfers  == {t1, t2}
TwoWorkers    == {w1, w2}
OneUnit       == {1}

ShiftWork    == {"open", "reopen", "close", "toggle", "register"}
DrawerWork   == {"open", "reopen", "close", "void", "movement", "sale", "change"}
TransferWork == {"open", "close", "create", "dispatch", "receive", "reject", "cancel"}
ShopWork     == ShiftWork \cup DrawerWork \cup TransferWork
CloseWork    == {"open", "close", "movement"}

KindsIn(kinds)    == \A w \in Workers : task[w].kind \in kinds \cup {"idle"}
Within(users, rs) == /\ \A w \in Workers : task[w].user \in users \cup {Nobody}
                                           /\ task[w].register \in rs \cup {Nobody}
                     /\ \A s \in Sessions : session[s].user \in users \cup {Nobody}
                                            /\ session[s].register \in rs \cup {Nobody}
NoTransferYet     == \A t \in Transfers : transfer[t].status = "none"
NoTakings         == \A s \in Sessions : till[s] = Empty /\ session[s].status # "anulada"
Penniless         == \A s \in Sessions : session[s].opening = 0 /\ session[s].counted = 0

\* Two users open, reopen and close sessions on two registers, without money.
InShift ==
  /\ NoTransferYet /\ NoTakings /\ Penniless
  /\ KindsIn(ShiftWork) /\ Within(Users, {r1, r2}) /\ \A w \in Workers : task[w].amount = 0

\* One drawer with its money, in everything a shop does with it.
InDrawer ==
  /\ NoTransferYet /\ register[r2].state = "none"
  /\ KindsIn(DrawerWork) /\ Within({ana}, {r1})
  /\ Cardinality({s \in Sessions : session[s].status # "none"}) <= 1

\* Two shops send each other cash while their sessions close and open.
InTransit ==
  /\ register[r2].state = "none" /\ NoTakings
  /\ \A s \in Sessions : session[s].counted = 0 /\ (session[s].register = r3 => session[s].opening = 0)
  /\ KindsIn(TransferWork) /\ Within({ana}, {r1, r3})

\* A transfer to a register that is created, made default and switched off while it is
\* asked, and from a drawer whose sales change.
AskWork == {"open", "sale", "create", "register", "toggle"}

InAsking ==
  /\ KindsIn(AskWork) /\ Within({ana}, {r2, r3})
  /\ \A s \in Sessions : session[s].status \in {"none", "abierta"} /\ till[s].manual = 0
                        /\ session[s].register \in {r3, Nobody}
  /\ \A t \in Transfers : transfer[t].status \in {"none", "pendiente"}
  /\ Cardinality({t \in Transfers : transfer[t].status # "none"}) <= 1

InScope == InShift \/ InDrawer \/ InTransit \/ InAsking

\* Sessions, transfers and workers are interchangeable: no definition names one.
RowSymmetry ==
  Permutations(TwoWorkers) \cup Permutations(TwoSessions) \cup Permutations(TwoTransfers)
================================================================================
