---- MODULE MCVendorOrders ----
(***************************************************************************)
(* Two orders of one customer, two payments and two request threads.  The  *)
(* scope keeps to one of three stories at a time: an order alone with      *)
(* everything that can happen to it; an order paid twice; an order that    *)
(* replaces another.                                                       *)
(***************************************************************************)
EXTENDS VendorOrders

CONSTANTS q1, q2, c1, c2, ana, w1, w2

OneQuote   == {q1}
TwoQuotes  == {q1, q2}
OneCharge  == {c1}
TwoCharges == {c1, c2}
OneOwner   == [q \in Quotes |-> ana]
TwoWorkers == {w1, w2}

OnlyKinds(kinds) == \A w \in Workers : job[w].kind \in kinds \cup {"idle"}
OneRow           == \A q \in Quotes : Len(pay[q]) <= 1
Immediate(c)     == charge[c].status # "in_process" /\ <<c, "in_process">> \notin mail \cup events
Undisturbed      == lapsed = {} /\ faults = 0

Alone ==
  /\ quote[q2].status = "none" /\ charge[c2].status = "none"
  /\ OneRow \/ (Undisturbed /\ OnlyKinds({"order", "retry", "notice"}))
  /\ lapsed = {} \/ OnlyKinds({"order", "notice", "expire", "accept"})
  /\ faults = 0 \/ OnlyKinds({"notice"})

PaidTwice ==
  /\ quote[q2].status = "none" /\ Undisturbed
  /\ OnlyKinds({"order", "notice"}) /\ (OneRow \/ OnlyKinds({"notice"}))
  /\ \A c \in Charges : Immediate(c)

Replaced ==
  /\ quote[q1].status # "none" /\ quote[q2].status \in {"none", "ENVIADO"}
  /\ Undisturbed /\ OneRow /\ OnlyKinds({"order", "notice", "accept"})
  /\ charge[c1].quote \in {q1, Nothing} /\ charge[c2].status = "none" /\ Immediate(c1)

InScope == Alone \/ PaidTwice \/ Replaced
====
