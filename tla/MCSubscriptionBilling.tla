------------------------- MODULE MCSubscriptionBilling -------------------------
(***************************************************************************)
(* Three subscriptions of one company, two payments and two workers.  The  *)
(* scope keeps to one of four stories at a time: one plan change and one   *)
(* payment with everything that can happen to them; two plan changes; two  *)
(* payments; one plan change, one payment and prices that change.          *)
(***************************************************************************)
EXTENDS SubscriptionBilling

CONSTANTS c1, c2, w1, w2

TwoCharges == {c1, c2}
TwoWorkers == {w1, w2}

NoChange(n)      == sub[n].status = "none"
OnlyKinds(kinds) == \A w \in Workers : job[w].kind \in kinds \cup {"idle"}
NoCancel         == OnlyKinds({"change", "notice"}) /\ \A r \in Subs : sub[r].meta.closed # "checkout"
Brief            == faults = 0 /\ \A c \in Charges : charge[c].ver <= 2
AtOnce(c)        == charge[c].ver <= 1 /\ charge[c].status \in {"none", "approved"}

OneChange ==
  /\ repriced = {}
  /\ NoChange(3) /\ charge[c2] = NoCharge
  /\ job[w2].kind \in {"idle", "notice"}
  /\ faults = 0 \/ OnlyKinds({"notice"})

TwoChanges ==
  /\ repriced = {}
  /\ charge[c2] = NoCharge
  /\ NoCancel /\ Brief

TwoPayments ==
  /\ repriced = {}
  /\ NoChange(3) /\ job[w2].kind \in {"idle", "notice"}
  /\ NoCancel /\ Brief
  /\ AtOnce(c1) /\ AtOnce(c2)

NewPrices ==
  /\ NoChange(3) /\ charge[c2] = NoCharge
  /\ job[w2].kind \in {"idle", "notice"}
  /\ NoCancel /\ Brief /\ AtOnce(c1)
  /\ Cardinality(repriced) <= 1

InScope == OneChange \/ TwoChanges \/ TwoPayments \/ NewPrices
================================================================================
