---------------------------- MODULE MCFollowupOutbox ----------------------------
(* Instances of FollowupOutbox: two threads beside the panel and a customer; one  *)
(* thread beside an order page, the cron job and a change of prices.              *)
EXTENDS FollowupOutbox, TLC

CONSTANTS s1, s2, cron, cart, other, dear, cheap

OneThread    == {s1}
TwoThreads   == {s1, s2}
NoCron       == {}
OneCron      == {cron}
OneCart      == {cart, NoItems}
OnePrice     == {dear}
TwoPrices    == {dear, cheap}
PanelOnly    == {"panel"}
PricesOnly   == {"prices"}
PanelAndTurn == {"panel", "webhook"}
PageAndPrice == {"order page", "prices"}

\* Two threads, one of which may fail, beside the panel; or one thread beside the panel and
\* a customer who writes.
InScope ==
  requests = 0 \/ (faults = 0 /\ Cardinality({s \in TwoThreads : ~At(s, "idle")}) <= 1)

ThreadSymmetry == Permutations(TwoThreads)
================================================================================
