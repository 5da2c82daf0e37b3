---------------------------- MODULE ReminderPromise ----------------------------
(***************************************************************************)
(* What the follow-up outbox promises for each reminder: it reaches the    *)
(* provider at most once, it is tried only while the conversation is not   *)
(* an operator's, after a try that may have reached the provider it never  *)
(* waits for another one, and it is closed as sent only when the provider  *)
(* has accepted it.  A save of an old reading of the conversation gives it *)
(* back to the AI or hands it to an operator, and loses the reminders that *)
(* have changed since the reading: nothing is promised of them any more.   *)
(***************************************************************************)
EXTENDS Integers

CONSTANT Keys

VARIABLES
  phase,      \* "out" of the queue, "waiting", "tried", "closed" or "lost"
  delivered,  \* how often the provider has accepted it, 0 if it is lost
  attended    \* the conversation is an operator's

promised == <<phase, delivered, attended>>

Init ==
  /\ phase = [k \in Keys |-> "out"]
  /\ delivered = [k \in Keys |-> 0]
  /\ attended = FALSE

Move(k, from, to) == phase[k] = from /\ phase' = [phase EXCEPT ![k] = to]

Try(k) == ~attended /\ Move(k, "waiting", "tried") /\ UNCHANGED <<delivered, attended>>

Deliver(k) ==
  /\ phase[k] = "tried" /\ delivered[k] = 0
  /\ delivered' = [delivered EXCEPT ![k] = 1]
  /\ UNCHANGED <<phase, attended>>

Retry(k) == delivered[k] = 0 /\ Move(k, "tried", "waiting") /\ UNCHANGED <<delivered, attended>>

Close(k) == delivered[k] = 1 /\ Move(k, "tried", "closed") /\ UNCHANGED <<delivered, attended>>

\* Any number of waiting reminders leave the queue.
Waiting == {k \in Keys : phase[k] = "waiting"}

Discard ==
  /\ \E ks \in SUBSET Waiting : phase' = [k \in Keys |-> IF k \in ks THEN "out" ELSE phase[k]]
  /\ UNCHANGED <<delivered, attended>>

\* The reminders "ks" are lost, every other one goes on in its next phase.
Lose(ks, next(_)) ==
  /\ phase' = [k \in Keys |-> IF k \in ks THEN "lost" ELSE next(k)]
  /\ delivered' = [k \in Keys |-> IF k \in ks THEN 0 ELSE delivered[k]]

TakeOver(ks) ==
  /\ attended' = TRUE
  /\ Lose(ks, LAMBDA k : IF k \in Waiting THEN "out" ELSE phase[k])

GiveBack(ks) == attended' = FALSE /\ Lose(ks, LAMBDA k : phase[k])

Queue(q, ks) ==
  /\ phase[q] = "out"
  /\ attended' = FALSE
  /\ Lose(ks, LAMBDA k : IF k = q THEN "waiting" ELSE phase[k])

Next ==
  \/ \E k \in Keys : Try(k) \/ Deliver(k) \/ Retry(k) \/ Close(k)
  \/ Discard
  \/ \E ks \in SUBSET Keys :
       TakeOver(ks) \/ GiveBack(ks) \/ \E q \in Keys : Queue(q, ks)

Spec == Init /\ [][Next]_promised
================================================================================
