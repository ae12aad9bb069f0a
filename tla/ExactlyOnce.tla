----------------------------- MODULE ExactlyOnce -----------------------------
(* What the engine promises about the fills of its orders, without journals, *)
(* tasks or restarts: the venue matches shares of an order, and the ledger   *)
(* books the order at most once, for shares the venue really matched.  Only  *)
(* of an order whose rows on disk are not what the ledger takes them to be   *)
(* may the booking change again: it is gone, or there twice, when the file   *)
(* is read.                                                                  *)
EXTENDS Naturals

CONSTANTS Orders, Size

VARIABLES truth,    \* Orders -> shares the venue has matched
          booked,   \* Orders -> shares the ledger has booked
          spoiled   \* the orders of which the file and the ledger differ

vars == <<truth, booked, spoiled>>

Init ==
  /\ truth = [h \in Orders |-> 0]
  /\ booked = [h \in Orders |-> 0]
  /\ spoiled = {}

\* The venue matches more of the order.
Match(h) ==
  /\ \E n \in truth[h] + 1 .. Size : truth' = [truth EXCEPT ![h] = n]
  /\ UNCHANGED <<booked, spoiled>>

\* The order is booked, once and for all if its row lands as written.
Book(h) ==
  /\ booked[h] = 0
  /\ \E n \in 1 .. truth[h] : booked' = [booked EXCEPT ![h] = n]
  /\ spoiled' \in {spoiled, spoiled \cup {h}}
  /\ UNCHANGED truth

\* A row lands although its append failed.
Spoil(h) ==
  /\ spoiled' = spoiled \cup {h}
  /\ UNCHANGED <<truth, booked>>

\* The file is read again.
Reread ==
  /\ booked' \in [Orders -> Nat]
  /\ \A h \in Orders \ spoiled : booked'[h] = booked[h]
  /\ UNCHANGED <<truth, spoiled>>

Next == (\E h \in Orders : Match(h) \/ Book(h) \/ Spoil(h)) \/ Reread

Spec == Init /\ [][Next]_vars
=============================================================================
