----------------------------- MODULE ExposureMC -----------------------------
(* Two lanes for TLC: one that holds the token, and one that may follow it.  *)
EXTENDS Exposure

CONSTANTS A, B, b1, b2, b3, x1, x2

Assigned == [o \in Orders |-> IF o \in {b1, b2, x1, x2} THEN A ELSE B]
Sizes == [o \in Orders |-> IF o \in {b1, x1} THEN {1, 2} ELSE {1}]
\* What follows a decision by counters that had lost an order, or a claim let go early.
InOrder == misled = {} /\ ~early

HeldByA == [l \in Lanes |-> IF l = A THEN 1 ELSE 0]
=============================================================================
