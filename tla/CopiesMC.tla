------------------------------ MODULE CopiesMC ------------------------------
(* Copies on a small instance: two feeds, an order of the leader's.           *)
EXTENDS Copies

\* The wallet file comes to name half of the share, and the ceiling as configured.
MCOffers == {[pct |-> Pct \div 2, ceiling |-> Explicit, seed |-> Seed]}
MCPerils == {}

Symmetry == Permutations(Sources) \cup Permutations(HisOrders)
=============================================================================
