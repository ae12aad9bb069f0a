------------------------------ MODULE WatchMC -------------------------------
(* An order of ten and two sockets, for TLC.                                 *)
EXTENDS Watch, TLC

CONSTANTS s1, s2
Symmetric == Permutations({s1, s2})
=============================================================================
