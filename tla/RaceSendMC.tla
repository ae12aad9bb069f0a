----------------------------- MODULE RaceSendMC -----------------------------
(* Instances of RaceSend for TLC.                                            *)
EXTENDS RaceSend

CONSTANTS p1, p2, p3
=============================================================================
