------------------------------ MODULE FollowMC ------------------------------
(* Follow on a small instance. *)
EXTENDS Follow

\* Nothing is promised of a lane that has lost sight of his book.
InSight == strayed # "blind"
=============================================================================
