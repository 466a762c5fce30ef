--------------------------- MODULE MCLeaderLease ---------------------------
(***************************************************************************)
(* LeaderLease for TLC.  The processes that may be killed are alike.       *)
(***************************************************************************)
EXTENDS LeaderLease, TLC

Alike == Permutations(Mortal)
============================================================================
