--------------------------- MODULE MCCloudRunTask ---------------------------
(***************************************************************************)
(* CloudRunTask for TLC.  Jobs are alike, and so are execution ids.        *)
(***************************************************************************)
EXTENDS CloudRunTask, TLC

Alike == Permutations(Job) \cup Permutations(Spawn)
=============================================================================
