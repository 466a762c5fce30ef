---------------------------- MODULE MCIndexSync ----------------------------
(* IndexSync for TLC. *)
EXTENDS IndexSync, TLC

============================================================================
