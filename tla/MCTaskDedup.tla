---------------------------- MODULE MCTaskDedup ----------------------------
(* TaskDedup for TLC: calls are interchangeable. *)
EXTENDS TaskDedup, TLC

Alike == Permutations(Call)

============================================================================
