--------------------------- MODULE MCEventOutbox ---------------------------
(* EventOutbox for TLC: events, drain rows and runs are interchangeable. *)
EXTENDS EventOutbox, TLC

Alike == Permutations(Event) \cup Permutations(Task) \cup Permutations(Run)

============================================================================
