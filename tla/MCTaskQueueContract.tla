------------------------ MODULE MCTaskQueueContract ------------------------
(* Instances of TaskQueueContract for TLC. *)
EXTENDS TaskQueueContract
=============================================================================
