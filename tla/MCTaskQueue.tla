---------------------------- MODULE MCTaskQueue ----------------------------
(***************************************************************************)
(* Model-checking instances of TaskQueue: one task, or two where the batch *)
(* matters, and one or two dispatchers.                                    *)
(***************************************************************************)
EXTENDS TaskQueue
=============================================================================
