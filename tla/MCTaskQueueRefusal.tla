------------------------- MODULE MCTaskQueueRefusal -------------------------
(***************************************************************************)
(* Instances of TaskQueue in which dispatcher d1 lacks the driver task t1  *)
(* needs, so that its can_claim refuses the row.                           *)
(***************************************************************************)
EXTENDS TaskQueue

CONSTANTS d1, t1

D1Refuses == {<<d1, t1>>}
=============================================================================
