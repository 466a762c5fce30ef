------------------------- MODULE TaskQueueContract -------------------------
(***************************************************************************)
(* TaskQueue implements TaskContract: the state of a task is the status of *)
(* its row, its holder the row's owner_id, and a completion is accepted    *)
(* when complete_task matches the row.                                     *)
(***************************************************************************)
EXTENDS TaskQueue

StateOf(status) ==
    CASE status = "NONE"      -> "absent"
      [] status = "PENDING"   -> "open"
      [] status = "ACTIVE"    -> "held"
      [] status = "COMPLETED" -> "done"
      [] status = "DISMISSED" -> "cancelled"
      [] status = "PURGED"    -> "gone"
      [] OTHER                -> "failed"

taskState == [t \in Task |-> StateOf(row[t].status)]

taskHolder == [t \in Task |-> row[t].owner]

completions == [t \in Task |-> Landed(t, "success")]

Contract == INSTANCE TaskContract WITH
    Attempt <- AttemptId, state <- taskState, holder <- taskHolder, accepted <- completions

\* Whatever claims, heartbeats, lapses, reaps, crashes, shutdowns, failures,
\* dismissals, sweeps, requeues and purges do to the rows and to the processes,
\* those who submitted the tasks see the contract kept.
ContractKept == Contract!Spec

=============================================================================
