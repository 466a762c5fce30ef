------------------------------ MODULE TaskRow ------------------------------
(***************************************************************************)
(* One row of the global queue table tasks.tasks, and the SQL statements   *)
(* of modules/tasks that write it.  Every operator below maps a row to the *)
(* row a statement leaves behind; its WHERE clause is a separate operator, *)
(* so that the modules that use a row decide who runs it and when.         *)
(*                                                                         *)
(* Only the columns that guards read are kept:                             *)
(*   status     the status column; NONE before INSERT, PURGED after DELETE *)
(*   owner      owner_id, Nobody for NULL                                  *)
(*   lock       locked_until against NOW(): null, future or past           *)
(*   retry      retry_count                                                *)
(*   confirmed  dismiss_confirmed_at IS NOT NULL                           *)
(***************************************************************************)
EXTENDS Naturals

CONSTANTS
    Runner,       \* _RUNNER_ID values: one per dispatcher process
    Nobody,       \* owner_id IS NULL
    HardCap,      \* TasksPluginConfig.hard_retry_cap
    MaxRetries    \* the row's max_retries column

ASSUME NobodyAssumption == Nobody \notin Runner
ASSUME HardCapAssumption == HardCap \in Nat \ {0}
ASSUME MaxRetriesAssumption == MaxRetries \in Nat

Status == {"NONE", "PENDING", "ACTIVE", "COMPLETED", "FAILED", "DEAD_LETTER",
           "DISMISSED", "PURGED"}

Lock == {"null", "future", "past"}

Row == [status : Status, owner : Runner \cup {Nobody}, lock : Lock,
        retry : Nat, confirmed : BOOLEAN]

\* LEAST(max_retries, hard_cap): the attempts a row gets.
RetryLimit == IF MaxRetries < HardCap THEN MaxRetries ELSE HardCap

NoRow == [status |-> "NONE", owner |-> Nobody, lock |-> "null",
          retry |-> 0, confirmed |-> FALSE]

\* The row create_task inserts, for its default initial_status.
Created == [NoRow EXCEPT !.status = "PENDING"]

----------------------------------------------------------------------------
(* The claim and the lease. *)

\* A plausible bug: claim_batch does not look at retry_count.
ClaimableAboveCap(r) == r.status = "PENDING" /\ r.lock # "future"

\* The WHERE clause of claim_batch.
Claimable(r) ==
    /\ r.status = "PENDING"
    /\ r.lock # "future"
    /\ r.retry < HardCap

\* A plausible bug: the claim does not set locked_until.
ClaimedWithoutLease(r, o) == [r EXCEPT !.status = "ACTIVE", !.owner = o]

Claimed(r, o) ==
    [r EXCEPT !.status = "ACTIVE", !.owner = o, !.lock = "future"]

\* heartbeat_tasks extends any ACTIVE row, whoever owns it.
Heartbeat(r) ==
    IF r.status = "ACTIVE" THEN [r EXCEPT !.lock = "future"] ELSE r

\* reset_task_to_pending(backoff): back to the queue without costing a retry.
ResetToPending(r) ==
    IF r.status = "ACTIVE"
    THEN [r EXCEPT !.status = "PENDING", !.owner = Nobody, !.lock = "future"]
    ELSE r

----------------------------------------------------------------------------
(* The terminal writes.  Each is guarded by the writer's owner id and by   *)
(* nothing else: no statement looks at the status it overwrites.           *)

\* A plausible bug: the terminal writes go by task id alone.
OwnedByAnyone(r, o) == TRUE

OwnedBy(r, o) == r.owner = o

Completed(r) ==
    [r EXCEPT !.status = "COMPLETED", !.owner = Nobody, !.lock = "null"]

\* fail_task(retry=False).
FailedForGood(r) ==
    [r EXCEPT !.status = "FAILED", !.owner = Nobody, !.lock = "null"]

\* fail_task(retry=True): queued again with a backoff, or dead-lettered.  The
\* dead-lettered row keeps its owner_id.
FailedRetrying(r) ==
    IF r.retry + 1 < RetryLimit
    THEN [r EXCEPT !.status = "PENDING", !.owner = Nobody, !.lock = "future",
                   !.retry = @ + 1]
    ELSE [r EXCEPT !.status = "DEAD_LETTER", !.lock = "null", !.retry = @ + 1]

\* dead_letter_task.
DeadLettered(r) ==
    [r EXCEPT !.status = "DEAD_LETTER", !.owner = Nobody, !.lock = "null"]

----------------------------------------------------------------------------
(* Maintenance: the reaper, the sweeps, the operator's requeue. *)

\* A plausible bug: the reaper passes over rows on their last attempt.
ReapableWhileRetrying(r) ==
    r.status = "ACTIVE" /\ r.lock = "past" /\ r.retry + 1 < RetryLimit

\* The WHERE clause of reap_stuck_tasks.
Reapable(r) == r.status = "ACTIVE" /\ r.lock = "past"

\* A plausible bug: a reaped attempt is not charged to retry_count.
ReapedUncharged(r) ==
    [r EXCEPT !.status = IF r.retry + 1 >= RetryLimit THEN "DEAD_LETTER"
                                                      ELSE "PENDING",
              !.owner = Nobody, !.lock = "null"]

Reaped(r) ==
    [r EXCEPT !.status = IF r.retry + 1 >= RetryLimit THEN "DEAD_LETTER"
                                                      ELSE "PENDING",
              !.owner = Nobody, !.lock = "null", !.retry = @ + 1]

\* The WHERE clause the dead-capability and backstop sweeps share.
Sweepable(r) == r.status = "PENDING" /\ r.retry = 0

\* cleanup_orphan_tasks: the owner_id stays.
Orphan(r) == r.status \in {"PENDING", "ACTIVE"}

\* A plausible bug: a status the table does not know.
OrphanedUnknownStatus(r) == [r EXCEPT !.status = "ORPHANED", !.lock = "null"]

Orphaned(r) == [r EXCEPT !.status = "DEAD_LETTER", !.lock = "null"]

\* A plausible bug: every terminal status can be requeued.
RequeueableAnyTerminal(r) == r.status \in {"DEAD_LETTER", "FAILED", "COMPLETED"}

\* _REQUEUEABLE_STATUSES.
Requeueable(r) == r.status \in {"DEAD_LETTER", "FAILED"}

\* A plausible bug: a requeue leaves owner_id as it is.
RequeuedStillOwned(r, reset) ==
    [r EXCEPT !.status = "PENDING", !.lock = "null",
              !.retry = IF reset THEN 0 ELSE @]

Requeued(r, reset) ==
    [r EXCEPT !.status = "PENDING", !.owner = Nobody, !.lock = "null",
              !.retry = IF reset THEN 0 ELSE @]

\* purge_completed_tasks and purge_dead_letter_tasks.
Purgeable(r) == r.status \in {"COMPLETED", "FAILED", "DEAD_LETTER"}

Purged == [NoRow EXCEPT !.status = "PURGED"]

----------------------------------------------------------------------------
(* Dismissal. *)

\* update_task from dismiss_job: by task id only; owner_id and locked_until
\* stay.  confirm is set when the job was read as not started.
Dismissed(r, confirm) ==
    IF r.status \in {"NONE", "PURGED"} THEN r
    ELSE [r EXCEPT !.status = "DISMISSED", !.confirmed = @ \/ confirm]

UnconfirmedDismissal(r) == r.status = "DISMISSED" /\ ~r.confirmed

\* stamp_dismiss_confirmed.
DismissStamped(r) ==
    IF UnconfirmedDismissal(r) THEN [r EXCEPT !.confirmed = TRUE] ELSE r

\* The passing of time: a lease, or a backoff, that is not renewed runs out.
Lapsed(r) == [r EXCEPT !.lock = "past"]

=============================================================================
