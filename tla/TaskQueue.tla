----------------------------- MODULE TaskQueue -----------------------------
(***************************************************************************)
(* The in-process half of the task subsystem: dispatchers claim rows of    *)
(* tasks.tasks, run them inline or in the background runner, keep the      *)
(* lease alive with a batched heartbeat and write the outcome; the reaper, *)
(* the sweeps, the operator's requeue, retention and dismiss_job change    *)
(* the same rows at any moment in between.                                 *)
(*                                                                         *)
(* One claim of a row is an attempt.  Attempts outlive their lease: nothing *)
(* stops an attempt whose row was reaped, so several attempts of one task  *)
(* can be at work, and two of them can carry the same owner id when the    *)
(* same dispatcher claimed the row again.                                  *)
(***************************************************************************)
EXTENDS TaskRow, FiniteSets

CONSTANTS
    Task,
    Inline,       \* tasks that run inside _dispatch_one (SyncRunner, singleton)
    Routed,       \* tasks whose terminal actions are ROUTE
    Rejects,      \* the runners whose can_claim refuses a task: pairs <<d, t>>
    Dismissible,  \* tasks some client may call dismiss_job on
    Orphans,      \* tasks whose catalog may be deleted under them
    RequeueModes, \* values of reset_retries the operators use
    MaxClaims     \* bound: claims of one task that are explored

ASSUME InlineAssumption == Inline \subseteq Task
ASSUME DismissibleAssumption == Dismissible \subseteq Task
ASSUME OrphansAssumption == Orphans \subseteq Task
ASSUME RequeueModesAssumption == RequeueModes \subseteq BOOLEAN
ASSUME MaxClaimsAssumption == MaxClaims \in Nat

VARIABLES
    row,        \* the table: one row per task
    claims,     \* how often each task has been claimed
    att,        \* att[t][n]: the n-th attempt of t
    hb,         \* BatchedHeartbeat._owned of each dispatcher
    snap,       \* the snapshot a running _flush holds
    reg,        \* BackgroundRunner._task_registry: attempt number, 0 if none
    up,         \* FALSE while a process drains after SIGTERM
    dismissal,  \* what a dismiss_job in progress has read or has left to do
    cancel,     \* runners with an undelivered cancel_requested for a task
    fired       \* history: <<attempt, outcome>> of each ROUTE follow-on

vars == <<row, claims, att, hb, snap, reg, up, dismissal, cancel, fired>>

AttemptId == 1 .. MaxClaims

(***************************************************************************)
(* Where an attempt stands:                                                *)
(*   none       not claimed yet                                            *)
(*   claimed    at the top of _dispatch_one                                *)
(*   queued     deferred, waiting for the background runner's semaphore    *)
(*   running    the task body, and the terminal write that ends it         *)
(*   cancelled  CancelledError caught, row not re-read yet                 *)
(*   stamp      decided to stamp the dismissal                             *)
(*   giveback   decided to fail_task(retry=True)                           *)
(*   check      terminal write landed, apply_terminal_action entered       *)
(*   route      ROUTE decided, follow-on not created yet                   *)
(*   finish     the finally block                                          *)
(*   done, dead over; dead when the process died under it                  *)
(***************************************************************************)
PC == {"none", "claimed", "queued", "running", "cancelled", "stamp",
       "giveback", "check", "route", "finish", "done", "dead"}

Outcome == {"success", "failure", "permanent", "timeout"}

Attempt == [by : Runner \cup {Nobody}, pc : PC,
            outcome : Outcome \cup {"open"}, landed : BOOLEAN]

NoAttempt == [by |-> Nobody, pc |-> "none", outcome |-> "open",
              landed |-> FALSE]

Over == {"none", "done", "dead"}

Attempts == Task \X AttemptId

\* The attempts a dispatcher's process has in hand.
Held(d) == {x \in Attempts : /\ att[x[1]][x[2]].by = d
                             /\ att[x[1]][x[2]].pc \notin Over}

\* The attempts that gather() over a dispatcher's batch waits for: a row of
\* the batch runs to its end there, is released or is deferred.
Batch(d) == {x \in Held(d) : \/ x[1] \in Inline
                             \/ att[x[1]][x[2]].pc = "claimed"}

Gathering(d) == Batch(d) # {}

----------------------------------------------------------------------------
Init ==
    /\ row = [t \in Task |-> NoRow]
    /\ claims = [t \in Task |-> 0]
    /\ att = [t \in Task |-> [n \in AttemptId |-> NoAttempt]]
    /\ hb = [d \in Runner |-> {}]
    /\ snap = [d \in Runner |-> {}]
    /\ reg = [d \in Runner |-> [t \in Task |-> 0]]
    /\ up = [d \in Runner |-> TRUE]
    /\ dismissal = [t \in Task |-> "idle"]
    /\ cancel = [t \in Task |-> {}]
    /\ fired = [t \in Task |-> {}]

\* Shorthand for the actions below: step one attempt to pc p.
Goto(t, n, p) == att' = [att EXCEPT ![t][n].pc = p]

SetRow(t, r) == row' = [row EXCEPT ![t] = r]

----------------------------------------------------------------------------
(* The queue and its dispatchers. *)

\* create_task or enqueue commits the row.
Enqueue(t) ==
    /\ row[t].status = "NONE"
    /\ SetRow(t, Created)
    /\ UNCHANGED <<claims, att, hb, snap, reg, up, dismissal, cancel, fired>>

\* claim_batch: some of the claimable rows, in one statement.
Claim(d, S) ==
    /\ up[d]
    /\ ~Gathering(d)
    /\ S # {}
    /\ \A t \in S : Claimable(row[t]) /\ claims[t] < MaxClaims
    /\ row' = [t \in Task |-> IF t \in S THEN Claimed(row[t], d) ELSE row[t]]
    /\ claims' = [t \in Task |-> IF t \in S THEN claims[t] + 1 ELSE claims[t]]
    /\ att' = [t \in Task |->
                 IF t \in S
                 THEN [att[t] EXCEPT ![claims[t] + 1] =
                         [NoAttempt EXCEPT !.by = d, !.pc = "claimed"]]
                 ELSE att[t]]
    /\ UNCHANGED <<hb, snap, reg, up, dismissal, cancel, fired>>

\* can_claim refused the row.  The reactive dead-letter sweep only matches a
\* row that is PENDING again; otherwise the claim is released with a backoff.
Reject(t, n) ==
    /\ att[t][n].pc = "claimed"
    /\ <<att[t][n].by, t>> \in Rejects
    /\ \/ /\ Sweepable(row[t])
          /\ \A d \in Runner : up[d] => <<d, t>> \in Rejects
          /\ SetRow(t, DeadLettered(row[t]))
       \/ SetRow(t, ResetToPending(row[t]))
    /\ Goto(t, n, "done")
    /\ UNCHANGED <<claims, hb, snap, reg, up, dismissal, cancel, fired>>

\* The row is accepted: registered for the heartbeat, then run in place or
\* handed to the background runner (DEFERRED_COMPLETION).
Accept(t, n) ==
    LET d == att[t][n].by IN
    /\ att[t][n].pc = "claimed"
    /\ <<d, t>> \notin Rejects
    /\ hb' = [hb EXCEPT ![d] = @ \cup {t}]
    /\ \/ t \in Inline /\ Goto(t, n, "running") /\ UNCHANGED reg
       \/ /\ t \notin Inline
          /\ Goto(t, n, "queued")
          /\ reg' = [reg EXCEPT ![d][t] = n]
    /\ UNCHANGED <<row, claims, snap, up, dismissal, cancel, fired>>

\* The background coroutine gets a slot of the semaphore and registers again.
Start(t, n) ==
    /\ att[t][n].pc = "queued"
    /\ Goto(t, n, "running")
    /\ hb' = [hb EXCEPT ![att[t][n].by] = @ \cup {t}]
    /\ UNCHANGED <<row, claims, snap, reg, up, dismissal, cancel, fired>>

Written(r, o) ==
    CASE o = "success"   -> Completed(r)
      [] o = "failure"   -> FailedRetrying(r)
      [] o = "permanent" -> FailedForGood(r)
      [] o = "timeout"   -> DeadLettered(r)

\* A plausible bug: the terminal action does not wait for the write to land.
EndRoutesStale(t, n, o) ==
    LET landed == OwnedBy(row[t], att[t][n].by) IN
    /\ att[t][n].pc = "running"
    /\ IF landed THEN SetRow(t, Written(row[t], o)) ELSE UNCHANGED row
    /\ att' = [att EXCEPT ![t][n].pc = "check", ![t][n].outcome = o,
                          ![t][n].landed = landed]
    /\ UNCHANGED <<claims, hb, snap, reg, up, dismissal, cancel, fired>>

\* The body ends with an outcome, and its terminal write is made if the row
\* still carries the owner id under which it was claimed.
End(t, n, o) ==
    LET landed == OwnedBy(row[t], att[t][n].by) IN
    /\ att[t][n].pc = "running"
    /\ IF landed THEN SetRow(t, Written(row[t], o)) ELSE UNCHANGED row
    /\ att' = [att EXCEPT ![t][n].pc = IF landed THEN "check" ELSE "finish",
                          ![t][n].outcome = o,
                          ![t][n].landed = landed]
    /\ UNCHANGED <<claims, hb, snap, reg, up, dismissal, cancel, fired>>

\* apply_terminal_action: on success the follow-on is due at once; after a
\* failure or a timeout the status is read again first.
CheckRoute(t, n) ==
    /\ att[t][n].pc = "check"
    /\ IF /\ t \in Routed
          /\ \/ att[t][n].outcome = "success"
             \/ row[t].status \in {"DEAD_LETTER", "FAILED"}
       THEN Goto(t, n, "route")
       ELSE Goto(t, n, "finish")
    /\ UNCHANGED <<row, claims, hb, snap, reg, up, dismissal, cancel, fired>>

\* ... and create_task inserts the follow-on.
FireRoute(t, n) ==
    /\ att[t][n].pc = "route"
    /\ Goto(t, n, "finish")
    /\ fired' = [fired EXCEPT ![t] = @ \cup {<<n, att[t][n].outcome>>}]
    /\ UNCHANGED <<row, claims, hb, snap, reg, up, dismissal, cancel>>

\* The finally block, and the done callback of a background attempt: both
\* drop their entry by task id, whichever attempt put it there.
Unregister(t, n) ==
    LET d == att[t][n].by IN
    /\ att[t][n].pc = "finish"
    /\ Goto(t, n, "done")
    /\ hb' = [hb EXCEPT ![d] = @ \ {t}]
    /\ reg' = IF t \in Inline THEN reg ELSE [reg EXCEPT ![d][t] = 0]
    /\ UNCHANGED <<row, claims, snap, up, dismissal, cancel, fired>>

\* A statement of the attempt raised (connection lost, pool exhausted): the
\* handlers log it and fall through to the finally block.
DbFailure(t, n) ==
    /\ att[t][n].pc \in {"running", "cancelled", "stamp", "giveback",
                         "check", "route"}
    /\ Goto(t, n, "finish")
    /\ UNCHANGED <<row, claims, hb, snap, reg, up, dismissal, cancel, fired>>

----------------------------------------------------------------------------
(* Cancellation of an attempt: by a shutdown, or by a dismissal's stop signal. *)

\* Where CancelledError takes an attempt.  Waiting for the semaphore it is
\* not caught, and no finally block has been entered yet; inside the except
\* blocks only the finally block is left.
CancelledTo(t, a) ==
    CASE a.pc = "claimed" -> {"done"}
      [] a.pc = "queued"  -> {"done"}
      [] a.pc = "running" -> {IF t \in Inline THEN "giveback" ELSE "cancelled",
                              "finish"}
      [] a.pc \in {"check", "route"} /\ a.outcome = "success" ->
            {IF t \in Inline THEN "giveback" ELSE "cancelled"}
      [] OTHER -> {"finish"}

\* The done callback of an attempt that never entered its try block.
DropUnstarted(d, S) ==
    reg' = [reg EXCEPT ![d] = [t \in Task |->
              IF \E n \in AttemptId : <<t, n>> \in S /\ att[t][n].pc = "queued"
              THEN 0 ELSE reg[d][t]]]

\* SIGTERM: shutdown_event is set, nothing more is claimed.
Shutdown(d) ==
    /\ up[d]
    /\ up' = [up EXCEPT ![d] = FALSE]
    /\ UNCHANGED <<row, claims, att, hb, snap, reg, dismissal, cancel, fired>>

\* What has not drained in time is cancelled: the dispatcher's batch by its
\* supervisor, the background attempts by their runner.
CancelHeld(d, X) ==
    /\ ~up[d]
    /\ X # {}
    /\ \E to \in [X -> PC] :
          /\ \A x \in X : to[x] \in CancelledTo(x[1], att[x[1]][x[2]])
          /\ att' = [t \in Task |-> [n \in AttemptId |->
                       IF <<t, n>> \in X
                       THEN [att[t][n] EXCEPT !.pc = to[<<t, n>>]]
                       ELSE att[t][n]]]
    /\ DropUnstarted(d, X)
    /\ UNCHANGED <<row, claims, hb, snap, up, dismissal, cancel, fired>>

\* The process is gone: its memory with it.
Wiped(d) ==
    /\ hb' = [hb EXCEPT ![d] = {}]
    /\ snap' = [snap EXCEPT ![d] = {}]
    /\ reg' = [reg EXCEPT ![d] = [t \in Task |-> 0]]
    /\ up' = [up EXCEPT ![d] = TRUE]
    /\ cancel' = [t \in Task |-> cancel[t] \ {d}]

\* The drained process exits and is started again under the same runner id.
Restart(d) ==
    /\ ~up[d]
    /\ Held(d) = {}
    /\ Wiped(d)
    /\ UNCHANGED <<row, claims, att, dismissal, fired>>

\* SIGKILL, OOM, node loss: the attempts in hand die where they stand.
Crash(d) ==
    /\ att' = [t \in Task |-> [n \in AttemptId |->
                 IF <<t, n>> \in Held(d) THEN [att[t][n] EXCEPT !.pc = "dead"]
                                         ELSE att[t][n]]]
    /\ Wiped(d)
    /\ UNCHANGED <<row, claims, dismissal, fired>>

\* The background runner's handler re-reads the row ...
CancelRead(t, n) ==
    /\ att[t][n].pc = "cancelled"
    /\ Goto(t, n, IF UnconfirmedDismissal(row[t]) THEN "stamp" ELSE "giveback")
    /\ UNCHANGED <<row, claims, hb, snap, reg, up, dismissal, cancel, fired>>

\* ... and confirms the dismissal ...
CancelStamp(t, n) ==
    /\ att[t][n].pc = "stamp"
    /\ SetRow(t, DismissStamped(row[t]))
    /\ Goto(t, n, "finish")
    /\ UNCHANGED <<claims, hb, snap, reg, up, dismissal, cancel, fired>>

\* ... or gives the row back for another attempt; no ROUTE either way.
CancelGiveBack(t, n) ==
    /\ att[t][n].pc = "giveback"
    /\ SetRow(t, IF OwnedBy(row[t], att[t][n].by) THEN FailedRetrying(row[t])
                                                  ELSE row[t])
    /\ Goto(t, n, "finish")
    /\ UNCHANGED <<claims, hb, snap, reg, up, dismissal, cancel, fired>>

----------------------------------------------------------------------------
(* The heartbeat, the clock and the maintenance passes. *)

\* The heartbeat stops when the dispatcher loop has ended.
Beating(d) == up[d] \/ Gathering(d)

FlushSnapshot(d) ==
    /\ Beating(d)
    /\ hb[d] # {}
    /\ snap' = [snap EXCEPT ![d] = hb[d]]
    /\ UNCHANGED <<row, claims, att, hb, reg, up, dismissal, cancel, fired>>

\* A write that fails is only logged.
FlushWrite(d) ==
    /\ snap[d] # {}
    /\ \/ row' = [t \in Task |-> IF t \in snap[d] THEN Heartbeat(row[t])
                                                  ELSE row[t]]
       \/ UNCHANGED row
    /\ snap' = [snap EXCEPT ![d] = {}]
    /\ UNCHANGED <<claims, att, hb, reg, up, dismissal, cancel, fired>>

\* A backoff ends; a lease runs out, also under a running attempt whose event
\* loop stalled.
Lapse(t) ==
    /\ row[t].lock = "future"
    /\ SetRow(t, Lapsed(row[t]))
    /\ UNCHANGED <<claims, att, hb, snap, reg, up, dismissal, cancel, fired>>

\* reap_stuck_tasks, row by row: SKIP LOCKED may leave any row for later.
Reap(t) ==
    /\ Reapable(row[t])
    /\ SetRow(t, Reaped(row[t]))
    /\ UNCHANGED <<claims, att, hb, snap, reg, up, dismissal, cancel, fired>>

\* sweep_dead_capability_rows and sweep_unclaimable_rows.
SweepUnclaimable(t) ==
    /\ Sweepable(row[t])
    /\ \A d \in Runner : up[d] => <<d, t>> \in Rejects
    /\ SetRow(t, DeadLettered(row[t]))
    /\ UNCHANGED <<claims, att, hb, snap, reg, up, dismissal, cancel, fired>>

\* cleanup_orphan_tasks: the task's catalog is gone.
CleanupOrphan(t) ==
    /\ t \in Orphans
    /\ Orphan(row[t])
    /\ SetRow(t, Orphaned(row[t]))
    /\ UNCHANGED <<claims, att, hb, snap, reg, up, dismissal, cancel, fired>>

\* requeue_dead_letter_task: keeping the count is refused at the hard cap.
RequeueTask(t, reset) ==
    /\ Requeueable(row[t])
    /\ reset \/ row[t].retry < HardCap
    /\ SetRow(t, Requeued(row[t], reset))
    /\ UNCHANGED <<claims, att, hb, snap, reg, up, dismissal, cancel, fired>>

\* requeue_dead_letter_tasks_by_type: any selection of rows, no such refusal.
RequeueByType(S, reset) ==
    /\ S # {}
    /\ \A t \in S : Requeueable(row[t])
    /\ row' = [t \in Task |-> IF t \in S THEN Requeued(row[t], reset)
                                         ELSE row[t]]
    /\ UNCHANGED <<claims, att, hb, snap, reg, up, dismissal, cancel, fired>>

\* TaskRetentionService.
Purge(t) ==
    /\ Purgeable(row[t])
    /\ SetRow(t, Purged)
    /\ UNCHANGED <<claims, att, hb, snap, reg, up, dismissal, cancel, fired>>

----------------------------------------------------------------------------
(* dismiss_job: a read, a write by task id, a best-effort stop signal. *)

DismissRead(t) ==
    /\ t \in Dismissible
    /\ dismissal[t] = "idle"
    /\ row[t].status \in {"PENDING", "ACTIVE"}
    /\ dismissal' = [dismissal EXCEPT ![t] = row[t].status]
    /\ UNCHANGED <<row, claims, att, hb, snap, reg, up, cancel, fired>>

DismissWrite(t) ==
    /\ dismissal[t] \in {"PENDING", "ACTIVE"}
    /\ SetRow(t, Dismissed(row[t], dismissal[t] = "PENDING"))
    /\ dismissal' = [dismissal EXCEPT
                        ![t] = IF @ = "ACTIVE" THEN "signal" ELSE "idle"]
    /\ UNCHANGED <<claims, att, hb, snap, reg, up, cancel, fired>>

\* signal_stop, if the row read back names an owner: to this process's own
\* registry or by notification to all of them, any of which may miss it.
DismissSignal(t) ==
    /\ dismissal[t] = "signal"
    /\ dismissal' = [dismissal EXCEPT ![t] = "idle"]
    /\ \E D \in SUBSET Runner :
          /\ row[t].owner = Nobody => D = {}
          /\ cancel' = [cancel EXCEPT ![t] = @ \cup D]
    /\ UNCHANGED <<row, claims, att, hb, snap, reg, up, fired>>

\* _cancel_listener: whichever attempt the registry holds is cancelled.
CancelDelivered(d, t) ==
    LET n == reg[d][t] IN
    /\ d \in cancel[t]
    /\ cancel' = [cancel EXCEPT ![t] = @ \ {d}]
    /\ IF n = 0
       THEN UNCHANGED <<att, reg>>
       ELSE /\ \E p \in CancelledTo(t, att[t][n]) : Goto(t, n, p)
            /\ DropUnstarted(d, {<<t, n>>})
    /\ UNCHANGED <<row, claims, hb, snap, up, dismissal, fired>>

----------------------------------------------------------------------------
AttemptStep(t, n) ==
    \/ Reject(t, n)
    \/ Accept(t, n)
    \/ Start(t, n)
    \/ \E o \in Outcome : End(t, n, o)
    \/ CheckRoute(t, n)
    \/ FireRoute(t, n)
    \/ Unregister(t, n)
    \/ DbFailure(t, n)
    \/ CancelRead(t, n)
    \/ CancelStamp(t, n)
    \/ CancelGiveBack(t, n)

RunnerStep(d) ==
    \/ \E S \in SUBSET Task : Claim(d, S)
    \/ FlushSnapshot(d)
    \/ FlushWrite(d)
    \/ Shutdown(d)
    \/ CancelHeld(d, Batch(d))
    \/ CancelHeld(d, Held(d) \ Batch(d))
    \/ Restart(d)
    \/ Crash(d)
    \/ \E t \in Task : CancelDelivered(d, t)

MaintenanceStep(t) ==
    \/ Lapse(t)
    \/ Reap(t)
    \/ SweepUnclaimable(t)
    \/ CleanupOrphan(t)
    \/ \E reset \in RequeueModes : RequeueTask(t, reset)
    \/ Purge(t)

ClientStep(t) ==
    \/ Enqueue(t)
    \/ DismissRead(t)
    \/ DismissWrite(t)
    \/ DismissSignal(t)

Next ==
    \/ \E t \in Task, n \in AttemptId : AttemptStep(t, n)
    \/ \E d \in Runner : RunnerStep(d)
    \/ \E t \in Task : MaintenanceStep(t) \/ ClientStep(t)
    \/ \E S \in SUBSET Task, reset \in RequeueModes : RequeueByType(S, reset)

Spec == Init /\ [][Next]_vars

(***************************************************************************)
(* Fairness.  An attempt that has started a step finishes it: task bodies  *)
(* return, raise or run into their timeout, and handlers run to their end. *)
(* The reaper is a periodic service; a dispatcher claims whenever it has   *)
(* been idle long enough, also if it is restarted again and again.  Time   *)
(* passes: a lock that no heartbeat renews runs out.  Nothing is assumed   *)
(* of clients, operators, sweeps, crashes or shutdowns.                    *)
(***************************************************************************)
Unattended(t) == \A d \in Runner : Beating(d) => t \notin hb[d] \cup snap[d]

AttemptProgress(t, n) ==
    \/ Reject(t, n)
    \/ Accept(t, n)
    \/ Start(t, n)
    \/ \E o \in Outcome : End(t, n, o)
    \/ CheckRoute(t, n)
    \/ FireRoute(t, n)
    \/ Unregister(t, n)
    \/ CancelRead(t, n)
    \/ CancelStamp(t, n)
    \/ CancelGiveBack(t, n)

Fairness ==
    /\ \A t \in Task :
          /\ \A n \in AttemptId : WF_vars(AttemptProgress(t, n))
          /\ SF_vars(\E d \in Runner, S \in SUBSET Task : t \in S /\ Claim(d, S))
          /\ WF_vars(Reap(t))
          /\ WF_vars(Unattended(t) /\ Lapse(t))
    /\ \A d \in Runner : WF_vars(FlushWrite(d)) /\ WF_vars(Restart(d))

FairSpec == Spec /\ Fairness

----------------------------------------------------------------------------
(* Safety. *)

TypeOK ==
    /\ row \in [Task -> Row]
    /\ claims \in [Task -> 0 .. MaxClaims]
    /\ att \in [Task -> [AttemptId -> Attempt]]
    /\ hb \in [Runner -> SUBSET Task]
    /\ snap \in [Runner -> SUBSET Task]
    /\ reg \in [Runner -> [Task -> 0 .. MaxClaims]]
    /\ up \in [Runner -> BOOLEAN]
    /\ dismissal \in [Task -> {"idle", "PENDING", "ACTIVE", "signal"}]
    /\ cancel \in [Task -> SUBSET Runner]
    /\ fired \in [Task -> SUBSET (AttemptId \X Outcome)]

\* A claimed row always carries a lease, so the reaper's locked_until
\* predicate can reach it whatever becomes of its attempt; and its owner is
\* the process that made the latest claim, never an earlier one.
ActiveRowReachable ==
    \A t \in Task : row[t].status = "ACTIVE" =>
        /\ row[t].lock # "null"
        /\ claims[t] > 0
        /\ row[t].owner \in Runner
        /\ att[t][claims[t]].by = row[t].owner

\* A row that is queued, finished for good or gone names no owner: every
\* statement that brings it there clears owner_id, so that the owner guard
\* of a late attempt's terminal write cannot match.
ReleasedRowUnowned ==
    \A t \in Task :
        row[t].status \in {"NONE", "PENDING", "COMPLETED", "FAILED", "PURGED"}
            => row[t].owner = Nobody

\* The circuit breaker: no row at the platform's hard retry cap is executing,
\* whatever mix of reaps, failures and requeues it has been through.
ActiveBelowHardCap ==
    \A t \in Task : row[t].status = "ACTIVE" => row[t].retry < HardCap

Landed(t, o) ==
    {n \in AttemptId : att[t][n].landed /\ att[t][n].outcome = o}

\* However many attempts of a task run to success, the write of at most one
\* is taken, and the task is never queued or executed again afterwards.
CompletionLandsOnce ==
    \A t \in Task :
        /\ \A m, n \in Landed(t, "success") : m = n
        /\ Landed(t, "success") # {} =>
              row[t].status \in {"COMPLETED", "DISMISSED", "PURGED"}

\* The on_success follow-on is created at most once, also when two attempts
\* under one owner id both finish.
SuccessRoutedOnce ==
    \A t \in Task : \A x, y \in fired[t] :
        x[2] = "success" /\ y[2] = "success" => x = y

\* With no operator requeue and no refusing worker a task is claimed at most
\* LEAST(max_retries, hard_cap) times (and at least once): crashes, lapsed
\* leases, shutdowns, failures and dismissals all draw on the same count.
AttemptBudget == IF RetryLimit = 0 THEN 1 ELSE RetryLimit

AttemptsBounded ==
    RequeueModes = {} /\ Rejects = {} =>
        \A t \in Task : claims[t] <= AttemptBudget

\* A completed row never becomes runnable or failed again.
CompletedIsFinal ==
    [][\A t \in Task : row[t].status \in {"COMPLETED", "PURGED"} =>
          row'[t].status \in {"COMPLETED", "DISMISSED", "PURGED"}]_vars

(* Liveness. *)

Settled(t) ==
    row[t].status \in {"COMPLETED", "FAILED", "DEAD_LETTER", "DISMISSED",
                       "PURGED"}

\* A queued or claimed task reaches a terminal status: no crash, lapsed
\* lease, lost write or shutdown strands its row.
EventuallySettled ==
    \A t \in Task :
        row[t].status \in {"PENDING", "ACTIVE"} ~> Settled(t)

----------------------------------------------------------------------------
(***************************************************************************)
(* The inductive invariant.  It speaks of one task at a time: its row r,   *)
(* the number c of its claims, its attempts a and its follow-ons f.        *)
(***************************************************************************)

\* The part about the row alone: a claimed row is leased, owned by the latest
\* claimant and below the cap; a released row is not owned.
RowInv(r, c, a) ==
    /\ r.status = "ACTIVE" =>
          /\ r.lock # "null"
          /\ c > 0
          /\ r.owner \in Runner
          /\ a[c].by = r.owner
          /\ r.retry < HardCap
    /\ r.status \in {"NONE", "PENDING", "COMPLETED", "FAILED", "PURGED"} =>
          r.owner = Nobody

\* The part about attempts: only claimed attempts have moved, and only an
\* attempt whose write landed gets to apply_terminal_action.
AttemptInv(c, a, f) ==
    /\ \A n \in AttemptId :
          /\ n > c => a[n].pc = "none" /\ ~a[n].landed
          /\ n <= c => a[n].pc # "none"
          /\ a[n].pc # "none" => a[n].by \in Runner
          /\ a[n].pc \in {"claimed", "queued", "running"} => ~a[n].landed
          /\ a[n].pc \in {"check", "route"} => a[n].landed
          /\ a[n].landed => a[n].outcome # "open"
    /\ \A x \in f : a[x[1]].landed /\ a[x[1]].outcome = x[2]

\* The part that makes completion final: the success write leaves the row
\* unowned, in a status from which no statement leads back to the queue.
SuccessInv(r, a) ==
    /\ \A n \in AttemptId : a[n].landed /\ a[n].outcome = "success" =>
          /\ r.status \in {"COMPLETED", "DISMISSED", "PURGED"}
          /\ r.owner = Nobody
    /\ \A m, n \in AttemptId :
          /\ a[m].landed /\ a[m].outcome = "success"
          /\ a[n].landed /\ a[n].outcome = "success"
          => m = n

\* The part that bounds the claims: each claim but the current one has been
\* charged to retry_count.
BudgetInv(r, c) ==
    RequeueModes = {} /\ Rejects = {} =>
        /\ r.status = "NONE" => c = 0
        /\ r.status = "PENDING" => c <= r.retry /\ r.retry < AttemptBudget
        /\ r.status # "PURGED" => c <= r.retry + 1
        /\ c <= AttemptBudget

TaskInv(r, c, a, f) ==
    RowInv(r, c, a) /\ AttemptInv(c, a, f) /\ SuccessInv(r, a) /\ BudgetInv(r, c)

\* The background runner's registry names attempts that were made.
RegInv == \A d \in Runner, t \in Task : reg[d][t] <= claims[t]

Inv ==
    /\ TypeOK
    /\ RegInv
    /\ \A t \in Task : TaskInv(row[t], claims[t], att[t], fired[t])

----------------------------------------------------------------------------
(***************************************************************************)
(* What comments and docstrings of the code say, and the code does not do. *)
(* Each of these is refuted by a run of its own.                           *)
(***************************************************************************)

\* dispatcher.py:1000, 1058, 1087, 1117: a stale attempt fires no ROUTE follow-on
\* on top of the winning attempt's own, so one task is routed on at most once.
RoutedOnce == \A t \in Task : Cardinality(fired[t]) <= 1

\* maintenance.py:219, runners.py:874: a dismissal is an explicit cancel, not
\* a failure to retry, and a dismissed row is not reset to PENDING.
DismissedNotRetried ==
    [][\A t \in Task : row[t].status = "DISMISSED" =>
          row'[t].status # "PENDING"]_vars

\* execution.py:1038: a job that finished before the dismiss arrived is a
\* state conflict, so its terminal status stays.
FinishedNotDismissed ==
    [][\A t \in Task :
          row[t].status \in {"COMPLETED", "FAILED", "DEAD_LETTER"} =>
          row'[t].status # "DISMISSED"]_vars

\* dispatcher.py:973: a heartbeat entry handed to the background coroutine is
\* unregistered by its finally block, so an entry has an attempt behind it.
HeartbeatEntryHeld ==
    \A d \in Runner : up[d] => \A t \in hb[d] :
        \E n \in AttemptId : <<t, n>> \in Held(d)

\* runners.py:712: the claimed task is on the heartbeat while it runs.
RunningIsHeartbeated ==
    \A t \in Task, n \in AttemptId :
        att[t][n].pc = "running" /\ up[att[t][n].by] => t \in hb[att[t][n].by]

\* tasks_module.py:2597: a queued row at the hard cap, which dispatchers do
\* not see, is dead-lettered by the reaper.
CappedRowDeadLettered ==
    \A t \in Task :
        row[t].status = "PENDING" /\ row[t].retry >= HardCap ~>
            row[t].status = "DEAD_LETTER"

\* dispatcher.py:874: a worker that refuses a row releases the claim it made,
\* so a refusal never takes the row from a later claimant.
RefusalReleasesOwnClaim ==
    [][\A t \in Task, n \in AttemptId :
          att[t][n].pc = "claimed" /\ att'[t][n].pc = "done"
            /\ row[t].status = "ACTIVE" /\ n < claims[t]
          => row'[t] = row[t]]_vars

=============================================================================
