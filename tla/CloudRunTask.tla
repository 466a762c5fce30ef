---------------------------- MODULE CloudRunTask ----------------------------
(***************************************************************************)
(* The out-of-process half of the task subsystem, for one task: a spawner  *)
(* (GcpJobRunner.run) takes the row under a fresh execution id and starts  *)
(* a Cloud Run Job; the job's container (main_task.py) claims the row,     *)
(* runs the body and writes the outcome; the reaper, the dispatcher and    *)
(* the liveness reconcilers act on the same row meanwhile.                 *)
(*                                                                         *)
(* owner_id is the dispatcher that claimed the row, or the execution id of *)
(* a spawn.  A job is one execution of Cloud Run: several jobs may carry   *)
(* one execution id, and Cloud Run restarts the container of a job that    *)
(* failed.  The column runner_ref names the job the probe asks about.      *)
(***************************************************************************)
EXTENDS TaskRow, FiniteSets

CONSTANTS
    Dispatcher,   \* _RUNNER_ID values of the processes that claim PENDING rows
    Spawn,        \* execution ids: one per call of GcpJobRunner.run
    Job,          \* executions of Cloud Run (external)
    Reconciler,   \* leader tick, backstop, a GET: whoever probes and acts
    MaxTries,     \* container attempts Cloud Run makes for one job
    Faults        \* what may go wrong, or be asked for, besides crashes

ASSUME OwnersAssumption == Runner = Spawn \cup Dispatcher
ASSUME SpawnAssumption == Dispatcher \cap Spawn = {} /\ Nobody \notin Job
ASSUME MaxTriesAssumption == MaxTries \in Nat \ {0}

\* stall: a lease lapses under a live holder.  give up: RunJob starts no job.
\* lost answer: RunJob starts a job and raises.  lost ref: the runner_ref of a
\* started job is not written.  early raise: a container raises before its
\* claim.  dismissal: a client dismisses the task.  no job: the job map no longer
\* knows the task type.
ASSUME FaultsAssumption ==
    Faults \subseteq {"stall", "give up", "lost answer", "lost ref", "early raise",
                "dismissal", "no job"}

VARIABLES
    row,    \* the row of the task
    ref,    \* its runner_ref, Nobody for NULL
    spawn,  \* the calls of GcpJobRunner.run
    job,    \* the jobs and their containers
    rec,    \* what a reconciler has read
    done,   \* history: the jobs in which the task's body returned
    hb      \* the dispatchers whose BatchedHeartbeat has an entry for the task

vars == <<row, ref, spawn, job, rec, done, hb>>

(***************************************************************************)
(* A spawn: claimed (the dispatcher holds the row), refused (it no longer  *)
(* does), reset (the row is to be queued again), launch (the row is ours,  *)
(* RunJob next), ref (a job started, its name not stored yet), over.  To   *)
(* the dispatcher, run has returned None (empty) or raised (raised).       *)
(*                                                                         *)
(* A container: boot (up to the claim), running, wrap (body returned,      *)
(* complete_task next), outer (an exception on its way to the handler of   *)
(* main), report (that handler failed; report_failure next), exit.         *)
(***************************************************************************)
SpawnPC == {"none", "claimed", "refused", "reset", "launch", "ref", "empty",
            "raised", "over"}

JobPC == {"none", "boot", "running", "wrap", "outer", "report", "exit"}

Cloud == {"none", "alive", "cancelling", "succeeded", "failed", "cancelled",
          "gone"}

Verdict == {"ALIVE", "DEAD", "UNKNOWN", "TERMINAL_SUCCEEDED",
            "TERMINAL_FAILED"}

Spawns == [pc : SpawnPC, by : Dispatcher \cup {Nobody}, job : Job \cup {Nobody}]

Jobs == [id : Spawn \cup {Nobody}, pc : JobPC, cloud : Cloud, tries : 0 .. MaxTries]

Recs == [pc : {"idle", "probe", "act"}, owner : Spawn \cup {Nobody},
         ref : Job \cup {Nobody}, verdict : Verdict, dismissed : BOOLEAN]

NoSpawn == [pc |-> "none", by |-> Nobody, job |-> Nobody]

NoJob == [id |-> Nobody, pc |-> "none", cloud |-> "none", tries |-> 0]

Idle == [pc |-> "idle", owner |-> Nobody, ref |-> Nobody,
         verdict |-> "UNKNOWN", dismissed |-> FALSE]

Init ==
    /\ row = NoRow
    /\ ref = Nobody
    /\ spawn = [s \in Spawn |-> NoSpawn]
    /\ job = [j \in Job |-> NoJob]
    /\ rec = [c \in Reconciler |-> Idle]
    /\ done = {}
    /\ hb = {}

----------------------------------------------------------------------------
(* Spawning. *)

\* REST path: create_task inserts the row born claimed.
BornClaimed(s) ==
    /\ row.status = "NONE"
    /\ spawn[s].pc = "none"
    /\ row' = Claimed(Created, s)
    /\ spawn' = [spawn EXCEPT ![s].pc = "launch"]
    /\ UNCHANGED <<ref, job, rec, done, hb>>

\* enqueue: the row waits for the dispatcher.
Enqueue ==
    /\ row.status = "NONE"
    /\ row' = Created
    /\ UNCHANGED <<ref, spawn, job, rec, done, hb>>

\* claim_batch, heartbeat.register, and the hand-off of the claimed row to
\* GcpJobRunner.run.
Claim(s, d) ==
    /\ spawn[s].pc = "none"
    /\ Claimable(row)
    /\ row' = Claimed(row, d)
    /\ spawn' = [spawn EXCEPT ![s].pc = "claimed", ![s].by = d]
    /\ hb' = hb \cup {d}
    /\ UNCHANGED <<ref, job, rec, done>>

SpawnGoto(s, p) == spawn' = [spawn EXCEPT ![s].pc = p]

\* run returns None at once: there is no job for this task type.
NoJobFound(s) ==
    /\ "no job" \in Faults
    /\ spawn[s].pc = "claimed"
    /\ SpawnGoto(s, "empty")
    /\ UNCHANGED <<row, ref, job, rec, done, hb>>

\* The WHERE clause of claim_for_dispatch: unowned, any owner of the
\* gcp_cloud_run_ family, or the dispatcher's own claim.
Dispatchable(r, d) ==
    r.status = "ACTIVE" /\ r.owner \in Spawn \cup {Nobody, d}

\* claim_for_dispatch.
TakeOver(s) ==
    /\ spawn[s].pc = "claimed"
    /\ IF Dispatchable(row, spawn[s].by)
       THEN /\ row' = Claimed(row, s)
            /\ spawn' = [spawn EXCEPT ![s].pc = "launch"]
       ELSE /\ UNCHANGED row
            /\ spawn' = [spawn EXCEPT ![s].pc = "refused"]
    /\ UNCHANGED <<ref, job, rec, done, hb>>

\* After the refusal the owner is read again: a peer's lease is extended and
\* the row left to it, any other row is to be put back to the queue.
Refused(s) ==
    /\ spawn[s].pc = "refused"
    /\ IF row.owner \in Spawn
       THEN row' = Heartbeat(row) /\ SpawnGoto(s, "over")
       ELSE UNCHANGED row /\ SpawnGoto(s, "reset")
    /\ UNCHANGED <<ref, job, rec, done, hb>>

\* reset_task_to_pending by task id, then run returns None.
ResetRow(s) ==
    /\ spawn[s].pc = "reset"
    /\ row' = ResetToPending(row)
    /\ SpawnGoto(s, "empty")
    /\ UNCHANGED <<ref, job, rec, done, hb>>

\* A statement of run before RunJob raises.
RunRaises(s) ==
    /\ spawn[s].pc \in {"claimed", "refused", "reset"}
    /\ SpawnGoto(s, "raised")
    /\ UNCHANGED <<row, ref, job, rec, done, hb>>

\* _dispatch_one on a result of None, the in-process fallback being ruled out
\* for an offloaded task: complete_task under the dispatcher's id.
CompleteEmpty(s) ==
    /\ spawn[s].pc = "empty"
    /\ row' = IF OwnedBy(row, spawn[s].by) THEN Completed(row) ELSE row
    /\ SpawnGoto(s, "over")
    /\ hb' = hb \ {spawn[s].by}
    /\ UNCHANGED <<ref, job, rec, done>>

\* _dispatch_one on an exception: fail_task(retry=True) under that id.
FailRaised(s) ==
    /\ spawn[s].pc = "raised"
    /\ row' = IF OwnedBy(row, spawn[s].by) THEN FailedRetrying(row) ELSE row
    /\ SpawnGoto(s, "over")
    /\ hb' = hb \ {spawn[s].by}
    /\ UNCHANGED <<ref, job, rec, done>>

\* RunJob starts a job with DYNASTORE_EXECUTION_ID = s.  A transient error
\* after the fact leaves the spawner at the same place: it tries again.
RunJob(s, j) ==
    /\ spawn[s].pc = "launch"
    /\ job[j].pc = "none"
    /\ job' = [job EXCEPT ![j] = [id |-> s, pc |-> "boot", cloud |-> "alive",
                                  tries |-> 1]]
    /\ \/ spawn' = [spawn EXCEPT ![s].pc = "ref", ![s].job = j]
       \/ "lost answer" \in Faults /\ UNCHANGED spawn
    /\ UNCHANGED <<row, ref, rec, done, hb>>

\* RunJob gave up: fail_task under the spawn's owner id, retrying after a
\* transient error only; that write may fail too.  Then the error is raised.
RunJobFails(s) ==
    /\ "give up" \in Faults
    /\ spawn[s].pc = "launch"
    /\ row' \in {row} \cup (IF OwnedBy(row, s)
                           THEN {FailedRetrying(row), FailedForGood(row)} ELSE {})
    /\ SpawnGoto(s, IF spawn[s].by = Nobody THEN "over" ELSE "raised")
    /\ UNCHANGED <<ref, job, rec, done, hb>>

\* set_runner_ref: by task id, whoever owns the row by now.
SetRunnerRef(s) ==
    /\ spawn[s].pc = "ref"
    /\ ref' = spawn[s].job
    /\ spawn' = [spawn EXCEPT ![s].pc = "over"]
    /\ UNCHANGED <<row, job, rec, done, hb>>

\* The process of a REST spawner dies, or the write of runner_ref fails.
SpawnerGone(s) ==
    /\ \/ spawn[s].pc = "launch" /\ spawn[s].by = Nobody
       \/ spawn[s].pc = "ref" /\ "lost ref" \in Faults
    /\ SpawnGoto(s, "over")
    /\ UNCHANGED <<row, ref, job, rec, done, hb>>

\* run has returned DEFERRED_COMPLETION, and the dispatcher keeps its entry:
\* its flush goes on extending the row for as long as the process lives.
DispatcherBeat(d) ==
    /\ d \in hb
    /\ row' = Heartbeat(row)
    /\ UNCHANGED <<ref, spawn, job, rec, done, hb>>

\* A dispatcher process dies, with the calls of run it had under way.
DispatcherGone(d) ==
    LET mine == {s \in Spawn : spawn[s].by = d}
    IN  /\ d \in hb
        /\ "lost ref" \in Faults \/ \A s \in mine : spawn[s].pc # "ref"
        /\ hb' = hb \ {d}
        /\ spawn' = [s \in Spawn |-> IF s \in mine
                                     THEN [spawn[s] EXCEPT !.pc = "over"]
                                     ELSE spawn[s]]
        /\ UNCHANGED <<row, ref, job, rec, done>>

----------------------------------------------------------------------------
(* The container. *)

Live(j) == job[j].pc \notin {"none", "exit"}

\* Exit 0: Cloud Run records the job as succeeded.
ExitOk(j) == job' = [job EXCEPT ![j].pc = "exit", ![j].cloud = "succeeded"]

\* A plausible bug: the job is configured to retry without end.
FailedForEver(b) ==
    IF b.cloud = "cancelling"
    THEN [b EXCEPT !.pc = "exit", !.cloud = "cancelled"]
    ELSE [b EXCEPT !.pc = "boot", !.tries = @ + 1]

\* Any other exit: Cloud Run starts the container again while it may, under
\* the same environment.
Failed(b) ==
    CASE b.cloud = "cancelling" -> [b EXCEPT !.pc = "exit", !.cloud = "cancelled"]
      [] b.cloud = "alive" /\ b.tries < MaxTries ->
            [b EXCEPT !.pc = "boot", !.tries = @ + 1]
      [] OTHER -> [b EXCEPT !.pc = "exit", !.cloud = "failed"]

ExitFail(j) == job' = [job EXCEPT ![j] = Failed(@)]

JobGoto(j, p) == job' = [job EXCEPT ![j].pc = p]

\* A plausible bug: the claim takes a row another execution is working on.
ExecutableUnderForeignLease(r, s) == r.status \in {"PENDING", "ACTIVE"}

\* The WHERE clause of claim_for_execution.
Executable(r, s) ==
    /\ r.status \in {"PENDING", "ACTIVE"}
    /\ ~(r.status = "ACTIVE" /\ r.lock = "future" /\ r.owner # s)

\* A plausible bug: the container looks at the row without claiming it.
ClaimForExecutionUnwritten(j) ==
    /\ job[j].pc = "boot"
    /\ IF Executable(row, job[j].id) THEN JobGoto(j, "running") ELSE ExitOk(j)
    /\ UNCHANGED <<row, ref, spawn, rec, done, hb>>

\* claim_for_execution, and the exit of a container it refuses: 1 for a
\* failed task, if its status can be read, and 0 otherwise.
ClaimForExecution(j) ==
    /\ job[j].pc = "boot"
    /\ IF Executable(row, job[j].id)
       THEN row' = Claimed(row, job[j].id) /\ JobGoto(j, "running")
       ELSE /\ UNCHANGED row
            /\ \/ ExitOk(j)
               \/ row.status \in {"FAILED", "DEAD_LETTER"} /\ ExitFail(j)
    /\ UNCHANGED <<ref, spawn, rec, done, hb>>

\* _heartbeat_loop: heartbeat_tasks extends any ACTIVE row.
Beat(j) ==
    /\ job[j].pc \in {"running", "wrap"}
    /\ row' = Heartbeat(row)
    /\ UNCHANGED <<ref, spawn, job, rec, done, hb>>

\* The body returns.
Return(j) ==
    /\ job[j].pc = "running"
    /\ JobGoto(j, "wrap")
    /\ done' = done \cup {j}
    /\ UNCHANGED <<row, ref, spawn, rec, hb>>

\* complete_task without an owner guard, or its failure.
Wrap(j) ==
    /\ job[j].pc = "wrap"
    /\ \/ /\ row' = Completed(row)
          /\ ExitOk(j)
       \/ UNCHANGED row /\ JobGoto(j, "outer")
    /\ UNCHANGED <<ref, spawn, rec, done, hb>>

\* Anything raised before or by the body.
Raise(j) ==
    /\ \/ job[j].pc = "running"
       \/ job[j].pc = "boot" /\ "early raise" \in Faults
    /\ JobGoto(j, "outer")
    /\ UNCHANGED <<row, ref, spawn, rec, done, hb>>

\* PermanentTaskFailure: fail_task(retry=False), then the exception goes on.
RaisePermanent(j) ==
    /\ job[j].pc = "running"
    /\ row' = FailedForGood(row)
    /\ JobGoto(j, "outer")
    /\ UNCHANGED <<ref, spawn, rec, done, hb>>

\* The handler of main for every Exception: fail_task(retry=True) without an
\* owner guard.  report_failure is next if it raised.
OuterHandler(j) ==
    /\ job[j].pc = "outer"
    /\ \/ row' = FailedRetrying(row) /\ ExitFail(j)
       \/ UNCHANGED row /\ JobGoto(j, "report")
    /\ UNCHANGED <<ref, spawn, rec, done, hb>>

\* report_failure: update_task(status=FAILED), best effort.
ReportFailure(j) ==
    /\ job[j].pc = "report"
    /\ \/ row' = [row EXCEPT !.status = "FAILED"]
       \/ UNCHANGED row
    /\ ExitFail(j)
    /\ UNCHANGED <<ref, spawn, rec, done, hb>>

\* CancelledError: a final timeout fails the row under our owner id, anything
\* else resets it to PENDING without a backoff; either write may fail.
Cancelled(j) ==
    /\ job[j].pc \in {"running", "wrap"}
    /\ \/ row' = IF OwnedBy(row, job[j].id) THEN FailedForGood(row) ELSE row
       \/ row' = IF row.status = "ACTIVE"
                 THEN [ResetToPending(row) EXCEPT !.lock = "null"] ELSE row
       \/ UNCHANGED row
    /\ ExitFail(j)
    /\ UNCHANGED <<ref, spawn, rec, done, hb>>

\* Out of memory, SIGKILL: no write at all.
Kill(j) ==
    /\ Live(j)
    /\ ExitFail(j)
    /\ UNCHANGED <<row, ref, spawn, rec, done, hb>>

----------------------------------------------------------------------------
(* The reconcilers: _reconcile_row of the leader's tick, of the stale-row  *)
(* heal and of the backstop, and reconcile_task_liveness of a GET.  Each   *)
(* reads the row, asks Cloud Run, and acts on what it read.                *)

\* select_lapsed_gcp_tasks, select_stale_gcp_tasks and get_task.
Select(c) ==
    /\ rec[c].pc = "idle"
    /\ Reapable(row)
    /\ row.owner \in Spawn
    /\ rec' = [rec EXCEPT ![c] = [Idle EXCEPT !.pc = "probe",
                                  !.owner = row.owner, !.ref = ref]]
    /\ UNCHANGED <<row, ref, spawn, job, done, hb>>

\* select_dismissed_unconfirmed_gcp_tasks.
SelectDismissed(c) ==
    /\ rec[c].pc = "idle"
    /\ UnconfirmedDismissal(row)
    /\ row.owner \in Spawn
    /\ rec' = [rec EXCEPT ![c] = [Idle EXCEPT !.pc = "probe",
                                  !.owner = row.owner, !.ref = ref,
                                  !.dismissed = TRUE]]
    /\ UNCHANGED <<row, ref, spawn, job, done, hb>>

\* _map_execution_state, and DEAD for an execution that is not found.
VerdictOn(j) ==
    CASE job[j].cloud = "succeeded" -> "TERMINAL_SUCCEEDED"
      [] job[j].cloud = "failed" -> "TERMINAL_FAILED"
      [] job[j].cloud \in {"cancelled", "gone"} -> "DEAD"
      [] OTHER -> "ALIVE"

\* probe_liveness: UNKNOWN without a handle, and on any error.
Probe(c) ==
    /\ rec[c].pc = "probe"
    /\ \E v \in {"UNKNOWN"} \cup
              (IF rec[c].ref = Nobody THEN {} ELSE {VerdictOn(rec[c].ref)}) :
          rec' = [rec EXCEPT ![c].pc = "act", ![c].verdict = v]
    /\ UNCHANGED <<row, ref, spawn, job, done, hb>>

\* decide_verdict_action and the write it authorises, for the owner that was
\* read.  UNKNOWN without a handle earns a young row a grace extension.
Reconciled(r, o, h, v) ==
    CASE v \in {"DEAD", "TERMINAL_FAILED"} ->
            {IF OwnedBy(r, o) THEN FailedRetrying(r) ELSE r}
      [] v = "TERMINAL_SUCCEEDED" -> {IF OwnedBy(r, o) THEN Completed(r) ELSE r}
      [] v = "ALIVE" -> {Heartbeat(r)}
      [] OTHER -> {r} \cup (IF h = Nobody THEN {Heartbeat(r)} ELSE {})

Act(c) ==
    /\ rec[c].pc = "act"
    /\ ~rec[c].dismissed
    /\ row' \in Reconciled(row, rec[c].owner, rec[c].ref, rec[c].verdict)
    /\ rec' = [rec EXCEPT ![c] = Idle]
    /\ UNCHANGED <<ref, spawn, job, done, hb>>

Stopped(c) ==
    \/ rec[c].verdict \in {"DEAD", "TERMINAL_SUCCEEDED", "TERMINAL_FAILED"}
    \/ rec[c].verdict = "UNKNOWN" /\ rec[c].ref = Nobody

\* signal_stop and force_stop on the handle that was read; either may fail.
SignalStop(j) ==
    \/ UNCHANGED job
    \/ job[j].cloud = "alive" /\ job' = [job EXCEPT ![j].cloud = "cancelling"]

ForceStop(j) ==
    \/ UNCHANGED job
    \/ job' = [job EXCEPT ![j].cloud = "gone",
                          ![j].pc = IF @ = "none" THEN @ ELSE "exit"]

\* _reconcile_dismissed_row: confirm a stopped job, stop a live one, or tear
\* it down once its deadline has passed and confirm whatever came of it.
ActDismissed(c) ==
    /\ rec[c].pc = "act"
    /\ rec[c].dismissed
    /\ IF Stopped(c)
       THEN row' = DismissStamped(row) /\ UNCHANGED job
       ELSE \/ SignalStop(rec[c].ref) /\ UNCHANGED row
            \/ ForceStop(rec[c].ref) /\ row' = DismissStamped(row)
    /\ rec' = [rec EXCEPT ![c] = Idle]
    /\ UNCHANGED <<ref, spawn, done, hb>>

----------------------------------------------------------------------------
(* The clock, the reaper and the clients. *)

\* Somebody who renews, or is about to hand on, the lease of the row.
Holder ==
    \/ \E s \in Spawn : \/ /\ spawn[s].pc \in {"claimed", "empty", "raised"}
                           /\ row.owner = spawn[s].by
                        \/ spawn[s].pc \in {"launch", "ref"} /\ row.owner = s
    \/ \E j \in Job : /\ job[j].pc \in {"running", "wrap", "outer", "report"}
                      /\ job[j].id = row.owner

\* A lease or a backoff runs out.  That a cold start outlasts its lease is
\* normal; that it runs out under a live holder or heartbeat is a stall.
Lapse ==
    /\ row.lock = "future"
    /\ "stall" \in Faults \/ (~Holder /\ hb = {})
    /\ row' = Lapsed(row)
    /\ UNCHANGED <<ref, spawn, job, rec, done, hb>>

\* reap_stuck_tasks.
Reap ==
    /\ Reapable(row)
    /\ row' = Reaped(row)
    /\ UNCHANGED <<ref, spawn, job, rec, done, hb>>

\* dismiss_job; the stop signal is left to the reconciler.
Dismiss ==
    /\ "dismissal" \in Faults
    /\ row.status \in {"PENDING", "ACTIVE"}
    /\ row' = Dismissed(row, row.status = "PENDING")
    /\ UNCHANGED <<ref, spawn, job, rec, done, hb>>

Spawner(s) ==
    \/ BornClaimed(s)
    \/ \E d \in Dispatcher : Claim(s, d)
    \/ NoJobFound(s) \/ TakeOver(s) \/ Refused(s) \/ ResetRow(s) \/ RunRaises(s)
    \/ CompleteEmpty(s) \/ FailRaised(s)
    \/ \E j \in Job : RunJob(s, j)
    \/ RunJobFails(s) \/ SetRunnerRef(s) \/ SpawnerGone(s)

Container(j) ==
    \/ ClaimForExecution(j) \/ Beat(j) \/ Return(j) \/ Wrap(j)
    \/ Raise(j) \/ RaisePermanent(j) \/ OuterHandler(j) \/ ReportFailure(j)
    \/ Cancelled(j) \/ Kill(j)

Reconcile(c) ==
    Select(c) \/ SelectDismissed(c) \/ Probe(c) \/ Act(c) \/ ActDismissed(c)

Next ==
    \/ Enqueue \/ Lapse \/ Reap \/ Dismiss
    \/ \E s \in Spawn : Spawner(s)
    \/ \E d \in Dispatcher : DispatcherBeat(d) \/ DispatcherGone(d)
    \/ \E j \in Job : Container(j)
    \/ \E c \in Reconciler : Reconcile(c)

Spec == Init /\ [][Next]_vars

\* Time passes, the reaper's pass finds the row in the end, and no spawner
\* or container stays where it is for ever.
FairSpec ==
    /\ Spec
    /\ SF_vars(Lapse)
    /\ SF_vars(Reap)
    /\ \A s \in Spawn :
          WF_vars(\/ TakeOver(s) \/ Refused(s) \/ ResetRow(s)
                  \/ CompleteEmpty(s) \/ FailRaised(s)
                  \/ RunJobFails(s) \/ SetRunnerRef(s))
    /\ \A j \in Job : WF_vars(Kill(j))

----------------------------------------------------------------------------
TypeOK ==
    /\ row \in Row
    /\ ref \in Job \cup {Nobody}
    /\ spawn \in [Spawn -> Spawns]
    /\ job \in [Job -> Jobs]
    /\ rec \in [Reconciler -> Recs]
    /\ done \subseteq Job
    /\ hb \subseteq Dispatcher

Running == {j \in Job : job[j].pc = "running"}

\* The body of a task runs in one container at a time: claim_for_execution
\* refuses a second one ("no double-run").
NoDoubleRun == Cardinality(Running) <= 1

\* A spawn between the claim of its dispatcher and RunJob.
Preparing(s) == spawn[s].pc \in {"claimed", "refused", "reset", "empty", "raised"}

\* A container between its claim and its exit.
Busy(j) == job[j].pc \in {"running", "wrap", "outer", "report"}

JobsTold == \A j \in Job : job[j].pc # "none" =>
    /\ job[j].id \in Spawn
    /\ spawn[job[j].id].job = j /\ spawn[job[j].id].pc \in {"ref", "over"}

SpawnsTold == \A s \in Spawn : Preparing(s) =>
    /\ spawn[s].by \in hb /\ row.owner = spawn[s].by
    /\ \/ /\ row.status = "ACTIVE" /\ row.lock = "future"
          /\ spawn[s].pc \notin {"refused", "reset"}
       \/ row.status = "DISMISSED"
    /\ \A t \in Spawn : Preparing(t) => t = s
    /\ \A j \in Job : ~Busy(j)

BusyTold == \A j \in Job : Busy(j) =>
    /\ \/ row.status = "ACTIVE" /\ row.lock = "future" /\ row.owner = job[j].id
       \/ row.status \in {"DISMISSED", "FAILED"}
    /\ \A k \in Job : Busy(k) => k = j

\* The row tells who works on the task: an execution id is the id of one job, and
\* either one spawn has the row for its dispatcher, or one container has it under
\* its own id, until the row is terminal.
OneAttempt == JobsTold /\ SpawnsTold /\ BusyTold

\* A reconciler ends only the attempt it observed: it never fails or
\* completes the row of an execution that is running.
ReconcilerSpares ==
    [][\A c \in Reconciler :
         Act(c) /\ row'.status # row.status =>
             \A j \in Running : job[j].id # row.owner]_vars

\* A row is COMPLETED only if the body returned in some container.
CompletedMeansDone == row.status = "COMPLETED" => done # {}

\* A finished task is not run again (the #726 regression claim_for_execution
\* is there to prevent).
CompletedStays == [][row.status = "COMPLETED" => row'.status = "COMPLETED"]_vars

\* A task that failed with PermanentTaskFailure is not retried.
PermanentStays == [][row.status = "FAILED" => row'.status # "PENDING"]_vars

\* The dismissal of a task is confirmed only when no container runs it.
ConfirmedMeansStopped ==
    row.status = "DISMISSED" /\ row.confirmed => Running = {}

\* Nobody is left who could finish the attempt the row records.
Abandoned ==
    /\ row.status = "ACTIVE"
    /\ ~Holder
    /\ \A j \in Job : job[j].pc # "boot"

\* An attempt whose spawner or container died, and whose lease no dispatcher
\* goes on extending, does not stay ACTIVE for ever: the lease lapses, and the
\* reaper or a reconciler ends it.
AbandonedReclaimed == Abandoned /\ hb = {} ~> ~Abandoned

\* The comments of _dispatch_one: an offloaded job is bounded by the liveness
\* reconciler, the heartbeat having been handed over with the row.  So a job
\* that died does not leave its row ACTIVE for ever.
DeadJobReclaimed == Abandoned ~> ~Abandoned
=============================================================================
