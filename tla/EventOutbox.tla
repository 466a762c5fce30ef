---------------------------- MODULE EventOutbox ----------------------------
(***************************************************************************)
(* The event outbox: tasks.events, the event_drain rows of tasks.tasks     *)
(* that trigger its drains, the drains (EventDrainTask.run) and the        *)
(* leader's recovery tick (DrainSpawnerService).                           *)
(*                                                                         *)
(* An emitter writes the event and, unless a drain row of that key exists, *)
(* a drain row in one transaction.  A dispatcher claims the drain row and  *)
(* runs it in process, where a session lock lets one drain run at a time,  *)
(* or as a Cloud Run Job, where nothing does.  A run claims a batch of     *)
(* events, delivers each to the listeners, enqueues its webhook task, and  *)
(* acknowledges the batch at the end.                                      *)
(***************************************************************************)
EXTENDS Naturals, FiniteSets

CONSTANTS
    Event,       \* events, one emitting transaction each
    Task,        \* rows of tasks.tasks; the id of a finished row is used again
    Run,         \* executions of EventDrainTask.run, ids used again likewise
    Nobody,
    Gone,        \* stands for the owner_id of any run that is over
    Batch,       \* batch_size
    MaxRetries,  \* max_retries of an event
    MaxFaults,   \* bound: crashes, errors and stalls in one behaviour
    MaxRequeues, \* bound: how often the operator requeues one event
    BusMissing,  \* some process that drains has no EventBusProtocol
    Subscribed   \* a webhook subscription matches the events

ASSUME NobodyAssumption == Nobody # Gone /\ {Nobody, Gone} \cap (Run \cup Event \cup Task) = {}
ASSUME BoundsAssumption ==
    /\ Batch \in Nat \ {0} /\ MaxRetries \in Nat \ {0}
    /\ MaxFaults \in Nat /\ MaxRequeues \in Nat
    /\ BusMissing \in BOOLEAN /\ Subscribed \in BOOLEAN

VARIABLES
    event,    \* tasks.events
    emit,     \* the open transactions of the emitters
    task,     \* the drain rows
    run,      \* the executions
    gate,     \* the holder of DrainSingleFlightGate("events")
    spawner,  \* the recovery tick
    hook,     \* the webhook_delivery task of each event; history: the POSTs
              \* made and the tasks an error kept from being created
    faults,   \* how many faults there were
    tried,    \* history: the events some listener was called for
    heard     \* history: the events all listeners returned for

vars == <<event, emit, task, run, gate, spawner, hook, faults, tried, heard>>

Final == {"COMPLETED", "DEAD_LETTER"}

\* A row of tasks.events; history: how often the operator requeued it, and the
\* retry_count it was requeued with.
NoEvent == [status |-> "NONE", owner |-> Nobody, lock |-> "null", retry |-> 0,
            version |-> 0, requeues |-> 0, floor |-> 0]

\* A row of tasks.tasks; past is what has passed of it: the wedge grace since its
\* timestamp, its locked_until.  beat is on while a dispatcher that started a Job
\* for the row goes on extending its lease, whatever became of the Job.
NoTask == [status |-> "none", key |-> "event_drain", owner |-> Nobody, past |-> {},
           beat |-> "off"]

\* A run: gate (before the single-flight gate), claim (before a drain_once),
\* deliver (a batch claimed), fanout (an event delivered, its webhooks next),
\* handoff (budget exhausted), release (leaving the loop), finish (the report
\* returned), none (over).  batch is what is left of the claimed rows, at the row
\* in hand, ok the completed_rows.
NoRun == [pc |-> "none", task |-> Nobody, where |-> "process", bus |-> "bus",
          batch |-> {}, at |-> Nobody, ok |-> {},
          version |-> [e \in Event |-> 0]]

Init ==
    /\ event = [e \in Event |-> NoEvent]
    /\ emit = [e \in Event |-> "none"]
    /\ task = [t \in Task |-> NoTask]
    /\ run = [r \in Run |-> NoRun]
    /\ gate = Nobody
    /\ spawner = "idle"
    /\ hook = [e \in Event |-> [status |-> "none", posts |-> 0, errors |-> 0]]
    /\ faults = 0
    /\ tried = {}
    /\ heard = {}

----------------------------------------------------------------------------
(* Emitting, and the trigger. *)

Free(t) == task[t].status = "none"

\* The NOT EXISTS of _enqueue_event_drain_trigger without a wedge grace: no
\* row of the key is under way.
NoDrainRow(key) == \A t \in Task : Free(t) \/ task[t].key # key

\* A row PENDING since before the grace, or ACTIVE under a lease that ran out.
Wedged(t) == \/ task[t].status = "PENDING" /\ "grace" \in task[t].past
             \/ task[t].status = "ACTIVE" /\ "lease" \in task[t].past

\* The same with a grace: a wedged row does not block.
NoHealthyDrainRow(key) ==
    \A t \in Task : Free(t) \/ task[t].key # key \/ Wedged(t)

Insert(key) == \E t \in Task :
    Free(t) /\ task' = [task EXCEPT ![t] = [NoTask EXCEPT !.status = "PENDING",
                                                          !.key = key]]

\* The statements of emit_event_row; neither row is visible yet.  An error of the
\* trigger stays inside its savepoint.
Emit(e) ==
    /\ event[e].status = "NONE" /\ emit[e] = "none"
    /\ \E s \in {"alone"} \cup IF NoDrainRow("event_drain") THEN {"trigger"} ELSE {} :
         emit' = [emit EXCEPT ![e] = s]
    /\ UNCHANGED <<event, task, run, gate, spawner, hook, faults, tried, heard>>

\* The outer transaction commits both rows, or neither.
Commit(e) ==
    /\ \/ emit[e] = "trigger" /\ Insert("event_drain")
       \/ emit[e] = "alone" /\ UNCHANGED task
    /\ event' = [event EXCEPT ![e].status = "PENDING"]
    /\ emit' = [emit EXCEPT ![e] = "none"]
    /\ UNCHANGED <<run, gate, spawner, hook, faults, tried, heard>>

Rollback(e) ==
    /\ emit[e] # "none"
    /\ emit' = [emit EXCEPT ![e] = "none"]
    /\ UNCHANGED <<event, task, run, gate, spawner, hook, faults, tried, heard>>

\* A plausible bug: the claim takes PROCESSING rows under a live lease.
ClaimableWhileLeased(e) == event[e].status \in {"PENDING", "PROCESSING"}

\* The predicate of EventDrainTask._claim_batch and _events_backlog_exists.
Claimable(e) ==
    event[e].status \in {"PENDING", "PROCESSING"} /\ event[e].lock # "future"

\* A plausible bug: the recovery tick finds no backlog (its probe fails to False).
BacklogNever == FALSE

Backlog == \E e \in Event : Claimable(e)

\* The probe of _spawn_event_drain, in a transaction of its own.
Probe ==
    /\ spawner = "idle"
    /\ Backlog
    /\ spawner' = "armed"
    /\ UNCHANGED <<event, emit, task, run, gate, hook, faults, tried, heard>>

\* The insertion that follows, if no healthy drain row is there and no error
\* prevents it.
Recover ==
    /\ spawner = "armed"
    /\ \/ NoHealthyDrainRow("event_drain") /\ Insert("event_drain")
       \/ UNCHANGED task
    /\ spawner' = "idle"
    /\ UNCHANGED <<event, emit, run, gate, hook, faults, tried, heard>>

\* The row a requeue writes; claim_version is left as it is.
RequeuedEvent(e, reset) ==
    LET retry == IF reset THEN 0 ELSE event[e].retry
    IN  [event[e] EXCEPT !.status = "PENDING", !.retry = retry, !.floor = retry,
             !.lock = "null", !.owner = Nobody, !.requeues = @ + 1]

\* requeue_dead_letter_events_by_type, or of a single event: one UPDATE, and the
\* trigger in the same transaction.
Requeue(S, reset) ==
    /\ S # {}
    /\ \A e \in S : event[e].status = "DEAD_LETTER" /\ event[e].requeues < MaxRequeues
    /\ event' = [e \in Event |-> IF e \in S THEN RequeuedEvent(e, reset) ELSE event[e]]
    /\ \/ NoDrainRow("event_drain") /\ Insert("event_drain")
       \/ UNCHANGED task
    /\ UNCHANGED <<emit, run, gate, spawner, hook, faults, tried, heard>>

----------------------------------------------------------------------------
(* The drain row in the task queue; TaskQueue has the queue in full. *)

Live(r) == run[r].pc # "none"

Fault == faults < MaxFaults /\ faults' = faults + 1

\* The row is claimed and EventDrainTask.run starts, in process or in a Job.
Start(t, r) ==
    /\ task[t].status = "PENDING"
    /\ ~Live(r)
    /\ \E w \in {"process", "job"}, b \in {"bus"} \cup IF BusMissing THEN {"none"} ELSE {} :
         /\ task' = [task EXCEPT ![t] = [task[t] EXCEPT !.status = "ACTIVE", !.owner = r,
                            !.past = @ \ {"lease"}, !.beat = IF w = "job" THEN "on" ELSE @]]
         /\ run' = [run EXCEPT ![r] = [NoRun EXCEPT !.task = t, !.where = w, !.bus = b,
                                       !.pc = IF w = "job" THEN "claim" ELSE "gate"]]
    /\ UNCHANGED <<event, emit, gate, spawner, hook, faults, tried, heard>>

\* The timestamp of the row passes the wedge grace.
Age(t) ==
    /\ ~Free(t) /\ "grace" \notin task[t].past
    /\ task' = [task EXCEPT ![t].past = @ \cup {"grace"}]
    /\ UNCHANGED <<event, emit, run, gate, spawner, hook, faults, tried, heard>>

\* The lease of the row runs out: a fault while its run or a dispatcher renews it.
Lapse(t) ==
    /\ task[t].status = "ACTIVE" /\ "lease" \notin task[t].past
    /\ task' = [task EXCEPT ![t].past = @ \cup {"lease"}]
    /\ IF task[t].beat = "on" \/ (Live(task[t].owner) /\ run[task[t].owner].task = t)
       THEN Fault ELSE UNCHANGED faults
    /\ UNCHANGED <<event, emit, run, gate, spawner, hook, tried, heard>>

\* The process of such a dispatcher is replaced, or drops its entry for the row.
Recycle(t) ==
    /\ task[t].beat = "on"
    /\ task' = [task EXCEPT ![t].beat = "off"]
    /\ UNCHANGED <<event, emit, run, gate, spawner, hook, faults, tried, heard>>

\* The row after an attempt that failed: queued again, or out of attempts.
Requeued(t) == {[task EXCEPT ![t] = NoTask],
                [task EXCEPT ![t] = [task[t] EXCEPT !.status = "PENDING", !.owner = Nobody]]}

Reap(t) ==
    /\ task[t].status = "ACTIVE" /\ "lease" \in task[t].past
    /\ task' \in Requeued(t)
    /\ UNCHANGED <<event, emit, run, gate, spawner, hook, faults, tried, heard>>

OwnsTask(r) == task[run[r].task].status = "ACTIVE" /\ task[run[r].task].owner = r

GateLeftBy(r) == IF gate = r THEN Nobody ELSE gate

\* The rows a run leaves behind keep an owner_id nobody has any more.
Orphaned(r) ==
    [e \in Event |-> IF event[e].owner = r THEN [event[e] EXCEPT !.owner = Gone]
                                           ELSE event[e]]

\* The process dies: its advisory lock goes with its session, its rows stay.
Crash(r) ==
    /\ Live(r)
    /\ Fault
    /\ run' = [run EXCEPT ![r] = NoRun]
    /\ event' = Orphaned(r)
    /\ gate' = GateLeftBy(r)
    /\ UNCHANGED <<emit, task, spawner, hook, tried, heard>>

\* A database error leaves drain_once or the handoff: run's finally releases the
\* gate and the dispatcher records the failure of the attempt.
Raise(r) ==
    /\ run[r].pc \in {"claim", "deliver", "handoff"}
    /\ Fault
    /\ IF OwnsTask(r) THEN task' \in Requeued(run[r].task) ELSE UNCHANGED task
    /\ run' = [run EXCEPT ![r] = NoRun]
    /\ event' = Orphaned(r)
    /\ gate' = GateLeftBy(r)
    /\ UNCHANGED <<emit, spawner, hook, tried, heard>>

----------------------------------------------------------------------------
(* EventDrainTask.run and drain_once. *)

Goto(r, pc) == run' = [run EXCEPT ![r].pc = pc]

\* DrainSingleFlightGate.acquire: held by another run, this one skips; a
\* failing lane lets it run without the gate.
TakeGate(r) ==
    /\ run[r].pc = "gate"
    /\ \/ gate = Nobody /\ gate' = r /\ Goto(r, "claim") /\ UNCHANGED faults
       \/ gate # Nobody /\ Goto(r, "release") /\ UNCHANGED <<gate, faults>>
       \/ Fault /\ Goto(r, "claim") /\ UNCHANGED gate
    /\ UNCHANGED <<event, emit, task, spawner, hook, tried, heard>>

\* _claim_batch with rows to claim: at most Batch of them, in an order left open.
ClaimBatch(r) ==
    /\ run[r].pc = "claim"
    /\ \E S \in SUBSET {e \in Event : Claimable(e)} :
         /\ S # {} /\ Cardinality(S) <= Batch
         /\ \/ Cardinality(S) = Batch
            \/ \A e \in Event : Claimable(e) => e \in S
         /\ event' = [e \in Event |->
                IF e \in S THEN [event[e] EXCEPT !.status = "PROCESSING", !.owner = r,
                                     !.lock = "future", !.version = @ + 1]
                           ELSE event[e]]
         /\ run' = [run EXCEPT ![r] = [run[r] EXCEPT !.pc = "deliver", !.batch = S,
                !.version = [e \in Event |-> IF e \in S THEN event[e].version + 1 ELSE 0]]]
    /\ UNCHANGED <<emit, task, gate, spawner, hook, faults, tried, heard>>

\* drain_once returned 0: the loop ends.
ClaimNothing(r) ==
    /\ run[r].pc = "claim"
    /\ \A e \in Event : ~Claimable(e)
    /\ Goto(r, "release")
    /\ UNCHANGED <<event, emit, task, gate, spawner, hook, faults, tried, heard>>

\* A plausible bug: the terminal writes match on the event alone.
FencedByNothing(r, e) == TRUE

\* The CAS of _mark_done_many and _mark_retry.
Fenced(r, e) == event[e].owner = r /\ event[e].version = run[r].version[e]

\* A plausible bug: retry_count is compared before it is incremented.
NackedLate(e) ==
    IF event[e].retry >= MaxRetries
    THEN [event[e] EXCEPT !.status = "DEAD_LETTER", !.retry = @ + 1,
                          !.owner = Nobody, !.lock = "null"]
    ELSE [event[e] EXCEPT !.status = "PENDING", !.retry = @ + 1,
                          !.owner = Nobody, !.lock = "future"]

\* The row _mark_retry writes.
Nacked(e) ==
    IF event[e].retry + 1 >= MaxRetries
    THEN [event[e] EXCEPT !.status = "DEAD_LETTER", !.retry = @ + 1,
                          !.owner = Nobody, !.lock = "null"]
    ELSE [event[e] EXCEPT !.status = "PENDING", !.retry = @ + 1,
                          !.owner = Nobody, !.lock = "future"]

MarkRetry(r, e) ==
    event' = IF Fenced(r, e) THEN [event EXCEPT ![e] = Nacked(e)] ELSE event

\* A plausible bug: the webhooks are not fanned out before the ack.
DeliverUnannounced(r, e) ==
    /\ run[r].pc = "deliver" /\ run[r].bus = "bus" /\ e \in run[r].batch
    /\ tried' = tried \cup {e}
    /\ heard' = heard \cup {e}
    /\ run' = [run EXCEPT ![r] = [run[r] EXCEPT !.batch = @ \ {e}, !.ok = @ \cup {e}]]
    /\ UNCHANGED <<event, emit, task, gate, spawner, hook, faults>>

\* dispatch_to_listeners returned for e; its webhooks come next.
Deliver(r, e) ==
    /\ run[r].pc = "deliver" /\ run[r].bus = "bus" /\ e \in run[r].batch
    /\ tried' = tried \cup {e}
    /\ heard' = heard \cup {e}
    /\ run' = [run EXCEPT ![r] = [run[r] EXCEPT !.pc = "fanout", !.batch = @ \ {e}, !.at = e]]
    /\ UNCHANGED <<event, emit, task, gate, spawner, hook, faults>>

\* A plausible bug: the failed row stays among the completed ones.
DeliverFailsUnseen(r, e) ==
    /\ run[r].pc = "deliver" /\ run[r].bus = "bus" /\ e \in run[r].batch
    /\ tried' = tried \cup {e}
    /\ run' = [run EXCEPT ![r] = [run[r] EXCEPT !.batch = @ \ {e}, !.ok = @ \cup {e}]]
    /\ UNCHANGED <<event, emit, task, gate, spawner, hook, faults, heard>>

\* A plausible bug: the failed row is passed over.
DeliverFailsSkipped(r, e) ==
    /\ run[r].pc = "deliver" /\ run[r].bus = "bus" /\ e \in run[r].batch
    /\ tried' = tried \cup {e}
    /\ run' = [run EXCEPT ![r].batch = @ \ {e}]
    /\ UNCHANGED <<event, emit, task, gate, spawner, hook, faults, heard>>

\* A listener raised: the row is retried at once and the batch goes on.
DeliverFails(r, e) ==
    /\ run[r].pc = "deliver" /\ run[r].bus = "bus" /\ e \in run[r].batch
    /\ tried' = tried \cup {e}
    /\ MarkRetry(r, e)
    /\ run' = [run EXCEPT ![r].batch = @ \ {e}]
    /\ UNCHANGED <<emit, task, gate, spawner, hook, faults, heard>>

\* No EventBusProtocol in this process: every claimed row goes to retry.
NoBus(r, e) ==
    /\ run[r].pc = "deliver" /\ run[r].bus = "none" /\ e \in run[r].batch
    /\ MarkRetry(r, e)
    /\ run' = [run EXCEPT ![r].batch = @ \ {e}]
    /\ UNCHANGED <<emit, task, gate, spawner, hook, faults, tried, heard>>

\* _fan_out_webhooks: create_task declines while the delivery task of the same
\* dedup_key is not terminal; a failure is swallowed.
FanOut(r) ==
    /\ run[r].pc = "fanout"
    /\ LET e == run[r].at IN
       /\ \/ /\ Subscribed /\ hook[e].status # "queued"
             /\ hook' = [hook EXCEPT ![e].status = "queued"]
             /\ UNCHANGED faults
          \/ /\ ~Subscribed \/ hook[e].status = "queued"
             /\ UNCHANGED <<hook, faults>>
          \/ Subscribed /\ Fault /\ hook' = [hook EXCEPT ![e].errors = @ + 1]
       /\ run' = [run EXCEPT ![r] = [run[r] EXCEPT !.pc = "deliver", !.at = Nobody,
                                              !.ok = @ \cup {e}]]
    /\ UNCHANGED <<event, emit, task, gate, spawner, tried, heard>>

\* WebhookDeliveryTask.run posts, or its task ends without.
Post(e) ==
    /\ hook[e].status = "queued"
    /\ hook' \in {[hook EXCEPT ![e].status = "over", ![e].posts = @ + 1],
                  [hook EXCEPT ![e].status = "over"]}
    /\ UNCHANGED <<event, emit, task, run, gate, spawner, faults, tried, heard>>

\* _mark_done_many, and the loop's test of the in-process budget.
Ack(r) ==
    /\ run[r].pc = "deliver" /\ run[r].batch = {}
    /\ event' = [e \in Event |->
         IF e \in run[r].ok /\ Fenced(r, e)
         THEN [event[e] EXCEPT !.status = "COMPLETED", !.owner = Nobody,
                               !.lock = "null"]
         ELSE event[e]]
    /\ \E pc \in {"claim"} \cup IF run[r].where = "job" THEN {} ELSE {"handoff"} :
         run' = [run EXCEPT ![r] = [run[r] EXCEPT !.pc = pc, !.ok = {},
                                             !.version = NoRun.version]]
    /\ UNCHANGED <<emit, task, gate, spawner, hook, faults, tried, heard>>

\* _handoff_to_offload_job: a row of a key of its own, unless there is one or the
\* insertion fails.
HandOff(r) ==
    /\ run[r].pc = "handoff"
    /\ \/ NoDrainRow("event_drain_handoff") /\ Insert("event_drain_handoff")
       \/ UNCHANGED task
    /\ Goto(r, "release")
    /\ UNCHANGED <<event, emit, gate, spawner, hook, faults, tried, heard>>

Release(r) ==
    /\ run[r].pc = "release"
    /\ gate' = GateLeftBy(r)
    /\ Goto(r, "finish")
    /\ UNCHANGED <<event, emit, task, spawner, hook, faults, tried, heard>>

\* The dispatcher completes the row, if the run still owns it.
Finish(r) ==
    /\ run[r].pc = "finish"
    /\ task' = IF OwnsTask(r) THEN [task EXCEPT ![run[r].task] = NoTask] ELSE task
    /\ run' = [run EXCEPT ![r] = NoRun]
    /\ UNCHANGED <<event, emit, gate, spawner, hook, faults, tried, heard>>

\* The events a run has claimed and not yet settled.
Held(r) == run[r].batch \cup run[r].ok \cup ({run[r].at} \ {Nobody})

\* A backoff elapses or a lease of lease_seconds runs out; it is not renewed, so
\* a batch that takes longer loses it under way.
Elapse(e) ==
    /\ event[e].lock = "future"
    /\ event' = [event EXCEPT ![e].lock = "past"]
    /\ IF \E r \in Run : event[e].owner = r /\ e \in Held(r)
       THEN Fault ELSE UNCHANGED faults
    /\ UNCHANGED <<emit, task, run, gate, spawner, hook, tried, heard>>

----------------------------------------------------------------------------

Emitter(e) == Emit(e) \/ Commit(e) \/ Rollback(e)

Queue(t) == (\E r \in Run : Start(t, r)) \/ Age(t) \/ Lapse(t) \/ Recycle(t) \/ Reap(t)

Drain(r) ==
    \/ TakeGate(r) \/ ClaimBatch(r) \/ ClaimNothing(r)
    \/ \E e \in Event : Deliver(r, e) \/ DeliverFails(r, e) \/ NoBus(r, e)
    \/ FanOut(r) \/ Ack(r) \/ HandOff(r) \/ Release(r) \/ Finish(r)

Next ==
    \/ \E e \in Event : Emitter(e) \/ Post(e) \/ Elapse(e)
    \/ \E t \in Task : Queue(t)
    \/ \E r \in Run : Drain(r) \/ Crash(r) \/ Raise(r)
    \/ Probe \/ Recover
    \/ \E S \in SUBSET Event, reset \in BOOLEAN : Requeue(S, reset)

Spec == Init /\ [][Next]_vars

\* The dispatcher takes the rows it is offered, the reaper and the recovery tick
\* come round, the insertion of the tick does not fail for ever, a running drain
\* goes on, and time passes.  No emitter is owed a commit or a trigger.
FairSpec ==
    /\ Spec
    /\ WF_vars(Probe) /\ WF_vars(Recover) /\ SF_vars(Recover /\ task' # task)
    /\ \A t \in Task : SF_vars(\E r \in Run : Start(t, r)) /\ WF_vars(Reap(t))
                      /\ WF_vars(Lapse(t) /\ UNCHANGED faults) /\ WF_vars(Age(t))
    /\ \A r \in Run : WF_vars(Drain(r))
    /\ \A e \in Event : WF_vars(Elapse(e))

\* The same where no process lives for ever.
RecycledSpec == FairSpec /\ \A t \in Task : WF_vars(Recycle(t))

----------------------------------------------------------------------------
(* Properties. *)

EventRows == [status : {"NONE", "PENDING", "PROCESSING"} \cup Final,
              owner : Run \cup {Nobody, Gone}, lock : {"null", "future", "past"},
              retry : 0 .. MaxRetries + MaxRequeues, version : Nat,
              requeues : 0 .. MaxRequeues, floor : Nat]

DrainRows == [status : {"none", "PENDING", "ACTIVE"},
              key : {"event_drain", "event_drain_handoff"},
              owner : Run \cup {Nobody}, past : SUBSET {"grace", "lease"},
              beat : {"on", "off"}]

Runs == [pc : {"none", "gate", "claim", "deliver", "fanout", "handoff", "release",
               "finish"},
         task : Task \cup {Nobody}, where : {"process", "job"}, bus : {"bus", "none"},
         batch : SUBSET Event, at : Event \cup {Nobody}, ok : SUBSET Event,
         version : [Event -> Nat]]

\* The states the tables, the runs and the gate can be in.
TypeOK ==
    /\ event \in [Event -> EventRows]
    /\ emit \in [Event -> {"none", "trigger", "alone"}]
    /\ task \in [Task -> DrainRows]
    /\ run \in [Run -> Runs]
    /\ gate \in Run \cup {Nobody}
    /\ spawner \in {"idle", "armed"}
    /\ hook \in [Event -> [status : {"none", "queued", "over"}, posts : Nat,
                           errors : Nat]]
    /\ faults \in 0 .. MaxFaults
    /\ tried \subseteq Event /\ heard \subseteq tried

\* An event is acknowledged only after every listener has returned for it: the
\* single fenced UPDATE at the end of a batch takes in no row whose delivery
\* failed, whichever run held the row before or after.
AckedMeansHeard == \A e \in Event : event[e].status = "COMPLETED" => e \in heard

\* The claim is exclusive: as long as no lease runs out under a live run, no two
\* runs hold the same event, whether they run in process or in Jobs and however
\* many drain rows there are.
ClaimsDisjoint ==
    faults = 0 => \A q, r \in Run : q # r => Held(q) \cap Held(r) = {}

\* A row under a live run's owner_id is a row that run is going to settle, with
\* the claim_version it will present: no path through drain_once leaves a row
\* PROCESSING behind, to wait out its lease.
ClaimsSettled ==
    \A e \in Event, r \in Run :
        event[e].owner = r => e \in Held(r) /\ event[e].version = run[r].version[e]

\* max_retries is a budget of deliveries: an event is dead-lettered by its last
\* failure and not before, and has attempts left while it is not; requeued with
\* its count kept, it has one more attempt each time.
RetriesSpent == \A e \in Event :
    /\ (event[e].status = "DEAD_LETTER") <=>
         (event[e].retry >= MaxRetries /\ event[e].retry > event[e].floor)
    /\ event[e].retry <= MaxRetries + event[e].requeues

\* A row has an owner_id just while it is PROCESSING, no lock once it is settled,
\* is not there before its transaction commits, and no requeue gives it a count
\* beyond what its earlier failures add up to.
RowBooks(e) ==
    /\ emit[e] # "none" => event[e].status = "NONE"
    /\ event[e].status = "PROCESSING" <=> event[e].owner # Nobody
    /\ event[e].status \in Final => event[e].lock = "null"
    /\ event[e].floor <= event[e].retry
    /\ event[e].floor < MaxRetries + event[e].requeues

\* A run holds rows just inside drain_once, each once, and without a fault under
\* a lease that is running; what it is going to acknowledge has been heard.
RunBooks(r) ==
    /\ run[r].pc \notin {"deliver", "fanout"} => Held(r) = {}
    /\ run[r].pc = "fanout" <=> run[r].at # Nobody
    /\ run[r].batch \cap (run[r].ok \cup {run[r].at}) = {}
    /\ run[r].ok \cup ({run[r].at} \ {Nobody}) \subseteq heard
    /\ faults = 0 =>
         \A e \in Held(r) : event[e].owner = r /\ event[e].lock = "future"

\* The table and the runs agree on who holds what, whatever crashes, stalls and
\* takeovers there were: with it the other properties of the claim are inductive.
Bookkeeping == (\A e \in Event : RowBooks(e)) /\ (\A r \in Run : RunBooks(r))

\* A drain that lost its claim never reopens or overturns what a later drain has
\* settled: a completed event stays, a dead-lettered one until the operator
\* requeues it.
SettledStays == [][\A e \in Event : event[e].status \in Final =>
    \/ event'[e] = event[e]
    \/ /\ event[e].status = "DEAD_LETTER"
       /\ event'[e].requeues = event[e].requeues + 1]_vars

\* The delivery task of the event was created, or creating it failed.
Announced(e) == hook[e].status # "none" \/ hook[e].errors > 0

\* The fan-out comes before the ack: an acknowledged event has had its delivery
\* task created, whatever crashes and redeliveries came between, unless creating
\* it failed.  So has every event a run is going to acknowledge.
WebhookBeforeAck ==
    Subscribed => \A e \in Event :
        event[e].status = "COMPLETED" \/ (\E r \in Run : e \in run[r].ok) => Announced(e)

\* Every committed event is delivered or dead-lettered in the end, although the
\* trigger of its emitter may have been declined in favour of a drain that had
\* already looked for the last time, a run may skip because of another that is
\* on its way out, and rows may be left behind by a crash.
Drained == \A e \in Event :
    event[e].status = "PENDING" ~> event[e].status \in Final

\* drain_once: without an event bus "every claimed row is funnelled to retry -
\* never dropped - so a capable pod can deliver it later".
NeverDropped == \A e \in Event : event[e].status = "DEAD_LETTER" => e \in tried

\* _fan_out_webhooks: the dedup_key "gives exactly-once delivery per (event,
\* subscription) across redelivery and pods".
WebhookOnce == \A e \in Event : hook[e].posts <= 1

============================================================================
