------------------------- MODULE EventOutboxProofs -------------------------
(***************************************************************************)
(* What TLAPS proves of the event outbox, for any number of events, drain  *)
(* rows and runs, any batch size, retry budget and number of faults.       *)
(***************************************************************************)
EXTENDS EventOutbox, TLAPS

Invariant == TypeOK /\ Bookkeeping /\ ClaimsSettled /\ RetriesSpent /\ AckedMeansHeard

\* The parts of the state the invariant speaks of, beyond their types.
core == <<event, emit, run, faults, heard>>

LEMMA InitInvariant == Init => Invariant
<1> SUFFICES ASSUME Init PROVE Invariant
    OBVIOUS
<1> USE NobodyAssumption, BoundsAssumption DEF Init
<1>1. TypeOK
    BY DEF TypeOK, EventRows, DrainRows, Runs, NoEvent, NoTask, NoRun, Final
<1>2. \A r \in Run : Held(r) = {}
    BY DEF Held, NoRun
<1>3. Bookkeeping
    BY <1>2 DEF Bookkeeping, RowBooks, RunBooks, NoEvent, NoRun
<1>4. ClaimsSettled /\ RetriesSpent /\ AckedMeansHeard
    BY DEF ClaimsSettled, RetriesSpent, AckedMeansHeard, NoEvent
<1> QED
    BY <1>1, <1>3, <1>4 DEF Invariant

\* A step that leaves the rows, the runs and the histories alone only has types
\* to preserve.
LEMMA CoreUnchanged ==
    ASSUME Invariant, TypeOK', UNCHANGED core
    PROVE  Invariant'
BY DEF Invariant, Bookkeeping, RowBooks, RunBooks, ClaimsSettled, RetriesSpent, AckedMeansHeard, core, Held

\* The types, component by component: the rows and runs as functions, so that a
\* step only has to show what it writes.
LEMMA InsertType ==
    ASSUME task \in [Task -> DrainRows], NEW key \in {"event_drain", "event_drain_handoff"},
           Insert(key)
    PROVE  task' \in [Task -> DrainRows]
<1>1. [NoTask EXCEPT !.status = "PENDING", !.key = key] \in DrainRows
    BY Zenon DEF NoTask, DrainRows
<1> QED
    BY <1>1 DEF Insert

LEMMA RequeuedType ==
    ASSUME task \in [Task -> DrainRows], NEW t \in Task
    PROVE  Requeued(t) \subseteq [Task -> DrainRows]
<1>1. NoTask \in DrainRows /\ [task[t] EXCEPT !.status = "PENDING", !.owner = Nobody] \in DrainRows
    BY Zenon DEF NoTask, DrainRows
<1> QED
    BY <1>1 DEF Requeued

LEMMA OrphanedType ==
    ASSUME event \in [Event -> EventRows], NEW r \in Run
    PROVE  Orphaned(r) \in [Event -> EventRows]
BY DEF Orphaned, EventRows

LEMMA FaultType ==
    ASSUME faults \in 0 .. MaxFaults, Fault
    PROVE  faults' \in 0 .. MaxFaults
BY BoundsAssumption DEF Fault

LEMMA NoRunType == NoRun \in Runs
BY DEF NoRun, Runs

LEMMA TypeEmitter ==
    ASSUME TypeOK, NEW e \in Event, Emitter(e) PROVE TypeOK'
<1>1. CASE Emit(e)
    BY <1>1 DEF Emit, TypeOK
<1>2. CASE Commit(e)
    <2>1. task' \in [Task -> DrainRows]
        BY <1>2, InsertType DEF Commit, TypeOK
    <2>2. event \in [Event -> EventRows] /\ event' = [event EXCEPT ![e].status = "PENDING"]
        BY <1>2 DEF Commit, TypeOK
    <2>3. event' \in [Event -> EventRows]
        BY <2>2 DEF EventRows
    <2> QED
        BY <1>2, <2>1, <2>3 DEF Commit, TypeOK
<1>3. CASE Rollback(e)
    BY <1>3 DEF Rollback, TypeOK
<1> QED
    BY <1>1, <1>2, <1>3 DEF Emitter

LEMMA TypeQueue ==
    ASSUME TypeOK, NEW t \in Task, Queue(t) PROVE TypeOK'
<1>0. task \in [Task -> DrainRows] /\ run \in [Run -> Runs]
    BY DEF TypeOK
<1>1. ASSUME NEW r \in Run, Start(t, r) PROVE TypeOK'
    <2>1. PICK w \in {"process", "job"}, b \in {"bus", "none"} :
            /\ task' = [task EXCEPT ![t] = [task[t] EXCEPT !.status = "ACTIVE", !.owner = r,
                            !.past = @ \ {"lease"}, !.beat = IF w = "job" THEN "on" ELSE @]]
            /\ run' = [run EXCEPT ![r] = [NoRun EXCEPT !.task = t, !.where = w, !.bus = b,
                                          !.pc = IF w = "job" THEN "claim" ELSE "gate"]]
        BY <1>1, Zenon DEF Start
    <2>2. [NoRun EXCEPT !.task = t, !.where = w, !.bus = b,
                        !.pc = IF w = "job" THEN "claim" ELSE "gate"] \in Runs
        BY Zenon DEF Runs, NoRun
    <2>3. run' \in [Run -> Runs]
        BY <1>0, <2>1, <2>2
    <2>4. [task[t] EXCEPT !.status = "ACTIVE", !.owner = r, !.past = @ \ {"lease"},
                          !.beat = IF w = "job" THEN "on" ELSE @] \in DrainRows
        <3>1. task[t] \in DrainRows /\ task[t].past \ {"lease"} \in SUBSET {"grace", "lease"}
            BY <1>0 DEF DrainRows
        <3> QED
            BY <3>1, Zenon DEF DrainRows
    <2>5. task' \in [Task -> DrainRows]
        BY <1>0, <2>1, <2>4
    <2> QED
        BY <1>1, <2>3, <2>5 DEF Start, TypeOK
<1>2. CASE Age(t)
    <2>1. task' = [task EXCEPT ![t].past = @ \cup {"grace"}]
        BY <1>2 DEF Age
    <2>2. task' \in [Task -> DrainRows]
        BY <1>0, <2>1 DEF DrainRows
    <2> QED
        BY <1>2, <2>2 DEF Age, TypeOK
<1>3. CASE Lapse(t)
    <2>1. task' = [task EXCEPT ![t].past = @ \cup {"lease"}]
        BY <1>3 DEF Lapse
    <2>2. task' \in [Task -> DrainRows]
        BY <1>0, <2>1 DEF DrainRows
    <2>3. faults' \in 0 .. MaxFaults
        BY <1>3, FaultType DEF Lapse, TypeOK
    <2> QED
        BY <1>3, <2>2, <2>3 DEF Lapse, TypeOK
<1>4. CASE Reap(t)
    BY <1>4, RequeuedType DEF Reap, TypeOK
<1>5. CASE Recycle(t)
    <2>1. task' \in [Task -> DrainRows]
        BY <1>0, <1>5 DEF Recycle, DrainRows
    <2> QED
        BY <1>5, <2>1 DEF Recycle, TypeOK
<1> QED
    BY <1>1, <1>2, <1>3, <1>4, <1>5 DEF Queue

LEMMA MarkRetryType ==
    ASSUME event \in [Event -> EventRows], RetriesSpent, NEW r \in Run, NEW e \in Event,
           RowBooks(e), event[e].status # "DEAD_LETTER" \/ ~Fenced(r, e), MarkRetry(r, e)
    PROVE  event' \in [Event -> EventRows]
<1>1. CASE ~Fenced(r, e)
    BY <1>1 DEF MarkRetry
<1>2. CASE Fenced(r, e)
    <2>1. event[e] \in EventRows /\ event[e].retry + 1 <= MaxRetries + event[e].requeues
        BY <1>2, BoundsAssumption DEF RetriesSpent, RowBooks, EventRows
    <2>2. event[e].retry + 1 \in 0 .. MaxRetries + MaxRequeues
        BY <2>1, BoundsAssumption DEF EventRows
    <2>3. Nacked(e) \in EventRows
        BY <2>1, <2>2, Zenon DEF Nacked, EventRows, Final
    <2> QED
        BY <1>2, <2>3 DEF MarkRetry
<1> QED
    BY <1>1, <1>2

LEMMA GotoType ==
    ASSUME run \in [Run -> Runs], NEW r \in Run,
           NEW pc \in {"claim", "deliver", "release", "finish"}, Goto(r, pc)
    PROVE  run' \in [Run -> Runs]
<1>1. run[r] \in Runs
    OBVIOUS
<1>2. [run[r] EXCEPT !.pc = pc] \in Runs
    BY <1>1 DEF Runs
<1>3. run' = [run EXCEPT ![r] = [run[r] EXCEPT !.pc = pc]]
    BY DEF Goto
<1> QED
    BY <1>2, <1>3

\* The owner_id of a run is a claim that is PROCESSING, so no other outcome is
\* overwritten by it.
LEMMA FencedIsProcessing ==
    ASSUME Invariant, NEW r \in Run, NEW e \in Event, Fenced(r, e)
    PROVE  event[e].status = "PROCESSING"
BY NobodyAssumption DEF Invariant, Bookkeeping, RowBooks, RunBooks, Fenced

LEMMA TypeDrain ==
    ASSUME Invariant, NEW r \in Run, Drain(r) PROVE TypeOK'
<1>0. /\ TypeOK /\ run \in [Run -> Runs] /\ event \in [Event -> EventRows]
      /\ task \in [Task -> DrainRows] /\ run[r] \in Runs /\ faults \in 0 .. MaxFaults
    BY DEF Invariant, TypeOK
<1>1. CASE TakeGate(r)
    <2>1. run' \in [Run -> Runs]
        BY <1>0, <1>1, GotoType DEF TakeGate
    <2>2. gate' \in Run \cup {Nobody} /\ faults' \in 0 .. MaxFaults
        BY <1>0, <1>1, FaultType DEF TakeGate, TypeOK
    <2> QED
        BY <1>0, <1>1, <2>1, <2>2 DEF TakeGate, TypeOK
<1>2. CASE ClaimBatch(r)
    <2>1. PICK S \in SUBSET Event :
            /\ event' = [e \in Event |->
                 IF e \in S THEN [event[e] EXCEPT !.status = "PROCESSING", !.owner = r,
                                      !.lock = "future", !.version = @ + 1]
                            ELSE event[e]]
            /\ run' = [run EXCEPT ![r] = [run[r] EXCEPT !.pc = "deliver", !.batch = S,
                 !.version = [e \in Event |-> IF e \in S THEN event[e].version + 1 ELSE 0]]]
        BY <1>2, Zenon DEF ClaimBatch
    <2>2. ASSUME NEW e \in Event
          PROVE  [event[e] EXCEPT !.status = "PROCESSING", !.owner = r,
                                  !.lock = "future", !.version = @ + 1] \in EventRows
        <3>1. event[e] \in EventRows /\ event[e].version + 1 \in Nat
            BY <1>0 DEF EventRows
        <3> QED
            BY <3>1, Zenon DEF EventRows
    <2>3. event' \in [Event -> EventRows]
        BY <1>0, <2>1, <2>2, Zenon
    <2>4. [e \in Event |-> IF e \in S THEN event[e].version + 1 ELSE 0] \in [Event -> Nat]
        BY <1>0 DEF EventRows
    <2>5. run' \in [Run -> Runs]
        BY <1>0, <2>1, <2>4, Zenon DEF Runs
    <2> QED
        BY <1>0, <1>2, <2>3, <2>5, Zenon DEF ClaimBatch, TypeOK
<1>3. CASE ClaimNothing(r)
    BY <1>0, <1>3, GotoType DEF ClaimNothing, TypeOK
<1>4. ASSUME NEW e \in Event, Deliver(r, e) PROVE TypeOK'
    <2>1. [run[r] EXCEPT !.pc = "fanout", !.batch = @ \ {e}, !.at = e] \in Runs
        BY <1>0, Zenon DEF Runs
    <2>2. run' = [run EXCEPT ![r] = [run[r] EXCEPT !.pc = "fanout", !.batch = @ \ {e},
                                                   !.at = e]]
        BY <1>4 DEF Deliver
    <2>3. run' \in [Run -> Runs]
        BY <1>0, <2>1, <2>2
    <2> QED
        BY <1>0, <1>4, <2>3 DEF Deliver, TypeOK
<1>5. ASSUME NEW e \in Event, DeliverFails(r, e) \/ NoBus(r, e) PROVE TypeOK'
    <2>1. [run[r] EXCEPT !.batch = @ \ {e}] \in Runs
        BY <1>0 DEF Runs
    <2>2. run' \in [Run -> Runs]
        BY <1>0, <1>5, <2>1, Zenon DEF DeliverFails, NoBus
    <2>3. event' \in [Event -> EventRows]
        BY <1>0, <1>5, MarkRetryType, FencedIsProcessing DEF DeliverFails, NoBus, Invariant,
           Bookkeeping
    <2> QED
        BY <1>0, <1>5, <2>2, <2>3 DEF DeliverFails, NoBus, TypeOK
<1>6. CASE FanOut(r)
    <2>1. run[r].at \in Event
        BY <1>0, <1>6 DEF FanOut, Runs, Invariant, Bookkeeping, RowBooks, RunBooks
    <2>2. [run[r] EXCEPT !.pc = "deliver", !.at = Nobody, !.ok = @ \cup {run[r].at}] \in Runs
        BY <1>0, <2>1, Zenon DEF Runs
    <2>6. run' = [run EXCEPT ![r] = [run[r] EXCEPT !.pc = "deliver", !.at = Nobody,
                                                   !.ok = @ \cup {run[r].at}]]
        BY <1>6 DEF FanOut
    <2>3. run' \in [Run -> Runs]
        BY <1>0, <2>2, <2>6
    <2>4. hook' \in [Event -> [status : {"none", "queued", "over"}, posts : Nat, errors : Nat]]
        BY <1>6, <1>0, <2>1 DEF FanOut, TypeOK
    <2>5. faults' \in 0 .. MaxFaults
        BY <1>0, <1>6, FaultType DEF FanOut
    <2> QED
        BY <1>0, <1>6, <2>3, <2>4, <2>5 DEF FanOut, TypeOK
<1>7. CASE Ack(r)
    <2>1. event' \in [Event -> EventRows]
        <3>1. ASSUME NEW e \in Event
              PROVE  [event[e] EXCEPT !.status = "COMPLETED", !.owner = Nobody,
                                      !.lock = "null"] \in EventRows
            <4>1. event[e] \in EventRows
                BY <1>0
            <4> QED
                BY <4>1, Zenon DEF EventRows, Final
        <3>2. event' = [e \in Event |->
                IF e \in run[r].ok /\ Fenced(r, e)
                THEN [event[e] EXCEPT !.status = "COMPLETED", !.owner = Nobody,
                                      !.lock = "null"]
                ELSE event[e]]
            BY <1>7, Zenon DEF Ack
        <3> QED
            BY <1>0, <3>1, <3>2, Zenon
    <2>2. ASSUME NEW pc \in {"claim", "handoff"}
          PROVE  [run[r] EXCEPT !.pc = pc, !.ok = {}, !.version = NoRun.version] \in Runs
        BY <1>0, Zenon DEF Runs, NoRun
    <2>3. run' \in [Run -> Runs]
        BY <1>0, <1>7, <2>2, Zenon DEF Ack
    <2> QED
        BY <1>0, <1>7, <2>1, <2>3, Zenon DEF Ack, TypeOK
<1>8. CASE HandOff(r)
    <2>1. task' \in [Task -> DrainRows]
        BY <1>0, <1>8, InsertType DEF HandOff
    <2> QED
        BY <1>0, <1>8, <2>1, GotoType DEF HandOff, TypeOK
<1>9. CASE Release(r)
    BY <1>0, <1>9, GotoType DEF Release, GateLeftBy, TypeOK
<1>10. CASE Finish(r)
    <2>1. task' \in [Task -> DrainRows]
        BY <1>0, <1>10, Zenon DEF Finish, NoTask, DrainRows
    <2> QED
        BY <1>0, <1>10, <2>1, NoRunType DEF Finish, TypeOK
<1> QED
    BY <1>1, <1>2, <1>3, <1>4, <1>5, <1>6, <1>7, <1>8, <1>9, <1>10 DEF Drain

LEMMA TypeRest ==
    ASSUME TypeOK,
           \/ Probe \/ Recover
           \/ \E e \in Event : Post(e) \/ Elapse(e)
           \/ \E r \in Run : Crash(r) \/ Raise(r)
    PROVE  TypeOK'
<1>0. /\ run \in [Run -> Runs] /\ event \in [Event -> EventRows]
      /\ task \in [Task -> DrainRows] /\ faults \in 0 .. MaxFaults
    BY DEF TypeOK
<1>1. CASE Probe
    BY <1>1 DEF Probe, TypeOK
<1>2. CASE Recover
    BY <1>2, InsertType DEF Recover, TypeOK
<1>3. ASSUME NEW e \in Event, Post(e) PROVE TypeOK'
    <2>1. hook' \in [Event -> [status : {"none", "queued", "over"}, posts : Nat, errors : Nat]]
        BY <1>3 DEF Post, TypeOK
    <2> QED
        BY <1>3, <2>1 DEF Post, TypeOK
<1>4. ASSUME NEW e \in Event, Elapse(e) PROVE TypeOK'
    <2>1. event' = [event EXCEPT ![e].lock = "past"]
        BY <1>4 DEF Elapse
    <2>2. event' \in [Event -> EventRows]
        BY <1>0, <2>1 DEF EventRows
    <2>3. faults' \in 0 .. MaxFaults
        BY <1>0, <1>4, FaultType DEF Elapse
    <2> QED
        BY <1>4, <2>2, <2>3 DEF Elapse, TypeOK
<1>5. ASSUME NEW r \in Run, Crash(r) \/ Raise(r) PROVE TypeOK'
    <2>1. run' \in [Run -> Runs] /\ event' \in [Event -> EventRows] /\ faults' \in 0 .. MaxFaults
        BY <1>0, <1>5, NoRunType, OrphanedType, FaultType DEF Crash, Raise
    <2>2. gate' \in Run \cup {Nobody}
        BY <1>5 DEF Crash, Raise, GateLeftBy, TypeOK
    <2>3. task' \in [Task -> DrainRows]
        <3>1. CASE OwnsTask(r) /\ run[r].task \in Task
            BY <1>0, <1>5, <3>1, RequeuedType DEF Crash, Raise
        <3>2. CASE run[r].task \notin Task /\ Raise(r)
            <4>1. Requeued(run[r].task) \subseteq {task}
                BY <1>0, <3>2 DEF Requeued
            <4> QED
                BY <1>0, <1>5, <4>1 DEF Crash, Raise
        <3>3. CASE ~OwnsTask(r) \/ Crash(r)
            BY <1>0, <1>5, <3>3 DEF Crash, Raise
        <3> QED
            BY <1>5, <3>1, <3>2, <3>3
    <2> QED
        BY <1>5, <2>1, <2>2, <2>3 DEF Crash, Raise, TypeOK
<1> QED
    BY <1>1, <1>2, <1>3, <1>4, <1>5

----------------------------------------------------------------------------
(* The invariant, action by action. *)

\* A run that only moves between the stages at which it holds nothing.
LEMMA MoveKeeps ==
    ASSUME Invariant, TypeOK', NEW r \in Run,
           run[r].pc \notin {"deliver", "fanout"}, run'[r].pc \notin {"deliver", "fanout"},
           run'[r].batch = {}, run'[r].ok = {}, run'[r].at = Nobody,
           \A q \in Run \ {r} : run'[q] = run[q],
           event' = event, emit' = emit, heard' = heard,
           faults' = faults \/ faults' # 0
    PROVE  Invariant'
<1>1. Held(r) = {} /\ Held(r)' = {}
    BY DEF Invariant, Bookkeeping, RowBooks, RunBooks, Held
<1>2. \A q \in Run : Held(q)' = Held(q)
    BY <1>1 DEF Held
<1>3. Bookkeeping'
    BY <1>1, <1>2 DEF Invariant, Bookkeeping, RowBooks, RunBooks
<1>4. ClaimsSettled'
    <2> SUFFICES ASSUME NEW e \in Event, NEW q \in Run, event[e].owner = q
                 PROVE  e \in Held(q)' /\ event[e].version = run'[q].version[e]
        BY DEF ClaimsSettled
    <2>1. e \in Held(q) /\ event[e].version = run[q].version[e]
        BY DEF Invariant, ClaimsSettled
    <2> QED
        BY <1>1, <1>2, <2>1
<1> QED
    BY <1>3, <1>4 DEF Invariant, RetriesSpent, AckedMeansHeard

LEMMA EmitterKeeps ==
    ASSUME Invariant, TypeOK', NEW e \in Event, Emitter(e) PROVE Invariant'
<1>0. emit \in [Event -> {"none", "trigger", "alone"}] /\ event \in [Event -> EventRows]
    BY DEF Invariant, TypeOK
<1>1. CASE Emit(e) \/ Rollback(e)
    <2>1. \A d \in Event : emit'[d] # "none" => event[d].status = "NONE"
        <3>1. \A d \in Event : emit[d] # "none" => event[d].status = "NONE"
            BY DEF Invariant, Bookkeeping, RowBooks
        <3>2. \A d \in Event : emit'[d] = emit[d] \/ emit'[d] = "none"
                               \/ event[d].status = "NONE"
            BY <1>0, <1>1 DEF Emit, Rollback
        <3> QED
            BY <3>1, <3>2
    <2>2. UNCHANGED <<event, run, faults, heard>>
        BY <1>1 DEF Emit, Rollback
    <2> QED
        BY <2>1, <2>2 DEF Invariant, Bookkeeping, RowBooks, RunBooks, ClaimsSettled, RetriesSpent,
                         AckedMeansHeard, Held
<1>2. CASE Commit(e)
    <2>1. /\ event' = [event EXCEPT ![e].status = "PENDING"]
          /\ emit' = [emit EXCEPT ![e] = "none"] /\ emit[e] # "none"
          /\ UNCHANGED <<run, faults, heard>>
        BY <1>2 DEF Commit
    <2>2. event[e].status = "NONE" /\ event[e].owner = Nobody
        BY <2>1 DEF Invariant, Bookkeeping, RowBooks, RunBooks
    <2>3. \A d \in Event : /\ event'[d].owner = event[d].owner /\ event'[d].lock = event[d].lock
                           /\ event'[d].floor = event[d].floor
                           /\ event'[d].requeues = event[d].requeues
                           /\ event'[d].retry = event[d].retry
                           /\ event'[d].version = event[d].version
                           /\ d # e => event'[d].status = event[d].status
        BY <1>0, <2>1 DEF EventRows
    <2>4. event'[e].status = "PENDING"
        BY <1>0, <2>1 DEF EventRows
    <2>5. Bookkeeping'
        BY <1>0, <2>1, <2>2, <2>3, <2>4
        DEF Invariant, Bookkeeping, RowBooks, RunBooks, Held, Final
    <2>6. ClaimsSettled' /\ RetriesSpent' /\ AckedMeansHeard'
        BY <2>1, <2>2, <2>3, <2>4 DEF Invariant, ClaimsSettled, RetriesSpent,
                                     AckedMeansHeard, Held
    <2> QED
        BY <2>5, <2>6 DEF Invariant
<1> QED
    BY <1>1, <1>2 DEF Emitter

LEMMA QueueKeeps ==
    ASSUME Invariant, TypeOK', NEW t \in Task, Queue(t) PROVE Invariant'
<1>0. run \in [Run -> Runs] /\ faults \in Nat
    BY DEF Invariant, TypeOK
<1>1. ASSUME NEW r \in Run, Start(t, r) PROVE Invariant'
    <2>1. PICK w \in {"process", "job"}, b \in {"bus", "none"} :
            run' = [run EXCEPT ![r] = [NoRun EXCEPT !.task = t, !.where = w, !.bus = b,
                                       !.pc = IF w = "job" THEN "claim" ELSE "gate"]]
        BY <1>1, Zenon DEF Start
    <2>2. /\ run'[r].pc \notin {"deliver", "fanout"}
          /\ run'[r].batch = {} /\ run'[r].ok = {} /\ run'[r].at = Nobody
          /\ \A q \in Run \ {r} : run'[q] = run[q]
        BY <1>0, <2>1 DEF NoRun
    <2> QED
        BY <1>1, <2>2, MoveKeeps DEF Start, Live
<1>2. CASE Age(t) \/ Recycle(t) \/ Reap(t)
    BY <1>2, CoreUnchanged DEF Age, Recycle, Reap, core
<1>3. CASE Lapse(t)
    <2>1. UNCHANGED <<event, emit, run, heard>> /\ (faults' = faults \/ faults' # 0)
        BY <1>0, <1>3 DEF Lapse, Fault
    <2> QED
        BY <2>1 DEF Invariant, Bookkeeping, RowBooks, RunBooks, ClaimsSettled, RetriesSpent,
                    AckedMeansHeard, Held
<1> QED
    BY <1>1, <1>2, <1>3 DEF Queue

LEMMA FaultsKeep ==
    ASSUME Invariant, TypeOK', NEW r \in Run, Crash(r) \/ Raise(r) PROVE Invariant'
<1>0. run \in [Run -> Runs] /\ event \in [Event -> EventRows] /\ faults \in Nat
    BY DEF Invariant, TypeOK
<1>1. /\ run' = [run EXCEPT ![r] = NoRun] /\ event' = Orphaned(r)
      /\ UNCHANGED <<emit, heard>> /\ faults' # 0
    BY <1>0 DEF Crash, Raise, Fault
<1>2. \A e \in Event :
        /\ event'[e].status = event[e].status /\ event'[e].retry = event[e].retry
        /\ event'[e].version = event[e].version /\ event'[e].lock = event[e].lock
        /\ event'[e].owner = IF event[e].owner = r THEN Gone ELSE event[e].owner
        /\ event'[e].floor = event[e].floor /\ event'[e].requeues = event[e].requeues
    BY <1>0, <1>1 DEF Orphaned, EventRows
<1>3. \A q \in Run \ {r} : run'[q] = run[q] /\ Held(q)' = Held(q)
    BY <1>0, <1>1 DEF Held
<1>4. run'[r] = NoRun /\ Held(r)' = {}
    BY <1>0, <1>1 DEF Held, NoRun
<1>5. Bookkeeping'
    <2>1. \A e \in Event : RowBooks(e)'
        BY <1>1, <1>2, NobodyAssumption DEF Invariant, Bookkeeping, RowBooks
    <2>2. RunBooks(r)'
        <3>1. /\ run'[r].pc = "none" /\ run'[r].batch = {} /\ run'[r].ok = {}
              /\ run'[r].at = Nobody
            BY <1>4 DEF NoRun
        <3> QED
            BY <1>4, <3>1 DEF RunBooks
    <2>3. ASSUME NEW q \in Run \ {r} PROVE RunBooks(q)'
        <3>1. heard' = heard /\ faults' # 0 /\ run'[q] = run[q] /\ Held(q)' = Held(q)
            BY <1>1, <1>3
        <3>2. RunBooks(q)
            BY DEF Invariant, Bookkeeping
        <3> QED
            BY <3>1, <3>2 DEF RunBooks
    <2> QED
        BY <2>1, <2>2, <2>3 DEF Bookkeeping
<1>6. ClaimsSettled'
    <2> SUFFICES ASSUME NEW e \in Event, NEW q \in Run, event'[e].owner = q
                 PROVE  e \in Held(q)' /\ event'[e].version = run'[q].version[e]
        BY DEF ClaimsSettled
    <2>1. q # r /\ event[e].owner = q
        BY <1>2, NobodyAssumption
    <2> QED
        BY <1>2, <1>3, <2>1 DEF Invariant, ClaimsSettled
<1>7. RetriesSpent' /\ AckedMeansHeard'
    BY <1>1, <1>2 DEF Invariant, RetriesSpent, AckedMeansHeard
<1> QED
    BY <1>5, <1>6, <1>7 DEF Invariant

LEMMA ElapseKeeps ==
    ASSUME Invariant, TypeOK', NEW e \in Event, Elapse(e) PROVE Invariant'
<1>0. event \in [Event -> EventRows] /\ faults \in Nat
    BY DEF Invariant, TypeOK
<1>1. /\ event' = [event EXCEPT ![e].lock = "past"] /\ UNCHANGED <<emit, run, heard>>
      /\ event[e].lock = "future"
    BY DEF Elapse
<1>2. \A d \in Event :
        /\ event'[d].status = event[d].status /\ event'[d].retry = event[d].retry
        /\ event'[d].version = event[d].version /\ event'[d].owner = event[d].owner
        /\ event'[d].floor = event[d].floor /\ event'[d].requeues = event[d].requeues
        /\ d # e => event'[d].lock = event[d].lock
    BY <1>0, <1>1 DEF EventRows
<1>3. \A r \in Run : Held(r)' = Held(r)
    BY <1>1 DEF Held
<1>4. ASSUME faults' = 0
      PROVE  faults = 0 /\ \A r \in Run : e \notin Held(r)
    <2>1. faults' = faults /\ ~\E r \in Run : event[e].owner = r /\ e \in Held(r)
        BY <1>0, <1>4 DEF Elapse, Fault
    <2> QED
        BY <1>4, <2>1 DEF Invariant, Bookkeeping, RowBooks, RunBooks
<1>5. Bookkeeping'
    BY <1>1, <1>2, <1>3, <1>4 DEF Invariant, Bookkeeping, RowBooks, RunBooks
<1>6. ClaimsSettled' /\ RetriesSpent' /\ AckedMeansHeard'
    BY <1>1, <1>2, <1>3 DEF Invariant, ClaimsSettled, RetriesSpent, AckedMeansHeard
<1> QED
    BY <1>5, <1>6 DEF Invariant

\* The stages of run around drain_once.
LEMMA StagesKeep ==
    ASSUME Invariant, TypeOK', NEW r \in Run,
           TakeGate(r) \/ ClaimNothing(r) \/ HandOff(r) \/ Release(r) \/ Finish(r)
    PROVE  Invariant'
<1>0. run \in [Run -> Runs] /\ faults \in Nat
    BY DEF Invariant, TypeOK
<1>1. run[r].pc \notin {"deliver", "fanout"}
    BY DEF TakeGate, ClaimNothing, HandOff, Release, Finish
<1>2. run[r].batch = {} /\ run[r].ok = {} /\ run[r].at = Nobody
    BY <1>1 DEF Invariant, Bookkeeping, RowBooks, RunBooks, Held
<1>3. /\ UNCHANGED <<event, emit, heard>> /\ (faults' = faults \/ faults' # 0)
    BY <1>0 DEF TakeGate, ClaimNothing, HandOff, Release, Finish, Fault
<1>4. \/ run' = [run EXCEPT ![r] = NoRun]
      \/ \E pc \in {"claim", "release", "finish"} : run' = [run EXCEPT ![r].pc = pc]
    BY DEF TakeGate, ClaimNothing, HandOff, Release, Finish, Goto
<1>5. CASE run' = [run EXCEPT ![r] = NoRun]
    BY <1>0, <1>1, <1>3, <1>5, MoveKeeps DEF NoRun
<1>6. ASSUME NEW pc \in {"claim", "release", "finish"}, run' = [run EXCEPT ![r].pc = pc]
      PROVE  Invariant'
    <2>1. /\ run'[r].pc = pc /\ run'[r].batch = {} /\ run'[r].ok = {} /\ run'[r].at = Nobody
          /\ \A q \in Run \ {r} : run'[q] = run[q]
        BY <1>0, <1>2, <1>6 DEF Runs
    <2> QED
        BY <1>1, <1>3, <2>1, MoveKeeps
<1> QED
    BY <1>4, <1>5, <1>6

LEMMA ClaimBatchKeeps ==
    ASSUME Invariant, TypeOK', NEW r \in Run, ClaimBatch(r) PROVE Invariant'
<1>0. run \in [Run -> Runs] /\ event \in [Event -> EventRows]
    BY DEF Invariant, TypeOK
<1>1. PICK S \in SUBSET Event :
        /\ \A e \in S : Claimable(e)
        /\ event' = [e \in Event |->
             IF e \in S THEN [event[e] EXCEPT !.status = "PROCESSING", !.owner = r,
                                  !.lock = "future", !.version = @ + 1]
                        ELSE event[e]]
        /\ run' = [run EXCEPT ![r] = [run[r] EXCEPT !.pc = "deliver", !.batch = S,
             !.version = [e \in Event |-> IF e \in S THEN event[e].version + 1 ELSE 0]]]
    BY Zenon DEF ClaimBatch
<1>2. UNCHANGED <<emit, faults, heard>> /\ run[r].pc = "claim"
    BY Zenon DEF ClaimBatch
<1>3. Held(r) = {} /\ run[r].ok = {} /\ run[r].at = Nobody
    BY <1>2 DEF Invariant, Bookkeeping, RowBooks, RunBooks, Held
<1>4. /\ run'[r].pc = "deliver" /\ run'[r].ok = {} /\ run'[r].at = Nobody
      /\ run'[r].batch = S
      /\ \A e \in S : run'[r].version[e] = event[e].version + 1
      /\ \A q \in Run \ {r} : run'[q] = run[q]
    <2> DEFINE new == [run[r] EXCEPT !.pc = "deliver", !.batch = S,
             !.version = [e \in Event |-> IF e \in S THEN event[e].version + 1 ELSE 0]]
    <2>1. run'[r] = new /\ \A q \in Run \ {r} : run'[q] = run[q]
        BY <1>0, <1>1, Zenon
    <2>2. run[r] \in Runs
        BY <1>0
    <2>3. /\ new.pc = "deliver" /\ new.ok = run[r].ok /\ new.at = run[r].at
          /\ new.batch = S
          /\ new.version = [e \in Event |-> IF e \in S THEN event[e].version + 1 ELSE 0]
        BY <2>2 DEF Runs
    <2> HIDE DEF new
    <2> QED
        BY <1>3, <2>1, <2>3
<1>5. Held(r)' = S /\ \A q \in Run \ {r} : Held(q)' = Held(q)
    BY <1>4 DEF Held
<1>6. /\ \A e \in S : /\ event'[e].status = "PROCESSING" /\ event'[e].owner = r
                      /\ event'[e].lock = "future" /\ event'[e].retry = event[e].retry
                      /\ event'[e].version = event[e].version + 1
                      /\ event'[e].floor = event[e].floor
                      /\ event'[e].requeues = event[e].requeues
      /\ \A e \in Event \ S : event'[e] = event[e]
    <2>1. \A e \in Event \ S : event'[e] = event[e]
        BY <1>1, Zenon
    <2>2. ASSUME NEW e \in S
          PROVE  /\ event'[e].status = "PROCESSING" /\ event'[e].owner = r
                 /\ event'[e].lock = "future" /\ event'[e].retry = event[e].retry
                 /\ event'[e].version = event[e].version + 1
                 /\ event'[e].floor = event[e].floor
                 /\ event'[e].requeues = event[e].requeues
        <3>1. event[e] \in EventRows
            BY <1>0
        <3>2. event'[e] = [event[e] EXCEPT !.status = "PROCESSING", !.owner = r,
                                           !.lock = "future", !.version = @ + 1]
            BY <1>1, Zenon
        <3> QED
            BY <3>1, <3>2 DEF EventRows
    <2> QED
        BY <2>1, <2>2
<1>7. \A e \in S : event[e].status \in {"PENDING", "PROCESSING"} /\ event[e].lock # "future"
    BY <1>1, Zenon DEF Claimable
<1>8. Bookkeeping'
    <2>1. \A e \in Event : RowBooks(e)'
        BY <1>2, <1>6, <1>7, NobodyAssumption DEF Invariant, Bookkeeping, RowBooks, Final
    <2>2. ASSUME NEW q \in Run \ {r}, NEW e \in Held(q), faults = 0
          PROVE  event'[e].owner = q /\ event'[e].lock = "future"
        <3>1. event[e].owner = q /\ event[e].lock = "future"
            BY <2>2 DEF Invariant, Bookkeeping, RowBooks, RunBooks
        <3>2. e \in Event
            BY <1>0, <2>2 DEF Held, Runs
        <3> QED
            BY <1>6, <1>7, <3>1, <3>2
    <2>3. ASSUME NEW q \in Run \ {r}
          PROVE  RunBooks(q)'
        BY <1>2, <1>4, <1>5, <2>2 DEF Invariant, Bookkeeping, RowBooks, RunBooks
    <2>4. RunBooks(r)'
        <3>1. /\ run'[r].pc = "fanout" <=> run'[r].at # Nobody
              /\ run'[r].pc \notin {"deliver", "fanout"} => Held(r)' = {}
            BY <1>4
        <3>2. /\ run'[r].batch \cap (run'[r].ok \cup {run'[r].at}) = {}
              /\ run'[r].ok \cup ({run'[r].at} \ {Nobody}) \subseteq heard'
            BY <1>4, NobodyAssumption
        <3>3. \A e \in Held(r)' : event'[e].owner = r /\ event'[e].lock = "future"
            BY <1>5, <1>6
        <3> QED
            BY <3>1, <3>2, <3>3 DEF RunBooks
    <2> QED
        BY <2>1, <2>3, <2>4 DEF Bookkeeping
<1>9. ClaimsSettled'
    <2> SUFFICES ASSUME NEW e \in Event, NEW q \in Run, event'[e].owner = q
                 PROVE  e \in Held(q)' /\ event'[e].version = run'[q].version[e]
        BY DEF ClaimsSettled
    <2>1. CASE e \in S
        BY <1>4, <1>5, <1>6, <2>1
    <2>2. CASE e \notin S
        <3>1. e \in Held(q) /\ event[e].version = run[q].version[e]
            BY <1>6, <2>2 DEF Invariant, ClaimsSettled
        <3> QED
            BY <1>3, <1>4, <1>5, <1>6, <2>2, <3>1
    <2> QED
        BY <2>1, <2>2
<1>10. RetriesSpent' /\ AckedMeansHeard'
    BY <1>2, <1>6, <1>7 DEF Invariant, RetriesSpent, AckedMeansHeard
<1> QED
    BY <1>8, <1>9, <1>10 DEF Invariant

LEMMA DeliverKeeps ==
    ASSUME Invariant, TypeOK', NEW r \in Run, NEW e \in Event, Deliver(r, e)
    PROVE  Invariant'
<1>0. run \in [Run -> Runs] /\ heard \subseteq Event
    BY DEF Invariant, TypeOK
<1>1. /\ UNCHANGED <<event, emit, faults>> /\ heard' = heard \cup {e}
      /\ run' = [run EXCEPT ![r] = [run[r] EXCEPT !.pc = "fanout", !.batch = @ \ {e},
                                                  !.at = e]]
      /\ run[r].pc = "deliver" /\ e \in run[r].batch
    BY DEF Deliver
<1>2. /\ run'[r].pc = "fanout" /\ run'[r].batch = run[r].batch \ {e}
      /\ run'[r].at = e /\ run'[r].ok = run[r].ok /\ run'[r].version = run[r].version
      /\ \A q \in Run \ {r} : run'[q] = run[q]
    BY <1>0, <1>1 DEF Runs
<1>3. run[r].at = Nobody /\ e # Nobody
    BY <1>1, NobodyAssumption DEF Invariant, Bookkeeping, RowBooks, RunBooks
<1>4. \A q \in Run : Held(q)' = Held(q)
    BY <1>1, <1>2, <1>3 DEF Held
<1>5. Bookkeeping'
    BY <1>1, <1>2, <1>3, <1>4 DEF Invariant, Bookkeeping, RowBooks, RunBooks
<1>6. ClaimsSettled' /\ RetriesSpent' /\ AckedMeansHeard'
    BY <1>1, <1>2, <1>4 DEF Invariant, ClaimsSettled, RetriesSpent, AckedMeansHeard
<1> QED
    BY <1>5, <1>6 DEF Invariant

\* _mark_retry: the row leaves the run, and the run the row.
LEMMA RetryKeeps ==
    ASSUME Invariant, TypeOK', NEW r \in Run, NEW e \in Event,
           DeliverFails(r, e) \/ NoBus(r, e)
    PROVE  Invariant'
<1>0. run \in [Run -> Runs] /\ event \in [Event -> EventRows]
    BY DEF Invariant, TypeOK
<1>1. /\ UNCHANGED <<emit, faults, heard>> /\ MarkRetry(r, e)
      /\ run' = [run EXCEPT ![r].batch = @ \ {e}]
      /\ run[r].pc = "deliver" /\ e \in run[r].batch
    BY DEF DeliverFails, NoBus
<1>2. /\ run'[r].pc = "deliver" /\ run'[r].batch = run[r].batch \ {e}
      /\ run'[r].at = run[r].at /\ run'[r].ok = run[r].ok
      /\ run'[r].version = run[r].version
      /\ \A q \in Run \ {r} : run'[q] = run[q]
    BY <1>0, <1>1 DEF Runs
<1>3. /\ Held(r) \ {e} \subseteq Held(r)' /\ Held(r)' \subseteq Held(r)
      /\ \A q \in Run \ {r} : Held(q)' = Held(q)
    BY <1>2 DEF Held
<1>4. \A d \in Event \ {e} : event'[d] = event[d]
    BY <1>0, <1>1 DEF MarkRetry
<1>5. /\ Fenced(r, e) =>
           /\ event[e].status = "PROCESSING" /\ event'[e].owner = Nobody
           /\ event'[e].retry = event[e].retry + 1
           /\ event'[e].status = IF event[e].retry + 1 >= MaxRetries
                                 THEN "DEAD_LETTER" ELSE "PENDING"
           /\ event'[e].status = "DEAD_LETTER" => event'[e].lock = "null"
           /\ event'[e].floor = event[e].floor /\ event'[e].requeues = event[e].requeues
      /\ ~Fenced(r, e) => event'[e] = event[e]
    <2>1. Fenced(r, e) => event'[e] = Nacked(e) /\ event[e].status = "PROCESSING"
        BY <1>0, <1>1, FencedIsProcessing DEF MarkRetry
    <2>2. event[e] \in EventRows
        BY <1>0
    <2>3. /\ Nacked(e).owner = Nobody /\ Nacked(e).retry = event[e].retry + 1
          /\ Nacked(e).status = IF event[e].retry + 1 >= MaxRetries
                                THEN "DEAD_LETTER" ELSE "PENDING"
          /\ Nacked(e).status = "DEAD_LETTER" => Nacked(e).lock = "null"
          /\ Nacked(e).floor = event[e].floor /\ Nacked(e).requeues = event[e].requeues
        BY <2>2, BoundsAssumption DEF Nacked, EventRows
    <2> QED
        BY <1>1, <2>1, <2>3 DEF MarkRetry
<1>6. event[e].owner = r <=> Fenced(r, e)
    BY DEF Invariant, ClaimsSettled, Fenced
<1>7. e \notin Held(r)'
    BY <1>1, <1>2, NobodyAssumption DEF Held, Invariant, Bookkeeping, RunBooks
<1>8. Bookkeeping'
    <2>1. ASSUME NEW d \in Event PROVE RowBooks(d)'
        <3>1. RowBooks(d) /\ event[d] \in EventRows
            BY <1>0 DEF Invariant, Bookkeeping
        <3>2. CASE d = e /\ Fenced(r, e)
            <4>1. /\ emit'[e] # "none" => event'[e].status = "NONE"
                  /\ event'[e].status = "PROCESSING" <=> event'[e].owner # Nobody
                  /\ event'[e].status \in Final => event'[e].lock = "null"
                BY <1>1, <1>5, <3>1, <3>2 DEF RowBooks, Final
            <4>2. /\ event'[e].floor <= event'[e].retry
                  /\ event'[e].floor < MaxRetries + event'[e].requeues
                <5>1. /\ event[e].floor \in Nat /\ event[e].retry \in Nat
                      /\ event[e].floor <= event[e].retry
                      /\ event[e].floor < MaxRetries + event[e].requeues
                    BY <3>1, <3>2, BoundsAssumption DEF RowBooks, EventRows
                <5>2. /\ event'[e].floor = event[e].floor
                      /\ event'[e].retry = event[e].retry + 1
                      /\ event'[e].requeues = event[e].requeues
                    BY <1>5, <3>2
                <5> QED
                    BY <5>1, <5>2
            <4> QED
                BY <3>2, <4>1, <4>2 DEF RowBooks
        <3>3. CASE event'[d] = event[d]
            BY <1>1, <3>1, <3>3 DEF RowBooks
        <3> QED
            BY <1>4, <1>5, <3>2, <3>3
    <2>2. ASSUME NEW q \in Run, NEW d \in Held(q)', faults = 0
          PROVE  event'[d].owner = q /\ event'[d].lock = "future"
        <3>1. d \in Held(q) /\ d \in Event
            BY <1>0, <1>3, <2>2 DEF Held, Runs
        <3>2. event[d].owner = q /\ event[d].lock = "future"
            BY <2>2, <3>1 DEF Invariant, Bookkeeping, RunBooks
        <3> QED
            BY <1>4, <1>5, <1>6, <1>7, <2>2, <3>1, <3>2
    <2>3. ASSUME NEW q \in Run PROVE RunBooks(q)'
        <3>1. CASE q = r
            BY <1>1, <1>2, <2>2, <3>1 DEF Invariant, Bookkeeping, RunBooks
        <3>2. CASE q # r
            BY <1>1, <1>2, <1>3, <2>2, <3>2 DEF Invariant, Bookkeeping, RunBooks
        <3> QED
            BY <3>1, <3>2
    <2> QED
        BY <2>1, <2>3 DEF Bookkeeping
<1>9. ClaimsSettled'
    <2> SUFFICES ASSUME NEW d \in Event, NEW q \in Run, event'[d].owner = q
                 PROVE  d \in Held(q)' /\ event'[d].version = run'[q].version[d]
        BY DEF ClaimsSettled
    <2>1. event'[d] = event[d] /\ (d = e => q # r)
        BY <1>4, <1>5, <1>6, NobodyAssumption
    <2>2. d \in Held(q) /\ event[d].version = run[q].version[d]
        BY <2>1 DEF Invariant, ClaimsSettled
    <2> QED
        BY <1>2, <1>3, <2>1, <2>2
<1>10. RetriesSpent'
    <2>1. /\ event[e].retry \in Nat /\ event[e].floor \in Nat /\ event[e].requeues \in Nat
          /\ (event[e].status = "DEAD_LETTER") <=>
               (event[e].retry >= MaxRetries /\ event[e].retry > event[e].floor)
          /\ event[e].retry <= MaxRetries + event[e].requeues
          /\ event[e].floor <= event[e].retry
          /\ event[e].floor < MaxRetries + event[e].requeues
        BY <1>0, BoundsAssumption DEF EventRows, Invariant, RetriesSpent, Bookkeeping, RowBooks
    <2>2. /\ (event'[e].status = "DEAD_LETTER") <=>
               (event'[e].retry >= MaxRetries /\ event'[e].retry > event'[e].floor)
          /\ event'[e].retry <= MaxRetries + event'[e].requeues
        <3>1. CASE Fenced(r, e)
            BY <1>5, <2>1, <3>1, BoundsAssumption
        <3>2. CASE ~Fenced(r, e)
            BY <1>5, <2>1, <3>2
        <3> QED
            BY <3>1, <3>2
    <2> QED
        BY <1>4, <2>2 DEF Invariant, RetriesSpent
<1>11. AckedMeansHeard'
    BY <1>1, <1>4, <1>5 DEF Invariant, AckedMeansHeard
<1> QED
    BY <1>8, <1>9, <1>10, <1>11 DEF Invariant

LEMMA FanOutKeeps ==
    ASSUME Invariant, TypeOK', NEW r \in Run, FanOut(r) PROVE Invariant'
<1>0. run \in [Run -> Runs] /\ faults \in Nat
    BY DEF Invariant, TypeOK
<1>1. /\ UNCHANGED <<event, emit, heard>> /\ run[r].pc = "fanout"
      /\ run' = [run EXCEPT ![r] = [run[r] EXCEPT !.pc = "deliver", !.at = Nobody,
                                                  !.ok = @ \cup {run[r].at}]]
    BY DEF FanOut
<1>2. faults' = faults \/ faults' # 0
    BY <1>0 DEF FanOut, Fault
<1>3. /\ run'[r].pc = "deliver" /\ run'[r].batch = run[r].batch /\ run'[r].at = Nobody
      /\ run'[r].ok = run[r].ok \cup {run[r].at} /\ run'[r].version = run[r].version
      /\ \A q \in Run \ {r} : run'[q] = run[q]
    BY <1>0, <1>1 DEF Runs
<1>4. run[r].at # Nobody
    BY <1>1 DEF Invariant, Bookkeeping, RunBooks
<1>5. \A q \in Run : Held(q)' = Held(q)
    BY <1>3, <1>4 DEF Held
<1>6. ASSUME NEW q \in Run PROVE RunBooks(q)'
    <2>1. CASE q = r
        <3>1. run[r].batch \subseteq Event
            BY <1>0 DEF Runs
        <3>2. run'[r].batch \cap (run'[r].ok \cup {run'[r].at}) = {}
            BY <1>3, <3>1, NobodyAssumption DEF Invariant, Bookkeeping, RunBooks
        <3>3. run'[r].ok \cup ({run'[r].at} \ {Nobody}) \subseteq heard'
            BY <1>1, <1>3, <1>4 DEF Invariant, Bookkeeping, RunBooks
        <3> QED
            BY <1>1, <1>2, <1>3, <1>5, <2>1, <3>2, <3>3 DEF Invariant, Bookkeeping, RunBooks
    <2>2. CASE q # r
        BY <1>1, <1>2, <1>3, <1>5, <2>2 DEF Invariant, Bookkeeping, RunBooks
    <2> QED
        BY <2>1, <2>2
<1>7. Bookkeeping'
    BY <1>1, <1>6 DEF Invariant, Bookkeeping, RowBooks
<1>8. ClaimsSettled' /\ RetriesSpent' /\ AckedMeansHeard'
    BY <1>1, <1>3, <1>5 DEF Invariant, ClaimsSettled, RetriesSpent, AckedMeansHeard
<1> QED
    BY <1>7, <1>8 DEF Invariant

LEMMA AckKeeps ==
    ASSUME Invariant, TypeOK', NEW r \in Run, Ack(r) PROVE Invariant'
<1>0. run \in [Run -> Runs] /\ event \in [Event -> EventRows]
    BY DEF Invariant, TypeOK
<1>a. emit' = emit /\ faults' = faults /\ heard' = heard
    BY Zenon DEF Ack
<1>1. /\ run[r].pc = "deliver" /\ run[r].batch = {}
      /\ event' = [e \in Event |->
           IF e \in run[r].ok /\ Fenced(r, e)
           THEN [event[e] EXCEPT !.status = "COMPLETED", !.owner = Nobody, !.lock = "null"]
           ELSE event[e]]
    BY Zenon DEF Ack
<1>2. PICK pc \in {"claim", "handoff"} :
        run' = [run EXCEPT ![r] = [run[r] EXCEPT !.pc = pc, !.ok = {},
                                                 !.version = NoRun.version]]
    BY Zenon DEF Ack
<1>3. run[r].at = Nobody
    BY <1>1, Zenon DEF Invariant, Bookkeeping, RunBooks
<1>4. /\ run'[r].pc = pc /\ run'[r].batch = {} /\ run'[r].at = Nobody /\ run'[r].ok = {}
      /\ \A q \in Run \ {r} : run'[q] = run[q]
    BY <1>0, <1>1, <1>2, <1>3, Zenon DEF Runs
<1>5. /\ Held(r) = run[r].ok /\ Held(r)' = {}
      /\ \A q \in Run \ {r} : Held(q)' = Held(q)
    BY <1>1, <1>3, <1>4, Zenon DEF Held
<1>6. \A e \in Event : event[e].owner = r <=> e \in run[r].ok /\ Fenced(r, e)
    BY <1>5 DEF Invariant, ClaimsSettled, Fenced
<1>7. \A e \in Event :
        /\ event[e].owner # r => event'[e] = event[e]
        /\ event[e].owner = r => /\ event'[e].status = "COMPLETED"
                                 /\ event'[e].owner = Nobody /\ event'[e].lock = "null"
                                 /\ event'[e].retry = event[e].retry
                                 /\ event'[e].floor = event[e].floor
                                 /\ event'[e].requeues = event[e].requeues
                                 /\ event[e].status = "PROCESSING" /\ e \in heard
    <2> SUFFICES ASSUME NEW e \in Event
                 PROVE  /\ event[e].owner # r => event'[e] = event[e]
                        /\ event[e].owner = r =>
                             /\ event'[e].status = "COMPLETED"
                             /\ event'[e].owner = Nobody /\ event'[e].lock = "null"
                             /\ event'[e].retry = event[e].retry
                             /\ event'[e].floor = event[e].floor
                             /\ event'[e].requeues = event[e].requeues
                             /\ event[e].status = "PROCESSING" /\ e \in heard
        OBVIOUS
    <2>1. event[e] \in EventRows
        BY <1>0
    <2>2. event[e].owner = r => event[e].status = "PROCESSING" /\ e \in heard
        BY <1>6, FencedIsProcessing DEF Invariant, Bookkeeping, RunBooks
    <2> QED
        BY <1>1, <1>6, <2>1, <2>2, Zenon DEF EventRows
<1>8. Bookkeeping'
    <2>1. ASSUME NEW e \in Event PROVE RowBooks(e)'
        <3>1. CASE event[e].owner = r
            <4>1. emit'[e] = "none"
                BY <1>a, <1>7, <3>1 DEF Invariant, Bookkeeping, RowBooks
            <4> QED
                BY <1>7, <3>1, <4>1 DEF Invariant, Bookkeeping, RowBooks
        <3>2. CASE event[e].owner # r
            BY <1>a, <1>7, <3>2 DEF Invariant, Bookkeeping, RowBooks
        <3> QED
            BY <3>1, <3>2
    <2>2. RunBooks(r)'
        BY <1>4, <1>5 DEF RunBooks
    <2>3. ASSUME NEW q \in Run \ {r} PROVE RunBooks(q)'
        <3>1. ASSUME NEW e \in Held(q), faults = 0
              PROVE  event'[e].owner = q /\ event'[e].lock = "future"
            <4>1. event[e].owner = q /\ event[e].lock = "future" /\ e \in Event
                BY <1>0, <3>1, NobodyAssumption DEF Invariant, Bookkeeping, RunBooks, Held, Runs
            <4> QED
                BY <1>7, <4>1
        <3> QED
            BY <1>a, <1>4, <1>5, <3>1 DEF Invariant, Bookkeeping, RunBooks
    <2> QED
        BY <2>1, <2>2, <2>3 DEF Bookkeeping
<1>9. ClaimsSettled'
    <2> SUFFICES ASSUME NEW e \in Event, NEW q \in Run, event'[e].owner = q
                 PROVE  e \in Held(q)' /\ event'[e].version = run'[q].version[e]
        BY DEF ClaimsSettled
    <2>1. q # r /\ event[e].owner = q /\ event'[e] = event[e]
        BY <1>7, NobodyAssumption
    <2> QED
        BY <1>4, <1>5, <2>1 DEF Invariant, ClaimsSettled
<1>10. RetriesSpent' /\ AckedMeansHeard'
    BY <1>a, <1>7 DEF Invariant, RetriesSpent, AckedMeansHeard
<1> QED
    BY <1>8, <1>9, <1>10 DEF Invariant

\* The operator's requeue: the row leaves DEAD_LETTER with its budget, or with
\* the count it has.
LEMMA RequeueKeeps ==
    ASSUME Invariant, NEW S \in SUBSET Event, NEW reset \in BOOLEAN, Requeue(S, reset)
    PROVE  Invariant'
<1>0. event \in [Event -> EventRows] /\ task \in [Task -> DrainRows]
    BY DEF Invariant, TypeOK
<1>1. UNCHANGED <<emit, run, gate, spawner, hook, faults, tried, heard>>
    BY DEF Requeue
<1>2. \A e \in Event : event'[e] = IF e \in S THEN RequeuedEvent(e, reset) ELSE event[e]
    BY DEF Requeue
<1>3. ASSUME NEW e \in S
      PROVE  /\ event'[e] \in EventRows
             /\ event[e].status = "DEAD_LETTER" /\ event'[e].status = "PENDING"
             /\ event'[e].owner = Nobody /\ event[e].owner = Nobody
             /\ event'[e].requeues = event[e].requeues + 1
             /\ event'[e].floor = event'[e].retry
             /\ event'[e].retry \in {0, event[e].retry}
    <2>1. event[e] \in EventRows /\ event[e].requeues < MaxRequeues
          /\ event[e].status = "DEAD_LETTER" /\ event'[e] = RequeuedEvent(e, reset)
        BY <1>0, <1>2 DEF Requeue
    <2>2. event[e].owner = Nobody
        BY <2>1 DEF Invariant, Bookkeeping, RowBooks
    <2>3. event[e].requeues + 1 \in 0 .. MaxRequeues /\ 0 \in 0 .. MaxRetries + MaxRequeues
        BY <2>1, BoundsAssumption DEF EventRows
    <2>4. RequeuedEvent(e, reset) \in EventRows
        <3> DEFINE retry == IF reset THEN 0 ELSE event[e].retry
        <3>1. retry \in 0 .. MaxRetries + MaxRequeues /\ retry \in Nat
            BY <2>1, <2>3, BoundsAssumption DEF EventRows
        <3>2. RequeuedEvent(e, reset) =
                [event[e] EXCEPT !.status = "PENDING", !.retry = retry, !.floor = retry,
                     !.lock = "null", !.owner = Nobody, !.requeues = @ + 1]
            BY DEF RequeuedEvent
        <3> HIDE DEF retry
        <3> QED
            BY <2>1, <2>3, <3>1, <3>2, Zenon DEF EventRows
    <2>5. /\ RequeuedEvent(e, reset).status = "PENDING"
          /\ RequeuedEvent(e, reset).owner = Nobody
          /\ RequeuedEvent(e, reset).requeues = event[e].requeues + 1
          /\ RequeuedEvent(e, reset).floor = RequeuedEvent(e, reset).retry
          /\ RequeuedEvent(e, reset).retry \in {0, event[e].retry}
        BY <2>1 DEF RequeuedEvent, EventRows
    <2> QED
        BY <2>1, <2>2, <2>4, <2>5
<1>4. TypeOK'
    <2>1. event' \in [Event -> EventRows]
        <3>1. event' = [e \in Event |-> event'[e]]
            BY DEF Requeue
        <3>2. \A e \in Event : event'[e] \in EventRows
            BY <1>0, <1>2, <1>3
        <3> QED
            BY <3>1, <3>2
    <2>2. task' \in [Task -> DrainRows]
        BY <1>0, InsertType DEF Requeue
    <2> QED
        BY <1>1, <2>1, <2>2 DEF Invariant, TypeOK
<1>5. \A r \in Run : Held(r)' = Held(r)
    BY <1>1 DEF Held
<1>6. ASSUME NEW e \in S
      PROVE  /\ event[e].retry \in Nat /\ event[e].requeues \in Nat
             /\ event[e].retry <= MaxRetries + event[e].requeues
    BY <1>0, BoundsAssumption DEF EventRows, Invariant, RetriesSpent
<1>7. ASSUME NEW e \in Event PROVE RowBooks(e)'
    <2>1. RowBooks(e)
        BY DEF Invariant, Bookkeeping
    <2>2. CASE e \in S
        <3>1. event'[e].floor < MaxRetries + event'[e].requeues
              /\ event'[e].floor <= event'[e].retry
            BY <1>3, <1>6, <2>2, BoundsAssumption
        <3>2. emit'[e] = "none"
            BY <1>1, <1>3, <2>1, <2>2 DEF RowBooks, Invariant, TypeOK
        <3> QED
            BY <1>3, <2>2, <3>1, <3>2 DEF RowBooks, Final
    <2>3. CASE e \notin S
        BY <1>1, <1>2, <2>1, <2>3 DEF RowBooks
    <2> QED
        BY <2>2, <2>3
<1>8. ASSUME NEW r \in Run PROVE RunBooks(r)'
    <2>1. RunBooks(r) /\ Held(r) \subseteq Event
        BY NobodyAssumption DEF Invariant, Bookkeeping, TypeOK, Runs, Held
    <2>2. ASSUME NEW e \in Held(r), faults = 0
          PROVE  event'[e].owner = r /\ event'[e].lock = "future"
        <3>1. e \notin S
            BY <1>3, <2>1, <2>2, NobodyAssumption DEF RunBooks
        <3> QED
            BY <1>2, <2>1, <2>2, <3>1 DEF RunBooks
    <2> QED
        BY <1>1, <1>5, <2>1, <2>2 DEF RunBooks
<1>9. ClaimsSettled'
    <2> SUFFICES ASSUME NEW e \in Event, NEW r \in Run, event'[e].owner = r
                 PROVE  e \in Held(r)' /\ event'[e].version = run'[r].version[e]
        BY DEF ClaimsSettled
    <2>1. e \notin S
        BY <1>3, NobodyAssumption
    <2> QED
        BY <1>1, <1>2, <1>5, <2>1 DEF Invariant, ClaimsSettled
<1>10. RetriesSpent'
    <2> SUFFICES ASSUME NEW e \in Event
                 PROVE  /\ (event'[e].status = "DEAD_LETTER") <=>
                             (event'[e].retry >= MaxRetries /\ event'[e].retry > event'[e].floor)
                        /\ event'[e].retry <= MaxRetries + event'[e].requeues
        BY DEF RetriesSpent
    <2>1. CASE e \in S
        BY <1>3, <1>6, <2>1, BoundsAssumption
    <2>2. CASE e \notin S
        BY <1>2, <2>2 DEF Invariant, RetriesSpent
    <2> QED
        BY <2>1, <2>2
<1>11. AckedMeansHeard'
    BY <1>1, <1>2, <1>3 DEF Invariant, AckedMeansHeard
<1> QED
    BY <1>4, <1>7, <1>8, <1>9, <1>10, <1>11 DEF Invariant, Bookkeeping

----------------------------------------------------------------------------
(* The theorems. *)

LEMMA StepInvariant == Invariant /\ [Next]_vars => Invariant'
<1> SUFFICES ASSUME Invariant, [Next]_vars PROVE Invariant'
    OBVIOUS
<1>0. TypeOK
    BY DEF Invariant
<1>1. ASSUME NEW e \in Event, Emitter(e) PROVE Invariant'
    BY <1>0, <1>1, TypeEmitter, EmitterKeeps
<1>2. ASSUME NEW t \in Task, Queue(t) PROVE Invariant'
    BY <1>0, <1>2, TypeQueue, QueueKeeps
<1>3. ASSUME NEW r \in Run, Drain(r) PROVE Invariant'
    <2>1. TypeOK'
        BY <1>3, TypeDrain
    <2> QED
        BY <1>3, <2>1, StagesKeep, ClaimBatchKeeps, DeliverKeeps, RetryKeeps, FanOutKeeps,
           AckKeeps DEF Drain
<1>4. ASSUME NEW r \in Run, Crash(r) \/ Raise(r) PROVE Invariant'
    BY <1>0, <1>4, TypeRest, FaultsKeep
<1>5. ASSUME NEW e \in Event, Elapse(e) PROVE Invariant'
    BY <1>0, <1>5, TypeRest, ElapseKeeps
<1>6. ASSUME Probe \/ Recover \/ \E e \in Event : Post(e) PROVE Invariant'
    <2>1. TypeOK' /\ UNCHANGED core
        BY <1>0, <1>6, TypeRest, Zenon DEF Probe, Recover, Post, core
    <2> QED
        BY <2>1, CoreUnchanged
<1>7. CASE UNCHANGED vars
    <2>1. TypeOK' /\ UNCHANGED core
        BY <1>0, <1>7 DEF vars, core, TypeOK
    <2> QED
        BY <2>1, CoreUnchanged
<1>8. ASSUME NEW S \in SUBSET Event, NEW reset \in BOOLEAN, Requeue(S, reset)
      PROVE  Invariant'
    BY <1>8, RequeueKeeps
<1> QED
    BY <1>1, <1>2, <1>3, <1>4, <1>5, <1>6, <1>7, <1>8 DEF Next

\* The tables, the runs and the gate keep their types.
THEOREM TypeCorrect == Spec => []TypeOK
<1>1. Invariant => TypeOK
    BY DEF Invariant
<1> QED
    BY <1>1, InitInvariant, StepInvariant, PTL DEF Spec

\* The table and the runs agree on who holds what, whatever crashes, errors, stalls
\* and takeovers occur.
THEOREM BooksSound == Spec => []Bookkeeping
<1>1. Invariant => Bookkeeping
    BY DEF Invariant
<1> QED
    BY <1>1, InitInvariant, StepInvariant, PTL DEF Spec

\* Every row under a live run's owner_id is one the run is going to settle, with the
\* claim_version it will present.
THEOREM ClaimsSound == Spec => []ClaimsSettled
<1>1. Invariant => ClaimsSettled
    BY DEF Invariant
<1> QED
    BY <1>1, InitInvariant, StepInvariant, PTL DEF Spec

\* _mark_retry dead-letters an event by exactly its last failure, however often the
\* operator requeued it.
THEOREM RetriesSafe == Spec => []RetriesSpent
<1>1. Invariant => RetriesSpent
    BY DEF Invariant
<1> QED
    BY <1>1, InitInvariant, StepInvariant, PTL DEF Spec

\* No event is acknowledged that its listeners have not all returned for.
THEOREM AckSafe == Spec => []AckedMeansHeard
<1>1. Invariant => AckedMeansHeard
    BY DEF Invariant
<1> QED
    BY <1>1, InitInvariant, StepInvariant, PTL DEF Spec

\* While every lease is kept, drains in process and in Jobs claim disjoint events.
THEOREM ExclusiveClaims == Spec => []ClaimsDisjoint
<1>1. Invariant => ClaimsDisjoint
    BY DEF Invariant, Bookkeeping, RunBooks, ClaimsDisjoint
<1> QED
    BY <1>1, InitInvariant, StepInvariant, PTL DEF Spec

\* What a drain has settled stays settled: an expired claim cannot overturn it,
\* nor can any other step but the operator's requeue of a dead letter.
THEOREM SettledSafe == Spec => SettledStays
<1>1. ASSUME Invariant, Next, NEW e \in Event, event[e].status \in Final
      PROVE  \/ event'[e] = event[e]
             \/ /\ event[e].status = "DEAD_LETTER"
                /\ event'[e].requeues = event[e].requeues + 1
    <2>0. /\ event \in [Event -> EventRows] /\ event[e].owner = Nobody
          /\ event[e].lock = "null" /\ emit[e] = "none"
        BY <1>1 DEF Invariant, TypeOK, Bookkeeping, RowBooks, Final
    <2>1. ASSUME NEW d \in Event, Emitter(d) PROVE event'[e] = event[e]
        BY <2>0, <2>1 DEF Emitter, Emit, Commit, Rollback
    <2>2. ASSUME NEW t \in Task, Queue(t) PROVE event'[e] = event[e]
        BY <2>2, Zenon DEF Queue, Start, Age, Lapse, Recycle, Reap
    <2>3. \A r \in Run : ~Fenced(r, e) /\ event[e].owner # r
        BY <2>0, NobodyAssumption DEF Fenced
    <2>4. ASSUME NEW r \in Run, Drain(r) PROVE event'[e] = event[e]
        <3>1. CASE ClaimBatch(r)
            BY <1>1, <3>1, Zenon DEF ClaimBatch, Claimable, Final
        <3>2. ASSUME NEW d \in Event, DeliverFails(r, d) \/ NoBus(r, d)
              PROVE  event'[e] = event[e]
            BY <2>0, <2>3, <3>2 DEF DeliverFails, NoBus, MarkRetry
        <3>3. CASE Ack(r)
            BY <2>3, <3>3, Zenon DEF Ack
        <3> QED
            BY <2>4, <3>1, <3>2, <3>3, Zenon DEF Drain, TakeGate, ClaimNothing, Deliver, FanOut,
               HandOff, Release, Finish
    <2>5. ASSUME NEW r \in Run, Crash(r) \/ Raise(r) PROVE event'[e] = event[e]
        BY <2>3, <2>5 DEF Crash, Raise, Orphaned
    <2>6. ASSUME NEW d \in Event, Elapse(d) PROVE event'[e] = event[e]
        BY <2>0, <2>6 DEF Elapse
    <2>7. ASSUME Probe \/ Recover \/ \E d \in Event : Post(d) PROVE event'[e] = event[e]
        BY <2>7, Zenon DEF Probe, Recover, Post
    <2>8. ASSUME NEW S \in SUBSET Event, NEW reset \in BOOLEAN, Requeue(S, reset), e \in S
          PROVE  event[e].status = "DEAD_LETTER"
                 /\ event'[e].requeues = event[e].requeues + 1
        <3>1. event[e].status = "DEAD_LETTER" /\ event'[e] = RequeuedEvent(e, reset)
            BY <2>8 DEF Requeue
        <3> QED
            BY <2>0, <3>1 DEF RequeuedEvent, EventRows
    <2>9. ASSUME NEW S \in SUBSET Event, NEW reset \in BOOLEAN, Requeue(S, reset), e \notin S
          PROVE  event'[e] = event[e]
        BY <2>9 DEF Requeue
    <2> QED
        BY <1>1, <2>1, <2>2, <2>4, <2>5, <2>6, <2>7, <2>8, <2>9 DEF Next
<1>2. Invariant /\ [Next]_vars =>
        [\A e \in Event : event[e].status \in Final =>
            \/ event'[e] = event[e]
            \/ /\ event[e].status = "DEAD_LETTER"
               /\ event'[e].requeues = event[e].requeues + 1]_vars
    BY <1>1
<1> QED
    BY <1>2, InitInvariant, StepInvariant, PTL DEF Spec, SettledStays

----------------------------------------------------------------------------
\* No step takes back that the delivery task of an event was created or failed to be.
LEMMA AnnouncedStays ==
    ASSUME TypeOK, [Next]_vars, NEW e \in Event, Announced(e)
    PROVE  Announced(e)'
<1>0. hook \in [Event -> [status : {"none", "queued", "over"}, posts : Nat, errors : Nat]]
    BY DEF TypeOK
<1>1. ASSUME NEW d \in Event, Post(d) PROVE Announced(e)'
    BY <1>0, <1>1 DEF Post, Announced
<1>2. ASSUME NEW r \in Run, FanOut(r) PROVE Announced(e)'
    BY <1>0, <1>2 DEF FanOut, Announced
<1>3. CASE UNCHANGED hook
    BY <1>3 DEF Announced
<1>4. ASSUME NEW d \in Event, Emitter(d) \/ Elapse(d) PROVE UNCHANGED hook
    BY <1>4 DEF Emitter, Emit, Commit, Rollback, Elapse
<1>5. ASSUME NEW t \in Task, Queue(t) PROVE UNCHANGED hook
    BY <1>5, Zenon DEF Queue, Start, Age, Lapse, Recycle, Reap
<1>6. ASSUME NEW r \in Run, Drain(r), ~FanOut(r) PROVE UNCHANGED hook
    BY <1>6, Zenon DEF Drain, TakeGate, ClaimBatch, ClaimNothing, Deliver, DeliverFails, NoBus, Ack,
                HandOff, Release, Finish
<1>7. ASSUME NEW r \in Run, Crash(r) \/ Raise(r) PROVE UNCHANGED hook
    BY <1>7 DEF Crash, Raise
<1>8. ASSUME Probe \/ Recover \/ (\E S \in SUBSET Event, reset \in BOOLEAN : Requeue(S, reset))
      PROVE  UNCHANGED hook
    BY <1>8 DEF Probe, Recover, Requeue
<1> QED
    BY <1>1, <1>2, <1>3, <1>4, <1>5, <1>6, <1>7, <1>8 DEF Next, vars

\* _fan_out_webhooks comes before a row joins completed_rows.
LEMMA OkAnnounced ==
    ASSUME TypeOK, Subscribed, [Next]_vars, NEW r \in Run, NEW e \in Event,
           e \in run'[r].ok
    PROVE  e \in run[r].ok \/ Announced(e)'
<1>0. /\ run \in [Run -> Runs] /\ NoRun.ok = {}
      /\ hook \in [Event -> [status : {"none", "queued", "over"}, posts : Nat, errors : Nat]]
    BY DEF TypeOK, NoRun
<1>1. CASE run' = run
    BY <1>1
<1>2. ASSUME NEW t \in Task, NEW q \in Run, Start(t, q) PROVE e \in run[r].ok
    <2>1. PICK w, b : run' = [run EXCEPT ![q] = [NoRun EXCEPT !.task = t, !.where = w, !.bus = b,
                                       !.pc = IF w = "job" THEN "claim" ELSE "gate"]]
        BY <1>2, Zenon DEF Start
    <2> QED
        BY <1>0, <2>1 DEF NoRun
<1>3. ASSUME NEW q \in Run, FanOut(q) PROVE e \in run[r].ok \/ Announced(e)'
    <2>1. CASE e = run[q].at
        BY <1>0, <1>3, <2>1 DEF FanOut, Announced
    <2>2. CASE e # run[q].at
        BY <1>0, <1>3, <2>2 DEF FanOut
    <2> QED
        BY <2>1, <2>2
<1>4. ASSUME NEW q \in Run, TakeGate(q) \/ ClaimNothing(q) \/ HandOff(q) \/ Release(q)
      PROVE  e \in run[r].ok
    <2>1. PICK pc : Goto(q, pc)
        BY <1>4, Zenon DEF TakeGate, ClaimNothing, HandOff, Release
    <2> QED
        BY <1>0, <2>1 DEF Goto, Runs
<1>5. ASSUME NEW q \in Run, Crash(q) \/ Raise(q) \/ Finish(q) PROVE e \in run[r].ok
    <2>1. run' = [run EXCEPT ![q] = NoRun]
        BY <1>5 DEF Crash, Raise, Finish
    <2> QED
        BY <1>0, <2>1
<1>6. ASSUME NEW q \in Run, ClaimBatch(q) PROVE e \in run[r].ok
    <2>1. PICK S, v : run' = [run EXCEPT ![q] = [run[q] EXCEPT !.pc = "deliver", !.batch = S,
                                                               !.version = v]]
        BY <1>6, Zenon DEF ClaimBatch
    <2> QED
        BY <1>0, <2>1
<1>7. ASSUME NEW q \in Run, NEW d \in Event,
             Deliver(q, d) \/ DeliverFails(q, d) \/ NoBus(q, d)
      PROVE  e \in run[r].ok
    <2>1. CASE Deliver(q, d)
        BY <1>0, <2>1 DEF Deliver, Runs
    <2>2. CASE DeliverFails(q, d) \/ NoBus(q, d)
        <3>1. run' = [run EXCEPT ![q].batch = @ \ {d}]
            BY <2>2 DEF DeliverFails, NoBus
        <3> QED
            BY <1>0, <3>1 DEF Runs
    <2> QED
        BY <1>7, <2>1, <2>2
<1>8. ASSUME NEW q \in Run, Ack(q) PROVE e \in run[r].ok
    <2>1. PICK pc : run' = [run EXCEPT ![q] = [run[q] EXCEPT !.pc = pc, !.ok = {},
                                                             !.version = NoRun.version]]
        BY <1>8, Zenon DEF Ack
    <2> QED
        BY <1>0, <2>1
<1>9. ASSUME NEW q \in Run, Drain(q) PROVE e \in run[r].ok \/ Announced(e)'
    BY <1>3, <1>4, <1>5, <1>6, <1>7, <1>8, <1>9, Zenon DEF Drain
<1>10. ASSUME NEW t \in Task, Queue(t) PROVE e \in run[r].ok
    BY <1>1, <1>2, <1>10 DEF Queue, Age, Lapse, Recycle, Reap
<1>11. ASSUME NEW d \in Event, Emitter(d) \/ Post(d) \/ Elapse(d) PROVE run' = run
    BY <1>11 DEF Emitter, Emit, Commit, Rollback, Post, Elapse
<1>12. ASSUME Probe \/ Recover \/ (\E S \in SUBSET Event, reset \in BOOLEAN : Requeue(S, reset))
       PROVE  run' = run
    BY <1>12 DEF Probe, Recover, Requeue
<1>13. ASSUME UNCHANGED vars PROVE run' = run
    BY <1>13 DEF vars
<1> QED
    BY <1>1, <1>5, <1>9, <1>10, <1>11, <1>12, <1>13, Zenon DEF Next

\* Only _mark_done_many completes an event, and only one of completed_rows.
LEMMA CompletedByAck ==
    ASSUME TypeOK, [Next]_vars, NEW e \in Event, event'[e].status = "COMPLETED"
    PROVE  event[e].status = "COMPLETED" \/ \E r \in Run : e \in run[r].ok
<1>0. event \in [Event -> EventRows]
    BY DEF TypeOK
<1>1. CASE event'[e].status = event[e].status
    BY <1>1
<1>2. ASSUME NEW d \in Event, Emitter(d) \/ Post(d) \/ Elapse(d)
      PROVE  event'[e].status = event[e].status
    BY <1>0, <1>2 DEF Emitter, Emit, Commit, Rollback, Post, Elapse, EventRows
<1>3. ASSUME NEW t \in Task, Queue(t) PROVE event' = event
    BY <1>3, Zenon DEF Queue, Start, Age, Lapse, Recycle, Reap
<1>4. ASSUME NEW r \in Run, Crash(r) \/ Raise(r) PROVE event'[e].status = event[e].status
    <2>1. event' = Orphaned(r)
        BY <1>4 DEF Crash, Raise
    <2> QED
        BY <1>0, <2>1 DEF Orphaned, EventRows
<1>5. ASSUME NEW r \in Run, NEW d \in Event, DeliverFails(r, d) \/ NoBus(r, d)
      PROVE  event'[e].status = event[e].status
    <2>1. MarkRetry(r, d)
        BY <1>5 DEF DeliverFails, NoBus
    <2>2. Nacked(d).status # "COMPLETED"
        BY <1>0 DEF Nacked, EventRows
    <2> QED
        BY <1>0, <2>1, <2>2 DEF MarkRetry
<1>6. ASSUME NEW r \in Run, Ack(r)
      PROVE  event'[e].status = event[e].status \/ e \in run[r].ok
    BY <1>0, <1>6, Zenon DEF Ack
<1>7. ASSUME NEW r \in Run, ClaimBatch(r) PROVE event'[e].status = event[e].status
    <2>1. PICK S : event' = [d \in Event |->
                IF d \in S THEN [event[d] EXCEPT !.status = "PROCESSING", !.owner = r,
                                     !.lock = "future", !.version = @ + 1]
                           ELSE event[d]]
        BY <1>7, Zenon DEF ClaimBatch
    <2> QED
        BY <1>0, <2>1, Zenon DEF EventRows
<1>8. ASSUME NEW r \in Run, NEW d \in Event,
             TakeGate(r) \/ ClaimNothing(r) \/ Deliver(r, d) \/ FanOut(r) \/ HandOff(r)
                \/ Release(r) \/ Finish(r)
      PROVE  event' = event
    BY <1>8 DEF TakeGate, ClaimNothing, Deliver, FanOut, HandOff, Release, Finish
<1>9. ASSUME NEW r \in Run, Drain(r)
      PROVE  event'[e].status = event[e].status \/ e \in run[r].ok
    BY <1>5, <1>6, <1>7, <1>8, <1>9, Zenon DEF Drain
<1>10. ASSUME NEW S \in SUBSET Event, NEW reset \in BOOLEAN, Requeue(S, reset)
       PROVE  event'[e].status = event[e].status
    <2>1. RequeuedEvent(e, reset).status = "PENDING"
        BY <1>0 DEF RequeuedEvent, EventRows
    <2> QED
        BY <1>0, <1>10, <2>1 DEF Requeue
<1>11. ASSUME Probe \/ Recover \/ UNCHANGED vars PROVE event' = event
    BY <1>11 DEF Probe, Recover, vars
<1> QED
    BY <1>1, <1>2, <1>3, <1>4, <1>9, <1>10, <1>11, Zenon DEF Next

\* An acknowledged event of a subscription has had its delivery task created, or
\* creating it failed.
THEOREM WebhookSafe == Spec => []WebhookBeforeAck
<1>1. Init => WebhookBeforeAck
    BY DEF Init, WebhookBeforeAck, NoEvent, NoRun
<1>2. TypeOK /\ WebhookBeforeAck /\ [Next]_vars => WebhookBeforeAck'
    <2> SUFFICES ASSUME TypeOK, WebhookBeforeAck, [Next]_vars, Subscribed, NEW e \in Event,
                        event'[e].status = "COMPLETED" \/ \E r \in Run : e \in run'[r].ok
                 PROVE  Announced(e)'
        BY DEF WebhookBeforeAck
    <2>1. \/ event[e].status = "COMPLETED" \/ \E r \in Run : e \in run[r].ok
          \/ Announced(e)'
        BY CompletedByAck, OkAnnounced
    <2> QED
        BY <2>1, AnnouncedStays DEF WebhookBeforeAck
<1> QED
    BY <1>1, <1>2, TypeCorrect, PTL DEF Spec
============================================================================
