------------------------- MODULE CloudRunTaskProofs -------------------------
(***************************************************************************)
(* CloudRunTask: type correctness under every fault and reconciler, and,   *)
(* where no lease lapses under its holder, RunJob gives up on no job and   *)
(* loses no answer, no container raises before its claim and no reconciler *)
(* acts, that the body runs in one container at a time and a completed row *)
(* stays completed; if moreover no task is dismissed and the job map knows *)
(* the task type, that a row is completed only once the body has returned. *)
(***************************************************************************)
EXTENDS CloudRunTask, FiniteSetTheorems, TLAPS

----------------------------------------------------------------------------
(* The statements on the row. *)

\* What each statement leaves behind is a row.
LEMMA RowWrites ==
    ASSUME NEW r \in Row
    PROVE  /\ Heartbeat(r) \in Row /\ ResetToPending(r) \in Row /\ Completed(r) \in Row
           /\ FailedForGood(r) \in Row /\ FailedRetrying(r) \in Row /\ Reaped(r) \in Row
           /\ Lapsed(r) \in Row /\ DismissStamped(r) \in Row
           /\ \A c \in BOOLEAN : Dismissed(r, c) \in Row
           /\ \A o \in Runner : Claimed(r, o) \in Row
<1>1. /\ Heartbeat(r) \in Row /\ ResetToPending(r) \in Row /\ Completed(r) \in Row
      /\ FailedForGood(r) \in Row
    BY Zenon DEF Row, Status, Lock, Heartbeat, ResetToPending, Completed, FailedForGood
<1>2. FailedRetrying(r) \in Row /\ Reaped(r) \in Row /\ Lapsed(r) \in Row
    <2>1. r.retry + 1 \in Nat
        BY DEF Row
    <2>2. FailedRetrying(r) \in Row
        <3>1. CASE r.retry + 1 < RetryLimit
            BY <2>1, <3>1, Zenon DEF Row, Status, Lock, FailedRetrying
        <3>2. CASE ~(r.retry + 1 < RetryLimit)
            BY <2>1, <3>2, Zenon DEF Row, Status, Lock, FailedRetrying
        <3> QED
            BY <3>1, <3>2
    <2>3. Reaped(r) \in Row /\ Lapsed(r) \in Row
        <3>1. CASE r.retry + 1 >= RetryLimit
            BY <2>1, <3>1, Zenon DEF Row, Status, Lock, Reaped, Lapsed
        <3>2. CASE ~(r.retry + 1 >= RetryLimit)
            BY <2>1, <3>2, Zenon DEF Row, Status, Lock, Reaped, Lapsed
        <3> QED
            BY <3>1, <3>2
    <2> QED
        BY <2>2, <2>3
<1>3. DismissStamped(r) \in Row /\ \A c \in BOOLEAN : Dismissed(r, c) \in Row
    BY Zenon DEF Row, Status, DismissStamped, UnconfirmedDismissal, Dismissed
<1>4. \A o \in Runner : Claimed(r, o) \in Row
    BY Zenon DEF Row, Status, Lock, Claimed
<1> QED
    BY <1>1, <1>2, <1>3, <1>4

\* A container that failed is started again or over, under the same id.
LEMMA FailedIs ==
    ASSUME NEW b \in Jobs
    PROVE  Failed(b) \in Jobs /\ Failed(b).id = b.id /\ Failed(b).pc \in {"boot", "exit"}
<1>1. CASE b.cloud = "cancelling"
    BY <1>1, Zenon DEF Failed, Jobs, JobPC, Cloud
<1>2. CASE b.cloud = "alive" /\ b.tries < MaxTries
    <2>1. b.tries + 1 \in 0..MaxTries
        BY <1>2, MaxTriesAssumption DEF Jobs
    <2>2. Failed(b) = [b EXCEPT !.pc = "boot", !.tries = b.tries + 1]
        BY <1>2 DEF Failed
    <2> QED
        BY <2>1, <2>2, Zenon DEF Jobs, JobPC
<1>3. CASE b.cloud # "cancelling" /\ ~(b.cloud = "alive" /\ b.tries < MaxTries)
    BY <1>3, Zenon DEF Failed, Jobs, JobPC, Cloud
<1> QED
    BY <1>1, <1>2, <1>3

----------------------------------------------------------------------------
(* Types. *)

\* Every spawn and every dispatcher can own the row, and Nobody is none of them.
LEMMA Owners == Spawn \subseteq Runner /\ Dispatcher \subseteq Runner /\ Nobody \notin Runner
BY OwnersAssumption, NobodyAssumption

\* The states the program starts in are typed.
LEMMA InitType == Init => TypeOK
BY MaxTriesAssumption DEF Init, TypeOK, NoRow, Row, Status, Lock, NoSpawn, Spawns, SpawnPC,
   NoJob, Jobs, JobPC, Cloud, Idle, Recs, Verdict

\* A call of run goes on to another place.
LEMMA SpawnGotoType ==
    ASSUME TypeOK, NEW s \in Spawn, NEW p \in SpawnPC, SpawnGoto(s, p)
    PROVE  spawn' \in [Spawn -> Spawns]
BY DEF TypeOK, SpawnGoto, Spawns

\* The steps of GcpJobRunner.run and of the dispatcher that called it keep the types.
LEMMA TypeSpawner ==
    ASSUME TypeOK, NEW s \in Spawn, Spawner(s) PROVE TypeOK'
<1>0. /\ row \in Row /\ Created \in Row /\ s \in Runner /\ spawn[s] \in Spawns
      /\ spawn \in [Spawn -> Spawns]
    BY Owners, Zenon DEF TypeOK, Created, NoRow, Row, Status, Lock
<1>1. CASE BornClaimed(s)
    <2>1. row' \in Row
        BY <1>0, <1>1, RowWrites, Zenon DEF BornClaimed
    <2>2. spawn' \in [Spawn -> Spawns]
        BY <1>0, <1>1 DEF BornClaimed, Spawns, SpawnPC
    <2> QED
        BY <1>1, <2>1, <2>2 DEF BornClaimed, TypeOK
<1>2. ASSUME NEW d \in Dispatcher, Claim(s, d) PROVE TypeOK'
    <2>1. row' \in Row
        BY <1>0, <1>2, RowWrites, Owners DEF Claim
    <2>2. spawn' \in [Spawn -> Spawns]
        BY <1>0, <1>2, Zenon DEF Claim, Spawns, SpawnPC
    <2> QED
        BY <1>2, <2>1, <2>2 DEF Claim, TypeOK
<1>3. CASE NoJobFound(s) \/ RunRaises(s) \/ SpawnerGone(s)
    <2>1. spawn' \in [Spawn -> Spawns]
        BY <1>3, SpawnGotoType, Zenon DEF NoJobFound, RunRaises, SpawnerGone, SpawnPC
    <2> QED
        BY <1>3, <2>1, Zenon DEF NoJobFound, RunRaises, SpawnerGone, TypeOK
<1>4. CASE TakeOver(s)
    <2>1. row' \in Row
        BY <1>0, <1>4, RowWrites DEF TakeOver
    <2>2. spawn' \in [Spawn -> Spawns]
        BY <1>0, <1>4 DEF TakeOver, Spawns, SpawnPC
    <2> QED
        BY <1>4, <2>1, <2>2 DEF TakeOver, TypeOK
<1>5. CASE Refused(s) \/ ResetRow(s)
    <2>1. row' \in Row
        BY <1>0, <1>5, RowWrites DEF Refused, ResetRow
    <2>2. spawn' \in [Spawn -> Spawns]
        BY <1>5, SpawnGotoType DEF Refused, ResetRow, SpawnPC
    <2> QED
        BY <1>5, <2>1, <2>2 DEF Refused, ResetRow, TypeOK
<1>6. CASE CompleteEmpty(s) \/ FailRaised(s)
    <2>1. row' \in Row
        BY <1>0, <1>6, RowWrites DEF CompleteEmpty, FailRaised
    <2>2. spawn' \in [Spawn -> Spawns]
        BY <1>6, SpawnGotoType DEF CompleteEmpty, FailRaised, SpawnPC
    <2> QED
        BY <1>6, <2>1, <2>2 DEF CompleteEmpty, FailRaised, TypeOK
<1>7. ASSUME NEW j \in Job, RunJob(s, j) PROVE TypeOK'
    <2>1. job' \in [Job -> Jobs]
        <3>1. [id |-> s, pc |-> "boot", cloud |-> "alive", tries |-> 1] \in Jobs
            BY MaxTriesAssumption DEF Jobs, JobPC, Cloud
        <3> QED
            BY <1>7, <3>1, Zenon DEF RunJob, TypeOK
    <2>2. spawn' \in [Spawn -> Spawns]
        <3>1. [spawn[s] EXCEPT !.pc = "ref", !.job = j] \in Spawns
            BY <1>0, Zenon DEF Spawns, SpawnPC
        <3>2. \/ spawn' = spawn
              \/ spawn' = [spawn EXCEPT ![s] = [spawn[s] EXCEPT !.pc = "ref", !.job = j]]
            BY <1>0, <1>7, Zenon DEF RunJob
        <3> QED
            BY <1>0, <3>1, <3>2
    <2> QED
        BY <1>7, <2>1, <2>2, Zenon DEF RunJob, TypeOK
<1>8. CASE RunJobFails(s)
    <2>1. row' \in Row
        BY <1>0, <1>8, RowWrites, Zenon DEF RunJobFails
    <2>2. spawn' \in [Spawn -> Spawns]
        BY <1>8, SpawnGotoType, Zenon DEF RunJobFails, SpawnPC
    <2> QED
        BY <1>8, <2>1, <2>2, Zenon DEF RunJobFails, TypeOK
<1>9. CASE SetRunnerRef(s)
    <2>1. spawn' \in [Spawn -> Spawns] /\ spawn[s].job \in Job \cup {Nobody}
        BY <1>0, <1>9 DEF SetRunnerRef, Spawns, SpawnPC
    <2> QED
        BY <1>9, <2>1 DEF SetRunnerRef, TypeOK
<1> QED
    BY <1>1, <1>2, <1>3, <1>4, <1>5, <1>6, <1>7, <1>8, <1>9 DEF Spawner

\* A container goes on, exits, or is started again.
LEMMA JobType ==
    ASSUME TypeOK, NEW j \in Job,
           \/ \E p \in JobPC : JobGoto(j, p)
           \/ ExitOk(j) \/ ExitFail(j)
    PROVE  job' \in [Job -> Jobs]
<1>0. job \in [Job -> Jobs] /\ job[j] \in Jobs
    BY DEF TypeOK
<1>1. ASSUME NEW p \in JobPC, JobGoto(j, p) PROVE job' \in [Job -> Jobs]
    BY <1>0, <1>1 DEF JobGoto, Jobs
<1>2. CASE ExitOk(j)
    BY <1>0, <1>2, Zenon DEF ExitOk, Jobs, JobPC, Cloud
<1>3. CASE ExitFail(j)
    BY <1>0, <1>3, FailedIs DEF ExitFail
<1> QED
    BY <1>1, <1>2, <1>3

\* The steps of a job and of the container it runs keep the types.
LEMMA TypeContainer ==
    ASSUME TypeOK, NEW j \in Job, Container(j) PROVE TypeOK'
<1>0. row \in Row
    BY DEF TypeOK
<1>1. CASE ClaimForExecution(j)
    <2>1. job' \in [Job -> Jobs]
        BY <1>1, JobType DEF ClaimForExecution, JobPC
    <2>2. row' \in Row
        <3>1. job[j].id \in Spawn \/ job[j].id = Nobody
            BY DEF TypeOK, Jobs
        <3>2. CASE job[j].id \in Spawn
            BY <1>0, <1>1, <3>2, RowWrites, Owners, Zenon DEF ClaimForExecution
        <3>3. CASE job[j].id = Nobody
            BY <1>0, <1>1, <3>3, Zenon DEF ClaimForExecution, Claimed, Row, Status, Lock
        <3> QED
            BY <3>1, <3>2, <3>3
    <2> QED
        BY <1>1, <2>1, <2>2 DEF ClaimForExecution, TypeOK
<1>2. CASE Beat(j)
    BY <1>0, <1>2, RowWrites DEF Beat, TypeOK
<1>3. CASE Return(j) \/ Raise(j)
    <2>1. job' \in [Job -> Jobs]
        BY <1>3, JobType, Zenon DEF Return, Raise, JobPC
    <2> QED
        BY <1>3, <2>1, Zenon DEF Return, Raise, TypeOK
<1>4. CASE Wrap(j) \/ RaisePermanent(j) \/ OuterHandler(j)
    <2>1. job' \in [Job -> Jobs]
        BY <1>4, JobType DEF Wrap, RaisePermanent, OuterHandler, JobPC
    <2>2. row' \in Row
        BY <1>0, <1>4, RowWrites DEF Wrap, RaisePermanent, OuterHandler
    <2> QED
        BY <1>4, <2>1, <2>2 DEF Wrap, RaisePermanent, OuterHandler, TypeOK
<1>5. CASE ReportFailure(j)
    <2>1. job' \in [Job -> Jobs]
        BY <1>5, JobType DEF ReportFailure
    <2>2. row' \in Row
        BY <1>0, <1>5 DEF ReportFailure, Row, Status
    <2> QED
        BY <1>5, <2>1, <2>2 DEF ReportFailure, TypeOK
<1>6. CASE Cancelled(j)
    <2>1. job' \in [Job -> Jobs]
        BY <1>6, JobType DEF Cancelled
    <2>2. [ResetToPending(row) EXCEPT !.lock = "null"] \in Row
        BY <1>0, RowWrites DEF Row, Lock
    <2>3. row' \in Row
        BY <1>0, <1>6, <2>2, RowWrites DEF Cancelled
    <2> QED
        BY <1>6, <2>1, <2>3 DEF Cancelled, TypeOK
<1>7. CASE Kill(j)
    <2>1. job' \in [Job -> Jobs]
        BY <1>7, JobType DEF Kill
    <2> QED
        BY <1>7, <2>1 DEF Kill, TypeOK
<1> QED
    BY <1>1, <1>2, <1>3, <1>4, <1>5, <1>6, <1>7 DEF Container

\* The steps of whoever probes a job and acts on what it saw keep the types.
LEMMA TypeReconcile ==
    ASSUME TypeOK, NEW c \in Reconciler, Reconcile(c) PROVE TypeOK'
<1>0. /\ row \in Row /\ rec \in [Reconciler -> Recs] /\ rec[c] \in Recs /\ Idle \in Recs
      /\ job \in [Job -> Jobs] /\ ref \in Job \cup {Nobody}
    BY DEF TypeOK, Idle, Recs, Verdict
<1>1. CASE Select(c) \/ SelectDismissed(c)
    <2>1. row.owner \in Spawn
        BY <1>1 DEF Select, SelectDismissed
    <2> DEFINE x == [Idle EXCEPT !.pc = "probe", !.owner = row.owner, !.ref = ref]
               y == [Idle EXCEPT !.pc = "probe", !.owner = row.owner, !.ref = ref,
                                 !.dismissed = TRUE]
    <2>2. x \in Recs /\ y \in Recs
        BY <1>0, <2>1, Zenon DEF Recs
    <2>3. rec' = [rec EXCEPT ![c] = x] \/ rec' = [rec EXCEPT ![c] = y]
        BY <1>1 DEF Select, SelectDismissed
    <2>4. rec' \in [Reconciler -> Recs]
        <3> HIDE DEF x, y
        <3> QED
            BY <1>0, <2>2, <2>3
    <2> QED
        BY <1>1, <2>4 DEF Select, SelectDismissed, TypeOK
<1>2. CASE Probe(c)
    <2>1. PICK v : /\ v = "UNKNOWN" \/ v = VerdictOn(rec[c].ref)
                   /\ rec' = [rec EXCEPT ![c].pc = "act", ![c].verdict = v]
        BY <1>2, Zenon DEF Probe
    <2>2. v \in Verdict
        BY <2>1 DEF VerdictOn, Verdict
    <2>3. [rec[c] EXCEPT !.pc = "act", !.verdict = v] \in Recs
        BY <1>0, <2>2, Zenon DEF Recs
    <2>4. rec' = [rec EXCEPT ![c] = [rec[c] EXCEPT !.pc = "act", !.verdict = v]]
        BY <1>0, <2>1, Zenon
    <2>5. rec' \in [Reconciler -> Recs]
        BY <1>0, <2>3, <2>4
    <2> QED
        BY <1>2, <2>5 DEF Probe, TypeOK
<1>3. CASE Act(c)
    <2>1. row' \in Row
        BY <1>0, <1>3, RowWrites DEF Act, Reconciled
    <2> QED
        BY <1>0, <1>3, <2>1 DEF Act, TypeOK
<1>4. CASE ActDismissed(c)
    <2>1. ASSUME NEW j, SignalStop(j) \/ ForceStop(j) PROVE job' \in [Job -> Jobs]
        <3>1. CASE j \in Job
            <4>1. /\ [job[j] EXCEPT !.cloud = "cancelling"] \in Jobs
                  /\ [job[j] EXCEPT !.cloud = "gone",
                                    !.pc = IF @ = "none" THEN @ ELSE "exit"] \in Jobs
                BY <1>0, <3>1, Zenon DEF Jobs, JobPC, Cloud
            <4> QED
                BY <1>0, <2>1, <3>1, <4>1, Zenon DEF SignalStop, ForceStop
        <3>2. CASE j \notin Job
            BY <1>0, <2>1, <3>2 DEF SignalStop, ForceStop
        <3> QED
            BY <3>1, <3>2
    <2>2. row' \in Row /\ job' \in [Job -> Jobs] /\ rec' \in [Reconciler -> Recs]
        BY <1>0, <1>4, <2>1, RowWrites DEF ActDismissed
    <2> QED
        BY <1>4, <2>2 DEF ActDismissed, TypeOK
<1> QED
    BY <1>1, <1>2, <1>3, <1>4 DEF Reconcile

\* Every step keeps the types.
LEMMA TypeNext ==
    ASSUME TypeOK, [Next]_vars PROVE TypeOK'
<1>0. row \in Row /\ Created \in Row
    BY Zenon DEF TypeOK, Created, NoRow, Row, Status, Lock
<1>1. CASE Enqueue \/ Lapse \/ Reap \/ Dismiss
    <2>1. row' \in Row
        BY <1>0, <1>1, RowWrites, Zenon DEF Enqueue, Lapse, Reap, Dismiss
    <2> QED
        BY <1>1, <2>1 DEF Enqueue, Lapse, Reap, Dismiss, TypeOK
<1>2. ASSUME NEW d \in Dispatcher, DispatcherBeat(d) PROVE TypeOK'
    BY <1>0, <1>2, RowWrites DEF DispatcherBeat, TypeOK
<1>3. ASSUME NEW d \in Dispatcher, DispatcherGone(d) PROVE TypeOK'
    <2>1. \A s \in Spawn : [spawn[s] EXCEPT !.pc = "over"] \in Spawns
        BY DEF TypeOK, Spawns, SpawnPC
    <2>2. spawn' \in [Spawn -> Spawns]
        BY <1>3, <2>1, Zenon DEF DispatcherGone, TypeOK
    <2> QED
        BY <1>3, <2>2, Zenon DEF DispatcherGone, TypeOK
<1>4. CASE UNCHANGED vars
    BY <1>4 DEF vars, TypeOK
<1> QED
    BY <1>1, <1>2, <1>3, <1>4, TypeSpawner, TypeContainer, TypeReconcile DEF Next

\* Whatever fails, and whoever reconciles, the row, the spawns, the jobs and what the
\* reconcilers have read keep their types; no job is tried more than MaxTries times.
THEOREM TypeCorrect == Spec => []TypeOK
BY InitType, TypeNext, PTL DEF Spec

----------------------------------------------------------------------------
(* One attempt at a time.  The argument runs on the row: a dispatcher that *)
(* claims it finds it PENDING, so nobody has it; while a spawn prepares,   *)
(* the dispatcher's heartbeat keeps the lease, and only a dismissal can    *)
(* take the row away; a container that claims it finds it PENDING, lapsed, *)
(* or under its own id, which no other job has.                            *)

\* The faults that are left: none lets a lease lapse under its holder, has RunJob start
\* no job or two, or has a container fail a row it never claimed.
Sheltered == Faults \subseteq {"lost ref", "dismissal", "no job"}

\* SpawnGoto moves one spawn and leaves the others alone.
LEMMA SpawnGotoIs ==
    ASSUME TypeOK, NEW s \in Spawn, NEW p, SpawnGoto(s, p)
    PROVE  /\ spawn'[s].pc = p /\ spawn'[s].by = spawn[s].by /\ spawn'[s].job = spawn[s].job
           /\ \A t \in Spawn \ {s} : spawn'[t] = spawn[t]
BY DEF TypeOK, SpawnGoto, Spawns

\* A spawn that has launched, or never will, leaves the row as it is.
LEMMA SpawnEnds ==
    ASSUME TypeOK, OneAttempt, NEW s \in Spawn, SpawnGoto(s, "over"),
           spawn[s].pc \in {"launch", "ref"}, UNCHANGED <<row, job, hb>>
    PROVE  OneAttempt'
<1>1. /\ spawn'[s].pc = "over" /\ spawn'[s].job = spawn[s].job
      /\ \A t \in Spawn \ {s} : spawn'[t] = spawn[t]
    BY SpawnGotoIs
<1>2. JobsTold'
    BY <1>1 DEF OneAttempt, JobsTold
<1>3. \A t \in Spawn : Preparing(t)' => Preparing(t) /\ spawn'[t] = spawn[t]
    BY <1>1 DEF Preparing
<1>4. SpawnsTold' /\ BusyTold'
    BY <1>3 DEF OneAttempt, SpawnsTold, BusyTold, Busy
<1> QED
    BY <1>2, <1>4 DEF OneAttempt

\* When the spawn that prepares is over, nobody is at work on the row, whatever was
\* written to it.
LEMMA PreparedEnds ==
    ASSUME TypeOK, OneAttempt, NEW s \in Spawn, SpawnGoto(s, "over"), Preparing(s),
           job' = job
    PROVE  OneAttempt'
<1>1. /\ spawn'[s].pc = "over" /\ spawn'[s].job = spawn[s].job
      /\ \A t \in Spawn \ {s} : spawn'[t] = spawn[t]
    BY SpawnGotoIs
<1>2. JobsTold'
    BY <1>1 DEF OneAttempt, JobsTold
<1>3. \A t \in Spawn : ~Preparing(t)'
    BY <1>1 DEF Preparing, OneAttempt, SpawnsTold
<1>4. \A j \in Job : ~Busy(j)'
    BY DEF Busy, OneAttempt, SpawnsTold
<1> QED
    BY <1>2, <1>3, <1>4 DEF OneAttempt, SpawnsTold, BusyTold

\* A claim finds the row free: nobody prepares a job for it and no container is busy.
LEMMA ClaimAttempt ==
    ASSUME TypeOK, OneAttempt, NEW s \in Spawn, NEW d \in Dispatcher, Claim(s, d)
    PROVE  OneAttempt'
<1>0. row \in Row /\ spawn \in [Spawn -> Spawns] /\ spawn[s] \in Spawns
    BY DEF TypeOK
<1>1. /\ spawn[s].pc = "none" /\ spawn'[s].pc = "claimed" /\ spawn'[s].by = d
      /\ d \in hb' /\ job' = job /\ row.status = "PENDING"
      /\ \A t \in Spawn \ {s} : spawn'[t] = spawn[t]
    BY <1>0 DEF Claim, Claimable, Spawns
<1>2. row'.status = "ACTIVE" /\ row'.lock = "future" /\ row'.owner = d
    BY <1>0 DEF Claim, Claimed, Row
<1>3. JobsTold'
    BY <1>1 DEF OneAttempt, JobsTold
<1>4. \A t \in Spawn : Preparing(t)' => t = s
    BY <1>1 DEF OneAttempt, SpawnsTold, Preparing
<1>5. \A j \in Job : ~Busy(j)'
    BY <1>1 DEF OneAttempt, BusyTold, Busy
<1> QED
    BY <1>1, <1>2, <1>3, <1>4, <1>5 DEF OneAttempt, SpawnsTold, BusyTold

\* claim_for_dispatch succeeds only for the one spawn whose claim still stands.
LEMMA TakeOverAttempt ==
    ASSUME TypeOK, OneAttempt, NEW s \in Spawn, TakeOver(s) PROVE OneAttempt'
<1>0. spawn \in [Spawn -> Spawns] /\ spawn[s] \in Spawns
    BY DEF TypeOK
<1>1. Preparing(s) /\ spawn[s].pc = "claimed"
    BY DEF TakeOver, Preparing
<1>2. /\ \A t \in Spawn \ {s} : ~Preparing(t)
      /\ \A j \in Job : ~Busy(j)
      /\ spawn[s].by \in hb /\ row.owner = spawn[s].by
      /\ row.status \in {"ACTIVE", "DISMISSED"}
    BY <1>1 DEF OneAttempt, SpawnsTold
<1>3. CASE Dispatchable(row, spawn[s].by)
    <2>1. /\ spawn'[s].pc = "launch" /\ job' = job
          /\ \A t \in Spawn \ {s} : spawn'[t] = spawn[t]
        BY <1>0, <1>3 DEF TakeOver, Spawns
    <2>2. JobsTold'
        BY <1>1, <2>1 DEF OneAttempt, JobsTold
    <2>3. (\A t \in Spawn : ~Preparing(t)') /\ \A j \in Job : ~Busy(j)'
        BY <1>2, <2>1 DEF Preparing, Busy
    <2> QED
        BY <2>2, <2>3 DEF OneAttempt, SpawnsTold, BusyTold
<1>4. CASE ~Dispatchable(row, spawn[s].by)
    <2>1. /\ spawn'[s].pc = "refused" /\ spawn'[s].by = spawn[s].by
          /\ \A t \in Spawn \ {s} : spawn'[t] = spawn[t]
          /\ UNCHANGED <<row, job, hb>>
        BY <1>0, <1>4 DEF TakeOver, Spawns
    <2>2. JobsTold'
        BY <1>1, <2>1 DEF OneAttempt, JobsTold
    <2>3. row'.status = "DISMISSED" /\ row'.owner = spawn'[s].by /\ spawn'[s].by \in hb'
        BY <1>2, <1>4, <2>1 DEF Dispatchable
    <2>4. (\A t \in Spawn : Preparing(t)' => t = s) /\ \A j \in Job : ~Busy(j)'
        BY <1>2, <2>1 DEF Preparing, Busy
    <2> QED
        BY <2>2, <2>3, <2>4 DEF OneAttempt, SpawnsTold, BusyTold
<1> QED
    BY <1>3, <1>4

\* The one spawn that prepares goes on to prepare, and the row is as it was.
LEMMA PreparesOn ==
    ASSUME TypeOK, OneAttempt, NEW s \in Spawn, Preparing(s),
           NEW p \in {"reset", "empty", "raised"}, SpawnGoto(s, p),
           p = "reset" => row.status = "DISMISSED", UNCHANGED <<row, job, hb>>
    PROVE  OneAttempt'
<1>1. /\ spawn'[s].pc = p /\ spawn'[s].by = spawn[s].by
      /\ \A t \in Spawn \ {s} : spawn'[t] = spawn[t]
    BY SpawnGotoIs
<1>2. JobsTold'
    BY <1>1 DEF OneAttempt, JobsTold, Preparing
<1>3. \A t \in Spawn : Preparing(t)' <=> Preparing(t)
    BY <1>1 DEF Preparing
<1>4. SpawnsTold'
    BY <1>1, <1>3 DEF OneAttempt, SpawnsTold, Busy
<1>5. BusyTold'
    BY DEF OneAttempt, BusyTold, Busy
<1> QED
    BY <1>2, <1>4, <1>5 DEF OneAttempt

\* The steps of GcpJobRunner.run and its dispatcher keep the one attempt.
LEMMA SpawnerAttempt ==
    ASSUME TypeOK, OneAttempt, Sheltered, NEW s \in Spawn, Spawner(s) PROVE OneAttempt'
<1>0. row \in Row /\ spawn \in [Spawn -> Spawns] /\ spawn[s] \in Spawns
    BY DEF TypeOK
<1>1. CASE BornClaimed(s)
    <2>1. /\ spawn[s].pc = "none" /\ spawn'[s].pc = "launch" /\ job' = job
          /\ \A t \in Spawn \ {s} : spawn'[t] = spawn[t]
          /\ row.status = "NONE"
        BY <1>0, <1>1 DEF BornClaimed, Spawns
    <2>2. JobsTold'
        BY <2>1 DEF OneAttempt, JobsTold
    <2>3. \A t \in Spawn : ~Preparing(t)'
        BY <2>1 DEF OneAttempt, SpawnsTold, Preparing
    <2>4. \A j \in Job : ~Busy(j)'
        BY <2>1 DEF OneAttempt, BusyTold, Busy
    <2> QED
        BY <2>2, <2>3, <2>4 DEF OneAttempt, SpawnsTold, BusyTold
<1>2. CASE NoJobFound(s) \/ RunRaises(s)
    BY <1>2, PreparesOn, Zenon DEF NoJobFound, RunRaises, Preparing
<1>3. CASE Refused(s) \/ ResetRow(s)
    <2>1. Preparing(s) /\ spawn[s].pc \in {"refused", "reset"}
        BY <1>3 DEF Refused, ResetRow, Preparing
    <2>2. row.status = "DISMISSED" /\ row.owner = spawn[s].by /\ spawn[s].by \in hb
        BY <2>1 DEF OneAttempt, SpawnsTold
    <2>3. row.owner \notin Spawn
        BY <2>2, SpawnAssumption DEF TypeOK
    <2>4. CASE Refused(s)
        BY <2>1, <2>2, <2>3, <2>4, PreparesOn DEF Refused
    <2>5. CASE ResetRow(s)
        BY <2>1, <2>2, <2>5, PreparesOn DEF ResetRow, ResetToPending
    <2> QED
        BY <1>3, <2>4, <2>5
<1>4. CASE CompleteEmpty(s) \/ FailRaised(s)
    BY <1>4, PreparedEnds DEF CompleteEmpty, FailRaised, Preparing
<1>5. ASSUME NEW j \in Job, RunJob(s, j) PROVE OneAttempt'
    <2>1. /\ spawn[s].pc = "launch" /\ spawn'[s].pc = "ref" /\ spawn'[s].job = j
          /\ \A t \in Spawn \ {s} : spawn'[t] = spawn[t]
          /\ UNCHANGED <<row, hb>>
        <3>1. /\ spawn[s].pc = "launch" /\ UNCHANGED <<row, hb>>
              /\ spawn' = [spawn EXCEPT ![s].pc = "ref", ![s].job = j]
            BY <1>5 DEF RunJob, Sheltered
        <3> QED
            BY <1>0, <3>1 DEF Spawns
    <2>2. /\ job[j].pc = "none" /\ job'[j].pc = "boot" /\ job'[j].id = s
          /\ \A k \in Job \ {j} : job'[k] = job[k]
        BY <1>5, Zenon DEF RunJob, TypeOK
    <2>3. JobsTold'
        BY <2>1, <2>2 DEF OneAttempt, JobsTold
    <2>4. /\ \A t \in Spawn : Preparing(t)' => Preparing(t) /\ spawn'[t] = spawn[t]
          /\ \A k \in Job : Busy(k)' => Busy(k) /\ job'[k] = job[k]
        BY <2>1, <2>2 DEF Preparing, Busy
    <2>5. SpawnsTold'
        BY <2>1, <2>4 DEF OneAttempt, SpawnsTold
    <2>6. BusyTold'
        BY <2>1, <2>4 DEF OneAttempt, BusyTold
    <2> QED
        BY <2>3, <2>5, <2>6 DEF OneAttempt
<1>6. CASE RunJobFails(s)
    BY <1>6, Zenon DEF RunJobFails, Sheltered
<1>7. CASE SetRunnerRef(s) \/ SpawnerGone(s)
    BY <1>7, SpawnEnds, Zenon DEF SetRunnerRef, SpawnerGone, SpawnGoto
<1> QED
    BY <1>1, <1>2, <1>3, <1>4, <1>5, <1>6, <1>7, ClaimAttempt, TakeOverAttempt DEF Spawner

\* A step of a container, job j as the changed one.
LEMMA JobGotoIs ==
    ASSUME TypeOK, NEW j \in Job, \/ \E p : JobGoto(j, p)
                                  \/ ExitOk(j) \/ ExitFail(j)
    PROVE  job'[j].id = job[j].id /\ \A k \in Job \ {j} : job'[k] = job[k]
<1>0. job \in [Job -> Jobs] /\ job[j] \in Jobs
    BY DEF TypeOK
<1>1. ASSUME NEW p, JobGoto(j, p)
      PROVE  job'[j].id = job[j].id /\ \A k \in Job \ {j} : job'[k] = job[k]
    BY <1>0, <1>1 DEF JobGoto, Jobs
<1>2. CASE ExitOk(j)
    BY <1>0, <1>2 DEF ExitOk, Jobs
<1>3. CASE ExitFail(j)
    BY <1>0, <1>3, FailedIs DEF ExitFail
<1> QED
    BY <1>1, <1>2, <1>3

\* When the container at work is over or to start again, nobody is at work on the row,
\* whatever it wrote.
LEMMA BusyEnds ==
    ASSUME TypeOK, OneAttempt, NEW j \in Job, ExitOk(j) \/ ExitFail(j), Busy(j),
           UNCHANGED <<spawn, hb>>
    PROVE  OneAttempt'
<1>1. job'[j].id = job[j].id /\ \A k \in Job \ {j} : job'[k] = job[k]
    BY JobGotoIs
<1>2. job'[j].pc \in {"boot", "exit"} /\ job[j].pc # "none"
    <2>1. job \in [Job -> Jobs] /\ job[j] \in Jobs
        BY DEF TypeOK
    <2> QED
        BY <2>1, FailedIs DEF ExitOk, ExitFail, Jobs, Busy
<1>3. JobsTold'
    BY <1>1, <1>2 DEF OneAttempt, JobsTold
<1>4. \A k \in Job : ~Busy(k)'
    BY <1>1, <1>2 DEF OneAttempt, BusyTold, Busy
<1>5. \A t \in Spawn : ~Preparing(t)'
    BY DEF OneAttempt, SpawnsTold, Preparing
<1> QED
    BY <1>3, <1>4, <1>5 DEF OneAttempt, SpawnsTold, BusyTold

\* The container at work goes on under the row it has, or under a terminal one.
LEMMA BusyOn ==
    ASSUME TypeOK, OneAttempt, NEW j \in Job, Busy(j),
           NEW p \in {"wrap", "outer", "report"}, JobGoto(j, p),
           row' = row \/ row'.status = "FAILED", UNCHANGED <<spawn, hb>>
    PROVE  OneAttempt'
<1>1. job'[j].id = job[j].id /\ \A k \in Job \ {j} : job'[k] = job[k]
    BY JobGotoIs
<1>2. job'[j].pc = p /\ job[j].pc # "none"
    BY DEF JobGoto, TypeOK, Jobs, Busy
<1>3. JobsTold'
    BY <1>1, <1>2 DEF OneAttempt, JobsTold
<1>4. \A k \in Job : Busy(k)' => k = j
    BY <1>1 DEF OneAttempt, BusyTold, Busy
<1>5. \A t \in Spawn : ~Preparing(t)'
    BY DEF OneAttempt, SpawnsTold, Preparing
<1>6. BusyTold'
    BY <1>1, <1>4 DEF OneAttempt, BusyTold
<1> QED
    BY <1>3, <1>5, <1>6 DEF OneAttempt, SpawnsTold

\* claim_for_execution lets a container in only when nobody else is at work.
LEMMA ClaimForExecutionAttempt ==
    ASSUME TypeOK, OneAttempt, NEW j \in Job, ClaimForExecution(j)
    PROVE  OneAttempt'
<1>0. row \in Row /\ job \in [Job -> Jobs] /\ job[j] \in Jobs /\ job[j].pc = "boot"
    BY DEF TypeOK, ClaimForExecution
<1>1. job[j].id \in Spawn
    BY <1>0 DEF OneAttempt, JobsTold
<1>2. job'[j].id = job[j].id /\ \A k \in Job \ {j} : job'[k] = job[k]
    BY JobGotoIs DEF ClaimForExecution
<1>3. UNCHANGED <<spawn, hb>>
    BY DEF ClaimForExecution
<1>4. CASE Executable(row, job[j].id)
    <2>1. job'[j].pc = "running"
        BY <1>0, <1>4 DEF ClaimForExecution, JobGoto, Jobs
    <2>2. row'.status = "ACTIVE" /\ row'.lock = "future" /\ row'.owner = job[j].id
        BY <1>0, <1>4, Zenon DEF ClaimForExecution, Claimed, Row
    <2>3. JobsTold'
        BY <1>0, <1>2, <1>3, <2>1 DEF OneAttempt, JobsTold
    <2>4. ASSUME NEW t \in Spawn PROVE ~Preparing(t)
        <3>1. hb \subseteq Dispatcher
            BY DEF TypeOK
        <3> QED
            BY <1>1, <1>4, <3>1, SpawnAssumption DEF Executable, OneAttempt, SpawnsTold
    <2>5. ASSUME NEW k \in Job PROVE ~Busy(k)
        <3>1. job[k].id = job[j].id /\ job[k].pc # "none" => k = j
            BY <1>0 DEF OneAttempt, JobsTold
        <3> QED
            BY <1>0, <1>4, <3>1 DEF Executable, OneAttempt, BusyTold, Busy
    <2>6. \A k \in Job : Busy(k)' => k = j
        BY <1>2, <2>5 DEF Busy
    <2>7. \A t \in Spawn : ~Preparing(t)'
        BY <1>3, <2>4 DEF Preparing
    <2> QED
        BY <1>2, <2>2, <2>3, <2>6, <2>7 DEF OneAttempt, SpawnsTold, BusyTold
<1>5. CASE ~Executable(row, job[j].id)
    <2>1. job'[j].pc \in {"boot", "exit"} /\ row' = row
        BY <1>0, <1>5, FailedIs DEF ClaimForExecution, ExitOk, ExitFail, Jobs
    <2>2. JobsTold'
        BY <1>0, <1>2, <1>3, <2>1 DEF OneAttempt, JobsTold
    <2>3. /\ \A k \in Job : Busy(k)' => Busy(k) /\ job'[k] = job[k]
          /\ \A t \in Spawn : Preparing(t)' => Preparing(t)
        BY <1>2, <1>3, <2>1 DEF Busy, Preparing
    <2>4. SpawnsTold'
        BY <1>3, <2>1, <2>3 DEF OneAttempt, SpawnsTold
    <2>5. BusyTold'
        BY <2>1, <2>3 DEF OneAttempt, BusyTold
    <2> QED
        BY <2>2, <2>4, <2>5 DEF OneAttempt
<1> QED
    BY <1>4, <1>5

\* A write that leaves an ACTIVE row leased to its owner, and a row that is dismissed or
\* failed as it is, disturbs nobody.
LEMMA RowKept ==
    ASSUME TypeOK, OneAttempt, UNCHANGED <<spawn, job, hb>>,
           row.status = "DISMISSED" => row'.status = "DISMISSED",
           row.status = "FAILED" => row'.status = "FAILED",
           row.status = "ACTIVE" /\ row.lock = "future" =>
               \/ row'.status = "ACTIVE" /\ row'.lock = "future"
               \/ row'.status = "DISMISSED",
           row.status \in {"ACTIVE", "DISMISSED"} => row'.owner = row.owner
    PROVE  OneAttempt'
<1>1. JobsTold'
    BY DEF OneAttempt, JobsTold
<1>2. /\ \A k \in Job : Busy(k)' <=> Busy(k)
      /\ \A t \in Spawn : Preparing(t)' <=> Preparing(t)
    BY DEF Busy, Preparing
<1>3. SpawnsTold'
    BY <1>2 DEF OneAttempt, SpawnsTold
<1>4. BusyTold'
    BY <1>2 DEF OneAttempt, BusyTold
<1> QED
    BY <1>1, <1>3, <1>4 DEF OneAttempt

\* The heartbeat of a dispatcher or a container.
LEMMA HeartbeatAttempt ==
    ASSUME TypeOK, OneAttempt, UNCHANGED <<spawn, job, hb>>, row' = Heartbeat(row)
    PROVE  OneAttempt'
<1>1. row \in Row
    BY DEF TypeOK
<1>2. row'.status = row.status /\ row'.owner = row.owner
      /\ (row.status = "ACTIVE" => row'.lock = "future")
    BY <1>1 DEF Heartbeat, Row
<1> QED
    BY <1>2, RowKept

\* The steps of a job and of the container it runs keep the one attempt.
LEMMA ContainerAttempt ==
    ASSUME TypeOK, OneAttempt, Sheltered, NEW j \in Job, Container(j) PROVE OneAttempt'
<1>0. row \in Row
    BY DEF TypeOK
<1>1. CASE ClaimForExecution(j)
    BY <1>1, ClaimForExecutionAttempt
<1>2. CASE Beat(j)
    BY <1>2, HeartbeatAttempt DEF Beat
<1>3. CASE Return(j) \/ Raise(j)
    BY <1>3, BusyOn, Zenon DEF Return, Raise, Busy, Sheltered
<1>4. CASE Wrap(j)
    BY <1>4, BusyOn, BusyEnds DEF Wrap, Busy
<1>5. CASE RaisePermanent(j)
    <2>1. FailedForGood(row).status = "FAILED"
        BY <1>0 DEF FailedForGood, Row
    <2> QED
        BY <1>5, <2>1, BusyOn DEF RaisePermanent, Busy
<1>6. CASE OuterHandler(j)
    BY <1>6, BusyOn, BusyEnds DEF OuterHandler, Busy
<1>7. CASE ReportFailure(j) \/ Cancelled(j)
    BY <1>7, BusyEnds DEF ReportFailure, Cancelled, Busy
<1>8. CASE Kill(j)
    <2>1. CASE Busy(j)
        BY <1>8, <2>1, BusyEnds DEF Kill
    <2>2. CASE ~Busy(j)
        <3>1. job[j].pc = "boot" /\ job[j] \in Jobs /\ job \in [Job -> Jobs]
            BY <1>8, <2>2 DEF Kill, Live, Busy, TypeOK, Jobs, JobPC
        <3>2. job'[j].pc \in {"boot", "exit"} /\ job'[j].id = job[j].id
            BY <1>8, <3>1, FailedIs DEF Kill, ExitFail
        <3>3. (\A k \in Job \ {j} : job'[k] = job[k]) /\ UNCHANGED <<row, spawn, hb>>
            BY <1>8, <3>1 DEF Kill, ExitFail
        <3>4. JobsTold'
            BY <3>1, <3>2, <3>3 DEF OneAttempt, JobsTold
        <3>5. /\ \A k \in Job : Busy(k)' => Busy(k) /\ job'[k] = job[k]
              /\ \A t \in Spawn : Preparing(t)' => Preparing(t)
            BY <3>2, <3>3 DEF Busy, Preparing
        <3>6. SpawnsTold' /\ BusyTold'
            BY <3>3, <3>5 DEF OneAttempt, SpawnsTold, BusyTold
        <3> QED
            BY <3>4, <3>6 DEF OneAttempt
    <2> QED
        BY <2>1, <2>2
<1> QED
    BY <1>1, <1>2, <1>3, <1>4, <1>5, <1>6, <1>7, <1>8 DEF Container

\* A dispatcher that dies takes its calls of run with it.
LEMMA DispatcherGoneAttempt ==
    ASSUME TypeOK, OneAttempt, NEW d \in Dispatcher, DispatcherGone(d)
    PROVE  OneAttempt'
<1>1. /\ \A s \in Spawn : \/ spawn'[s] = spawn[s] /\ spawn[s].by # d
                          \/ spawn'[s].pc = "over" /\ spawn'[s].job = spawn[s].job
      /\ hb' = hb \ {d} /\ UNCHANGED <<row, job>>
    BY Zenon DEF DispatcherGone, TypeOK, Spawns
<1>2. JobsTold'
    BY <1>1 DEF OneAttempt, JobsTold
<1>3. \A s \in Spawn : Preparing(s)' =>
        Preparing(s) /\ spawn'[s] = spawn[s] /\ spawn[s].by # d
    BY <1>1 DEF Preparing
<1>4. \A j \in Job : Busy(j)' <=> Busy(j)
    BY <1>1 DEF Busy
<1>5. SpawnsTold'
    BY <1>1, <1>3, <1>4 DEF OneAttempt, SpawnsTold
<1>6. BusyTold'
    BY <1>1, <1>4 DEF OneAttempt, BusyTold
<1> QED
    BY <1>2, <1>5, <1>6 DEF OneAttempt

\* Nobody is at work: the row may become anything.
LEMMA RowFree ==
    ASSUME OneAttempt, UNCHANGED <<spawn, job>>,
           \A s \in Spawn : ~Preparing(s), \A j \in Job : ~Busy(j)
    PROVE  OneAttempt'
<1>1. JobsTold'
    BY DEF OneAttempt, JobsTold
<1>2. (\A s \in Spawn : ~Preparing(s)') /\ \A j \in Job : ~Busy(j)'
    BY DEF Preparing, Busy
<1> QED
    BY <1>1, <1>2 DEF OneAttempt, SpawnsTold, BusyTold

\* The clock: no heartbeat is left, so no spawn prepares, and a container at work holds
\* the lease, so that its row is no longer ACTIVE.
LEMMA LapseAttempt ==
    ASSUME TypeOK, OneAttempt, Sheltered, Lapse PROVE OneAttempt'
<1>1. ~Holder /\ hb = {} /\ UNCHANGED <<spawn, job, hb>>
    BY Zenon DEF Lapse, Sheltered
<1>2. row'.status = row.status
    BY DEF Lapse, Lapsed, TypeOK, Row
<1>3. \A s \in Spawn : ~Preparing(s)
    BY <1>1 DEF OneAttempt, SpawnsTold
<1>4. \A j \in Job : Busy(j) => row.status \in {"DISMISSED", "FAILED"}
    BY <1>1 DEF Holder, Busy, OneAttempt, BusyTold
<1>5. /\ \A s \in Spawn : ~Preparing(s)'
      /\ \A j \in Job : Busy(j)' <=> Busy(j)
    BY <1>1, <1>3 DEF Preparing, Busy
<1>6. JobsTold'
    BY <1>1 DEF OneAttempt, JobsTold
<1>7. BusyTold'
    BY <1>2, <1>4, <1>5 DEF OneAttempt, BusyTold
<1> QED
    BY <1>5, <1>6, <1>7 DEF OneAttempt, SpawnsTold

\* At the start nothing is under way.
LEMMA InitAttempt == Init => OneAttempt
BY DEF Init, NoSpawn, NoJob, OneAttempt, JobsTold, SpawnsTold, BusyTold, Preparing, Busy

\* Every step keeps the one attempt.
LEMMA NextAttempt ==
    ASSUME TypeOK, OneAttempt, Sheltered, Reconciler = {}, [Next]_vars PROVE OneAttempt'
<1>0. row \in Row
    BY DEF TypeOK
<1>1. CASE Enqueue \/ Reap
    <2>1. /\ row.status = "NONE" \/ (row.status = "ACTIVE" /\ row.lock = "past")
          /\ UNCHANGED <<spawn, job>>
        BY <1>1 DEF Enqueue, Reap, Reapable
    <2>2. (\A s \in Spawn : ~Preparing(s)) /\ \A j \in Job : ~Busy(j)
        BY <2>1 DEF OneAttempt, SpawnsTold, BusyTold
    <2> QED
        BY <2>1, <2>2, RowFree
<1>2. CASE Lapse
    BY <1>2, LapseAttempt
<1>3. CASE Dismiss
    <2>1. /\ row'.status = "DISMISSED" /\ row'.owner = row.owner /\ row.status # "FAILED"
          /\ UNCHANGED <<spawn, job, hb>>
        BY <1>0, <1>3 DEF Dismiss, Dismissed, Row
    <2> QED
        BY <2>1, RowKept
<1>4. ASSUME NEW d \in Dispatcher, DispatcherBeat(d) PROVE OneAttempt'
    BY <1>4, HeartbeatAttempt DEF DispatcherBeat
<1>5. CASE UNCHANGED vars
    BY <1>5, RowKept DEF vars
<1> QED
    BY <1>1, <1>2, <1>3, <1>4, <1>5, SpawnerAttempt, ContainerAttempt, DispatcherGoneAttempt
       DEF Next

\* claim_for_execution, claim_for_dispatch and the heartbeats keep the row telling who
\* works on the task, for every number of spawns, jobs and dispatchers, as long as no
\* lease lapses under its holder, RunJob neither gives up nor loses an answer, no
\* container raises before its claim, and no reconciler acts.
THEOREM AttemptSafe ==
    ASSUME Sheltered, Reconciler = {}
    PROVE  Spec => []OneAttempt
<1>1. Init => TypeOK /\ OneAttempt
    BY InitType, InitAttempt
<1>2. TypeOK /\ OneAttempt /\ [Next]_vars => (TypeOK /\ OneAttempt)'
    BY TypeNext, NextAttempt
<1> QED
    BY <1>1, <1>2, PTL DEF Spec

\* Under the same conditions the body of a task runs in one container at a time
\* ("no double-run").
THEOREM SingleRun ==
    ASSUME Sheltered, Reconciler = {}
    PROVE  Spec => []NoDoubleRun
<1>1. OneAttempt => NoDoubleRun
    <2> SUFFICES ASSUME OneAttempt PROVE NoDoubleRun
        OBVIOUS
    <2>1. \A j, k \in Running : j = k
        BY DEF Running, OneAttempt, BusyTold, Busy
    <2>2. CASE Running = {}
        BY <2>2, FS_EmptySet DEF NoDoubleRun
    <2>3. CASE Running # {}
        <3>0. PICK j : j \in Running
            BY <2>3
        <3>1. Running = {j}
            BY <2>1, <3>0
        <3>2. Cardinality({j}) = 1
            BY FS_Singleton, Zenon
        <3> QED
            BY <3>1, <3>2 DEF NoDoubleRun
    <2> QED
        BY <2>2, <2>3
<1> QED
    BY <1>1, AttemptSafe, PTL

\* With one attempt at a time nobody has a COMPLETED row, so no step writes it.
LEMMA CompletedKept ==
    ASSUME TypeOK, OneAttempt, Sheltered, Reconciler = {}, [Next]_vars,
           row.status = "COMPLETED"
    PROVE  row'.status = "COMPLETED"
<1>0. row \in Row
    BY DEF TypeOK
<1>1. (\A s \in Spawn : ~Preparing(s)) /\ \A j \in Job : ~Busy(j)
    BY DEF OneAttempt, SpawnsTold, BusyTold
<1>2. Heartbeat(row) = row /\ Lapsed(row).status = "COMPLETED"
    BY <1>0 DEF Heartbeat, Lapsed, Row
<1>3. CASE Enqueue \/ Lapse \/ Reap \/ Dismiss
    BY <1>2, <1>3 DEF Enqueue, Lapse, Reap, Reapable, Dismiss
<1>4. ASSUME NEW s \in Spawn, Spawner(s) PROVE row' = row
    <2>1. spawn[s].pc \notin {"claimed", "refused", "reset", "empty", "raised"}
        BY <1>1, Zenon DEF Preparing
    <2>2. ~BornClaimed(s) /\ \A d \in Dispatcher : ~Claim(s, d)
        BY DEF BornClaimed, Claim, Claimable
    <2>3. /\ ~NoJobFound(s) /\ ~TakeOver(s) /\ ~Refused(s) /\ ~ResetRow(s) /\ ~RunRaises(s)
          /\ ~CompleteEmpty(s) /\ ~FailRaised(s)
        BY <2>1, Zenon DEF NoJobFound, TakeOver, Refused, ResetRow, RunRaises, CompleteEmpty,
           FailRaised
    <2>4. ~RunJobFails(s)
        BY Zenon DEF RunJobFails, Sheltered
    <2>5. (\E j \in Job : RunJob(s, j)) \/ SetRunnerRef(s) \/ SpawnerGone(s)
        BY <1>4, <2>2, <2>3, <2>4, Zenon DEF Spawner
    <2> QED
        BY <2>5, Zenon DEF RunJob, SetRunnerRef, SpawnerGone
<1>5. ASSUME NEW j \in Job, Container(j) PROVE row' = row
    <2>1. job[j].pc \notin {"running", "wrap", "outer", "report"}
        BY <1>1, Zenon DEF Busy
    <2>2. /\ ~Beat(j) /\ ~Return(j) /\ ~Wrap(j) /\ ~RaisePermanent(j) /\ ~OuterHandler(j)
          /\ ~ReportFailure(j) /\ ~Cancelled(j)
        BY <2>1, Zenon DEF Beat, Return, Wrap, RaisePermanent, OuterHandler, ReportFailure,
           Cancelled
    <2>3. ClaimForExecution(j) \/ Raise(j) \/ Kill(j)
        BY <1>5, <2>2, Zenon DEF Container
    <2>4. ~Executable(row, job[j].id)
        BY DEF Executable
    <2> QED
        BY <2>3, <2>4, Zenon DEF ClaimForExecution, Raise, Kill
<1>6. ASSUME NEW d \in Dispatcher, DispatcherBeat(d) \/ DispatcherGone(d)
      PROVE  row' = row
    BY <1>2, <1>6, Zenon DEF DispatcherBeat, DispatcherGone
<1>7. CASE UNCHANGED vars
    BY <1>7 DEF vars
<1> QED
    BY <1>3, <1>4, <1>5, <1>6, <1>7, Zenon DEF Next

\* Under the same conditions a completed task is not run again (the #726 regression that
\* claim_for_execution is there to prevent): its row is COMPLETED for good.
THEOREM CompletedOnce ==
    ASSUME Sheltered, Reconciler = {}
    PROVE  Spec => CompletedStays
<1>1. TypeOK /\ OneAttempt /\ [Next]_vars
        => [row.status = "COMPLETED" => row'.status = "COMPLETED"]_vars
    BY CompletedKept
<1> QED
    BY <1>1, TypeCorrect, AttemptSafe, PTL DEF Spec, CompletedStays

----------------------------------------------------------------------------
(* COMPLETED for a reason.  The dispatcher completes a row on an empty      *)
(* result of run too, which comes of a missing job or a dismissal.  Without *)
(* them only a container whose body has returned completes the row.         *)

\* The row is not dismissed, no call of run has an empty result, and a container about to
\* write its outcome has seen the body return.
DoneTold ==
    /\ row.status # "DISMISSED"
    /\ \A s \in Spawn : spawn[s].pc # "empty"
    /\ \A j \in Job : job[j].pc = "wrap" => j \in done

\* What the statements write to status.
LEMMA StatusWrites ==
    ASSUME NEW r \in Row
    PROVE  /\ Heartbeat(r).status = r.status /\ Lapsed(r).status = r.status
           /\ \A o : Claimed(r, o).status = "ACTIVE" /\ Claimed(Created, o).status = "ACTIVE"
           /\ Created.status = "PENDING" /\ Completed(r).status = "COMPLETED"
           /\ FailedForGood(r).status = "FAILED"
           /\ FailedRetrying(r).status \in {"PENDING", "DEAD_LETTER"}
           /\ Reaped(r).status \in {"PENDING", "DEAD_LETTER"}
<1>1. /\ Heartbeat(r).status = r.status /\ Lapsed(r).status = r.status
      /\ Completed(r).status = "COMPLETED" /\ FailedForGood(r).status = "FAILED"
    BY DEF Row, Heartbeat, Lapsed, Completed, FailedForGood
<1>2. \A o : Claimed(r, o).status = "ACTIVE" /\ Claimed(Created, o).status = "ACTIVE"
    BY DEF Row, Claimed, Created, NoRow
<1>3. /\ Created.status = "PENDING"
      /\ FailedRetrying(r).status \in {"PENDING", "DEAD_LETTER"}
      /\ Reaped(r).status \in {"PENDING", "DEAD_LETTER"}
    BY DEF Row, Created, NoRow, FailedRetrying, Reaped
<1> QED
    BY <1>1, <1>2, <1>3, Zenon

\* A write of another status, nobody completing.
LEMMA NotCompleted ==
    ASSUME DoneTold, CompletedMeansDone, UNCHANGED <<spawn, job, done>>,
           row'.status = row.status \/ row'.status \in {"PENDING", "ACTIVE", "DEAD_LETTER"}
    PROVE  DoneTold' /\ CompletedMeansDone'
BY DEF DoneTold, CompletedMeansDone

\* A call of run has no empty result to complete the row with.
LEMMA SpawnerDone ==
    ASSUME TypeOK, OneAttempt, DoneTold, CompletedMeansDone, Faults \subseteq {"lost ref"},
           NEW s \in Spawn, Spawner(s)
    PROVE  DoneTold' /\ CompletedMeansDone'
<1>0. row \in Row /\ spawn \in [Spawn -> Spawns] /\ spawn[s] \in Spawns
    BY DEF TypeOK
<1>1. /\ ~NoJobFound(s) /\ ~Refused(s) /\ ~ResetRow(s) /\ ~CompleteEmpty(s)
      /\ ~RunJobFails(s)
    <2>1. spawn[s].pc \notin {"refused", "reset", "empty"}
        BY DEF OneAttempt, SpawnsTold, DoneTold, Preparing
    <2> QED
        BY <2>1, Zenon DEF NoJobFound, Refused, ResetRow, CompleteEmpty, RunJobFails
<1>2. /\ done' = done
      /\ row' = row \/ row'.status \in {"PENDING", "ACTIVE", "DEAD_LETTER"}
    <2>1. CASE BornClaimed(s) \/ TakeOver(s) \/ \E d \in Dispatcher : Claim(s, d)
        <3>1. \/ row' = row
              \/ \E o : row' = Claimed(row, o) \/ row' = Claimed(Created, o)
            BY <2>1, Zenon DEF BornClaimed, TakeOver, Claim
        <3>2. row' = row \/ row'.status = "ACTIVE"
            <4>1. \A o : /\ Claimed(row, o).status = "ACTIVE"
                         /\ Claimed(Created, o).status = "ACTIVE"
                BY <1>0, StatusWrites, Zenon
            <4> QED
                BY <3>1, <4>1, Zenon
        <3>3. done' = done
            BY <2>1, Zenon DEF BornClaimed, TakeOver, Claim
        <3> QED
            BY <3>2, <3>3, Zenon
    <2>2. CASE FailRaised(s)
        BY <1>0, <2>2, StatusWrites DEF FailRaised
    <2>3. CASE RunRaises(s) \/ SetRunnerRef(s) \/ SpawnerGone(s) \/ \E j \in Job : RunJob(s, j)
        BY <2>3, Zenon DEF RunRaises, SetRunnerRef, SpawnerGone, RunJob
    <2> QED
        BY <1>1, <2>1, <2>2, <2>3, Zenon DEF Spawner
<1>3. \A t \in Spawn : spawn'[t].pc # "empty"
    <2>1. \/ \E p : p # "empty" /\ SpawnGoto(s, p)
          \/ \E d \in Dispatcher : Claim(s, d)
          \/ \E j \in Job : RunJob(s, j)
        <3>1. BornClaimed(s) => SpawnGoto(s, "launch")
            BY Zenon DEF BornClaimed, SpawnGoto
        <3>2. TakeOver(s) => SpawnGoto(s, "launch") \/ SpawnGoto(s, "refused")
            BY DEF TakeOver, SpawnGoto
        <3>3. /\ RunRaises(s) => SpawnGoto(s, "raised")
              /\ FailRaised(s) \/ SetRunnerRef(s) \/ SpawnerGone(s) => SpawnGoto(s, "over")
            BY Zenon DEF RunRaises, FailRaised, SetRunnerRef, SpawnerGone, SpawnGoto
        <3> QED
            BY <1>1, <3>1, <3>2, <3>3 DEF Spawner
    <2>2. ASSUME NEW p, p # "empty", SpawnGoto(s, p)
          PROVE  \A t \in Spawn : spawn'[t].pc # "empty"
        <3>1. spawn'[s].pc = p /\ \A t \in Spawn \ {s} : spawn'[t] = spawn[t]
            BY <2>2, SpawnGotoIs, Zenon
        <3> QED
            BY <2>2, <3>1 DEF DoneTold
    <2>3. ASSUME NEW d \in Dispatcher, Claim(s, d)
          PROVE  \A t \in Spawn : spawn'[t].pc # "empty"
        BY <1>0, <2>3 DEF Claim, Spawns, DoneTold
    <2>4. ASSUME NEW j \in Job, RunJob(s, j)
          PROVE  \A t \in Spawn : spawn'[t].pc # "empty"
        <3>1. spawn' = spawn \/ spawn' = [spawn EXCEPT ![s].pc = "ref", ![s].job = j]
            BY <2>4, Zenon DEF RunJob
        <3> QED
            <4>1. CASE spawn' = spawn
                BY <4>1 DEF DoneTold
            <4>2. CASE spawn' = [spawn EXCEPT ![s].pc = "ref", ![s].job = j]
                <5>1. spawn'[s].pc = "ref" /\ \A t \in Spawn \ {s} : spawn'[t] = spawn[t]
                    BY <1>0, <4>2, Zenon DEF Spawns
                <5> QED
                    BY <5>1 DEF DoneTold
            <4> QED
                BY <3>1, <4>1, <4>2
    <2> QED
        BY <2>1, <2>2, <2>3, <2>4, Zenon
<1>4. \A j \in Job : job'[j].pc = "wrap" => job[j].pc = "wrap"
    <2>1. ASSUME NEW j \in Job, RunJob(s, j)
          PROVE  job'[j].pc = "boot" /\ \A k \in Job \ {j} : job'[k] = job[k]
        BY <2>1, Zenon DEF RunJob, TypeOK
    <2>2. job' = job \/ \E j \in Job : RunJob(s, j)
        BY <1>1, Zenon DEF Spawner, BornClaimed, TakeOver, Claim, RunRaises, FailRaised,
           SetRunnerRef, SpawnerGone
    <2> QED
        BY <2>1, <2>2
<1> QED
    BY <1>2, <1>3, <1>4 DEF DoneTold, CompletedMeansDone

\* A container completes the row only when the body has returned.
LEMMA ContainerDone ==
    ASSUME TypeOK, DoneTold, CompletedMeansDone, NEW j \in Job, Container(j)
    PROVE  DoneTold' /\ CompletedMeansDone'
<1>0. row \in Row /\ job \in [Job -> Jobs] /\ job[j] \in Jobs
    BY DEF TypeOK
<1>1. spawn' = spawn /\ (done' = done \/ Return(j))
    BY Zenon DEF Container, ClaimForExecution, Beat, Return, Wrap, Raise, RaisePermanent,
       OuterHandler, ReportFailure, Cancelled, Kill
<1>2. \A k \in Job : job'[k].pc = "wrap" => k \in done'
    <2>1. CASE Beat(j)
        BY <2>1 DEF Beat, DoneTold
    <2>2. CASE Return(j)
        <3>1. \A k \in Job \ {j} : job'[k] = job[k]
            BY <2>2, JobGotoIs, Zenon DEF Return
        <3> QED
            BY <2>2, <3>1 DEF Return, DoneTold
    <2>3. CASE ~Beat(j) /\ ~Return(j)
        <3>1. \/ \E p \in {"running", "outer", "report"} : JobGoto(j, p)
              \/ ExitOk(j) \/ ExitFail(j)
            BY <2>3 DEF Container, ClaimForExecution, Wrap, Raise, RaisePermanent,
               OuterHandler, ReportFailure, Cancelled, Kill
        <3>2. job'[j].pc # "wrap"
            <4>1. ASSUME NEW p \in {"running", "outer", "report"}, JobGoto(j, p)
                  PROVE  job'[j].pc # "wrap"
                BY <1>0, <4>1 DEF JobGoto, Jobs
            <4>2. CASE ExitOk(j)
                BY <1>0, <4>2 DEF ExitOk, Jobs
            <4>3. CASE ExitFail(j)
                BY <1>0, <4>3, FailedIs DEF ExitFail
            <4> QED
                BY <3>1, <4>1, <4>2, <4>3
        <3>3. \A k \in Job \ {j} : job'[k] = job[k]
            BY <3>1, JobGotoIs
        <3> QED
            BY <1>1, <2>3, <3>2, <3>3 DEF DoneTold
    <2> QED
        BY <2>1, <2>2, <2>3
<1>3. row'.status # "DISMISSED" /\ (row'.status = "COMPLETED" => done' # {})
    <2>1. CASE Wrap(j)
        BY <1>0, <2>1, StatusWrites DEF Wrap, DoneTold, CompletedMeansDone
    <2>2. CASE Return(j)
        BY <2>2 DEF Return, DoneTold
    <2>3. CASE ~Wrap(j) /\ ~Return(j)
        <3>1. \/ row' = row \/ row'.status = row.status
              \/ row'.status \in {"PENDING", "ACTIVE", "DEAD_LETTER", "FAILED"}
            <4>0. CASE Beat(j)
                BY <1>0, <4>0, StatusWrites, Zenon DEF Beat
            <4>1. CASE ClaimForExecution(j) \/ Raise(j) \/ Kill(j)
                <5>1. row' = row \/ row' = Claimed(row, job[j].id)
                    BY <4>1, Zenon DEF ClaimForExecution, Raise, Kill
                <5>2. Claimed(row, job[j].id).status = "ACTIVE"
                    BY <1>0 DEF Claimed, Row
                <5> QED
                    BY <5>1, <5>2
            <4>2. CASE RaisePermanent(j) \/ OuterHandler(j)
                BY <1>0, <4>2, StatusWrites DEF RaisePermanent, OuterHandler
            <4>3. CASE ReportFailure(j)
                BY <1>0, <4>3 DEF ReportFailure, Row
            <4>4. CASE Cancelled(j)
                <5>1. row.status = "ACTIVE" =>
                        [ResetToPending(row) EXCEPT !.lock = "null"].status = "PENDING"
                    BY <1>0 DEF ResetToPending, Row
                <5>2. FailedForGood(row).status = "FAILED"
                    BY <1>0, StatusWrites, Zenon
                <5>3. \/ row' = row \/ row' = FailedForGood(row)
                      \/ /\ row.status = "ACTIVE"
                         /\ row' = [ResetToPending(row) EXCEPT !.lock = "null"]
                    BY <4>4, Zenon DEF Cancelled
                <5>4. CASE row' = [ResetToPending(row) EXCEPT !.lock = "null"]
                           /\ row.status = "ACTIVE"
                    BY <5>1, <5>4, Zenon
                <5> QED
                    BY <5>2, <5>3, <5>4, Zenon
            <4> QED
                BY <2>3, <4>0, <4>1, <4>2, <4>3, <4>4, Zenon DEF Container
        <3> QED
            BY <1>1, <2>3, <3>1 DEF DoneTold, CompletedMeansDone
    <2> QED
        BY <2>1, <2>2, <2>3
<1> QED
    BY <1>1, <1>2, <1>3 DEF DoneTold, CompletedMeansDone

\* No step completes a row whose body has not returned.
LEMMA NextDone ==
    ASSUME TypeOK, OneAttempt, DoneTold, CompletedMeansDone, Faults \subseteq {"lost ref"},
           Reconciler = {}, [Next]_vars
    PROVE  DoneTold' /\ CompletedMeansDone'
<1>0. row \in Row
    BY DEF TypeOK
<1>1. CASE Enqueue \/ Lapse \/ Reap
    <2>1. /\ UNCHANGED <<spawn, job, done>>
          /\ row' = Created \/ row' = Lapsed(row) \/ row' = Reaped(row)
        BY <1>1 DEF Enqueue, Lapse, Reap
    <2>2. row'.status = row.status \/ row'.status \in {"PENDING", "ACTIVE", "DEAD_LETTER"}
        <3>1. /\ Created.status = "PENDING" /\ Lapsed(row).status = row.status
              /\ Reaped(row).status \in {"PENDING", "DEAD_LETTER"}
            BY <1>0, StatusWrites, Zenon
        <3> QED
            BY <2>1, <3>1
    <2> QED
        BY <2>1, <2>2, NotCompleted
<1>2. ~Dismiss
    BY DEF Dismiss
<1>3. ASSUME NEW d \in Dispatcher, DispatcherBeat(d) PROVE DoneTold' /\ CompletedMeansDone'
    BY <1>0, <1>3, StatusWrites, NotCompleted DEF DispatcherBeat
<1>4. ASSUME NEW d \in Dispatcher, DispatcherGone(d) PROVE DoneTold' /\ CompletedMeansDone'
    <2>1. /\ \A s \in Spawn : spawn'[s] = spawn[s] \/ spawn'[s].pc = "over"
          /\ UNCHANGED <<row, job, done>>
        BY <1>4, Zenon DEF DispatcherGone, TypeOK, Spawns
    <2> QED
        BY <2>1 DEF DoneTold, CompletedMeansDone
<1>5. CASE UNCHANGED vars
    BY <1>5, NotCompleted DEF vars
<1> QED
    BY <1>1, <1>2, <1>3, <1>4, <1>5, SpawnerDone, ContainerDone, Zenon DEF Next

\* A row is COMPLETED only if the body returned in some container, as long as the job map
\* knows the task type, nobody dismisses the task and, of the faults, only the write of
\* runner_ref may fail, no reconciler acting.
THEOREM CompletedForReason ==
    ASSUME Faults \subseteq {"lost ref"}, Reconciler = {}
    PROVE  Spec => []CompletedMeansDone
<1>0. Sheltered
    BY DEF Sheltered
<1>1. Init => DoneTold /\ CompletedMeansDone
    <2> SUFFICES ASSUME Init PROVE DoneTold /\ CompletedMeansDone
        OBVIOUS
    <2>1. row.status = "NONE"
        BY DEF Init, NoRow
    <2>2. /\ \A s \in Spawn : spawn[s].pc = "none"
          /\ \A j \in Job : job[j].pc = "none"
        BY Zenon DEF Init, NoSpawn, NoJob
    <2> QED
        BY <2>1, <2>2 DEF DoneTold, CompletedMeansDone
<1>2. /\ TypeOK /\ OneAttempt /\ DoneTold /\ CompletedMeansDone /\ [Next]_vars
      => (DoneTold /\ CompletedMeansDone)'
    BY NextDone
<1>3. Spec => []OneAttempt
    BY <1>0, AttemptSafe
<1> QED
    BY <1>1, <1>2, <1>3, TypeCorrect, PTL DEF Spec

=============================================================================
