---------------------- MODULE TaskQueueContractProofs ----------------------
(***************************************************************************)
(* TaskQueue implements TaskContract, for any sets of tasks and runners,   *)
(* any retry limits and any number of claims.                              *)
(*                                                                         *)
(* The argument: most actions run one statement on one row; Allowed lists  *)
(* the ways a row may change that are steps of the contract or invisible   *)
(* in it, and every statement is shown to be one of them.  The invariant   *)
(* of TaskQueueProofs supplies what the owner guards alone do not: that an *)
(* owner is a runner just while a row may still be written, and that a     *)
(* task whose completion landed has no owner.                              *)
(***************************************************************************)
EXTENDS TaskQueueProofs, TaskQueueContract

LEMMA States ==
    /\ StateOf("NONE") = "absent" /\ StateOf("PENDING") = "open" /\ StateOf("ACTIVE") = "held"
    /\ StateOf("COMPLETED") = "done" /\ StateOf("DISMISSED") = "cancelled"
    /\ StateOf("PURGED") = "gone" /\ StateOf("FAILED") = "failed"
    /\ StateOf("DEAD_LETTER") = "failed"
BY DEF StateOf

\* What a statement may do to a row r: nothing the contract sees, or one of its
\* steps.
Allowed(r, r2) ==
    \/ r2.status = r.status /\ r2.owner = r.owner
    \/ r.status = "NONE" /\ r2.status = "PENDING" /\ r2.owner = Nobody
    \/ /\ r.status = "ACTIVE" \/ r.owner # Nobody
       /\ r2.status = "PENDING" /\ r2.owner = Nobody
    \/ /\ r.status \in {"PENDING", "ACTIVE"} \/ r.owner # Nobody
       /\ r2.status \in {"FAILED", "DEAD_LETTER"} /\ r2.owner \in {r.owner, Nobody}
    \/ /\ r.status \notin {"NONE", "PURGED"}
       /\ r2.status = "DISMISSED" /\ r2.owner = r.owner
    \/ /\ r.status \in {"FAILED", "DEAD_LETTER"}
       /\ r2.status = "PENDING" /\ r2.owner = Nobody
    \/ /\ r.status \in {"COMPLETED", "FAILED", "DEAD_LETTER"}
       /\ r2.status = "PURGED" /\ r2.owner = Nobody

ContractStep == Contract!Next \/ UNCHANGED Contract!vars

\* The contract does not see a step that keeps every status, owner and landed
\* completion.
LEMMA Unseen ==
    ASSUME \A t \in Task : row'[t].status = row[t].status /\ row'[t].owner = row[t].owner,
           completions' = completions
    PROVE  ContractStep
<1>1. taskState' = taskState /\ taskHolder' = taskHolder
    BY DEF taskState, taskHolder
<1> QED
    BY <1>1 DEF ContractStep, Contract!vars

LEMMA AllowedStep ==
    ASSUME row \in [Task -> Row], NEW t \in Task, NEW r2, SetRow(t, r2), Allowed(row[t], r2),
           completions' = completions
    PROVE  ContractStep
<1>0. row' = [row EXCEPT ![t] = r2]
    BY DEF SetRow
<1>1. /\ taskState[t] = StateOf(row[t].status) /\ taskHolder[t] = row[t].owner
      /\ taskState' = [taskState EXCEPT ![t] = StateOf(r2.status)]
      /\ taskHolder' = [taskHolder EXCEPT ![t] = r2.owner]
    BY <1>0, Zenon DEF taskState, taskHolder
<1>2. CASE r2.status = row[t].status /\ r2.owner = row[t].owner
    <2>1. \A u \in Task : row'[u].status = row[u].status /\ row'[u].owner = row[u].owner
        BY <1>0, <1>2
    <2> QED
        BY <2>1, Unseen
<1>3. CASE row[t].status = "NONE" /\ r2.status = "PENDING" /\ r2.owner = Nobody
    <2>1. Contract!Submit(t)
        BY <1>1, <1>3, States, Zenon DEF Contract!Submit, Contract!Move
    <2> QED
        BY <2>1 DEF ContractStep, Contract!Next
<1>4. CASE /\ row[t].status = "ACTIVE" \/ row[t].owner # Nobody
           /\ r2.status = "PENDING" /\ r2.owner = Nobody
    <2>1. Contract!Release(t)
        BY <1>1, <1>4, States, Zenon DEF Contract!Release, Contract!Move
    <2> QED
        BY <2>1 DEF ContractStep, Contract!Next
<1>5. CASE /\ row[t].status \in {"PENDING", "ACTIVE"} \/ row[t].owner # Nobody
           /\ r2.status \in {"FAILED", "DEAD_LETTER"} /\ r2.owner \in {row[t].owner, Nobody}
    <2>1. Contract!GiveUp(t)
        BY <1>1, <1>5, States, Zenon DEF Contract!GiveUp, Contract!Move
    <2> QED
        BY <2>1 DEF ContractStep, Contract!Next
<1>6. CASE /\ row[t].status \notin {"NONE", "PURGED"}
           /\ r2.status = "DISMISSED" /\ r2.owner = row[t].owner
    <2>1. row[t].status \in Status
        BY DEF Row
    <2>2. taskState[t] \notin {"absent", "gone"}
        BY <1>1, <1>6, <2>1, States DEF Status
    <2>3. Contract!Cancel(t)
        BY <1>1, <1>6, <2>2, States, Zenon DEF Contract!Cancel, Contract!Move
    <2> QED
        BY <2>3 DEF ContractStep, Contract!Next
<1>7. CASE /\ row[t].status \in {"FAILED", "DEAD_LETTER"}
           /\ r2.status = "PENDING" /\ r2.owner = Nobody
    <2>1. /\ taskState' = [u \in Task |-> IF u \in {t} THEN "open" ELSE taskState[u]]
          /\ taskHolder' = [u \in Task |-> IF u \in {t} THEN Nobody ELSE taskHolder[u]]
        <3>1. StateOf(row'[t].status) = "open" /\ row'[t].owner = Nobody
            BY <1>0, <1>7, States
        <3>2. \A u \in Task : u # t => row'[u] = row[u]
            BY <1>0
        <3> QED
            BY <3>1, <3>2 DEF taskState, taskHolder
    <2>2. taskState[t] = "failed"
        BY <1>1, <1>7, States
    <2>3. Contract!Reopen({t})
        BY <2>1, <2>2 DEF Contract!Reopen, Contract!MoveAll
    <2> QED
        BY <2>3 DEF ContractStep, Contract!Next
<1>8. CASE /\ row[t].status \in {"COMPLETED", "FAILED", "DEAD_LETTER"}
           /\ r2.status = "PURGED" /\ r2.owner = Nobody
    <2>1. Contract!Forget(t)
        BY <1>1, <1>8, States, Zenon DEF Contract!Forget, Contract!Move
    <2> QED
        BY <2>1 DEF ContractStep, Contract!Next
<1> QED
    BY <1>2, <1>3, <1>4, <1>5, <1>6, <1>7, <1>8 DEF Allowed

\* Every statement on one row, under the conditions its action runs it, is allowed.
LEMMA StatementsAllowed ==
    ASSUME NEW r \in Row
    PROVE  /\ Allowed(r, r)
           /\ r.status = "NONE" => Allowed(r, Created)
           /\ Allowed(r, ResetToPending(r))
           /\ Sweepable(r) => Allowed(r, DeadLettered(r))
           /\ r.owner # Nobody => /\ Allowed(r, FailedRetrying(r))
                                  /\ Allowed(r, FailedForGood(r))
                                  /\ Allowed(r, DeadLettered(r))
           /\ Allowed(r, Lapsed(r))
           /\ Reapable(r) => Allowed(r, Reaped(r))
           /\ Orphan(r) => Allowed(r, Orphaned(r))
           /\ Requeueable(r) => \A b \in BOOLEAN : Allowed(r, Requeued(r, b))
           /\ Purgeable(r) => Allowed(r, Purged)
           /\ \A b \in BOOLEAN : Allowed(r, Dismissed(r, b))
           /\ Allowed(r, DismissStamped(r))
<1>1. Allowed(r, r) /\ (r.status = "NONE" => Allowed(r, Created))
    BY DEF Allowed, Created, NoRow
<1>2. Allowed(r, ResetToPending(r))
    BY DEF Allowed, ResetToPending, Row
<1>3. /\ Sweepable(r) => Allowed(r, DeadLettered(r))
      /\ r.owner # Nobody => Allowed(r, DeadLettered(r)) /\ Allowed(r, FailedForGood(r))
    BY DEF Allowed, DeadLettered, FailedForGood, Sweepable, Row
<1>4. r.owner # Nobody => Allowed(r, FailedRetrying(r))
    BY DEF Allowed, FailedRetrying, Row
<1>5. Allowed(r, Lapsed(r)) /\ (Orphan(r) => Allowed(r, Orphaned(r)))
    BY DEF Allowed, Lapsed, Orphan, Orphaned, Row
<1>6. Reapable(r) => Allowed(r, Reaped(r))
    <2>1. Reaped(r).status \in {"DEAD_LETTER", "PENDING"} /\ Reaped(r).owner = Nobody
        BY DEF Reaped, Row
    <2> QED
        BY <2>1 DEF Reapable, Allowed
<1>7. Requeueable(r) => \A b \in BOOLEAN : Allowed(r, Requeued(r, b))
    BY DEF Allowed, Requeueable, Requeued, Row
<1>8. Purgeable(r) => Allowed(r, Purged)
    BY DEF Allowed, Purgeable, Purged, NoRow
<1>9. \A b \in BOOLEAN : Allowed(r, Dismissed(r, b))
    BY DEF Allowed, Dismissed, Row
<1>10. Allowed(r, DismissStamped(r))
    BY DEF Allowed, DismissStamped, UnconfirmedDismissal, Row
<1> QED
    BY <1>1, <1>2, <1>3, <1>4, <1>5, <1>6, <1>7, <1>8, <1>9, <1>10

----------------------------------------------------------------------------
(* Which steps let a completion land. *)

LEMMA SameCompletions ==
    ASSUME \A t \in Task, n \in AttemptId :
               (att'[t][n].landed /\ att'[t][n].outcome = "success")
                   <=> (att[t][n].landed /\ att[t][n].outcome = "success")
    PROVE  completions' = completions
BY DEF completions, Landed

LEMMA AttUnchanged == att' = att => completions' = completions
BY DEF completions, Landed

LEMMA GotoCompletions ==
    ASSUME att \in [Task -> [AttemptId -> Attempt]], NEW t \in Task, NEW n \in AttemptId,
           NEW p, Goto(t, n, p)
    PROVE  completions' = completions
<1>1. \A u \in Task, m \in AttemptId :
        att'[u][m].landed = att[u][m].landed /\ att'[u][m].outcome = att[u][m].outcome
    BY DEF Goto, Attempt
<1> QED
    BY <1>1, SameCompletions

----------------------------------------------------------------------------
(* One step per action. *)

\* An action that rewrites one row and lets no completion land.
LEMMA StatementStep ==
    ASSUME Inv, NEW t \in Task, NEW r2, SetRow(t, r2), Allowed(row[t], r2),
           completions' = completions
    PROVE  ContractStep
<1>1. row \in [Task -> Row]
    BY DEF Inv, TypeOK
<1> QED
    BY <1>1, AllowedStep

LEMMA RowsKept ==
    ASSUME row' = row, completions' = completions
    PROVE  ContractStep
BY Unseen

LEMMA MaintenanceContract ==
    ASSUME Inv, NEW t \in Task, MaintenanceStep(t)
    PROVE  ContractStep
<1>1. completions' = completions
    BY AttUnchanged DEF MaintenanceStep, Lapse, Reap, SweepUnclaimable, CleanupOrphan,
                        RequeueTask, Purge
<1>2. row[t] \in Row
    BY InvAt
<1>3. CASE Lapse(t)
    BY <1>1, <1>2, <1>3, StatementsAllowed, StatementStep DEF Lapse
<1>4. CASE Reap(t)
    BY <1>1, <1>2, <1>4, StatementsAllowed, StatementStep DEF Reap
<1>5. CASE SweepUnclaimable(t)
    BY <1>1, <1>2, <1>5, StatementsAllowed, StatementStep DEF SweepUnclaimable
<1>6. CASE CleanupOrphan(t)
    BY <1>1, <1>2, <1>6, StatementsAllowed, StatementStep DEF CleanupOrphan
<1>7. ASSUME NEW b \in RequeueModes, RequeueTask(t, b)
      PROVE  ContractStep
    BY <1>1, <1>2, <1>7, StatementsAllowed, StatementStep, RequeueModesAssumption
       DEF RequeueTask
<1>8. CASE Purge(t)
    BY <1>1, <1>2, <1>8, StatementsAllowed, StatementStep DEF Purge
<1> QED
    BY <1>3, <1>4, <1>5, <1>6, <1>7, <1>8 DEF MaintenanceStep

LEMMA ClientContract ==
    ASSUME Inv, NEW t \in Task, ClientStep(t)
    PROVE  ContractStep
<1>1. completions' = completions
    BY AttUnchanged DEF ClientStep, Enqueue, DismissRead, DismissWrite, DismissSignal
<1>2. row[t] \in Row
    BY InvAt
<1>3. CASE Enqueue(t)
    BY <1>1, <1>2, <1>3, StatementsAllowed, StatementStep DEF Enqueue
<1>4. CASE DismissRead(t) \/ DismissSignal(t)
    BY <1>1, <1>4, RowsKept DEF DismissRead, DismissSignal
<1>5. CASE DismissWrite(t)
    <2> DEFINE r2 == Dismissed(row[t], dismissal[t] = "PENDING")
    <2>1. Allowed(row[t], r2)
        BY <1>2, StatementsAllowed, Zenon
    <2>2. SetRow(t, r2)
        BY <1>5 DEF DismissWrite
    <2> HIDE DEF r2
    <2> QED
        BY <1>1, <2>1, <2>2, StatementStep
<1> QED
    BY <1>3, <1>4, <1>5 DEF ClientStep

\* An attempt's terminal write: accepted once, and only from the owner.
LEMMA EndContract ==
    ASSUME Inv, NEW t \in Task, NEW n \in AttemptId, NEW o \in Outcome, End(t, n, o)
    PROVE  ContractStep
<1> DEFINE landed == OwnedBy(row[t], att[t][n].by)
<1>1. /\ att \in [Task -> [AttemptId -> Attempt]] /\ row \in [Task -> Row]
      /\ row[t] \in Row /\ att[t][n].pc = "running" /\ att[t][n].by \in Runner
    BY AttemptAt, InvAt DEF End, Inv, TypeOK
<1>2. ~att[t][n].landed
    BY <1>1, InvAt DEF TaskInv, AttemptInv
<1>3. /\ att'[t][n].landed = landed /\ att'[t][n].outcome = o
      /\ \A u \in Task, m \in AttemptId : u # t \/ m # n => att'[u][m] = att[u][m]
    <2> DEFINE a2 == Ended(att[t], n, o, landed)
    <2>1. att' = [att EXCEPT ![t] = a2]
        BY <1>1, Zenon DEF End, Ended
    <2>2. att[t] \in [AttemptId -> Attempt]
        BY <1>1
    <2>3. /\ a2[n].landed = landed /\ a2[n].outcome = o
          /\ \A m \in AttemptId : m # n => a2[m] = att[t][m]
        BY <2>2 DEF Ended, Attempt
    <2> HIDE DEF a2, landed
    <2> QED
        BY <1>1, <2>1, <2>3
<1>4. CASE ~landed
    <2>1. completions' = completions
        BY <1>2, <1>3, <1>4, SameCompletions
    <2> QED
        BY <1>4, <2>1, RowsKept DEF End
<1>5. CASE landed /\ o # "success"
    <2>1. completions' = completions
        BY <1>2, <1>3, <1>5, SameCompletions
    <2>2. SetRow(t, Written(row[t], o)) /\ row[t].owner # Nobody
        BY <1>1, <1>5, NobodyAssumption DEF End, OwnedBy
    <2>3. o \in {"failure", "permanent", "timeout"}
        BY <1>5 DEF Outcome
    <2>4. Allowed(row[t], Written(row[t], o))
        BY <1>1, <2>2, <2>3, StatementsAllowed DEF Written
    <2> QED
        BY <2>1, <2>2, <2>4, StatementStep
<1>6. CASE landed /\ o = "success"
    <2>1. row' = [row EXCEPT ![t] = Completed(row[t])] /\ row[t].owner # Nobody
        BY <1>1, <1>6, NobodyAssumption DEF End, OwnedBy, SetRow, Written
    <2>2. Completed(row[t]).status = "COMPLETED" /\ Completed(row[t]).owner = Nobody
        BY <1>1 DEF Completed, Row
    <2>3. /\ taskState' = [taskState EXCEPT ![t] = "done"]
          /\ taskHolder' = [taskHolder EXCEPT ![t] = Nobody]
          /\ taskHolder[t] # Nobody
        BY <2>1, <2>2, <1>1, States, Zenon DEF taskState, taskHolder
    <2>4. \A m \in AttemptId : ~(att[t][m].landed /\ att[t][m].outcome = "success")
        BY <2>1, InvAt DEF TaskInv, SuccessInv
    <2>5. completions[t] = {}
        BY <2>4 DEF completions, Landed
    <2>6. ASSUME NEW u \in Task
          PROVE  completions'[u] = IF u = t THEN {n} ELSE completions[u]
        <3>1. CASE u = t
            <4>1. \A m \in AttemptId :
                     (att'[t][m].landed /\ att'[t][m].outcome = "success") <=> m = n
                BY <1>3, <1>6, <2>4, Zenon
            <4> QED
                BY <3>1, <4>1 DEF completions, Landed
        <3>2. CASE u # t
            BY <1>3, <3>2 DEF completions, Landed
        <3> QED
            BY <3>1, <3>2
    <2>7. completions' = [completions EXCEPT ![t] = {n}]
        BY <2>6, Zenon DEF completions
    <2>8. Contract!Accept(t, n)
        BY <2>3, <2>5, <2>7 DEF Contract!Accept, Contract!Move
    <2> QED
        BY <2>8 DEF ContractStep, Contract!Next
<1> QED
    BY <1>4, <1>5, <1>6

LEMMA AttemptContract ==
    ASSUME Inv, NEW t \in Task, NEW n \in AttemptId, AttemptStep(t, n)
    PROVE  ContractStep
<1>1. att \in [Task -> [AttemptId -> Attempt]] /\ row[t] \in Row
    BY InvAt DEF Inv, TypeOK
<1>2. ASSUME NEW p, Goto(t, n, p)
      PROVE  completions' = completions
    BY <1>1, <1>2, GotoCompletions
<1>3. CASE Reject(t, n)
    <2>1. completions' = completions
        BY <1>2, <1>3 DEF Reject
    <2>2. PICK r2 : SetRow(t, r2) /\ Allowed(row[t], r2)
        BY <1>1, <1>3, StatementsAllowed DEF Reject
    <2> QED
        BY <2>1, <2>2, StatementStep
<1>4. CASE \/ Accept(t, n) \/ Start(t, n) \/ CheckRoute(t, n) \/ FireRoute(t, n)
           \/ Unregister(t, n) \/ DbFailure(t, n) \/ CancelRead(t, n)
    <2>1. row' = row /\ \E p \in PC : Goto(t, n, p)
        BY <1>4, Zenon DEF Accept, Start, CheckRoute, FireRoute, Unregister, DbFailure, CancelRead, PC
    <2> QED
        BY <1>2, <2>1, RowsKept
<1>5. ASSUME NEW o \in Outcome, End(t, n, o)
      PROVE  ContractStep
    BY <1>5, EndContract
<1>6. CASE CancelStamp(t, n)
    BY <1>1, <1>2, <1>6, StatementsAllowed, StatementStep, Zenon DEF CancelStamp
<1>7. CASE CancelGiveBack(t, n)
    <2> DEFINE r2 == IF OwnedBy(row[t], att[t][n].by) THEN FailedRetrying(row[t])
                                                      ELSE row[t]
    <2>1. att[t][n].by # Nobody
        BY <1>7, AttemptAt, NobodyAssumption DEF CancelGiveBack
    <2>2. Allowed(row[t], r2)
        BY <1>1, <2>1, StatementsAllowed, Zenon DEF OwnedBy
    <2>3. SetRow(t, r2) /\ completions' = completions
        BY <1>2, <1>7, Zenon DEF CancelGiveBack
    <2> HIDE DEF r2
    <2> QED
        BY <2>2, <2>3, StatementStep
<1> QED
    BY <1>3, <1>4, <1>5, <1>6, <1>7 DEF AttemptStep

\* A claim grants its rows: they are queued, so nobody owns them.
LEMMA ClaimContract ==
    ASSUME Inv, NEW d \in Runner, NEW S \in SUBSET Task, Claim(d, S)
    PROVE  ContractStep
<1>1. ASSUME NEW t \in S
      PROVE  /\ row[t].status = "PENDING" /\ row[t].owner = Nobody
             /\ row'[t].status = "ACTIVE" /\ row'[t].owner = d
    <2>1. row[t] \in Row /\ Claimable(row[t]) /\ RowInv(row[t], claims[t], att[t])
        BY InvAt DEF Claim, TaskInv
    <2>2. row'[t] = Claimed(row[t], d)
        BY DEF Claim
    <2> QED
        BY <2>1, <2>2 DEF Claimable, RowInv, Claimed, Row
<1>2. ASSUME NEW t \in Task, t \notin S
      PROVE  row'[t] = row[t]
    BY <1>2 DEF Claim
<1>3. completions' = completions
    <2>1. ASSUME NEW t \in Task, NEW n \in AttemptId
          PROVE  (att'[t][n].landed /\ att'[t][n].outcome = "success")
                     <=> (att[t][n].landed /\ att[t][n].outcome = "success")
        <3>1. CASE t \in S /\ n = claims[t] + 1
            <4>1. att'[t][n] = [NoAttempt EXCEPT !.by = d, !.pc = "claimed"]
                BY <3>1, InvAt DEF Claim
            <4>2. ~att'[t][n].landed
                BY <4>1 DEF NoAttempt
            <4>3. n > claims[t]
                BY <3>1, InvAt, MaxClaimsAssumption
            <4>4. ~att[t][n].landed
                BY <4>3, InvAt, Zenon DEF TaskInv, AttemptInv
            <4> QED
                BY <4>2, <4>4
        <3>2. CASE ~(t \in S /\ n = claims[t] + 1)
            <4>1. att'[t][n] = att[t][n]
                BY <3>2, InvAt DEF Claim
            <4> QED
                BY <4>1
        <3> QED
            BY <3>1, <3>2
    <2> QED
        BY <2>1, SameCompletions
<1>4. Contract!Grant(S, d)
    <2>1. \A t \in S : taskState[t] = "open" /\ taskHolder[t] = Nobody
        BY <1>1, States DEF taskState, taskHolder
    <2>2. /\ taskState' = [t \in Task |-> IF t \in S THEN "held" ELSE taskState[t]]
          /\ taskHolder' = [t \in Task |-> IF t \in S THEN d ELSE taskHolder[t]]
        BY <1>1, <1>2, States DEF taskState, taskHolder
    <2> QED
        BY <1>3, <2>1, <2>2 DEF Contract!Grant, Contract!MoveAll
<1> QED
    BY <1>4 DEF ContractStep, Contract!Next

LEMMA RequeueContract ==
    ASSUME Inv, NEW S \in SUBSET Task, NEW b \in RequeueModes, RequeueByType(S, b)
    PROVE  ContractStep
<1>1. ASSUME NEW t \in S
      PROVE  /\ row[t].status \in {"FAILED", "DEAD_LETTER"}
             /\ row'[t].status = "PENDING" /\ row'[t].owner = Nobody
    <2>1. row[t] \in Row /\ Requeueable(row[t]) /\ row'[t] = Requeued(row[t], b)
        BY InvAt DEF RequeueByType
    <2> QED
        BY <2>1 DEF Requeueable, Requeued, Row
<1>2. ASSUME NEW t \in Task, t \notin S
      PROVE  row'[t] = row[t]
    BY <1>2 DEF RequeueByType
<1>3. completions' = completions
    BY AttUnchanged DEF RequeueByType
<1>4. Contract!Reopen(S)
    <2>1. \A t \in S : taskState[t] = "failed"
        BY <1>1, States DEF taskState
    <2>2. /\ taskState' = [t \in Task |-> IF t \in S THEN "open" ELSE taskState[t]]
          /\ taskHolder' = [t \in Task |-> IF t \in S THEN Nobody ELSE taskHolder[t]]
        BY <1>1, <1>2, States, Zenon DEF taskState, taskHolder
    <2> QED
        BY <1>3, <2>1, <2>2 DEF Contract!Reopen, Contract!MoveAll
<1> QED
    BY <1>4 DEF ContractStep, Contract!Next

\* Attempts that only move their program counter are not seen, however many.
LEMMA LeaveContract ==
    ASSUME Inv, row' = row, NEW X, NEW q, Leave(X, q)
    PROVE  ContractStep
<1>1. ASSUME NEW t \in Task, NEW n \in AttemptId
      PROVE  att'[t][n].landed = att[t][n].landed /\ att'[t][n].outcome = att[t][n].outcome
    <2>1. att[t][n] \in Attempt
        BY AttemptAt, Zenon
    <2>2. \/ att'[t][n] = [att[t][n] EXCEPT !.pc = q[<<t, n>>]]
          \/ att'[t][n] = att[t][n]
        BY DEF Leave
    <2> QED
        BY <2>1, <2>2 DEF Attempt
<1>2. completions' = completions
    BY <1>1, SameCompletions, Zenon
<1> QED
    BY <1>2, RowsKept

LEMMA RunnerContract ==
    ASSUME Inv, NEW d \in Runner, RunnerStep(d)
    PROVE  ContractStep
<1>1. ASSUME NEW S \in SUBSET Task, Claim(d, S)
      PROVE  ContractStep
    BY <1>1, ClaimContract
<1>2. CASE FlushSnapshot(d) \/ Shutdown(d) \/ Restart(d)
    <2>1. row' = row /\ att' = att
        BY <1>2, Zenon DEF FlushSnapshot, Shutdown, Restart
    <2> QED
        BY <2>1, AttUnchanged, RowsKept
<1>3. CASE FlushWrite(d)
    <2>1. ASSUME NEW t \in Task
          PROVE  row'[t].status = row[t].status /\ row'[t].owner = row[t].owner
        <3>1. row'[t] \in {Heartbeat(row[t]), row[t]} /\ row[t] \in Row
            BY <1>3, InvAt DEF FlushWrite
        <3> QED
            BY <3>1 DEF Heartbeat, Row
    <2>2. completions' = completions
        BY <1>3, AttUnchanged DEF FlushWrite
    <2> QED
        BY <2>1, <2>2, Unseen, Zenon
<1>4. ASSUME NEW X, CancelHeld(d, X)
      PROVE  ContractStep
    <2>1. PICK to \in [X -> PC] : Leave(X, to)
        BY <1>4, Zenon DEF CancelHeld, Leave
    <2> QED
        BY <1>4, <2>1, LeaveContract DEF CancelHeld
<1>5. CASE Crash(d)
    <2>1. Leave(Held(d), [x \in Attempts |-> "dead"])
        BY <1>5 DEF Crash, Leave, Attempts
    <2> QED
        BY <1>5, <2>1, LeaveContract DEF Crash
<1>6. ASSUME NEW t \in Task, CancelDelivered(d, t)
      PROVE  ContractStep
    <2>1. row' = row
        BY <1>6, Zenon DEF CancelDelivered
    <2>2. CASE reg[d][t] = 0
        BY <1>6, <2>1, <2>2, AttUnchanged, RowsKept, Zenon DEF CancelDelivered
    <2>3. CASE reg[d][t] # 0
        <3>1. reg[d][t] \in AttemptId
            BY <2>3, MaxClaimsAssumption DEF Inv, TypeOK, AttemptId
        <3>2. PICK p : Goto(t, reg[d][t], p)
            BY <1>6, <2>3, Zenon DEF CancelDelivered
        <3>3. att \in [Task -> [AttemptId -> Attempt]]
            BY DEF Inv, TypeOK
        <3> QED
            BY <2>1, <3>1, <3>2, <3>3, GotoCompletions, RowsKept
    <2> QED
        BY <2>2, <2>3
<1> QED
    BY <1>1, <1>2, <1>3, <1>4, <1>5, <1>6 DEF RunnerStep

LEMMA NextContract == Inv /\ [Next]_vars => [Contract!Next]_(Contract!vars)
<1> SUFFICES ASSUME Inv, [Next]_vars
             PROVE  ContractStep
    BY DEF ContractStep
<1>1. CASE Next
    BY <1>1, AttemptContract, RunnerContract, MaintenanceContract, ClientContract,
       RequeueContract DEF Next
<1>2. CASE UNCHANGED vars
    BY <1>2, AttUnchanged, RowsKept DEF vars
<1> QED
    BY <1>1, <1>2

LEMMA InitContract == Init => Contract!Init
<1> SUFFICES ASSUME Init PROVE Contract!Init
    OBVIOUS
<1>1. \A t \in Task : row[t].status = "NONE" /\ row[t].owner = Nobody
    BY DEF Init, NoRow
<1>2. \A t \in Task : Landed(t, "success") = {}
    BY DEF Init, NoAttempt, Landed
<1> QED
    BY <1>1, <1>2, States DEF Contract!Init, taskState, taskHolder, completions

\* Whatever claims, crashes, cancellations, lapsed leases, dismissals, sweeps,
\* requeues and late terminal writes do to the rows of tasks.tasks, those who
\* submit tasks see the behaviour of TaskContract.
THEOREM QueueImplementsContract == Spec => ContractKept
<1>1. Spec => []Inv
    BY Invariance
<1> QED
    BY <1>1, InitContract, NextContract, PTL DEF Spec, ContractKept, Contract!Spec

============================================================================
