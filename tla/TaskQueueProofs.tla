-------------------------- MODULE TaskQueueProofs --------------------------
(***************************************************************************)
(* Proofs about TaskQueue, for any sets of tasks and runners, any retry    *)
(* limits and any number of claims.                                        *)
(*                                                                         *)
(* The argument: TaskInv speaks of one task.  A statement other than a     *)
(* claim or a terminal write maps its row to a row for which TaskInv holds *)
(* with the same attempts (the lemmas on rows), and a step of an attempt   *)
(* that only moves its program counter keeps TaskInv with the same row     *)
(* (MovedAttempts).  Claim, End and FireRoute get a lemma each.            *)
(***************************************************************************)
EXTENDS TaskQueue, TLAPS

\* A row statement leaves a well-formed row behind.
LEMMA RowTypes ==
    ASSUME NEW r \in Row
    PROVE  /\ NoRow \in Row /\ Created \in Row /\ Purged \in Row
           /\ \A o \in Runner : Claimed(r, o) \in Row
           /\ Heartbeat(r) \in Row
           /\ ResetToPending(r) \in Row
           /\ Completed(r) \in Row
           /\ FailedForGood(r) \in Row
           /\ FailedRetrying(r) \in Row
           /\ DeadLettered(r) \in Row
           /\ Reaped(r) \in Row
           /\ Orphaned(r) \in Row
           /\ \A b \in BOOLEAN : Requeued(r, b) \in Row /\ Dismissed(r, b) \in Row
           /\ DismissStamped(r) \in Row
           /\ Lapsed(r) \in Row
  <1>1. NoRow \in Row /\ Created \in Row /\ Purged \in Row
    BY Zenon DEF NoRow, Created, Purged, Row, Status, Lock
  <1>2. \A o \in Runner : Claimed(r, o) \in Row
    BY Zenon DEF Claimed, Row, Status, Lock
  <1>3. Heartbeat(r) \in Row
    BY DEF Heartbeat, Row, Status, Lock
  <1>4. ResetToPending(r) \in Row
    BY Zenon DEF ResetToPending, Row, Status, Lock
  <1>5. Completed(r) \in Row /\ FailedForGood(r) \in Row /\ DeadLettered(r) \in Row
    BY Zenon DEF Completed, FailedForGood, DeadLettered, Row, Status, Lock
  <1>6. FailedRetrying(r) \in Row
    <2>1. r.retry + 1 \in Nat
      BY DEF Row
    <2>2. CASE r.retry + 1 < RetryLimit
      BY <2>1, <2>2, Zenon DEF FailedRetrying, Row, Status, Lock
    <2>3. CASE ~(r.retry + 1 < RetryLimit)
      BY <2>1, <2>3, Zenon DEF FailedRetrying, Row, Status, Lock
    <2> QED BY <2>2, <2>3
  <1>7. Reaped(r) \in Row
    <2>1. r.retry + 1 \in Nat
      BY DEF Row
    <2>2. CASE r.retry + 1 >= RetryLimit
      BY <2>1, <2>2, Zenon DEF Reaped, Row, Status, Lock
    <2>3. CASE ~(r.retry + 1 >= RetryLimit)
      BY <2>1, <2>3, Zenon DEF Reaped, Row, Status, Lock
    <2> QED BY <2>2, <2>3
  <1>8. Orphaned(r) \in Row /\ \A b \in BOOLEAN : Requeued(r, b) \in Row
    BY Zenon DEF Orphaned, Requeued, Row, Status, Lock
  <1>9. \A b \in BOOLEAN : Dismissed(r, b) \in Row
    BY Zenon DEF Dismissed, Row, Status, Lock
  <1>10. DismissStamped(r) \in Row
    BY Zenon DEF DismissStamped, UnconfirmedDismissal, Row, Status, Lock
  <1>11. Lapsed(r) \in Row
    BY DEF Lapsed, Row, Status, Lock
  <1> QED
    BY <1>1, <1>2, <1>3, <1>4, <1>5, <1>6, <1>7, <1>8, <1>9, <1>10, <1>11

LEMMA BudgetType == RetryLimit \in Nat /\ AttemptBudget \in Nat
                    /\ AttemptBudget >= 1 /\ RetryLimit <= AttemptBudget
  BY HardCapAssumption, MaxRetriesAssumption DEF RetryLimit, AttemptBudget

LEMMA ClaimNumbers ==
    /\ 0 \in 0 .. MaxClaims
    /\ \A n \in AttemptId : n \in 0 .. MaxClaims
    /\ \A c \in 0 .. MaxClaims :
          c >= 0 /\ (c < MaxClaims => c + 1 \in 0 .. MaxClaims)
    /\ \A c \in 0 .. MaxClaims, n \in AttemptId : n <= c \/ n > c
  BY MaxClaimsAssumption DEF AttemptId

LEMMA SameFollowOn ==
    ASSUME NEW x \in AttemptId \X Outcome, NEW y \in AttemptId \X Outcome,
           x[1] = y[1], x[2] = y[2]
    PROVE  x = y
  OBVIOUS

\* A row from which no statement leads back to the queue.
Final(r) == r.status \in {"COMPLETED", "DISMISSED", "PURGED"} /\ r.owner = Nobody

\* What has to be checked of a statement that turns row r into r2 while no
\* attempt lands a write and nothing is claimed.
LEMMA RowChange ==
    ASSUME NEW r, NEW r2, NEW c, NEW a, NEW f,
           TaskInv(r, c, a, f),
           RowInv(r2, c, a), BudgetInv(r2, c), Final(r) => Final(r2)
    PROVE  TaskInv(r2, c, a, f)
  BY DEF TaskInv, SuccessInv, Final

\* Attempts move on without landing a write: only pc changes, no attempt comes
\* to life, reaches apply_terminal_action or goes back to its body.
Moved(a, a2) ==
    \A n \in AttemptId :
        /\ a2[n].by = a[n].by
        /\ a2[n].outcome = a[n].outcome
        /\ a2[n].landed = a[n].landed
        /\ a2[n].pc = "none" <=> a[n].pc = "none"
        /\ a2[n].pc \in {"claimed", "queued", "running"} =>
              a[n].pc \in {"claimed", "queued", "running"}
        /\ a2[n].pc \in {"check", "route"} => a[n].pc \in {"check", "route"}

LEMMA MovedAttempts ==
    ASSUME NEW r, NEW c \in 0 .. MaxClaims, NEW a, NEW a2,
           NEW f \in SUBSET (AttemptId \X Outcome),
           TaskInv(r, c, a, f), Moved(a, a2)
    PROVE  TaskInv(r, c, a2, f)
  <1>1. RowInv(r, c, a2)
    <2>1. c > 0 => c \in AttemptId
      BY MaxClaimsAssumption DEF AttemptId
    <2> QED BY <2>1 DEF TaskInv, RowInv, Moved
  <1>2. AttemptInv(c, a2, f)
    <2>1. \A x \in f : x[1] \in AttemptId
      OBVIOUS
    <2> QED BY <2>1 DEF TaskInv, AttemptInv, Moved
  <1>3. SuccessInv(r, a2)
    BY DEF TaskInv, SuccessInv, Moved
  <1> QED
    BY <1>1, <1>2, <1>3 DEF TaskInv

\* The statements of dispatchers, maintenance and clients that are not
\* conditional on an owner id.
LEMMA RowStatements ==
    ASSUME NEW r \in Row, NEW c \in 0 .. MaxClaims, NEW a, NEW f,
           TaskInv(r, c, a, f)
    PROVE  /\ r.status = "NONE" => TaskInv(Created, c, a, f)
           /\ TaskInv(Heartbeat(r), c, a, f)
           /\ r.lock = "future" => TaskInv(Lapsed(r), c, a, f)
           /\ Rejects # {} => TaskInv(ResetToPending(r), c, a, f)
           /\ Reapable(r) => TaskInv(Reaped(r), c, a, f)
           /\ Sweepable(r) => TaskInv(DeadLettered(r), c, a, f)
           /\ Orphan(r) => TaskInv(Orphaned(r), c, a, f)
           /\ Purgeable(r) => TaskInv(Purged, c, a, f)
           /\ \A b \in RequeueModes :
                 Requeueable(r) => TaskInv(Requeued(r, b), c, a, f)
           /\ \A b \in BOOLEAN : TaskInv(Dismissed(r, b), c, a, f)
           /\ TaskInv(DismissStamped(r), c, a, f)
  <1>0. /\ RowInv(r, c, a) /\ BudgetInv(r, c)
        /\ r.status \in Status /\ r.retry \in Nat /\ c \in Nat
    BY DEF TaskInv, Row
  <1>1. r.status = "NONE" => TaskInv(Created, c, a, f)
    BY <1>0, RowChange, BudgetType
       DEF Created, NoRow, RowInv, BudgetInv, Final
  <1>2. TaskInv(Heartbeat(r), c, a, f)
    BY <1>0, RowChange DEF Heartbeat, RowInv, BudgetInv, Final, Row
  <1>3. r.lock = "future" => TaskInv(Lapsed(r), c, a, f)
    BY <1>0, RowChange DEF Lapsed, RowInv, BudgetInv, Final, Row
  <1>4. ASSUME Rejects # {}
        PROVE  TaskInv(ResetToPending(r), c, a, f)
    <2>1. CASE r.status # "ACTIVE"
      BY <2>1 DEF ResetToPending
    <2>2. CASE r.status = "ACTIVE"
      <3> DEFINE r2 == ResetToPending(r)
      <3>1. r2.status = "PENDING" /\ r2.owner = Nobody
        BY <2>2 DEF ResetToPending, Row
      <3> HIDE DEF r2
      <3>2. RowInv(r2, c, a) /\ BudgetInv(r2, c) /\ (Final(r) => Final(r2))
        BY <1>4, <2>2, <3>1 DEF RowInv, BudgetInv, Final
      <3>3. TaskInv(r2, c, a, f)
        BY <3>2, RowChange
      <3> QED BY <3>3 DEF r2
    <2> QED BY <2>1, <2>2
  <1>5. ASSUME Reapable(r)
        PROVE  TaskInv(Reaped(r), c, a, f)
    <2> DEFINE r2 == Reaped(r)
    <2>1. /\ r.status = "ACTIVE"
          /\ r2.retry = r.retry + 1
          /\ r2.owner = Nobody
          /\ r2.status = IF r.retry + 1 >= RetryLimit THEN "DEAD_LETTER" ELSE "PENDING"
      BY <1>5 DEF Reapable, Reaped, Row
    <2> HIDE DEF r2
    <2>2. RowInv(r2, c, a)
      BY <1>0, <1>5, <2>1 DEF RowInv
    <2>3. BudgetInv(r2, c)
      BY <1>0, <1>5, <2>1, BudgetType DEF BudgetInv
    <2>4. Final(r) => Final(r2)
      BY <1>0, <1>5, <2>1 DEF Final
    <2>5. TaskInv(r2, c, a, f)
      BY <2>2, <2>3, <2>4, RowChange
    <2> QED BY <2>5 DEF r2
  <1>6. ASSUME Sweepable(r)
        PROVE  TaskInv(DeadLettered(r), c, a, f)
    <2> DEFINE r2 == DeadLettered(r)
    <2>1. /\ r.status = "PENDING"
          /\ r2.retry = r.retry
          /\ r2.status = "DEAD_LETTER"
      BY <1>6 DEF Sweepable, DeadLettered, Row
    <2> HIDE DEF r2
    <2>2. RowInv(r2, c, a)
      BY <1>0, <1>6, <2>1 DEF RowInv
    <2>3. BudgetInv(r2, c)
      BY <1>0, <1>6, <2>1, BudgetType DEF BudgetInv
    <2>4. Final(r) => Final(r2)
      BY <1>0, <1>6, <2>1 DEF Final
    <2>5. TaskInv(r2, c, a, f)
      BY <2>2, <2>3, <2>4, RowChange
    <2> QED BY <2>5 DEF r2
  <1>7. ASSUME Orphan(r)
        PROVE  TaskInv(Orphaned(r), c, a, f)
    <2> DEFINE r2 == Orphaned(r)
    <2>1. /\ r.status \in {"PENDING", "ACTIVE"}
          /\ r2.retry = r.retry
          /\ r2.status = "DEAD_LETTER"
      BY <1>7 DEF Orphan, Orphaned, Row
    <2> HIDE DEF r2
    <2>2. RowInv(r2, c, a)
      BY <1>0, <1>7, <2>1 DEF RowInv
    <2>3. BudgetInv(r2, c)
      BY <1>0, <1>7, <2>1, BudgetType DEF BudgetInv
    <2>4. Final(r) => Final(r2)
      BY <1>0, <1>7, <2>1 DEF Final
    <2>5. TaskInv(r2, c, a, f)
      BY <2>2, <2>3, <2>4, RowChange
    <2> QED BY <2>5 DEF r2
  <1>8. Purgeable(r) => TaskInv(Purged, c, a, f)
    BY <1>0, RowChange DEF Purgeable, Purged, NoRow, RowInv, BudgetInv, Final
  <1>9. ASSUME NEW b \in RequeueModes, Requeueable(r)
        PROVE  TaskInv(Requeued(r, b), c, a, f)
    <2> DEFINE r2 == Requeued(r, b)
    <2>1. /\ r.status \in {"DEAD_LETTER", "FAILED"}
          /\ r2.owner = Nobody
          /\ r2.status = "PENDING"
      BY <1>9 DEF Requeueable, Requeued, Row
    <2> HIDE DEF r2
    <2>2. RowInv(r2, c, a)
      BY <1>0, <1>9, <2>1 DEF RowInv
    <2>3. BudgetInv(r2, c)
      BY <1>0, <1>9, <2>1, BudgetType DEF BudgetInv
    <2>4. Final(r) => Final(r2)
      BY <1>0, <1>9, <2>1 DEF Final
    <2>5. TaskInv(r2, c, a, f)
      BY <2>2, <2>3, <2>4, RowChange
    <2> QED BY <2>5 DEF r2
  <1>10. ASSUME NEW b \in BOOLEAN
        PROVE  TaskInv(Dismissed(r, b), c, a, f)
    <2> DEFINE r2 == Dismissed(r, b)
    <2>1. /\ r2.retry = r.retry
          /\ r2.owner = r.owner
          /\ r2.status = IF r.status \in {"NONE", "PURGED"} THEN r.status
                                                    ELSE "DISMISSED"
      BY <1>10 DEF Dismissed, Row
    <2> HIDE DEF r2
    <2>2. RowInv(r2, c, a)
      BY <1>0, <1>10, <2>1 DEF RowInv
    <2>3. BudgetInv(r2, c)
      BY <1>0, <1>10, <2>1, BudgetType DEF BudgetInv
    <2>4. Final(r) => Final(r2)
      BY <1>0, <1>10, <2>1 DEF Final
    <2>5. TaskInv(r2, c, a, f)
      BY <2>2, <2>3, <2>4, RowChange
    <2> QED BY <2>5 DEF r2
  <1>11. TaskInv(DismissStamped(r), c, a, f)
    BY <1>0, RowChange
       DEF DismissStamped, UnconfirmedDismissal, RowInv, BudgetInv, Final, Row
  <1> QED
    BY <1>1, <1>2, <1>3, <1>4, <1>5, <1>6, <1>7, <1>8, <1>9, <1>10, <1>11

\* The statements an attempt makes under its owner id, a success excepted.
LEMMA OwnerStatements ==
    ASSUME NEW r \in Row, NEW c \in 0 .. MaxClaims, NEW a, NEW f,
           TaskInv(r, c, a, f), r.owner \in Runner
    PROVE  /\ TaskInv(FailedRetrying(r), c, a, f)
           /\ TaskInv(FailedForGood(r), c, a, f)
           /\ TaskInv(DeadLettered(r), c, a, f)
  <1>0. /\ RowInv(r, c, a) /\ BudgetInv(r, c)
        /\ r.status \in Status /\ r.retry \in Nat /\ c \in Nat
        /\ r.owner # Nobody
        /\ r.status \notin {"NONE", "PENDING", "COMPLETED", "FAILED", "PURGED"}
    BY NobodyAssumption DEF TaskInv, Row, RowInv
  <1>1. TaskInv(FailedRetrying(r), c, a, f)
    <2> DEFINE r2 == FailedRetrying(r)
    <2>1. /\ r2.retry = r.retry + 1
          /\ r2.status = IF r.retry + 1 < RetryLimit THEN "PENDING" ELSE "DEAD_LETTER"
          /\ r.retry + 1 < RetryLimit => r2.owner = Nobody
      BY DEF FailedRetrying, Row
    <2> HIDE DEF r2
    <2>2. RowInv(r2, c, a)
      BY <1>0, <2>1 DEF RowInv
    <2>3. BudgetInv(r2, c)
      BY <1>0, <2>1, BudgetType DEF BudgetInv
    <2>4. Final(r) => Final(r2)
      BY <1>0, <2>1 DEF Final
    <2>5. TaskInv(r2, c, a, f)
      BY <2>2, <2>3, <2>4, RowChange
    <2> QED BY <2>5 DEF r2
  <1>2. TaskInv(FailedForGood(r), c, a, f)
    <2> DEFINE r2 == FailedForGood(r)
    <2>1. /\ r2.retry = r.retry
          /\ r2.status = "FAILED"
          /\ r2.owner = Nobody
      BY DEF FailedForGood, Row
    <2> HIDE DEF r2
    <2>2. RowInv(r2, c, a)
      BY <1>0, <2>1 DEF RowInv
    <2>3. BudgetInv(r2, c)
      BY <1>0, <2>1, BudgetType DEF BudgetInv
    <2>4. Final(r) => Final(r2)
      BY <1>0, <2>1 DEF Final
    <2>5. TaskInv(r2, c, a, f)
      BY <2>2, <2>3, <2>4, RowChange
    <2> QED BY <2>5 DEF r2
  <1>3. TaskInv(DeadLettered(r), c, a, f)
    <2> DEFINE r2 == DeadLettered(r)
    <2>1. /\ r2.retry = r.retry
          /\ r2.status = "DEAD_LETTER"
      BY DEF DeadLettered, Row
    <2> HIDE DEF r2
    <2>2. RowInv(r2, c, a)
      BY <1>0, <2>1 DEF RowInv
    <2>3. BudgetInv(r2, c)
      BY <1>0, <2>1, BudgetType DEF BudgetInv
    <2>4. Final(r) => Final(r2)
      BY <1>0, <2>1 DEF Final
    <2>5. TaskInv(r2, c, a, f)
      BY <2>2, <2>3, <2>4, RowChange
    <2> QED BY <2>5 DEF r2
  <1> QED BY <1>1, <1>2, <1>3

\* A claim of the row.
LEMMA ClaimKeeps ==
    ASSUME NEW r \in Row, NEW c \in 0 .. MaxClaims, c < MaxClaims,
           NEW a \in [AttemptId -> Attempt],
           NEW f \in SUBSET (AttemptId \X Outcome), NEW d \in Runner,
           TaskInv(r, c, a, f), Claimable(r)
    PROVE  TaskInv(Claimed(r, d), c + 1,
                   [a EXCEPT ![c + 1] =
                       [NoAttempt EXCEPT !.by = d, !.pc = "claimed"]], f)
  <1> DEFINE r2 == Claimed(r, d)
             a2 == [a EXCEPT ![c + 1] =
                       [NoAttempt EXCEPT !.by = d, !.pc = "claimed"]]
  <1>1. /\ r.status = "PENDING" /\ r.retry \in Nat /\ r.retry < HardCap
        /\ r2.status = "ACTIVE" /\ r2.owner = d /\ r2.lock = "future"
        /\ r2.retry = r.retry
    BY DEF Claimable, Claimed, Row
  <1>2. /\ c \in Nat /\ c + 1 \in AttemptId
        /\ a2[c + 1].by = d /\ a2[c + 1].pc = "claimed"
        /\ a2[c + 1].landed = FALSE
        /\ \A n \in AttemptId : n # c + 1 => a2[n] = a[n]
    BY MaxClaimsAssumption DEF AttemptId, NoAttempt
  <1> HIDE DEF r2, a2
  <1>3. RowInv(r2, c + 1, a2)
    BY <1>1, <1>2 DEF RowInv
  <1>4. AttemptInv(c + 1, a2, f)
    <2>1. \A n \in AttemptId :
             /\ n > c + 1 => a2[n].pc = "none" /\ ~a2[n].landed
             /\ n <= c + 1 => a2[n].pc # "none"
             /\ a2[n].pc # "none" => a2[n].by \in Runner
             /\ a2[n].pc \in {"claimed", "queued", "running"} => ~a2[n].landed
             /\ a2[n].pc \in {"check", "route"} => a2[n].landed
             /\ a2[n].landed => a2[n].outcome # "open"
      BY <1>2 DEF TaskInv, AttemptInv, AttemptId
    <2>2. ASSUME NEW x \in f
          PROVE  a2[x[1]].landed /\ a2[x[1]].outcome = x[2]
      <3>1. x[1] \in AttemptId /\ a[x[1]].landed /\ a[x[1]].outcome = x[2]
        BY DEF TaskInv, AttemptInv
      <3>2. x[1] # c + 1
        BY <1>2, <3>1 DEF TaskInv, AttemptInv, AttemptId
      <3> QED BY <1>2, <3>1, <3>2
    <2> QED BY <2>1, <2>2 DEF AttemptInv
  <1>5. SuccessInv(r2, a2)
    BY <1>1, <1>2 DEF TaskInv, SuccessInv
  <1>6. BudgetInv(r2, c + 1)
    BY <1>1, <1>2, BudgetType DEF TaskInv, BudgetInv
  <1>7. TaskInv(r2, c + 1, a2, f)
    BY <1>3, <1>4, <1>5, <1>6 DEF TaskInv
  <1> QED BY <1>7 DEF r2, a2

\* The body's end: the attempt's fields after a terminal write.
Ended(a, n, o, landed) ==
    [a EXCEPT ![n].pc = IF landed THEN "check" ELSE "finish",
              ![n].outcome = o, ![n].landed = landed]

LEMMA EndKeeps ==
    ASSUME NEW r \in Row, NEW c \in 0 .. MaxClaims,
           NEW a \in [AttemptId -> Attempt],
           NEW f \in SUBSET (AttemptId \X Outcome),
           NEW n \in AttemptId, NEW o \in Outcome, NEW landed \in BOOLEAN,
           TaskInv(r, c, a, f), a[n].pc = "running",
           landed = (r.owner = a[n].by)
    PROVE  TaskInv(IF landed THEN Written(r, o) ELSE r, c,
                   Ended(a, n, o, landed), f)
  <1> DEFINE a2 == Ended(a, n, o, landed)
             r2 == IF landed THEN Written(r, o) ELSE r
  <1>1. /\ a2[n].by = a[n].by /\ a2[n].landed = landed /\ a2[n].outcome = o
        /\ a2[n].pc = IF landed THEN "check" ELSE "finish"
        /\ \A m \in AttemptId : m # n => a2[m] = a[m]
    BY DEF Ended, Attempt
  <1>2. ~a[n].landed /\ a[n].by \in Runner /\ n <= c /\ c \in Nat
    BY DEF TaskInv, AttemptInv, AttemptId
  <1> HIDE DEF a2
  <1>3. AttemptInv(c, a2, f)
    <2>1. \A m \in AttemptId :
             /\ m > c => a2[m].pc = "none" /\ ~a2[m].landed
             /\ m <= c => a2[m].pc # "none"
             /\ a2[m].pc # "none" => a2[m].by \in Runner
             /\ a2[m].pc \in {"claimed", "queued", "running"} => ~a2[m].landed
             /\ a2[m].pc \in {"check", "route"} => a2[m].landed
             /\ a2[m].landed => a2[m].outcome # "open"
      BY <1>1, <1>2 DEF TaskInv, AttemptInv, AttemptId, Outcome
    <2>2. ASSUME NEW x \in f
          PROVE  a2[x[1]].landed /\ a2[x[1]].outcome = x[2]
      <3>1. x[1] \in AttemptId /\ a[x[1]].landed /\ a[x[1]].outcome = x[2]
        BY DEF TaskInv, AttemptInv
      <3> QED BY <1>1, <1>2, <3>1
    <2> QED BY <2>1, <2>2 DEF AttemptInv
  <1>4. \A s : RowInv(s, c, a) => RowInv(s, c, a2)
    <2>1. c > 0 => c \in AttemptId /\ a2[c].by = a[c].by
      BY <1>1, MaxClaimsAssumption DEF AttemptId
    <2> QED BY <2>1 DEF RowInv
  <1>5. CASE ~landed
    <2>1. RowInv(r, c, a2) /\ BudgetInv(r, c)
      BY <1>4 DEF TaskInv
    <2>2. SuccessInv(r, a2)
      BY <1>1, <1>2, <1>5 DEF TaskInv, SuccessInv
    <2> QED BY <1>3, <1>5, <2>1, <2>2 DEF TaskInv, a2
  <1>6. CASE landed
    <2>1. /\ r.owner \in Runner /\ r.owner # Nobody
          /\ \A m \in AttemptId : ~(a[m].landed /\ a[m].outcome = "success")
      BY <1>2, <1>6, NobodyAssumption, Zenon DEF TaskInv, SuccessInv
    <2>2. CASE o = "success"
      <3>1. Written(r, o) = Completed(r)
        BY <2>2 DEF Written
      <3> DEFINE s == Completed(r)
      <3>2. s.status = "COMPLETED" /\ s.owner = Nobody /\ s.retry = r.retry
        BY DEF Completed, Row
      <3>3. r.status # "PURGED"
        BY <2>1 DEF TaskInv, RowInv
      <3> HIDE DEF s
      <3>4. RowInv(s, c, a2) /\ BudgetInv(s, c)
        BY <3>2, <3>3 DEF RowInv, TaskInv, BudgetInv
      <3>5. SuccessInv(s, a2)
        BY <1>1, <2>1, <3>2 DEF SuccessInv
      <3>6. TaskInv(s, c, a2, f)
        BY <1>3, <3>4, <3>5 DEF TaskInv
      <3> QED BY <1>6, <3>1, <3>6 DEF s, a2
    <2>3. CASE o # "success"
      <3>1. TaskInv(Written(r, o), c, a, f)
        <4>1. CASE o = "failure"
          BY <2>1, <4>1, OwnerStatements DEF Written
        <4>2. CASE o = "permanent"
          BY <2>1, <4>2, OwnerStatements DEF Written
        <4>3. CASE o = "timeout"
          BY <2>1, <4>3, OwnerStatements DEF Written
        <4> QED BY <2>3, <4>1, <4>2, <4>3 DEF Outcome
      <3> DEFINE s == Written(r, o)
      <3> HIDE DEF s
      <3>2. RowInv(s, c, a2) /\ BudgetInv(s, c)
        BY <1>4, <3>1 DEF TaskInv, s
      <3>3. SuccessInv(s, a2)
        BY <1>1, <2>1, <2>3 DEF SuccessInv
      <3>4. TaskInv(s, c, a2, f)
        BY <1>3, <3>2, <3>3 DEF TaskInv
      <3> QED BY <1>6, <3>4 DEF s, a2
    <2> QED BY <2>2, <2>3
  <1> QED BY <1>5, <1>6

----------------------------------------------------------------------------
(* From one task to the whole state. *)

\* The variables no part of TaskInv looks at are as they should be.
MemoryOK ==
    /\ RegInv
    /\ hb \in [Runner -> SUBSET Task]
    /\ snap \in [Runner -> SUBSET Task]
    /\ reg \in [Runner -> [Task -> 0 .. MaxClaims]]
    /\ up \in [Runner -> BOOLEAN]
    /\ dismissal \in [Task -> {"idle", "PENDING", "ACTIVE", "signal"}]
    /\ cancel \in [Task -> SUBSET Runner]

\* A step that rewrites the row of t, moves attempts of t, or both.
LEMMA RowAndAttempts ==
    ASSUME Inv, MemoryOK', NEW t \in Task, NEW r2 \in Row,
           NEW a2 \in [AttemptId -> Attempt],
           row' = [row EXCEPT ![t] = r2], att' = [att EXCEPT ![t] = a2],
           UNCHANGED <<claims, fired>>,
           TaskInv(r2, claims[t], att[t], fired[t]), Moved(att[t], a2)
    PROVE  Inv'
  <1>1. TypeOK'
    BY DEF Inv, TypeOK, MemoryOK
  <1>2. TaskInv(row'[t], claims'[t], att'[t], fired'[t])
    <2>1. /\ row'[t] = r2 /\ att'[t] = a2
          /\ claims[t] \in 0 .. MaxClaims
          /\ fired[t] \in SUBSET (AttemptId \X Outcome)
      BY DEF Inv, TypeOK
    <2> QED BY <2>1, MovedAttempts
  <1>3. ASSUME NEW u \in Task, u # t
        PROVE  TaskInv(row'[u], claims'[u], att'[u], fired'[u])
    BY <1>3 DEF Inv, TypeOK
  <1> QED BY <1>1, <1>2, <1>3 DEF Inv, MemoryOK

LEMMA RowOnly ==
    ASSUME Inv, MemoryOK', NEW t \in Task, NEW r2 \in Row, SetRow(t, r2),
           UNCHANGED <<claims, att, fired>>,
           TaskInv(r2, claims[t], att[t], fired[t])
    PROVE  Inv'
  <1>1. att' = [att EXCEPT ![t] = att[t]] /\ att[t] \in [AttemptId -> Attempt]
    BY DEF Inv, TypeOK
  <1>2. Moved(att[t], att[t])
    BY DEF Moved
  <1> QED BY <1>1, <1>2, RowAndAttempts, Zenon DEF SetRow

\* One attempt moves to p, its task's row becomes r2.
LEMMA RowAndGoto ==
    ASSUME Inv, MemoryOK', NEW t \in Task, NEW n \in AttemptId, NEW r2 \in Row,
           SetRow(t, r2), UNCHANGED <<claims, fired>>,
           TaskInv(r2, claims[t], att[t], fired[t]),
           NEW p \in PC \ {"none"}, Goto(t, n, p), att[t][n].pc # "none",
           p \in {"claimed", "queued", "running"} =>
              att[t][n].pc \in {"claimed", "queued", "running"},
           p \in {"check", "route"} => att[t][n].pc \in {"check", "route"}
    PROVE  Inv'
  <1> DEFINE a2 == [att[t] EXCEPT ![n].pc = p]
  <1>1. att[t] \in [AttemptId -> Attempt]
    BY DEF Inv, TypeOK
  <1>2. a2 \in [AttemptId -> Attempt]
    BY <1>1 DEF Attempt
  <1>3. Moved(att[t], a2)
    BY <1>1 DEF Moved, Attempt
  <1>4. att' = [att EXCEPT ![t] = a2]
    BY <1>1 DEF Goto, Inv, TypeOK
  <1> HIDE DEF a2
  <1> QED BY <1>2, <1>3, <1>4, RowAndAttempts, Zenon DEF SetRow

LEMMA GotoOnly ==
    ASSUME Inv, MemoryOK', NEW t \in Task, NEW n \in AttemptId,
           UNCHANGED <<row, claims, fired>>,
           NEW p \in PC \ {"none"}, Goto(t, n, p), att[t][n].pc # "none",
           p \in {"claimed", "queued", "running"} =>
              att[t][n].pc \in {"claimed", "queued", "running"},
           p \in {"check", "route"} => att[t][n].pc \in {"check", "route"}
    PROVE  Inv'
  <1>1. SetRow(t, row[t]) /\ row[t] \in Row
    BY DEF SetRow, Inv, TypeOK
  <1>2. TaskInv(row[t], claims[t], att[t], fired[t])
    BY DEF Inv
  <1> QED BY <1>1, <1>2, RowAndGoto

\* Where a cancellation takes an attempt: never back into its body.
LEMMA CancelledTargets ==
    ASSUME NEW t \in Task, NEW a \in Attempt, NEW p \in CancelledTo(t, a)
    PROVE  p \in {"done", "giveback", "cancelled", "finish"}
  BY DEF CancelledTo

\* Steps in which many attempts move and no row changes.
LEMMA ManyMoved ==
    ASSUME Inv, MemoryOK', UNCHANGED <<row, claims, fired>>,
           att' \in [Task -> [AttemptId -> Attempt]],
           \A t \in Task : Moved(att[t], att'[t])
    PROVE  Inv'
  <1>1. TypeOK'
    BY DEF Inv, TypeOK, MemoryOK
  <1>2. ASSUME NEW t \in Task
        PROVE  TaskInv(row'[t], claims'[t], att'[t], fired'[t])
    <2>1. /\ claims[t] \in 0 .. MaxClaims
          /\ fired[t] \in SUBSET (AttemptId \X Outcome)
          /\ TaskInv(row[t], claims[t], att[t], fired[t])
      BY DEF Inv, TypeOK
    <2> QED BY <2>1, MovedAttempts
  <1> QED BY <1>1, <1>2 DEF Inv, MemoryOK

\* The attempts in X leave their course for where q says; no row changes.
Leave(X, q) ==
    att' = [t \in Task |-> [n \in AttemptId |->
              IF <<t, n>> \in X THEN [att[t][n] EXCEPT !.pc = q[<<t, n>>]]
                                ELSE att[t][n]]]

Exits(X, q) ==
    \A t \in Task, n \in AttemptId : <<t, n>> \in X =>
        /\ q[<<t, n>>] \in {"done", "giveback", "cancelled", "finish", "dead"}
        /\ att[t][n].pc # "none"

LEMMA AttemptsMoved ==
    ASSUME Inv, MemoryOK', UNCHANGED <<row, claims, fired>>, NEW X, NEW q,
           Leave(X, q), Exits(X, q)
    PROVE  Inv'
  <1>1. ASSUME NEW t \in Task, NEW n \in AttemptId
        PROVE  /\ att'[t][n] \in Attempt
               /\ att'[t][n].by = att[t][n].by
               /\ att'[t][n].outcome = att[t][n].outcome
               /\ att'[t][n].landed = att[t][n].landed
               /\ \/ att'[t][n].pc = att[t][n].pc
                  \/ /\ att'[t][n].pc \in {"done", "giveback", "cancelled",
                                           "finish", "dead"}
                     /\ att[t][n].pc # "none"
    <2>1. att[t][n] \in Attempt
      BY DEF Inv, TypeOK
    <2>2. CASE <<t, n>> \in X
      <3>1. att'[t][n] = [att[t][n] EXCEPT !.pc = q[<<t, n>>]]
        BY <2>2 DEF Leave
      <3>2. q[<<t, n>>] \in {"done", "giveback", "cancelled", "finish", "dead"}
            /\ att[t][n].pc # "none"
        BY <2>2 DEF Exits
      <3> QED BY <2>1, <3>1, <3>2 DEF Attempt, PC
    <2>3. CASE <<t, n>> \notin X
      BY <2>1, <2>3 DEF Leave
    <2> QED BY <2>2, <2>3
  <1>2. att' \in [Task -> [AttemptId -> Attempt]]
    BY <1>1 DEF Leave
  <1>3. ASSUME NEW t \in Task PROVE Moved(att[t], att'[t])
    BY <1>1 DEF Moved
  <1> QED BY <1>2, <1>3, ManyMoved

----------------------------------------------------------------------------
(* One step per action. *)

LEMMA InvAt ==
    ASSUME Inv, NEW t \in Task
    PROVE  /\ row[t] \in Row /\ claims[t] \in 0 .. MaxClaims
           /\ att[t] \in [AttemptId -> Attempt]
           /\ fired[t] \in SUBSET (AttemptId \X Outcome)
           /\ TaskInv(row[t], claims[t], att[t], fired[t])
           /\ MemoryOK
  BY DEF Inv, TypeOK, MemoryOK

\* The same for one attempt.
LEMMA AttemptAt ==
    ASSUME Inv, NEW t \in Task, NEW n \in AttemptId
    PROVE  /\ att[t][n] \in Attempt
           /\ n <= claims[t] <=> att[t][n].pc # "none"
           /\ att[t][n].pc # "none" => att[t][n].by \in Runner
           /\ att[t][n].pc \in {"check", "route"} => att[t][n].landed
           /\ att[t][n].landed => att[t][n].outcome # "open"
  <1>1. /\ att[t] \in [AttemptId -> Attempt]
        /\ AttemptInv(claims[t], att[t], fired[t])
    BY InvAt DEF TaskInv
  <1>2. n <= claims[t] \/ n > claims[t]
    BY InvAt, ClaimNumbers
  <1>3. ~(n <= claims[t] /\ n > claims[t])
    BY InvAt, MaxClaimsAssumption DEF AttemptId
  <1> QED BY <1>1, <1>2, <1>3 DEF AttemptInv

LEMMA InitInv == Init => Inv
  <1> SUFFICES ASSUME Init PROVE Inv
    OBVIOUS
  <1>1. TypeOK
    <2>1. NoRow \in Row
      BY DEF NoRow, Row, Status, Lock
    <2>2. NoAttempt \in Attempt
      BY DEF NoAttempt, Attempt, PC
    <2> QED BY <2>1, <2>2, ClaimNumbers DEF Init, TypeOK
  <1>2. ASSUME NEW t \in Task
        PROVE  TaskInv(row[t], claims[t], att[t], fired[t])
    <2>1. /\ row[t] = NoRow /\ claims[t] = 0 /\ fired[t] = {}
          /\ att[t] = [n \in AttemptId |-> NoAttempt]
      BY DEF Init
    <2>2. RowInv(row[t], claims[t], att[t])
      BY <2>1 DEF RowInv, NoRow
    <2>3. AttemptInv(claims[t], att[t], fired[t])
      <3>1. \A n \in AttemptId : ~(n <= 0)
        BY MaxClaimsAssumption DEF AttemptId
      <3>2. \A n \in AttemptId : att[t][n].pc = "none" /\ ~att[t][n].landed
        BY <2>1 DEF NoAttempt
      <3> QED BY <2>1, <3>1, <3>2 DEF AttemptInv
    <2>4. SuccessInv(row[t], att[t])
      BY <2>1 DEF SuccessInv, NoAttempt
    <2>5. BudgetInv(row[t], claims[t])
      BY <2>1, BudgetType DEF BudgetInv, NoRow
    <2> QED BY <2>2, <2>3, <2>4, <2>5 DEF TaskInv
  <1>3. RegInv
    BY DEF RegInv, Init
  <1> QED BY <1>1, <1>2, <1>3 DEF Inv

LEMMA MaintenanceInv ==
    ASSUME Inv, NEW t \in Task, MaintenanceStep(t)
    PROVE  Inv'
  <1>0. UNCHANGED <<claims, att, hb, snap, reg, up, dismissal, cancel, fired>>
    BY DEF MaintenanceStep, Lapse, Reap, SweepUnclaimable, CleanupOrphan,
           RequeueTask, Purge
  <1>1. MemoryOK'
    BY <1>0, InvAt DEF MemoryOK, RegInv
  <1>2. CASE Lapse(t)
    BY <1>0, <1>1, <1>2, InvAt, RowStatements, RowTypes, RowOnly DEF Lapse, Lapsed, Row, Lock
  <1>3. CASE Reap(t)
    <2>1. Reaped(row[t]) \in Row /\ TaskInv(Reaped(row[t]), claims[t], att[t], fired[t])
      BY <1>3, InvAt, RowStatements, RowTypes, Zenon DEF Reap
    <2> QED BY <1>0, <1>1, <1>3, <2>1, RowOnly DEF Reap
  <1>4. CASE SweepUnclaimable(t)
    <2>1. DeadLettered(row[t]) \in Row
          /\ TaskInv(DeadLettered(row[t]), claims[t], att[t], fired[t])
      BY <1>4, InvAt, RowStatements, RowTypes, Zenon DEF SweepUnclaimable
    <2> QED BY <1>0, <1>1, <1>4, <2>1, RowOnly, Zenon DEF SweepUnclaimable
  <1>5. CASE CleanupOrphan(t)
    <2>1. Orphaned(row[t]) \in Row
          /\ TaskInv(Orphaned(row[t]), claims[t], att[t], fired[t])
      BY <1>5, InvAt, RowStatements, RowTypes, Zenon DEF CleanupOrphan
    <2> QED BY <1>0, <1>1, <1>5, <2>1, RowOnly, Zenon DEF CleanupOrphan
  <1>6. ASSUME NEW b \in RequeueModes, RequeueTask(t, b)
        PROVE  Inv'
    <2>1. Requeued(row[t], b) \in Row
          /\ TaskInv(Requeued(row[t], b), claims[t], att[t], fired[t])
      BY <1>6, InvAt, RowStatements, RowTypes, RequeueModesAssumption
         DEF RequeueTask
    <2> QED BY <1>0, <1>1, <1>6, <2>1, RowOnly, Zenon DEF RequeueTask
  <1>7. CASE Purge(t)
    <2>1. Purged \in Row /\ TaskInv(Purged, claims[t], att[t], fired[t])
      BY <1>7, InvAt, RowStatements, RowTypes DEF Purge
    <2> QED BY <1>0, <1>1, <1>7, <2>1, RowOnly DEF Purge
  <1> QED BY <1>2, <1>3, <1>4, <1>5, <1>6, <1>7 DEF MaintenanceStep

LEMMA ClientInv ==
    ASSUME Inv, NEW t \in Task, ClientStep(t)
    PROVE  Inv'
  <1>1. CASE Enqueue(t)
    <2>1. Created \in Row /\ TaskInv(Created, claims[t], att[t], fired[t])
      BY <1>1, InvAt, RowStatements, RowTypes, Zenon DEF Enqueue
    <2>2. MemoryOK'
      BY <1>1, InvAt DEF RegInv, MemoryOK, Enqueue
    <2> QED BY <1>1, <2>1, <2>2, RowOnly DEF Enqueue
  <1>2. CASE DismissRead(t)
    <2>1. MemoryOK'
      BY <1>2, InvAt DEF RegInv, MemoryOK, DismissRead
    <2> QED BY <1>2, <2>1 DEF DismissRead, Inv, TypeOK, MemoryOK
  <1>3. CASE DismissWrite(t)
    <2> DEFINE r2 == Dismissed(row[t], dismissal[t] = "PENDING")
    <2>1. r2 \in Row /\ TaskInv(r2, claims[t], att[t], fired[t])
      BY InvAt, RowStatements, RowTypes, Zenon
    <2>2. MemoryOK'
      BY <1>3, InvAt DEF RegInv, MemoryOK, DismissWrite
    <2>3. SetRow(t, r2) /\ UNCHANGED <<claims, att, fired>>
      BY <1>3 DEF DismissWrite
    <2> HIDE DEF r2
    <2> QED BY <2>1, <2>2, <2>3, RowOnly
  <1>4. CASE DismissSignal(t)
    <2>1. MemoryOK'
      BY <1>4, InvAt DEF RegInv, MemoryOK, DismissSignal
    <2> QED BY <1>4, <2>1 DEF DismissSignal, Inv, TypeOK, MemoryOK
  <1> QED BY <1>1, <1>2, <1>3, <1>4 DEF ClientStep

\* One entry of the registry is set or cleared.
LEMMA RegSet ==
    ASSUME Inv, NEW d \in Runner, NEW t \in Task, NEW n \in 0 .. MaxClaims,
           n <= claims[t], UNCHANGED claims,
           reg' = reg \/ reg' = [reg EXCEPT ![d][t] = n]
    PROVE  reg' \in [Runner -> [Task -> 0 .. MaxClaims]] /\ RegInv'
  <1>0. reg \in [Runner -> [Task -> 0 .. MaxClaims]] /\ RegInv
    BY DEF Inv, TypeOK
  <1>1. CASE reg' = reg
    BY <1>0, <1>1 DEF RegInv
  <1>2. CASE reg' = [reg EXCEPT ![d][t] = n]
    <2>1. reg' \in [Runner -> [Task -> 0 .. MaxClaims]]
      BY <1>0, <1>2
    <2>2. ASSUME NEW e \in Runner, NEW u \in Task
          PROVE  reg'[e][u] = reg[e][u] \/ (u = t /\ reg'[e][u] = n)
      BY <1>0, <1>2
    <2>3. RegInv'
      BY <1>0, <2>2 DEF RegInv
    <2> QED BY <2>1, <2>3
  <1> QED BY <1>1, <1>2

\* Entries of the registry are cleared while claims are made or not.
LEMMA RegCleared ==
    ASSUME Inv, reg' \in [Runner -> [Task -> 0 .. MaxClaims]],
           claims' \in [Task -> 0 .. MaxClaims],
           \A t \in Task : claims'[t] >= claims[t],
           \A d \in Runner, t \in Task : reg'[d][t] \in {0, reg[d][t]}
    PROVE  RegInv'
  <1> SUFFICES ASSUME NEW d \in Runner, NEW t \in Task
               PROVE  reg'[d][t] <= claims'[t]
    BY DEF RegInv
  <1>1. /\ reg[d][t] \in 0 .. MaxClaims /\ claims[t] \in 0 .. MaxClaims
        /\ reg[d][t] <= claims[t]
    BY DEF Inv, TypeOK, RegInv
  <1>2. claims'[t] \in 0 .. MaxClaims /\ reg'[d][t] \in {0, reg[d][t]}
    OBVIOUS
  <1> QED BY <1>1, <1>2, MaxClaimsAssumption

LEMMA AttemptStepInv ==
    ASSUME Inv, NEW t \in Task, NEW n \in AttemptId, AttemptStep(t, n)
    PROVE  Inv'
  <1>0. att[t][n] \in Attempt /\ (att[t][n].pc # "none" => att[t][n].by \in Runner)
    BY AttemptAt
  <1>1. CASE Reject(t, n)
    <2>1. Rejects # {} /\ att[t][n].pc = "claimed" /\ Goto(t, n, "done")
          /\ UNCHANGED <<claims, fired>>
      BY <1>1 DEF Reject
    <2>2. MemoryOK'
      BY <1>1, InvAt DEF RegInv, MemoryOK, Reject
    <2>3. CASE Sweepable(row[t]) /\ SetRow(t, DeadLettered(row[t]))
      <3>1. /\ DeadLettered(row[t]) \in Row
            /\ TaskInv(DeadLettered(row[t]), claims[t], att[t], fired[t])
        BY <2>3, InvAt, RowStatements, RowTypes, Zenon
      <3> QED BY <2>1, <2>2, <2>3, <3>1, RowAndGoto DEF PC
    <2>4. CASE SetRow(t, ResetToPending(row[t]))
      <3>1. /\ ResetToPending(row[t]) \in Row
            /\ TaskInv(ResetToPending(row[t]), claims[t], att[t], fired[t])
        BY <2>1, InvAt, RowStatements, RowTypes
      <3> QED BY <2>1, <2>2, <2>4, <3>1, RowAndGoto, Zenon DEF PC
    <2> QED BY <1>1, <2>3, <2>4 DEF Reject
  <1>2. CASE Accept(t, n)
    <2>0. n \in 0 .. MaxClaims /\ att[t][n].by \in Runner
      BY <1>0, <1>2, ClaimNumbers DEF Accept
    <2>1. MemoryOK'
      <3>1. hb' \in [Runner -> SUBSET Task]
        BY <1>2, <2>0, InvAt DEF RegInv, MemoryOK, Accept
      <3>2. reg' = reg \/ reg' = [reg EXCEPT ![att[t][n].by][t] = n]
        BY <1>2 DEF Accept
      <3>3. n <= claims[t]
        BY <1>2, AttemptAt DEF Accept
      <3>4. reg' \in [Runner -> [Task -> 0 .. MaxClaims]] /\ RegInv'
        BY <1>2, <2>0, <3>2, <3>3, RegSet DEF Accept
      <3> QED BY <1>2, <3>1, <3>4, InvAt DEF MemoryOK, Accept
    <2>2. CASE t \in Inline
      BY <1>2, <2>1, <2>2, GotoOnly DEF Accept, PC
    <2>3. CASE t \notin Inline
      BY <1>2, <2>1, <2>3, GotoOnly DEF Accept, PC
    <2> QED BY <2>2, <2>3
  <1>3. CASE Start(t, n)
    <2>1. MemoryOK'
      BY <1>0, <1>3, InvAt DEF RegInv, MemoryOK, Start
    <2> QED BY <1>3, <2>1, GotoOnly DEF Start, PC
  <1>4. ASSUME NEW o \in Outcome, End(t, n, o)
        PROVE  Inv'
    <2> DEFINE landed == OwnedBy(row[t], att[t][n].by)
               r2 == IF landed THEN Written(row[t], o) ELSE row[t]
               a2 == Ended(att[t], n, o, landed)
    <2>1. landed \in BOOLEAN /\ landed = (row[t].owner = att[t][n].by)
      BY DEF OwnedBy
    <2>2. att[t][n].pc = "running"
      BY <1>4 DEF End
    <2>3. TaskInv(r2, claims[t], a2, fired[t])
      BY <2>1, <2>2, InvAt, EndKeeps, Zenon
    <2>4. Written(row[t], o) \in Row
      BY InvAt, <1>0, <2>2, RowTypes DEF Written, Outcome
    <2>5. r2 \in Row
      BY <2>4, InvAt
    <2>6. a2 \in [AttemptId -> Attempt]
      <3> DEFINE x == [att[t][n] EXCEPT !.pc = IF landed THEN "check" ELSE "finish",
                                        !.outcome = o, !.landed = landed]
      <3>1. x \in Attempt
        BY <1>0, <2>1, Zenon DEF Attempt, PC
      <3>2. a2 = [att[t] EXCEPT ![n] = x]
        BY InvAt, Zenon DEF Ended
      <3> HIDE DEF x, a2
      <3> QED BY <3>1, <3>2, InvAt
    <2>7. row' = [row EXCEPT ![t] = r2]
      BY <1>4 DEF End, SetRow, Inv, TypeOK
    <2>8. att' = [att EXCEPT ![t] = a2]
      BY <1>4, Zenon DEF End, Ended, Inv, TypeOK
    <2>9. UNCHANGED <<claims, fired>> /\ MemoryOK'
      BY <1>4, InvAt DEF End, MemoryOK, RegInv
    <2> HIDE DEF r2, a2, landed
    <2>10. TypeOK'
      BY <2>5, <2>6, <2>7, <2>8, <2>9, Zenon DEF Inv, TypeOK, MemoryOK
    <2>11. ASSUME NEW u \in Task
           PROVE  TaskInv(row'[u], claims'[u], att'[u], fired'[u])
      BY <2>3, <2>7, <2>8, <2>9 DEF Inv, TypeOK
    <2> QED BY <2>9, <2>10, <2>11 DEF Inv, MemoryOK
  <1>5. CASE CheckRoute(t, n)
    <2>1. MemoryOK'
      BY <1>5, InvAt DEF RegInv, MemoryOK, CheckRoute
    <2>2. PICK p \in {"route", "finish"} : Goto(t, n, p)
      BY <1>5 DEF CheckRoute
    <2> QED BY <1>5, <2>1, <2>2, GotoOnly DEF CheckRoute, PC
  <1>6. CASE FireRoute(t, n)
    <2> DEFINE f2 == fired[t] \cup {<<n, att[t][n].outcome>>}
    <2>1. att[t][n].pc = "route" /\ att[t][n].landed
      BY <1>6, AttemptAt DEF FireRoute
    <2>2. att[t][n].outcome \in Outcome
      <3>1. att[t][n].outcome # "open"
        BY <2>1, AttemptAt
      <3> QED BY <3>1, <1>0 DEF Attempt
    <2>3. f2 \in SUBSET (AttemptId \X Outcome)
      <3>1. fired[t] \in SUBSET (AttemptId \X Outcome)
        BY InvAt
      <3>2. <<n, att[t][n].outcome>> \in AttemptId \X Outcome
        BY <2>2
      <3> QED BY <3>1, <3>2
    <2>4. TaskInv(row[t], claims[t], att[t], f2)
      <3>1. TaskInv(row[t], claims[t], att[t], fired[t])
        BY InvAt
      <3>2. ASSUME NEW x \in f2
            PROVE  att[t][x[1]].landed /\ att[t][x[1]].outcome = x[2]
        <4>1. CASE x \in fired[t]
          BY <3>1, <4>1 DEF TaskInv, AttemptInv
        <4>2. CASE x = <<n, att[t][n].outcome>>
          BY <2>1, <4>2
        <4> QED BY <4>1, <4>2
      <3> HIDE DEF f2
      <3>3. AttemptInv(claims[t], att[t], f2)
        BY <3>1, <3>2 DEF TaskInv, AttemptInv
      <3> QED BY <3>1, <3>3 DEF TaskInv
    <2>5. MemoryOK' /\ UNCHANGED <<row, claims>>
      BY <1>6, InvAt DEF RegInv, MemoryOK, FireRoute
    <2>6. fired' = [fired EXCEPT ![t] = f2] /\ Goto(t, n, "finish")
      BY <1>6 DEF FireRoute, Inv, TypeOK
    <2> HIDE DEF f2
    <2> DEFINE a2 == [att[t] EXCEPT ![n].pc = "finish"]
    <2>7. a2 \in [AttemptId -> Attempt] /\ Moved(att[t], a2)
      BY <2>1, InvAt DEF Moved, Attempt, PC
    <2>8. att' = [att EXCEPT ![t] = a2]
      BY <2>6, InvAt DEF Goto, Inv, TypeOK
    <2> HIDE DEF a2
    <2>9. TypeOK'
      BY <2>3, <2>5, <2>6, <2>7, <2>8 DEF Inv, TypeOK, MemoryOK
    <2>10. TaskInv(row[t], claims[t], a2, f2)
      BY <2>3, <2>4, <2>7, InvAt, MovedAttempts
    <2>11. ASSUME NEW u \in Task
           PROVE  TaskInv(row'[u], claims'[u], att'[u], fired'[u])
      BY <2>5, <2>6, <2>8, <2>10 DEF Inv, TypeOK
    <2> QED BY <2>5, <2>9, <2>11 DEF Inv, MemoryOK
  <1>7. CASE Unregister(t, n)
    <2>1. MemoryOK'
      <3>1. MemoryOK /\ UNCHANGED <<claims, snap, up, dismissal, cancel>>
        BY <1>7, InvAt DEF Unregister
      <3>2. /\ att[t][n].by \in Runner
            /\ reg' = reg \/ reg' = [reg EXCEPT ![att[t][n].by][t] = 0]
        BY <1>0, <1>7 DEF Unregister
      <3>3. 0 \in 0 .. MaxClaims /\ 0 <= claims[t]
        BY InvAt, ClaimNumbers
      <3>4. reg' \in [Runner -> [Task -> 0 .. MaxClaims]] /\ RegInv'
        BY <3>1, <3>2, <3>3, RegSet
      <3>5. hb' \in [Runner -> SUBSET Task]
        BY <1>7, <3>1, Zenon DEF Unregister, MemoryOK
      <3> QED BY <3>1, <3>4, <3>5 DEF MemoryOK
    <2> QED BY <1>7, <2>1, GotoOnly DEF Unregister, PC
  <1>8. CASE DbFailure(t, n)
    <2>1. MemoryOK'
      BY <1>8, InvAt DEF RegInv, MemoryOK, DbFailure
    <2> QED BY <1>8, <2>1, GotoOnly DEF DbFailure, PC
  <1>9. CASE CancelRead(t, n)
    <2>1. MemoryOK'
      BY <1>9, InvAt DEF RegInv, MemoryOK, CancelRead
    <2>2. PICK p \in {"stamp", "giveback"} : Goto(t, n, p)
      BY <1>9 DEF CancelRead
    <2> QED BY <1>9, <2>1, <2>2, GotoOnly DEF CancelRead, PC
  <1>10. CASE CancelStamp(t, n)
    <2>1. MemoryOK'
      BY <1>10, InvAt DEF RegInv, MemoryOK, CancelStamp
    <2>2. DismissStamped(row[t]) \in Row
          /\ TaskInv(DismissStamped(row[t]), claims[t], att[t], fired[t])
      BY <1>0, <1>10, InvAt, RowStatements, RowTypes, Zenon DEF CancelStamp
    <2> QED BY <1>10, <2>1, <2>2, RowAndGoto DEF CancelStamp, PC
  <1>11. CASE CancelGiveBack(t, n)
    <2> DEFINE r2 == IF OwnedBy(row[t], att[t][n].by)
                     THEN FailedRetrying(row[t]) ELSE row[t]
    <2>1. MemoryOK' /\ SetRow(t, r2) /\ att[t][n].pc = "giveback"
          /\ Goto(t, n, "finish") /\ UNCHANGED <<claims, fired>>
      BY <1>11, InvAt, Zenon DEF RegInv, MemoryOK, CancelGiveBack
    <2>2. r2 \in Row /\ TaskInv(r2, claims[t], att[t], fired[t])
      BY <1>0, <2>1, InvAt, OwnerStatements, RowTypes, Zenon DEF OwnedBy
    <2> HIDE DEF r2
    <2> QED BY <2>1, <2>2, RowAndGoto, Zenon DEF PC
  <1> QED
    BY <1>1, <1>2, <1>3, <1>4, <1>5, <1>6, <1>7, <1>8, <1>9, <1>10, <1>11
       DEF AttemptStep

LEMMA ClaimInv ==
    ASSUME Inv, NEW d \in Runner, NEW S \in SUBSET Task, Claim(d, S)
    PROVE  Inv'
  <1> DEFINE a2(t) == [att[t] EXCEPT ![claims[t] + 1] =
                         [NoAttempt EXCEPT !.by = d, !.pc = "claimed"]]
  <1>1. ASSUME NEW t \in S
        PROVE  /\ Claimed(row[t], d) \in Row
               /\ claims[t] + 1 \in 0 .. MaxClaims
               /\ a2(t) \in [AttemptId -> Attempt]
               /\ TaskInv(Claimed(row[t], d), claims[t] + 1, a2(t), fired[t])
    <2>1. t \in Task /\ Claimable(row[t]) /\ claims[t] < MaxClaims
      BY DEF Claim
    <2>2. claims[t] + 1 \in 0 .. MaxClaims
      <3>1. claims[t] \in 0 .. MaxClaims
        BY <2>1, InvAt
      <3> QED BY <2>1, <3>1, ClaimNumbers
    <2>3. a2(t) \in [AttemptId -> Attempt]
      BY <2>1, InvAt, Zenon DEF NoAttempt, Attempt, PC
    <2>4. TaskInv(Claimed(row[t], d), claims[t] + 1, a2(t), fired[t])
      BY <2>1, InvAt, ClaimKeeps, Zenon
    <2> QED BY <2>1, <2>2, <2>3, <2>4, InvAt, RowTypes
  <1>2. /\ row' = [t \in Task |-> IF t \in S THEN Claimed(row[t], d) ELSE row[t]]
        /\ claims' = [t \in Task |-> IF t \in S THEN claims[t] + 1 ELSE claims[t]]
        /\ att' = [t \in Task |-> IF t \in S THEN a2(t) ELSE att[t]]
        /\ UNCHANGED <<hb, snap, reg, up, dismissal, cancel, fired>>
    BY DEF Claim
  <1> HIDE DEF a2
  <1>3. TypeOK'
    BY <1>1, <1>2 DEF Inv, TypeOK
  <1>5. RegInv'
    <2>1. \A t \in Task : claims'[t] >= claims[t]
      BY <1>2 DEF Inv, TypeOK
    <2> QED BY <1>2, <1>3, <2>1, RegCleared DEF TypeOK
  <1>4. ASSUME NEW t \in Task
        PROVE  TaskInv(row'[t], claims'[t], att'[t], fired'[t])
    BY <1>1, <1>2, InvAt
  <1> QED BY <1>3, <1>4, <1>5, Zenon DEF Inv

\* Several rows are rewritten by one statement, nothing else happens to tasks.
LEMMA ManyRows ==
    ASSUME Inv, MemoryOK', UNCHANGED <<claims, att, fired>>,
           row' \in [Task -> Row],
           \A t \in Task : TaskInv(row'[t], claims[t], att[t], fired[t])
    PROVE  Inv'
  BY DEF Inv, TypeOK, MemoryOK

LEMMA RequeueByTypeInv ==
    ASSUME Inv, NEW S \in SUBSET Task, NEW b \in RequeueModes, RequeueByType(S, b)
    PROVE  Inv'
  <1>1. ASSUME NEW t \in Task
        PROVE  row'[t] \in Row /\ TaskInv(row'[t], claims[t], att[t], fired[t])
    <2>1. CASE t \in S
      <3>1. Requeued(row[t], b) \in Row
            /\ TaskInv(Requeued(row[t], b), claims[t], att[t], fired[t])
        BY <2>1, InvAt, RowStatements, RowTypes, RequeueModesAssumption, Zenon
           DEF RequeueByType
      <3> QED BY <2>1, <3>1 DEF RequeueByType
    <2>2. CASE t \notin S
      BY <2>2, InvAt, Zenon DEF RequeueByType
    <2> QED BY <2>1, <2>2
  <1>2. row' \in [Task -> Row] /\ MemoryOK' /\ UNCHANGED <<claims, att, fired>>
    BY <1>1 DEF RequeueByType, Inv, TypeOK, MemoryOK, RegInv
  <1> QED BY <1>1, <1>2, ManyRows

LEMMA Dropped ==
    ASSUME Inv, NEW d \in Runner, NEW S, DropUnstarted(d, S)
    PROVE  /\ reg' \in [Runner -> [Task -> 0 .. MaxClaims]]
           /\ \A e \in Runner, t \in Task : reg'[e][t] \in {0, reg[e][t]}
  BY MaxClaimsAssumption DEF DropUnstarted, Inv, TypeOK

LEMMA RunnerInv ==
    ASSUME Inv, NEW d \in Runner, RunnerStep(d)
    PROVE  Inv'
  <1>0. MemoryOK /\ att \in [Task -> [AttemptId -> Attempt]]
           /\ claims \in [Task -> 0 .. MaxClaims]
    BY DEF Inv, TypeOK, MemoryOK
  <1>1. ASSUME NEW S \in SUBSET Task, Claim(d, S)
        PROVE  Inv'
    BY <1>1, ClaimInv
  <1>2. CASE FlushSnapshot(d)
    BY <1>2 DEF FlushSnapshot, Inv, TypeOK, RegInv
  <1>3. CASE FlushWrite(d)
    <2>1. ASSUME NEW t \in Task
          PROVE  row'[t] \in Row /\ TaskInv(row'[t], claims[t], att[t], fired[t])
      <3>1. row'[t] \in {Heartbeat(row[t]), row[t]}
        BY <1>3 DEF FlushWrite
      <3>2. row[t] \in Row /\ TaskInv(row[t], claims[t], att[t], fired[t])
        BY InvAt
      <3>3. Heartbeat(row[t]) \in Row
        BY <3>2, RowTypes
      <3>4. TaskInv(Heartbeat(row[t]), claims[t], att[t], fired[t])
        BY InvAt, RowStatements, Zenon
      <3> QED BY <3>1, <3>2, <3>3, <3>4
    <2>2. row' \in [Task -> Row] /\ MemoryOK' /\ UNCHANGED <<claims, att, fired>>
      BY <1>3, <2>1 DEF FlushWrite, Inv, TypeOK, MemoryOK, RegInv
    <2> QED BY <2>1, <2>2, ManyRows
  <1>4. CASE Shutdown(d)
    BY <1>4 DEF Shutdown, Inv, TypeOK, RegInv
  <1>5. ASSUME Wiped(d), UNCHANGED claims, dismissal' = dismissal
        PROVE  MemoryOK'
    <2>1. /\ reg' \in [Runner -> [Task -> 0 .. MaxClaims]]
          /\ \A e \in Runner, t \in Task : reg'[e][t] \in {0, reg[e][t]}
      BY <1>0, <1>5, MaxClaimsAssumption DEF Wiped, MemoryOK
    <2>2. RegInv'
      BY <1>0, <1>5, <2>1, RegCleared
    <2> QED BY <1>0, <1>5, <2>1, <2>2 DEF Wiped, MemoryOK
  <1>6. CASE Restart(d)
    BY <1>5, <1>6 DEF Restart, Inv, TypeOK, MemoryOK
  <1>7. CASE Crash(d)
    <2> DEFINE q == [x \in Held(d) |-> "dead"]
    <2>1. Leave(Held(d), q)
      BY <1>7 DEF Crash, Leave
    <2>2. Exits(Held(d), q)
      BY DEF Held, Over, Exits
    <2>3. MemoryOK' /\ UNCHANGED <<row, claims, fired>>
      BY <1>5, <1>7 DEF Crash
    <2> HIDE DEF q
    <2> QED BY <2>1, <2>2, <2>3, AttemptsMoved
  <1>8. ASSUME NEW t \in Task, CancelDelivered(d, t)
        PROVE  Inv'
    <2> DEFINE n == reg[d][t]
    <2>1. MemoryOK' /\ UNCHANGED <<row, claims, fired>>
      <3>1. CASE n = 0
        BY <1>0, <1>8, <3>1 DEF CancelDelivered, MemoryOK, RegInv
      <3>2. CASE n # 0
        <4>1. /\ reg' \in [Runner -> [Task -> 0 .. MaxClaims]]
              /\ \A e \in Runner, u \in Task : reg'[e][u] \in {0, reg[e][u]}
          BY <1>8, <3>2, Dropped DEF CancelDelivered
        <4>2. UNCHANGED <<row, claims, fired>>
          BY <1>8 DEF CancelDelivered
        <4>3. /\ claims' \in [Task -> 0 .. MaxClaims]
              /\ \A u \in Task : claims'[u] >= claims[u]
          BY <1>0, <4>2
        <4>4. RegInv'
          BY <4>1, <4>3, RegCleared
        <4> QED BY <1>0, <1>8, <4>1, <4>2, <4>4 DEF CancelDelivered, MemoryOK
      <3> QED BY <3>1, <3>2
    <2>2. CASE n = 0
      <3>1. UNCHANGED <<row, claims, att, fired>>
        BY <1>8, <2>2, Zenon DEF CancelDelivered
      <3> QED BY <2>1, <3>1 DEF Inv, TypeOK, MemoryOK
    <2>3. CASE n # 0
      <3>1. n \in AttemptId /\ n <= claims[t]
        BY <1>0, <2>3, MaxClaimsAssumption DEF MemoryOK, RegInv, AttemptId
      <3>2. att[t][n] \in Attempt /\ att[t][n].pc # "none"
        BY <3>1, AttemptAt
      <3>3. PICK p \in CancelledTo(t, att[t][n]) : Goto(t, n, p)
        BY <1>8, <2>3, Zenon DEF CancelDelivered
      <3>4. p \in {"done", "giveback", "cancelled", "finish"}
        BY <3>2, CancelledTargets
      <3> HIDE DEF n
      <3> QED BY <2>1, <3>1, <3>2, <3>3, <3>4, GotoOnly DEF PC
    <2> QED BY <2>2, <2>3
  <1>9. ASSUME NEW X \in SUBSET Held(d), CancelHeld(d, X)
        PROVE  Inv'
    <2>1. PICK to \in [X -> PC] :
             /\ \A x \in X : to[x] \in CancelledTo(x[1], att[x[1]][x[2]])
             /\ Leave(X, to)
      BY <1>9, Zenon DEF CancelHeld, Leave
    <2>2. Exits(X, to)
      <3> SUFFICES ASSUME NEW t \in Task, NEW n \in AttemptId, <<t, n>> \in X
                   PROVE  /\ to[<<t, n>>] \in {"done", "giveback", "cancelled",
                                                "finish", "dead"}
                          /\ att[t][n].pc # "none"
        BY DEF Exits
      <3>1. to[<<t, n>>] \in CancelledTo(t, att[t][n]) /\ att[t][n] \in Attempt
        BY <1>0, <2>1
      <3>2. att[t][n].pc # "none"
        BY DEF Held, Over
      <3> QED BY <3>1, <3>2, CancelledTargets
    <2>3. MemoryOK' /\ UNCHANGED <<row, claims, fired>>
      <3>1. /\ reg' \in [Runner -> [Task -> 0 .. MaxClaims]]
            /\ \A e \in Runner, t \in Task : reg'[e][t] \in {0, reg[e][t]}
        BY <1>9, Dropped DEF CancelHeld
      <3>2. RegInv'
        BY <1>0, <1>9, <3>1, RegCleared DEF CancelHeld
      <3> QED BY <1>0, <1>9, <3>1, <3>2 DEF CancelHeld, MemoryOK
    <2> QED BY <2>1, <2>2, <2>3, AttemptsMoved
  <1>10. Batch(d) \in SUBSET Held(d) /\ Held(d) \ Batch(d) \in SUBSET Held(d)
    BY DEF Batch
  <1> QED
    BY <1>1, <1>2, <1>3, <1>4, <1>6, <1>7, <1>8, <1>9, <1>10 DEF RunnerStep

LEMMA NextInv == Inv /\ [Next]_vars => Inv'
  <1> SUFFICES ASSUME Inv, [Next]_vars PROVE Inv'
    OBVIOUS
  <1>1. ASSUME NEW t \in Task, NEW n \in AttemptId, AttemptStep(t, n)
        PROVE  Inv'
    BY <1>1, AttemptStepInv
  <1>2. ASSUME NEW d \in Runner, RunnerStep(d)
        PROVE  Inv'
    BY <1>2, RunnerInv
  <1>3. ASSUME NEW t \in Task, MaintenanceStep(t)
        PROVE  Inv'
    BY <1>3, MaintenanceInv
  <1>4. ASSUME NEW t \in Task, ClientStep(t)
        PROVE  Inv'
    BY <1>4, ClientInv
  <1>5. ASSUME NEW S \in SUBSET Task, NEW b \in RequeueModes, RequeueByType(S, b)
        PROVE  Inv'
    BY <1>5, RequeueByTypeInv
  <1>6. CASE UNCHANGED vars
    BY <1>6 DEF vars, Inv, TypeOK, RegInv
  <1> QED BY <1>1, <1>2, <1>3, <1>4, <1>5, <1>6 DEF Next

\* The inductive invariant holds in every reachable state.
THEOREM Invariance == Spec => []Inv
  BY InitInv, NextInv, PTL DEF Spec

----------------------------------------------------------------------------
(* The theorems. *)

\* Every variable of the queue keeps its type, whatever the dispatchers, the
\* maintenance passes and the clients do.
THEOREM TypeCorrect == Spec => []TypeOK
  <1>1. Inv => TypeOK
    BY DEF Inv
  <1> QED BY <1>1, Invariance, PTL

\* A claimed row always has a lease the reaper can find expired, and belongs
\* to the claimant of the latest claim_batch that took it.
THEOREM ActiveRowsReachable == Spec => []ActiveRowReachable
  <1>1. Inv => ActiveRowReachable
    BY DEF Inv, TaskInv, RowInv, ActiveRowReachable
  <1> QED BY <1>1, Invariance, PTL

\* owner_id is NULL in every row that is queued, completed, failed or gone, so
\* a late attempt's owner guard cannot match it.
THEOREM ReleasedRowsUnowned == Spec => []ReleasedRowUnowned
  <1>1. Inv => ReleasedRowUnowned
    BY DEF Inv, TaskInv, RowInv, ReleasedRowUnowned
  <1> QED BY <1>1, Invariance, PTL

\* hard_retry_cap is a circuit breaker: a row at the cap is never executing.
THEOREM ActiveRowsBelowCap == Spec => []ActiveBelowHardCap
  <1>1. Inv => ActiveBelowHardCap
    BY DEF Inv, TaskInv, RowInv, ActiveBelowHardCap
  <1> QED BY <1>1, Invariance, PTL

\* complete_task takes effect at most once per task, and the task is not
\* queued or executed after it.
THEOREM CompletionOnce == Spec => []CompletionLandsOnce
  <1>1. Inv => CompletionLandsOnce
    BY Zenon DEF Inv, TaskInv, SuccessInv, CompletionLandsOnce, Landed
  <1> QED BY <1>1, Invariance, PTL

\* apply_terminal_action creates at most one on_success follow-on per task.
THEOREM SuccessFollowOnOnce == Spec => []SuccessRoutedOnce
  <1>1. ASSUME Inv PROVE SuccessRoutedOnce
    <2> SUFFICES ASSUME NEW t \in Task, NEW x \in fired[t], NEW y \in fired[t],
                        x[2] = "success", y[2] = "success"
                 PROVE  x = y
      BY DEF SuccessRoutedOnce
    <2>1. /\ x \in AttemptId \X Outcome /\ y \in AttemptId \X Outcome
          /\ AttemptInv(claims[t], att[t], fired[t])
          /\ SuccessInv(row[t], att[t])
      <3>1. /\ fired[t] \in SUBSET (AttemptId \X Outcome)
            /\ TaskInv(row[t], claims[t], att[t], fired[t])
        BY <1>1, InvAt
      <3> QED BY <3>1 DEF TaskInv
    <2>2. /\ att[t][x[1]].landed /\ att[t][x[1]].outcome = "success"
          /\ att[t][y[1]].landed /\ att[t][y[1]].outcome = "success"
      BY <2>1 DEF AttemptInv
    <2>3. x[1] = y[1]
      <3>1. x[1] \in AttemptId /\ y[1] \in AttemptId
        BY <2>1
      <3> QED BY <2>1, <2>2, <3>1 DEF SuccessInv
    <2> QED BY <2>1, <2>3, SameFollowOn
  <1> QED BY <1>1, Invariance, PTL

\* Without requeues and refusals a task is claimed at most
\* LEAST(max_retries, hard_cap) times, and once if that is zero.
THEOREM ClaimsBounded == Spec => []AttemptsBounded
  <1>1. Inv => AttemptsBounded
    BY DEF Inv, TaskInv, BudgetInv, AttemptsBounded
  <1> QED BY <1>1, Invariance, PTL

\* What CompletedIsFinal says of one task and one step.
StaysFinal(t) ==
    row[t].status \in {"COMPLETED", "PURGED"} =>
        row'[t].status \in {"COMPLETED", "DISMISSED", "PURGED"}

\* A statement that only matches other rows, or that is made under an owner id
\* a completed row does not carry, leaves a completed row alone.
LEMMA FinalStep ==
    ASSUME Inv, [Next]_vars, NEW t \in Task
    PROVE  StaysFinal(t)
  <1> SUFFICES ASSUME row[t].status \in {"COMPLETED", "PURGED"}, row'[t] # row[t]
               PROVE  row'[t].status \in {"COMPLETED", "DISMISSED", "PURGED"}
    BY DEF StaysFinal
  <1>0. row \in [Task -> Row] /\ row[t] \in Row /\ row[t].owner = Nobody
    BY DEF Inv, TypeOK, TaskInv, RowInv
  <1>1. ASSUME NEW u \in Task, NEW n \in AttemptId, AttemptStep(u, n)
        PROVE  FALSE
    <2>1. att[u][n].pc # "none" => att[u][n].by \in Runner
      BY InvAt, Zenon DEF TaskInv, AttemptInv
    <2>2. CASE Reject(u, n)
      BY <1>0, <2>2 DEF Reject, SetRow, Sweepable, ResetToPending
    <2>3. ASSUME NEW o \in Outcome, End(u, n, o) PROVE FALSE
      BY <1>0, <2>1, <2>3, NobodyAssumption DEF End, SetRow, OwnedBy
    <2>4. CASE CancelStamp(u, n)
      BY <1>0, <2>4 DEF CancelStamp, SetRow, DismissStamped, UnconfirmedDismissal
    <2>5. CASE CancelGiveBack(u, n)
      BY <1>0, <2>1, <2>5, NobodyAssumption DEF CancelGiveBack, SetRow, OwnedBy
    <2>6. CASE \/ Accept(u, n) \/ Start(u, n) \/ CheckRoute(u, n) \/ FireRoute(u, n)
               \/ Unregister(u, n) \/ DbFailure(u, n) \/ CancelRead(u, n)
      BY <2>6, Zenon DEF Accept, Start, CheckRoute, FireRoute, Unregister, DbFailure,
                  CancelRead
    <2> QED BY <1>1, <2>2, <2>3, <2>4, <2>5, <2>6, Zenon DEF AttemptStep
  <1>2. ASSUME NEW d \in Runner, RunnerStep(d)
        PROVE  FALSE
    <2>1. ASSUME NEW S \in SUBSET Task, Claim(d, S) PROVE FALSE
      BY <2>1 DEF Claim, Claimable
    <2>2. CASE FlushWrite(d)
      BY <2>2 DEF FlushWrite, Heartbeat
    <2>3. CASE \/ FlushSnapshot(d) \/ Shutdown(d) \/ Restart(d) \/ Crash(d)
               \/ CancelHeld(d, Batch(d)) \/ CancelHeld(d, Held(d) \ Batch(d))
               \/ \E u \in Task : CancelDelivered(d, u)
      BY <2>3, Zenon DEF FlushSnapshot, Shutdown, CancelHeld, Restart, Crash,
                  CancelDelivered
    <2> QED BY <1>2, <2>1, <2>2, <2>3, Zenon DEF RunnerStep
  <1>3. ASSUME NEW u \in Task, MaintenanceStep(u)
        PROVE  row'[t].status \in {"COMPLETED", "DISMISSED", "PURGED"}
    <2>1. u = t
      BY <1>0, <1>3 DEF MaintenanceStep, Lapse, Reap, SweepUnclaimable,
         CleanupOrphan, RequeueTask, Purge, SetRow
    <2>2. CASE Lapse(t)
      BY <1>0, <2>2 DEF Lapse, SetRow, Lapsed, Row
    <2>3. CASE Purge(t)
      BY <1>0, <2>3 DEF Purge, SetRow, Purged, NoRow
    <2>4. ~Reap(t) /\ ~SweepUnclaimable(t) /\ ~CleanupOrphan(t)
          /\ \A b \in RequeueModes : ~RequeueTask(t, b)
      BY Zenon DEF Reap, Reapable, SweepUnclaimable, Sweepable, CleanupOrphan, Orphan,
             RequeueTask, Requeueable
    <2> QED BY <1>3, <2>1, <2>2, <2>3, <2>4 DEF MaintenanceStep
  <1>4. ASSUME NEW u \in Task, ClientStep(u)
        PROVE  row'[t].status \in {"COMPLETED", "DISMISSED", "PURGED"}
    <2>1. CASE DismissWrite(u)
      <3>1. row'[t] = Dismissed(row[t], dismissal[t] = "PENDING")
        BY <1>0, <2>1 DEF DismissWrite, SetRow
      <3> QED BY <1>0, <3>1 DEF Dismissed, Row
    <2>2. CASE Enqueue(u)
      BY <1>0, <2>2 DEF Enqueue, SetRow
    <2>3. CASE DismissRead(u) \/ DismissSignal(u)
      BY <2>3 DEF DismissRead, DismissSignal
    <2> QED BY <1>4, <2>1, <2>2, <2>3 DEF ClientStep
  <1>5. ASSUME NEW S \in SUBSET Task, NEW b \in RequeueModes, RequeueByType(S, b)
        PROVE  FALSE
    BY <1>5 DEF RequeueByType, Requeueable
  <1>6. CASE UNCHANGED vars
    BY <1>6 DEF vars
  <1> QED BY <1>1, <1>2, <1>3, <1>4, <1>5, <1>6 DEF Next

\* A completed row is only ever dismissed or purged: no claim, reap, requeue,
\* sweep or late terminal write changes it.
THEOREM CompletedRowsFinal == Spec => CompletedIsFinal
  <1>1. Inv /\ [Next]_vars => [\A t \in Task :
            row[t].status \in {"COMPLETED", "PURGED"} =>
            row'[t].status \in {"COMPLETED", "DISMISSED", "PURGED"}]_vars
    BY FinalStep DEF StaysFinal
  <1> QED BY <1>1, Invariance, PTL DEF Spec, CompletedIsFinal

=============================================================================
