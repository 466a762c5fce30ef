-------------------------- MODULE TaskDedupProofs --------------------------
(***************************************************************************)
(* What TLAPS proves of the deduplication, for any number of calls and     *)
(* instants.                                                               *)
(***************************************************************************)
EXTENDS TaskDedup, TLAPS

Invariant == TypeOK /\ OneRowPerInstant /\ Relied

LEMMA InitInvariant == Init => Invariant
BY RequeuesAssumption
   DEF Init, Invariant, TypeOK, OneRowPerInstant, Relied, Reliance, Calls, Rows, NoCall, NoRow,
       Kind, Blocks, Committed

\* A call moves on without writing a row: pc is where to, S the rows it saw.
LEMMA MoveType ==
    ASSUME TypeOK, NEW c \in Call, NEW new \in Calls, call' = [call EXCEPT ![c] = new],
           row' = row, seen' \in [Call -> SUBSET Call]
    PROVE  TypeOK'
BY Zenon DEF TypeOK

LEMMA CreateType ==
    ASSUME TypeOK, NEW c \in Call, Create(c) PROVE TypeOK'
<1>0. /\ call \in [Call -> Calls] /\ row \in [Call -> Rows] /\ seen \in [Call -> SUBSET Call]
      /\ call[c] \in Calls
    BY DEF TypeOK
<1>1. ASSUME NEW kind \in Kind, NEW stamp \in Stamp, Enter(c, kind, stamp) PROVE TypeOK'
    <2>1. [NoCall EXCEPT !.pc = "look", !.kind = kind, !.stamp = stamp] \in Calls
        BY Zenon DEF NoCall, Calls
    <2> QED
        BY <1>0, <1>1, <2>1 DEF Enter, TypeOK
<1>2. ASSUME NEW pc \in {"insert", "commit", "lookup", "done"},
             call' = [call EXCEPT ![c].pc = pc], row' = row, seen' \in [Call -> SUBSET Call]
      PROVE  TypeOK'
    <2>1. [call[c] EXCEPT !.pc = pc] \in Calls
        BY <1>0 DEF Calls
    <2> QED
        BY <1>0, <1>2, <2>1 DEF TypeOK
<1>3. CASE Hit(c)
    <2>1. PICK pc \in {"lookup", "done"} : call' = [call EXCEPT ![c].pc = pc]
        BY <1>3, Zenon DEF Hit
    <2>2. row' = row /\ seen' \in [Call -> SUBSET Call]
        BY <1>0, <1>3 DEF Hit
    <2> QED
        BY <1>2, <2>1, <2>2, Zenon
<1>4. CASE Miss(c)
    <2>1. row' = row /\ seen' \in [Call -> SUBSET Call]
        BY <1>0, <1>4 DEF Miss
    <2> QED
        BY <1>2, <1>4, <2>1 DEF Miss
<1>5. CASE Insert(c) \/ Conflict(c) \/ Abort(c)
    BY <1>0, <1>2, <1>5 DEF Insert, Conflict, Abort
<1>6. CASE Commit(c)
    <2>1. [call[c] EXCEPT !.pc = "done", !.answer = {c}] \in Calls
        BY <1>0, Zenon DEF Calls
    <2>2. call' \in [Call -> Calls]
        BY <1>0, <1>6, <2>1 DEF Commit
    <2>3. \A s \in {"PENDING", "ACTIVE"} :
            [NoRow EXCEPT !.status = s, !.stamp = call[c].stamp] \in Rows
        <3>1. 0 \in 0 .. MaxRequeues /\ call[c].stamp \in Stamp \cup {0}
            BY <1>0, RequeuesAssumption DEF Calls
        <3> QED
            BY <3>1, Zenon DEF NoRow, Rows
    <2>4. row' \in [Call -> Rows]
        BY <1>0, <1>6, <2>3, Zenon DEF Commit
    <2> QED
        BY <1>0, <1>6, <2>2, <2>4 DEF Commit, TypeOK
<1>7. CASE LookUp(c)
    <2>1. \A d \in Call : [call[c] EXCEPT !.pc = "done", !.answer = {d}] \in Calls
        BY <1>0, Zenon DEF Calls
    <2>2. \/ call' = [call EXCEPT ![c].pc = "done"]
          \/ \E d \in Call :
               call' = [call EXCEPT ![c] = [call[c] EXCEPT !.pc = "done", !.answer = {d}]]
        BY <1>7, Zenon DEF LookUp
    <2>3. row' = row /\ seen' = seen
        BY <1>7, Zenon DEF LookUp
    <2> QED
        BY <1>0, <1>2, <2>1, <2>2, <2>3, Zenon DEF TypeOK
<1> QED
    BY <1>1, <1>3, <1>4, <1>5, <1>6, <1>7 DEF Create

LEMMA RowType ==
    ASSUME TypeOK, NEW c \in Call, Attempt(c) \/ Dismiss(c) \/ Requeue(c) PROVE TypeOK'
<1>0. row \in [Call -> Rows] /\ row[c] \in Rows
    BY DEF TypeOK
<1>1. ASSUME NEW s \in {"PENDING", "ACTIVE", "COMPLETED", "FAILED", "DEAD_LETTER", "DISMISSED"},
             SetStatus(c, s)
      PROVE  TypeOK'
    <2>1. [row[c] EXCEPT !.status = s] \in Rows
        BY <1>0 DEF Rows
    <2> QED
        BY <1>0, <1>1, <2>1 DEF SetStatus, TypeOK
<1>2. CASE Attempt(c) \/ Dismiss(c)
    BY <1>1, <1>2 DEF Attempt, Dismiss
<1>3. CASE Requeue(c)
    <2>1. row[c].requeues + 1 \in 0 .. MaxRequeues
        BY <1>0, <1>3, RequeuesAssumption DEF Requeue, Rows
    <2>2. [row[c] EXCEPT !.status = "PENDING", !.requeues = @ + 1] \in Rows
        BY <1>0, <2>1, Zenon DEF Rows
    <2> QED
        BY <1>0, <1>3, <2>2 DEF Requeue, TypeOK
<1> QED
    BY <1>2, <1>3

----------------------------------------------------------------------------
(* The reliance of the calls, step by step. *)

\* A call that goes on without writing a row, to a stage at which it relies on
\* nothing or on what the step has just seen.
LEMMA MoveKeeps ==
    ASSUME Invariant, TypeOK', NEW c \in Call, row' = row,
           \A d \in Call \ {c} : call'[d] = call[d] /\ seen'[d] = seen[d],
           call[c].pc # "done", Reliance(c)', call'[c].pc # "commit"
    PROVE  Invariant'
<1>1. \A d \in Call : (Blocks(d)' <=> Blocks(d)) /\ (Committed(d)' <=> Committed(d))
    BY DEF Blocks, Committed
<1>2. OneRowPerInstant'
    BY <1>1 DEF Invariant, OneRowPerInstant
<1>3. ASSUME NEW d \in Call \ {c} PROVE Reliance(d)'
    <2>1. Reliance(d) /\ seen[d] \subseteq Call
        BY DEF Invariant, Relied, TypeOK
    <2>2. call'[d] = call[d] /\ seen'[d] = seen[d] /\ row' = row
        OBVIOUS
    <2>3. \A e \in Call : call'[e].pc = "commit" => call'[e] = call[e]
        OBVIOUS
    <2> QED
        BY <1>1, <2>1, <2>2, <2>3 DEF Reliance
<1> QED
    BY <1>2, <1>3 DEF Invariant, Relied

LEMMA CreateKeeps ==
    ASSUME Invariant, TypeOK', NEW c \in Call, Create(c) PROVE Invariant'
<1>0. /\ call \in [Call -> Calls] /\ row \in [Call -> Rows] /\ seen \in [Call -> SUBSET Call]
      /\ call[c] \in Calls /\ Reliance(c) /\ OneRowPerInstant
      /\ \A d \in Call : Reliance(d)
    BY DEF Invariant, TypeOK, Relied
<1>1. ASSUME NEW kind \in Kind, NEW stamp \in Stamp, Enter(c, kind, stamp) PROVE Invariant'
    <2>1. /\ call[c].pc = "none" /\ row' = row /\ seen' = seen
          /\ call'[c].pc = "look" /\ \A d \in Call \ {c} : call'[d] = call[d]
        BY <1>0, <1>1 DEF Enter, NoCall
    <2>2. Reliance(c)'
        BY <1>0, <2>1 DEF Reliance, Committed
    <2> QED
        BY <2>1, <2>2, MoveKeeps
<1>2. CASE Hit(c)
    <2>1. /\ call[c].pc = "look" /\ row' = row
          /\ seen'[c] = {d \in Call : Committed(d)}
          /\ \A d \in Call \ {c} : call'[d] = call[d] /\ seen'[d] = seen[d]
        BY <1>0, <1>2 DEF Hit
    <2>2. call'[c].pc \in {"lookup", "done"}
        BY <1>0, <1>2 DEF Hit, Calls
    <2>3. ~Committed(c) /\ ~Committed(c)'
        BY <1>0, <2>1 DEF Reliance, Committed
    <2>4. Reliance(c)'
        BY <2>1, <2>2, <2>3 DEF Reliance
    <2> QED
        BY <2>1, <2>2, <2>4, MoveKeeps
<1>3. CASE Miss(c)
    <2>1. /\ call[c].pc = "look" /\ row' = row
          /\ seen'[c] = {d \in Call : Committed(d)}
          /\ \A d \in Call : ~Blocks(d)
          /\ \A d \in Call \ {c} : call'[d] = call[d] /\ seen'[d] = seen[d]
        BY <1>0, <1>3 DEF Miss
    <2>2. call'[c].pc = "insert"
        BY <1>0, <1>3 DEF Miss, Calls
    <2>3. ~Committed(c) /\ ~Committed(c)'
        BY <1>0, <2>1 DEF Reliance, Committed
    <2>4. \A d \in seen'[c] : Committed(d)' /\ ~Blocks(d)'
        BY <2>1 DEF Committed, Blocks
    <2>5. Reliance(c)'
        BY <2>1, <2>2, <2>3, <2>4 DEF Reliance
    <2> QED
        BY <2>1, <2>2, <2>5, MoveKeeps
<1>4. CASE Conflict(c) \/ Abort(c) \/ LookUp(c)
    <2>1. /\ call[c].pc \in {"look", "insert", "commit", "lookup"} /\ row' = row /\ seen' = seen
          /\ \A d \in Call \ {c} : call'[d] = call[d]
        BY <1>0, <1>4, Zenon DEF Conflict, Abort, LookUp
    <2>2. call'[c].pc = "done"
        <3>1. \/ call' = [call EXCEPT ![c].pc = "done"]
              \/ \E d \in Call :
                   call' = [call EXCEPT ![c] = [call[c] EXCEPT !.pc = "done", !.answer = {d}]]
            BY <1>4, Zenon DEF Conflict, Abort, LookUp
        <3>2. CASE call' = [call EXCEPT ![c].pc = "done"]
            BY <1>0, <3>2 DEF Calls
        <3>3. ASSUME NEW d \in Call,
                     call' = [call EXCEPT ![c] = [call[c] EXCEPT !.pc = "done", !.answer = {d}]]
              PROVE  call'[c].pc = "done"
            <4>1. call'[c] = [call[c] EXCEPT !.pc = "done", !.answer = {d}]
                BY <1>0, <3>3
            <4> QED
                BY <1>0, <4>1 DEF Calls
        <3> QED
            BY <3>1, <3>2, <3>3, Zenon
    <2>3. ~Committed(c) /\ ~Committed(c)'
        BY <1>0, <2>1 DEF Reliance, Committed
    <2>4. Reliance(c)'
        BY <1>0, <2>1, <2>2, <2>3 DEF Reliance
    <2> QED
        BY <2>1, <2>2, <2>4, MoveKeeps
<1>5. CASE Insert(c)
    <2>1. /\ call[c].pc = "insert" /\ row' = row /\ seen' = seen
          /\ \A d \in Call : call[d].pc = "commit" => call[d].stamp # call[c].stamp
          /\ \A d \in Call : Blocks(d) => row[d].stamp # call[c].stamp
          /\ \A d \in Call \ {c} : call'[d] = call[d]
        BY <1>0, <1>5 DEF Insert, Conflicting
    <2>2. call'[c].pc = "commit" /\ call'[c].stamp = call[c].stamp
        BY <1>0, <1>5 DEF Insert, Calls
    <2>3. \A d \in Call : (Blocks(d)' <=> Blocks(d)) /\ (Committed(d)' <=> Committed(d))
        BY <2>1 DEF Blocks, Committed
    <2>4. ASSUME NEW d \in Call PROVE Reliance(d)'
        <3>1. CASE d = c
            BY <1>0, <2>1, <2>2, <2>3, <3>1 DEF Reliance
        <3>2. CASE d # c
            BY <1>0, <2>1, <2>2, <2>3, <3>2 DEF Reliance
        <3> QED
            BY <3>1, <3>2
    <2>5. OneRowPerInstant'
        BY <1>0, <2>1, <2>3 DEF OneRowPerInstant
    <2> QED
        BY <2>4, <2>5 DEF Invariant, Relied
<1>6. CASE Commit(c)
    <2>1. /\ call[c].pc = "commit" /\ seen' = seen
          /\ \A d \in Call \ {c} : call'[d] = call[d] /\ row'[d] = row[d]
        BY <1>0, <1>6 DEF Commit
    <2>2. call'[c].pc = "done" /\ call'[c].stamp = call[c].stamp
        BY <1>0, <1>6 DEF Commit, Calls
    <2>3. row'[c].status \in {"PENDING", "ACTIVE"} /\ row'[c].stamp = call[c].stamp
        BY <1>0, <1>6 DEF Commit, NoRow
    <2>4. /\ \A d \in Call \ {c} : (Blocks(d)' <=> Blocks(d)) /\ (Committed(d)' <=> Committed(d))
          /\ Blocks(c)' /\ Committed(c)' /\ ~Committed(c)
        BY <1>0, <2>1, <2>3 DEF Blocks, Committed, Reliance
    <2>5. ASSUME NEW d \in Call PROVE Reliance(d)'
        <3>1. CASE d = c
            BY <1>0, <2>1, <2>2, <2>3, <2>4, <3>1 DEF Reliance
        <3>2. CASE d # c
            <4>1. call[d].pc = "commit" => call[d].stamp # call[c].stamp
                BY <1>0, <2>1, <3>2 DEF Reliance
            <4>2. call[d].pc \in {"insert", "commit"} \/ Committed(d) => c \notin seen[d]
                BY <1>0, <2>4 DEF Reliance
            <4>3. /\ call'[d] = call[d] /\ seen'[d] = seen[d] /\ row'[d] = row[d]
                  /\ seen[d] \subseteq Call /\ Reliance(d)
                BY <1>0, <2>1, <3>2
            <4>4. call[d].pc \in {"insert", "commit"} \/ Committed(d) =>
                    \A e \in seen[d] :
                        Committed(e)' /\ (Blocks(e)' => row'[e].requeues > 0)
                BY <2>1, <2>4, <4>2, <4>3 DEF Reliance
            <4>5. call[d].pc = "commit" =>
                    \A e \in Call :
                        /\ Blocks(e)' => row'[e].stamp # call[d].stamp
                        /\ e # d /\ call'[e].pc = "commit" => call'[e].stamp # call[d].stamp
                BY <2>1, <2>2, <2>3, <2>4, <4>1, <4>3 DEF Reliance
            <4> QED
                BY <2>4, <3>2, <4>3, <4>4, <4>5 DEF Reliance
        <3> QED
            BY <3>1, <3>2
    <2>6. OneRowPerInstant'
        <3>1. \A d \in Call \ {c} : Blocks(d) => row[d].stamp # call[c].stamp
            BY <1>0, <2>1 DEF Reliance
        <3> QED
            BY <1>0, <2>1, <2>3, <2>4, <3>1 DEF OneRowPerInstant
    <2> QED
        BY <2>5, <2>6 DEF Invariant, Relied
<1> QED
    BY <1>1, <1>2, <1>3, <1>4, <1>5, <1>6 DEF Create

\* The row of a call takes a step of its own: it blocks the key again only after
\* a requeue, into an instant that is free.
LEMMA RowKeeps ==
    ASSUME Invariant, TypeOK', NEW c \in Call, Attempt(c) \/ Dismiss(c) \/ Requeue(c)
    PROVE  Invariant'
<1>0. /\ call \in [Call -> Calls] /\ row \in [Call -> Rows] /\ row[c] \in Rows
      /\ seen \in [Call -> SUBSET Call] /\ OneRowPerInstant /\ \A d \in Call : Reliance(d)
    BY DEF Invariant, TypeOK, Relied
<1>1. /\ call' = call /\ seen' = seen /\ Committed(c) /\ Committed(c)'
      /\ \A d \in Call \ {c} : row'[d] = row[d]
      /\ row'[c].stamp = row[c].stamp
      /\ \/ Blocks(c) /\ row'[c].requeues = row[c].requeues
         \/ /\ row'[c].requeues > 0
            /\ \A d \in Call : Blocks(d) => row[d].stamp # row[c].stamp
            /\ \A d \in Call : call[d].pc = "commit" => call[d].stamp # row[c].stamp
    <2>1. ASSUME NEW s \in {"PENDING", "ACTIVE", "COMPLETED", "FAILED", "DEAD_LETTER",
                           "DISMISSED"}, SetStatus(c, s)
          PROVE  /\ call' = call /\ seen' = seen /\ Committed(c)'
                 /\ \A d \in Call \ {c} : row'[d] = row[d]
                 /\ row'[c].stamp = row[c].stamp /\ row'[c].requeues = row[c].requeues
        <3>1. row' = [row EXCEPT ![c].status = s] /\ call' = call /\ seen' = seen
            BY <2>1 DEF SetStatus
        <3> QED
            BY <1>0, <3>1 DEF Rows, Committed
    <2>2. CASE Attempt(c) \/ Dismiss(c)
        <3>1. row[c].status \in {"PENDING", "ACTIVE"}
              /\ \E s \in {"PENDING", "ACTIVE", "COMPLETED", "FAILED", "DEAD_LETTER",
                           "DISMISSED"} : SetStatus(c, s)
            BY <2>2 DEF Attempt, Dismiss
        <3>2. Committed(c) /\ Blocks(c)
            BY <3>1 DEF Committed, Blocks
        <3> QED
            BY <2>1, <3>1, <3>2
    <2>3. CASE Requeue(c)
        <3>1. /\ row' = [row EXCEPT ![c] = [row[c] EXCEPT !.status = "PENDING",
                                                          !.requeues = @ + 1]]
              /\ call' = call /\ seen' = seen /\ row[c].status \in {"DEAD_LETTER", "FAILED"}
            BY <2>3 DEF Requeue
        <3>2. row'[c].status = "PENDING" /\ row'[c].requeues = row[c].requeues + 1
              /\ row'[c].stamp = row[c].stamp /\ row[c].requeues \in Nat
            BY <1>0, <3>1, RequeuesAssumption DEF Rows
        <3>3. /\ \A d \in Call : Blocks(d) => row[d].stamp # row[c].stamp
              /\ \A d \in Call : call[d].pc = "commit" => call[d].stamp # row[c].stamp
            BY <2>3 DEF Requeue, Conflicting
        <3> QED
            BY <1>0, <3>1, <3>2, <3>3 DEF Committed
    <2> QED
        BY <2>2, <2>3
<1>2. \A d \in Call \ {c} : (Blocks(d)' <=> Blocks(d)) /\ (Committed(d)' <=> Committed(d))
    BY <1>1 DEF Blocks, Committed
<1>3. ASSUME NEW d \in Call PROVE Reliance(d)'
    <2>1. /\ call' = call /\ seen' = seen /\ seen[d] \subseteq Call /\ Reliance(d)
          /\ row'[d].stamp = row[d].stamp /\ (Committed(d)' <=> Committed(d))
        BY <1>0, <1>1, <1>2
    <2>2. call[d].pc \in {"insert", "commit"} \/ Committed(d) =>
            \A e \in seen[d] : Committed(e)' /\ (Blocks(e)' => row'[e].requeues > 0)
        BY <1>1, <1>2, <2>1 DEF Reliance
    <2>3. call[d].pc = "commit" =>
            \A e \in Call : Blocks(e)' => row'[e].stamp # call[d].stamp
        BY <1>1, <1>2, <2>1 DEF Reliance
    <2> QED
        BY <2>1, <2>2, <2>3 DEF Reliance
<1>4. OneRowPerInstant'
    BY <1>0, <1>1, <1>2 DEF OneRowPerInstant
<1> QED
    BY <1>3, <1>4 DEF Invariant, Relied

----------------------------------------------------------------------------
(* The theorems. *)

LEMMA StepInvariant == Invariant /\ [Next]_vars => Invariant'
<1> SUFFICES ASSUME Invariant, [Next]_vars PROVE Invariant'
    OBVIOUS
<1>0. TypeOK
    BY DEF Invariant
<1>1. ASSUME NEW c \in Call, Create(c) PROVE Invariant'
    BY <1>0, <1>1, CreateType, CreateKeeps
<1>2. ASSUME NEW c \in Call, Attempt(c) \/ Dismiss(c) \/ Requeue(c) PROVE Invariant'
    BY <1>0, <1>2, RowType, RowKeeps
<1>3. CASE UNCHANGED vars
    BY <1>3 DEF Invariant, vars, TypeOK, OneRowPerInstant, Relied, Reliance, Blocks, Committed
<1> QED
    BY <1>1, <1>2, <1>3 DEF Next

\* However many processes call create_task, enqueue and the spawn API with one
\* key, no two of their rows block it at one instant.
THEOREM IndexHolds == Spec => []OneRowPerInstant
<1>1. Invariant => OneRowPerInstant
    BY DEF Invariant
<1> QED
    BY <1>1, InitInvariant, StepInvariant, PTL DEF Spec

\* However the calls and the steps of the rows interleave, the rows a call saw in
\* its pre-check block the key again only after a requeue, and the entry it has in
\* the unique index is the only one of its instant.
THEOREM RelianceSound == Spec => []Relied
<1>1. Invariant => Relied
    BY DEF Invariant
<1> QED
    BY <1>1, InitInvariant, StepInvariant, PTL DEF Spec

\* Two runnable rows of one key come from calls that overlapped, or from the
\* requeue of a settled row; a call that starts after a row was committed never
\* adds a second one while the row has not been settled.
THEOREM PreCheckHolds == Spec => []OverlapOrRequeue
<1>1. Invariant => OverlapOrRequeue
    BY DEF Invariant, Relied, Reliance, OverlapOrRequeue, Runnable, Committed, Blocks
<1> QED
    BY <1>1, InitInvariant, StepInvariant, PTL DEF Spec

============================================================================
