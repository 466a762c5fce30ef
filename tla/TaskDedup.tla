----------------------------- MODULE TaskDedup -----------------------------
(***************************************************************************)
(* Deduplication of the rows of one (catalog_id, dedup_key): create_task,  *)
(* enqueue and the spawn API on top of create_task, called by several      *)
(* processes at once under READ COMMITTED.  Each looks for a row of the    *)
(* key that is not terminal, then inserts.  The unique index contains the  *)
(* timestamp, which the caller took before its transaction, so that only   *)
(* rows of the very same instant conflict in it.                           *)
(***************************************************************************)
EXTENDS Naturals

CONSTANTS
    Call,         \* calls with the key, each of which creates at most one row
    Stamp,        \* instants of datetime.now(), a set of numbers
    MaxRequeues   \* bound: how often the operator requeues one row

ASSUME StampAssumption == Stamp \subseteq Nat /\ Stamp # {}
ASSUME RequeuesAssumption == MaxRequeues \in Nat

VARIABLES
    call,   \* the calls
    row,    \* the row each call inserted
    seen    \* history: the rows that were there when a call looked for one

vars == <<call, row, seen>>

Kind == {"create_task", "enqueue", "spawn"}

\* A call: look (before the pre-check), insert (before the INSERT), commit (its
\* row inserted), lookup (the spawn API after a hit), done.  answer holds the row
\* it returns a reference to, and nothing after None, an error or 409.
NoCall == [pc |-> "none", kind |-> "create_task", stamp |-> 0, answer |-> {}]

NoRow == [status |-> "none", stamp |-> 0, requeues |-> 0]

Init ==
    /\ call = [c \in Call |-> NoCall]
    /\ row = [c \in Call |-> NoRow]
    /\ seen = [c \in Call |-> {}]

----------------------------------------------------------------------------
(* Creating a row. *)

Committed(c) == row[c].status # "none"

\* A plausible bug: the pre-check only sees the rows that wait.
BlocksWhilePending(c) == row[c].status = "PENDING"

\* status NOT IN ('COMPLETED', 'FAILED', 'DEAD_LETTER'), in the pre-check, in the
\* unique index and in get_active_task_by_dedup_key.
Blocks(c) == Committed(c) /\ row[c].status \notin {"COMPLETED", "FAILED", "DEAD_LETTER"}

Enter(c, kind, stamp) ==
    /\ call[c].pc = "none"
    /\ call' = [call EXCEPT ![c] = [NoCall EXCEPT !.pc = "look", !.kind = kind,
                                                  !.stamp = stamp]]
    /\ UNCHANGED <<row, seen>>

\* The pre-check finds a row: None, which the spawn API follows up.
Hit(c) ==
    /\ call[c].pc = "look"
    /\ \E d \in Call : Blocks(d)
    /\ call' = [call EXCEPT ![c].pc = IF call[c].kind = "spawn" THEN "lookup" ELSE "done"]
    /\ seen' = [seen EXCEPT ![c] = {d \in Call : Committed(d)}]
    /\ UNCHANGED row

Miss(c) ==
    /\ call[c].pc = "look"
    /\ \A d \in Call : ~Blocks(d)
    /\ call' = [call EXCEPT ![c].pc = "insert"]
    /\ seen' = [seen EXCEPT ![c] = {d \in Call : Committed(d)}]
    /\ UNCHANGED row

\* A plausible bug: the index is not unique.
ConflictingNever(stamp) == {}

\* The entries of idx_tasks_dedup equal to the one of an instant.
Conflicting(stamp) == {d \in Call : Blocks(d) /\ row[d].stamp = stamp}

\* The INSERT; it waits for the transaction that is inserting an equal entry.
Insert(c) ==
    /\ call[c].pc = "insert"
    /\ \A d \in Call : call[d].pc = "commit" => call[d].stamp # call[c].stamp
    /\ Conflicting(call[c].stamp) = {}
    /\ call' = [call EXCEPT ![c].pc = "commit"]
    /\ UNCHANGED <<row, seen>>

\* A conflict: ON CONFLICT DO NOTHING in enqueue, which returns None, an
\* IntegrityError in create_task.
Conflict(c) ==
    /\ call[c].pc = "insert"
    /\ Conflicting(call[c].stamp) # {}
    /\ call' = [call EXCEPT ![c].pc = "done"]
    /\ UNCHANGED <<row, seen>>

\* The row is there: PENDING, or born claimed when create_task is told so.
Commit(c) ==
    /\ call[c].pc = "commit"
    /\ \E s \in {"PENDING"} \cup IF call[c].kind = "create_task" THEN {"ACTIVE"} ELSE {} :
         row' = [row EXCEPT ![c] = [NoRow EXCEPT !.status = s, !.stamp = call[c].stamp]]
    /\ call' = [call EXCEPT ![c] = [call[c] EXCEPT !.pc = "done", !.answer = {c}]]
    /\ UNCHANGED seen

\* The process or its connection dies in the transaction.
Abort(c) ==
    /\ call[c].pc \in {"look", "insert", "commit", "lookup"}
    /\ call' = [call EXCEPT ![c].pc = "done"]
    /\ UNCHANGED <<row, seen>>

\* _resolve_spawn_result: the latest row of the key that is not terminal, or 409.
LookUp(c) ==
    /\ call[c].pc = "lookup"
    /\ \/ \E d \in Call :
            /\ Blocks(d)
            /\ \A e \in Call : Blocks(e) => row[e].stamp <= row[d].stamp
            /\ call' = [call EXCEPT ![c] = [call[c] EXCEPT !.pc = "done", !.answer = {d}]]
       \/ /\ \A d \in Call : ~Blocks(d)
          /\ call' = [call EXCEPT ![c].pc = "done"]
    /\ UNCHANGED <<row, seen>>

----------------------------------------------------------------------------
(* What becomes of a row; TaskQueue has the queue in full. *)

SetStatus(c, status) == row' = [row EXCEPT ![c].status = status] /\ UNCHANGED <<call, seen>>

Attempt(c) ==
    \/ row[c].status = "PENDING" /\ SetStatus(c, "ACTIVE")
    \/ /\ row[c].status = "ACTIVE"
       /\ \E s \in {"PENDING", "COMPLETED", "FAILED", "DEAD_LETTER"} : SetStatus(c, s)

Dismiss(c) == row[c].status \in {"PENDING", "ACTIVE"} /\ SetStatus(c, "DISMISSED")

\* requeue_dead_letter_task; it does not look for other rows of the key, and the
\* index refuses it only an instant that is taken.
Requeue(c) ==
    /\ row[c].status \in {"DEAD_LETTER", "FAILED"} /\ row[c].requeues < MaxRequeues
    /\ Conflicting(row[c].stamp) = {}
    /\ \A d \in Call : call[d].pc = "commit" => call[d].stamp # row[c].stamp
    /\ row' = [row EXCEPT ![c] = [row[c] EXCEPT !.status = "PENDING", !.requeues = @ + 1]]
    /\ UNCHANGED <<call, seen>>

----------------------------------------------------------------------------

Create(c) == \/ \E kind \in Kind, stamp \in Stamp : Enter(c, kind, stamp)
             \/ Hit(c) \/ Miss(c) \/ Insert(c) \/ Conflict(c) \/ Commit(c)
             \/ Abort(c) \/ LookUp(c)

Next == \E c \in Call : Create(c) \/ Attempt(c) \/ Dismiss(c) \/ Requeue(c)

Spec == Init /\ [][Next]_vars

----------------------------------------------------------------------------
(* Properties. *)

Calls == [pc : {"none", "look", "insert", "commit", "lookup", "done"}, kind : Kind,
          stamp : Stamp \cup {0}, answer : SUBSET Call]

Rows == [status : {"none", "PENDING", "ACTIVE", "COMPLETED", "FAILED", "DEAD_LETTER",
                   "DISMISSED"},
         stamp : Stamp \cup {0}, requeues : 0 .. MaxRequeues]

\* The states the calls and their rows can be in.
TypeOK ==
    /\ call \in [Call -> Calls]
    /\ row \in [Call -> Rows]
    /\ seen \in [Call -> SUBSET Call]

Runnable(c) == row[c].status \in {"PENDING", "ACTIVE"}

\* The pre-check is what deduplicates: two rows of one key can be runnable at a
\* time only if each call looked before the other's row was there, or if one row
\* was settled and has been requeued behind the other's back.
OverlapOrRequeue ==
    \A c, d \in Call :
        c # d /\ Runnable(c) /\ Runnable(d) /\ d \in seen[c] => row[d].requeues > 0

\* The index deduplicates what the pre-check misses only within an instant: no
\* two rows of one instant block the key, in whatever order the calls insert and
\* commit and rows are settled and requeued.
OneRowPerInstant ==
    \A c, d \in Call :
        c # d /\ Blocks(c) /\ Blocks(d) => row[c].stamp # row[d].stamp

\* What a call that is about to insert, or has inserted, relies on: the rows it saw
\* were settled and block again only after a requeue, and the entry it has in the
\* index is the only one of its instant.
Reliance(c) ==
    /\ Committed(c) => call[c].pc = "done" /\ row[c].stamp = call[c].stamp
    /\ call[c].pc \in {"none", "look"} => seen[c] = {}
    /\ c \notin seen[c]
    /\ call[c].pc \in {"insert", "commit"} \/ Committed(c) =>
         \A d \in seen[c] : Committed(d) /\ (Blocks(d) => row[d].requeues > 0)
    /\ call[c].pc = "commit" =>
         \A d \in Call : /\ Blocks(d) => row[d].stamp # call[c].stamp
                         /\ d # c /\ call[d].pc = "commit" => call[d].stamp # call[c].stamp

\* create_task and enqueue keep the reliance of every call, however the calls and
\* the rows' own steps interleave.
Relied == \A c \in Call : Reliance(c)

\* TaskCreate.dedup_key: "DB partial unique index on (catalog_id, dedup_key) for
\* non-terminal tasks collapses redelivered events into a single task"; here for
\* callers that overlap, without the operator's requeue.
OneRunnable ==
    \A c, d \in Call : Runnable(c) /\ Runnable(d) => c = d \/ row[c].requeues + row[d].requeues > 0

\* SpawnTaskRequest.dedup_key: "if a non-terminal task with the same dedup_key
\* already exists, the spawn returns the existing TaskRef", and DISMISSED is
\* terminal: a call that the pre-check declined referred to a task that could
\* still run.
DeclinedForATask ==
    [][\A c \in Call : Hit(c) => \E d \in Call : Runnable(d)]_vars

============================================================================
