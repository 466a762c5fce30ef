----------------------------- MODULE IndexSync -----------------------------
(***************************************************************************)
(* The search index and the obligations that keep it up to date:           *)
(* tasks.storage, the writes that insert its rows (ItemService.upsert,     *)
(* delete_item), the sweep for missing ones (sweep_missing_obligations)    *)
(* and the drains (StorageDrainTask, StorageDrainOffloadTask).             *)
(*                                                                         *)
(* An upsert commits its items in chunks and only then inserts a row that  *)
(* names the write; a delete inserts its row in its own transaction.  A    *)
(* drain claims rows, reads what the items are now, sends documents to the *)
(* index in bulks and marks each row done, ready again or dead.            *)
(***************************************************************************)
EXTENDS Naturals, Sequences, FiniteSets

CONSTANTS
    Item,       \* rows of the hub table, by geoid
    Writer,     \* requests that upsert items
    Run,        \* executions of a drain, ids used again
    Offload,    \* the runs of StorageDrainOffloadTask
    FailOpen,   \* the others that go on without the gate: no session lane, or its
                \* connection or the probe fails
    Nobody,
    Ledger,     \* the entity_id (NULL) of a row that names a whole write
    Batch,      \* storage_drain_batch_size
    MaxWrites,  \* bound: writes in one behaviour
    MaxFaults   \* bound: crashes and errors in one behaviour

ASSUME ActorsAssumption ==
    /\ Offload \subseteq Run /\ FailOpen \subseteq Run \ Offload
    /\ Nobody \notin Run /\ Ledger \notin Item
ASSUME NumbersAssumption ==
    Batch \in Nat \ {0} /\ MaxWrites \in Nat /\ MaxFaults \in Nat

VARIABLES
    hub,      \* the write_id of each hub row, 0 before the row exists
    deleted,  \* the hub rows with a deleted_at
    masked,   \* those for which tasks.storage holds an entity row of an older
              \* write, created since the transaction_time of this one
    writes,   \* how many write_ids were generated
    writer,   \* the upserts under way
    storage,  \* tasks.storage
    index,    \* the write each document of the index was built from, 0 for none
    run,      \* the drains
    gate,     \* the holder of DrainSingleFlightGate("storage")
    handoff,  \* the offload runs that may take up the storage_drain_offload task
    faults    \* how many faults there were

vars == <<hub, deleted, masked, writes, writer, storage, index, run, gate,
          handoff, faults>>

Write == 1..MaxWrites

\* A row of tasks.storage, named by the write that called for it, its entity_id
\* and what inserted it.
Row == Write \X (Item \cup {Ledger}) \X {"dispatch", "sweep"}

ASSUME NobodyAssumption == Nobody \notin Row

NoRow == [status |-> "none", op |-> "upsert", owner |-> Nobody]

\* An upsert: items is its batch, left what no chunk has committed yet, seen the
\* items an entity row was created for since the batch was prepared.
NoWriter == [pc |-> "idle", write |-> 0, items |-> {}, left |-> {}, seen |-> {}]

\* A drain: todo is what is left of the claimed batch, at the ledger row in hand,
\* ids its items still to be read, docs the hydrated documents not yet sent, and
\* marks the outcomes not yet written.
NoRun == [pc |-> "idle", todo |-> {}, at |-> Nobody, ids |-> {}, docs |-> <<>>,
          marks |-> {}]

Init ==
    /\ hub = [i \in Item |-> 0]
    /\ deleted = {}
    /\ masked = {}
    /\ writes = 0
    /\ writer = [u \in Writer |-> NoWriter]
    /\ storage = [o \in Row |-> NoRow]
    /\ index = [i \in Item |-> 0]
    /\ run = [r \in Run |-> NoRun]
    /\ gate = Nobody
    /\ handoff = {}
    /\ faults = 0

Fault == faults < MaxFaults /\ faults' = faults + 1

----------------------------------------------------------------------------
(* The writes. *)

Ready(op) == [NoRow EXCEPT !.status = "ready", !.op = op]

\* INSERT of rows, with DEFAULT status 'ready'.
Enqueue(rows, op) ==
    storage' = [o \in Row |-> IF o \in rows THEN Ready(op) ELSE storage[o]]

\* The upserts under way when entity rows of the items I are created.
Noted(I) == [u \in Writer |-> [writer[u] EXCEPT !.seen =
                IF writer[u].pc = "idle" THEN {} ELSE @ \cup I]]

\* Phase 2 of upsert: the write_id, and the transaction_time of every item.  An item
\* deleted by now is not found active: it is inserted as another hub row.
Prepare(u, I) ==
    /\ writer[u].pc = "idle"
    /\ writes < MaxWrites
    /\ I # {} /\ I \cap deleted = {}
    /\ writes' = writes + 1
    /\ writer' = [writer EXCEPT ![u] = [pc |-> "open", write |-> writes + 1,
                                        items |-> I, left |-> I, seen |-> {}]]
    /\ UNCHANGED <<hub, deleted, masked, storage, index, run, gate, handoff, faults>>

\* Phase 4: one chunk, in a transaction of its own.  The UPDATE is by geoid and sets
\* deleted_at to NULL, so it takes back a delete that came after the row was found.
CommitChunk(u, C) ==
    /\ C # {} /\ C \subseteq writer[u].left
    /\ hub' = [i \in Item |-> IF i \in C THEN writer[u].write ELSE hub[i]]
    /\ deleted' = deleted \ C
    /\ masked' = (masked \ C) \cup (C \cap writer[u].seen)
    /\ writer' = [writer EXCEPT ![u].left = @ \ C]
    /\ UNCHANGED <<writes, storage, index, run, gate, handoff, faults>>

\* The post-commit seam, _dispatch_index_upsert: one row naming the write.
Dispatch(u) ==
    /\ writer[u].pc = "open" /\ writer[u].left = {}
    /\ Enqueue({<<writer[u].write, Ledger, "dispatch">>}, "upsert")
    /\ writer' = [writer EXCEPT ![u] = NoWriter]
    /\ UNCHANGED <<hub, deleted, masked, writes, index, run, gate, handoff, faults>>

\* The same when the primary driver cannot be resolved: one row for each item.
DispatchItems(u) ==
    /\ writer[u].pc = "open" /\ writer[u].left = {}
    /\ Fault
    /\ Enqueue({writer[u].write} \X writer[u].items \X {"dispatch"}, "upsert")
    /\ writer' = [Noted(writer[u].items) EXCEPT ![u] = NoWriter]
    /\ UNCHANGED <<hub, deleted, masked, writes, index, run, gate, handoff>>

\* The request dies between two chunks or before the seam, or the seam's error is
\* swallowed: what was committed has no row.
Abandon(u) ==
    /\ writer[u].pc = "open"
    /\ Fault
    /\ writer' = [writer EXCEPT ![u] = NoWriter]
    /\ UNCHANGED <<hub, deleted, masked, writes, storage, index, run, gate, handoff>>

\* delete_item: the tombstone and its row, in one transaction.
DeleteItem(i) ==
    /\ hub[i] # 0 /\ i \notin deleted
    /\ writes < MaxWrites
    /\ writes' = writes + 1
    /\ hub' = [hub EXCEPT ![i] = writes + 1]
    /\ deleted' = deleted \cup {i}
    /\ masked' = masked \ {i}
    /\ Enqueue({<<writes + 1, Ledger, "dispatch">>}, "delete")
    /\ UNCHANGED <<writer, index, run, gate, handoff, faults>>

Exists(o) == o \in Row /\ storage[o].status # "none"

\* The rows of tasks.storage for the last write of an item.
RowsOf(i) == {o \in Row : o[1] = hub[i] /\ o[2] \in {i, Ledger}}

\* The NOT EXISTS of _check_and_enqueue: a row of the item's write_id, or an entity
\* row created since its latest change.
Covered(i) == i \in masked \/ \E o \in RowsOf(i) : Exists(o)

\* sweep_missing_obligations, in one transaction.  A tombstone is always covered.
Sweep ==
    \E I \in SUBSET Item :
        /\ I = {i \in Item : hub[i] # 0 /\ ~Covered(i)} /\ I # {}
        /\ Enqueue({<<hub[i], i, "sweep">> : i \in I}, "upsert")
        /\ writer' = Noted(I)
        /\ UNCHANGED <<hub, deleted, masked, writes, index, run, gate, handoff,
                       faults>>
----------------------------------------------------------------------------
(* The drains. *)

Gated(r) == r \notin Offload \cup FailOpen

\* A plausible bug: the gate lets every run through.
GateOpenAlways(r) == TRUE

\* DrainSingleFlightGate.acquire of an in-process run, then the probe for an offload
\* run under way.  An offload run takes neither.
GateOpen(r) ==
    Gated(r) => gate = Nobody /\ \A q \in Offload : run[q].pc = "idle"

Start(r) ==
    /\ run[r].pc = "idle"
    /\ r \in Offload => r \in handoff
    /\ GateOpen(r)
    /\ gate' = IF Gated(r) THEN r ELSE gate
    /\ handoff' = IF r \in Offload THEN {} ELSE handoff
    /\ run' = [run EXCEPT ![r].pc = "loop"]
    /\ UNCHANGED <<hub, deleted, masked, writes, writer, storage, index, faults>>

\* A plausible bug: a row in flight is never claimed again.
ClaimableOnce(o) == storage[o].status = "ready"

\* The predicate of _claim_batch, by which the ready_at of a row that is ready, or the
\* lease of one in flight, may have passed by now.
Claimable(o) == storage[o].status \in {"ready", "in_flight"}

\* _claim_batch; SKIP LOCKED may leave rows out.
Take(r, S) ==
    /\ run[r].pc = "loop"
    /\ S # {} /\ Cardinality(S) <= Batch
    /\ \A o \in S : Claimable(o)
    /\ storage' = [o \in Row |-> IF o \in S THEN [storage[o] EXCEPT !.status = "in_flight",
                                                                    !.owner = r]
                                 ELSE storage[o]]
    /\ UNCHANGED <<hub, deleted, masked, writes, writer, index, gate, handoff>>

\* A batch of rows whose indexer _resolve_indexer finds.
Claim(r, S) ==
    /\ Take(r, S)
    /\ run' = [run EXCEPT ![r].pc = "work", ![r].todo = S]
    /\ UNCHANGED faults

\* A batch for which this process has no indexer: _handle_unresolvable_rows.  A row
\* past max_attempts or max_age_seconds is dead, the others are retried.
ClaimUnresolved(r, S, Dead) ==
    /\ Take(r, S)
    /\ Fault
    /\ run' = [run EXCEPT ![r].pc = "work",
                 ![r].marks = {<<o, IF o \in Dead THEN "dead" ELSE "retry">> : o \in S}]

\* The run is between two pieces of work: every outcome written.
Marked(r) == run[r].pc = "work" /\ run[r].marks = {}

Ledgers(r) == {o \in run[r].todo : o[2] = Ledger}

\* No ledger row in hand.
NoLedger(r) == run[r].at = Nobody

\* The hub rows a ledger row stands for: read_active_rows_by_write_id and
\* read_tombstoned_ids_by_write_id, the pages as one read.
WrittenBy(o) == {i \in Item : hub[i] = o[1] /\ (i \in deleted <=> storage[o].op = "delete")}

\* _read_primary_write_batch finds the ids; a row that stands for none is done.
ReadLedger(r, o) ==
    /\ Marked(r) /\ NoLedger(r) /\ o \in Ledgers(r)
    /\ run' = [run EXCEPT ![r].todo = @ \ {o}, ![r].ids = WrittenBy(o),
                 ![r].at = IF WrittenBy(o) = {} THEN Nobody ELSE o,
                 ![r].marks = IF WrittenBy(o) = {} THEN {<<o, "done">>} ELSE {}]
    /\ UNCHANGED <<hub, deleted, masked, writes, writer, storage, index, gate, handoff,
                   faults>>

Doc(o, i, ver) == [row |-> o, item |-> i, ver |-> ver]

\* The ledger row in hand is given up with this outcome.
GiveUp(r, mark) ==
    run' = [run EXCEPT ![r].at = Nobody, ![r].ids = {}, ![r].docs = <<>>,
                       ![r].marks = {<<run[r].at, mark>>}]

\* The canonical re-read of one item of the ledger row, in a later transaction: the
\* document is of the item as it is now.  An item gone since raises, and the row is
\* to be retried.  A delete needs the id alone.
ReadDoc(r, i) ==
    /\ Marked(r) /\ i \in run[r].ids
    /\ LET o == run[r].at IN
       IF storage[o].op = "upsert" /\ i \in deleted
       THEN GiveUp(r, "retry")
       ELSE run' = [run EXCEPT ![r].ids = @ \ {i},
              ![r].docs = Append(@, Doc(o, i, IF storage[o].op = "delete" THEN 0
                                              ELSE hub[i]))]
    /\ UNCHANGED <<hub, deleted, masked, writes, writer, storage, index, gate, handoff,
                   faults>>

\* Entity rows come after the ledger rows of the batch: the canonical re-read, and the
\* append to the pending bulk.  An item that is gone is done.
ReadRow(r, o) ==
    /\ Marked(r) /\ NoLedger(r)
    /\ Ledgers(r) = {} /\ o \in run[r].todo
    /\ run' = [run EXCEPT ![r].todo = @ \ {o},
                 ![r].marks = IF o[2] \in deleted THEN {<<o, "done">>} ELSE {},
                 ![r].docs = IF o[2] \in deleted THEN run[r].docs
                             ELSE Append(run[r].docs, Doc(o, o[2], hub[o[2]]))]
    /\ UNCHANGED <<hub, deleted, masked, writes, writer, storage, index, gate, handoff,
                   faults>>

\* A read or the building of a document raises: the row in hand is to be retried.
ReadFails(r) ==
    /\ Marked(r)
    /\ Fault
    /\ \/ run[r].ids # {} /\ GiveUp(r, "retry")
       \/ NoLedger(r) /\ \E o \in IF Ledgers(r) = {} THEN run[r].todo ELSE Ledgers(r) :
            run' = [run EXCEPT ![r].todo = @ \ {o}, ![r].marks = {<<o, "retry">>}]
    /\ UNCHANGED <<hub, deleted, masked, writes, writer, storage, index, gate, handoff>>

\* The index after index_bulk of the first documents of docs: "passed" ones are in it,
\* "poison" ones are not, and either may be true of a "transient" one.  Of two
\* documents of one item the later one stays.
SendTo(docs, applied) ==
    {x \in [Item -> 0..MaxWrites] : \A i \in Item :
        LET K == {k \in applied : docs[k].item = i}
        IN IF K = {} THEN x[i] = index[i]
           ELSE \E k \in K : (\A m \in K : m <= k) /\ x[i] = docs[k].ver}

Verdicts(n) == [1..n -> {"passed", "transient", "poison"}]

\* The sets of documents that may be in the index under these verdicts.
MayApply(verdict) ==
    {A \in SUBSET DOMAIN verdict : \A k \in DOMAIN verdict :
        /\ verdict[k] = "passed" => k \in A
        /\ verdict[k] = "poison" => k \notin A}

AllPassed(verdict) == \A k \in DOMAIN verdict : verdict[k] = "passed"

\* A plausible bug: an error of the bulk call is logged, and the row done.
OutcomeDone(verdicts) == IF "poison" \in verdicts THEN "dead" ELSE "done"

\* The outcome of a row for the verdicts of its documents.
Outcome(verdicts) == IF "transient" \in verdicts THEN "retry"
                     ELSE IF "poison" \in verdicts THEN "dead" ELSE "done"

Values(f) == {f[k] : k \in DOMAIN f}

Rest(docs, n) == SubSeq(docs, n + 1, Len(docs))

\* A bulk of the ledger row in hand, all of it hydrated.  At the first that is not
\* all passed the remaining documents are dropped; the last one ends the row.
FlushLedger(r, n, verdict, applied) ==
    /\ Marked(r) /\ ~NoLedger(r) /\ run[r].ids = {}
    /\ n \in 1..Len(run[r].docs)
    /\ IF AllPassed(verdict) THEN UNCHANGED faults ELSE Fault
    /\ index' \in SendTo(run[r].docs, applied)
    /\ IF AllPassed(verdict) /\ n < Len(run[r].docs)
       THEN run' = [run EXCEPT ![r].docs = Rest(@, n)]
       ELSE GiveUp(r, Outcome(Values(verdict)))
    /\ UNCHANGED <<hub, deleted, masked, writes, writer, storage, gate, handoff>>

\* The outcome of the k-th document's row: ESBulkIndexer reports by the key, so of two
\* rows of one item the later gets the verdicts of both and the earlier is left out.
RowOutcome(docs, verdict, k) ==
    LET same == {m \in DOMAIN verdict : docs[m].item = docs[k].item}
    IN IF \E m \in same : m > k THEN "retry"
       ELSE Outcome({verdict[m] : m \in same})

\* The outcomes of the rows of a bulk, for _apply_outcomes to write.
RowMarks(docs, verdict, n) == {<<docs[k].row, RowOutcome(docs, verdict, k)>> : k \in 1..n}

\* A bulk of entity rows, each with the outcome of its document: _apply_outcomes.
FlushRows(r, n, verdict, applied) ==
    /\ Marked(r) /\ NoLedger(r)
    /\ n \in 1..Len(run[r].docs)
    /\ IF AllPassed(verdict) THEN UNCHANGED faults ELSE Fault
    /\ index' \in SendTo(run[r].docs, applied)
    /\ run' = [run EXCEPT ![r].docs = Rest(@, n),
                          ![r].marks = RowMarks(run[r].docs, verdict, n)]
    /\ UNCHANGED <<hub, deleted, masked, writes, writer, storage, gate, handoff>>

\* A plausible bug: the outcome is written as the status of the row.
StatusOfAsIs(mark) == mark

\* The status _mark_done, _mark_retry and _mark_dead write.
StatusOf(mark) == IF mark = "retry" THEN "ready" ELSE mark

\* _mark_done, _mark_retry and _mark_dead; the CAS on claimed_by and claim_version
\* misses when another run has claimed the row.  The claimed_by of a finished row is
\* left out: only the run that marked it could match it, and that run is through with
\* the row.
Mark(r, m) ==
    /\ run[r].pc = "work" /\ m \in run[r].marks
    /\ storage' = IF storage[m[1]].owner = r
                  THEN [storage EXCEPT ![m[1]].status = StatusOf(m[2]),
                                       ![m[1]].owner = Nobody]
                  ELSE storage
    /\ run' = [run EXCEPT ![r].marks = @ \ {m}]
    /\ UNCHANGED <<hub, deleted, masked, writes, writer, index, gate, handoff, faults>>

BatchOver(r) == Marked(r) /\ NoLedger(r) /\ run[r].todo = {} /\ run[r].docs = <<>>

Leave(r) == /\ run' = [run EXCEPT ![r] = NoRun]
            /\ gate' = IF gate = r THEN Nobody ELSE gate

\* drain_once returns and the loop goes on.
Again(r) ==
    /\ BatchOver(r)
    /\ run' = [run EXCEPT ![r].pc = "loop"]
    /\ UNCHANGED <<hub, deleted, masked, writes, writer, storage, index, gate, handoff,
                   faults>>

\* Over the in-process budget: _handoff_to_offload_job.
HandOff(r) ==
    /\ BatchOver(r) /\ r \notin Offload
    /\ handoff' = Offload
    /\ Leave(r)
    /\ UNCHANGED <<hub, deleted, masked, writes, writer, storage, index, faults>>

\* drain_once claims nothing: of what is ready or in flight, no ready_at has passed and
\* no lease has run out.
Finish(r) ==
    /\ run[r].pc = "loop"
    /\ Leave(r)
    /\ UNCHANGED <<hub, deleted, masked, writes, writer, storage, index, handoff, faults>>

\* The process dies; the session that holds the gate goes with it.
Crash(r) ==
    /\ run[r].pc # "idle"
    /\ Fault
    /\ Leave(r)
    /\ UNCHANGED <<hub, deleted, masked, writes, writer, storage, index, handoff>>

----------------------------------------------------------------------------
Flush(r) ==
    \E n \in 1..Len(run[r].docs) : \E verdict \in Verdicts(n) :
        \E applied \in MayApply(verdict) :
            FlushLedger(r, n, verdict, applied) \/ FlushRows(r, n, verdict, applied)

Claims(r) == \E S \in SUBSET {o \in Row : Claimable(o)} : Claim(r, S)

\* What a drain does when nothing fails.
Step(r) ==
    \/ Flush(r) \/ Again(r) \/ HandOff(r) \/ Finish(r) \/ Claims(r)
    \/ \E o \in run[r].todo : ReadLedger(r, o) \/ ReadRow(r, o)
    \/ \E i \in run[r].ids : ReadDoc(r, i)
    \/ \E m \in run[r].marks : Mark(r, m)

Trouble(r) ==
    \/ ReadFails(r) \/ Crash(r)
    \/ \E S \in SUBSET {o \in Row : Claimable(o)} : \E Dead \in SUBSET S :
        ClaimUnresolved(r, S, Dead)

Writing(u) ==
    \/ \E I \in SUBSET Item : Prepare(u, I) \/ CommitChunk(u, I)
    \/ Dispatch(u) \/ DispatchItems(u) \/ Abandon(u)

Next ==
    \/ \E u \in Writer : Writing(u)
    \/ \E i \in Item : DeleteItem(i)
    \/ Sweep
    \/ \E r \in Run : Start(r) \/ Step(r) \/ Trouble(r)

Spec == Init /\ [][Next]_vars

\* The tick of the maintenance supervisor sweeps, a write or the recovery tick triggers
\* a drain, and a drain goes on.  A row that is retried or left in flight is due after
\* its backoff or its lease, and the drains that come then claim what is due.  No
\* upsert need ever finish.
FairSpec ==
    /\ Spec
    /\ WF_vars(Sweep)
    /\ WF_vars(\E r \in Run : Start(r))
    /\ \A r \in Run : WF_vars(Step(r))
    /\ SF_vars(\E r \in Run : Claims(r))

----------------------------------------------------------------------------
(* Properties. *)

Statuses == {"none", "ready", "in_flight", "done", "dead"}

Writers == [pc : {"idle", "open"}, write : 0..MaxWrites, items : SUBSET Item,
            left : SUBSET Item, seen : SUBSET Item]

Rows == [status : Statuses, op : {"upsert", "delete"}, owner : Run \cup {Nobody}]

Docs == [row : Row, item : Item, ver : 0..MaxWrites]

Runs == [pc : {"idle", "loop", "work"}, todo : SUBSET Row, at : Row \cup {Nobody},
         ids : SUBSET Item, docs : Seq(Docs),
         marks : SUBSET (Row \X {"done", "retry", "dead"})]

TypeOK ==
    /\ hub \in [Item -> 0..MaxWrites] /\ index \in [Item -> 0..MaxWrites]
    /\ deleted \subseteq Item /\ masked \subseteq Item
    /\ writes \in 0..MaxWrites /\ faults \in 0..MaxFaults
    /\ writer \in [Writer -> Writers]
    /\ storage \in [Row -> Rows]
    /\ run \in [Run -> Runs]
    /\ gate \in Run \cup {Nobody} /\ handoff \subseteq Offload

\* What the index should hold of an item.
Wanted(i) == IF i \in deleted THEN 0 ELSE hub[i]

\* A row of tasks.storage that is done has done its work: as long as no later write
\* touches the item, the index holds the item as the write of that row left it, and
\* holds nothing of it if that write was a delete.  _mark_done comes after index_bulk
\* and nothing read before the write may be sent to the index after it.
DoneMeansIndexed ==
    \A i \in Item : \A o \in RowsOf(i) :
        storage[o].status = "done" => index[i] = Wanted(i)

\* Once the index holds the last version of an item, only a write of the item makes it
\* hold another: no drain puts an older document over it or removes it ("the queued
\* obligation can never go stale", storage_emit).
IndexedStays ==
    [][\A i \in Item :
         hub[i] # 0 /\ i \notin deleted /\ index[i] = hub[i] /\ hub'[i] = hub[i]
            => index'[i] = index[i]]_vars

\* The item is in the index as it is.
Current(i) == hub[i] # 0 /\ i \notin deleted /\ index[i] = hub[i]

\* What the writes under way have committed, and the write_ids no row names yet.
WritesInOrder ==
    /\ \A i \in Item : hub[i] <= writes /\ index[i] <= writes
    /\ \A u \in Writer :
        IF writer[u].pc = "idle" THEN writer[u].left = {}
        ELSE /\ writer[u].write \in 1..writes
             /\ \A v \in Writer \ {u} :
                    writer[v].pc = "idle" \/ writer[v].write # writer[u].write
             /\ \A i \in Item : hub[i] = writer[u].write => i \notin deleted
             /\ \A i \in writer[u].left : writer[u].write \notin {hub[i], index[i]}

\* A row is inserted when its write has committed the items it stands for, and is a
\* row for a delete exactly if they are deleted.
RowsInOrder ==
    /\ \A o \in Row : Exists(o) =>
        /\ o[1] <= writes
        /\ o[2] = Ledger => o[3] = "dispatch"
        /\ \A u \in Writer : writer[u].pc = "open" /\ writer[u].write = o[1]
              => o[3] = "sweep" /\ o[2] \notin writer[u].left
    /\ \A i \in Item : \A o \in RowsOf(i) : Exists(o) =>
        /\ storage[o].op = "delete" <=> i \in deleted
        /\ i \in deleted => o[2] = Ledger
    /\ \A i \in deleted : Exists(<<hub[i], Ledger, "dispatch">>)

\* The rows a run has claimed and not marked.
Held(r) == run[r].todo \cup ({run[r].at} \ {Nobody})
           \cup {run[r].docs[k].row : k \in DOMAIN run[r].docs}
           \cup {m[1] : m \in run[r].marks}

Empty(r) == /\ run[r].todo = {} /\ run[r].at = Nobody /\ run[r].ids = {}
            /\ run[r].docs = <<>> /\ run[r].marks = {}

\* A row for the last write of the item is with the run, or was done.
Live(r, i) == \E o \in RowsOf(i) : o \in Held(r) \/ storage[o].status = "done"

\* The documents of the item not sent.
DocsFor(r, i) == {k \in DOMAIN run[r].docs : run[r].docs[k].item = i}

Deleting(r) == run[r].at # Nobody /\ storage[run[r].at].op = "delete"

\* The ledger row in hand: its items are to be read, hydrated or in the index.
LedgerInOrder(r) ==
    /\ run[r].ids # {} => run[r].at # Nobody
    /\ run[r].at # Nobody =>
        /\ run[r].at[2] = Ledger
        /\ \A i \in Item : hub[i] = run[r].at[1] =>
              i \in run[r].ids \/ DocsFor(r, i) # {} \/ index[i] = Wanted(i)
    /\ \A i \in run[r].ids : /\ Live(r, i) => hub[i] = run[r].at[1]
                             /\ Deleting(r) => ~Current(i)

\* The k-th document not sent, of item i: it is not of a write not committed, and not
\* older than what the index holds or a row that is done stands for.
DocInOrder(r, i, k) ==
    LET ver == run[r].docs[k].ver IN
    /\ IF run[r].at = Nobody THEN run[r].docs[k].row[2] = i ELSE Deleting(r) => ver = 0
    /\ ver <= writes
    /\ \A u \in Writer : i \in writer[u].left => ver # writer[u].write
    /\ Live(r, i) => ver = Wanted(i)
    /\ Current(i) => ver = hub[i]
    /\ \A m \in DocsFor(r, i) :
          k < m /\ hub[i] # 0 /\ i \notin deleted /\ ver = hub[i]
             => run[r].docs[m].ver = hub[i]

\* While ledger rows of the batch are left no document of an entity row waits, and the
\* documents are in order.
DocsInOrder(r) ==
    /\ run[r].at = Nobody /\ Ledgers(r) # {} => run[r].docs = <<>>
    /\ \A i \in Item : \A k \in DocsFor(r, i) : DocInOrder(r, i, k)

\* A run under way holds the gate, has claimed rows only, and marks a row done only
\* when the index holds what the row stands for.
RunInOrder(r) ==
    /\ run[r].pc # "idle" => gate = r
    /\ run[r].pc # "work" => Empty(r)
    /\ \A o \in Held(r) : Exists(o)
    /\ \A m \in run[r].marks : m[2] = "done" =>
        \A i \in Item : m[1] \in RowsOf(i) => index[i] = Wanted(i)

\* The inductive invariant of the drains that pass the gate one at a time: nothing in
\* hand is older than what the index holds or than what a done row stands for, so a
\* bulk sent late never puts back what a later write replaced.
InOrder ==
    /\ WritesInOrder /\ RowsInOrder
    /\ \A r \in Run : RunInOrder(r) /\ LedgerInOrder(r) /\ DocsInOrder(r)

\* A row of the item is dead, for an operator to look at.
DeadFor(i) == \E o \in RowsOf(i) : storage[o].status = "dead"

\* The sweep takes an older entity row for one of this write, and there is none.
Unswept(i) == i \in masked /\ \A o \in RowsOf(i) : ~Exists(o)

\* After the last write the index comes to hold every item as it is and stays so,
\* whatever crashed or failed on the way, except for an item whose row is dead or that
\* the sweep does not see.
Converges ==
    <>[](\A i \in Item : index[i] = Wanted(i) \/ DeadFor(i) \/ Unswept(i))

\* The same without the second exception.  "The created_at bound closes that hole"
\* (obligation_sweep): an entity row of an earlier tick does not hide a later missed
\* write of the item.
SweepFindsAll == <>[](\A i \in Item : index[i] = Wanted(i) \/ DeadFor(i))
============================================================================
