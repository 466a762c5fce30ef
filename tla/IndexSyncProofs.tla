------------------------- MODULE IndexSyncProofs -------------------------
(* The drains of IndexSync keep InOrder when they pass the gate one at a time, and   *)
(* with it what a done row stands for.                                              *)
EXTENDS IndexSyncWrites

RunOK(r) == RunInOrder(r) /\ LedgerInOrder(r) /\ DocsInOrder(r)

\* A run with nothing in hand is in order.
LEMMA EmptyInOrder ==
    ASSUME NEW r \in Run, Empty(r)', run'[r].pc # "idle" => gate' = r
    PROVE  RunOK(r)'
<1>1. DOMAIN run'[r].docs = {}
    BY DEF Empty
<1>2. Held(r)' = {}
    BY <1>1 DEF Held, Empty
<1>3. \A i \in Item : DocsFor(r, i)' = {}
    BY <1>1 DEF DocsFor
<1> QED
    BY <1>2, <1>3 DEF RunOK, RunInOrder, LedgerInOrder, DocsInOrder, Empty

\* While one run is under way, the others are idle.
LEMMA OthersInOrder ==
    ASSUME TypeOK, InOrder, NEW r \in Run, run[r].pc # "idle" \/ gate = Nobody,
           \A q \in Run \ {r} : run'[q] = run[q]
    PROVE  \A q \in Run \ {r} : RunOK(q)'
<1> SUFFICES ASSUME NEW q \in Run \ {r} PROVE RunOK(q)'
    OBVIOUS
<1>1. run[q].pc = "idle" /\ Empty(q)
    BY ActorsAssumption DEF InOrder, RunInOrder
<1>2. run'[q].pc = "idle" /\ Empty(q)'
    BY <1>1 DEF Empty
<1> QED
    BY <1>2, EmptyInOrder

\* What stays when a step of a run leaves the hub, the writers and the index alone.
Quiet(r) ==
    /\ UNCHANGED <<hub, deleted, writes, writer, index>>
    /\ RowsKept
    /\ \A o \in Row : storage'[o].status = "done" =>
        storage[o].status = "done" \/ \E m \in run[r].marks : m[1] = o /\ m[2] = "done"

\* A step that only moves rows of the run between statuses keeps the rest in order.
LEMMA QuietInOrder ==
    ASSUME TypeOK, InOrder, DoneMeansIndexed, NEW r \in Run, Quiet(r)
    PROVE  WritesInOrder' /\ RowsInOrder' /\ DoneMeansIndexed'
<1>1. WritesInOrder' /\ RowsInOrder'
    BY RowsKeptInOrder DEF Quiet, InOrder, WritesInOrder
<1>2. DoneMeansIndexed'
    <2> SUFFICES ASSUME NEW i \in Item, NEW o \in RowsOf(i)', storage'[o].status = "done"
                 PROVE  index'[i] = Wanted(i)'
        BY DEF DoneMeansIndexed
    <2>1. o \in RowsOf(i) /\ o \in Row /\ Wanted(i)' = Wanted(i) /\ index' = index
        BY DEF Quiet, RowsOf, Wanted
    <2> QED
        BY <2>1 DEF Quiet, InOrder, RunInOrder, DoneMeansIndexed
<1> QED
    BY <1>1, <1>2

\* No row becomes live in a step of this kind.
LEMMA QuietLive ==
    ASSUME TypeOK, InOrder, NEW r \in Run, Quiet(r), Held(r)' \subseteq Held(r), NEW i \in Item
    PROVE  Live(r, i)' => Live(r, i)
<1>1. RowsOf(i)' = RowsOf(i)
    BY DEF Quiet, RowsOf
<1>2. \A m \in run[r].marks : m[1] \in Held(r)
    BY DEF Held
<1> QED
    BY <1>1, <1>2 DEF Quiet, Live, RowsOf

\* The rows held still exist.
LEMMA QuietHeld ==
    ASSUME TypeOK, InOrder, NEW r \in Run, Quiet(r), Held(r)' \subseteq Held(r)
    PROVE  \A o \in Held(r)' : Exists(o)'
BY DEF Quiet, RowsKept, InOrder, RunInOrder, Exists

\* What is wanted of an item stays the same.
LEMMA QuietSame ==
    ASSUME TypeOK, NEW r \in Run, Quiet(r), NEW i \in Item
    PROVE  /\ RowsOf(i)' = RowsOf(i) /\ Wanted(i)' = Wanted(i)
           /\ Current(i)' <=> Current(i)
BY DEF Quiet, RowsOf, Wanted, Current

------------------------------------------------------------------------------
\* A document in hand stays in order when nothing it is compared with changes.
LEMMA DocKept ==
    ASSUME NEW r \in Run, NEW i \in Item, NEW k \in DocsFor(r, i), DocInOrder(r, i, k),
           run'[r].docs = run[r].docs, run'[r].at = run[r].at,
           DocsFor(r, i)' = DocsFor(r, i), Deleting(r)' <=> Deleting(r),
           Live(r, i)' => Live(r, i), Wanted(i)' = Wanted(i), Current(i)' <=> Current(i),
           UNCHANGED <<hub, deleted, writes, writer>>
    PROVE  DocInOrder(r, i, k)'
BY Zenon DEF DocInOrder

\* The gate: a run starts when no other is under way.
LEMMA StartInOrder ==
    ASSUME TypeOK, InOrder, NEW r \in Run, Gated(r), Start(r)
    PROVE  Quiet(r) /\ \A q \in Run : RunOK(q)'
<1>1. gate = Nobody /\ gate' = r /\ run[r].pc = "idle"
    BY DEF Start, GateOpen
<1>2. Quiet(r)
    BY DEF Quiet, RowsKept, Start
<1>3. Empty(r)' /\ \A q \in Run \ {r} : run'[q] = run[q]
    BY <1>1, StartIs DEF InOrder, RunInOrder, Empty, Becomes
<1> QED
    BY <1>1, <1>2, <1>3, EmptyInOrder, OthersInOrder

\* A run with nothing left goes back to its loop.
LEMMA AgainInOrder ==
    ASSUME TypeOK, InOrder, NEW r \in Run, Again(r)
    PROVE  Quiet(r) /\ \A q \in Run : RunOK(q)'
<1>1. run[r].pc = "work" /\ gate = r /\ gate' = r /\ run[r].ids = {}
    BY DEF Again, BatchOver, Marked, NoLedger, InOrder, RunInOrder, LedgerInOrder
<1>2. Quiet(r)
    BY DEF Quiet, RowsKept, Again
<1>3. Empty(r)' /\ \A q \in Run \ {r} : run'[q] = run[q]
    BY <1>1, AgainIs DEF Empty, Becomes
<1> QED
    BY <1>1, <1>2, <1>3, EmptyInOrder, OthersInOrder

\* A run that ends or dies holds nothing.
LEMMA LeaveInOrder ==
    ASSUME TypeOK, InOrder, NEW r \in Run, run[r].pc # "idle", Leave(r),
           UNCHANGED <<hub, deleted, writes, writer, storage, index>>
    PROVE  Quiet(r) /\ \A q \in Run : RunOK(q)'
<1>1. Quiet(r)
    BY DEF Quiet, RowsKept
<1>2. Empty(r)' /\ run'[r].pc = "idle" /\ \A q \in Run \ {r} : run'[q] = run[q]
    BY LeaveIs DEF Empty, Becomes
<1> QED
    BY <1>1, <1>2, EmptyInOrder, OthersInOrder

\* A claim only moves existing rows.
LEMMA TakeIs ==
    ASSUME TypeOK, NEW r \in Run, NEW S \in SUBSET Row, Take(r, S)
    PROVE  Quiet(r) /\ \A o \in S : Exists(o)'
<1>1. ASSUME NEW o \in Row
      PROVE  /\ storage'[o].op = storage[o].op
             /\ o \in S => storage'[o].status = "in_flight" /\ storage[o].status # "none"
             /\ o \notin S => storage'[o] = storage[o]
    <2>1. storage[o] \in Rows
        BY DEF TypeOK
    <2> QED
        BY <2>1, Zenon DEF Take, Claimable, Rows
<1> QED
    BY <1>1, Zenon DEF Quiet, RowsKept, Take, Exists

\* A claimed batch, nothing of it read.
LEMMA ClaimInOrder ==
    ASSUME TypeOK, InOrder, NEW r \in Run, NEW S \in SUBSET Row, Claim(r, S)
    PROVE  Quiet(r) /\ \A q \in Run : RunOK(q)'
<1>1. run[r].pc = "loop" /\ gate' = gate /\ gate = r /\ Empty(r)
    BY Zenon DEF Claim, Take, InOrder, RunInOrder
<1>2. Quiet(r) /\ \A o \in S : Exists(o)'
    BY TakeIs DEF Claim
<1>3. /\ run'[r].pc = "work" /\ run'[r].todo = S /\ run'[r].at = Nobody /\ run'[r].ids = {}
      /\ run'[r].docs = <<>> /\ run'[r].marks = {}
      /\ \A q \in Run \ {r} : run'[q] = run[q]
    BY <1>1, ClaimIs DEF Becomes, Empty
<1>4. DOMAIN run'[r].docs = {}
    BY <1>3
<1>5. Held(r)' = S /\ \A i \in Item : DocsFor(r, i)' = {}
    BY <1>3, <1>4 DEF Held, DocsFor
<1>6. RunOK(r)'
    BY <1>1, <1>2, <1>3, <1>5, Zenon DEF RunOK, RunInOrder, LedgerInOrder, DocsInOrder
<1> QED
    BY <1>1, <1>2, <1>3, <1>6, OthersInOrder

\* A batch without an indexer is marked, and never as done.
LEMMA ClaimUnresolvedInOrder ==
    ASSUME TypeOK, InOrder, NEW r \in Run, NEW S \in SUBSET Row, NEW Dead \in SUBSET S,
           ClaimUnresolved(r, S, Dead)
    PROVE  Quiet(r) /\ \A q \in Run : RunOK(q)'
<1>1. run[r].pc = "loop" /\ gate' = gate /\ gate = r /\ Empty(r)
    BY Zenon DEF ClaimUnresolved, Take, InOrder, RunInOrder
<1>2. Quiet(r) /\ \A o \in S : Exists(o)'
    BY TakeIs DEF ClaimUnresolved
<1>3. /\ run'[r].pc = "work" /\ run'[r].todo = {} /\ run'[r].at = Nobody /\ run'[r].ids = {}
      /\ run'[r].docs = <<>>
      /\ run'[r].marks = {<<o, IF o \in Dead THEN "dead" ELSE "retry">> : o \in S}
      /\ \A q \in Run \ {r} : run'[q] = run[q]
    <2>1. Becomes(r, "work", run[r].todo, run[r].at, run[r].ids, run[r].docs,
                  {<<o, IF o \in Dead THEN "dead" ELSE "retry">> : o \in S})
        BY ClaimUnresolvedIs, Zenon
    <2> QED
        BY <1>1, <2>1, Zenon DEF Becomes, Empty
<1>4. DOMAIN run'[r].docs = {}
    BY <1>3
<1>5. /\ \A m \in run'[r].marks : m[1] \in S /\ m[2] # "done"
      /\ \A i \in Item : DocsFor(r, i)' = {}
    <2>1. \A i \in Item : DocsFor(r, i)' = {}
        BY <1>4 DEF DocsFor
    <2>2. ASSUME NEW m \in run'[r].marks PROVE m[1] \in S /\ m[2] # "done"
        BY <1>3
    <2> QED
        BY <2>1, <2>2
<1>7. \A o \in Held(r)' : o \in S
    BY <1>3, <1>4, <1>5 DEF Held
<1>6. RunOK(r)'
    BY <1>1, <1>2, <1>3, <1>5, <1>7, Zenon
       DEF RunOK, RunInOrder, LedgerInOrder, DocsInOrder, Ledgers
<1> QED
    BY <1>1, <1>2, <1>3, <1>6, OthersInOrder, Zenon

\* A row the run holds names its write: what it stands for is deleted or not.
LEMMA HeldKind ==
    ASSUME TypeOK, InOrder, NEW r \in Run, NEW o \in Held(r), NEW i \in Item, o \in RowsOf(i)
    PROVE  /\ storage[o].op = "delete" <=> i \in deleted
           /\ i \in deleted => o[2] = Ledger
BY DEF InOrder, RunInOrder, RowsInOrder

\* The ids of a ledger row: no item of its write is missed, and a row that stands for
\* none may be done.
LEMMA ReadLedgerInOrder ==
    ASSUME TypeOK, InOrder, NEW r \in Run, NEW o \in run[r].todo, ReadLedger(r, o)
    PROVE  Quiet(r) /\ \A q \in Run : RunOK(q)'
<1>0. /\ run[r].pc = "work" /\ gate' = gate /\ gate = r /\ run[r].at = Nobody
      /\ o \in Row /\ o[2] = Ledger /\ o \in Held(r) /\ run[r].marks = {}
      /\ run[r].docs = <<>>
    BY Zenon
       DEF ReadLedger, Marked, NoLedger, Ledgers, InOrder, RunInOrder, DocsInOrder, TypeOK,
           Runs, Held
<1>1. Quiet(r)
    BY Zenon DEF Quiet, RowsKept, ReadLedger
<1>2. /\ run'[r].pc = "work" /\ run'[r].todo = run[r].todo \ {o}
      /\ run'[r].at = IF WrittenBy(o) = {} THEN Nobody ELSE o
      /\ run'[r].ids = WrittenBy(o) /\ run'[r].docs = <<>>
      /\ run'[r].marks = IF WrittenBy(o) = {} THEN {<<o, "done">>} ELSE {}
      /\ \A q \in Run \ {r} : run'[q] = run[q]
    BY <1>0, ReadLedgerIs, Zenon DEF Becomes
<1>3. DOMAIN run'[r].docs = {}
    BY <1>2
<1>4. Held(r)' \subseteq Held(r) /\ \A i \in Item : DocsFor(r, i)' = {}
    BY <1>0, <1>2, <1>3 DEF Held, DocsFor
<1>5. ASSUME NEW i \in Item, hub[i] = o[1] PROVE o \in RowsOf(i) /\ i \in WrittenBy(o)
    <2>1. o \in RowsOf(i)
        BY <1>0, <1>5 DEF RowsOf
    <2> QED
        BY <1>0, <1>5, <2>1, HeldKind DEF WrittenBy
<1>6. \A i \in WrittenBy(o) : i \in Item /\ hub[i] = o[1]
                              /\ (i \in deleted <=> storage[o].op = "delete")
    BY DEF WrittenBy
<1>7. hub' = hub /\ storage' = storage /\ index' = index /\ deleted' = deleted
    BY Zenon DEF ReadLedger
<1>8. RunInOrder(r)'
    <2>1. ASSUME NEW m \in run'[r].marks, NEW i \in Item, m[1] \in RowsOf(i)' PROVE FALSE
        <3>1. WrittenBy(o) = {} /\ m[1] = o
            BY <1>2, <2>1
        <3> QED
            BY <1>5, <1>7, <2>1, <3>1 DEF RowsOf
    <2> QED
        BY <1>0, <1>1, <1>2, <1>4, <2>1, QuietHeld DEF RunInOrder
<1>9. LedgerInOrder(r)'
    <2>1. ASSUME NEW i \in run'[r].ids
          PROVE  hub'[i] = run'[r].at[1] /\ (Deleting(r)' => ~Current(i)')
        BY <1>2, <1>6, <1>7, <2>1 DEF Deleting, Current
    <2>2. ASSUME run'[r].at # Nobody
          PROVE  run'[r].at[2] = Ledger /\ \A i \in Item : hub'[i] = run'[r].at[1] => i \in run'[r].ids
        BY <1>0, <1>2, <1>5, <1>7, <2>2
    <2>3. run'[r].ids # {} => run'[r].at # Nobody
        BY <1>0, <1>2, NobodyAssumption
    <2> QED
        BY <2>1, <2>2, <2>3 DEF LedgerInOrder
<1>10. DocsInOrder(r)'
    BY <1>2, <1>4 DEF DocsInOrder
<1> QED
    BY <1>0, <1>1, <1>2, <1>8, <1>9, <1>10, OthersInOrder DEF RunOK

\* A ledger row that is to be retried.
LEMMA GiveUpInOrder ==
    ASSUME TypeOK, InOrder, NEW r \in Run, run[r].pc = "work", run[r].at \in Row,
           GiveUp(r, "retry"),
           UNCHANGED <<hub, deleted, writes, writer, storage, index, gate>>
    PROVE  Quiet(r) /\ \A q \in Run : RunOK(q)'
<1>0. gate = r
    BY DEF InOrder, RunInOrder
<1>1. Quiet(r)
    BY DEF Quiet, RowsKept
<1>2. /\ run'[r].pc = "work" /\ run'[r].todo = run[r].todo /\ run'[r].at = Nobody
      /\ run'[r].ids = {} /\ run'[r].docs = <<>> /\ run'[r].marks = {<<run[r].at, "retry">>}
      /\ \A q \in Run \ {r} : run'[q] = run[q]
    BY GiveUpIs DEF Becomes
<1>3. DOMAIN run'[r].docs = {}
    BY <1>2
<1>4. Held(r)' \subseteq Held(r) /\ \A i \in Item : DocsFor(r, i)' = {}
    BY <1>2, <1>3, NobodyAssumption DEF Held, DocsFor
<1>5. \A m \in run'[r].marks : m[2] # "done"
    BY <1>2
<1>6. RunOK(r)'
    BY <1>0, <1>1, <1>2, <1>4, <1>5, QuietHeld, Zenon
       DEF RunOK, RunInOrder, LedgerInOrder, DocsInOrder
<1> QED
    BY <1>1, <1>2, <1>6, OthersInOrder

\* An entity row that is to be retried.
LEMMA DropRowInOrder ==
    ASSUME TypeOK, InOrder, NEW r \in Run, Marked(r), NEW o \in run[r].todo, NoLedger(r),
           Becomes(r, "work", run[r].todo \ {o}, run[r].at, run[r].ids, run[r].docs,
                   {<<o, "retry">>}),
           UNCHANGED <<hub, deleted, writes, writer, storage, index, gate>>
    PROVE  Quiet(r) /\ \A q \in Run : RunOK(q)'
<1>0. gate = r /\ run[r].pc = "work" /\ run[r].at = Nobody /\ run[r].ids = {}
    BY Zenon DEF InOrder, RunInOrder, LedgerInOrder, Marked, NoLedger
<1>1. Quiet(r)
    BY DEF Quiet, RowsKept
<1>2. /\ run'[r].pc = "work" /\ run'[r].todo = run[r].todo \ {o} /\ run'[r].at = Nobody
      /\ run'[r].ids = {} /\ run'[r].docs = run[r].docs /\ run'[r].marks = {<<o, "retry">>}
      /\ \A q \in Run \ {r} : run'[q] = run[q]
    BY <1>0 DEF Becomes
<1>3. Held(r)' \subseteq Held(r) /\ \A i \in Item : DocsFor(r, i)' = DocsFor(r, i)
    BY <1>0, <1>2 DEF Held, DocsFor
<1>4. \A m \in run'[r].marks : m[2] # "done"
    BY <1>2
<1>5. RunInOrder(r)' /\ LedgerInOrder(r)'
    BY <1>0, <1>1, <1>2, <1>3, <1>4, QuietHeld, Zenon DEF RunInOrder, LedgerInOrder
<1>6. DocsInOrder(r)'
    <2>1. Ledgers(r)' # {} => run'[r].docs = <<>>
        BY <1>0, <1>2, Zenon DEF Ledgers, InOrder, DocsInOrder
    <2>2. ASSUME NEW i \in Item
          PROVE  /\ Live(r, i)' => Live(r, i)
                 /\ Wanted(i)' = Wanted(i) /\ (Current(i)' <=> Current(i))
        BY <1>1, <1>3, QuietLive, QuietSame, Zenon
    <2>3. Deleting(r)' <=> Deleting(r)
        BY <1>0, <1>2, Zenon DEF Deleting
    <2>4. ASSUME NEW i \in Item, NEW k \in DocsFor(r, i) PROVE DocInOrder(r, i, k)'
        <3>1. DocInOrder(r, i, k)
            BY Zenon DEF InOrder, DocsInOrder
        <3> QED
            BY <1>0, <1>2, <1>3, <2>2, <2>3, <3>1, DocKept, Zenon
    <2> QED
        BY <1>3, <2>1, <2>4, Zenon DEF DocsInOrder
<1> QED
    BY <1>0, <1>1, <1>2, <1>5, <1>6, OthersInOrder, Zenon DEF RunOK

\* A mark is written: done rows are of items the index holds.
LEMMA MarkInOrder ==
    ASSUME TypeOK, InOrder, NEW r \in Run, NEW m \in run[r].marks, Mark(r, m)
    PROVE  Quiet(r) /\ \A q \in Run : RunOK(q)'
<1>0. /\ gate = r /\ gate' = gate /\ run[r].pc = "work" /\ m[1] \in Held(r) /\ Exists(m[1])
      /\ m[1] \in Row /\ m[2] \in {"done", "retry", "dead"}
      /\ UNCHANGED <<hub, deleted, writes, writer, index>>
    <2>1. m[1] \in Held(r)
        BY DEF Held
    <2>2. m[1] \in Row /\ m[2] \in {"done", "retry", "dead"}
        BY DEF TypeOK, Runs
    <2> QED
        BY <2>1, <2>2 DEF InOrder, RunInOrder, Mark
<1>1. Quiet(r)
    <2>1. ASSUME NEW o \in Row
          PROVE  /\ storage'[o].op = storage[o].op
                 /\ o # m[1] => storage'[o] = storage[o]
                 /\ storage'[o].status \in {storage[o].status, StatusOf(m[2])}
        <3>1. storage[o] \in Rows /\ storage[m[1]] \in Rows /\ storage \in [Row -> Rows]
            BY <1>0, Zenon DEF TypeOK
        <3> QED
            BY <1>0, <3>1, Zenon DEF Mark, Rows
    <2>2. StatusOf(m[2]) # "none" /\ (StatusOf(m[2]) = "done" => m[2] = "done")
        BY <1>0, Zenon DEF StatusOf
    <2> QED
        BY <1>0, <2>1, <2>2 DEF Quiet, RowsKept, Exists
<1>2. /\ run'[r].pc = "work" /\ run'[r].todo = run[r].todo /\ run'[r].at = run[r].at
      /\ run'[r].ids = run[r].ids /\ run'[r].docs = run[r].docs
      /\ run'[r].marks = run[r].marks \ {m}
      /\ \A q \in Run \ {r} : run'[q] = run[q]
    BY MarkIs DEF Becomes
<1>3. Held(r)' \subseteq Held(r) /\ \A i \in Item : DocsFor(r, i)' = DocsFor(r, i)
    BY <1>2 DEF Held, DocsFor
<1>4. ASSUME NEW i \in Item
      PROVE  /\ Live(r, i)' => Live(r, i)
             /\ RowsOf(i)' = RowsOf(i) /\ Wanted(i)' = Wanted(i) /\ (Current(i)' <=> Current(i))
    BY <1>1, <1>3, QuietLive, QuietSame, Zenon
<1>5. RunInOrder(r)'
    <2>1. \A o \in Held(r)' : Exists(o)'
        BY <1>1, <1>3, QuietHeld
    <2>2. ASSUME NEW n \in run'[r].marks, n[2] = "done", NEW i \in Item, n[1] \in RowsOf(i)'
          PROVE  index'[i] = Wanted(i)'
        <3>1. n \in run[r].marks /\ n[1] \in RowsOf(i)
            BY <1>2, <1>4, <2>2, Zenon
        <3>2. index[i] = Wanted(i)
            BY <2>2, <3>1, Zenon DEF InOrder, RunInOrder
        <3> QED
            BY <1>0, <1>4, <3>2, Zenon
    <2> QED
        BY <1>0, <1>2, <2>1, <2>2, Zenon DEF RunInOrder
<1>6. Deleting(r)' <=> Deleting(r)
    <2>1. run[r].at # Nobody => run[r].at \in Row
        BY DEF TypeOK, Runs
    <2> QED
        BY <1>1, <1>2, <2>1 DEF Deleting, Quiet, RowsKept
<1>7. LedgerInOrder(r)'
    <2>1. run[r].ids \subseteq Item
        BY DEF TypeOK, Runs
    <2>2. /\ run[r].ids # {} => run[r].at # Nobody
          /\ run[r].at # Nobody => run[r].at[2] = Ledger
        BY Zenon DEF InOrder, LedgerInOrder
    <2>3. ASSUME NEW i \in Item, run[r].at # Nobody, hub[i] = run[r].at[1]
          PROVE  i \in run[r].ids \/ DocsFor(r, i) # {} \/ index[i] = Wanted(i)
        BY <2>3, Zenon DEF InOrder, LedgerInOrder
    <2>4. ASSUME NEW i \in run[r].ids
          PROVE  (Live(r, i)' => hub[i] = run[r].at[1]) /\ (Deleting(r)' => ~Current(i)')
        BY <1>4, <1>6, <2>1, Zenon DEF InOrder, LedgerInOrder
    <2> QED
        BY <1>0, <1>2, <1>3, <1>4, <2>2, <2>3, <2>4, Zenon DEF LedgerInOrder
<1>8. DocsInOrder(r)'
    <2>1. run'[r].at = Nobody /\ Ledgers(r)' # {} => run'[r].docs = <<>>
        BY <1>2, Zenon DEF Ledgers, InOrder, DocsInOrder
    <2>2. ASSUME NEW i \in Item, NEW k \in DocsFor(r, i) PROVE DocInOrder(r, i, k)'
        <3>1. DocInOrder(r, i, k)
            BY Zenon DEF InOrder, DocsInOrder
        <3> QED
            BY <1>0, <1>2, <1>3, <1>4, <1>6, <3>1, DocKept, Zenon
    <2> QED
        BY <1>3, <2>1, <2>2, Zenon DEF DocsInOrder
<1> QED
    BY <1>0, <1>1, <1>2, <1>5, <1>7, <1>8, OthersInOrder, Zenon DEF RunOK

\* A document appended comes after the others.
LEMMA AppendIs ==
    ASSUME TypeOK, NEW r \in Run, NEW d \in Docs, run'[r].docs = Append(run[r].docs, d),
           NEW n, n = Len(run[r].docs) + 1
    PROVE  /\ n \in Nat /\ n \notin DOMAIN run[r].docs /\ run'[r].docs[n] = d
           /\ \A i \in Item : DocsFor(r, i)' = DocsFor(r, i) \cup (IF d.item = i THEN {n} ELSE {})
           /\ \A k \in DOMAIN run[r].docs : run'[r].docs[k] = run[r].docs[k] /\ k < n /\ k \in Nat
<1> DEFINE s == run[r].docs
<1>1. s \in Seq(Docs)
    BY DEF TypeOK, Runs
<1> HIDE DEF s
<1>2. /\ n \in Nat /\ DOMAIN s = 1..Len(s) /\ Len(s) \in Nat /\ n \notin 1..Len(s)
      /\ DOMAIN Append(s, d) = 1..n /\ 1..n = (1..Len(s)) \cup {n} /\ Append(s, d)[n] = d
      /\ \A k \in 1..Len(s) : Append(s, d)[k] = s[k] /\ k < n /\ k \in Nat
    BY <1>1 DEF s
<1>3. ASSUME NEW i \in Item
      PROVE  DocsFor(r, i)' = DocsFor(r, i) \cup (IF d.item = i THEN {n} ELSE {})
    BY <1>2 DEF DocsFor, s
<1> QED
    BY <1>2, <1>3, Zenon DEF s

\* A document that may follow those of the item in hand.
Fits(r, i, d) ==
    /\ IF run[r].at = Nobody THEN d.row[2] = i ELSE Deleting(r) => d.ver = 0
    /\ d.ver <= writes
    /\ \A u \in Writer : i \in writer[u].left => d.ver # writer[u].write
    /\ Live(r, i) => d.ver = Wanted(i)
    /\ Current(i) => d.ver = hub[i]
    /\ \A k \in DocsFor(r, i) :
          hub[i] # 0 /\ i \notin deleted /\ run[r].docs[k].ver = hub[i] => d.ver = hub[i]

\* A document of the item as it is now may follow those read before.
LEMMA AppendInOrder ==
    ASSUME TypeOK, InOrder, NEW r \in Run, Quiet(r), storage' = storage,
           Held(r)' \subseteq Held(r), NEW i \in Item, NEW d \in Docs, d.item = i,
           run'[r].docs = Append(run[r].docs, d), run'[r].at = run[r].at,
           run[r].at = Nobody => Ledgers(r)' = {}, Fits(r, i, d)
    PROVE  DocsInOrder(r)'
<1> DEFINE n == Len(run[r].docs) + 1
<1>1. /\ n \in Nat /\ n \notin DOMAIN run[r].docs /\ run'[r].docs[n] = d
      /\ \A j \in Item : DocsFor(r, j)' = DocsFor(r, j) \cup (IF d.item = j THEN {n} ELSE {})
      /\ \A k \in DOMAIN run[r].docs : run'[r].docs[k] = run[r].docs[k] /\ k < n /\ k \in Nat
    BY AppendIs, Zenon
<1> HIDE DEF n
<1>2. Deleting(r)' <=> Deleting(r)
    BY Zenon DEF Deleting
<1>3. UNCHANGED <<hub, deleted, writes, writer>>
    BY Zenon DEF Quiet
<1>4. ASSUME NEW j \in Item
      PROVE  /\ Live(r, j)' => Live(r, j)
             /\ Wanted(j)' = Wanted(j) /\ (Current(j)' <=> Current(j))
    BY QuietLive, QuietSame, Zenon
<1>5. \A j \in Item : DocsFor(r, j) \subseteq DOMAIN run[r].docs
    BY DEF DocsFor
<1>6. ASSUME NEW j \in Item, NEW k \in DocsFor(r, j)' PROVE DocInOrder(r, j, k)'
    <2>1. CASE k = n
        <3>1. j = i /\ run'[r].docs[k] = d
            BY <1>1, <1>5, <1>6, <2>1, Zenon
        <3>2. ASSUME NEW m \in DocsFor(r, j)' PROVE ~(k < m)
            BY <1>1, <1>5, <2>1, <3>1
        <3> QED
            BY <1>2, <1>3, <1>4, <3>1, <3>2, Zenon DEF Fits, DocInOrder
    <2>2. CASE k # n
        <3>1. k \in DocsFor(r, j) /\ run'[r].docs[k] = run[r].docs[k]
            BY <1>1, <1>5, <1>6, <2>2, Zenon
        <3>2. DocInOrder(r, j, k)
            BY <3>1, Zenon DEF InOrder, DocsInOrder
        <3>3. ASSUME NEW m \in DocsFor(r, j)', k < m, hub'[j] # 0, j \notin deleted',
                     run'[r].docs[k].ver = hub'[j]
              PROVE  run'[r].docs[m].ver = hub'[j]
            <4>1. CASE m = n
                <5>1. j = i
                    BY <1>1, <1>5, <4>1, Zenon
                <5> QED
                    BY <1>1, <1>3, <3>1, <3>3, <4>1, <5>1, Zenon DEF Fits
            <4>2. CASE m # n
                <5>1. m \in DocsFor(r, j) /\ run'[r].docs[m] = run[r].docs[m]
                    BY <1>1, <1>5, <4>2, Zenon
                <5> QED
                    BY <1>3, <3>1, <3>2, <3>3, <5>1, Zenon DEF DocInOrder
            <4> QED
                BY <4>1, <4>2, Zenon
        <3> QED
            BY <1>2, <1>3, <1>4, <3>1, <3>2, <3>3, Zenon DEF DocInOrder
    <2> QED
        BY <2>1, <2>2, Zenon
<1>7. run'[r].at = Nobody /\ Ledgers(r)' # {} => run'[r].docs = <<>>
    BY Zenon
<1> QED
    BY <1>6, <1>7, Zenon DEF DocsInOrder

\* The rows of the documents, with one appended.
LEMMA HeldAppend ==
    ASSUME TypeOK, NEW r \in Run, NEW d \in Docs, NEW k,
           run'[r].docs = Append(run[r].docs, d), k \in DOMAIN run'[r].docs
    PROVE  run'[r].docs[k].row = d.row \/
           \E m \in DOMAIN run[r].docs : run'[r].docs[k].row = run[r].docs[m].row
<1>1. run[r].docs \in Seq(Docs)
    BY DEF TypeOK, Runs
<1> QED
    BY <1>1

\* The re-read of an item of the ledger row.
LEMMA ReadDocInOrder ==
    ASSUME TypeOK, InOrder, NEW r \in Run, NEW i \in run[r].ids, ReadDoc(r, i)
    PROVE  Quiet(r) /\ \A q \in Run : RunOK(q)'
<1> USE NumbersAssumption
<1> DEFINE o == run[r].at
           v == IF storage[o].op = "delete" THEN 0 ELSE hub[i]
           d == Doc(o, i, v)
<1>0. /\ run[r].pc = "work" /\ run[r].marks = {} /\ gate = r /\ o # Nobody /\ o \in Row
      /\ i \in Item /\ o \in Held(r) /\ o[2] = Ledger
      /\ UNCHANGED <<hub, deleted, writes, writer, storage, index, gate>>
    BY Zenon DEF ReadDoc, Marked, InOrder, RunInOrder, LedgerInOrder, TypeOK, Runs, Held
<1>1. CASE GiveUp(r, "retry")
    BY <1>0, <1>1, GiveUpInOrder
<1>2. CASE /\ ~(storage[o].op = "upsert" /\ i \in deleted)
           /\ run' = [run EXCEPT ![r].ids = @ \ {i}, ![r].docs = Append(@, d)]
    <2>1. d \in Docs /\ d.item = i /\ d.ver = v /\ d.row = o /\ v \in 0..MaxWrites
        BY <1>0 DEF Doc, Docs, TypeOK
    <2> HIDE DEF d
    <2>2. Becomes(r, "work", run[r].todo, o, run[r].ids \ {i}, Append(run[r].docs, d), run[r].marks)
        BY <1>0, <1>2, <2>1, ReadDocIs, Zenon
    <2>3. /\ run'[r].pc = "work" /\ run'[r].todo = run[r].todo /\ run'[r].at = o
          /\ run'[r].ids = run[r].ids \ {i} /\ run'[r].docs = Append(run[r].docs, d)
          /\ run'[r].marks = {} /\ \A q \in Run \ {r} : run'[q] = run[q]
        BY <1>0, <2>2, Zenon DEF Becomes
    <2>4. Quiet(r)
        BY <1>0, Zenon DEF Quiet, RowsKept
    <2>5. Held(r)' \subseteq Held(r)
        <3>1. ASSUME NEW k \in DOMAIN run'[r].docs PROVE run'[r].docs[k].row \in Held(r)
            <4>1. run'[r].docs[k].row = d.row \/
                  \E m \in DOMAIN run[r].docs : run'[r].docs[k].row = run[r].docs[m].row
                BY <2>1, <2>3, HeldAppend
            <4> QED
                BY <1>0, <2>1, <4>1, Zenon DEF Held
        <3> QED
            <4>1. ASSUME NEW q \in Held(r)' PROVE q \in Held(r)
                <5>1. \/ q \in run[r].todo \/ q = o
                      \/ \E k \in DOMAIN run'[r].docs : q = run'[r].docs[k].row
                    BY <2>3, Zenon DEF Held
                <5> QED
                    BY <1>0, <3>1, <5>1, Zenon DEF Held
            <4> QED
                BY <4>1, Zenon
    <2>6. storage[o].op \in {"upsert", "delete"} /\ (storage[o].op = "delete" <=> Deleting(r))
        BY <1>0, Zenon DEF TypeOK, Rows, Deleting
    <2>7. hub[i] = o[1] => o \in RowsOf(i)
        BY <1>0 DEF RowsOf
    <2>8. Live(r, i) => v = Wanted(i)
        <3>1. Live(r, i) => hub[i] = o[1]
            BY <1>0, Zenon DEF InOrder, LedgerInOrder
        <3>2. hub[i] = o[1] => (storage[o].op = "delete" <=> i \in deleted)
            BY <1>0, <2>7, HeldKind, Zenon
        <3> QED
            BY <3>1, <3>2 DEF Wanted
    <2>9. Current(i) => v = hub[i]
        BY <1>0, <2>6, Zenon DEF InOrder, LedgerInOrder
    <2>10. v <= writes /\ \A u \in Writer : i \in writer[u].left => v # writer[u].write
        <3>1. WritesInOrder /\ writes \in Nat
            BY DEF InOrder, TypeOK
        <3>2. \A u \in Writer : i \in writer[u].left => writer[u].write \in 1..writes
                                                        /\ writer[u].write # hub[i]
            BY <3>1 DEF WritesInOrder
        <3>3. hub[i] <= writes
            BY <1>0, <3>1, Zenon DEF WritesInOrder
        <3> QED
            BY <3>1, <3>2, <3>3
    <2>11. \A k \in DocsFor(r, i) :
              hub[i] # 0 /\ i \notin deleted /\ run[r].docs[k].ver = hub[i] => v = hub[i]
        <3>1. ASSUME NEW k \in DocsFor(r, i) PROVE Deleting(r) => run[r].docs[k].ver = 0
            BY <1>0, Zenon DEF InOrder, DocsInOrder, DocInOrder
        <3> QED
            BY <2>6, <3>1, Zenon
    <2>12. DocsInOrder(r)'
        <3>1. Fits(r, i, d)
            BY <1>0, <2>1, <2>6, <2>8, <2>9, <2>10, <2>11, Zenon DEF Fits
        <3> HIDE <1>2
        <3> QED
            BY <1>0, <2>1, <2>3, <2>4, <2>5, <3>1, AppendInOrder, Zenon
    <2>13. \A j \in Item : DocsFor(r, j) \subseteq DocsFor(r, j)' /\ DocsFor(r, i)' # {}
        <3>1. \A j \in Item : DocsFor(r, j)' = DocsFor(r, j) \cup
                (IF d.item = j THEN {Len(run[r].docs) + 1} ELSE {})
            BY <2>1, <2>3, AppendIs
        <3> QED
            BY <1>0, <2>1, <3>1, Zenon
    <2>14. ASSUME NEW j \in Item
           PROVE  /\ Live(r, j)' => Live(r, j)
                  /\ Wanted(j)' = Wanted(j) /\ (Current(j)' <=> Current(j))
        BY <2>4, <2>5, QuietLive, QuietSame, Zenon
    <2>15. LedgerInOrder(r)'
        <3>1. Deleting(r)' <=> Deleting(r)
            BY <1>0, <2>3, Zenon DEF Deleting
        <3>2. ASSUME NEW j \in run'[r].ids
              PROVE  /\ Live(r, j)' => hub'[j] = run'[r].at[1]
                     /\ Deleting(r)' => ~Current(j)'
            <4>1. j \in run[r].ids /\ j \in Item
                BY <2>3, Zenon DEF TypeOK, Runs
            <4> QED
                <5>1. (Live(r, j) => hub[j] = o[1]) /\ (Deleting(r) => ~Current(j))
                    BY <4>1, Zenon DEF InOrder, LedgerInOrder
                <5> QED
                    BY <1>0, <2>3, <2>14, <3>1, <4>1, <5>1, Zenon
        <3>3. ASSUME NEW j \in Item, hub'[j] = run'[r].at[1]
              PROVE  j \in run'[r].ids \/ DocsFor(r, j)' # {} \/ index'[j] = Wanted(j)'
            <4>1. j \in run[r].ids \/ DocsFor(r, j) # {} \/ index[j] = Wanted(j)
                BY <1>0, <2>3, <3>3, Zenon DEF InOrder, LedgerInOrder
            <4>2. index'[j] = index[j] /\ Wanted(j)' = Wanted(j)
                BY <1>0, <2>14, Zenon
            <4> QED
                BY <2>3, <2>13, <4>1, <4>2, Zenon
        <3> QED
            BY <1>0, <2>3, <3>2, <3>3, Zenon DEF LedgerInOrder
    <2>16. RunInOrder(r)'
        BY <1>0, <2>3, <2>4, <2>5, QuietHeld, Zenon DEF RunInOrder
    <2> QED
        BY <1>0, <2>3, <2>4, <2>12, <2>15, <2>16, OthersInOrder, Zenon DEF RunOK
<1> QED
    BY <1>1, <1>2, Zenon DEF ReadDoc

\* The re-read of the item of an entity row: an item that is gone has a newer row, for
\* its delete.
LEMMA ReadRowInOrder ==
    ASSUME TypeOK, InOrder, NEW r \in Run, NEW o \in run[r].todo, ReadRow(r, o)
    PROVE  Quiet(r) /\ \A q \in Run : RunOK(q)'
<1> USE NumbersAssumption
<1> DEFINE i == o[2]
           d == Doc(o, i, hub[i])
<1>0. /\ run[r].pc = "work" /\ run[r].marks = {} /\ gate = r /\ run[r].at = Nobody
      /\ run[r].ids = {} /\ o \in Held(r) /\ Ledgers(r) = {}
      /\ UNCHANGED <<hub, deleted, writes, writer, storage, index, gate>>
    BY Zenon DEF ReadRow, Marked, NoLedger, InOrder, RunInOrder, LedgerInOrder, Held
<1>1. /\ o \in Row /\ i \in Item
      /\ Becomes(r, "work", run[r].todo \ {o}, Nobody, run[r].ids,
                 IF i \in deleted THEN run[r].docs ELSE Append(run[r].docs, d),
                 IF i \in deleted THEN {<<o, "done">>} ELSE {})
    BY ReadRowIs, Zenon
<1>2. Quiet(r)
    BY <1>0 DEF Quiet, RowsKept
<1>3. CASE i \in deleted
    <2>1. /\ run'[r].pc = "work" /\ run'[r].todo = run[r].todo \ {o} /\ run'[r].at = Nobody
          /\ run'[r].ids = {} /\ run'[r].docs = run[r].docs /\ run'[r].marks = {<<o, "done">>}
          /\ \A q \in Run \ {r} : run'[q] = run[q]
        BY <1>0, <1>1, <1>3 DEF Becomes
    <2>2. Held(r)' \subseteq Held(r) /\ \A j \in Item : DocsFor(r, j)' = DocsFor(r, j)
        BY <1>0, <2>1 DEF Held, DocsFor
    <2>3. ASSUME NEW j \in Item, o \in RowsOf(j) PROVE FALSE
        <3>1. j = i
            BY <1>1, <2>3, ActorsAssumption DEF RowsOf
        <3> QED
            BY <1>0, <1>1, <1>3, <2>3, <3>1, HeldKind, ActorsAssumption
    <2>4. ASSUME NEW j \in Item
          PROVE  /\ Live(r, j)' => Live(r, j)
                 /\ RowsOf(j)' = RowsOf(j) /\ Wanted(j)' = Wanted(j)
                 /\ Current(j)' <=> Current(j)
        BY <1>2, <2>2, QuietLive, QuietSame, Zenon
    <2>5. RunInOrder(r)' /\ LedgerInOrder(r)'
        BY <1>0, <1>2, <2>1, <2>2, <2>3, <2>4, QuietHeld DEF RunInOrder, LedgerInOrder
    <2>6. Ledgers(r)' = {}
        BY <1>0, <2>1, Zenon DEF Ledgers
    <2>7. DocsInOrder(r)'
        <3>1. Deleting(r)' <=> Deleting(r)
            BY <1>0, <2>1, Zenon DEF Deleting
        <3>2. ASSUME NEW j \in Item, NEW k \in DocsFor(r, j) PROVE DocInOrder(r, j, k)'
            <4>1. DocInOrder(r, j, k)
                BY Zenon DEF InOrder, DocsInOrder
            <4> QED
                BY <1>0, <2>1, <2>2, <2>4, <3>1, <4>1, DocKept, Zenon
        <3> QED
            BY <2>2, <2>6, <3>2, Zenon DEF DocsInOrder
    <2> QED
        BY <1>0, <1>2, <2>1, <2>5, <2>7, OthersInOrder DEF RunOK
<1>4. CASE i \notin deleted
    <2>1. /\ run'[r].pc = "work" /\ run'[r].todo = run[r].todo \ {o} /\ run'[r].at = Nobody
          /\ run'[r].ids = {} /\ run'[r].docs = Append(run[r].docs, d) /\ run'[r].marks = {}
          /\ \A q \in Run \ {r} : run'[q] = run[q]
        BY <1>0, <1>1, <1>4, Zenon DEF Becomes
    <2>2. d \in Docs /\ d.item = i /\ d.ver = hub[i] /\ d.row = o
        BY <1>1, Zenon DEF Doc, Docs, TypeOK
    <2> HIDE DEF d
    <2>3. Held(r)' \subseteq Held(r)
        <3>1. ASSUME NEW k \in DOMAIN run'[r].docs PROVE run'[r].docs[k].row \in Held(r)
            <4>1. run'[r].docs[k].row = d.row \/
                  \E m \in DOMAIN run[r].docs : run'[r].docs[k].row = run[r].docs[m].row
                BY <2>1, <2>2, HeldAppend
            <4> QED
                BY <1>0, <2>2, <4>1, Zenon DEF Held
        <3> QED
            <4>1. ASSUME NEW q \in Held(r)' PROVE q \in Held(r)
                <5>1. \/ q \in run[r].todo
                      \/ \E k \in DOMAIN run'[r].docs : q = run'[r].docs[k].row
                    BY <2>1 DEF Held
                <5> QED
                    BY <1>0, <3>1, <5>1, Zenon DEF Held
            <4> QED
                BY <4>1, Zenon
    <2>4. RunInOrder(r)' /\ LedgerInOrder(r)'
        BY <1>0, <1>2, <2>1, <2>3, QuietHeld, Zenon DEF RunInOrder, LedgerInOrder
    <2>5. Ledgers(r)' = {}
        BY <1>0, <2>1, Zenon DEF Ledgers
    <2>6. /\ d.ver <= writes
          /\ \A u \in Writer : i \in writer[u].left => d.ver # writer[u].write
        <3>1. WritesInOrder
            BY DEF InOrder
        <3> QED
            BY <1>1, <2>2, <3>1 DEF WritesInOrder
    <2>7. Live(r, i) => d.ver = Wanted(i)
        BY <1>4, <2>2 DEF Wanted
    <2>8. DocsInOrder(r)'
        <3>1. \A k \in DocsFor(r, i) :
                hub[i] # 0 /\ i \notin deleted /\ run[r].docs[k].ver = hub[i] => d.ver = hub[i]
            BY <2>2, Zenon
        <3>2. Fits(r, i, d)
            BY <1>0, <2>2, <2>6, <2>7, <3>1, Zenon DEF Fits
        <3> QED
            BY <1>0, <1>1, <1>2, <2>1, <2>2, <2>3, <2>5, <3>2, AppendInOrder, Zenon
    <2> QED
        BY <1>0, <1>2, <2>1, <2>4, <2>8, OthersInOrder, Zenon DEF RunOK
<1> QED
    BY <1>3, <1>4

\* A bulk leaves an item alone that the index holds as it is.
LEMMA BulkCurrent ==
    ASSUME TypeOK, InOrder, NEW r \in Run, NEW n, NEW applied, Bulk(r, n, applied),
           NEW i \in Item
    PROVE  /\ Current(i) => index'[i] = index[i]
           /\ Current(i)' => Current(i) \/ \E k \in applied \cap DocsFor(r, i) :
                                              run[r].docs[k].ver = hub[i]
           /\ Live(r, i) /\ (index[i] = Wanted(i) \/ applied \cap DocsFor(r, i) # {})
                 => index'[i] = Wanted(i)
<1>1. \A k \in DocsFor(r, i) : /\ Current(i) => run[r].docs[k].ver = hub[i]
                               /\ Live(r, i) => run[r].docs[k].ver = Wanted(i)
    BY Zenon DEF InOrder, DocsInOrder, DocInOrder
<1>2. hub' = hub /\ deleted' = deleted
    BY DEF Bulk
<1> QED
    BY <1>1, <1>2, BulkIs DEF Current

\* A bulk leaves the done rows right: no document is older than a done row.
LEMMA BulkDone ==
    ASSUME TypeOK, InOrder, DoneMeansIndexed, NEW r \in Run, NEW n, NEW applied,
           Bulk(r, n, applied)
    PROVE  DoneMeansIndexed'
<1> SUFFICES ASSUME NEW i \in Item, NEW o \in RowsOf(i)', storage'[o].status = "done"
             PROVE  index'[i] = Wanted(i)'
    BY DEF DoneMeansIndexed
<1>1. o \in RowsOf(i) /\ storage[o].status = "done" /\ Wanted(i)' = Wanted(i)
    BY DEF Bulk, RowsOf, Wanted
<1>2. Live(r, i) /\ index[i] = Wanted(i)
    BY <1>1 DEF Live, DoneMeansIndexed
<1> QED
    BY <1>1, <1>2, BulkCurrent, Zenon

\* No row becomes live in a bulk, and what is wanted stays the same.
LEMMA BulkLive ==
    ASSUME TypeOK, NEW r \in Run, NEW n, NEW applied, Bulk(r, n, applied),
           Held(r)' \subseteq Held(r), NEW i \in Item
    PROVE  /\ Live(r, i)' => Live(r, i)
           /\ RowsOf(i)' = RowsOf(i) /\ Wanted(i)' = Wanted(i)
BY Zenon DEF Bulk, Live, RowsOf, Wanted

\* The documents left over are as they were, n places further on.
LEMMA RestDocs ==
    ASSUME TypeOK, NEW r \in Run, NEW n \in 1..Len(run[r].docs),
           run'[r].docs = Rest(run[r].docs, n), NEW i \in Item, NEW k \in DocsFor(r, i)'
    PROVE  /\ n + k \in DocsFor(r, i) /\ k \in Nat /\ n < n + k
           /\ run'[r].docs[k] = run[r].docs[n + k]
<1>1. run[r].docs \in Seq(Docs)
    BY DEF TypeOK, Runs
<1>2. /\ Rest(run[r].docs, n) \in Seq(Docs) /\ Len(Rest(run[r].docs, n)) = Len(run[r].docs) - n
      /\ \A m \in 1..(Len(run[r].docs) - n) : Rest(run[r].docs, n)[m] = run[r].docs[n + m]
    BY <1>1, RestIs, Zenon
<1>3. k \in 1..(Len(run[r].docs) - n) /\ run'[r].docs[k].item = i
    BY <1>2 DEF DocsFor
<1>4. n + k \in DOMAIN run[r].docs /\ k \in Nat /\ n < n + k
    BY <1>1, <1>3
<1>5. run'[r].docs[k] = run[r].docs[n + k]
    BY <1>2, <1>3, Zenon
<1> QED
    BY <1>3, <1>4, <1>5, Zenon DEF DocsFor

\* A document of the item that is not in the bulk is left.
LEMMA RestCovers ==
    ASSUME TypeOK, NEW r \in Run, NEW n \in 1..Len(run[r].docs),
           run'[r].docs = Rest(run[r].docs, n), NEW i \in Item, NEW k \in DocsFor(r, i),
           ~(k \in 1..n)
    PROVE  DocsFor(r, i)' # {}
<1>1. run[r].docs \in Seq(Docs) /\ k \in 1..Len(run[r].docs) /\ Len(run[r].docs) \in Nat
    BY DEF TypeOK, Runs, DocsFor
<1>2. /\ Rest(run[r].docs, n) \in Seq(Docs) /\ Len(Rest(run[r].docs, n)) = Len(run[r].docs) - n
      /\ \A m \in 1..(Len(run[r].docs) - n) : Rest(run[r].docs, n)[m] = run[r].docs[n + m]
    BY <1>1, RestIs, Zenon
<1>3. k - n \in 1..(Len(run[r].docs) - n) /\ n + (k - n) = k
    BY <1>1
<1>4. Rest(run[r].docs, n)[k - n] = run[r].docs[n + (k - n)]
    BY <1>2, <1>3, Zenon
<1>5. k - n \in DOMAIN Rest(run[r].docs, n)
    <2>1. DOMAIN Rest(run[r].docs, n) = 1..Len(Rest(run[r].docs, n))
        BY <1>2
    <2> QED
        BY <1>2, <1>3, <2>1, Zenon
<1>6. run'[r].docs[k - n].item = i
    BY <1>3, <1>4 DEF DocsFor
<1> QED
    BY <1>5, <1>6 DEF DocsFor

\* The documents left over are in order, under the index as it is after the bulk.
LEMMA RestInOrder ==
    ASSUME TypeOK, InOrder, NEW r \in Run, NEW n, NEW applied, Bulk(r, n, applied),
           Held(r)' \subseteq Held(r), run'[r].docs = Rest(run[r].docs, n),
           run'[r].at = run[r].at, run[r].at = Nobody => Ledgers(r)' = {}
    PROVE  DocsInOrder(r)'
<1>0. n \in 1..Len(run[r].docs) /\ UNCHANGED <<hub, deleted, writes, writer, storage>>
    BY DEF Bulk
<1>1. ASSUME NEW i \in Item
      PROVE  (Live(r, i)' => Live(r, i)) /\ Wanted(i)' = Wanted(i)
    BY BulkLive, Zenon
<1>2. Deleting(r)' <=> Deleting(r)
    BY <1>0 DEF Deleting
<1>3. ASSUME NEW i \in Item, NEW k \in DocsFor(r, i)'
      PROVE  DocInOrder(r, i, k)'
    <2>1. n + k \in DocsFor(r, i) /\ k \in Nat /\ n < n + k /\ run'[r].docs[k] = run[r].docs[n + k]
        BY <1>0, RestDocs, Zenon
    <2>0. DocInOrder(r, i, n + k)
        BY <2>1, Zenon DEF InOrder, DocsInOrder
    <2>2. /\ IF run'[r].at = Nobody THEN run'[r].docs[k].row[2] = i
             ELSE Deleting(r)' => run'[r].docs[k].ver = 0
          /\ run'[r].docs[k].ver <= writes'
          /\ \A u \in Writer : i \in writer'[u].left => run'[r].docs[k].ver # writer'[u].write
          /\ Live(r, i)' => run'[r].docs[k].ver = Wanted(i)'
        BY <1>0, <1>1, <1>2, <2>0, <2>1, Zenon DEF DocInOrder
    <2>3. ASSUME NEW m \in DocsFor(r, i)', k < m, hub'[i] # 0, i \notin deleted',
                 run'[r].docs[k].ver = hub'[i]
          PROVE  run'[r].docs[m].ver = hub'[i]
        <3>1. n + m \in DocsFor(r, i) /\ m \in Nat /\ run'[r].docs[m] = run[r].docs[n + m]
            BY <1>0, RestDocs, Zenon
        <3>2. n + k < n + m
            BY <1>0, <2>1, <2>3, <3>1
        <3> QED
            BY <1>0, <2>0, <2>1, <2>3, <3>1, <3>2, Zenon DEF DocInOrder
    <2>4. ASSUME Current(i)' PROVE run'[r].docs[k].ver = hub'[i]
        <3>1. CASE Current(i)
            BY <1>0, <2>0, <2>1, <3>1, Zenon DEF DocInOrder
        <3>2. CASE \E j \in applied \cap DocsFor(r, i) : run[r].docs[j].ver = hub[i]
            <4>1. PICK j \in applied \cap DocsFor(r, i) : run[r].docs[j].ver = hub[i]
                BY <3>2, Zenon
            <4>2. j \in 1..n /\ n \in Nat /\ hub[i] # 0 /\ i \notin deleted
                <5>1. hub[i] # 0 /\ i \notin deleted /\ applied \in SUBSET (1..n)
                    BY <2>4, Zenon DEF Bulk, Current
                <5>2. n \in Nat
                    BY <1>0
                <5> QED
                    BY <5>1, <5>2, Zenon
            <4>3. j < n + k
                BY <2>1, <4>2
            <4>4. DocInOrder(r, i, j)
                BY <4>1, Zenon DEF InOrder, DocsInOrder
            <4> QED
                BY <1>0, <2>1, <4>1, <4>2, <4>3, <4>4, Zenon DEF DocInOrder
        <3> QED
            BY <2>4, <3>1, <3>2, BulkCurrent, Zenon
    <2> QED
        BY <2>2, <2>3, <2>4, Zenon DEF DocInOrder
<1>4. run'[r].at = Nobody /\ Ledgers(r)' # {} => run'[r].docs = <<>>
    OBVIOUS
<1> QED
    BY <1>3, <1>4, Zenon DEF DocsInOrder

\* Their rows were held before.
LEMMA RestHeld ==
    ASSUME TypeOK, NEW r \in Run, NEW n \in 1..Len(run[r].docs),
           run'[r].docs = Rest(run[r].docs, n), NEW k \in DOMAIN run'[r].docs
    PROVE  run'[r].docs[k].row \in Held(r)
<1>1. run[r].docs \in Seq(Docs) /\ Len(run[r].docs) \in Nat
    BY DEF TypeOK, Runs
<1>2. /\ Rest(run[r].docs, n) \in Seq(Docs) /\ Len(Rest(run[r].docs, n)) = Len(run[r].docs) - n
      /\ \A m \in 1..(Len(run[r].docs) - n) : Rest(run[r].docs, n)[m] = run[r].docs[n + m]
    BY <1>1, RestIs, Zenon
<1>3. k \in 1..(Len(run[r].docs) - n)
    BY <1>2
<1>4. n + k \in DOMAIN run[r].docs
    BY <1>1, <1>3
<1>5. run'[r].docs[k] = run[r].docs[n + k]
    BY <1>2, <1>3, Zenon
<1> QED
    BY <1>4, <1>5, Zenon DEF Held

\* Of the ledger row in hand: the documents sent are in the index, the others are left.
LEMMA LedgerSent ==
    ASSUME TypeOK, InOrder, NEW r \in Run, NEW n, Bulk(r, n, 1..n), run[r].at # Nobody,
           run[r].ids = {}, NEW i \in Item, hub[i] = run[r].at[1]
    PROVE  index'[i] = Wanted(i) \/ \E k \in DocsFor(r, i) : ~(k \in 1..n)
<1>1. /\ run[r].at[2] = Ledger /\ run[r].at \in Row /\ run[r].at \in Held(r)
      /\ DocsFor(r, i) # {} \/ index[i] = Wanted(i)
    BY Zenon DEF InOrder, LedgerInOrder, TypeOK, Runs, Held
<1>2. Live(r, i)
    BY <1>1, Zenon DEF Live, RowsOf
<1> QED
    BY <1>1, <1>2, BulkCurrent, Zenon

\* A bulk of the ledger row that is not the last.
LEMMA SentPartInOrder ==
    ASSUME TypeOK, InOrder, NEW r \in Run, NEW n, Bulk(r, n, 1..n), Marked(r), ~NoLedger(r),
           run[r].ids = {},
           Becomes(r, "work", run[r].todo, run[r].at, run[r].ids, Rest(run[r].docs, n),
                   run[r].marks)
    PROVE  \A q \in Run : RunOK(q)'
<1>0. /\ run[r].pc = "work" /\ run[r].marks = {} /\ gate = r /\ run[r].at # Nobody
      /\ n \in 1..Len(run[r].docs) /\ UNCHANGED <<hub, deleted, storage, gate>>
    BY Zenon DEF Marked, NoLedger, InOrder, RunInOrder, Bulk
<1>1. /\ run'[r].pc = "work" /\ run'[r].todo = run[r].todo /\ run'[r].at = run[r].at
      /\ run'[r].ids = {} /\ run'[r].docs = Rest(run[r].docs, n) /\ run'[r].marks = {}
      /\ \A q \in Run \ {r} : run'[q] = run[q]
    BY <1>0, Zenon DEF Becomes
<1>2. Held(r)' \subseteq Held(r)
    <2>1. \A k \in DOMAIN run'[r].docs : run'[r].docs[k].row \in Held(r)
        BY <1>0, <1>1, RestHeld, Zenon
    <2> QED
        BY <1>1, <2>1 DEF Held
<1>3. RunInOrder(r)'
    BY <1>0, <1>1, <1>2, Zenon DEF InOrder, RunInOrder, Exists
<1>4. ASSUME NEW i \in Item, hub'[i] = run'[r].at[1]
      PROVE  DocsFor(r, i)' # {} \/ index'[i] = Wanted(i)'
    <2>1. hub[i] = run[r].at[1] /\ Wanted(i)' = Wanted(i)
        BY <1>0, <1>1, <1>4, Zenon DEF Wanted
    <2>2. index'[i] = Wanted(i) \/ \E k \in DocsFor(r, i) : ~(k \in 1..n)
        BY <1>0, <2>1, LedgerSent, Zenon
    <2> QED
        BY <1>0, <1>1, <2>1, <2>2, RestCovers, Zenon
<1>5. LedgerInOrder(r)'
    BY <1>0, <1>1, <1>4, Zenon DEF InOrder, LedgerInOrder
<1>6. DocsInOrder(r)'
    BY <1>0, <1>1, <1>2, RestInOrder, Zenon
<1> QED
    BY <1>0, <1>1, <1>3, <1>5, <1>6, OthersInOrder, Zenon DEF RunOK

\* The bulk that ends the ledger row: it is done only if every document passed.
LEMMA LedgerEndInOrder ==
    ASSUME TypeOK, InOrder, NEW r \in Run, NEW n, NEW applied, Bulk(r, n, applied),
           Marked(r), ~NoLedger(r), run[r].ids = {}, NEW mark \in {"done", "retry", "dead"},
           mark = "done" => n = Len(run[r].docs) /\ applied = 1..n,
           Becomes(r, "work", run[r].todo, Nobody, {}, <<>>, {<<run[r].at, mark>>})
    PROVE  \A q \in Run : RunOK(q)'
<1>0. /\ run[r].pc = "work" /\ gate = r /\ run[r].at # Nobody
      /\ UNCHANGED <<hub, deleted, storage, gate>>
    BY Zenon DEF Marked, NoLedger, InOrder, RunInOrder, Bulk
<1>1. /\ run'[r].pc = "work" /\ run'[r].todo = run[r].todo /\ run'[r].at = Nobody
      /\ run'[r].ids = {} /\ run'[r].docs = <<>> /\ run'[r].marks = {<<run[r].at, mark>>}
      /\ \A q \in Run \ {r} : run'[q] = run[q]
    BY Zenon DEF Becomes
<1>2. DOMAIN run'[r].docs = {}
    BY <1>1
<1>3. Held(r)' \subseteq Held(r) /\ \A i \in Item : DocsFor(r, i)' = {}
    BY <1>0, <1>1, <1>2 DEF Held, DocsFor
<1>4. ASSUME mark = "done", NEW i \in Item, run[r].at \in RowsOf(i)'
      PROVE  index'[i] = Wanted(i)'
    <2>1. hub[i] = run[r].at[1] /\ Wanted(i)' = Wanted(i)
        BY <1>0, <1>4, Zenon DEF Wanted, RowsOf
    <2>2. run[r].docs \in Seq(Docs) /\ Bulk(r, n, 1..n)
        BY <1>4, Zenon DEF TypeOK, Runs
    <2>3. index'[i] = Wanted(i) \/ \E k \in DocsFor(r, i) : ~(k \in 1..n)
        BY <1>0, <2>1, <2>2, LedgerSent, Zenon
    <2> QED
        BY <1>4, <2>1, <2>2, <2>3 DEF DocsFor
<1>5. RunInOrder(r)'
    <2>1. \A m \in run'[r].marks : m[1] = run[r].at /\ m[2] = mark
        BY <1>1
    <2> QED
        BY <1>0, <1>1, <1>3, <1>4, <2>1, Zenon DEF InOrder, RunInOrder, Exists
<1>6. LedgerInOrder(r)' /\ DocsInOrder(r)'
    BY <1>1, <1>3, Zenon DEF LedgerInOrder, DocsInOrder
<1> QED
    BY <1>0, <1>1, <1>5, <1>6, OthersInOrder, Zenon DEF RunOK

\* The marks of entity rows: "done" only for a document that is in the index.
MarksFor(r, n, applied, marks) ==
    \A m \in marks : \E k \in 1..n : /\ m[1] = run[r].docs[k].row
                                     /\ m[2] = "done" => k \in applied

\* A bulk of entity rows: a row is done only if its document passed.
LEMMA SentRowsInOrder ==
    ASSUME TypeOK, InOrder, NEW r \in Run, NEW n, NEW applied, Bulk(r, n, applied),
           Marked(r), NoLedger(r), NEW marks, MarksFor(r, n, applied, marks),
           Becomes(r, "work", run[r].todo, run[r].at, run[r].ids, Rest(run[r].docs, n), marks)
    PROVE  \A q \in Run : RunOK(q)'
<1>0. /\ run[r].pc = "work" /\ gate = r /\ run[r].at = Nobody /\ run[r].ids = {}
      /\ n \in 1..Len(run[r].docs) /\ UNCHANGED <<hub, deleted, storage, gate>>
    BY Zenon DEF Marked, NoLedger, InOrder, RunInOrder, LedgerInOrder, Bulk
<1>1. /\ run'[r].pc = "work" /\ run'[r].todo = run[r].todo /\ run'[r].at = Nobody
      /\ run'[r].ids = {} /\ run'[r].docs = Rest(run[r].docs, n) /\ run'[r].marks = marks
      /\ \A q \in Run \ {r} : run'[q] = run[q]
    BY <1>0, Zenon DEF Becomes
<1>2. run[r].docs \in Seq(Docs) /\ 1..n \subseteq DOMAIN run[r].docs /\ run[r].docs # <<>>
    BY <1>0 DEF TypeOK, Runs
<1>3. \A k \in 1..n : run[r].docs[k].row \in Held(r)
    BY <1>2, Zenon DEF Held
<1>4. Held(r)' \subseteq Held(r)
    <2>1. \A k \in DOMAIN run'[r].docs : run'[r].docs[k].row \in Held(r)
        BY <1>0, <1>1, RestHeld, Zenon
    <2>2. \A m \in marks : m[1] \in Held(r)
        BY <1>3, Zenon DEF MarksFor
    <2> QED
        <3>1. ASSUME NEW q \in Held(r)' PROVE q \in Held(r)
            <4>1. \/ q \in run[r].todo
                  \/ \E k \in DOMAIN run'[r].docs : q = run'[r].docs[k].row
                  \/ \E m \in marks : q = m[1]
                BY <1>0, <1>1, Zenon DEF Held
            <4> QED
                BY <2>1, <2>2, <4>1, Zenon DEF Held
        <3> QED
            BY <3>1, Zenon
<1>5. ASSUME NEW m \in marks, m[2] = "done", NEW i \in Item, m[1] \in RowsOf(i)'
      PROVE  index'[i] = Wanted(i)'
    <2>1. PICK k \in 1..n : m[1] = run[r].docs[k].row /\ k \in applied
        BY <1>5, Zenon DEF MarksFor
    <2>2. run[r].docs[k] \in Docs
        BY <1>2
    <2> DEFINE j == run[r].docs[k].item
    <2>3. j \in Item /\ k \in DocsFor(r, j)
        BY <1>2, <2>2, Zenon DEF Docs, DocsFor
    <2>4. m[1][2] = j
        <3>1. DocInOrder(r, j, k)
            BY <2>3, Zenon DEF InOrder, DocsInOrder
        <3> QED
            BY <1>0, <2>1, <3>1, Zenon DEF DocInOrder
    <2>5. m[1] \in RowsOf(i) /\ i = j /\ Wanted(i)' = Wanted(i)
        BY <1>0, <1>5, <2>3, <2>4, ActorsAssumption, Zenon DEF RowsOf, Wanted
    <2>6. Live(r, i)
        BY <1>3, <2>1, <2>5, Zenon DEF Live
    <2> QED
        BY <2>1, <2>3, <2>5, <2>6, BulkCurrent, Zenon
<1>6. RunInOrder(r)' /\ LedgerInOrder(r)'
    BY <1>0, <1>1, <1>4, <1>5, Zenon DEF InOrder, RunInOrder, LedgerInOrder, Exists
<1>7. Ledgers(r)' = {}
    <2>1. Ledgers(r) = {}
        BY <1>0, <1>2, Zenon DEF InOrder, DocsInOrder
    <2> QED
        BY <1>1, <2>1, Zenon DEF Ledgers
<1>8. DocsInOrder(r)'
    BY <1>0, <1>1, <1>4, <1>7, RestInOrder, Zenon
<1> QED
    BY <1>0, <1>1, <1>6, <1>8, OthersInOrder, Zenon DEF RunOK

\* Every bulk.
LEMMA FlushInOrder ==
    ASSUME TypeOK, InOrder, NEW r \in Run, Flush(r)
    PROVE  /\ \E n : \E applied : Bulk(r, n, applied)
           /\ \A q \in Run : RunOK(q)'
<1>1. PICK n \in 1..Len(run[r].docs) : \E verdict \in Verdicts(n) :
        \E applied \in MayApply(verdict) :
            FlushLedger(r, n, verdict, applied) \/ FlushRows(r, n, verdict, applied)
    BY DEF Flush
<1>2. PICK verdict \in Verdicts(n) : \E applied \in MayApply(verdict) :
            FlushLedger(r, n, verdict, applied) \/ FlushRows(r, n, verdict, applied)
    BY <1>1
<1>3. PICK applied \in MayApply(verdict) :
            FlushLedger(r, n, verdict, applied) \/ FlushRows(r, n, verdict, applied)
    BY <1>2
<1>4. /\ applied \in SUBSET (1..n) /\ DOMAIN verdict = 1..n
      /\ \A k \in 1..n : verdict[k] \in {"passed", "transient", "poison"}
      /\ \A k \in 1..n : verdict[k] = "passed" => k \in applied
    BY DEF MayApply, Verdicts
<1>5. run[r].docs \in Seq(Docs) /\ Len(run[r].docs) \in Nat /\ run[r].at \in Row \cup {Nobody}
    BY DEF TypeOK, Runs
<1>6. Bulk(r, n, applied)
    BY <1>3, <1>4, Zenon DEF Bulk, FlushLedger, FlushRows
<1>7. CASE FlushLedger(r, n, verdict, applied)
    <2>1. /\ Marked(r) /\ ~NoLedger(r) /\ run[r].ids = {} /\ run[r].pc = "work"
          /\ run[r].at \in Row
        BY <1>5, <1>7 DEF FlushLedger, Marked, NoLedger
    <2>2. AllPassed(verdict) => applied = 1..n
        BY <1>4, Zenon DEF AllPassed
    <2>3. CASE AllPassed(verdict) /\ n < Len(run[r].docs)
        <3>1. run' = [run EXCEPT ![r].docs = Rest(@, n)]
            BY <1>7, <2>3 DEF FlushLedger
        <3>2. Becomes(r, "work", run[r].todo, run[r].at, run[r].ids, Rest(run[r].docs, n),
                      run[r].marks)
            BY <2>1, <3>1, SentPartIs, Zenon
        <3> HIDE <3>1, <1>3, <1>7
        <3> QED
            BY <1>6, <2>1, <2>2, <2>3, <3>2, SentPartInOrder, Zenon
    <2>4. CASE ~(AllPassed(verdict) /\ n < Len(run[r].docs))
        <3> DEFINE mark == Outcome(Values(verdict))
        <3>1. mark \in {"done", "retry", "dead"} /\ GiveUp(r, mark)
            BY <1>7, <2>4, OutcomeType DEF FlushLedger
        <3>2. mark = "done" => AllPassed(verdict)
            BY <1>4 DEF Outcome, Values, AllPassed
        <3>3. mark = "done" => n = Len(run[r].docs) /\ applied = 1..n
            BY <1>5, <2>2, <2>4, <3>2
        <3> HIDE DEF mark
        <3>4. Becomes(r, "work", run[r].todo, Nobody, {}, <<>>, {<<run[r].at, mark>>})
            BY <2>1, <3>1, GiveUpIs, Zenon
        <3> QED
            BY <1>6, <2>1, <3>1, <3>3, <3>4, LedgerEndInOrder, Zenon
    <2> QED
        BY <1>6, <2>3, <2>4
<1>8. CASE FlushRows(r, n, verdict, applied)
    <2>1. Marked(r) /\ NoLedger(r) /\ run[r].pc = "work"
        BY <1>8 DEF FlushRows, Marked
    <2> DEFINE marks == RowMarks(run[r].docs, verdict, n)
    <2>2. marks \in SUBSET (Row \X {"done", "retry", "dead"})
        BY <1>5, MarksType
    <2>3. run' = [run EXCEPT ![r].docs = Rest(@, n), ![r].marks = marks]
        BY <1>8 DEF FlushRows
    <2>4. ASSUME NEW k \in 1..n, RowOutcome(run[r].docs, verdict, k) = "done"
          PROVE  k \in applied
        <3>1. verdict[k] \in {verdict[m] : m \in
                   {p \in DOMAIN verdict : run[r].docs[p].item = run[r].docs[k].item}}
            BY <1>4
        <3>2. Outcome({verdict[m] : m \in
                   {p \in DOMAIN verdict : run[r].docs[p].item = run[r].docs[k].item}}) = "done"
            BY <2>4, Zenon DEF RowOutcome
        <3>3. verdict[k] = "passed"
            BY <1>4, <3>1, <3>2, Zenon DEF Outcome
        <3> QED
            BY <1>4, <3>3
    <2>5. MarksFor(r, n, applied, marks)
        BY <2>4 DEF MarksFor, RowMarks
    <2> HIDE DEF marks
    <2>6. Becomes(r, "work", run[r].todo, run[r].at, run[r].ids, Rest(run[r].docs, n), marks)
        BY <2>1, <2>2, <2>3, SentIs, Zenon
    <2>7. \A q \in Run : RunOK(q)'
        <3> HIDE <2>3, <1>3, <1>8
        <3> QED
            BY <1>6, <2>1, <2>5, <2>6, SentRowsInOrder, Zenon
    <2> QED
        BY <1>6, <2>7
<1> QED
    BY <1>3, <1>7, <1>8

\* A read that raises.
LEMMA ReadFailsInOrder ==
    ASSUME TypeOK, InOrder, NEW r \in Run, ReadFails(r)
    PROVE  Quiet(r) /\ \A q \in Run : RunOK(q)'
<1>0. /\ Marked(r) /\ run[r].pc = "work" /\ run[r].at \in Row \cup {Nobody}
      /\ UNCHANGED <<hub, deleted, writes, writer, storage, index, gate>>
    BY DEF ReadFails, Marked, TypeOK, Runs
<1>1. CASE run[r].ids # {} /\ GiveUp(r, "retry")
    <2>1. run[r].at \in Row
        BY <1>0, <1>1, Zenon DEF InOrder, LedgerInOrder
    <2> QED
        BY <1>0, <1>1, <2>1, GiveUpInOrder, Zenon
<1>2. ASSUME NEW o \in run[r].todo, NoLedger(r),
             run' = [run EXCEPT ![r].todo = @ \ {o}, ![r].marks = {<<o, "retry">>}]
      PROVE  Quiet(r) /\ \A q \in Run : RunOK(q)'
    <2>1. Becomes(r, "work", run[r].todo \ {o}, run[r].at, run[r].ids, run[r].docs,
                  {<<o, "retry">>})
        BY <1>0, <1>2, DropRowIs, Zenon
    <2> HIDE <1>2
    <2>2. NoLedger(r)
        BY <1>2
    <2> QED
        BY <1>0, <2>1, <2>2, DropRowInOrder, Zenon
<1> QED
    BY <1>1, <1>2, Zenon DEF ReadFails, Ledgers

\* A step of a drain changes the index only by a bulk.
LEMMA RunStep ==
    ASSUME TypeOK, InOrder, NEW r \in Run, Gated(r), Start(r) \/ Step(r) \/ Trouble(r)
    PROVE  /\ \A q \in Run : RunOK(q)'
           /\ Quiet(r) \/ \E n : \E applied : Bulk(r, n, applied)
<1>1. CASE Start(r)
    BY <1>1, StartInOrder
<1>2. CASE Flush(r)
    BY <1>2, FlushInOrder
<1>3. CASE Again(r)
    BY <1>3, AgainInOrder
<1>4. CASE HandOff(r) \/ Finish(r) \/ Crash(r)
    <2>1. run[r].pc # "idle" /\ Leave(r) /\ UNCHANGED <<hub, deleted, writes, writer, storage, index>>
        BY <1>4 DEF HandOff, Finish, Crash, BatchOver, Marked
    <2> QED
        BY <2>1, LeaveInOrder, Zenon
<1>5. ASSUME NEW S \in SUBSET Row, Claim(r, S)
      PROVE  Quiet(r) /\ \A q \in Run : RunOK(q)'
    BY <1>5, ClaimInOrder
<1>6. ASSUME NEW S \in SUBSET Row, NEW Dead \in SUBSET S, ClaimUnresolved(r, S, Dead)
      PROVE  Quiet(r) /\ \A q \in Run : RunOK(q)'
    BY <1>6, ClaimUnresolvedInOrder, Zenon
<1>7. ASSUME NEW o \in run[r].todo, ReadLedger(r, o) \/ ReadRow(r, o)
      PROVE  Quiet(r) /\ \A q \in Run : RunOK(q)'
    BY <1>7, ReadLedgerInOrder, ReadRowInOrder, Zenon
<1>8. ASSUME NEW i \in run[r].ids, ReadDoc(r, i)
      PROVE  Quiet(r) /\ \A q \in Run : RunOK(q)'
    BY <1>8, ReadDocInOrder, Zenon
<1>9. ASSUME NEW m \in run[r].marks, Mark(r, m)
      PROVE  Quiet(r) /\ \A q \in Run : RunOK(q)'
    BY <1>9, MarkInOrder
<1>10. CASE ReadFails(r)
    BY <1>10, ReadFailsInOrder
<1> QED
    BY <1>1, <1>2, <1>3, <1>4, <1>5, <1>6, <1>7, <1>8, <1>9, <1>10, Zenon
       DEF Step, Trouble, Claims

\* Every step keeps the types.
LEMMA TypeNext ==
    ASSUME TypeOK, InOrder, Next
    PROVE  TypeOK'
<1>1. \A r \in Run : run[r].ids # {} => run[r].at # Nobody
    BY Zenon DEF InOrder, LedgerInOrder
<1> QED
    BY <1>1, TypeWriting, TypeDeleteItem, TypeSweep, TypeRun DEF Next

\* The invariant is inductive when every run passes the gate.
LEMMA NextInOrder ==
    ASSUME TypeOK, InOrder, DoneMeansIndexed, Next, \A r \in Run : Gated(r)
    PROVE  TypeOK' /\ InOrder' /\ DoneMeansIndexed'
<1>0. TypeOK'
    BY TypeNext
<1>1. CASE \/ \E u \in Writer : Writing(u)
           \/ \E i \in Item : DeleteItem(i)
           \/ Sweep
    <2>1. WritesInOrder' /\ RowsInOrder' /\ Wrote
        BY <1>0, <1>1, InOrderRecorded, WriteStep
    <2>2. \A r \in Run : RunInOrder(r)' /\ LedgerInOrder(r)' /\ DocsInOrder(r)'
        BY <1>0, <2>1, WroteRun DEF InOrder
    <2> QED
        BY <1>0, <2>1, <2>2, WroteDone DEF InOrder
<1>2. ASSUME NEW r \in Run, Start(r) \/ Step(r) \/ Trouble(r)
      PROVE  TypeOK' /\ InOrder' /\ DoneMeansIndexed'
    <2>1. /\ \A q \in Run : RunOK(q)'
          /\ Quiet(r) \/ \E n : \E applied : Bulk(r, n, applied)
        BY <1>2, RunStep
    <2>2. WritesInOrder' /\ RowsInOrder' /\ DoneMeansIndexed'
        BY <2>1, QuietInOrder, InOrderRecorded, BulkWrites, BulkDone
    <2> QED
        BY <1>0, <2>1, <2>2 DEF InOrder, RunOK
<1> QED
    BY <1>1, <1>2 DEF Next

\* No step but a write of the item changes what the index holds of it, once it holds it
\* as it is.
LEMMA NextCurrent ==
    ASSUME TypeOK, InOrder, Next, \A r \in Run : Gated(r), NEW i \in Item,
           Current(i), hub'[i] = hub[i]
    PROVE  index'[i] = index[i]
<1>1. CASE \/ \E u \in Writer : Writing(u)
           \/ \E j \in Item : DeleteItem(j)
           \/ Sweep
    BY <1>1, TypeNext, InOrderRecorded, WriteStep, Zenon DEF Wrote
<1>2. ASSUME NEW r \in Run, Start(r) \/ Step(r) \/ Trouble(r)
      PROVE  index'[i] = index[i]
    <2>1. Quiet(r) \/ \E n : \E applied : Bulk(r, n, applied)
        BY <1>2, RunStep, Zenon
    <2> QED
        BY <2>1, BulkCurrent, Zenon DEF Quiet
<1> QED
    BY <1>1, <1>2, Zenon DEF Next

\* A stutter changes nothing.
LEMMA StutterInOrder ==
    ASSUME TypeOK, InOrder, DoneMeansIndexed, UNCHANGED vars
    PROVE  TypeOK' /\ InOrder' /\ DoneMeansIndexed'
<1>0. UNCHANGED <<hub, deleted, writes, writer, storage, run, index, gate>>
    BY DEF vars
<1>1. TypeOK'
    BY DEF vars, TypeOK
<1>2. /\ \A i : RowsOf(i)' = RowsOf(i) /\ Wanted(i)' = Wanted(i)
                 /\ (Current(i)' <=> Current(i))
      /\ \A o : Exists(o)' <=> Exists(o)
    BY <1>0, Zenon DEF RowsOf, Wanted, Current, Exists
<1>3. WritesInOrder' /\ RowsInOrder' /\ DoneMeansIndexed'
    <2>1. WritesInOrder' /\ RowsInOrder'
        BY <1>0, <1>2, Zenon DEF InOrder, WritesInOrder, RowsInOrder
    <2>2. DoneMeansIndexed'
        BY <1>0, <1>2, Zenon DEF DoneMeansIndexed
    <2> QED
        BY <2>1, <2>2
<1>4. ASSUME NEW r \in Run PROVE RunInOrder(r)' /\ LedgerInOrder(r)' /\ DocsInOrder(r)'
    <2>1. /\ Held(r)' = Held(r) /\ Ledgers(r)' = Ledgers(r) /\ (Empty(r)' <=> Empty(r))
          /\ (Deleting(r)' <=> Deleting(r))
        BY <1>0, Zenon DEF Held, Ledgers, Empty, Deleting
    <2>2. \A i : DocsFor(r, i)' = DocsFor(r, i) /\ (Live(r, i)' <=> Live(r, i))
        BY <1>0, <1>2, <2>1, Zenon DEF DocsFor, Live
    <2>3. RunInOrder(r)' /\ LedgerInOrder(r)'
        <3>1. RunInOrder(r) /\ LedgerInOrder(r)
            BY Zenon DEF InOrder
        <3>2. RunInOrder(r)'
            BY <1>0, <1>2, <2>1, <3>1, Zenon DEF RunInOrder
        <3>3. LedgerInOrder(r)'
            BY <1>0, <1>2, <2>1, <2>2, <3>1, Zenon DEF LedgerInOrder
        <3> QED
            BY <3>2, <3>3
    <2>4. ASSUME NEW i \in Item, NEW k \in DocsFor(r, i) PROVE DocInOrder(r, i, k)'
        <3>1. DocInOrder(r, i, k)
            BY Zenon DEF InOrder, DocsInOrder
        <3> QED
            BY <1>0, <1>2, <2>1, <2>2, <3>1, DocKept, Zenon
    <2>5. DocsInOrder(r)'
        BY <1>0, <2>1, <2>2, <2>4, Zenon DEF InOrder, DocsInOrder
    <2> QED
        BY <2>3, <2>5
<1> QED
    BY <1>1, <1>3, <1>4, Zenon DEF InOrder

----------------------------------------------------------------------------
\* When every drain passes the gate (no offload run, none that fails open), the rows, the
\* documents in hand and the index are always in order: the invariant the two results
\* below rest on.
THEOREM IndexInOrder ==
    ASSUME Offload = {}, FailOpen = {}
    PROVE  Spec => [](TypeOK /\ InOrder /\ DoneMeansIndexed)
<1>0. \A r \in Run : Gated(r)
    BY DEF Gated
<1>1. Init => TypeOK /\ InOrder /\ DoneMeansIndexed
    BY InitType, InitInOrder
<1>2. TypeOK /\ InOrder /\ DoneMeansIndexed /\ [Next]_vars
        => (TypeOK /\ InOrder /\ DoneMeansIndexed)'
    BY <1>0, NextInOrder, StutterInOrder
<1> QED
    BY <1>1, <1>2, PTL DEF Spec

\* A row of tasks.storage that _mark_done has closed has done its work, for any number of
\* items, writers, drains, writes and faults, as long as every drain passes the gate.
THEOREM DoneIsIndexed ==
    ASSUME Offload = {}, FailOpen = {}
    PROVE  Spec => []DoneMeansIndexed
BY IndexInOrder, PTL

\* Under the same assumption no drain replaces or removes the document of an item the
\* index holds as it is: a retried or reclaimed row re-reads the item, and an older
\* document is never in hand then.
THEOREM IndexStays ==
    ASSUME Offload = {}, FailOpen = {}
    PROVE  Spec => IndexedStays
<1>0. \A r \in Run : Gated(r)
    BY DEF Gated
<1>1. TypeOK /\ InOrder /\ [Next]_vars
        => [\A i \in Item :
              hub[i] # 0 /\ i \notin deleted /\ index[i] = hub[i] /\ hub'[i] = hub[i]
                 => index'[i] = index[i]]_vars
    BY <1>0, NextCurrent DEF Current
<1> QED
    BY <1>1, IndexInOrder, PTL DEF Spec, IndexedStays
============================================================================
