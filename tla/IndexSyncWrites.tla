------------------------- MODULE IndexSyncWrites -------------------------
(* What the steps of IndexSync write (the types, and each step of a drain field by   *)
(* field), that its writes, deletes and sweeps keep the inductive invariant InOrder  *)
(* whatever the drains have in hand, and what holds of the rows whether or not the   *)
(* drains pass the gate.                                                             *)
EXTENDS IndexSync, TLAPS

\* What is left of the documents after the first n.
LEMMA RestIs ==
    ASSUME NEW s \in Seq(Docs), NEW n \in 1..Len(s)
    PROVE  /\ Rest(s, n) \in Seq(Docs) /\ Len(Rest(s, n)) = Len(s) - n
           /\ \A k \in 1..(Len(s) - n) : Rest(s, n)[k] = s[n + k]
BY DEF Rest

\* The types: what each step writes is of its type.
LEMMA InitType == Init => TypeOK
BY ActorsAssumption, NumbersAssumption
   DEF Init, TypeOK, NoRow, Rows, NoWriter, Writers, NoRun, Runs, Statuses

\* A step with a fault, or without, keeps the count of faults typed.
LEMMA FaultType ==
    ASSUME faults \in 0..MaxFaults, Fault PROVE faults' \in 0..MaxFaults
BY NumbersAssumption DEF Fault

\* Enqueueing rows keeps the outbox typed.
LEMMA EnqueueType ==
    ASSUME storage \in [Row -> Rows], NEW rows, NEW op \in {"upsert", "delete"},
           Enqueue(rows, op)
    PROVE  storage' \in [Row -> Rows]
BY Zenon DEF Enqueue, Ready, NoRow, Rows, Statuses

\* So does noting, for the upserts under way, the items entity rows were created for.
LEMMA NotedType ==
    ASSUME writer \in [Writer -> Writers], NEW I \in SUBSET Item
    PROVE  Noted(I) \in [Writer -> Writers]
BY DEF Noted, Writers

\* A writer at rest is typed.
LEMMA NoWriterType == NoWriter \in Writers
BY NumbersAssumption DEF NoWriter, Writers

\* A drain at rest is typed.
LEMMA NoRunType == NoRun \in Runs
BY DEF NoRun, Runs

\* The steps of a write keep the types.
LEMMA TypeWriting ==
    ASSUME TypeOK, NEW u \in Writer, Writing(u) PROVE TypeOK'
<1> USE NumbersAssumption
<1>1. ASSUME NEW I \in SUBSET Item, Prepare(u, I) PROVE TypeOK'
    <2>1. writer' \in [Writer -> Writers]
        BY <1>1 DEF Prepare, TypeOK, Writers
    <2> QED
        BY <1>1, <2>1 DEF Prepare, TypeOK
<1>2. ASSUME NEW C \in SUBSET Item, CommitChunk(u, C) PROVE TypeOK'
    <2>1. writer' \in [Writer -> Writers] /\ writer[u].write \in 0..MaxWrites
        <3>1. writer[u] \in Writers
            BY DEF TypeOK
        <3>2. [writer[u] EXCEPT !.left = @ \ C] \in Writers /\ writer[u].write \in 0..MaxWrites
            BY <3>1, Zenon DEF Writers
        <3> QED
            BY <1>2, <3>2 DEF CommitChunk, TypeOK
    <2>2. hub' \in [Item -> 0..MaxWrites]
        BY <1>2, <2>1 DEF CommitChunk, TypeOK
    <2> QED
        BY <1>2, <2>1, <2>2 DEF CommitChunk, TypeOK
<1>3. CASE Dispatch(u)
    BY <1>3, EnqueueType, NoWriterType DEF Dispatch, TypeOK
<1>4. CASE DispatchItems(u)
    <2>1. Noted(writer[u].items) \in [Writer -> Writers]
        BY NotedType DEF TypeOK, Writers
    <2>2. writer' \in [Writer -> Writers]
        BY <1>4, <2>1, NoWriterType DEF DispatchItems
    <2>3. storage' \in [Row -> Rows] /\ faults' \in 0..MaxFaults
        BY <1>4, EnqueueType, FaultType DEF DispatchItems, TypeOK
    <2> QED
        BY <1>4, <2>2, <2>3 DEF DispatchItems, TypeOK
<1>5. CASE Abandon(u)
    BY <1>5, FaultType, NoWriterType DEF Abandon, TypeOK
<1> QED
    BY <1>1, <1>2, <1>3, <1>4, <1>5 DEF Writing

\* So does deleting an item.
LEMMA TypeDeleteItem ==
    ASSUME TypeOK, NEW i \in Item, DeleteItem(i) PROVE TypeOK'
<1>1. storage' \in [Row -> Rows]
    BY EnqueueType DEF DeleteItem, TypeOK
<1> QED
    BY <1>1, NumbersAssumption DEF DeleteItem, TypeOK

\* So does the obligation sweep.
LEMMA TypeSweep ==
    ASSUME TypeOK, Sweep PROVE TypeOK'
<1>1. storage' \in [Row -> Rows] /\ writer' \in [Writer -> Writers]
    BY EnqueueType, NotedType DEF Sweep, TypeOK
<1> QED
    BY <1>1 DEF Sweep, TypeOK

----------------------------------------------------------------------------
(* What each step of a drain leaves in run. *)

Becomes(r, pc, todo, at, ids, docs, marks) ==
    /\ run' \in [Run -> Runs]
    /\ \A q \in Run \ {r} : run'[q] = run[q]
    /\ run'[r].pc = pc /\ run'[r].todo = todo /\ run'[r].at = at
    /\ run'[r].ids = ids /\ run'[r].docs = docs /\ run'[r].marks = marks

\* A run that is replaced by a record of its type.
LEMMA Replaced ==
    ASSUME run \in [Run -> Runs], NEW r \in Run, NEW x \in Runs,
           run' = [run EXCEPT ![r] = x]
    PROVE  Becomes(r, x.pc, x.todo, x.at, x.ids, x.docs, x.marks)
BY DEF Becomes

\* What each step of a drain makes of the run, field by field.
LEMMA StartIs ==
    ASSUME TypeOK, NEW r \in Run, Start(r)
    PROVE  Becomes(r, "loop", run[r].todo, run[r].at, run[r].ids, run[r].docs,
                   run[r].marks)
<1>0. run \in [Run -> Runs] /\ run[r] \in Runs
    BY DEF TypeOK
<1> DEFINE x == [run[r] EXCEPT !.pc = "loop"]
<1>1. run' = [run EXCEPT ![r] = x]
    BY <1>0 DEF Start
<1>2. /\ x \in Runs /\ x.pc = "loop" /\ x.todo = run[r].todo /\ x.at = run[r].at
      /\ x.ids = run[r].ids /\ x.docs = run[r].docs /\ x.marks = run[r].marks
    BY <1>0, Zenon DEF Runs
<1> HIDE DEF x
<1> QED
    BY <1>0, <1>1, <1>2, Replaced, Zenon

\* Field by field: the next pass of a drain.
LEMMA AgainIs ==
    ASSUME TypeOK, NEW r \in Run, Again(r)
    PROVE  Becomes(r, "loop", {}, Nobody, run[r].ids, <<>>, {})
<1>0. /\ run \in [Run -> Runs] /\ run[r] \in Runs /\ run[r].todo = {} /\ run[r].at = Nobody
      /\ run[r].docs = <<>> /\ run[r].marks = {}
    BY DEF TypeOK, Again, BatchOver, Marked, NoLedger
<1> DEFINE x == [run[r] EXCEPT !.pc = "loop"]
<1>1. run' = [run EXCEPT ![r] = x]
    BY <1>0 DEF Again
<1>2. /\ x \in Runs /\ x.pc = "loop" /\ x.todo = run[r].todo /\ x.at = run[r].at
      /\ x.ids = run[r].ids /\ x.docs = run[r].docs /\ x.marks = run[r].marks
    BY <1>0, Zenon DEF Runs
<1> HIDE DEF x
<1> QED
    BY <1>0, <1>1, <1>2, Replaced, Zenon

\* Field by field: leaving the gate.
LEMMA LeaveIs ==
    ASSUME TypeOK, NEW r \in Run, Leave(r)
    PROVE  Becomes(r, "idle", {}, Nobody, {}, <<>>, {})
<1>1. /\ NoRun.pc = "idle" /\ NoRun.todo = {} /\ NoRun.at = Nobody /\ NoRun.ids = {}
      /\ NoRun.docs = <<>> /\ NoRun.marks = {}
    BY DEF NoRun
<1> QED
    BY <1>1, NoRunType, Replaced, Zenon DEF TypeOK, Leave

\* Field by field: claiming a batch.
LEMMA ClaimIs ==
    ASSUME TypeOK, NEW r \in Run, NEW S \in SUBSET Row, Claim(r, S)
    PROVE  Becomes(r, "work", S, run[r].at, run[r].ids, run[r].docs, run[r].marks)
<1>0. run \in [Run -> Runs] /\ run[r] \in Runs
    BY DEF TypeOK
<1> DEFINE x == [run[r] EXCEPT !.pc = "work", !.todo = S]
<1>1. run' = [run EXCEPT ![r] = x]
    BY <1>0, Zenon DEF Claim
<1>2. /\ x \in Runs /\ x.pc = "work" /\ x.todo = S /\ x.at = run[r].at
      /\ x.ids = run[r].ids /\ x.docs = run[r].docs /\ x.marks = run[r].marks
    BY <1>0, Zenon DEF Runs
<1> HIDE DEF x
<1> QED
    BY <1>0, <1>1, <1>2, Replaced, Zenon

\* Field by field: claiming rows of no known driver.
LEMMA ClaimUnresolvedIs ==
    ASSUME TypeOK, NEW r \in Run, NEW S \in SUBSET Row, NEW Dead \in SUBSET S,
           ClaimUnresolved(r, S, Dead)
    PROVE  Becomes(r, "work", run[r].todo, run[r].at, run[r].ids, run[r].docs,
                   {<<o, IF o \in Dead THEN "dead" ELSE "retry">> : o \in S})
<1>0. run \in [Run -> Runs] /\ run[r] \in Runs
    BY DEF TypeOK
<1> DEFINE m == {<<o, IF o \in Dead THEN "dead" ELSE "retry">> : o \in S}
           x == [run[r] EXCEPT !.pc = "work", !.marks = m]
<1>a. m \in SUBSET (Row \X {"done", "retry", "dead"})
    OBVIOUS
<1>b. run' = [run EXCEPT ![r].pc = "work", ![r].marks = m]
    BY DEF ClaimUnresolved
<1> HIDE DEF m
<1>1. run' = [run EXCEPT ![r] = x] /\ m \in SUBSET (Row \X {"done", "retry", "dead"})
    BY <1>0, <1>a, <1>b, Zenon
<1>2. /\ x \in Runs /\ x.pc = "work" /\ x.todo = run[r].todo /\ x.at = run[r].at
      /\ x.ids = run[r].ids /\ x.docs = run[r].docs /\ x.marks = m
    BY <1>0, <1>1, Zenon DEF Runs
<1> HIDE DEF x
<1> QED
    BY <1>0, <1>1, <1>2, Replaced, Zenon DEF m

\* Field by field: reading the ids of a write.
LEMMA ReadLedgerIs ==
    ASSUME TypeOK, NEW r \in Run, NEW o \in run[r].todo, ReadLedger(r, o)
    PROVE  Becomes(r, "work", run[r].todo \ {o},
                   IF WrittenBy(o) = {} THEN Nobody ELSE o, WrittenBy(o), run[r].docs,
                   IF WrittenBy(o) = {} THEN {<<o, "done">>} ELSE {})
<1>0. run \in [Run -> Runs] /\ run[r] \in Runs /\ run[r].pc = "work"
    BY Zenon DEF TypeOK, ReadLedger, Marked
<1> DEFINE t == run[r].todo \ {o}
           a == IF WrittenBy(o) = {} THEN Nobody ELSE o
           m == IF WrittenBy(o) = {} THEN {<<o, "done">>} ELSE {}
           x == [run[r] EXCEPT !.todo = t, !.ids = WrittenBy(o), !.at = a, !.marks = m]
<1>1. /\ t \in SUBSET Row /\ WrittenBy(o) \in SUBSET Item
      /\ a \in Row \cup {Nobody} /\ m \in SUBSET (Row \X {"done", "retry", "dead"})
    BY <1>0 DEF Runs, WrittenBy
<1>2. run' = [run EXCEPT ![r] = x]
    BY <1>0, Zenon DEF ReadLedger
<1> HIDE DEF t, a, m
<1>3. /\ x \in Runs /\ x.pc = "work" /\ x.todo = t /\ x.at = a /\ x.ids = WrittenBy(o)
      /\ x.docs = run[r].docs /\ x.marks = m
    BY <1>0, <1>1, Zenon DEF Runs
<1> HIDE DEF x
<1> QED
    BY <1>0, <1>2, <1>3, Replaced, Zenon DEF t, a, m

\* Field by field: the end of the ledger row in hand.
LEMMA GiveUpIs ==
    ASSUME TypeOK, NEW r \in Run, NEW mark \in {"done", "retry", "dead"},
           run[r].at \in Row, run[r].pc = "work", GiveUp(r, mark)
    PROVE  Becomes(r, "work", run[r].todo, Nobody, {}, <<>>, {<<run[r].at, mark>>})
<1>0. run \in [Run -> Runs] /\ run[r] \in Runs
    BY DEF TypeOK
<1> DEFINE m == {<<run[r].at, mark>>}
           x == [run[r] EXCEPT !.at = Nobody, !.ids = {}, !.docs = <<>>, !.marks = m]
<1>1. <<>> \in Seq(Docs) /\ m \in SUBSET (Row \X {"done", "retry", "dead"})
    OBVIOUS
<1>2. run' = [run EXCEPT ![r] = x]
    BY <1>0, Zenon DEF GiveUp
<1> HIDE DEF m
<1>3. /\ x \in Runs /\ x.pc = "work" /\ x.todo = run[r].todo /\ x.at = Nobody /\ x.ids = {}
      /\ x.docs = <<>> /\ x.marks = m
    BY <1>0, <1>1, Zenon DEF Runs
<1> HIDE DEF x
<1> QED
    BY <1>0, <1>2, <1>3, Replaced, Zenon DEF m

\* Field by field: building one document.
LEMMA ReadDocIs ==
    ASSUME TypeOK, NEW r \in Run, NEW i \in Item, NEW d \in Docs, run[r].pc = "work",
           run' = [run EXCEPT ![r].ids = @ \ {i}, ![r].docs = Append(@, d)]
    PROVE  Becomes(r, "work", run[r].todo, run[r].at, run[r].ids \ {i},
                   Append(run[r].docs, d), run[r].marks)
<1>0. run \in [Run -> Runs] /\ run[r] \in Runs
    BY DEF TypeOK
<1> DEFINE j == run[r].ids \ {i}
           s == Append(run[r].docs, d)
           x == [run[r] EXCEPT !.ids = j, !.docs = s]
<1>1. j \in SUBSET Item /\ s \in Seq(Docs)
    BY <1>0 DEF Runs
<1>2. run' = [run EXCEPT ![r] = x]
    BY <1>0, Zenon
<1> HIDE DEF j, s
<1>3. /\ x \in Runs /\ x.pc = "work" /\ x.todo = run[r].todo /\ x.at = run[r].at
      /\ x.ids = j /\ x.docs = s /\ x.marks = run[r].marks
    BY <1>0, <1>1, Zenon DEF Runs
<1> HIDE DEF x
<1>4. Becomes(r, x.pc, x.todo, x.at, x.ids, x.docs, x.marks)
    BY <1>0, <1>2, <1>3, Replaced, Zenon
<1> QED
    BY <1>3, <1>4 DEF j, s

\* Field by field: reading an id-only row.
LEMMA ReadRowIs ==
    ASSUME TypeOK, NEW r \in Run, NEW o \in run[r].todo, ReadRow(r, o)
    PROVE  /\ o \in Row /\ o[2] \in Item
           /\ Becomes(r, "work", run[r].todo \ {o}, Nobody, run[r].ids,
                   IF o[2] \in deleted THEN run[r].docs
                   ELSE Append(run[r].docs, Doc(o, o[2], hub[o[2]])),
                   IF o[2] \in deleted THEN {<<o, "done">>} ELSE {})
<1>0. /\ run \in [Run -> Runs] /\ run[r] \in Runs /\ run[r].pc = "work"
      /\ run[r].at = Nobody
    BY DEF TypeOK, ReadRow, Marked, NoLedger
<1>1. o \in Row /\ o[2] \in Item
    BY <1>0 DEF Runs, ReadRow, Ledgers, Row
<1> DEFINE t == run[r].todo \ {o}
           s == IF o[2] \in deleted THEN run[r].docs
                ELSE Append(run[r].docs, Doc(o, o[2], hub[o[2]]))
           m == IF o[2] \in deleted THEN {<<o, "done">>} ELSE {}
           x == [run[r] EXCEPT !.todo = t, !.marks = m, !.docs = s]
<1>2. t \in SUBSET Row /\ m \in SUBSET (Row \X {"done", "retry", "dead"})
    BY <1>0, <1>1 DEF Runs
<1>3. s \in Seq(Docs)
    <2>1. run[r].docs \in Seq(Docs) /\ Doc(o, o[2], hub[o[2]]) \in Docs
        BY <1>0, <1>1 DEF Runs, Doc, Docs, TypeOK
    <2> QED
        BY <2>1
<1>4. run' = [run EXCEPT ![r] = x]
    BY <1>0, Zenon DEF ReadRow
<1> HIDE DEF t, s, m
<1>5. /\ x \in Runs /\ x.pc = "work" /\ x.todo = t /\ x.at = Nobody /\ x.ids = run[r].ids
      /\ x.docs = s /\ x.marks = m
    BY <1>0, <1>2, <1>3, Zenon DEF Runs
<1> HIDE DEF x
<1> QED
    BY <1>0, <1>1, <1>4, <1>5, Replaced, Zenon DEF t, s, m

\* Field by field: a row whose read raises.
LEMMA DropRowIs ==
    ASSUME TypeOK, NEW r \in Run, NEW o \in run[r].todo, run[r].pc = "work",
           run' = [run EXCEPT ![r].todo = @ \ {o}, ![r].marks = {<<o, "retry">>}]
    PROVE  Becomes(r, "work", run[r].todo \ {o}, run[r].at, run[r].ids, run[r].docs,
                   {<<o, "retry">>})
<1>0. run \in [Run -> Runs] /\ run[r] \in Runs
    BY DEF TypeOK
<1> DEFINE t == run[r].todo \ {o}
           m == {<<o, "retry">>}
           x == [run[r] EXCEPT !.todo = t, !.marks = m]
<1>1. t \in SUBSET Row /\ m \in SUBSET (Row \X {"done", "retry", "dead"})
    BY <1>0 DEF Runs
<1>2. run' = [run EXCEPT ![r] = x]
    BY <1>0, Zenon
<1> HIDE DEF t, m
<1>3. /\ x \in Runs /\ x.pc = "work" /\ x.todo = t /\ x.at = run[r].at
      /\ x.ids = run[r].ids /\ x.docs = run[r].docs /\ x.marks = m
    BY <1>0, <1>1, Zenon DEF Runs
<1> HIDE DEF x
<1>4. Becomes(r, x.pc, x.todo, x.at, x.ids, x.docs, x.marks)
    BY <1>0, <1>2, <1>3, Replaced, Zenon
<1> QED
    BY <1>3, <1>4 DEF t, m

\* Field by field: a bulk after which rows are marked.
LEMMA SentIs ==
    ASSUME TypeOK, NEW r \in Run, NEW n \in 1..Len(run[r].docs), run[r].pc = "work",
           NEW m \in SUBSET (Row \X {"done", "retry", "dead"}),
           run' = [run EXCEPT ![r].docs = Rest(@, n), ![r].marks = m]
    PROVE  Becomes(r, "work", run[r].todo, run[r].at, run[r].ids, Rest(run[r].docs, n), m)
<1>0. run \in [Run -> Runs] /\ run[r] \in Runs
    BY DEF TypeOK
<1> DEFINE s == Rest(run[r].docs, n)
           x == [run[r] EXCEPT !.docs = s, !.marks = m]
<1>1. s \in Seq(Docs)
    BY <1>0, RestIs DEF Runs
<1>2. run' = [run EXCEPT ![r] = x]
    BY <1>0, Zenon
<1> HIDE DEF s
<1>3. /\ x \in Runs /\ x.pc = "work" /\ x.todo = run[r].todo /\ x.at = run[r].at
      /\ x.ids = run[r].ids /\ x.docs = s /\ x.marks = m
    BY <1>0, <1>1, Zenon DEF Runs
<1> HIDE DEF x
<1>4. Becomes(r, x.pc, x.todo, x.at, x.ids, x.docs, x.marks)
    BY <1>0, <1>2, <1>3, Replaced, Zenon
<1> QED
    BY <1>3, <1>4 DEF s

\* Field by field: a bulk of the ledger row in hand with more to come.
LEMMA SentPartIs ==
    ASSUME TypeOK, NEW r \in Run, NEW n \in 1..Len(run[r].docs), run[r].pc = "work",
           run' = [run EXCEPT ![r].docs = Rest(@, n)]
    PROVE  Becomes(r, "work", run[r].todo, run[r].at, run[r].ids, Rest(run[r].docs, n),
                   run[r].marks)
<1>0. run \in [Run -> Runs] /\ run[r] \in Runs
    BY DEF TypeOK
<1> DEFINE s == Rest(run[r].docs, n)
           x == [run[r] EXCEPT !.docs = s]
<1>1. s \in Seq(Docs)
    BY <1>0, RestIs DEF Runs
<1>2. run' = [run EXCEPT ![r] = x]
    BY <1>0
<1> HIDE DEF s
<1>3. /\ x \in Runs /\ x.pc = "work" /\ x.todo = run[r].todo /\ x.at = run[r].at
      /\ x.ids = run[r].ids /\ x.docs = s /\ x.marks = run[r].marks
    BY <1>0, <1>1, Zenon DEF Runs
<1> HIDE DEF x
<1>4. Becomes(r, x.pc, x.todo, x.at, x.ids, x.docs, x.marks)
    BY <1>0, <1>2, <1>3, Replaced, Zenon
<1> QED
    BY <1>3, <1>4 DEF s

\* Field by field: marking one row.
LEMMA MarkIs ==
    ASSUME TypeOK, NEW r \in Run, NEW m \in run[r].marks, Mark(r, m)
    PROVE  Becomes(r, "work", run[r].todo, run[r].at, run[r].ids, run[r].docs,
                   run[r].marks \ {m})
<1>0. run \in [Run -> Runs] /\ run[r] \in Runs /\ run[r].pc = "work"
    BY DEF TypeOK, Mark
<1> DEFINE n == run[r].marks \ {m}
           x == [run[r] EXCEPT !.marks = n]
<1>1. n \in SUBSET (Row \X {"done", "retry", "dead"})
    BY <1>0 DEF Runs
<1>2. run' = [run EXCEPT ![r] = x]
    BY <1>0 DEF Mark
<1> HIDE DEF n
<1>3. /\ x \in Runs /\ x.pc = "work" /\ x.todo = run[r].todo /\ x.at = run[r].at
      /\ x.ids = run[r].ids /\ x.docs = run[r].docs /\ x.marks = n
    BY <1>0, <1>1, Zenon DEF Runs
<1> HIDE DEF x
<1> QED
    BY <1>0, <1>2, <1>3, Replaced, Zenon DEF n

\* The outcome of a bulk is one of the three marks.
LEMMA OutcomeType ==
    ASSUME NEW V PROVE Outcome(V) \in {"done", "retry", "dead"}
BY DEF Outcome

\* A bulk of entity rows leaves well-typed marks.
LEMMA MarksType ==
    ASSUME NEW docs \in Seq(Docs), NEW n \in 1..Len(docs), NEW verdict
    PROVE  RowMarks(docs, verdict, n) \in SUBSET (Row \X {"done", "retry", "dead"})
<1>1. ASSUME NEW k \in 1..n
      PROVE  docs[k].row \in Row /\ RowOutcome(docs, verdict, k) \in {"done", "retry", "dead"}
    <2>1. docs[k] \in Docs
        OBVIOUS
    <2> QED
        BY <2>1, OutcomeType DEF Docs, RowOutcome
<1> QED
    BY <1>1 DEF RowMarks

\* The steps of the drains keep the types.
LEMMA TypeRun ==
    ASSUME TypeOK, NEW r \in Run, run[r].ids # {} => run[r].at # Nobody,
           Start(r) \/ Step(r) \/ Trouble(r)
    PROVE  TypeOK'
<1> USE NumbersAssumption, NobodyAssumption, ActorsAssumption
<1>0. /\ run \in [Run -> Runs] /\ run[r] \in Runs /\ storage \in [Row -> Rows]
      /\ hub \in [Item -> 0..MaxWrites] /\ index \in [Item -> 0..MaxWrites]
      /\ faults \in 0..MaxFaults /\ run[r].docs \in Seq(Docs)
    BY Zenon DEF TypeOK, Runs
<1>1. CASE Start(r)
    BY <1>1, StartIs, Zenon DEF Start, TypeOK, Becomes
<1>2. ASSUME NEW S \in SUBSET Row, Take(r, S) PROVE storage' \in [Row -> Rows]
    <2>1. ASSUME NEW o \in Row
          PROVE  [storage[o] EXCEPT !.status = "in_flight", !.owner = r] \in Rows
        <3>1. storage[o] \in Rows
            BY <1>0
        <3> QED
            BY <3>1, Zenon DEF Rows, Statuses
    <2> QED
        BY <1>0, <1>2, <2>1, Zenon DEF Take
<1>3. ASSUME NEW S \in SUBSET Row, Claim(r, S) PROVE TypeOK'
    BY <1>2, <1>3, ClaimIs, Zenon DEF Claim, Take, TypeOK, Becomes
<1>4. ASSUME NEW S \in SUBSET Row, NEW Dead \in SUBSET S, ClaimUnresolved(r, S, Dead)
      PROVE  TypeOK'
    <2>1. run' \in [Run -> Runs] /\ faults' \in 0..MaxFaults
        BY <1>0, <1>4, ClaimUnresolvedIs, FaultType, Zenon DEF ClaimUnresolved, Becomes
    <2> QED
        BY <1>2, <1>4, <2>1, Zenon DEF ClaimUnresolved, Take, TypeOK
<1>5. ASSUME NEW o \in run[r].todo, ReadLedger(r, o) PROVE TypeOK'
    <2>1. run' \in [Run -> Runs]
        BY <1>5, ReadLedgerIs, Zenon DEF Becomes
    <2> QED
        BY <1>5, <2>1, Zenon DEF ReadLedger, TypeOK
<1>6. ASSUME NEW o \in run[r].todo, ReadRow(r, o) PROVE TypeOK'
    <2>1. run' \in [Run -> Runs]
        BY <1>6, ReadRowIs, Zenon DEF Becomes
    <2> QED
        BY <1>6, <2>1, Zenon DEF ReadRow, TypeOK
<1>7. ASSUME NEW i \in run[r].ids, ReadDoc(r, i), run[r].at \in Row PROVE TypeOK'
    <2>1. i \in Item /\ run[r].pc = "work"
        BY <1>0, <1>7 DEF Runs, ReadDoc, Marked
    <2> DEFINE o == run[r].at
               d == Doc(o, i, IF storage[o].op = "delete" THEN 0 ELSE hub[i])
    <2>2. d \in Docs
        BY <1>0, <1>7, <2>1 DEF Doc, Docs
    <2>3. CASE GiveUp(r, "retry")
        BY <1>7, <2>1, <2>3, GiveUpIs, Zenon DEF ReadDoc, TypeOK, Becomes
    <2>4. CASE run' = [run EXCEPT ![r].ids = @ \ {i}, ![r].docs = Append(@, d)]
        <3> HIDE DEF d
        <3>1. run' \in [Run -> Runs]
            BY <2>1, <2>2, <2>4, ReadDocIs, Zenon DEF Becomes
        <3> QED
            BY <1>7, <3>1, Zenon DEF ReadDoc, TypeOK
    <2> QED
        BY <1>7, <2>3, <2>4, Zenon DEF ReadDoc
<1>8. ASSUME ReadFails(r), run[r].ids # {} => run[r].at \in Row PROVE TypeOK'
    <2>1. faults' \in 0..MaxFaults /\ run[r].pc = "work"
        BY <1>0, <1>8, FaultType DEF ReadFails, Marked
    <2>2. CASE run[r].ids # {} /\ GiveUp(r, "retry")
        BY <1>8, <2>1, <2>2, GiveUpIs, Zenon DEF ReadFails, TypeOK, Becomes
    <2>3. ASSUME NEW o \in run[r].todo,
                 run' = [run EXCEPT ![r].todo = @ \ {o}, ![r].marks = {<<o, "retry">>}]
          PROVE  TypeOK'
        BY <1>8, <2>1, <2>3, DropRowIs, Zenon DEF ReadFails, TypeOK, Becomes
    <2> QED
        BY <1>8, <2>2, <2>3, Zenon DEF ReadFails, Ledgers
<1>9. ASSUME NEW n, NEW verdict, NEW applied, index' \in SendTo(run[r].docs, applied),
             IF AllPassed(verdict) THEN UNCHANGED faults ELSE Fault
      PROVE  index' \in [Item -> 0..MaxWrites] /\ faults' \in 0..MaxFaults
    BY <1>0, <1>9, FaultType DEF SendTo
<1>10. ASSUME NEW n \in 1..Len(run[r].docs), NEW verdict \in Verdicts(n),
              NEW applied \in MayApply(verdict), FlushLedger(r, n, verdict, applied)
       PROVE  TypeOK'
    <2>1. run[r].pc = "work" /\ run[r].at \in Row
        BY <1>0, <1>10 DEF FlushLedger, Marked, NoLedger, Runs
    <2>2. CASE run' = [run EXCEPT ![r].docs = Rest(@, n)]
        BY <1>9, <1>10, <2>1, <2>2, SentPartIs, Zenon DEF FlushLedger, TypeOK, Becomes
    <2>3. CASE GiveUp(r, Outcome(Values(verdict)))
        <3>1. run' \in [Run -> Runs]
            BY <2>1, <2>3, GiveUpIs, OutcomeType, Zenon DEF Becomes
        <3> QED
            BY <1>9, <1>10, <3>1 DEF FlushLedger, TypeOK
    <2> QED
        BY <1>10, <2>2, <2>3 DEF FlushLedger
<1>11. ASSUME NEW n \in 1..Len(run[r].docs), NEW verdict \in Verdicts(n),
              NEW applied \in MayApply(verdict), FlushRows(r, n, verdict, applied)
       PROVE  TypeOK'
    <2>1. run[r].pc = "work"
        BY <1>11 DEF FlushRows, Marked
    <2> DEFINE m == RowMarks(run[r].docs, verdict, n)
    <2>2. m \in SUBSET (Row \X {"done", "retry", "dead"})
        <3>1. run[r].docs \in Seq(Docs)
            BY <1>0 DEF Runs
        <3> QED
            BY <3>1, MarksType, Zenon
    <2>3. run' = [run EXCEPT ![r].docs = Rest(@, n), ![r].marks = m]
        BY <1>11 DEF FlushRows
    <2> HIDE DEF m
    <2>4. run' \in [Run -> Runs]
        BY <2>1, <2>2, <2>3, SentIs, Zenon DEF Becomes
    <2> QED
        BY <1>9, <1>11, <2>4 DEF FlushRows, TypeOK
<1>12. ASSUME NEW m \in run[r].marks, Mark(r, m) PROVE TypeOK'
    <2>1. m[1] \in Row /\ m[2] \in {"done", "retry", "dead"}
        BY <1>0 DEF Runs
    <2>2. storage[m[1]] \in Rows
        BY <1>0, <2>1
    <2>3. [storage[m[1]] EXCEPT !.status = StatusOf(m[2]), !.owner = Nobody] \in Rows
        <3>1. StatusOf(m[2]) \in Statuses
            BY <2>1 DEF StatusOf, Statuses
        <3> QED
            BY <2>2, <3>1, Zenon DEF Rows
    <2>4. storage' = storage \/ storage' = [storage EXCEPT ![m[1]] =
                [storage[m[1]] EXCEPT !.status = StatusOf(m[2]), !.owner = Nobody]]
        BY <1>0, <1>12, <2>1, Zenon DEF Mark
    <2>5. storage' \in [Row -> Rows]
        BY <1>0, <2>3, <2>4, Zenon
    <2> QED
        BY <1>12, <2>5, MarkIs, Zenon DEF Mark, TypeOK, Becomes
<1>13. CASE Again(r)
    BY <1>13, AgainIs, Zenon DEF Again, TypeOK, Becomes
<1>14. CASE HandOff(r) \/ Finish(r)
    BY <1>14, LeaveIs DEF HandOff, Finish, Leave, TypeOK, Becomes
<1>15. CASE Crash(r)
    BY <1>0, <1>15, FaultType, LeaveIs, Zenon DEF Crash, Leave, TypeOK, Becomes
<1>16. CASE Flush(r)
    BY <1>10, <1>11, <1>16 DEF Flush
<1>17. run[r].ids # {} => run[r].at \in Row
    BY <1>0 DEF Runs
<1>18. ASSUME NEW S \in SUBSET {o \in Row : Claimable(o)}, Claim(r, S) PROVE TypeOK'
    BY <1>3, <1>18
<1>19. CASE Step(r)
    BY <1>5, <1>6, <1>7, <1>12, <1>13, <1>14, <1>16, <1>17, <1>18, <1>19, Zenon
       DEF Step, Claims
<1>20. ASSUME NEW S \in SUBSET {o \in Row : Claimable(o)}, NEW Dead \in SUBSET S,
              ClaimUnresolved(r, S, Dead)
       PROVE  TypeOK'
    BY <1>4, <1>20
<1>21. CASE Trouble(r)
    BY <1>8, <1>15, <1>17, <1>20, <1>21 DEF Trouble
<1> QED
    BY <1>1, <1>19, <1>21

\* The parts of a row of tasks.storage.
LEMMA RowIs ==
    ASSUME NEW o \in Row
    PROVE  /\ o[1] \in 1..MaxWrites /\ o[2] \in Item \cup {Ledger}
           /\ o[3] \in {"dispatch", "sweep"} /\ o = <<o[1], o[2], o[3]>>
BY DEF Row, Write

\* A row made of its parts.
LEMMA RowMade ==
    ASSUME NEW w \in 1..MaxWrites, NEW x \in Item \cup {Ledger},
           NEW by \in {"dispatch", "sweep"}
    PROVE  <<w, x, by>> \in Row
BY DEF Row, Write

\* An INSERT adds the rows and touches no other.
LEMMA EnqueueIs ==
    ASSUME NEW rows, NEW op, Enqueue(rows, op), NEW o \in Row
    PROVE  /\ o \in rows => storage'[o].status = "ready" /\ storage'[o].op = op
           /\ o \notin rows => storage'[o] = storage[o]
BY DEF Enqueue, Ready, NoRow

\* Noting entity rows changes nothing else of the upserts.
LEMMA NotedIs ==
    ASSUME writer \in [Writer -> Writers], NEW I, NEW u \in Writer
    PROVE  /\ Noted(I)[u].pc = writer[u].pc /\ Noted(I)[u].write = writer[u].write
           /\ Noted(I)[u].left = writer[u].left
BY DEF Noted, Writers

\* An upsert that is over.
LEMMA NoWriterIs == NoWriter.pc = "idle" /\ NoWriter.left = {}
BY DEF NoWriter

\* The same rows, each for the same operation.
RowsKept == \A o \in Row : /\ storage'[o].op = storage[o].op
                           /\ storage'[o].status = "none" <=> storage[o].status = "none"

\* Rows that only change their status stay in order.
LEMMA RowsKeptInOrder ==
    ASSUME TypeOK, RowsInOrder, RowsKept, UNCHANGED <<hub, deleted, writes, writer>>
    PROVE  RowsInOrder'
BY DEF RowsInOrder, RowsKept, RowsOf, Exists

\* The rows a writer inserts are new ones.
LEMMA NewRows ==
    ASSUME TypeOK, WritesInOrder, RowsInOrder, NEW u \in Writer, writer[u].pc = "open",
           NEW o \in Row, o[1] = writer[u].write, o[3] = "dispatch"
    PROVE  ~Exists(o)
BY DEF RowsInOrder, TypeOK

\* A new write_id is greater than those in use, so no row names it.
LEMMA PrepareInOrder ==
    ASSUME TypeOK, WritesInOrder, RowsInOrder, NEW u \in Writer, NEW I \in SUBSET Item, Prepare(u, I)
    PROVE  WritesInOrder' /\ RowsInOrder'
<1> USE NumbersAssumption
<1>1. /\ writer'[u].pc = "open" /\ writer'[u].write = writes + 1 /\ writer'[u].left = I
      /\ \A v \in Writer \ {u} : writer'[v] = writer[v]
    BY DEF Prepare, TypeOK
<1>2. WritesInOrder'
    BY <1>1 DEF Prepare, TypeOK, WritesInOrder, Writers
<1>3. RowsInOrder'
    BY <1>1, RowIs DEF Prepare, TypeOK, RowsInOrder, RowsOf, Exists
<1> QED
    BY <1>2, <1>3

\* A chunk stamps its items with a write_id that no ledger row names yet.
LEMMA CommitChunkInOrder ==
    ASSUME TypeOK, WritesInOrder, RowsInOrder, NEW u \in Writer, NEW C \in SUBSET Item, CommitChunk(u, C)
    PROVE  WritesInOrder' /\ RowsInOrder'
<1> USE NumbersAssumption
<1> DEFINE w == writer[u].write
<1>1. /\ writer'[u].pc = writer[u].pc /\ writer'[u].write = w
      /\ writer'[u].left = writer[u].left \ C
      /\ \A v \in Writer \ {u} : writer'[v] = writer[v]
    BY DEF CommitChunk, TypeOK, Writers
<1>2. writer[u].pc = "open" /\ w \in 1..writes
    BY DEF CommitChunk, WritesInOrder, TypeOK, Writers
<1>3. \A i \in Item : hub'[i] = IF i \in C THEN w ELSE hub[i]
    BY DEF CommitChunk
<1>4. WritesInOrder'
    <2>1. \A i \in Item : hub'[i] <= writes' /\ index'[i] <= writes'
        BY <1>2, <1>3 DEF CommitChunk, TypeOK, WritesInOrder
    <2>2. ASSUME NEW v \in Writer, writer'[v].pc = "idle" PROVE writer'[v].left = {}
        BY <1>1, <1>2, <2>2 DEF WritesInOrder
    <2>3. ASSUME NEW v \in Writer, writer'[v].pc # "idle"
          PROVE  /\ writer'[v].write \in 1..writes'
                 /\ \A x \in Writer \ {v} :
                        writer'[x].pc = "idle" \/ writer'[x].write # writer'[v].write
                 /\ \A i \in Item : hub'[i] = writer'[v].write => i \notin deleted'
                 /\ \A i \in writer'[v].left : writer'[v].write \notin {hub'[i], index'[i]}
        <3>1. /\ writer[v].pc # "idle" /\ writer'[v].write = writer[v].write
              /\ \A x \in Writer : writer'[x].pc = writer[x].pc /\ writer'[x].write = writer[x].write
              /\ writer'[v].left \subseteq writer[v].left
            BY <1>1, <1>2, <2>3
        <3>2. /\ writer'[v].write \in 1..writes'
              /\ \A x \in Writer \ {v} :
                        writer'[x].pc = "idle" \/ writer'[x].write # writer'[v].write
            BY <3>1 DEF WritesInOrder, CommitChunk
        <3>3. \A i \in Item : hub'[i] = writer'[v].write => i \notin deleted'
            BY <1>3, <3>1 DEF WritesInOrder, CommitChunk
        <3>4. ASSUME NEW i \in writer'[v].left PROVE writer'[v].write \notin {hub'[i], index'[i]}
            <4>1. i \in Item /\ i \in writer[v].left /\ index' = index
                BY <3>1 DEF CommitChunk, TypeOK, Writers
            <4>2. CASE v = u
                BY <1>1, <1>3, <3>1, <4>1, <4>2 DEF WritesInOrder
            <4>3. CASE v # u
                BY <1>2, <1>3, <3>1, <4>1, <4>3 DEF WritesInOrder
            <4> QED
                BY <4>2, <4>3
        <3> QED
            BY <3>2, <3>3, <3>4
    <2> QED
        BY <2>1, <2>2, <2>3 DEF WritesInOrder
<1>5. ASSUME NEW i \in C, NEW o \in Row, o[1] = w, o[2] \in {i, Ledger} PROVE ~Exists(o)
    BY <1>2, <1>5, ActorsAssumption DEF RowsInOrder, CommitChunk
<1>6. RowsInOrder'
    <2>1. storage' = storage /\ writes' = writes /\ deleted' = deleted \ C
        BY DEF CommitChunk
    <2>2. ASSUME NEW o \in Row, Exists(o)'
          PROVE  /\ o[1] <= writes'
                 /\ o[2] = Ledger => o[3] = "dispatch"
                 /\ \A v \in Writer : writer'[v].pc = "open" /\ writer'[v].write = o[1]
                       => o[3] = "sweep" /\ o[2] \notin writer'[v].left
        BY <1>1, <2>1, <2>2 DEF RowsInOrder, Exists
    <2>3. ASSUME NEW i \in Item, NEW o \in RowsOf(i)', Exists(o)'
          PROVE  /\ storage'[o].op = "delete" <=> i \in deleted'
                 /\ i \in deleted' => o[2] = Ledger
        BY <1>3, <1>5, <2>1, <2>3 DEF RowsInOrder, Exists, RowsOf
    <2>4. ASSUME NEW i \in deleted' PROVE Exists(<<hub[i], Ledger, "dispatch">>)'
        BY <1>3, <2>1, <2>4 DEF RowsInOrder, Exists, TypeOK
    <2> QED
        BY <2>2, <2>3, <2>4 DEF RowsInOrder
<1> QED
    BY <1>4, <1>6

\* The writers that are still under way are where they were.
WritersKept == \A v \in Writer :
    IF writer'[v].pc = "idle" THEN writer'[v].left = {}
    ELSE /\ writer[v].pc # "idle" /\ writer'[v].write = writer[v].write
         /\ writer'[v].left = writer[v].left

\* Upserts that end, or go on, leave the writes in order.
LEMMA WritersKeptInOrder ==
    ASSUME TypeOK, WritesInOrder, WritersKept, UNCHANGED <<hub, deleted, writes, index>>
    PROVE  WritesInOrder'
BY DEF WritesInOrder, WritersKept

\* Rows inserted for committed items leave the rows in order.
LEMMA InsertedInOrder ==
    ASSUME TypeOK, TypeOK', WritesInOrder', RowsInOrder, WritersKept,
           UNCHANGED <<hub, deleted, writes>>,
           NEW rows \in SUBSET Row, Enqueue(rows, "upsert"),
           \A o \in rows : /\ ~Exists(o) /\ o[1] <= writes
                           /\ o[2] = Ledger => o[3] = "dispatch"
                           /\ \A v \in Writer : writer'[v].pc = "open" /\ writer'[v].write = o[1]
                                 => o[3] = "sweep" /\ o[2] \notin writer'[v].left
                           /\ \A i \in Item : o \in RowsOf(i) => i \notin deleted
    PROVE  RowsInOrder'
<1>1. ASSUME NEW o \in Row, Exists(o)'
      PROVE  /\ o[1] <= writes'
             /\ o[2] = Ledger => o[3] = "dispatch"
             /\ \A v \in Writer : writer'[v].pc = "open" /\ writer'[v].write = o[1]
                   => o[3] = "sweep" /\ o[2] \notin writer'[v].left
    <2>1. CASE o \in rows
        BY <2>1
    <2>2. CASE o \notin rows
        BY <1>1, <2>2, EnqueueIs DEF RowsInOrder, Exists, WritersKept, TypeOK, Writers
    <2> QED
        BY <2>1, <2>2
<1>2. ASSUME NEW i \in Item, NEW o \in RowsOf(i)', Exists(o)'
      PROVE  /\ storage'[o].op = "delete" <=> i \in deleted'
             /\ i \in deleted' => o[2] = Ledger
    <2>0. o \in Row /\ o \in RowsOf(i)
        BY DEF RowsOf
    <2>1. CASE o \in rows
        BY <2>0, <2>1, EnqueueIs
    <2>2. CASE o \notin rows
        BY <1>2, <2>0, <2>2, EnqueueIs DEF RowsInOrder, Exists
    <2> QED
        BY <2>1, <2>2
<1>3. ASSUME NEW i \in deleted' PROVE Exists(<<hub[i], Ledger, "dispatch">>)'
    BY <1>3, EnqueueIs DEF RowsInOrder, Exists
<1> QED
    BY <1>1, <1>2, <1>3 DEF RowsInOrder

\* The end of an upsert leaves the others where they were.
LEMMA ClosedKept ==
    ASSUME TypeOK, WritesInOrder, NEW u \in Writer, NEW f \in [Writer -> Writers],
           \A v \in Writer : f[v].pc = writer[v].pc /\ f[v].write = writer[v].write
                             /\ f[v].left = writer[v].left,
           writer' = [f EXCEPT ![u] = NoWriter]
    PROVE  WritersKept /\ writer'[u].pc = "idle"
BY NoWriterIs, NoWriterType DEF WritersKept, WritesInOrder, TypeOK, Writers

\* The seam inserts a row of a write that has committed all its items.
LEMMA DispatchInOrder ==
    ASSUME TypeOK, TypeOK', WritesInOrder, RowsInOrder, NEW u \in Writer, Dispatch(u)
    PROVE  WritesInOrder' /\ RowsInOrder' /\ WritersKept
<1> USE NumbersAssumption, ActorsAssumption
<1> DEFINE w == writer[u].write
           o == <<w, Ledger, "dispatch">>
<1>0. writer[u].pc = "open" /\ w \in 1..writes /\ w \in 1..MaxWrites
    BY DEF Dispatch, WritesInOrder, TypeOK
<1>1. WritersKept /\ writer'[u].pc = "idle"
    BY ClosedKept, Zenon DEF Dispatch, TypeOK
<1>2. WritesInOrder'
    BY <1>1, WritersKeptInOrder, Zenon DEF Dispatch
<1>3. o \in Row /\ ~Exists(o)
    BY <1>0, RowMade, NewRows, Zenon
<1>4. \A v \in Writer : writer'[v].pc = "open" => writer'[v].write # w
    BY <1>0, <1>1 DEF WritersKept, WritesInOrder
<1>5. \A i \in Item : o \in RowsOf(i) => i \notin deleted
    BY <1>0 DEF RowsOf, WritesInOrder
<1>6. Enqueue({o}, "upsert") /\ UNCHANGED <<hub, deleted, writes>>
    BY DEF Dispatch
<1> QED
    BY <1>0, <1>1, <1>2, <1>3, <1>4, <1>5, <1>6, InsertedInOrder DEF TypeOK

\* The same for one row of each item.
LEMMA DispatchItemsInOrder ==
    ASSUME TypeOK, TypeOK', WritesInOrder, RowsInOrder, NEW u \in Writer, DispatchItems(u)
    PROVE  WritesInOrder' /\ RowsInOrder' /\ WritersKept
<1> USE NumbersAssumption, ActorsAssumption
<1> DEFINE w == writer[u].write
           rows == {w} \X writer[u].items \X {"dispatch"}
<1>0. /\ writer[u].pc = "open" /\ w \in 1..writes /\ w \in 1..MaxWrites
      /\ writer[u].items \subseteq Item
    BY DEF DispatchItems, WritesInOrder, TypeOK, Writers
<1>1. WritersKept /\ writer'[u].pc = "idle"
    BY <1>0, ClosedKept, NotedIs, NotedType DEF DispatchItems, TypeOK
<1>2. WritesInOrder'
    BY <1>1, WritersKeptInOrder DEF DispatchItems
<1>3. ASSUME NEW o \in rows
      PROVE  o \in Row /\ o[1] = w /\ o[2] \in Item /\ o[3] = "dispatch"
    <2>1. o[1] = w /\ o[2] \in writer[u].items /\ o[3] = "dispatch" /\ o = <<o[1], o[2], o[3]>>
        OBVIOUS
    <2>2. <<w, o[2], "dispatch">> \in Row
        BY <1>0, <2>1, RowMade, Zenon
    <2> QED
        BY <1>0, <2>1, <2>2
<1>4. \A v \in Writer : writer'[v].pc = "open" => writer'[v].write # w
    BY <1>0, <1>1 DEF WritersKept, WritesInOrder
<1>5. ASSUME NEW o \in rows
      PROVE  /\ ~Exists(o) /\ o[1] <= writes
             /\ o[2] = Ledger => o[3] = "dispatch"
             /\ \A v \in Writer : writer'[v].pc = "open" /\ writer'[v].write = o[1]
                   => o[3] = "sweep" /\ o[2] \notin writer'[v].left
             /\ \A i \in Item : o \in RowsOf(i) => i \notin deleted
    <2>1. o \in Row /\ o[1] = w /\ o[2] \in Item /\ o[3] = "dispatch"
        BY <1>3
    <2>2. ~Exists(o)
        BY <1>0, <2>1, NewRows
    <2>3. \A i \in Item : o \in RowsOf(i) => i \notin deleted
        BY <1>0, <2>1 DEF RowsOf, WritesInOrder
    <2> QED
        BY <1>0, <1>4, <2>1, <2>2, <2>3
<1>6. Enqueue(rows, "upsert") /\ UNCHANGED <<hub, deleted, writes>> /\ rows \in SUBSET Row
    BY <1>3 DEF DispatchItems
<1> HIDE DEF rows
<1> QED
    BY <1>1, <1>2, <1>5, <1>6, InsertedInOrder

\* An upsert that dies inserts nothing.
LEMMA AbandonInOrder ==
    ASSUME TypeOK, TypeOK', WritesInOrder, RowsInOrder, NEW u \in Writer, Abandon(u)
    PROVE  WritesInOrder' /\ RowsInOrder' /\ WritersKept
<1>1. WritersKept
    BY ClosedKept, Zenon DEF Abandon, TypeOK
<1>2. WritesInOrder'
    BY <1>1, WritersKeptInOrder DEF Abandon
<1>3. RowsInOrder'
    BY <1>1 DEF Abandon, RowsInOrder, Exists, RowsOf, WritersKept, TypeOK, Writers
<1> QED
    BY <1>1, <1>2, <1>3

\* The sweep inserts rows for committed items that have none, and no tombstone is
\* without.
LEMMA SweepInOrder ==
    ASSUME TypeOK, TypeOK', WritesInOrder, RowsInOrder, Sweep
    PROVE  WritesInOrder' /\ RowsInOrder' /\ WritersKept
<1> USE NumbersAssumption, ActorsAssumption
<1>1. PICK I \in SUBSET Item :
        /\ I = {i \in Item : hub[i] # 0 /\ ~Covered(i)}
        /\ Enqueue({<<hub[i], i, "sweep">> : i \in I}, "upsert")
        /\ writer' = Noted(I)
    BY Zenon DEF Sweep
<1> DEFINE rows == {<<hub[i], i, "sweep">> : i \in I}
<1>2. WritersKept
    BY <1>1, NotedIs DEF WritersKept, WritesInOrder, TypeOK
<1>3. WritesInOrder'
    BY <1>2, WritersKeptInOrder, Zenon DEF Sweep
<1>4. ASSUME NEW i \in I
      PROVE  /\ <<hub[i], i, "sweep">> \in Row /\ ~Exists(<<hub[i], i, "sweep">>)
             /\ i \in Item /\ i \notin deleted /\ hub[i] \in 1..writes
    <2>1. i \in Item /\ hub[i] \in 1..writes /\ hub[i] \in 1..MaxWrites /\ ~Covered(i)
        BY <1>1 DEF TypeOK, WritesInOrder
    <2>2. /\ <<hub[i], i, "sweep">> \in Row /\ <<hub[i], Ledger, "dispatch">> \in Row
          /\ <<hub[i], i, "sweep">> \in RowsOf(i) /\ <<hub[i], Ledger, "dispatch">> \in RowsOf(i)
        BY <2>1, RowMade, Zenon DEF RowsOf
    <2>3. \A o \in RowsOf(i) : ~Exists(o)
        BY <2>1 DEF Covered
    <2> QED
        BY <2>1, <2>2, <2>3 DEF RowsInOrder
<1>5. ASSUME NEW o \in rows
      PROVE  /\ o \in Row /\ ~Exists(o) /\ o[1] <= writes
             /\ o[2] = Ledger => o[3] = "dispatch"
             /\ \A v \in Writer : writer'[v].pc = "open" /\ writer'[v].write = o[1]
                   => o[3] = "sweep" /\ o[2] \notin writer'[v].left
             /\ \A i \in Item : o \in RowsOf(i) => i \notin deleted
    <2>1. PICK j \in I : o = <<hub[j], j, "sweep">>
        OBVIOUS
    <2>2. o \in Row /\ ~Exists(o) /\ o[1] <= writes /\ o[2] = j /\ o[2] # Ledger
        BY <1>4, <2>1 DEF TypeOK
    <2>3. \A v \in Writer : writer'[v].pc = "open" /\ writer'[v].write = o[1]
                   => o[3] = "sweep" /\ o[2] \notin writer'[v].left
        BY <1>2, <1>4, <2>1 DEF WritersKept, WritesInOrder
    <2>4. \A i \in Item : o \in RowsOf(i) => i \notin deleted
        BY <1>4, <2>1, <2>2 DEF RowsOf
    <2> QED
        BY <2>2, <2>3, <2>4
<1>6. Enqueue(rows, "upsert") /\ UNCHANGED <<hub, deleted, writes>> /\ rows \in SUBSET Row
    BY <1>1, <1>5, Zenon DEF Sweep
<1> HIDE DEF rows
<1> QED
    BY <1>2, <1>3, <1>5, <1>6, InsertedInOrder, Zenon

\* A delete inserts the row of its own write, which no other row names.
LEMMA DeleteItemInOrder ==
    ASSUME TypeOK, TypeOK', WritesInOrder, RowsInOrder, NEW j \in Item, DeleteItem(j)
    PROVE  WritesInOrder' /\ RowsInOrder'
<1> USE NumbersAssumption, ActorsAssumption
<1> DEFINE n == writes + 1
           x == <<n, Ledger, "dispatch">>
<1>1. /\ \A i \in Item : hub'[i] = IF i = j THEN n ELSE hub[i]
      /\ deleted' = deleted \cup {j} /\ writes' = n
      /\ UNCHANGED <<writer, index>> /\ Enqueue({x}, "delete")
    BY DEF DeleteItem, TypeOK
<1>a. n \in 1..MaxWrites /\ writes \in Nat
    BY DEF DeleteItem, TypeOK
<1>2. n \in 1..MaxWrites /\ x \in Row /\ writes \in Nat
    BY <1>a, RowMade, Zenon
<1>3. WritesInOrder'
    BY <1>1, <1>2 DEF WritesInOrder, TypeOK, Writers
<1>4. ASSUME NEW o \in Row, o[1] = n PROVE ~Exists(o)
    BY <1>2, <1>4 DEF RowsInOrder
<1>5. \A o \in Row : /\ o = x => storage'[o].status = "ready" /\ storage'[o].op = "delete"
                     /\ o # x => storage'[o] = storage[o]
    BY <1>1, EnqueueIs
<1>6. ASSUME NEW o \in Row, Exists(o)'
      PROVE  /\ o[1] <= writes'
             /\ o[2] = Ledger => o[3] = "dispatch"
             /\ \A v \in Writer : writer'[v].pc = "open" /\ writer'[v].write = o[1]
                   => o[3] = "sweep" /\ o[2] \notin writer'[v].left
    <2>1. CASE o = x
        BY <1>1, <1>2, <2>1 DEF WritesInOrder, TypeOK
    <2>2. CASE o # x
        BY <1>1, <1>2, <1>5, <1>6, <2>2, RowIs DEF RowsInOrder, Exists
    <2> QED
        BY <2>1, <2>2
<1>7. ASSUME NEW i \in Item, NEW o \in RowsOf(i)', Exists(o)'
      PROVE  /\ storage'[o].op = "delete" <=> i \in deleted'
             /\ i \in deleted' => o[2] = Ledger
    <2>1. o \in Row /\ o[1] = hub'[i] /\ o[2] \in {i, Ledger}
        BY DEF RowsOf
    <2>2. CASE i = j
        BY <1>1, <1>4, <1>5, <1>7, <2>1, <2>2 DEF Exists
    <2>3. CASE i # j
        <3>1. hub'[i] = hub[i] /\ hub[i] # n
            BY <1>1, <1>2, <2>3 DEF WritesInOrder, TypeOK
        <3>2. o # x /\ o \in RowsOf(i)
            BY <2>1, <3>1 DEF RowsOf
        <3>3. storage'[o] = storage[o] /\ Exists(o)
            BY <1>5, <1>7, <2>1, <3>2 DEF Exists
        <3> QED
            BY <1>1, <2>3, <3>2, <3>3 DEF RowsInOrder
    <2> QED
        BY <2>2, <2>3
<1>8. ASSUME NEW i \in deleted' PROVE Exists(<<hub[i], Ledger, "dispatch">>)'
    <2>1. CASE i = j
        BY <1>1, <1>2, <1>5, <2>1, Zenon DEF Exists
    <2>2. CASE i # j
        BY <1>1, <1>5, <1>8, <2>2 DEF RowsInOrder, Exists, TypeOK
    <2> QED
        BY <2>1, <2>2
<1> QED
    BY <1>3, <1>6, <1>7, <1>8 DEF RowsInOrder

\* A write of the item that no row names yet and no document is of.
Touched(i) ==
    /\ \A o \in Row : o[1] = hub'[i] /\ o[2] \in {i, Ledger} => ~Exists(o)
    /\ \/ i \in deleted'
       \/ /\ index[i] # hub'[i]
          /\ \A r \in Run : \A k \in DocsFor(r, i) : run[r].docs[k].ver # hub'[i]

Untouched(i) == hub'[i] = hub[i] /\ (i \in deleted' <=> i \in deleted)

\* What the drains see of a step of a writer, a delete or the sweep.
Inserted == \A o \in Row : IF Exists(o) THEN storage'[o] = storage[o]
                           ELSE storage'[o].status \in {"none", "ready"}

Wrote ==
    /\ UNCHANGED <<run, index, gate>>
    /\ Inserted
    /\ \A i \in Item : Touched(i) \/ Untouched(i)
    /\ writes <= writes'
    /\ \A v \in Writer : \A i \in writer'[v].left : \A r \in Run :
        \A k \in DocsFor(r, i) : run[r].docs[k].ver # writer'[v].write

\* A row a run holds, or that is done, is of an item no later write has touched.
LEMMA WroteLive ==
    ASSUME TypeOK, TypeOK', Wrote, NEW r \in Run, \A o \in Held(r) : Exists(o),
           NEW i \in Item, NEW o \in RowsOf(i)',
           o \in Held(r)' \/ storage'[o].status = "done"
    PROVE  /\ Untouched(i) /\ o \in RowsOf(i) /\ Exists(o)
           /\ o \in Held(r) \/ storage[o].status = "done"
<1>1. o \in Row /\ o[1] = hub'[i] /\ o[2] \in {i, Ledger}
    BY DEF RowsOf
<1>2. Held(r)' = Held(r)
    BY Zenon DEF Wrote, Held
<1>3. Exists(o)
    BY <1>1, <1>2 DEF Wrote, Inserted
<1>4. Untouched(i)
    BY <1>1, <1>3, Zenon DEF Wrote, Touched
<1>5. o \in RowsOf(i)
    BY <1>1, <1>4 DEF Untouched, RowsOf
<1> QED
    BY <1>1, <1>2, <1>3, <1>4, <1>5, Zenon DEF Wrote, Inserted

\* What the index holds as it is after a write was not touched by it.
LEMMA WroteCurrent ==
    ASSUME TypeOK, TypeOK', Wrote, NEW i \in Item, Current(i)'
    PROVE  Untouched(i) /\ Current(i)
BY Zenon DEF Wrote, Touched, Untouched, Current

\* A write leaves the drains in order: what they hold of an item it touches is of no
\* row of the item any more.
LEMMA WroteRun ==
    ASSUME TypeOK, TypeOK', Wrote, NEW r \in Run,
           RunInOrder(r), LedgerInOrder(r), DocsInOrder(r)
    PROVE  RunInOrder(r)' /\ LedgerInOrder(r)' /\ DocsInOrder(r)'
<1>1. /\ run' = run /\ index' = index /\ gate' = gate /\ Held(r)' = Held(r)
      /\ \A i \in Item : DocsFor(r, i)' = DocsFor(r, i)
    BY Zenon DEF Wrote, Held, DocsFor
<1>2. \A o \in Held(r) : Exists(o)
    BY Zenon DEF RunInOrder
<1>3. ASSUME NEW i \in Item, Live(r, i)' PROVE Untouched(i) /\ Live(r, i)
    <2>1. PICK o \in RowsOf(i)' : o \in Held(r)' \/ storage'[o].status = "done"
        BY <1>3 DEF Live
    <2> QED
        BY <1>2, <2>1, WroteLive DEF Live
<1>4. ASSUME NEW i \in Item, Untouched(i) PROVE Wanted(i)' = Wanted(i)
    BY <1>4 DEF Wanted, Untouched
<1>5. \A o \in Held(r) : o \in Row /\ storage'[o] = storage[o]
    BY <1>2 DEF Wrote, Inserted, Exists
<1>6. ASSUME run[r].at # Nobody PROVE run[r].at \in Held(r)
    BY <1>6 DEF Held
<1>7. Deleting(r)' <=> Deleting(r)
    BY <1>1, <1>5, <1>6 DEF Deleting
<1>8. RunInOrder(r)'
    <2>1. ASSUME NEW m \in run'[r].marks, m[2] = "done", NEW i \in Item, m[1] \in RowsOf(i)'
          PROVE  index'[i] = Wanted(i)'
        <3>1. m[1] \in Held(r)
            BY <1>1, <2>1, Zenon DEF Held
        <3>2. Untouched(i) /\ m[1] \in RowsOf(i)
            BY <1>1, <1>2, <2>1, <3>1, WroteLive, Zenon
        <3> QED
            BY <1>1, <1>4, <2>1, <3>2, Zenon DEF RunInOrder
    <2>2. \A o \in Held(r)' : Exists(o)'
        BY <1>1, <1>2, <1>5, Zenon DEF Exists
    <2> QED
        BY <1>1, <2>1, <2>2, Zenon DEF RunInOrder, Empty
<1>9. LedgerInOrder(r)'
    <2>1. ASSUME run[r].at # Nobody, NEW i \in Item, hub'[i] = run[r].at[1]
          PROVE  i \in run[r].ids \/ DocsFor(r, i)' # {} \/ index[i] = Wanted(i)'
        <3>1. run[r].at \in Row /\ run[r].at[2] = Ledger /\ Exists(run[r].at)
            BY <1>2, <1>5, <1>6, <2>1, Zenon DEF LedgerInOrder
        <3>2. Untouched(i)
            BY <2>1, <3>1, Zenon DEF Wrote, Touched
        <3> QED
            BY <1>1, <1>4, <2>1, <3>2, Zenon DEF LedgerInOrder, Untouched
    <2>2. ASSUME NEW i \in run[r].ids
          PROVE  /\ Live(r, i)' => hub'[i] = run[r].at[1]
                 /\ Deleting(r)' => ~Current(i)'
        <3>1. i \in Item
            BY Zenon DEF TypeOK, Runs
        <3> QED
            BY <1>3, <1>7, <3>1, WroteCurrent, Zenon DEF LedgerInOrder, Untouched
    <2> QED
        BY <1>1, <2>1, <2>2, Zenon DEF LedgerInOrder
<1>10. DocsInOrder(r)'
    <2>1. ASSUME NEW i \in Item, NEW k \in DocsFor(r, i) PROVE DocInOrder(r, i, k)'
        <3> DEFINE ver == run[r].docs[k].ver
        <3>1. run[r].docs[k] \in Docs /\ DocInOrder(r, i, k)
            BY DEF TypeOK, Runs, DocsFor, DocsInOrder
        <3>2. ver \in 0..MaxWrites /\ writes \in Nat /\ writes' \in Nat
            BY <3>1 DEF Docs, TypeOK
        <3>3. ver <= writes /\ writes <= writes'
            BY <3>1, Zenon DEF DocInOrder, Wrote
        <3>4. IF run[r].at = Nobody THEN run[r].docs[k].row[2] = i
              ELSE Deleting(r)' => ver = 0
            BY <1>7, <3>1, Zenon DEF DocInOrder
        <3>5. \A u \in Writer : i \in writer'[u].left => ver # writer'[u].write
            BY Zenon DEF Wrote
        <3>6. Live(r, i)' => ver = Wanted(i)'
            BY <1>3, <1>4, <3>1, Zenon DEF DocInOrder
        <3>7. Current(i)' => ver = hub'[i]
            BY <3>1, WroteCurrent, Zenon DEF DocInOrder, Untouched
        <3>8. ASSUME NEW m \in DocsFor(r, i), k < m,
                     hub'[i] # 0, i \notin deleted', ver = hub'[i]
              PROVE  run[r].docs[m].ver = hub'[i]
            <4>1. Untouched(i)
                BY <3>8, Zenon DEF Wrote, Touched
            <4> QED
                BY <3>1, <3>8, <4>1, Zenon DEF DocInOrder, Untouched
        <3>9. ver <= writes'
            BY <3>2, <3>3
        <3> QED
            BY <1>1, <3>4, <3>5, <3>6, <3>7, <3>8, <3>9, Zenon DEF DocInOrder
    <2>2. run[r].at = Nobody /\ Ledgers(r)' # {} => run[r].docs = <<>>
        BY <1>1, Zenon DEF DocsInOrder, Ledgers
    <2> QED
        BY <1>1, <2>1, <2>2, Zenon DEF DocsInOrder
<1> QED
    BY <1>8, <1>9, <1>10

\* A write leaves the done rows right: the items it touches have a new row.
LEMMA WroteDone ==
    ASSUME TypeOK, TypeOK', Wrote, DoneMeansIndexed
    PROVE  DoneMeansIndexed'
<1> SUFFICES ASSUME NEW i \in Item, NEW o \in RowsOf(i)', storage'[o].status = "done"
             PROVE  index'[i] = Wanted(i)'
    BY DEF DoneMeansIndexed
<1>1. o \in Row /\ o[1] = hub'[i] /\ o[2] \in {i, Ledger}
    BY DEF RowsOf
<1>2. Exists(o) /\ storage[o].status = "done"
    BY <1>1 DEF Wrote, Inserted
<1>3. Untouched(i) /\ o \in RowsOf(i)
    BY <1>1, <1>2, Zenon DEF Wrote, Touched, Untouched, RowsOf
<1> QED
    BY <1>2, <1>3, Zenon DEF DoneMeansIndexed, Wrote, Untouched, Wanted

\* What holds whether or not the drains pass the gate: the writes and the rows are in
\* order, and no document is of a write_id whose chunk is still to come.
Committed(r) == \A i \in Item : \A k \in DocsFor(r, i) :
    /\ run[r].docs[k].ver <= writes
    /\ \A u \in Writer : i \in writer[u].left => run[r].docs[k].ver # writer[u].write

Recorded == WritesInOrder /\ RowsInOrder /\ \A r \in Run : Committed(r)

\* It is part of the invariant of the drains that do.
LEMMA InOrderRecorded == InOrder => Recorded
BY Zenon DEF InOrder, Recorded, Committed, DocsInOrder, DocInOrder

\* The documents, one by one.
LEMMA DocsUnderWay ==
    ASSUME TypeOK, Recorded, NEW r \in Run, NEW i \in Item, NEW k \in DocsFor(r, i)
    PROVE  /\ run[r].docs[k].ver \in Nat /\ run[r].docs[k].ver <= writes
           /\ \A u \in Writer : i \in writer[u].left => run[r].docs[k].ver # writer[u].write
<1>1. run[r].docs[k] \in Docs
    BY DEF TypeOK, Runs, DocsFor
<1>2. Committed(r)
    BY Zenon DEF Recorded
<1> QED
    BY <1>1, <1>2 DEF Committed, Docs

\* Each write is a write in this sense.
LEMMA PrepareWrote ==
    ASSUME TypeOK, Recorded, NEW u \in Writer, NEW I \in SUBSET Item, Prepare(u, I)
    PROVE  Wrote
<1>1. /\ writer'[u].write = writes + 1 /\ writer'[u].left = I
      /\ \A v \in Writer \ {u} : writer'[v] = writer[v]
    BY DEF Prepare, TypeOK
<1>2. ASSUME NEW v \in Writer, NEW i \in writer'[v].left, NEW r \in Run,
             NEW k \in DocsFor(r, i)
      PROVE  run[r].docs[k].ver # writer'[v].write
    <2>1. i \in Item /\ writes \in Nat
        BY <1>1 DEF TypeOK, Writers
    <2> QED
        BY <1>1, <2>1, DocsUnderWay
<1>3. Inserted /\ \A i \in Item : Untouched(i)
    BY DEF Prepare, Inserted, Untouched, Exists
<1>4. writes <= writes' /\ UNCHANGED <<run, index, gate>>
    BY DEF Prepare, TypeOK
<1> QED
    BY <1>2, <1>3, <1>4, Zenon DEF Wrote

\* What committing a chunk leaves of the rows and writers.
LEMMA CommitChunkWrote ==
    ASSUME TypeOK, Recorded, NEW u \in Writer, NEW C \in SUBSET Item, CommitChunk(u, C)
    PROVE  Wrote
<1> DEFINE w == writer[u].write
<1>0. WritesInOrder /\ RowsInOrder
    BY DEF Recorded
<1>1. /\ writer[u].pc = "open" /\ writer'[u].write = w
      /\ writer'[u].left \subseteq writer[u].left /\ C \subseteq writer[u].left
      /\ \A v \in Writer \ {u} : writer'[v] = writer[v]
    BY <1>0 DEF CommitChunk, TypeOK, Writers, WritesInOrder
<1>2. ASSUME NEW v \in Writer, NEW i \in writer'[v].left, NEW r \in Run,
             NEW k \in DocsFor(r, i)
      PROVE  run[r].docs[k].ver # writer'[v].write
    <2>1. i \in writer[v].left /\ writer'[v].write = writer[v].write
        BY <1>1, Zenon
    <2>2. i \in Item
        BY <2>1 DEF TypeOK, Writers
    <2> QED
        BY <2>1, <2>2, DocsUnderWay
<1>3. ASSUME NEW i \in C PROVE Touched(i)
    <2>1. i \in Item /\ hub'[i] = w
        BY DEF CommitChunk
    <2>2. ASSUME NEW o \in Row, o[1] = w, o[2] \in {i, Ledger} PROVE ~Exists(o)
        BY <1>0, <1>1, <2>2, ActorsAssumption, Zenon DEF RowsInOrder
    <2>3. index[i] # w
        BY <1>0, <1>1 DEF WritesInOrder
    <2>4. \A r \in Run : \A k \in DocsFor(r, i) : run[r].docs[k].ver # w
        BY <1>1, <2>1, DocsUnderWay
    <2> QED
        BY <2>1, <2>2, <2>3, <2>4, Zenon DEF Touched
<1>4. ASSUME NEW i \in Item \ C PROVE Untouched(i)
    BY DEF CommitChunk, Untouched
<1>5. Inserted
    BY DEF CommitChunk, Inserted, Exists
<1>6. writes <= writes' /\ UNCHANGED <<run, index, gate>>
    BY DEF CommitChunk, TypeOK
<1> QED
    BY <1>2, <1>3, <1>4, <1>5, <1>6, Zenon DEF Wrote

\* An INSERT of rows that did not exist is one.
LEMMA InsertedWrote ==
    ASSUME TypeOK, Recorded, WritersKept, UNCHANGED <<hub, deleted, writes, run, index, gate>>,
           Inserted
    PROVE  Wrote
<1>2. ASSUME NEW v \in Writer, NEW i \in writer'[v].left, NEW r \in Run,
             NEW k \in DocsFor(r, i)
      PROVE  run[r].docs[k].ver # writer'[v].write
    <2>1. i \in writer[v].left /\ writer'[v].write = writer[v].write
        BY DEF WritersKept
    <2>2. i \in Item
        BY <2>1 DEF TypeOK, Writers
    <2> QED
        BY <2>1, <2>2, DocsUnderWay
<1>3. writes <= writes' /\ \A i \in Item : Untouched(i)
    BY DEF Untouched, TypeOK
<1> QED
    BY <1>2, <1>3, Zenon DEF Wrote

\* Enqueue of rows that do not exist inserts them.
LEMMA NewlyEnqueued ==
    ASSUME NEW rows \in SUBSET Row, NEW op, Enqueue(rows, op), \A o \in rows : ~Exists(o)
    PROVE  Inserted
<1> SUFFICES ASSUME NEW o \in Row
             PROVE  IF Exists(o) THEN storage'[o] = storage[o]
                    ELSE storage'[o].status \in {"none", "ready"}
    BY DEF Inserted
<1>1. CASE o \in rows
    BY <1>1, EnqueueIs
<1>2. CASE o \notin rows
    BY <1>2, EnqueueIs DEF Exists
<1> QED
    BY <1>1, <1>2

\* What the dispatch of the ledger row leaves.
LEMMA DispatchWrote ==
    ASSUME TypeOK, Recorded, WritersKept, NEW u \in Writer, Dispatch(u)
    PROVE  Wrote
<1> DEFINE o == <<writer[u].write, Ledger, "dispatch">>
<1>1. WritesInOrder /\ RowsInOrder /\ writer[u].pc = "open" /\ writer[u].write \in 1..MaxWrites
    BY NumbersAssumption DEF Recorded, Dispatch, WritesInOrder, TypeOK
<1>2. o \in Row /\ ~Exists(o)
    BY <1>1, RowMade, NewRows, Zenon
<1>3. Enqueue({o}, "upsert")
    BY DEF Dispatch
<1> HIDE DEF o
<1>4. Inserted
    BY <1>2, <1>3, NewlyEnqueued
<1> QED
    BY <1>4, InsertedWrote DEF Dispatch

\* What the dispatch of the items one by one leaves.
LEMMA DispatchItemsWrote ==
    ASSUME TypeOK, Recorded, WritersKept, NEW u \in Writer, DispatchItems(u)
    PROVE  Wrote
<1> DEFINE rows == {writer[u].write} \X writer[u].items \X {"dispatch"}
<1>1. /\ WritesInOrder /\ RowsInOrder /\ writer[u].pc = "open"
      /\ writer[u].write \in 1..MaxWrites /\ writer[u].items \subseteq Item
    BY NumbersAssumption DEF Recorded, DispatchItems, WritesInOrder, TypeOK, Writers
<1>2. ASSUME NEW o \in rows PROVE o \in Row /\ ~Exists(o)
    <2>1. /\ o[1] = writer[u].write /\ o[2] \in writer[u].items /\ o[3] = "dispatch"
          /\ o = <<o[1], o[2], o[3]>>
        OBVIOUS
    <2>2. o \in Row
        BY <1>1, <2>1, RowMade, Zenon
    <2> QED
        BY <1>1, <2>1, <2>2, NewRows, Zenon
<1>3. Enqueue(rows, "upsert")
    BY DEF DispatchItems
<1> HIDE DEF rows
<1>4. Inserted
    BY <1>2, <1>3, NewlyEnqueued
<1> QED
    BY <1>4, InsertedWrote, Zenon DEF DispatchItems

\* What a writer that stops leaves.
LEMMA AbandonWrote ==
    ASSUME TypeOK, Recorded, WritersKept, NEW u \in Writer, Abandon(u)
    PROVE  Wrote
<1>1. Inserted
    BY DEF Abandon, Inserted, Exists
<1> QED
    BY <1>1, InsertedWrote DEF Abandon

\* What the sweep leaves.
LEMMA SweepWrote ==
    ASSUME TypeOK, Recorded, WritersKept, Sweep
    PROVE  Wrote
<1>1. PICK I \in SUBSET Item :
        /\ I = {i \in Item : hub[i] # 0 /\ ~Covered(i)}
        /\ Enqueue({<<hub[i], i, "sweep">> : i \in I}, "upsert")
    BY Zenon DEF Sweep
<1> DEFINE rows == {<<hub[i], i, "sweep">> : i \in I}
<1>2. ASSUME NEW o \in rows PROVE o \in Row /\ ~Exists(o)
    <2>1. PICK i \in I : o = <<hub[i], i, "sweep">>
        OBVIOUS
    <2>2. i \in Item /\ hub[i] \in 1..MaxWrites /\ ~Covered(i)
        BY <1>1, NumbersAssumption DEF TypeOK
    <2>3. o \in Row /\ o \in RowsOf(i)
        BY <2>1, <2>2, RowMade, Zenon DEF RowsOf
    <2> QED
        BY <2>2, <2>3 DEF Covered
<1>3. Enqueue(rows, "upsert")
    BY <1>1, Zenon
<1> HIDE DEF rows
<1>4. Inserted
    BY <1>2, <1>3, NewlyEnqueued
<1> QED
    BY <1>4, InsertedWrote DEF Sweep

\* What deleting an item leaves.
LEMMA DeleteItemWrote ==
    ASSUME TypeOK, Recorded, NEW j \in Item, DeleteItem(j)
    PROVE  Wrote
<1> DEFINE n == writes + 1
           x == <<n, Ledger, "dispatch">>
<1>1. /\ \A i \in Item : hub'[i] = IF i = j THEN n ELSE hub[i]
      /\ deleted' = deleted \cup {j} /\ writes' = n
      /\ UNCHANGED <<writer, index, run, gate>> /\ Enqueue({x}, "delete")
    BY DEF DeleteItem, TypeOK
<1>2. n \in 1..MaxWrites /\ writes \in Nat
    BY NumbersAssumption DEF DeleteItem, TypeOK
<1>3. x \in Row
    BY <1>2, RowMade, Zenon
<1>4. ASSUME NEW o \in Row, o[1] = n PROVE ~Exists(o)
    <2>1. RowsInOrder
        BY Zenon DEF Recorded
    <2> QED
        BY <1>2, <1>4, <2>1 DEF RowsInOrder
<1>5. Touched(j)
    BY <1>1, <1>4, Zenon DEF Touched
<1>6. ASSUME NEW i \in Item, i # j PROVE Untouched(i)
    BY <1>1, <1>6, Zenon DEF Untouched
<1>7. Inserted
    <2>1. ~Exists(x)
        BY <1>3, <1>4
    <2> HIDE DEF x
    <2> QED
        BY <1>1, <1>3, <2>1, NewlyEnqueued
<1>8. ASSUME NEW v \in Writer, NEW i \in writer'[v].left, NEW r \in Run,
             NEW k \in DocsFor(r, i)
      PROVE  run[r].docs[k].ver # writer'[v].write
    <2>1. i \in writer[v].left /\ i \in Item
        BY <1>1 DEF TypeOK, Writers
    <2> QED
        BY <1>1, <2>1, DocsUnderWay, Zenon
<1>9. writes <= writes'
    BY <1>1, <1>2
<1> QED
    BY <1>1, <1>5, <1>6, <1>7, <1>8, <1>9, Zenon DEF Wrote

\* A step of a writer, a delete or the sweep leaves the index and the drains alone.
LEMMA WriteStep ==
    ASSUME TypeOK, Recorded, TypeOK',
           \/ \E u \in Writer : Writing(u)
           \/ \E i \in Item : DeleteItem(i)
           \/ Sweep
    PROVE  WritesInOrder' /\ RowsInOrder' /\ Wrote
<1>0. WritesInOrder /\ RowsInOrder
    BY DEF Recorded
<1>1. ASSUME NEW u \in Writer, NEW I \in SUBSET Item, Prepare(u, I)
      PROVE  WritesInOrder' /\ RowsInOrder' /\ Wrote
    BY <1>0, <1>1, PrepareInOrder, PrepareWrote
<1>2. ASSUME NEW u \in Writer, NEW I \in SUBSET Item, CommitChunk(u, I)
      PROVE  WritesInOrder' /\ RowsInOrder' /\ Wrote
    BY <1>0, <1>2, CommitChunkInOrder, CommitChunkWrote
<1>3. ASSUME NEW u \in Writer, Dispatch(u)
      PROVE  WritesInOrder' /\ RowsInOrder' /\ Wrote
    BY <1>0, <1>3, DispatchInOrder, DispatchWrote
<1>4. ASSUME NEW u \in Writer, DispatchItems(u)
      PROVE  WritesInOrder' /\ RowsInOrder' /\ Wrote
    BY <1>0, <1>4, DispatchItemsInOrder, DispatchItemsWrote
<1>5. ASSUME NEW u \in Writer, Abandon(u)
      PROVE  WritesInOrder' /\ RowsInOrder' /\ Wrote
    BY <1>0, <1>5, AbandonInOrder, AbandonWrote
<1>6. ASSUME NEW i \in Item, DeleteItem(i)
      PROVE  WritesInOrder' /\ RowsInOrder' /\ Wrote
    BY <1>0, <1>6, DeleteItemInOrder, DeleteItemWrote
<1>7. CASE Sweep
    BY <1>0, <1>7, SweepInOrder, SweepWrote
<1> QED
    BY <1>1, <1>2, <1>3, <1>4, <1>5, <1>6, <1>7 DEF Writing

\* The invariant holds at first.
LEMMA InitInOrder ==
    ASSUME Init PROVE InOrder /\ DoneMeansIndexed
<1>1. TypeOK
    BY InitType
<1>2. /\ \A i \in Item : hub[i] = 0 /\ index[i] = 0
      /\ \A o \in Row : storage[o].status = "none"
      /\ \A u \in Writer : writer[u].pc = "idle" /\ writer[u].left = {}
      /\ deleted = {} /\ writes = 0 /\ gate = Nobody
    BY Zenon DEF Init, NoRow, NoWriter
<1>3. ASSUME NEW r \in Run PROVE run[r].pc = "idle" /\ Empty(r)
    BY DEF Init, NoRun, Empty
<1>4. WritesInOrder /\ RowsInOrder
    BY <1>1, <1>2, NumbersAssumption DEF WritesInOrder, RowsInOrder, Exists, TypeOK, RowsOf
<1>5. ASSUME NEW r \in Run PROVE RunInOrder(r) /\ LedgerInOrder(r) /\ DocsInOrder(r)
    <2>1. DOMAIN run[r].docs = {}
        BY <1>3 DEF Empty
    <2>2. Held(r) = {} /\ \A i \in Item : DocsFor(r, i) = {}
        BY <1>3, <2>1, Zenon DEF Held, Empty, DocsFor
    <2> QED
        BY <1>3, <2>2, Zenon DEF RunInOrder, LedgerInOrder, DocsInOrder, Empty
<1> QED
    BY <1>2, <1>4, <1>5, Zenon DEF InOrder, DoneMeansIndexed, RowsOf

\* What a bulk of the first n documents does to the index.
Bulk(r, n, applied) ==
    /\ n \in 1..Len(run[r].docs) /\ applied \in SUBSET (1..n)
    /\ index' \in SendTo(run[r].docs, applied)
    /\ UNCHANGED <<hub, deleted, writes, writer, storage, gate>>

\* Of each item the index holds what it held or a document of the bulk.
LEMMA BulkIs ==
    ASSUME TypeOK, NEW r \in Run, NEW n, NEW applied, Bulk(r, n, applied), NEW i \in Item
    PROVE  \/ /\ applied \cap DocsFor(r, i) = {} /\ index'[i] = index[i]
           \/ \E k \in applied \cap DocsFor(r, i) : index'[i] = run[r].docs[k].ver
<1>1. DOMAIN run[r].docs = 1..Len(run[r].docs) /\ Len(run[r].docs) \in Nat
    BY DEF TypeOK, Runs
<1> QED
    BY <1>1 DEF Bulk, SendTo, DocsFor

\* A bulk leaves the writes and the rows in order.
LEMMA BulkWrites ==
    ASSUME TypeOK, Recorded, NEW r \in Run, NEW n, NEW applied, Bulk(r, n, applied)
    PROVE  WritesInOrder' /\ RowsInOrder'
<1>1. ASSUME NEW i \in Item
      PROVE  /\ index'[i] <= writes
             /\ \A u \in Writer : i \in writer[u].left => index'[i] # writer[u].write
    <2>1. /\ index[i] <= writes
          /\ \A u \in Writer : i \in writer[u].left => index[i] # writer[u].write
        BY DEF Recorded, WritesInOrder
    <2>2. \A k \in DocsFor(r, i) :
            /\ run[r].docs[k].ver <= writes
            /\ \A u \in Writer : i \in writer[u].left => run[r].docs[k].ver # writer[u].write
        BY DocsUnderWay
    <2> QED
        <3>1. index'[i] = index[i] \/ \E k \in DocsFor(r, i) : index'[i] = run[r].docs[k].ver
            BY BulkIs, Zenon
        <3>2. CASE index'[i] = index[i]
            BY <2>1, <3>2
        <3>3. ASSUME NEW k \in DocsFor(r, i), index'[i] = run[r].docs[k].ver
              PROVE  /\ index'[i] <= writes
                     /\ \A u \in Writer : i \in writer[u].left => index'[i] # writer[u].write
            BY <2>2, <3>3
        <3> QED
            BY <3>1, <3>2, <3>3, Zenon
<1>2. WritesInOrder /\ RowsInOrder /\ writer \in [Writer -> Writers]
    BY DEF Recorded, TypeOK
<1>3. WritesInOrder'
    BY <1>1, <1>2 DEF WritesInOrder, Bulk, Writers
<1>4. RowsInOrder'
    BY <1>2, RowsKeptInOrder DEF Bulk, RowsKept
<1> QED
    BY <1>3, <1>4

----------------------------------------------------------------------------
(* What holds whether or not the drains pass the gate. *)

\* A row with an owner is in flight: the CAS of _mark_done, _mark_retry and _mark_dead
\* finds none that is settled.
Fenced == \A o \in Row : storage[o].owner # Nobody => storage[o].status = "in_flight"

\* Items are left to be read only of a ledger row in hand.
InHand == \A r \in Run : run[r].ids # {} => run[r].at # Nobody

Sound == TypeOK /\ Recorded /\ Fenced /\ InHand

\* A row that is done or dead is left as it is.
SettledKept == \A o \in Row : storage[o].status \in {"done", "dead"} => storage'[o] = storage[o]

\* Every document of the run was in hand before, or is of its item as it is now.
Hydrated(r) == \A k \in DOMAIN run'[r].docs :
    \/ \E m \in DOMAIN run[r].docs : run[r].docs[m] = run'[r].docs[k]
    \/ run'[r].docs[k].ver \in {0, hub[run'[r].docs[k].item]}

\* What a step of one drain leaves, gated or not.
Drained(r) ==
    /\ \A q \in Run \ {r} : run'[q] = run[q]
    /\ run'[r].ids # {} => run'[r].at # Nobody
    /\ Hydrated(r)
    /\ RowsKept /\ Fenced' /\ SettledKept
    /\ \/ UNCHANGED <<hub, deleted, writes, writer, index>>
       \/ \E n : \E applied : Bulk(r, n, applied)

\* The same documents, or none, are hydrated.
LEMMA SameHydrated ==
    ASSUME NEW r \in Run, run'[r].docs = run[r].docs \/ run'[r].docs = <<>>
    PROVE  Hydrated(r)
<1>1. CASE run'[r].docs = run[r].docs
    BY <1>1, Zenon DEF Hydrated
<1>2. CASE run'[r].docs = <<>>
    BY <1>2 DEF Hydrated
<1> QED
    BY <1>1, <1>2

\* So are the documents that a bulk leaves.
LEMMA RestHydrated ==
    ASSUME TypeOK, NEW r \in Run, NEW n \in 1..Len(run[r].docs),
           run'[r].docs = Rest(run[r].docs, n)
    PROVE  Hydrated(r)
<1>1. run[r].docs \in Seq(Docs) /\ Len(run[r].docs) \in Nat
    BY DEF TypeOK, Runs
<1>2. ASSUME NEW k \in DOMAIN run'[r].docs
      PROVE  \E m \in DOMAIN run[r].docs : run[r].docs[m] = run'[r].docs[k]
    <2>1. /\ k \in 1..(Len(run[r].docs) - n) /\ run'[r].docs[k] = run[r].docs[n + k]
          /\ n + k \in DOMAIN run[r].docs
        <3>1. /\ Rest(run[r].docs, n) \in Seq(Docs)
              /\ Len(Rest(run[r].docs, n)) = Len(run[r].docs) - n
              /\ \A j \in 1..(Len(run[r].docs) - n) : Rest(run[r].docs, n)[j] = run[r].docs[n + j]
            BY <1>1, RestIs, Zenon
        <3>2. k \in 1..Len(Rest(run[r].docs, n))
            BY <3>1
        <3>3. n + k \in 1..Len(run[r].docs)
            BY <1>1, <3>1, <3>2
        <3> QED
            BY <1>1, <3>1, <3>2, <3>3
    <2> QED
        BY <2>1, Zenon
<1> QED
    BY <1>2, Zenon DEF Hydrated

\* So are they with a document more that was read now.
LEMMA AppendHydrated ==
    ASSUME TypeOK, NEW r \in Run, NEW d \in Docs, run'[r].docs = Append(run[r].docs, d),
           d.ver \in {0, hub[d.item]}
    PROVE  Hydrated(r)
<1>1. run[r].docs \in Seq(Docs)
    BY DEF TypeOK, Runs
<1>2. ASSUME NEW k \in DOMAIN run'[r].docs
      PROVE  \/ k \in DOMAIN run[r].docs /\ run'[r].docs[k] = run[r].docs[k]
             \/ run'[r].docs[k] = d
    BY <1>1, <1>2
<1> QED
    BY <1>2, Zenon DEF Hydrated

\* A step that leaves the rows alone keeps what is said of them.
LEMMA RowsAlone ==
    ASSUME Fenced, storage' = storage
    PROVE  RowsKept /\ Fenced' /\ SettledKept
BY Zenon DEF Fenced, RowsKept, SettledKept

\* _claim_batch takes no settled row.
LEMMA TakeFenced ==
    ASSUME TypeOK, Fenced, NEW r \in Run, NEW S \in SUBSET Row, Take(r, S)
    PROVE  /\ RowsKept /\ Fenced' /\ SettledKept
           /\ UNCHANGED <<hub, deleted, writes, writer, index>>
<1>1. ASSUME NEW o \in Row
      PROVE  /\ storage'[o].op = storage[o].op
             /\ o \in S => /\ storage'[o].status = "in_flight"
                           /\ storage[o].status \in {"ready", "in_flight"}
             /\ o \notin S => storage'[o] = storage[o]
    <2>1. storage[o] \in Rows
        BY DEF TypeOK
    <2> QED
        BY <2>1, Zenon DEF Take, Claimable, Rows
<1> QED
    BY <1>1, Zenon DEF Take, Fenced, RowsKept, SettledKept

\* The CAS of a mark misses a settled row.
LEMMA MarkFenced ==
    ASSUME TypeOK, Fenced, NEW r \in Run, NEW m \in run[r].marks, Mark(r, m)
    PROVE  /\ RowsKept /\ Fenced' /\ SettledKept
           /\ UNCHANGED <<hub, deleted, writes, writer, index>>
<1>1. m[1] \in Row /\ m[2] \in {"done", "retry", "dead"} /\ storage \in [Row -> Rows]
    BY DEF TypeOK, Runs
<1>2. StatusOf(m[2]) # "none"
    BY <1>1, Zenon DEF StatusOf
<1>3. CASE storage[m[1]].owner # r
    BY <1>3, RowsAlone, Zenon DEF Mark
<1>4. CASE storage[m[1]].owner = r
    <2>1. storage[m[1]].status = "in_flight"
        BY <1>1, <1>4, ActorsAssumption, NobodyAssumption, Zenon DEF Fenced
    <2>2. ASSUME NEW o \in Row
          PROVE  /\ storage'[o].op = storage[o].op
                 /\ o # m[1] => storage'[o] = storage[o]
                 /\ o = m[1] => /\ storage'[o].status = StatusOf(m[2])
                                /\ storage'[o].owner = Nobody
        <3>1. storage[o] \in Rows
            BY <1>1
        <3> QED
            BY <1>1, <1>4, <3>1, Zenon DEF Mark, Rows
    <2> QED
        BY <1>2, <2>1, <2>2, Zenon DEF Mark, Fenced, RowsKept, SettledKept
<1> QED
    BY <1>3, <1>4

\* A bulk leaves the rows alone until the marks are written.
LEMMA FlushDrained ==
    ASSUME TypeOK, Fenced, NEW r \in Run, run[r].ids # {} => run[r].at # Nobody, Flush(r)
    PROVE  Drained(r)
<1>1. PICK n \in 1..Len(run[r].docs) : \E verdict \in Verdicts(n) :
        \E applied \in MayApply(verdict) :
            FlushLedger(r, n, verdict, applied) \/ FlushRows(r, n, verdict, applied)
    BY DEF Flush
<1>2. PICK verdict \in Verdicts(n) : \E applied \in MayApply(verdict) :
            FlushLedger(r, n, verdict, applied) \/ FlushRows(r, n, verdict, applied)
    BY <1>1
<1>3. PICK applied \in MayApply(verdict) :
            FlushLedger(r, n, verdict, applied) \/ FlushRows(r, n, verdict, applied)
    BY <1>2
<1>4. applied \in SUBSET (1..n)
    BY DEF MayApply, Verdicts
<1>5. Bulk(r, n, applied) /\ storage' = storage
    BY <1>3, <1>4, Zenon DEF Bulk, FlushLedger, FlushRows
<1>6. run[r].docs \in Seq(Docs) /\ run[r].pc = "work" /\ run[r].at \in Row \cup {Nobody}
    BY <1>3 DEF TypeOK, Runs, FlushLedger, FlushRows, Marked
<1>7. ASSUME NEW at, NEW ids, NEW docs, NEW marks,
             Becomes(r, "work", run[r].todo, at, ids, docs, marks),
             ids # {} => at # Nobody, Hydrated(r)
      PROVE  Drained(r)
    BY <1>5, <1>7, RowsAlone, Zenon DEF Drained, Becomes
<1>8. CASE FlushLedger(r, n, verdict, applied)
    <2>1. CASE AllPassed(verdict) /\ n < Len(run[r].docs)
        <3>1. run' = [run EXCEPT ![r].docs = Rest(@, n)]
            BY <1>8, <2>1 DEF FlushLedger
        <3>2. Becomes(r, "work", run[r].todo, run[r].at, run[r].ids, Rest(run[r].docs, n),
                      run[r].marks)
            BY <1>6, <3>1, SentPartIs, Zenon
        <3> HIDE <3>1, <1>3, <1>8
        <3> QED
            BY <1>7, <3>2, RestHydrated, Zenon DEF Becomes
    <2>2. CASE ~(AllPassed(verdict) /\ n < Len(run[r].docs))
        <3> DEFINE mark == Outcome(Values(verdict))
        <3>1. mark \in {"done", "retry", "dead"} /\ GiveUp(r, mark) /\ run[r].at \in Row
            BY <1>6, <1>8, <2>2, OutcomeType DEF FlushLedger, NoLedger
        <3> HIDE DEF mark
        <3>2. Becomes(r, "work", run[r].todo, Nobody, {}, <<>>, {<<run[r].at, mark>>})
            BY <1>6, <3>1, GiveUpIs, Zenon
        <3> QED
            BY <1>7, <3>2, SameHydrated, Zenon DEF Becomes
    <2> QED
        BY <2>1, <2>2
<1>9. CASE FlushRows(r, n, verdict, applied)
    <2> DEFINE marks == RowMarks(run[r].docs, verdict, n)
    <2>1. marks \in SUBSET (Row \X {"done", "retry", "dead"})
        BY <1>6, MarksType
    <2>2. run' = [run EXCEPT ![r].docs = Rest(@, n), ![r].marks = marks]
        BY <1>9 DEF FlushRows
    <2> HIDE DEF marks
    <2>3. Becomes(r, "work", run[r].todo, run[r].at, run[r].ids, Rest(run[r].docs, n), marks)
        BY <1>6, <2>1, <2>2, SentIs, Zenon
    <2> HIDE <2>2, <1>3, <1>9
    <2> QED
        BY <1>7, <2>3, RestHydrated, Zenon DEF Becomes
<1> QED
    BY <1>3, <1>8, <1>9

\* Every step of a drain leaves this.
LEMMA DrainStep ==
    ASSUME Sound, NEW r \in Run, Start(r) \/ Step(r) \/ Trouble(r)
    PROVE  Drained(r)
<1>0. /\ TypeOK /\ Fenced /\ (run[r].ids # {} => run[r].at # Nobody)
      /\ run[r] \in Runs /\ hub \in [Item -> 0..MaxWrites] /\ 0 \in 0..MaxWrites
    BY NumbersAssumption DEF Sound, InHand, TypeOK
<1> DEFINE Alone == storage' = storage /\ UNCHANGED <<hub, deleted, writes, writer, index>>
<1>1. ASSUME Alone, NEW pc, NEW todo, NEW at, NEW ids, NEW docs, NEW marks,
             Becomes(r, pc, todo, at, ids, docs, marks), ids # {} => at # Nobody, Hydrated(r)
      PROVE  Drained(r)
    BY <1>0, <1>1, RowsAlone, Zenon DEF Drained, Becomes
<1>2. CASE Start(r)
    <2>1. Alone /\ Becomes(r, "loop", run[r].todo, run[r].at, run[r].ids, run[r].docs,
                           run[r].marks)
        BY <1>0, <1>2, StartIs, Zenon DEF Start
    <2>2. Hydrated(r)
        BY <2>1, SameHydrated, Zenon DEF Becomes
    <2> QED
        BY <1>0, <1>1, <2>1, <2>2, Zenon
<1>3. CASE Again(r)
    <2>1. Alone /\ run[r].ids = {} /\ Becomes(r, "loop", {}, Nobody, run[r].ids, <<>>, {})
        BY <1>0, <1>3, AgainIs, Zenon DEF Again, BatchOver, NoLedger
    <2> QED
        BY <1>1, <2>1, SameHydrated, Zenon DEF Becomes
<1>4. CASE HandOff(r) \/ Finish(r) \/ Crash(r)
    <2>1. Alone /\ Leave(r)
        BY <1>4, Zenon DEF HandOff, Finish, Crash
    <2> QED
        BY <1>0, <1>1, <2>1, LeaveIs, SameHydrated, Zenon DEF Becomes
<1>5. ASSUME NEW S \in SUBSET Row, Claim(r, S) PROVE Drained(r)
    <2>1. Becomes(r, "work", S, run[r].at, run[r].ids, run[r].docs, run[r].marks)
        BY <1>0, <1>5, ClaimIs, Zenon
    <2> QED
        BY <1>0, <1>5, <2>1, TakeFenced, SameHydrated, Zenon DEF Claim, Drained, Becomes
<1>6. ASSUME NEW S \in SUBSET Row, NEW Dead \in SUBSET S, ClaimUnresolved(r, S, Dead)
      PROVE  Drained(r)
    <2>1. Becomes(r, "work", run[r].todo, run[r].at, run[r].ids, run[r].docs,
                  {<<o, IF o \in Dead THEN "dead" ELSE "retry">> : o \in S})
        BY <1>0, <1>6, ClaimUnresolvedIs, Zenon
    <2> QED
        BY <1>0, <1>6, <2>1, TakeFenced, SameHydrated, Zenon
           DEF ClaimUnresolved, Drained, Becomes
<1>7. ASSUME NEW o \in run[r].todo, ReadLedger(r, o) PROVE Drained(r)
    <2>1. Becomes(r, "work", run[r].todo \ {o},
                  IF WrittenBy(o) = {} THEN Nobody ELSE o, WrittenBy(o), run[r].docs,
                  IF WrittenBy(o) = {} THEN {<<o, "done">>} ELSE {})
        BY <1>0, <1>7, ReadLedgerIs, Zenon
    <2>2. o # Nobody
        BY <1>0, NobodyAssumption DEF Runs
    <2> QED
        <3>1. Alone /\ Hydrated(r)
            BY <1>7, <2>1, SameHydrated, Zenon DEF ReadLedger, Becomes
        <3>2. WrittenBy(o) # {} => (IF WrittenBy(o) = {} THEN Nobody ELSE o) # Nobody
            BY <2>2
        <3> QED
            BY <1>1, <2>1, <3>1, <3>2, Zenon
<1>8. ASSUME NEW o \in run[r].todo, ReadRow(r, o) PROVE Drained(r)
    <2> DEFINE d == Doc(o, o[2], hub[o[2]])
    <2>1. /\ o \in Row /\ o[2] \in Item
          /\ \E marks : Becomes(r, "work", run[r].todo \ {o}, Nobody, run[r].ids,
                IF o[2] \in deleted THEN run[r].docs ELSE Append(run[r].docs, d), marks)
        BY <1>0, <1>8, ReadRowIs, Zenon
    <2>2. d \in Docs /\ d.ver \in {0, hub[d.item]}
        BY <1>0, <2>1 DEF Doc, Docs
    <2>3. run[r].ids = {}
        BY <1>0, <1>8, Zenon DEF ReadRow, NoLedger
    <2> HIDE DEF d
    <2>4. Hydrated(r)
        BY <1>0, <2>1, <2>2, SameHydrated, AppendHydrated, Zenon DEF Becomes
    <2> QED
        BY <1>1, <1>8, <2>1, <2>3, <2>4, Zenon DEF ReadRow
<1>9. ASSUME NEW i \in run[r].ids, ReadDoc(r, i) PROVE Drained(r)
    <2> DEFINE o == run[r].at
               d == Doc(o, i, IF storage[o].op = "delete" THEN 0 ELSE hub[i])
    <2>1. Alone /\ o \in Row /\ run[r].pc = "work" /\ i \in Item /\ o # Nobody
        BY <1>0, <1>9 DEF Runs, ReadDoc, Marked
    <2>2. CASE GiveUp(r, "retry")
        BY <1>0, <1>1, <2>1, <2>2, GiveUpIs, SameHydrated, Zenon DEF Becomes
    <2>3. CASE run' = [run EXCEPT ![r].ids = @ \ {i}, ![r].docs = Append(@, d)]
        <3>1. d \in Docs /\ d.ver \in {0, hub[d.item]}
            BY <1>0, <2>1 DEF Doc, Docs
        <3> HIDE DEF d
        <3>2. Becomes(r, "work", run[r].todo, run[r].at, run[r].ids \ {i},
                      Append(run[r].docs, d), run[r].marks)
            BY <1>0, <2>1, <2>3, <3>1, ReadDocIs, Zenon
        <3> QED
            BY <1>0, <1>1, <2>1, <3>1, <3>2, AppendHydrated, Zenon DEF Becomes
    <2> QED
        BY <1>9, <2>2, <2>3, Zenon DEF ReadDoc
<1>10. ASSUME NEW m \in run[r].marks, Mark(r, m) PROVE Drained(r)
    <2>1. Becomes(r, "work", run[r].todo, run[r].at, run[r].ids, run[r].docs,
                  run[r].marks \ {m})
        BY <1>0, <1>10, MarkIs, Zenon
    <2> QED
        BY <1>0, <1>10, <2>1, MarkFenced, SameHydrated, Zenon DEF Drained, Becomes
<1>11. CASE ReadFails(r)
    <2>1. Alone /\ run[r].pc = "work" /\ (run[r].ids # {} => run[r].at \in Row)
        BY <1>0, <1>11 DEF ReadFails, Marked, Runs
    <2>2. CASE run[r].ids # {} /\ GiveUp(r, "retry")
        BY <1>0, <1>1, <2>1, <2>2, GiveUpIs, SameHydrated, Zenon DEF Becomes
    <2>3. ASSUME NEW o \in run[r].todo, NoLedger(r),
                 run' = [run EXCEPT ![r].todo = @ \ {o}, ![r].marks = {<<o, "retry">>}]
          PROVE  Drained(r)
        <3>1. Becomes(r, "work", run[r].todo \ {o}, run[r].at, run[r].ids, run[r].docs,
                      {<<o, "retry">>})
            BY <1>0, <2>1, <2>3, DropRowIs, Zenon
        <3> HIDE <2>3
        <3>2. Hydrated(r)
            BY <3>1, SameHydrated, Zenon DEF Becomes
        <3> QED
            BY <1>0, <1>1, <2>1, <3>1, <3>2, Zenon
    <2> QED
        BY <1>11, <2>2, <2>3, Zenon DEF ReadFails, Ledgers
<1>12. CASE Flush(r)
    BY <1>0, <1>12, FlushDrained, Zenon
<1> QED
    BY <1>2, <1>3, <1>4, <1>5, <1>6, <1>7, <1>8, <1>9, <1>10, <1>11, <1>12, Zenon
       DEF Step, Trouble, Claims

\* What is left of it for the invariant.
LEMMA DrainSound ==
    ASSUME Sound, TypeOK', NEW r \in Run, Drained(r)
    PROVE  Sound'
<1>0. TypeOK /\ Recorded /\ WritesInOrder /\ RowsInOrder
    BY DEF Sound, Recorded
<1>1. WritesInOrder' /\ RowsInOrder'
    <2>1. CASE UNCHANGED <<hub, deleted, writes, writer, index>>
        <3>1. WritesInOrder'
            BY <1>0, <2>1, Zenon DEF WritesInOrder
        <3>2. RowsInOrder'
            BY <1>0, <2>1, RowsKeptInOrder, Zenon DEF Drained
        <3> QED
            BY <3>1, <3>2
    <2> QED
        BY <1>0, <2>1, BulkWrites, Zenon DEF Drained
<1>2. UNCHANGED <<hub, writes, writer>>
    BY Zenon DEF Drained, Bulk
<1>3. ASSUME NEW q \in Run, q # r PROVE Committed(q)'
    <2>1. run'[q] = run[q] /\ Committed(q)
        BY <1>0, <1>3, Zenon DEF Drained, Recorded
    <2>2. \A i \in Item : DocsFor(q, i)' = DocsFor(q, i)
        BY <2>1, Zenon DEF DocsFor
    <2> QED
        BY <1>2, <2>1, <2>2, Zenon DEF Committed
<1>4. Committed(r)'
    <2> SUFFICES ASSUME NEW i \in Item, NEW k \in DocsFor(r, i)'
                 PROVE  /\ run'[r].docs[k].ver <= writes
                        /\ \A u \in Writer : i \in writer[u].left
                              => run'[r].docs[k].ver # writer[u].write
        BY <1>2, Zenon DEF Committed
    <2>1. k \in DOMAIN run'[r].docs /\ run'[r].docs[k].item = i
        BY Zenon DEF DocsFor
    <2>2. ASSUME NEW m \in DOMAIN run[r].docs, run[r].docs[m] = run'[r].docs[k]
          PROVE  /\ run'[r].docs[k].ver <= writes
                 /\ \A u \in Writer : i \in writer[u].left
                       => run'[r].docs[k].ver # writer[u].write
        <3>1. m \in DocsFor(r, i)
            BY <2>1, <2>2, Zenon DEF DocsFor
        <3>2. /\ run[r].docs[m].ver <= writes
              /\ \A u \in Writer : i \in writer[u].left => run[r].docs[m].ver # writer[u].write
            BY <1>0, <3>1, DocsUnderWay, Zenon
        <3> QED
            BY <2>2, <3>2, Zenon
    <2>3. /\ hub[i] <= writes /\ writes \in Nat
          /\ \A u \in Writer : i \in writer[u].left => writer[u].write \notin {0, hub[i]}
        <3>1. /\ hub[i] <= writes /\ writes \in 0..MaxWrites
              /\ \A u \in Writer : i \in writer[u].left =>
                    writer[u].write \in 1..writes /\ writer[u].write # hub[i]
            BY <1>0, Zenon DEF TypeOK, WritesInOrder
        <3> QED
            BY <3>1, NumbersAssumption
    <2>4. CASE run'[r].docs[k].ver \in {0, hub[i]}
        BY <2>3, <2>4
    <2> QED
        BY <2>1, <2>2, <2>4, Zenon DEF Drained, Hydrated
<1>5. InHand'
    BY Zenon DEF Sound, Drained, InHand
<1> QED
    BY <1>1, <1>3, <1>4, <1>5, Zenon DEF Sound, Drained, Recorded

\* A step of a writer, a delete or the sweep inserts rows that did not exist.
LEMMA WriteSound ==
    ASSUME Sound, TypeOK',
           \/ \E u \in Writer : Writing(u)
           \/ \E i \in Item : DeleteItem(i)
           \/ Sweep
    PROVE  Sound' /\ SettledKept
<1>0. TypeOK /\ Recorded /\ Fenced /\ InHand
    BY DEF Sound
<1>1. WritesInOrder' /\ RowsInOrder' /\ Wrote
    BY <1>0, WriteStep, Zenon
<1>2. storage' = storage \/ \E rows : \E op : Enqueue(rows, op)
    BY Zenon DEF Writing, Prepare, CommitChunk, Dispatch, DispatchItems, Abandon, DeleteItem,
                 Sweep
<1>3. Fenced'
    <2>1. ASSUME NEW rows, NEW op, Enqueue(rows, op) PROVE Fenced'
        BY <1>0, <2>1 DEF Enqueue, Ready, NoRow, Fenced
    <2> QED
        BY <1>0, <1>2, <2>1, Zenon DEF Fenced
<1>4. SettledKept
    BY <1>1 DEF Wrote, Inserted, SettledKept, Exists
<1>5. run' = run
    BY <1>1, Zenon DEF Wrote
<1>6. ASSUME NEW r \in Run PROVE Committed(r)'
    <2>1. ASSUME NEW i \in Item, NEW k \in DocsFor(r, i)
          PROVE  /\ run[r].docs[k].ver <= writes'
                 /\ \A u \in Writer : i \in writer'[u].left
                       => run[r].docs[k].ver # writer'[u].write
        <3>1. run[r].docs[k].ver \in Nat /\ run[r].docs[k].ver <= writes
            BY <1>0, DocsUnderWay, Zenon
        <3>2. writes <= writes' /\ writes \in Nat /\ writes' \in Nat
            <4>1. writes <= writes' /\ writes \in 0..MaxWrites /\ writes' \in 0..MaxWrites
                BY <1>0, <1>1, Zenon DEF Wrote, TypeOK
            <4> QED
                BY <4>1, NumbersAssumption
        <3>3. run[r].docs[k].ver <= writes'
            BY <3>1, <3>2
        <3> QED
            BY <1>1, <3>3, Zenon DEF Wrote
    <2>2. \A i \in Item : DocsFor(r, i)' = DocsFor(r, i)
        BY <1>5, Zenon DEF DocsFor
    <2> QED
        BY <1>5, <2>1, <2>2, Zenon DEF Committed
<1>7. InHand'
    BY <1>0, <1>5, Zenon DEF InHand
<1> QED
    BY <1>1, <1>3, <1>4, <1>6, <1>7, Zenon DEF Sound, Recorded

\* Every step keeps the invariant, and leaves the settled rows.
LEMMA NextSound ==
    ASSUME Sound, [Next]_vars
    PROVE  Sound' /\ SettledKept
<1>1. CASE UNCHANGED vars
    <2>1. UNCHANGED <<hub, deleted, writes, writer, storage, run, index>>
        BY <1>1 DEF vars
    <2>2. TypeOK'
        BY <1>1 DEF vars, TypeOK, Sound
    <2>3. WritesInOrder' /\ RowsInOrder'
        BY <2>1, Zenon DEF Sound, Recorded, WritesInOrder, RowsInOrder, RowsOf, Exists
    <2>4. \A r \in Run : Committed(r)'
        BY <2>1, Zenon DEF Sound, Recorded, Committed, DocsFor
    <2>5. Fenced' /\ InHand' /\ SettledKept
        BY <2>1, Zenon DEF Sound, Fenced, InHand, SettledKept
    <2> QED
        BY <2>2, <2>3, <2>4, <2>5, Zenon DEF Sound, Recorded
<1>2. CASE Next
    <2>1. TypeOK'
        BY <1>2, TypeWriting, TypeDeleteItem, TypeSweep, TypeRun, Zenon DEF Next, Sound, InHand
    <2>2. ASSUME NEW r \in Run, Start(r) \/ Step(r) \/ Trouble(r)
          PROVE  Sound' /\ SettledKept
        BY <2>1, <2>2, DrainStep, DrainSound, Zenon DEF Drained
    <2> QED
        BY <1>2, <2>1, <2>2, WriteSound, Zenon DEF Next
<1> QED
    BY <1>1, <1>2

\* It holds at first.
LEMMA InitSound == Init => Sound
<1> SUFFICES ASSUME Init PROVE Sound
    OBVIOUS
<1>1. TypeOK /\ Recorded
    BY InitType, InitInOrder, InOrderRecorded
<1>2. Fenced /\ InHand
    BY DEF Init, Fenced, InHand, NoRow, NoRun
<1> QED
    BY <1>1, <1>2 DEF Sound

\* The types hold whatever the gate lets through.
THEOREM TypeCorrect == Spec => []TypeOK
<1>1. Sound => TypeOK
    BY DEF Sound
<1> QED
    BY <1>1, InitSound, NextSound, PTL DEF Spec

\* Every tombstone has the row of its delete, whatever crashes or fails: delete_item
\* inserts it in the transaction that sets deleted_at, so the sweep need look at active
\* items only.
THEOREM TombstoneHasRow ==
    Spec => [](\A i \in deleted : Exists(<<hub[i], Ledger, "dispatch">>))
<1>1. Sound => \A i \in deleted : Exists(<<hub[i], Ledger, "dispatch">>)
    BY DEF Sound, Recorded, RowsInOrder
<1> QED
    BY <1>1, InitSound, NextSound, PTL DEF Spec

\* A row that is done or dead is never claimed, marked or inserted again, even when an
\* offload run or one that fails open drains beside a gated one: the claim takes ready
\* and in-flight rows only, the CAS of a mark misses a row that another run has settled,
\* and every INSERT is of a row that did not exist.
THEOREM SettledRowStays ==
    Spec => [][\A o \in Row : storage[o].status \in {"done", "dead"}
                              => storage'[o] = storage[o]]_vars
<1>1. Sound /\ [Next]_vars
        => [\A o \in Row : storage[o].status \in {"done", "dead"}
                           => storage'[o] = storage[o]]_vars
    BY NextSound, Zenon DEF SettledKept
<1> QED
    BY <1>1, InitSound, NextSound, PTL DEF Spec
============================================================================
