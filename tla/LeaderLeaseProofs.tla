------------------------- MODULE LeaderLeaseProofs -------------------------
(***************************************************************************)
(* Proofs about LeaderLease, for any number of processes and any times     *)
(* that satisfy TimeAssumption.                                            *)
(***************************************************************************)
EXTENDS LeaderLease, TLAPS

\* The configured times are naturals, a round trip fits the skew margin, and
\* the clamp is positive.
LEMMA Times ==
    /\ TTL \in Nat /\ Skew \in Nat /\ Renew \in Nat /\ Latency \in Nat
    /\ Clamp \in Nat /\ Clamp > 0 /\ Clamp = TTL - Skew
    /\ Overrun \in Int
    /\ Latency <= Skew /\ Skew < TTL /\ Renew + 2 * Latency <= TTL
BY TimeAssumption DEF Clamp, Overrun

\* The variables of LeaderLease keep their types: no timer of the tick, of a
\* round trip or of the renewal goes below zero.
THEOREM TypeCorrect == Spec => []TypeOK
<1>1. Init => TypeOK
  BY DEF Init, TypeOK, PC, Beat
<1>2. TypeOK /\ [Next]_vars => TypeOK'
  <2> SUFFICES ASSUME TypeOK, [Next]_vars PROVE TypeOK'
    OBVIOUS
  <2> USE DEF TypeOK
  <2>1. ASSUME NEW p \in Process, Loop(p) PROVE TypeOK'
    <3>1. CASE Ask(p)
      BY <3>1 DEF Ask, PC
    <3>2. CASE CasWin(p)
      BY <3>2, Times DEF CasWin, CasLease, PC
    <3>3. CASE CasFail(p) \/ LoseAnswer(p) \/ EndTick(p) \/ Resign(p)
      BY <3>3 DEF CasFail, LoseAnswer, EndTick, Resign, PC
    <3>4. CASE Lead(p)
      BY <3>4, Times DEF Lead, PC, Beat
    <3>5. CASE NextTick(p)
      BY <3>5, Times DEF NextTick, PC
    <3>6. CASE Release(p)
      BY <3>6 DEF Release, Released, PC, Beat
    <3> QED BY <2>1, <3>1, <3>2, <3>3, <3>4, <3>5, <3>6 DEF Loop
  <2>2. ASSUME NEW p \in Process, Renewal(p) PROVE TypeOK'
    <3>1. CASE BeatAsk(p) \/ BeatLost(p)
      BY <3>1, Zenon DEF BeatAsk, BeatLost, Beat
    <3>2. CASE BeatRenew(p)
      BY <3>2, Times DEF BeatRenew, CasLease, Beat
    <3>3. CASE BeatAgain(p)
      BY <3>3, Times DEF BeatAgain, Beat
    <3> QED BY <2>2, <3>1, <3>2, <3>3 DEF Renewal
  <2>3. ASSUME NEW p \in Process, Die(p) PROVE TypeOK'
    BY <2>3 DEF Die, PC, Beat
  <2>4. CASE TimePasses
    <3>1. lease' \in [owner : Process \cup {Nobody}, left : Int]
      BY <2>4, Times DEF TimePasses, LongExpired
    <3>2. age' \in [Process -> Nat]
      BY <2>4 DEF TimePasses
    <3>3. beatAge' \in [Process -> Nat]
      BY <2>4 DEF TimePasses, Prompt
    <3>4. due' \in [Process -> Nat]
      BY <2>4 DEF TimePasses, Prompt
    <3> QED BY <2>4, <3>1, <3>2, <3>3, <3>4 DEF TimePasses
  <2>5. CASE UNCHANGED vars
    BY <2>5 DEF vars
  <2> QED BY <2>1, <2>2, <2>3, <2>4, <2>5 DEF Next
<1> QED BY <1>1, <1>2, PTL DEF Spec

----------------------------------------------------------------------------
(* What another process may do to a lease that has not expired. *)

\* No compare-and-swap of another process matches a lease that has not
\* expired, however long ago its transaction began.
LEMMA NoTakeover ==
    ASSUME NEW p \in Process, NEW q \in Process, NEW a \in Nat,
           lease.left \in Int, lease.owner = p, lease.left >= 0, CasMatches(q, a)
    PROVE  q = p
BY DEF CasMatches

\* Nobody but its owner changes a lease that has not expired (_LEASE_CAS_SQL
\* and _lease_best_effort_release).
THEOREM LiveLeaseSafe == Spec => LiveLeaseUntouched
<1>1. TypeOK /\ [Next]_vars =>
        [\A p \in Process :
           lease.owner = p /\ lease.left >= 0 /\ lease' # lease =>
             TimePasses \/ Loop(p) \/ Renewal(p)]_vars
  <2> SUFFICES ASSUME TypeOK, Next,
                      NEW p \in Process, lease.owner = p, lease.left >= 0,
                      lease' # lease, ~TimePasses
               PROVE  Loop(p) \/ Renewal(p)
    BY DEF vars
  <2>1. PICK q \in Process : Loop(q) \/ Renewal(q) \/ Die(q)
    BY DEF Next
  <2>2. CasWin(q) \/ Release(q) \/ BeatRenew(q)
    BY <2>1 DEF Loop, Renewal, Die, Ask, CasFail, LoseAnswer, Lead, EndTick,
                NextTick, Resign, BeatAsk, BeatAgain, BeatLost
  <2>3. lease.left \in Int /\ age[q] \in Nat /\ beatAge[q] \in Nat
    BY DEF TypeOK
  <2>4. CASE CasWin(q)
    BY <2>3, <2>4, NoTakeover, Zenon DEF CasWin, Loop
  <2>5. CASE Release(q)
    BY <2>5, Zenon DEF Release, Released, Loop
  <2>6. CASE BeatRenew(q)
    BY <2>3, <2>6, NoTakeover, Zenon DEF BeatRenew, Renewal
  <2> QED BY <2>2, <2>4, <2>5, <2>6
<1> QED BY <1>1, TypeCorrect, PTL DEF Spec, LiveLeaseUntouched

----------------------------------------------------------------------------
(* The inductive invariant. *)

\* What Renewing says in all three positions of the renewal: the lease is
\* ours, with what two round trips and one interval leave of it.
LEMMA RenewingHolds ==
    ASSUME TypeOK, RoundTrips, NEW p \in Process, Renewing(p)
    PROVE  lease.owner = p /\ lease.left >= TTL - Renew - 2 * Latency /\ lease.left >= 0
<1>1. lease.left \in Int /\ beatAge[p] \in Nat
  BY DEF TypeOK
<1>2. CASE beat[p] = "sleep"
  BY <1>1, <1>2, Times DEF Renewing
<1>3. CASE beat[p] \in {"cas", "answered"}
  <2>1. beatAge[p] <= Latency
    BY <1>3 DEF RoundTrips
  <2> QED BY <1>1, <1>3, <2>1, Times DEF Renewing
<1> QED BY <1>2, <1>3 DEF Renewing

\* A process whose acquisition was committed holds a live lease while the
\* answer is under way.
LEMMA WinnerHolds ==
    ASSUME TypeOK, RoundTrips, NEW p \in Process, pc[p] = "won", Winner(p)
    PROVE  lease.owner = p /\ lease.left >= TTL - Latency /\ lease.left > 0
<1>1. lease.left \in Int /\ age[p] \in Nat /\ age[p] <= Latency
  BY DEF TypeOK, RoundTrips
<1> QED BY <1>1, Times DEF Winner

\* The effect of a compare-and-swap of q, by its election or its renewal, on
\* what any other process knows.
LEMMA CasSpares ==
    ASSUME TypeOK, Knowledge, NEW q \in Process, NEW a \in Nat, a <= Latency,
           CasMatches(q, a), lease' = CasLease(q, a),
           NEW p \in Process, p # q,
           pc'[p] = pc[p], beat'[p] = beat[p], age'[p] = age[p],
           beatAge'[p] = beatAge[p], due'[p] = due[p], lost'[p] = lost[p]
    PROVE  /\ pc'[p] # "won"
           /\ Heartbeat /\ pc'[p] \in {"tick", "between"} => lost'[p]
           /\ pc'[p] = "tick" => Clamped(p)'
<1>1. lease.left \in Int /\ due[p] \in Nat
  BY DEF TypeOK
<1>2. lease.owner = p => lease.left < 0
  BY <1>1, NoTakeover
<1>3. pc[p] # "won"
  BY <1>1, <1>2, WinnerHolds DEF Knowledge
<1>4. Heartbeat /\ pc[p] \in {"tick", "between"} => lost[p]
  BY <1>1, <1>2, RenewingHolds DEF Knowledge, TypeOK
<1>5. pc[p] = "tick" => Clamped(p)'
  <2>1. SUFFICES ASSUME pc[p] = "tick" PROVE Clamped(p)'
    OBVIOUS
  <2>2. Clamped(p)
    BY <2>1 DEF Knowledge
  <2>3. due[p] < Overrun
    BY <1>1, <1>2, <2>2, Times DEF Clamped
  <2>4. lease'.owner # p
    BY DEF CasLease
  <2>5. due'[p] <= Clamp' /\ due'[p] < Overrun'
    BY <2>2, <2>3 DEF Clamped, Clamp, Overrun
  <2> QED BY <2>4, <2>5 DEF Clamped
<1> QED BY <1>3, <1>4, <1>5

LEMMA InitKnowledge == Init => Knowledge
BY DEF Init, Knowledge, RoundTrips

\* Every step of the leader loop of q keeps what the processes know.
LEMMA LoopKeeps ==
    ASSUME TypeOK, TypeOK', Knowledge, NEW q \in Process, Loop(q)
    PROVE  Knowledge'
<1> USE DEF TypeOK
<1>1. CASE Ask(q)
  BY <1>1, Times DEF Ask, Knowledge, RoundTrips, Winner, Renewing, Clamped, Clamp, Overrun
<1>2. CASE CasWin(q)
  <2>1. RoundTrips'
    BY <1>2 DEF CasWin, Knowledge, RoundTrips
  <2>2. beat[q] = "off" /\ age[q] \in Nat /\ age[q] <= Latency
    BY <1>2 DEF CasWin, Knowledge, RoundTrips, Beat
  <2>3. Winner(q)' /\ pc'[q] = "won"
    BY <1>2, <2>2, Times DEF CasWin, CasLease, Winner
  <2>4. ASSUME NEW p \in Process, p # q
        PROVE  /\ pc'[p] # "won"
               /\ Heartbeat /\ pc'[p] \in {"tick", "between"} => lost'[p]
               /\ pc'[p] = "tick" => Clamped(p)'
    BY <1>2, <2>2, <2>4, CasSpares DEF CasWin
  <2> QED BY <2>1, <2>3, <2>4 DEF Knowledge
<1>3. CASE CasFail(q) \/ LoseAnswer(q)
  BY <1>3 DEF CasFail, LoseAnswer, Knowledge, RoundTrips, Winner, Renewing, Clamped, Clamp, Overrun
<1>4. CASE Lead(q)
  <2>1. RoundTrips'
    BY <1>4, Times DEF Lead, Knowledge, RoundTrips
  <2>2. lease.owner = q /\ lease.left >= TTL - Latency /\ lease.left \in Int
    BY <1>4, WinnerHolds DEF Lead, Knowledge
  <2>3. Heartbeat => Renewing(q)'
    BY <1>4, <2>2, Times DEF Lead, Renewing
  <2>4. Clamped(q)'
    BY <1>4, <2>2, Times DEF Lead, Clamped, Clamp, Overrun
  <2>5. ASSUME NEW p \in Process, p # q
        PROVE  /\ pc'[p] = "won" => Winner(p)'
               /\ Heartbeat /\ pc'[p] \in {"tick", "between"} /\ ~lost'[p] => Renewing(p)'
               /\ pc'[p] = "tick" => Clamped(p)'
    BY <1>4, <2>5 DEF Lead, Knowledge, Winner, Renewing, Clamped, Clamp, Overrun
  <2>6. pc'[q] = "tick"
    BY <1>4 DEF Lead
  <2> QED BY <2>1, <2>3, <2>4, <2>5, <2>6 DEF Knowledge
<1>5. CASE EndTick(q) \/ Resign(q)
  BY <1>5 DEF EndTick, Resign, Knowledge, RoundTrips, Winner, Renewing, Clamped, Clamp, Overrun
<1>6. CASE NextTick(q)
  <2>1. RoundTrips'
    BY <1>6 DEF NextTick, Knowledge, RoundTrips
  <2>2. Heartbeat /\ Renewing(q)
    BY <1>6 DEF NextTick, Knowledge, RoundTrips
  <2>3. lease.owner = q /\ lease.left >= TTL - Renew - 2 * Latency
    BY <2>2, RenewingHolds DEF Knowledge
  <2>4. Clamped(q)'
    BY <1>6, <2>2, <2>3, Times DEF NextTick, Clamped, Clamp, Overrun
  <2>5. ASSUME NEW p \in Process, p # q
        PROVE  /\ pc'[p] = "won" => Winner(p)'
               /\ Heartbeat /\ pc'[p] \in {"tick", "between"} /\ ~lost'[p] => Renewing(p)'
               /\ pc'[p] = "tick" => Clamped(p)'
    BY <1>6, <2>5 DEF NextTick, Knowledge, Winner, Renewing, Clamped, Clamp, Overrun
  <2>6. pc'[q] = "tick" /\ (Heartbeat /\ ~lost'[q] => Renewing(q)')
    BY <1>6 DEF NextTick, Knowledge, Renewing
  <2> QED BY <2>1, <2>4, <2>5, <2>6 DEF Knowledge
<1>7. CASE Release(q)
  <2>1. RoundTrips'
    BY <1>7 DEF Release, Knowledge, RoundTrips
  <2>2. ASSUME NEW p \in Process, p # q
        PROVE  /\ pc'[p] = "won" => Winner(p)'
               /\ Heartbeat /\ pc'[p] \in {"tick", "between"} /\ ~lost'[p] => Renewing(p)'
               /\ pc'[p] = "tick" => Clamped(p)'
    <3>1. lease' = lease \/ (lease.owner = q /\ lease'.owner = q)
      BY <1>7 DEF Release, Released
    <3> QED BY <1>7, <2>2, <3>1 DEF Release, Knowledge, Winner, Renewing, Clamped, Clamp, Overrun
  <2>3. pc'[q] = "idle"
    BY <1>7 DEF Release
  <2> QED BY <2>1, <2>2, <2>3 DEF Knowledge
<1> QED BY <1>1, <1>2, <1>3, <1>4, <1>5, <1>6, <1>7 DEF Loop

\* So does every step of the renewal of q.
LEMMA RenewalKeeps ==
    ASSUME TypeOK, TypeOK', Knowledge, NEW q \in Process, Renewal(q)
    PROVE  Knowledge'
<1> USE DEF TypeOK
<1>0. pc' = pc /\ age' = age /\ due' = due
  BY DEF Renewal, BeatAsk, BeatRenew, BeatAgain, BeatLost
<1>1. CASE BeatAsk(q)
  <2>1. RoundTrips'
    BY <1>1, Times DEF BeatAsk, Knowledge, RoundTrips
  <2>2. ASSUME NEW p \in Process, Renewing(p) PROVE Renewing(p)'
    BY <1>1, <2>2, Times DEF BeatAsk, Renewing
  <2> QED BY <1>1, <2>1, <2>2 DEF BeatAsk, Knowledge, Winner, Clamped, Clamp, Overrun
<1>2. CASE BeatRenew(q)
  <2>1. RoundTrips'
    BY <1>2 DEF BeatRenew, Knowledge, RoundTrips
  <2>2. /\ Heartbeat /\ pc[q] \in {"tick", "between", "release"}
        /\ beatAge[q] \in Nat /\ beatAge[q] <= Latency
    BY <1>2 DEF BeatRenew, Knowledge, RoundTrips
  <2>3. Renewing(q)'
    BY <1>2, <2>2, Times DEF BeatRenew, CasLease, Renewing
  <2>4. pc[q] = "tick" => Clamped(q)'
    <3>1. SUFFICES ASSUME pc[q] = "tick" PROVE Clamped(q)'
      OBVIOUS
    <3>2. due[q] \in Nat /\ due[q] <= Clamp
      BY <3>1 DEF Knowledge, Clamped
    <3>3. lease' = [owner |-> q, left |-> TTL - beatAge[q]]
      BY <1>2 DEF BeatRenew, CasLease
    <3> QED BY <1>0, <2>2, <3>2, <3>3, Times DEF Clamped, Clamp, Overrun
  <2>5. ASSUME NEW p \in Process, p # q
        PROVE  /\ pc'[p] # "won"
               /\ Heartbeat /\ pc'[p] \in {"tick", "between"} => lost'[p]
               /\ pc'[p] = "tick" => Clamped(p)'
    BY <1>2, <2>2, <2>5, CasSpares DEF BeatRenew
  <2> QED BY <1>0, <2>1, <2>2, <2>3, <2>4, <2>5 DEF Knowledge
<1>3. CASE BeatAgain(q)
  <2>1. RoundTrips'
    BY <1>3, Times DEF BeatAgain, Knowledge, RoundTrips
  <2>2. beatAge[q] <= Latency
    BY <1>3 DEF BeatAgain, Knowledge, RoundTrips
  <2>3. ASSUME NEW p \in Process, Renewing(p) PROVE Renewing(p)'
    BY <1>3, <2>2, <2>3, Times DEF BeatAgain, Renewing
  <2> QED BY <1>3, <2>1, <2>3 DEF BeatAgain, Knowledge, Winner, Clamped, Clamp, Overrun
<1>4. CASE BeatLost(q)
  <2>1. RoundTrips'
    BY <1>4 DEF BeatLost, Knowledge, RoundTrips
  <2> QED BY <1>4, <2>1 DEF BeatLost, Knowledge, Winner, Renewing, Clamped, Clamp, Overrun
<1> QED BY <1>1, <1>2, <1>3, <1>4 DEF Renewal

\* And the passing of time, because a due timer fires before it goes on.
LEMMA TimeKeeps ==
    ASSUME TypeOK, TypeOK', Knowledge, TimePasses
    PROVE  Knowledge'
<1> USE DEF TypeOK
<1>1. RoundTrips'
  <2>1. ASSUME NEW p \in Process
        PROVE  /\ pc[p] \in {"cas", "won"} => age'[p] <= Latency
               /\ beat[p] \in {"cas", "answered"} => beatAge'[p] <= Latency
               /\ beat[p] = "sleep" => beatAge'[p] <= Renew
    BY Times DEF TimePasses, Prompt, Knowledge, RoundTrips
  <2> QED BY <2>1 DEF TimePasses, Knowledge, RoundTrips
<1>2. lease'.owner = lease.owner /\ lease'.left >= lease.left - 1
  BY Times DEF TimePasses, LongExpired
<1>3. ASSUME NEW p \in Process, pc[p] = "won" PROVE Winner(p)'
  <2>1. Winner(p) /\ age'[p] = age[p] + 1
    BY <1>3 DEF Knowledge, TimePasses
  <2> QED BY <1>2, <2>1, Times DEF Winner
<1>4. ASSUME NEW p \in Process, Renewing(p) PROVE Renewing(p)'
  <2>1. beat'[p] = beat[p]
    BY DEF TimePasses
  <2>2. CASE beat[p] = "sleep"
    <3>1. beatAge'[p] = beatAge[p] - 1
      BY <2>2 DEF TimePasses
    <3> QED BY <1>2, <1>4, <2>1, <2>2, <3>1, Times DEF Renewing
  <2>3. CASE beat[p] \in {"cas", "answered"}
    <3>1. beatAge'[p] = beatAge[p] + 1
      BY <2>3 DEF TimePasses
    <3> QED BY <1>2, <1>4, <2>1, <2>3, <3>1, Times DEF Renewing
  <2> QED BY <1>4, <2>2, <2>3 DEF Renewing
<1>5. ASSUME NEW p \in Process, pc[p] = "tick" PROVE Clamped(p)'
  <2>1. Clamped(p) /\ due'[p] = due[p] - 1
    BY <1>5 DEF Knowledge, TimePasses
  <2> QED BY <1>2, <2>1, Times DEF Clamped, Clamp, Overrun
<1> QED BY <1>1, <1>3, <1>4, <1>5 DEF TimePasses, Knowledge

\* Every process may rely on what the positions of its loop and its renewal
\* say about the lease.
THEOREM KnowledgeSound == Spec => []Knowledge
<1>1. TypeOK /\ TypeOK' /\ Knowledge /\ [Next]_vars => Knowledge'
  <2> SUFFICES ASSUME TypeOK, TypeOK', Knowledge, [Next]_vars PROVE Knowledge'
    OBVIOUS
  <2>1. ASSUME NEW q \in Process, Die(q) PROVE Knowledge'
    BY <2>1 DEF Die, TypeOK, Knowledge, RoundTrips, Winner, Renewing, Clamped, Clamp, Overrun
  <2>2. CASE UNCHANGED vars
    BY <2>2 DEF vars, Knowledge, RoundTrips, Winner, Renewing, Clamped, Clamp, Overrun
  <2> QED BY <2>1, <2>2, LoopKeeps, RenewalKeeps, TimeKeeps DEF Next
<1> QED BY <1>1, InitKnowledge, TypeCorrect, PTL DEF Spec

----------------------------------------------------------------------------
\* A tick is cancelled at the latest Overrun after its lease expires, in both
\* regimes (the clamp of on_leader_tick and on_tick).
THEOREM OverrunSafe == Spec => []OverrunBounded
<1>1. Knowledge => OverrunBounded
  BY DEF Knowledge, Clamped, OverrunBounded
<1> QED BY <1>1, KnowledgeSound, PTL

\* A leader of the heartbeat regime that was told of no loss has the lease.
THEOREM TenureSafe == Spec => []Tenure
<1>1. TypeOK /\ Knowledge => Tenure
  BY RenewingHolds DEF Knowledge, Tenure
<1> QED BY <1>1, KnowledgeSound, TypeCorrect, PTL

\* In the per-tick regime no tick outlives its lease.
THEOREM PerTickSafe ==
    ASSUME ~Heartbeat PROVE Spec => []TickWithinLease
<1>1. TypeOK /\ Knowledge => TickWithinLease
  <2> SUFFICES ASSUME TypeOK, Knowledge, NEW p \in Process, pc[p] = "tick"
               PROVE  lease.owner = p /\ lease.left >= 0
    BY DEF TickWithinLease
  <2>1. Clamped(p) /\ due[p] \in Nat /\ lease.left \in Int
    BY DEF Knowledge, TypeOK
  <2>2. Overrun \in Int /\ Overrun <= 0
    BY Times DEF Overrun
  <2> QED BY <2>1, <2>2 DEF Clamped
<1> QED BY <1>1, KnowledgeSound, TypeCorrect, PTL

\* In the per-tick regime no two processes run a tick at the same time.
THEOREM OneLeader ==
    ASSUME ~Heartbeat PROVE Spec => []SingleLeader
<1>1. TickWithinLease => SingleLeader
  BY DEF TickWithinLease, SingleLeader
<1> QED BY <1>1, PerTickSafe, PTL
============================================================================
