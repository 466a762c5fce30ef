---------------------------- MODULE LeaderLease ----------------------------
(***************************************************************************)
(* Leader election of LEADER_ONLY background services over one row of      *)
(* configs.leader_lease.  A process takes or renews the row with one       *)
(* compare-and-swap statement.  In the per-tick regime it runs one tick    *)
(* and releases; in the heartbeat regime it keeps the row, renewed by a    *)
(* second coroutine, and runs one tick after another.                      *)
(*                                                                         *)
(* Time is kept as the time left until something happens, so that no clock *)
(* grows: left is expires_at - now(), which is negative once expired.      *)
(* _LEASE_OWNER is minted when a process starts: a restarted process is a  *)
(* new member of Process.  The columns epoch, acquired_at and renewed_at   *)
(* are read by no guard and left out.                                      *)
(***************************************************************************)
EXTENDS Integers

CONSTANTS
    Process,    \* values of _LEASE_OWNER
    Nobody,     \* the row does not exist yet
    Heartbeat,  \* lease_renewal_mode of the service is HEARTBEAT
    Mortal,     \* processes that may be killed
    TTL,        \* lease_ttl_seconds
    Skew,       \* lease_skew_margin_seconds
    Renew,      \* lease_renew_interval_seconds
    Latency     \* longest time from the start of a CAS to the use of its answer

ASSUME ProcessAssumption == Nobody \notin Process /\ Mortal \subseteq Process
ASSUME HeartbeatAssumption == Heartbeat \in BOOLEAN
ASSUME TimeAssumption ==
    /\ TTL \in Nat /\ Skew \in Nat /\ Renew \in Nat /\ Latency \in Nat
    /\ Latency <= Skew
    /\ Skew < TTL
    /\ Renew + 2 * Latency <= TTL

VARIABLES
    lease,   \* the row: its owner and the time left until expires_at
    pc,      \* where the leader loop of each process stands
    beat,    \* where the renewal coroutine of each process stands
    age,     \* time since now() of the transaction of the loop
    beatAge, \* the same for the renewal, or the time until the next one
    due,     \* time left until the clamp cancels the running tick
    lost     \* lost_event is set

vars == <<lease, pc, beat, age, beatAge, due, lost>>

(***************************************************************************)
(*   idle     between elections                                            *)
(*   cas      pre-check passed, the CAS not executed yet                   *)
(*   won      the CAS committed in our favour, its answer under way        *)
(*   tick     on_leader_tick or on_tick runs                               *)
(*   between  heartbeat regime: leader, sleeping until the next tick       *)
(*   release  leaving the context manager                                  *)
(*   dead     the process is gone                                          *)
(***************************************************************************)
PC == {"idle", "cas", "won", "tick", "between", "release", "dead"}

Beat == {"off", "sleep", "cas", "answered"}

Init ==
    /\ lease = [owner |-> Nobody, left |-> -1]
    /\ pc = [p \in Process |-> "idle"]
    /\ beat = [p \in Process |-> "off"]
    /\ age = [p \in Process |-> 0]
    /\ beatAge = [p \in Process |-> 0]
    /\ due = [p \in Process |-> 0]
    /\ lost = [p \in Process |-> FALSE]

----------------------------------------------------------------------------
\* A plausible bug: the CAS takes a lease over whether or not it has expired.
CasMatchesAnyLease(p, a) == TRUE

\* A plausible bug: the CAS renews its own lease and creates the row, but
\* does not take over an expired one.
CasMatchesOwnLease(p, a) == lease.owner \in {p, Nobody}

\* The WHERE clause of _LEASE_CAS_SQL, with now() as it was a time units ago.
CasMatches(p, a) == lease.left + a < 0 \/ lease.owner = p

\* What the CAS writes: expires_at = now() + ttl.
CasLease(p, a) == [owner |-> p, left |-> TTL - a]

\* The transaction begins; the pre-check sees no live foreign lease.  (When
\* it does, or the breaker is open, the process sleeps for its cadence.)
Ask(p) ==
    /\ pc[p] = "idle"
    /\ lease.owner = p \/ lease.left <= 0
    /\ pc' = [pc EXCEPT ![p] = "cas"]
    /\ age' = [age EXCEPT ![p] = 0]
    /\ UNCHANGED <<lease, beat, beatAge, due, lost>>

\* _LEASE_CAS_SQL of lease_leadership and lease_leadership_with_heartbeat.
CasWin(p) ==
    /\ pc[p] = "cas"
    /\ CasMatches(p, age[p])
    /\ lease' = CasLease(p, age[p])
    /\ pc' = [pc EXCEPT ![p] = "won"]
    /\ UNCHANGED <<beat, age, beatAge, due, lost>>

\* No row, a lost row-lock race, a saturated pool or a database error.
CasFail(p) ==
    /\ pc[p] = "cas"
    /\ pc' = [pc EXCEPT ![p] = "idle"]
    /\ UNCHANGED <<lease, beat, age, beatAge, due, lost>>

\* The connection drops after the commit and the retries fail too.
LoseAnswer(p) ==
    /\ pc[p] = "won"
    /\ pc' = [pc EXCEPT ![p] = "idle"]
    /\ UNCHANGED <<lease, beat, age, beatAge, due, lost>>

\* A plausible bug: the tick may use the whole time-to-live.
ClampWithoutMargin == TTL

\* The longest a tick may run in either regime.
Clamp == TTL - Skew

\* The first tick of a tenure.
Lead(p) ==
    /\ pc[p] = "won"
    /\ pc' = [pc EXCEPT ![p] = "tick"]
    /\ due' = [due EXCEPT ![p] = Clamp]
    /\ lost' = [lost EXCEPT ![p] = FALSE]
    /\ IF Heartbeat
       THEN /\ beat' = [beat EXCEPT ![p] = "sleep"]
            /\ beatAge' = [beatAge EXCEPT ![p] = Renew]
       ELSE UNCHANGED <<beat, beatAge>>
    /\ UNCHANGED <<lease, age>>

\* The tick returns, raises or is cancelled at its clamp.  Only the heartbeat
\* regime goes on, and only if the lease is not known to be lost.
EndTick(p) ==
    /\ pc[p] = "tick"
    /\ \/ pc' = [pc EXCEPT ![p] = "release"]
       \/ Heartbeat /\ ~lost[p] /\ pc' = [pc EXCEPT ![p] = "between"]
    /\ UNCHANGED <<lease, beat, age, beatAge, due, lost>>

NextTick(p) ==
    /\ pc[p] = "between"
    /\ ~lost[p]
    /\ pc' = [pc EXCEPT ![p] = "tick"]
    /\ due' = [due EXCEPT ![p] = Clamp]
    /\ UNCHANGED <<lease, beat, age, beatAge, lost>>

\* The loss interrupts the sleep; a shutdown ends it.
Resign(p) ==
    /\ pc[p] = "between"
    /\ pc' = [pc EXCEPT ![p] = "release"]
    /\ UNCHANGED <<lease, beat, age, beatAge, due, lost>>

\* A plausible bug: the release goes by lock_key alone.
ReleasedWhoever(p) == [lease EXCEPT !.left = 0]

\* _lease_best_effort_release.
Released(p) == IF lease.owner = p THEN [lease EXCEPT !.left = 0] ELSE lease

\* The finally block: the renewal is cancelled, the row given back.  An error
\* of the release is swallowed.
Release(p) ==
    /\ pc[p] = "release"
    /\ \/ lease' = Released(p)
       \/ UNCHANGED lease
    /\ pc' = [pc EXCEPT ![p] = "idle"]
    /\ beat' = [beat EXCEPT ![p] = "off"]
    /\ lost' = [lost EXCEPT ![p] = TRUE]
    /\ UNCHANGED <<age, beatAge, due>>

----------------------------------------------------------------------------
\* start_lease_heartbeat: the sleep is over and the renewal's transaction
\* begins.
BeatAsk(p) ==
    /\ beat[p] = "sleep"
    /\ beatAge[p] = 0
    /\ beat' = [beat EXCEPT ![p] = "cas"]
    /\ UNCHANGED <<lease, pc, age, beatAge, due, lost>>

\* renew_lease: the same CAS as the acquisition.
BeatRenew(p) ==
    /\ beat[p] = "cas"
    /\ CasMatches(p, beatAge[p])
    /\ lease' = CasLease(p, beatAge[p])
    /\ beat' = [beat EXCEPT ![p] = "answered"]
    /\ UNCHANGED <<pc, age, beatAge, due, lost>>

BeatAgain(p) ==
    /\ beat[p] = "answered"
    /\ beat' = [beat EXCEPT ![p] = "sleep"]
    /\ beatAge' = [beatAge EXCEPT ![p] = Renew]
    /\ UNCHANGED <<lease, pc, age, due, lost>>

\* Any failure of a renewal sets lost_event and ends the coroutine, also when
\* the row was renewed and only the answer is missing.  The tick that runs is
\* not interrupted.
BeatLost(p) ==
    /\ beat[p] \in {"cas", "answered"}
    /\ beat' = [beat EXCEPT ![p] = "off"]
    /\ lost' = [lost EXCEPT ![p] = TRUE]
    /\ UNCHANGED <<lease, pc, age, beatAge, due>>

Die(p) ==
    /\ p \in Mortal
    /\ pc[p] # "dead"
    /\ pc' = [pc EXCEPT ![p] = "dead"]
    /\ beat' = [beat EXCEPT ![p] = "off"]
    /\ UNCHANGED <<lease, age, beatAge, due, lost>>

----------------------------------------------------------------------------
\* A plausible bug: the tick is awaited without wait_for.
PromptUnclamped(p) ==
    /\ pc[p] \in {"cas", "won"} => age[p] < Latency
    /\ pc[p] = "between" => ~lost[p]
    /\ beat[p] = "sleep" => beatAge[p] > 0
    /\ beat[p] \in {"cas", "answered"} => beatAge[p] < Latency

\* The event loop of a live process is not starved: a timer that is due fires
\* and a set event wakes its waiter before time goes on.
Prompt(p) ==
    /\ pc[p] \in {"cas", "won"} => age[p] < Latency
    /\ pc[p] = "tick" => due[p] > 0
    /\ pc[p] = "between" => ~lost[p]
    /\ beat[p] = "sleep" => beatAge[p] > 0
    /\ beat[p] \in {"cas", "answered"} => beatAge[p] < Latency

\* No transaction looks back further than Latency, so how long ago an older
\* lease expired makes no difference.
LongExpired == -(Latency + 1)

TimePasses ==
    /\ \A p \in Process : Prompt(p)
    /\ lease' = [lease EXCEPT !.left = IF @ > LongExpired THEN @ - 1 ELSE @]
    /\ age' = [p \in Process |->
                 IF pc[p] \in {"cas", "won"} THEN age[p] + 1 ELSE age[p]]
    /\ beatAge' = [p \in Process |->
                     CASE beat[p] = "sleep" -> beatAge[p] - 1
                       [] beat[p] \in {"cas", "answered"} -> beatAge[p] + 1
                       [] OTHER -> beatAge[p]]
    /\ due' = [p \in Process |-> IF pc[p] = "tick" THEN due[p] - 1 ELSE due[p]]
    /\ UNCHANGED <<pc, beat, lost>>

Loop(p) ==
    \/ Ask(p) \/ CasWin(p) \/ CasFail(p) \/ LoseAnswer(p)
    \/ Lead(p) \/ EndTick(p) \/ NextTick(p) \/ Resign(p) \/ Release(p)

Renewal(p) == BeatAsk(p) \/ BeatRenew(p) \/ BeatAgain(p) \/ BeatLost(p)

Next ==
    \/ \E p \in Process : Loop(p) \/ Renewal(p) \/ Die(p)
    \/ TimePasses

Spec == Init /\ [][Next]_vars

\* Time goes on, a loop that can step does, and the database does not fail
\* every CAS, nor the network every answer, of one process for ever.
FairSpec ==
    /\ Spec
    /\ WF_vars(TimePasses)
    /\ \A p \in Process :
         /\ WF_vars(Loop(p))
         /\ WF_vars(Renewal(p))
         /\ SF_vars(Ask(p))
         /\ SF_vars(CasWin(p))
         /\ SF_vars(Lead(p))

----------------------------------------------------------------------------
TypeOK ==
    /\ lease \in [owner : Process \cup {Nobody}, left : Int]
    /\ pc \in [Process -> PC]
    /\ beat \in [Process -> Beat]
    /\ age \in [Process -> Nat]
    /\ beatAge \in [Process -> Nat]
    /\ due \in [Process -> Nat]
    /\ lost \in [Process -> BOOLEAN]

\* Two processes never run the tick of one service at the same time in the
\* per-tick regime: the clamp of on_leader_tick ends a tick before the lease
\* it was started under can be taken over.
SingleLeader ==
    \A p, q \in Process : pc[p] = "tick" /\ pc[q] = "tick" => p = q

\* A tick never outlives the lease it runs under (locking_tools.py, the
\* docstring of run_lease_leadership_heartbeat_loop).
TickWithinLease ==
    \A p \in Process : pc[p] = "tick" => lease.owner = p /\ lease.left >= 0

\* How much longer than its lease a tick may run.  In the heartbeat regime
\* the clamp counts from the start of the tick, and the lease from the last
\* renewal, which may lie one interval and two round trips further back.
Overrun == (IF Heartbeat THEN Renew + 2 * Latency ELSE Latency) - Skew

\* In both regimes a tick is cancelled at the latest Overrun after its lease
\* expires: while it owns the row, and once a successor does.
OverrunBounded ==
    \A p \in Process : pc[p] = "tick" =>
        IF lease.owner = p THEN due[p] <= lease.left + Overrun
                           ELSE due[p] < Overrun

\* In the heartbeat regime a process that has not been told of a loss
\* (lost_event of start_lease_heartbeat) does hold the lease, and with time
\* to spare: whatever its tick does, the renewal comes first.
Tenure ==
    \A p \in Process : Heartbeat /\ pc[p] \in {"tick", "between"} /\ ~lost[p] =>
        lease.owner = p /\ lease.left >= TTL - Renew - 2 * Latency

\* Nobody but its owner changes a lease that has not expired: no election
\* takes it over, and no late release or renewal of a former leader touches
\* a successor's.
LiveLeaseUntouched ==
    [][\A p \in Process :
         lease.owner = p /\ lease.left >= 0 /\ lease' # lease =>
             TimePasses \/ Loop(p) \/ Renewal(p)]_vars

(***************************************************************************)
(* The inductive invariant behind OverrunBounded and Tenure: what each     *)
(* process may conclude of the lease from where its two coroutines stand.  *)
(***************************************************************************)
RoundTrips ==
    \A p \in Process :
        /\ pc[p] \in {"cas", "won"} => age[p] <= Latency
        /\ beat[p] \in {"cas", "answered"} => beatAge[p] <= Latency
        /\ beat[p] = "sleep" => beatAge[p] <= Renew
        /\ pc[p] = "between" => Heartbeat
        /\ beat[p] # "off" => Heartbeat /\ pc[p] \in {"tick", "between", "release"}

Winner(p) == lease.owner = p /\ lease.left >= TTL - age[p]

Renewing(p) ==
    /\ lease.owner = p
    /\ \/ /\ beat[p] = "sleep"
          /\ lease.left >= TTL - Latency - Renew + beatAge[p]
       \/ beat[p] = "cas" /\ lease.left >= TTL - Latency - Renew - beatAge[p]
       \/ beat[p] = "answered" /\ lease.left >= TTL - beatAge[p]

Clamped(p) ==
    /\ due[p] <= Clamp
    /\ IF lease.owner = p THEN due[p] <= lease.left + Overrun
                          ELSE due[p] < Overrun

\* Each process knows what the positions of its loop and of its renewal say.
Knowledge ==
    /\ RoundTrips
    /\ \A p \in Process :
          /\ pc[p] = "won" => Winner(p)
          /\ Heartbeat /\ pc[p] \in {"tick", "between"} /\ ~lost[p] => Renewing(p)
          /\ pc[p] = "tick" => Clamped(p)

\* Some process leads again and again, whichever leader is killed and
\* whatever state it leaves the row in, as long as one process lives.
LedAgain == []<>(\E p \in Process : pc[p] = "tick")
============================================================================
