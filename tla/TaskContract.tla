---------------------------- MODULE TaskContract ----------------------------
(***************************************************************************)
(* What the task queue promises to those who submit tasks, without rows,   *)
(* leases in time, heartbeats, processes or retries: a task is open until  *)
(* a runner holds it, only its holder's completion is accepted, at most    *)
(* one completion ever is, and a task that nobody holds any more stays     *)
(* settled unless it failed and the operator opens it again.               *)
(***************************************************************************)

CONSTANTS Task, Runner, Nobody, Attempt

VARIABLES
    state,     \* of each task
    holder,    \* the runner whose writes the task takes
    accepted   \* the attempts whose completion was accepted

vars == <<state, holder, accepted>>

State == {"absent", "open", "held", "done", "failed", "cancelled", "gone"}

Init ==
    /\ state = [t \in Task |-> "absent"]
    /\ holder = [t \in Task |-> Nobody]
    /\ accepted = [t \in Task |-> {}]

Move(t, s, h) ==
    /\ state' = [state EXCEPT ![t] = s]
    /\ holder' = [holder EXCEPT ![t] = h]

MoveAll(S, s, h) ==
    /\ state' = [t \in Task |-> IF t \in S THEN s ELSE state[t]]
    /\ holder' = [t \in Task |-> IF t \in S THEN h ELSE holder[t]]

Submit(t) ==
    /\ state[t] = "absent"
    /\ Move(t, "open", Nobody)
    /\ UNCHANGED accepted

\* A runner comes to hold tasks that are open, and that nobody else holds.
Grant(S, d) ==
    /\ \A t \in S : state[t] = "open" /\ holder[t] = Nobody
    /\ MoveAll(S, "held", d)
    /\ UNCHANGED accepted

\* The task is opened again: its hold expired, or its holder gave it up.  A
\* runner that is still written down as the holder can do so late.
Release(t) ==
    /\ state[t] = "held" \/ holder[t] # Nobody
    /\ Move(t, "open", Nobody)
    /\ UNCHANGED accepted

\* The completion of an attempt, the only one that is ever accepted.
Accept(t, n) ==
    /\ holder[t] # Nobody
    /\ accepted[t] = {}
    /\ Move(t, "done", Nobody)
    /\ accepted' = [accepted EXCEPT ![t] = {n}]

\* The task is given up, by its holder or over the holder's head.
GiveUp(t) ==
    /\ state[t] \in {"open", "held"} \/ holder[t] # Nobody
    /\ \E h \in {holder[t], Nobody} : Move(t, "failed", h)
    /\ UNCHANGED accepted

Cancel(t) ==
    /\ state[t] \notin {"absent", "gone"}
    /\ Move(t, "cancelled", holder[t])
    /\ UNCHANGED accepted

\* The operator opens failed tasks again.
Reopen(S) ==
    /\ \A t \in S : state[t] = "failed"
    /\ MoveAll(S, "open", Nobody)
    /\ UNCHANGED accepted

Forget(t) ==
    /\ state[t] \in {"done", "failed"}
    /\ Move(t, "gone", Nobody)
    /\ UNCHANGED accepted

Next ==
    \/ \E t \in Task : \/ Submit(t) \/ Release(t) \/ GiveUp(t) \/ Cancel(t) \/ Forget(t)
                       \/ \E n \in Attempt : Accept(t, n)
    \/ \E S \in SUBSET Task : Reopen(S) \/ \E d \in Runner : Grant(S, d)

Spec == Init /\ [][Next]_vars

=============================================================================
