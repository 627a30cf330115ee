----------------------------- MODULE StableState -----------------------------
(***************************************************************************)
(* The debouncer of the monitoring plugins, class StableStateMonitor of    *)
(* bts_tools/monitor.py, as operators on records.  A monitor keeps the     *)
(* last n+1 states pushed to it and the last value that was stable, that   *)
(* is, pushed n times in a row.                                            *)
(***************************************************************************)
EXTENDS Integers, Sequences

(* Python's None; no plugin pushes it as a state. *)
None == "None"

(* StableStateMonitor(n) *)
NewMonitor(n) == [n |-> n, states |-> <<>>, last |-> None]

(* Mutant: a queue without its bound. *)
DequeAppendUnbounded(s, x, max) == Append(s, x)

(* deque(maxlen = max).append(x): the oldest element makes room. *)
DequeAppend(s, x, max) ==
    IF Len(s) < max THEN Append(s, x) ELSE Append(Tail(s), x)

(* Mutant: one state fewer has to agree. *)
TailAgreesButOne(s, k) ==
    /\ Len(s) >= k
    /\ \A i \in (Len(s) - k + 2)..Len(s) : s[i] = s[Len(s)]

(* The last k elements of s exist and are all equal. *)
TailAgrees(s, k) ==
    /\ Len(s) >= k
    /\ \A i \in (Len(s) - k + 1)..Len(s) : s[i] = s[Len(s)]

(* stable_state() *)
Stable(m) ==
    IF TailAgrees(m.states, m.n) THEN m.states[Len(m.states)] ELSE None

(* The value the monitor stands by: what push() leaves in last_stable_state. *)
Settled(m) == IF Stable(m) # None THEN Stable(m) ELSE m.last

(* Mutant: the stable value is remembered after the new state was appended. *)
PushRemembersLate(m, x) ==
    LET states == DequeAppend(m.states, x, m.n + 1)
    IN [n |-> m.n, states |-> states, last |-> Settled([m EXCEPT !.states = states])]

(* push(x): what was stable before the new state is remembered first. *)
Push(m, x) ==
    [n |-> m.n, states |-> DequeAppend(m.states, x, m.n + 1), last |-> Settled(m)]

(* just_changed() *)
JustChanged(m) ==
    /\ Stable(m) # None
    /\ m.last # None
    /\ Stable(m) # m.last

(* The last state pushed, and how many of the last ones were equal to it, *)
(* counting no further than the size of the monitor.                      *)
LastPushed(m) ==
    IF m.states = <<>> THEN None ELSE m.states[Len(m.states)]

IsRun(m, k) ==
    /\ k \in 0..m.n
    /\ k = 0 <=> m.states = <<>>
    /\ TailAgrees(m.states, k)
    /\ k < m.n => ~TailAgrees(m.states, k + 1)

RunLength(m) == CHOOSE k \in 0..m.n : IsRun(m, k)

(* m is a monitor of size n over a set of states. *)
IsMonitor(m, n, Values) ==
    /\ m \in [n : {n}, states : Seq(Values), last : Values \cup {None}]
    /\ Len(m.states) <= n + 1
==============================================================================
