------------------------------- MODULE Debounce -------------------------------
(***************************************************************************)
(* What a StableStateMonitor promises, without its queue: a value is       *)
(* believed once it was observed N times in a row, and the change of the   *)
(* believed value is reported exactly when it happens, except for the very *)
(* first value, which nothing was believed before.                         *)
(***************************************************************************)
EXTENDS Integers

CONSTANTS N,        \* observations in a row that make a value believed, at least 1
          Values,   \* what can be observed
          Nothing   \* no value, not in Values

VARIABLES seen,      \* the last observation
          run,       \* how many times in a row it was observed, at most N
          believed,  \* the last value observed N times in a row
          report     \* the last observation changed the believed value

vars == <<seen, run, believed, report>>

TypeOK ==
    /\ seen \in Values \cup {Nothing}
    /\ run \in 0..N
    /\ believed \in Values \cup {Nothing}
    /\ report \in BOOLEAN

Init ==
    /\ seen = Nothing
    /\ run = 0
    /\ believed = Nothing
    /\ report = FALSE

(* The run after observing v. *)
RunWith(v) == IF v # seen THEN 1 ELSE IF run < N THEN run + 1 ELSE N

Observe(v) ==
    /\ seen' = v
    /\ run' = RunWith(v)
    /\ believed' = IF RunWith(v) = N THEN v ELSE believed
    /\ report' = (RunWith(v) = N /\ believed \notin {v, Nothing})

Next == \E v \in Values : Observe(v)

Spec == Init /\ [][Next]_vars
===============================================================================
