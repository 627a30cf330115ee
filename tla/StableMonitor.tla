---------------------------- MODULE StableMonitor ----------------------------
(***************************************************************************)
(* One StableStateMonitor to which any states are pushed in any order, and *)
(* the promise it keeps: Debounce.                                         *)
(***************************************************************************)
EXTENDS StableState

CONSTANTS N, Values

ASSUME SizeAssumption == N \in Nat \ {0} /\ None \notin Values

VARIABLE m

TypeOK == IsMonitor(m, N, Values)

Init == m = NewMonitor(N)

Next == \E v \in Values : m' = Push(m, v)

Spec == Init /\ [][Next]_m

Abstract ==
    INSTANCE Debounce WITH Nothing <- None, seen <- LastPushed(m),
                           run <- RunLength(m), believed <- Settled(m),
                           report <- JustChanged(m)

(* A StableStateMonitor "is able to compute a stable state value when N          *)
(* consecutive same states have happened" (monitor.py:39): whatever is pushed,   *)
(* the believed value changes with the N-th equal state in a row and with no     *)
(* other, and just_changed() tells of it on that push and on no other.           *)
KeepsPromise == Abstract!Spec
==============================================================================
