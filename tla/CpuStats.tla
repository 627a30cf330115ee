------------------------------ MODULE CpuStats ------------------------------
(***************************************************************************)
(* The samples behind the plots of the status page: init_ctx() and         *)
(* monitor() of bts_tools/monitoring/cpu_ram_usage.py, run in every        *)
(* iteration of a monitoring thread unless an exception ends it before.    *)
(* They are kept in a bounded deque; when that is full and shorter than    *)
(* the time span to plot, only one iteration in so many is recorded.       *)
(* A sample is how many iterations ago it was taken.                       *)
(***************************************************************************)
EXTENDS Integers, Sequences

CONSTANTS MaxLen,    \* maxlen
          TimeSpans  \* values of plots_time_span / time_interval

StatsAssumption == MaxLen \in Nat \ {0} /\ TimeSpans \subseteq Nat

VARIABLES
    desired,    \* desired_maxlen
    loopIndex,  \* ctx.loop_index, modulo the ratio
    stats,      \* ctx.stats, oldest first
    sparse      \* history: how many samples were recorded since the deque was full,
                \* at most its length

vars == <<desired, loopIndex, stats, sparse>>

StatsLen == IF desired < MaxLen THEN desired ELSE MaxLen  \* maxlen of the deque

(* Mutant: the ratio is rounded down. *)
RatioRoundedDown == IF desired < MaxLen THEN 1 ELSE desired \div MaxLen

(* math.ceil(stable_time_interval / time_interval) *)
Ratio == IF desired > MaxLen THEN (desired + MaxLen - 1) \div MaxLen ELSE 1

(* Ages are not told apart beyond the time span. *)
Oldest == StatsLen * Ratio + desired

TypeOK ==
    /\ desired \in TimeSpans
    /\ loopIndex \in 0..(Ratio - 1)
    /\ stats \in Seq(0..Oldest) /\ Len(stats) <= StatsLen
    /\ \A i, j \in DOMAIN stats : i < j => stats[i] > stats[j] \/ stats[i] = Oldest
    /\ sparse \in 0..StatsLen

Init ==
    /\ desired \in TimeSpans
    /\ loopIndex = 0
    /\ stats = <<>>
    /\ sparse = 0
-----------------------------------------------------------------------------
Full == Len(stats) = StatsLen

Decimated == desired > MaxLen  \* stable_time_interval differs from time_interval

NextIndex == (loopIndex + 1) % Ratio

Records == Decimated /\ Full => NextIndex = 0

Aged == [i \in DOMAIN stats |-> IF stats[i] < Oldest THEN stats[i] + 1 ELSE Oldest]

Sampled ==
    IF StatsLen = 0 THEN <<>>
    ELSE IF Full THEN Append(Tail(Aged), 0) ELSE Append(Aged, 0)

(* An iteration of the monitoring thread that comes to the plugin. *)
Monitor ==
    /\ loopIndex' = NextIndex
    /\ IF Records
       THEN /\ stats' = Sampled
            /\ sparse' = IF Full /\ sparse < StatsLen THEN sparse + 1 ELSE sparse
       ELSE stats' = Aged /\ UNCHANGED sparse
    /\ UNCHANGED desired

(* An iteration that an exception ended before. *)
Missed ==
    /\ loopIndex' = NextIndex
    /\ stats' = Aged
    /\ UNCHANGED <<desired, sparse>>

Next == Monitor \/ Missed

Spec == Init /\ [][Next]_vars
-----------------------------------------------------------------------------
(* Once the samples of the start are gone, "the time span will be at least the one  *)
(* asked for" (cpu_ram_usage.py:98-100), each sample standing for the time until the *)
(* next, whatever iterations are missed and however the span divides by the length. *)
SpanAsAsked ==
    sparse = StatsLen /\ StatsLen > 0 => stats[1] + Ratio >= desired
=============================================================================
