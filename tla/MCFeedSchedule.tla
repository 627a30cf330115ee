--------------------------- MODULE MCFeedSchedule ---------------------------
(* Instances of FeedSchedule for TLC.  The units of time differ: what matters is *)
(* how the intervals, the delays and the hour compare.                           *)
EXTENDS FeedSchedule, TLC

CONSTANTS bts, steem, alice, bob, carol

OneEach == bts :> <<alice>> @@ steem :> <<carol>>
TwoAndOne == bts :> <<alice, bob>> @@ steem :> <<carol>>

(* A fixed interval of two checks, with a Steem client that adds to the count  *)
(* and publishes often.                                                        *)
Interval == [clients |-> {bts, steem}, steem |-> {steem}, publishers |-> OneEach,
             check |-> 3, interval |-> 6, slot |-> Unset, hour |-> 18, twelveHours |-> 9,
             starts |-> {0, 1}, reliable |-> TRUE, delay |-> 1, maxTime |-> 13]

(* A slot late in the hour, two publishers, and checks at any phase to it. *)
Slot == [clients |-> {bts}, steem |-> {}, publishers |-> bts :> <<alice, bob>>,
         check |-> 30, interval |-> Unset, slot |-> 50, hour |-> 60, twelveHours |-> 720,
         starts |-> 0..29, reliable |-> TRUE, delay |-> 1, maxTime |-> 145]

(* Everything may fail. *)
Failures == [clients |-> {bts, steem}, steem |-> {steem}, publishers |-> TwoAndOne,
             check |-> 1, interval |-> 2, slot |-> 1, hour |-> 3, twelveHours |-> 36,
             starts |-> {0}, reliable |-> FALSE, delay |-> 0, maxTime |-> 2]

(* An interval shorter than the checks, as in config.yaml (60 s and 600 s): the *)
(* period is 0 and every decision divides by it.                                *)
TooOften == [Failures EXCEPT !.check = 2, !.interval = 1, !.maxTime = 3]

EverySetting == [interval |-> Interval, slot |-> Slot, failures |-> Failures, tooOften |-> TooOften]

(* The intervals of these can be kept. *)
ASSUME SettingsAssumption ==
    \A s \in DOMAIN EverySetting : IntervalCanBeKept(EverySetting[s]) /\ SlotCanBeKept(EverySetting[s])

(* Two publishers on one client. *)
SecondPublisher == [second |-> [Interval EXCEPT !.publishers = TwoAndOne, !.maxTime = 20]]
=============================================================================
