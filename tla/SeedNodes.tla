------------------------------ MODULE SeedNodes ------------------------------
(***************************************************************************)
(* The crawler of seed nodes, bts_tools/seednodes.py: monitor_seed_nodes() *)
(* probes every seed of a chain in a thread of its own, waits for them a   *)
(* limited time, keeps the answers of the last three rounds and shows for  *)
(* each seed a status that one bad answer does not change.  The threads    *)
(* that are not waited for any longer go on, and write what they find into *)
(* the answers of their round, which are in the history by then.           *)
(***************************************************************************)
EXTENDS Integers, Sequences

CONSTANTS Seeds,     \* SEED_NODES[chain]
          Statuses   \* what check_seed_status() returns

HistoryLen == 3      \* deque(maxlen=3)

(* A seed that is not in the answers; the answers differ; nothing is shown yet. *)
Unknown == "unknow seed"
Undecided == "undecided"
NotShown == "not shown"

SeedsAssumption ==
    /\ "online" \in Statuses
    /\ Statuses \cap {Unknown, Undecided, NotShown} = {}

VARIABLES
    at,        \* where monitor_seed_nodes() is
    round,     \* seed_status of the round being probed, and the threads that write to it
    past,      \* _HISTORY[chain]: those of the last rounds
    shown,     \* _SEEDS_STATUS[chain]
    lastSeen   \* history: how many rounds ago the last probe that found the seed
               \* online began, at most HistoryLen

vars == <<at, round, past, shown, lastSeen>>

Shown == Statuses \cup {Unknown, Undecided, NotShown}
Rounds == [answers : [Seeds -> Statuses \cup {Unknown}], probing : SUBSET Seeds]
NoRound == [answers |-> [s \in Seeds |-> Unknown], probing |-> {}]

TypeOK ==
    /\ at \in {"sleeping", "joining", "deciding"}
    /\ round \in Rounds
    /\ past \in Seq(Rounds) /\ Len(past) <= HistoryLen
    /\ shown \in [Seeds -> Shown]
    /\ lastSeen \in [Seeds -> 0..HistoryLen]

Init ==
    /\ at = "sleeping"
    /\ round = NoRound
    /\ past = <<>>
    /\ shown = [s \in Seeds |-> NotShown]
    /\ lastSeen = [s \in Seeds |-> HistoryLen]
-----------------------------------------------------------------------------
(* check_all_seeds(): a thread is started for every seed. *)
StartProbes ==
    /\ at = "sleeping" /\ at' = "joining"
    /\ round' = [NoRound EXCEPT !.probing = Seeds]
    /\ lastSeen' = [s \in Seeds |-> IF lastSeen[s] < HistoryLen THEN lastSeen[s] + 1 ELSE HistoryLen]
    /\ UNCHANGED <<past, shown>>

(* set_seed_status(): what a probe comes to.  An exception that check_seed_status() *)
(* does not handle, such as a connection reset while it waits for the hello message,*)
(* ends the thread without an answer.                                               *)
Finished(r, s, status) == [answers |-> [r.answers EXCEPT ![s] = status], probing |-> r.probing \ {s}]

Sees(s, status, ago) ==
    lastSeen' = [lastSeen EXCEPT ![s] = IF status = "online" /\ ago < @ THEN ago ELSE @]

Answer(s) ==
    /\ s \in round.probing
    /\ \E status \in Statuses \cup {Unknown} :
         round' = Finished(round, s, status) /\ Sees(s, status, 0)
    /\ UNCHANGED <<at, past, shown>>

(* How many rounds ago the round past[i] was. *)
Ago(i) == Len(past) - i + (IF at = "joining" THEN 1 ELSE 0)

(* Mutant: the answers are written to a dictionary of the module. *)
LateAnswerToCurrentRound(i, s) ==
    /\ s \in past[i].probing
    /\ \E status \in Statuses \cup {Unknown} :
         /\ past' = [past EXCEPT ![i].probing = @ \ {s}, ![Len(past)].answers[s] = status]
         /\ Sees(s, status, Ago(i))
    /\ UNCHANGED <<at, round, shown>>

(* A thread that was not waited for writes to the answers of its own round. *)
LateAnswer(i, s) ==
    /\ s \in past[i].probing
    /\ \E status \in Statuses \cup {Unknown} :
         past' = [past EXCEPT ![i] = Finished(past[i], s, status)] /\ Sees(s, status, Ago(i))
    /\ UNCHANGED <<at, round, shown>>

(* Mutant: a deque without a bound. *)
RememberAll(r) == past' = Append(past, r)

Remember(r) ==
    past' = IF Len(past) = HistoryLen THEN Append(Tail(past), r) ELSE Append(past, r)

(* Mutant: the threads are joined without a timeout. *)
JoinWithoutTimeout ==
    /\ at = "joining" /\ at' = "deciding"
    /\ round.probing = {}
    /\ Remember(round)
    /\ round' = NoRound
    /\ UNCHANGED <<shown, lastSeen>>

(* Each thread has ended or was waited for long enough. *)
Join ==
    /\ at = "joining" /\ at' = "deciding"
    /\ Remember(round)
    /\ round' = NoRound
    /\ UNCHANGED <<shown, lastSeen>>

(* stable_status() *)
StableStatus(s) ==
    LET seedHistory == [i \in DOMAIN past |-> past[i].answers[s]]
        last == seedHistory[Len(past)]
    IN IF \A i \in DOMAIN past : seedHistory[i] = last THEN last
       ELSE IF \E i \in DOMAIN past : seedHistory[i] = "online" THEN "online"
       ELSE Undecided

Show ==
    /\ at = "deciding" /\ at' = "sleeping"
    /\ shown' = [s \in Seeds |-> StableStatus(s)]
    /\ UNCHANGED <<round, past, lastSeen>>

Crawler == StartProbes \/ Join \/ Show

Next ==
    \/ Crawler
    \/ \E s \in Seeds : Answer(s)
    \/ \E i \in DOMAIN past, s \in Seeds : LateAnswer(i, s)

Spec == Init /\ [][Next]_vars

(* Joining has a timeout and sleeping ends.  Nothing is assumed of the seeds. *)
FairSpec == Spec /\ WF_vars(Crawler)
-----------------------------------------------------------------------------
(* A seed is shown online exactly when a probe of the last three rounds found it    *)
(* so: a late answer counts for the round that asked, never for a later one, and a   *)
(* seed has to be missed three times in a row to be shown otherwise                  *)
(* (seednodes.py:190-193, 209, 221-231).                                             *)
ShownAsSeen ==
    [][at = "deciding" /\ at' = "sleeping" =>
         \A s \in Seeds : shown'[s] = "online" <=> lastSeen[s] < HistoryLen]_vars

(* A seed whose probe never ends does not keep the others from being looked at again *)
(* and shown (seednodes.py:202-203).                                                  *)
RoundsGoOn == at = "sleeping" ~> at = "deciding"
==============================================================================
