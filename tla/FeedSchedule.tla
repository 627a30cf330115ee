---------------------------- MODULE FeedSchedule ----------------------------
(***************************************************************************)
(* When feeds are published: check_feeds() of bts_tools/feeds.py, which    *)
(* every client with a feed publisher runs on a timer of its own, and      *)
(* should_publish() and should_publish_steem() of BitSharesFeedControl in  *)
(* bts_tools/feed_publish.py.  The threads share one BitSharesFeedControl. *)
(* Time is discrete, in a unit that divides the check interval.            *)
(***************************************************************************)
EXTENDS Integers, Sequences

CONSTANT Settings
    (* What config.yaml may say, by name, with the bounds that go with it:        *)
    (*   clients      those with a feed publisher, which have one timer each        *)
    (*   steem        those of them for Steem; the others are BitShares             *)
    (*   publishers   the feed publishers of each client, in order                  *)
    (*   check        check_time_interval                                           *)
    (*   interval     publish_strategy.time_interval, or Unset                      *)
    (*   slot         publish_strategy.time_slot, or Unset                          *)
    (*   hour, twelveHours   their length in units of time                          *)
    (*   starts       when the first check of a client may happen: soon after 0     *)
    (*   reliable     prices are always there and wallets always ready              *)
    (*   delay        bound on how long a check takes                               *)
    (*   maxTime      bound on the length of a behaviour                            *)

Unset == -1

(* The intervals of s are such that the code can keep them: one that is shorter *)
(* than the checks gives a period of 0 (feed_publish.py:150), last_published is  *)
(* that of one witness (feed_publish.py:165), minute 0 is no slot to the code    *)
(* (feed_publish.py:219), and the factor 1.1 allows for checks that take a       *)
(* twentieth of the interval.                                                    *)
PeriodIsPositive(s) == s.interval # Unset => s.interval >= s.check

OneWitness(s) ==
    \A c, d \in s.clients \ s.steem : \A i \in DOMAIN s.publishers[c], j \in DOMAIN s.publishers[d] :
        s.publishers[c][i] = s.publishers[d][j]

IntervalCanBeKept(s) == s.reliable /\ s.interval # Unset => PeriodIsPositive(s) /\ OneWitness(s)

SlotCanBeKept(s) == s.reliable /\ s.slot # Unset => PeriodIsPositive(s) /\ s.slot # 0 /\ 20 * s.delay < s.check

ASSUME ScheduleAssumption ==
    \A s \in DOMAIN Settings :
        LET c == Settings[s]
            names == UNION {{c.publishers[d][i] : i \in DOMAIN c.publishers[d]} : d \in c.clients}
        IN /\ c.steem \subseteq c.clients
           /\ c.publishers \in [c.clients -> Seq(names)]
           /\ c.check \in Nat \ {0} /\ c.hour \in Nat \ {0} /\ c.twelveHours \in Nat
           /\ c.interval \in Nat \cup {Unset} /\ c.slot \in 0..(c.hour - 1) \cup {Unset}
           /\ c.starts \subseteq 0..c.check /\ c.reliable \in BOOLEAN
           /\ c.delay \in Nat /\ c.maxTime \in Nat

VARIABLES
    config,         \* the name of the settings in use
    now,
    at,             \* where check_feeds() of each client is
    due,            \* when its timer fires, or fired
    read,           \* nfeed_checked as the thread read it
    checked,        \* feed_control.nfeed_checked
    turn,           \* position of the publisher the thread looks at
    lastPublished,  \* feed_control.last_published
    steemPublished, \* node.opts['last_published'] of Steem nodes, or Unset
    publishedBy     \* history: when each witness last published, or Unset

vars == <<config, now, at, due, read, checked, turn, lastPublished, steemPublished, publishedBy>>

AllClients == UNION {Settings[s].clients : s \in DOMAIN Settings}

Clients == Settings[config].clients
Steem == Settings[config].steem
Publishers == Settings[config].publishers
CheckInterval == Settings[config].check
TimeInterval == Settings[config].interval
TimeSlot == Settings[config].slot
Hour == Settings[config].hour
SteemInterval == Settings[config].twelveHours
Starts == Settings[config].starts
Reliable == Settings[config].reliable
MaxDelay == Settings[config].delay
MaxTime == Settings[config].maxTime

Names == UNION {{Publishers[c][i] : i \in DOMAIN Publishers[c]} : c \in Clients}
OfBitShares == UNION {{Publishers[c][i] : i \in DOMAIN Publishers[c]} : c \in Clients \ Steem}

Day == 24 * Hour

TypeOK ==
    /\ config \in DOMAIN Settings
    /\ now \in 0..MaxTime
    /\ at \in [Clients -> {"waiting", "fetched", "deciding", "publishing"}]
    /\ due \in [Clients -> 0..(MaxTime + CheckInterval)]
    /\ read \in [Clients -> Nat]
    /\ checked \in Nat
    /\ turn \in [Clients -> Nat]
    /\ \A c \in Clients : turn[c] \in 1..(Len(Publishers[c]) + 1)
    /\ lastPublished \in {-Day} \cup 0..MaxTime
    /\ steemPublished \in [Names -> {Unset} \cup 0..MaxTime]
    /\ publishedBy \in [Names -> {Unset} \cup 0..MaxTime]

Init ==
    /\ config \in DOMAIN Settings
    /\ now = 0
    /\ at = [c \in Clients |-> "waiting"]
    /\ due \in [Clients -> Starts]
    /\ read = [c \in Clients |-> 0]
    /\ checked = 0
    /\ turn = [c \in Clients |-> 1]
    /\ lastPublished = -Day
    /\ steemPublished = [n \in Names |-> Unset]
    /\ publishedBy = [n \in Names |-> Unset]
-----------------------------------------------------------------------------
(* should_publish() *)

Period == TimeInterval \div CheckInterval

(* nfeed_checked % feed_period raises when the period is 0. *)
DividesByZero == TimeInterval # Unset /\ Period = 0 /\ checked # 0

PeriodPassed == TimeInterval # Unset /\ checked % Period = 0

(* Mutant: the interval is only told by the number of checks. *)
NeverPassed == FALSE

IntervalPassed == TimeInterval > 0 /\ now - lastPublished > TimeInterval

(* Mutant: a slot is not looked for longer than the check interval. *)
SlotArrivedExactly ==
    /\ TimeSlot > 0
    /\ LET target == now - (now % Hour) + TimeSlot
       IN \E t \in {target - Hour, target, target + Hour} :
             0 < now - t /\ now - t < CheckInterval

(* The slot was passed since less than 1.1 check intervals.  Minute 0 is taken *)
(* for no slot.                                                                *)
SlotArrived ==
    /\ TimeSlot > 0
    /\ LET target == now - (now % Hour) + TimeSlot
       IN \E t \in {target - Hour, target, target + Hour} :
             0 < now - t /\ 10 * (now - t) < 11 * CheckInterval

ShouldPublish ==
    \/ checked = 0
    \/ ~DividesByZero /\ (PeriodPassed \/ IntervalPassed \/ SlotArrived)

(* should_publish_steem(): the first time, after 12 hours, or when the price moved. *)
ShouldPublishSteem(n, moved) ==
    \/ steemPublished[n] = Unset
    \/ now - steemPublished[n] > SteemInterval
    \/ moved
-----------------------------------------------------------------------------
(* check_feeds() *)

Goto(c, step) == at' = [at EXCEPT ![c] = step]

Rearm(c) ==
    /\ Goto(c, "waiting")
    /\ due' = [due EXCEPT ![c] = now + CheckInterval]

NextNode(c) == turn' = [turn EXCEPT ![c] = @ + 1] /\ Goto(c, "deciding")

(* The timer fires and the prices are fetched; without them, or when a provider *)
(* raises, nothing is published and the timer is set again.                     *)
Fetch(c) ==
    /\ at[c] = "waiting" /\ now >= due[c]
    /\ \/ Goto(c, "fetched") /\ read' = [read EXCEPT ![c] = checked] /\ UNCHANGED due
       \/ ~Reliable /\ Rearm(c) /\ UNCHANGED read
    /\ UNCHANGED <<config, now, checked, turn, lastPublished, steemPublished, publishedBy>>

(* feed_control.nfeed_checked += 1, not atomically *)
CountCheck(c) ==
    /\ at[c] = "fetched"
    /\ checked' = read[c] + 1
    /\ Goto(c, "deciding")
    /\ turn' = [turn EXCEPT ![c] = 1]
    /\ UNCHANGED <<config, now, due, read, lastPublished, steemPublished, publishedBy>>

(* The next publisher: it publishes if it should and its wallet is ready; an *)
(* exception leaves it out.                                                  *)
Decide(c) ==
    /\ at[c] = "deciding" /\ turn[c] <= Len(Publishers[c])
    /\ \E moved \in BOOLEAN :
         LET should == IF c \in Steem
                       THEN ShouldPublishSteem(Publishers[c][turn[c]], moved)
                       ELSE ShouldPublish
         IN \/ should /\ Goto(c, "publishing") /\ UNCHANGED turn
            \/ (~should \/ ~Reliable) /\ NextNode(c)
    /\ UNCHANGED <<config, now, due, read, checked, lastPublished, steemPublished, publishedBy>>

Noted(c, n) ==
    IF c \in Steem
    THEN steemPublished' = [steemPublished EXCEPT ![n] = now] /\ UNCHANGED lastPublished
    ELSE lastPublished' = now /\ UNCHANGED steemPublished

(* Mutant: the exception of one publisher ends the thread. *)
PublishOrStop(c) ==
    /\ at[c] = "publishing"
    /\ LET n == Publishers[c][turn[c]]
       IN \/ NextNode(c) /\ Noted(c, n) /\ publishedBy' = [publishedBy EXCEPT ![n] = now]
          \/ /\ ~Reliable /\ Goto(c, "stopped")
             /\ UNCHANGED <<turn, lastPublished, steemPublished, publishedBy>>
    /\ UNCHANGED <<config, now, due, read, checked>>

(* The feeds are published and the time is noted.  Either may raise before that; *)
(* publish_bts_feed() keeps the failures of the wallet to itself, and the time   *)
(* is noted although nothing was published.                                      *)
Publish(c) ==
    /\ at[c] = "publishing"
    /\ NextNode(c)
    /\ LET n == Publishers[c][turn[c]]
       IN \/ Noted(c, n) /\ publishedBy' = [publishedBy EXCEPT ![n] = now]
          \/ ~Reliable /\ c \notin Steem /\ Noted(c, n) /\ UNCHANGED publishedBy
          \/ ~Reliable /\ UNCHANGED <<lastPublished, steemPublished, publishedBy>>
    /\ UNCHANGED <<config, now, due, read, checked>>

EndCheck(c) ==
    /\ at[c] = "deciding" /\ turn[c] > Len(Publishers[c])
    /\ Rearm(c)
    /\ UNCHANGED <<config, now, read, checked, turn, lastPublished, steemPublished, publishedBy>>

Check(c) == Fetch(c) \/ CountCheck(c) \/ Decide(c) \/ Publish(c) \/ EndCheck(c)

(* Time passes: timers fire when they are due, and a check takes a while. *)
Tick ==
    /\ now < MaxTime
    /\ \A c \in Clients : now < due[c] + (IF at[c] = "waiting" THEN 0 ELSE MaxDelay)
    /\ now' = now + 1
    /\ UNCHANGED <<config, at, due, read, checked, turn, lastPublished, steemPublished, publishedBy>>

Next == Tick \/ \E c \in Clients : Check(c)

Spec == Init /\ [][Next]_vars

(* Time passes, and every timer has a thread that is scheduled. *)
FairSpec == Spec /\ WF_vars(Tick) /\ \A c \in AllClients : WF_vars(c \in Clients /\ Check(c))
-----------------------------------------------------------------------------
(* No witness of BitShares goes without publishing for longer than the interval,  *)
(* the check in which it is noticed and the time the checks take: "publish feeds  *)
(* at fixed time intervals" (config.yaml:153, feed_publish.py:215).  Whatever the *)
(* other clients add to the shared count of checks, last_published sees to it.    *)
Regular ==
    Reliable /\ TimeInterval # Unset =>
        \A n \in OfBitShares :
            now - (IF publishedBy[n] = Unset THEN 0 ELSE publishedBy[n])
                <= TimeInterval + CheckInterval + 2 * MaxDelay

(* "publish every hour at a fixed number of minutes" (config.yaml:154): once the  *)
(* checks had the time to notice a slot, every witness published since, which the *)
(* factor 1.1 of feed_publish.py:224 is for: the checks drift by what they take.  *)
SlotKept ==
    Reliable /\ TimeSlot # Unset =>
        \A k \in 0..(now \div Hour) :
            LET slot == k * Hour + TimeSlot
            IN slot + CheckInterval + 2 * MaxDelay < now => \A n \in OfBitShares : publishedBy[n] >= slot

(* No failure of a price, a wallet or a publication ends the checks of a client   *)
(* (feeds.py:299, 336-345): each timer fires and is set again.                    *)
Waits(c) == c \in Clients /\ at[c] = "waiting"

ChecksGoOn ==
    \A c \in AllClients :
        /\ Waits(c) /\ due[c] <= MaxTime ~> ~Waits(c) \/ due[c] > MaxTime
        /\ c \in Clients /\ ~Waits(c) ~> Waits(c) \/ c \notin Clients
=============================================================================
