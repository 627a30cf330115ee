------------------------- MODULE FeedScheduleProofs -------------------------
(***************************************************************************)
(* Proofs about FeedSchedule: a check ends within its delay, and decides   *)
(* about every publisher on the way; what it decided against was not due.  *)
(***************************************************************************)
EXTENDS FeedSchedule, TLAPS

(* A thread that publishes is at one of its publishers. *)
InPlace == \A c \in Clients : at[c] = "publishing" => turn[c] <= Len(Publishers[c])

(* Timers fire when they are due, and a check takes no longer than it may. *)
OnTime ==
    \A c \in Clients :
        /\ at[c] = "waiting" => now <= due[c]
        /\ at[c] # "waiting" => due[c] <= now /\ now <= due[c] + MaxDelay

(* What was noted is past. *)
Past ==
    /\ lastPublished <= now
    /\ \A n \in Names : publishedBy[n] <= now

ScheduleIInv == TypeOK /\ InPlace /\ OnTime /\ Past

(* The check of c has decided about its publisher i. *)
Decided(c, i) == at[c] \in {"deciding", "publishing"} /\ turn[c] > i

(* Every check falls so early that the interval is kept, and one that decided   *)
(* against publishing began before it had passed; in turn what the interval     *)
(* counts from is a publication of the witness.                                 *)
IntervalEnd == (IF lastPublished < 0 THEN 0 ELSE lastPublished) + TimeInterval

IntervalWatched ==
    Reliable /\ TimeInterval # Unset =>
        \A c \in Clients \ Steem :
            Len(Publishers[c]) >= 1 =>
                /\ due[c] <= IntervalEnd + CheckInterval + MaxDelay
                /\ Decided(c, 1) => due[c] <= IntervalEnd

NotedIsPublished ==
    Reliable /\ TimeInterval # Unset /\ lastPublished >= 0 =>
        \A n \in OfBitShares : publishedBy[n] >= lastPublished

IntervalIInv == ScheduleIInv /\ IntervalWatched /\ NotedIsPublished

(* The same for each slot and publisher, until it published since. *)
SlotWatched ==
    Reliable /\ TimeSlot # Unset =>
        \A c \in Clients \ Steem : \A i \in DOMAIN Publishers[c] : \A k \in Nat :
            LET slot == k * Hour + TimeSlot
            IN \/ publishedBy[Publishers[c][i]] >= slot
               \/ /\ due[c] <= slot + CheckInterval + MaxDelay
                  /\ Decided(c, i) => due[c] <= slot

SlotIInv == ScheduleIInv /\ SlotWatched
-----------------------------------------------------------------------------
(* What the settings in use say. *)

LEMMA InUse ==
    ASSUME config \in DOMAIN Settings
    PROVE  /\ Steem \subseteq Clients
           /\ CheckInterval \in Nat \ {0} /\ Hour \in Nat \ {0} /\ SteemInterval \in Nat
           /\ TimeInterval \in Nat \cup {Unset} /\ TimeSlot \in 0..(Hour - 1) \cup {Unset}
           /\ Starts \subseteq 0..CheckInterval /\ Reliable \in BOOLEAN
           /\ MaxDelay \in Nat /\ MaxTime \in Nat
BY ScheduleAssumption DEF Steem, Clients, CheckInterval, Hour, SteemInterval, TimeInterval, TimeSlot,
                          Starts, Reliable, MaxDelay, MaxTime

LEMMA PublishersInUse ==
    ASSUME config \in DOMAIN Settings, NEW c \in Clients
    PROVE  /\ Len(Publishers[c]) \in Nat /\ DOMAIN Publishers[c] = 1..Len(Publishers[c])
           /\ \A i \in DOMAIN Publishers[c] : Publishers[c][i] \in Names
           /\ c \notin Steem => \A i \in DOMAIN Publishers[c] : Publishers[c][i] \in OfBitShares
<1> DEFINE names == UNION {{Publishers[d][i] : i \in DOMAIN Publishers[d]} : d \in Clients}
<1>1. Publishers \in [Clients -> Seq(names)]
  BY ScheduleAssumption DEF Publishers, Clients
<1>2. Publishers[c] \in Seq(names)
  BY <1>1
<1>3. Len(Publishers[c]) \in Nat /\ DOMAIN Publishers[c] = 1..Len(Publishers[c])
  <2> HIDE DEF names
  <2> QED
    BY <1>2
<1>4. \A i \in DOMAIN Publishers[c] : Publishers[c][i] \in Names
  BY DEF Names
<1>5. c \notin Steem => \A i \in DOMAIN Publishers[c] : Publishers[c][i] \in OfBitShares
  BY DEF OfBitShares
<1> QED
  BY <1>3, <1>4, <1>5

(* The witness of any feed publisher of BitShares is one of a client. *)
LEMMA SomePublisher ==
    ASSUME NEW n \in OfBitShares
    PROVE  \E c \in Clients \ Steem : \E i \in DOMAIN Publishers[c] : n = Publishers[c][i]
BY DEF OfBitShares

(* The settings do not change. *)
LEMMA SettingsKept ==
    ASSUME config' = config
    PROVE  /\ Clients' = Clients /\ Steem' = Steem /\ Publishers' = Publishers
           /\ CheckInterval' = CheckInterval /\ TimeInterval' = TimeInterval /\ TimeSlot' = TimeSlot
           /\ Hour' = Hour /\ Reliable' = Reliable /\ MaxDelay' = MaxDelay /\ MaxTime' = MaxTime
           /\ Names' = Names /\ OfBitShares' = OfBitShares /\ Day' = Day
BY DEF Clients, Steem, Publishers, CheckInterval, TimeInterval, TimeSlot, Hour, Reliable, MaxDelay,
       MaxTime, Names, OfBitShares, Day

LEMMA ConfigKept == [Next]_vars => config' = config
BY DEF Next, vars, Tick, Check, Fetch, CountCheck, Decide, Publish, EndCheck
-----------------------------------------------------------------------------
(* A check ends in time. *)

LEMMA InitSchedule == Init => ScheduleIInv
<1> SUFFICES ASSUME Init PROVE ScheduleIInv
  OBVIOUS
<1>1. config \in DOMAIN Settings
  BY DEF Init
<1>2. /\ CheckInterval \in Nat \ {0} /\ Hour \in Nat \ {0} /\ Starts \subseteq 0..CheckInterval
      /\ MaxDelay \in Nat /\ MaxTime \in Nat
  BY <1>1, InUse
<1>3. \A c \in Clients : Len(Publishers[c]) \in Nat
  BY <1>1, PublishersInUse
<1>4. TypeOK
  <2>1. now \in 0..MaxTime /\ lastPublished \in {-Day} \cup 0..MaxTime
    BY <1>2 DEF Init
  <2>2. due \in [Clients -> 0..(MaxTime + CheckInterval)]
    <3>1. Starts \subseteq 0..(MaxTime + CheckInterval)
      BY <1>2
    <3> QED
      BY <3>1 DEF Init
  <2> QED
    BY <1>1, <1>3, <2>1, <2>2 DEF Init, TypeOK
<1>5. InPlace
  BY <1>3 DEF Init, InPlace
<1>6. OnTime
  <2>1. now = 0 /\ \A c \in Clients : due[c] \in Starts /\ at[c] = "waiting"
    BY DEF Init
  <2>2. \A t \in Starts : 0 <= t
    BY <1>2
  <2> QED
    BY <2>1, <2>2 DEF OnTime
<1>7. Past
  BY <1>2 DEF Init, Past, Day, Unset
<1> QED
  BY <1>4, <1>5, <1>6, <1>7 DEF ScheduleIInv

(* What the types say of a client and its place, once the settings are known. *)
LEMMA Known ==
    ASSUME ScheduleIInv
    PROVE  /\ CheckInterval \in Nat \ {0} /\ Hour \in Nat \ {0} /\ MaxDelay \in Nat /\ MaxTime \in Nat
           /\ TimeInterval \in Nat \cup {Unset} /\ TimeSlot \in 0..(Hour - 1) \cup {Unset}
           /\ now \in 0..MaxTime /\ lastPublished \in Int /\ Reliable \in BOOLEAN
           /\ Steem \subseteq Clients
           /\ \A c \in Clients :
                /\ due[c] \in Nat /\ turn[c] \in 1..(Len(Publishers[c]) + 1)
                /\ Len(Publishers[c]) \in Nat /\ DOMAIN Publishers[c] = 1..Len(Publishers[c])
           /\ \A n \in Names : publishedBy[n] \in Int
<1>1. config \in DOMAIN Settings /\ TypeOK
  BY DEF ScheduleIInv, TypeOK
<1>2. /\ CheckInterval \in Nat \ {0} /\ Hour \in Nat \ {0} /\ MaxDelay \in Nat /\ MaxTime \in Nat
      /\ TimeInterval \in Nat \cup {Unset} /\ TimeSlot \in 0..(Hour - 1) \cup {Unset}
      /\ Reliable \in BOOLEAN /\ Steem \subseteq Clients
  BY <1>1, InUse
<1>3. \A c \in Clients : Len(Publishers[c]) \in Nat /\ DOMAIN Publishers[c] = 1..Len(Publishers[c])
  BY <1>1, PublishersInUse
<1>4. lastPublished \in Int /\ \A n \in Names : publishedBy[n] \in Int
  BY <1>1, <1>2 DEF TypeOK, Day, Unset
<1>5. now \in 0..MaxTime /\ \A c \in Clients : due[c] \in Nat /\ turn[c] \in 1..(Len(Publishers[c]) + 1)
  BY <1>1, <1>2 DEF TypeOK
<1> QED
  BY <1>2, <1>3, <1>4, <1>5

LEMMA TickOnTime == ASSUME ScheduleIInv, Tick PROVE ScheduleIInv'
<1>1. /\ now' = now + 1 /\ now < MaxTime
      /\ \A c \in Clients : now < due[c] + (IF at[c] = "waiting" THEN 0 ELSE MaxDelay)
      /\ UNCHANGED <<config, at, due, read, checked, turn, lastPublished, steemPublished, publishedBy>>
  BY DEF Tick
<1>2. /\ Clients' = Clients /\ Publishers' = Publishers /\ Names' = Names /\ Day' = Day
      /\ CheckInterval' = CheckInterval /\ MaxDelay' = MaxDelay /\ MaxTime' = MaxTime
  BY <1>1, SettingsKept
<1>3. /\ MaxDelay \in Nat /\ MaxTime \in Nat /\ now \in 0..MaxTime /\ lastPublished \in Int
      /\ \A c \in Clients : due[c] \in Nat
      /\ \A n \in Names : publishedBy[n] \in Int
  BY Known
<1>4. TypeOK'
  BY <1>1, <1>2, <1>3 DEF ScheduleIInv, TypeOK
<1>5. InPlace'
  BY <1>1, <1>2 DEF ScheduleIInv, InPlace
<1>6. OnTime'
  BY <1>1, <1>2, <1>3 DEF ScheduleIInv, OnTime
<1>7. Past'
  BY <1>1, <1>2, <1>3 DEF ScheduleIInv, Past
<1> QED
  BY <1>4, <1>5, <1>6, <1>7 DEF ScheduleIInv

LEMMA FetchOnTime == ASSUME ScheduleIInv, NEW c \in Clients, Fetch(c) PROVE ScheduleIInv'
<1>1. /\ at[c] = "waiting" /\ now >= due[c]
      /\ UNCHANGED <<config, now, checked, turn, lastPublished, steemPublished, publishedBy>>
      /\ \/ /\ at' = [at EXCEPT ![c] = "fetched"]
            /\ read' = [read EXCEPT ![c] = checked] /\ due' = due
         \/ /\ at' = [at EXCEPT ![c] = "waiting"]
            /\ due' = [due EXCEPT ![c] = now + CheckInterval] /\ read' = read
  BY DEF Fetch, Goto, Rearm
<1>2. /\ Clients' = Clients /\ Publishers' = Publishers /\ Names' = Names /\ Day' = Day
      /\ CheckInterval' = CheckInterval /\ MaxDelay' = MaxDelay /\ MaxTime' = MaxTime
  BY <1>1, SettingsKept
<1>3. /\ CheckInterval \in Nat \ {0} /\ MaxDelay \in Nat /\ MaxTime \in Nat /\ now \in 0..MaxTime
      /\ \A d \in Clients : due[d] \in Nat
  BY Known
<1>4. TypeOK'
  <2>1. now + CheckInterval \in 0..(MaxTime + CheckInterval)
    BY <1>3
  <2>2. due' \in [Clients -> 0..(MaxTime + CheckInterval)] /\ read' \in [Clients -> Nat]
    BY <1>1, <2>1 DEF ScheduleIInv, TypeOK
  <2>3. at' \in [Clients -> {"waiting", "fetched", "deciding", "publishing"}]
    BY <1>1 DEF ScheduleIInv, TypeOK
  <2> QED
    BY <1>1, <1>2, <2>2, <2>3 DEF ScheduleIInv, TypeOK
<1>5. InPlace'
  BY <1>1, <1>2 DEF ScheduleIInv, InPlace, TypeOK
<1>6. OnTime'
  <2> SUFFICES ASSUME NEW d \in Clients
               PROVE  /\ at'[d] = "waiting" => now <= due'[d]
                      /\ at'[d] # "waiting" => due'[d] <= now /\ now <= due'[d] + MaxDelay
    BY <1>1, <1>2 DEF OnTime
  <2>1. CASE d = c
    <3>1. now <= due[c] /\ at \in [Clients -> {"waiting", "fetched", "deciding", "publishing"}]
          /\ due \in [Clients -> 0..(MaxTime + CheckInterval)]
      BY <1>1 DEF ScheduleIInv, OnTime, TypeOK
    <3>2. CASE at' = [at EXCEPT ![c] = "fetched"] /\ due' = due
      BY <1>1, <1>3, <2>1, <3>1, <3>2
    <3>3. CASE at' = [at EXCEPT ![c] = "waiting"] /\ due' = [due EXCEPT ![c] = now + CheckInterval]
      BY <1>3, <2>1, <3>1, <3>3
    <3> QED
      BY <1>1, <3>2, <3>3
  <2>2. CASE d # c
    <3>1. at'[d] = at[d] /\ due'[d] = due[d]
      BY <1>1, <2>2 DEF ScheduleIInv, TypeOK
    <3> QED
      BY <3>1 DEF ScheduleIInv, OnTime
  <2> QED
    BY <2>1, <2>2
<1>7. Past'
  BY <1>1, <1>2 DEF ScheduleIInv, Past
<1> QED
  BY <1>4, <1>5, <1>6, <1>7 DEF ScheduleIInv

LEMMA CountCheckOnTime == ASSUME ScheduleIInv, NEW c \in Clients, CountCheck(c) PROVE ScheduleIInv'
<1>1. /\ at[c] = "fetched" /\ at' = [at EXCEPT ![c] = "deciding"]
      /\ checked' = read[c] + 1 /\ turn' = [turn EXCEPT ![c] = 1]
      /\ UNCHANGED <<config, now, due, read, lastPublished, steemPublished, publishedBy>>
  BY DEF CountCheck, Goto
<1>2. /\ Clients' = Clients /\ Publishers' = Publishers /\ Names' = Names /\ Day' = Day
      /\ CheckInterval' = CheckInterval /\ MaxDelay' = MaxDelay /\ MaxTime' = MaxTime
  BY <1>1, SettingsKept
<1>3. \A d \in Clients : Len(Publishers[d]) \in Nat
  BY Known
<1>4. TypeOK'
  BY <1>1, <1>2, <1>3 DEF ScheduleIInv, TypeOK
<1>5. InPlace'
  BY <1>1, <1>2 DEF ScheduleIInv, InPlace, TypeOK
<1>6. OnTime'
  BY <1>1, <1>2 DEF ScheduleIInv, OnTime, TypeOK
<1>7. Past'
  BY <1>1, <1>2 DEF ScheduleIInv, Past
<1> QED
  BY <1>4, <1>5, <1>6, <1>7 DEF ScheduleIInv

LEMMA DecideOnTime == ASSUME ScheduleIInv, NEW c \in Clients, Decide(c) PROVE ScheduleIInv'
<1>1. /\ at[c] = "deciding" /\ turn[c] <= Len(Publishers[c])
      /\ UNCHANGED <<config, now, due, read, checked, lastPublished, steemPublished, publishedBy>>
      /\ \/ at' = [at EXCEPT ![c] = "publishing"] /\ turn' = turn
         \/ at' = [at EXCEPT ![c] = "deciding"] /\ turn' = [turn EXCEPT ![c] = turn[c] + 1]
  BY DEF Decide, Goto, NextNode, ScheduleIInv, TypeOK
<1>2. /\ Clients' = Clients /\ Publishers' = Publishers /\ Names' = Names /\ Day' = Day
      /\ CheckInterval' = CheckInterval /\ MaxDelay' = MaxDelay /\ MaxTime' = MaxTime
  BY <1>1, SettingsKept
<1>3. \A d \in Clients : Len(Publishers[d]) \in Nat
  BY Known
<1>4. TypeOK'
  <2>1. at' \in [Clients -> {"waiting", "fetched", "deciding", "publishing"}]
    BY <1>1 DEF ScheduleIInv, TypeOK
  <2>2. /\ turn \in [Clients -> Nat]
        /\ \A d \in Clients : turn[d] \in 1..(Len(Publishers[d]) + 1)
    BY DEF ScheduleIInv, TypeOK
  <2>3. turn' \in [Clients -> Nat]
    BY <1>1, <2>2
  <2>4. \A d \in Clients : turn'[d] \in 1..(Len(Publishers[d]) + 1)
    BY <1>1, <1>3, <2>2
  <2> QED
    BY <1>1, <1>2, <2>1, <2>3, <2>4 DEF ScheduleIInv, TypeOK
<1>5. InPlace'
  BY <1>1, <1>2, <1>3 DEF ScheduleIInv, InPlace, TypeOK
<1>6. OnTime'
  BY <1>1, <1>2 DEF ScheduleIInv, OnTime, TypeOK
<1>7. Past'
  BY <1>1, <1>2 DEF ScheduleIInv, Past
<1> QED
  BY <1>4, <1>5, <1>6, <1>7 DEF ScheduleIInv

(* What a publication changes. *)
LEMMA PublishEffect ==
    ASSUME ScheduleIInv, NEW c \in Clients, Publish(c)
    PROVE  LET n == Publishers[c][turn[c]]
           IN /\ at[c] = "publishing" /\ turn[c] \in DOMAIN Publishers[c] /\ n \in Names
              /\ at' = [at EXCEPT ![c] = "deciding"] /\ turn' = [turn EXCEPT ![c] = turn[c] + 1]
              /\ UNCHANGED <<config, now, due, read, checked>>
              /\ lastPublished' \in {lastPublished, now}
              /\ steemPublished' \in {steemPublished, [steemPublished EXCEPT ![n] = now]}
              /\ publishedBy' \in {publishedBy, [publishedBy EXCEPT ![n] = now]}
              /\ c \in Steem => lastPublished' = lastPublished
              /\ Reliable => /\ publishedBy' = [publishedBy EXCEPT ![n] = now]
                             /\ c \notin Steem => lastPublished' = now
<1>1. at[c] = "publishing" /\ turn[c] <= Len(Publishers[c])
  BY DEF Publish, ScheduleIInv, InPlace
<1>2. turn[c] \in DOMAIN Publishers[c]
  BY <1>1, Known
<1>3. Publishers[c][turn[c]] \in Names
  BY <1>2 DEF Names
<1>4. at' = [at EXCEPT ![c] = "deciding"] /\ turn' = [turn EXCEPT ![c] = turn[c] + 1]
  BY DEF Publish, NextNode, Goto, ScheduleIInv, TypeOK
<1> QED
  BY <1>1, <1>2, <1>3, <1>4 DEF Publish, Noted

LEMMA PublishOnTime == ASSUME ScheduleIInv, NEW c \in Clients, Publish(c) PROVE ScheduleIInv'
<1> DEFINE n == Publishers[c][turn[c]]
<1>1. /\ at[c] = "publishing" /\ turn[c] \in DOMAIN Publishers[c] /\ n \in Names
      /\ at' = [at EXCEPT ![c] = "deciding"] /\ turn' = [turn EXCEPT ![c] = turn[c] + 1]
      /\ UNCHANGED <<config, now, due, read, checked>>
      /\ lastPublished' \in {lastPublished, now}
      /\ steemPublished' \in {steemPublished, [steemPublished EXCEPT ![n] = now]}
      /\ publishedBy' \in {publishedBy, [publishedBy EXCEPT ![n] = now]}
  BY PublishEffect
<1>2. /\ Clients' = Clients /\ Publishers' = Publishers /\ Names' = Names /\ Day' = Day
      /\ CheckInterval' = CheckInterval /\ MaxDelay' = MaxDelay /\ MaxTime' = MaxTime
  BY <1>1, SettingsKept
<1>3. /\ now \in 0..MaxTime /\ MaxTime \in Nat
      /\ \A d \in Clients : Len(Publishers[d]) \in Nat /\ DOMAIN Publishers[d] = 1..Len(Publishers[d])
  BY Known
<1> HIDE DEF n
<1>4. TypeOK'
  <2>1. /\ steemPublished' \in [Names -> {Unset} \cup 0..MaxTime]
        /\ publishedBy' \in [Names -> {Unset} \cup 0..MaxTime]
        /\ lastPublished' \in {-Day} \cup 0..MaxTime
    BY <1>1, <1>3 DEF ScheduleIInv, TypeOK
  <2>2. turn' \in [Clients -> Nat] /\ \A d \in Clients : turn'[d] \in 1..(Len(Publishers[d]) + 1)
    BY <1>1, <1>3 DEF ScheduleIInv, TypeOK
  <2> QED
    BY <1>1, <1>2, <2>1, <2>2 DEF ScheduleIInv, TypeOK
<1>5. InPlace'
  BY <1>1, <1>2 DEF ScheduleIInv, InPlace, TypeOK
<1>6. OnTime'
  BY <1>1, <1>2 DEF ScheduleIInv, OnTime, TypeOK
<1>7. Past'
  <2>1. lastPublished' <= now
    BY <1>1, <1>3 DEF ScheduleIInv, Past
  <2>2. ASSUME NEW m \in Names PROVE publishedBy'[m] <= now
    <3>1. publishedBy'[m] = publishedBy[m] \/ publishedBy'[m] = now
      BY <1>1 DEF ScheduleIInv, TypeOK
    <3> QED
      BY <1>3, <3>1 DEF ScheduleIInv, Past
  <2> QED
    BY <1>1, <1>2, <2>1, <2>2 DEF Past
<1> QED
  BY <1>4, <1>5, <1>6, <1>7 DEF ScheduleIInv

LEMMA EndCheckOnTime == ASSUME ScheduleIInv, NEW c \in Clients, EndCheck(c) PROVE ScheduleIInv'
<1>1. /\ at[c] = "deciding" /\ at' = [at EXCEPT ![c] = "waiting"]
      /\ due' = [due EXCEPT ![c] = now + CheckInterval]
      /\ UNCHANGED <<config, now, read, checked, turn, lastPublished, steemPublished, publishedBy>>
  BY DEF EndCheck, Goto, Rearm
<1>2. /\ Clients' = Clients /\ Publishers' = Publishers /\ Names' = Names /\ Day' = Day
      /\ CheckInterval' = CheckInterval /\ MaxDelay' = MaxDelay /\ MaxTime' = MaxTime
  BY <1>1, SettingsKept
<1>3. CheckInterval \in Nat \ {0} /\ MaxTime \in Nat /\ now \in 0..MaxTime
  BY Known
<1>4. TypeOK'
  BY <1>1, <1>2, <1>3 DEF ScheduleIInv, TypeOK
<1>5. InPlace'
  BY <1>1, <1>2 DEF ScheduleIInv, InPlace, TypeOK
<1>6. OnTime'
  BY <1>1, <1>2, <1>3 DEF ScheduleIInv, OnTime, TypeOK
<1>7. Past'
  BY <1>1, <1>2 DEF ScheduleIInv, Past
<1> QED
  BY <1>4, <1>5, <1>6, <1>7 DEF ScheduleIInv

LEMMA NextSchedule == ScheduleIInv /\ [Next]_vars => ScheduleIInv'
<1> SUFFICES ASSUME ScheduleIInv, [Next]_vars PROVE ScheduleIInv'
  OBVIOUS
<1>1. CASE Tick
  BY <1>1, TickOnTime
<1>2. ASSUME NEW c \in Clients, Check(c) PROVE ScheduleIInv'
  BY <1>2, FetchOnTime, CountCheckOnTime, DecideOnTime, PublishOnTime, EndCheckOnTime DEF Check
<1>3. CASE UNCHANGED vars
  <2>1. /\ Clients' = Clients /\ Publishers' = Publishers /\ Names' = Names /\ Day' = Day
        /\ CheckInterval' = CheckInterval /\ MaxDelay' = MaxDelay /\ MaxTime' = MaxTime
    BY <1>3, SettingsKept DEF vars
  <2> QED
    BY <1>3, <2>1 DEF vars, ScheduleIInv, TypeOK, InPlace, OnTime, Past
<1> QED
  BY <1>1, <1>2, <1>3 DEF Next

LEMMA ScheduleInvariance == Spec => []ScheduleIInv
BY InitSchedule, NextSchedule, PTL DEF Spec

(* Type correctness, for any settings: what is noted are times that were, and the *)
(* timers are set within the check interval.                                       *)
THEOREM TypeCorrect == Spec => []TypeOK
<1>1. ScheduleIInv => TypeOK
  BY DEF ScheduleIInv
<1> QED
  BY <1>1, ScheduleInvariance, PTL
-----------------------------------------------------------------------------
(* The interval is kept. *)

LEMMA Quotient ==
    ASSUME NEW t \in Nat, NEW c \in Nat \ {0}, t >= c
    PROVE  t \div c # 0
<1>1. t = c * (t \div c) + (t % c) /\ t % c \in 0..(c - 1) /\ t \div c \in Int
  OBVIOUS
<1> QED
  BY <1>1

LEMMA DividesByThePeriod ==
    ASSUME ScheduleIInv, TimeInterval # Unset => TimeInterval >= CheckInterval
    PROVE  ~DividesByZero
<1>1. CheckInterval \in Nat \ {0} /\ TimeInterval \in Nat \cup {Unset}
  BY Known
<1> QED
  BY <1>1, Quotient DEF DividesByZero, Period

(* No step makes the interval end earlier. *)
LEMMA EndGrows ==
    ASSUME ScheduleIInv, [Next]_vars
    PROVE  IntervalEnd \in Int /\ IntervalEnd' \in Int /\ IntervalEnd <= IntervalEnd'
<1>1. config' = config /\ TimeInterval' = TimeInterval
  BY ConfigKept, SettingsKept
<1>2. now \in Nat /\ lastPublished \in Int /\ lastPublished <= now /\ TimeInterval \in Int
  BY Known DEF ScheduleIInv, Past, Unset
<1>3. lastPublished' \in {lastPublished, now}
  <2>1. ASSUME NEW c \in Clients, Check(c) PROVE lastPublished' \in {lastPublished, now}
    BY <2>1, PublishEffect DEF Check, Fetch, CountCheck, Decide, EndCheck
  <2> QED
    BY <2>1 DEF Next, Tick, vars
<1>4. CASE lastPublished' = lastPublished
  BY <1>1, <1>2, <1>4 DEF IntervalEnd
<1>5. CASE lastPublished' = now
  <2>1. IntervalEnd' = now + TimeInterval
    BY <1>1, <1>2, <1>5 DEF IntervalEnd
  <2>2. IntervalEnd \in Int /\ IntervalEnd <= now + TimeInterval
    BY <1>2 DEF IntervalEnd
  <2> QED
    BY <1>2, <2>1, <2>2
<1> QED
  BY <1>3, <1>4, <1>5

(* What a step of one client leaves to the others. *)
LEMMA OthersKept ==
    ASSUME ScheduleIInv, NEW c \in Clients, Check(c), NEW d \in Clients, d # c
    PROVE  at'[d] = at[d] /\ due'[d] = due[d] /\ turn'[d] = turn[d]
BY DEF Check, Fetch, CountCheck, Decide, Publish, EndCheck, Goto, Rearm, NextNode, ScheduleIInv, TypeOK

WatchedFor(c) ==
    /\ due[c] <= IntervalEnd + CheckInterval + MaxDelay
    /\ Decided(c, 1) => due[c] <= IntervalEnd

LEMMA CheckWatched ==
    ASSUME ScheduleIInv, Reliable, TimeInterval # Unset, TimeInterval >= CheckInterval,
           NEW c \in Clients \ Steem, Len(Publishers[c]) >= 1, WatchedFor(c), Check(c)
    PROVE  WatchedFor(c)'
<1>1. /\ CheckInterval \in Nat \ {0} /\ MaxDelay \in Nat /\ TimeInterval \in Nat /\ now \in Nat
      /\ due[c] \in Nat /\ turn[c] \in Nat /\ Len(Publishers[c]) \in Nat /\ lastPublished \in Int
  BY Known
<1>2. config' = config /\ CheckInterval' = CheckInterval /\ MaxDelay' = MaxDelay
      /\ TimeInterval' = TimeInterval
  <2>1. config' = config
    BY ConfigKept DEF Next
  <2> QED
    BY <2>1, SettingsKept
<1>3. IntervalEnd \in Int /\ IntervalEnd' \in Int /\ IntervalEnd <= IntervalEnd'
  BY EndGrows DEF Next
<1>4. c \in DOMAIN at /\ c \in DOMAIN due /\ c \in DOMAIN turn
  BY DEF ScheduleIInv, TypeOK
<1>5. CASE Fetch(c)
  <2>1. due' = due /\ at'[c] = "fetched"
    BY <1>4, <1>5 DEF Fetch, Goto
  <2> QED
    BY <1>1, <1>2, <1>3, <2>1 DEF WatchedFor, Decided
<1>6. CASE CountCheck(c)
  <2>1. due' = due /\ turn'[c] = 1
    BY <1>4, <1>6 DEF CountCheck
  <2> QED
    BY <1>1, <1>2, <1>3, <2>1 DEF WatchedFor, Decided
<1>7. CASE Decide(c)
  <2>1. due' = due /\ lastPublished' = lastPublished /\ at[c] = "deciding"
    BY <1>7 DEF Decide
  <2>2. turn'[c] = turn[c] \/ (turn'[c] = turn[c] + 1 /\ ~ShouldPublish)
    <3>1. c \notin Steem /\ Reliable
      OBVIOUS
    <3>2. turn' = turn \/ (NextNode(c) /\ ~ShouldPublish)
      BY <1>7, <3>1, Zenon DEF Decide
    <3> QED
      BY <1>4, <3>2 DEF NextNode
  <2>3. Decided(c, 1)' => due[c] <= IntervalEnd
    <3>1. CASE turn[c] > 1
      BY <2>1, <3>1 DEF Decided, WatchedFor
    <3>2. CASE turn[c] <= 1 /\ turn'[c] = turn[c]
      BY <1>1, <3>2 DEF Decided
    <3>3. CASE ~ShouldPublish
      <4>1. ~(now - lastPublished > TimeInterval)
        BY <1>1, <3>3, DividesByThePeriod DEF ShouldPublish, IntervalPassed
      <4>2. due[c] <= now
        BY <2>1 DEF ScheduleIInv, OnTime
      <4> QED
        BY <1>1, <4>1, <4>2 DEF IntervalEnd
    <3> QED
      BY <1>1, <2>2, <3>1, <3>2, <3>3
  <2> QED
    BY <1>1, <1>2, <1>3, <2>1, <2>3 DEF WatchedFor
<1>8. CASE Publish(c)
  <2>1. /\ due' = due /\ lastPublished' = now /\ at[c] = "publishing"
    BY <1>8, PublishEffect
  <2>2. due[c] <= now
    BY <2>1 DEF ScheduleIInv, OnTime
  <2>3. due[c] <= IntervalEnd'
    BY <1>1, <1>2, <2>1, <2>2 DEF IntervalEnd
  <2> QED
    BY <1>1, <1>2, <1>3, <2>1, <2>3 DEF WatchedFor
<1>9. CASE EndCheck(c)
  <2>1. /\ at[c] = "deciding" /\ turn[c] > 1 /\ at'[c] = "waiting" /\ due'[c] = now + CheckInterval
    BY <1>1, <1>4, <1>9 DEF EndCheck, Rearm, Goto
  <2>2. due[c] <= IntervalEnd
    BY <2>1 DEF WatchedFor, Decided
  <2>3. now <= due[c] + MaxDelay
    BY <2>1 DEF ScheduleIInv, OnTime
  <2>4. IntervalEnd' = IntervalEnd
    BY <1>2, <1>9 DEF EndCheck, IntervalEnd
  <2>5. due'[c] <= IntervalEnd + CheckInterval + MaxDelay
    BY <1>1, <1>3, <2>1, <2>2, <2>3
  <2>6. ~Decided(c, 1)'
    BY <2>1 DEF Decided
  <2> QED
    BY <1>2, <2>4, <2>5, <2>6 DEF WatchedFor
<1> QED
  BY <1>5, <1>6, <1>7, <1>8, <1>9 DEF Check

LEMMA InitInterval == Init => IntervalIInv
<1> SUFFICES ASSUME Init PROVE IntervalIInv
  OBVIOUS
<1>1. ScheduleIInv
  BY InitSchedule
<1>2. CheckInterval \in Nat /\ MaxDelay \in Nat /\ TimeInterval \in Nat \cup {Unset} /\ Hour \in Nat \ {0}
  BY <1>1, Known
<1>3. lastPublished < 0
  BY <1>2 DEF Init, Day
<1>4. \A c \in Clients : due[c] <= CheckInterval /\ due[c] \in Nat /\ at[c] = "waiting"
  <2>1. Starts \subseteq 0..CheckInterval
    BY InUse DEF Init
  <2>2. \A c \in Clients : due[c] \in Starts /\ at[c] = "waiting"
    BY DEF Init
  <2>3. \A t \in Starts : t \in Nat /\ t <= CheckInterval
    BY <1>2, <2>1
  <2> QED
    BY <2>2, <2>3
<1>5. IntervalWatched
  BY <1>2, <1>3, <1>4 DEF IntervalWatched, IntervalEnd, Decided
<1>6. NotedIsPublished
  BY <1>2, <1>3, <1>1, Known DEF NotedIsPublished
<1> QED
  BY <1>1, <1>5, <1>6 DEF IntervalIInv

(* What the theorem asks of the settings in use. *)
LEMMA IntervalInUse ==
    ASSUME config \in DOMAIN Settings, \A s \in DOMAIN Settings : IntervalCanBeKept(Settings[s]),
           Reliable, TimeInterval # Unset
    PROVE  /\ TimeInterval >= CheckInterval
           /\ \A m, n \in OfBitShares : m = n
<1>1. IntervalCanBeKept(Settings[config])
  OBVIOUS
<1>2. PeriodIsPositive(Settings[config]) /\ OneWitness(Settings[config])
  BY <1>1 DEF IntervalCanBeKept, Reliable, TimeInterval
<1>3. TimeInterval >= CheckInterval
  BY <1>2 DEF PeriodIsPositive, TimeInterval, CheckInterval
<1>4. ASSUME NEW m \in OfBitShares, NEW n \in OfBitShares PROVE m = n
  <2>1. PICK c \in Clients \ Steem : \E i \in DOMAIN Publishers[c] : m = Publishers[c][i]
    BY SomePublisher
  <2>2. PICK d \in Clients \ Steem : \E i \in DOMAIN Publishers[d] : n = Publishers[d][i]
    BY SomePublisher
  <2> QED
    BY <1>2, <2>1, <2>2 DEF OneWitness, Clients, Steem, Publishers
<1> QED
  BY <1>3, <1>4

LEMMA NextInterval ==
    ASSUME \A s \in DOMAIN Settings : IntervalCanBeKept(Settings[s]), IntervalIInv, [Next]_vars
    PROVE  IntervalIInv'
<1>1. ScheduleIInv /\ ScheduleIInv' /\ IntervalWatched /\ NotedIsPublished
  BY NextSchedule DEF IntervalIInv
<1>2. config' = config
  BY ConfigKept
<1>3. /\ Clients' = Clients /\ Steem' = Steem /\ Publishers' = Publishers /\ Reliable' = Reliable
      /\ TimeInterval' = TimeInterval /\ CheckInterval' = CheckInterval /\ MaxDelay' = MaxDelay
      /\ OfBitShares' = OfBitShares
  BY <1>2, SettingsKept
<1>4. IntervalWatched' /\ NotedIsPublished'
  <2>1. CASE ~(Reliable /\ TimeInterval # Unset)
    BY <1>3, <2>1 DEF IntervalWatched, NotedIsPublished
  <2>2. CASE Reliable /\ TimeInterval # Unset
    <3>1. TimeInterval >= CheckInterval /\ \A m, n \in OfBitShares : m = n
      <4>1. config \in DOMAIN Settings
        BY <1>1 DEF ScheduleIInv, TypeOK
      <4> QED
        BY <2>2, <4>1, IntervalInUse
    <3>2. ASSUME NEW d \in Clients \ Steem, Len(Publishers[d]) >= 1 PROVE WatchedFor(d)'
      <4>1. WatchedFor(d)
        BY <1>1, <2>2, <3>2 DEF IntervalWatched, WatchedFor
      <4>2. CASE Check(d)
        BY <1>1, <2>2, <3>1, <3>2, <4>1, <4>2, CheckWatched
      <4>3. CASE at'[d] = at[d] /\ due'[d] = due[d] /\ turn'[d] = turn[d]
        <5>1. IntervalEnd \in Int /\ IntervalEnd' \in Int /\ IntervalEnd <= IntervalEnd'
          BY <1>1, EndGrows
        <5>2. CheckInterval \in Nat /\ MaxDelay \in Nat /\ due[d] \in Nat
          BY <1>1, Known
        <5> QED
          BY <1>3, <4>1, <4>3, <5>1, <5>2 DEF WatchedFor, Decided
      <4> QED
        BY <1>1, <4>2, <4>3, OthersKept DEF Next, Tick, vars
    <3>3. IntervalWatched'
      BY <1>3, <3>2 DEF IntervalWatched, WatchedFor
    <3>4. NotedIsPublished'
      <4>1. CASE lastPublished' = lastPublished /\ publishedBy' = publishedBy
        BY <1>1, <1>3, <4>1 DEF NotedIsPublished
      <4>2. ASSUME NEW c \in Clients, Publish(c) PROVE NotedIsPublished'
        <5> DEFINE w == Publishers[c][turn[c]]
        <5>1. /\ turn[c] \in DOMAIN Publishers[c] /\ w \in Names
              /\ publishedBy' = [publishedBy EXCEPT ![w] = now]
              /\ c \in Steem => lastPublished' = lastPublished
              /\ c \notin Steem => lastPublished' = now
          BY <1>1, <2>2, <4>2, PublishEffect
        <5>2. now \in Nat /\ lastPublished \in Int /\ lastPublished <= now
          BY <1>1, Known DEF ScheduleIInv, Past
        <5>3. \A n \in OfBitShares : n \in Names
          BY DEF OfBitShares, Names
        <5>4. DOMAIN publishedBy = Names
          BY <1>1 DEF ScheduleIInv, TypeOK
        <5>5. c \notin Steem => w \in OfBitShares
          BY <5>1 DEF OfBitShares
        <5> HIDE DEF w
        <5>6. CASE c \in Steem
          BY <1>1, <1>3, <5>1, <5>2, <5>3, <5>4, <5>6 DEF NotedIsPublished
        <5>7. CASE c \notin Steem
          <6>1. \A n \in OfBitShares : publishedBy'[n] = now
            BY <3>1, <5>1, <5>3, <5>4, <5>5, <5>7
          <6> QED
            BY <1>3, <5>1, <5>2, <5>7, <6>1 DEF NotedIsPublished
        <5> QED
          BY <5>6, <5>7
      <4> QED
        BY <4>1, <4>2 DEF Next, Tick, Check, Fetch, CountCheck, Decide, EndCheck, vars
    <3> QED
      BY <3>3, <3>4
  <2> QED
    BY <2>1, <2>2
<1> QED
  BY <1>1, <1>4 DEF IntervalIInv

(* "publish feeds at fixed time intervals" (config.yaml:153, feed_publish.py:215): *)
(* whatever the clients of Steem add to the count, for intervals of at least a     *)
(* check and one witness, which are what the code can keep.                        *)
THEOREM IntervalsAreKept ==
    ASSUME \A s \in DOMAIN Settings : IntervalCanBeKept(Settings[s])
    PROVE  Spec => []Regular
<1>1. IntervalIInv => Regular
  <2> SUFFICES ASSUME IntervalIInv, Reliable, TimeInterval # Unset, NEW n \in OfBitShares
               PROVE  now - (IF publishedBy[n] = Unset THEN 0 ELSE publishedBy[n])
                          <= TimeInterval + CheckInterval + 2 * MaxDelay
    BY DEF Regular
  <2>1. ScheduleIInv /\ IntervalWatched /\ NotedIsPublished
    BY DEF IntervalIInv
  <2>2. PICK c \in Clients \ Steem : \E i \in DOMAIN Publishers[c] : n = Publishers[c][i]
    BY SomePublisher
  <2>3. /\ CheckInterval \in Nat /\ MaxDelay \in Nat /\ TimeInterval \in Nat /\ now \in Nat
        /\ due[c] \in Nat /\ lastPublished \in Int
        /\ Len(Publishers[c]) \in Nat /\ DOMAIN Publishers[c] = 1..Len(Publishers[c])
    BY <2>1, Known
  <2>4. due[c] <= IntervalEnd + CheckInterval + MaxDelay
    <3>1. Len(Publishers[c]) >= 1
      BY <2>2, <2>3
    <3> QED
      BY <2>1, <3>1 DEF IntervalWatched
  <2>5. now <= due[c] + MaxDelay
    BY <2>1, <2>3 DEF ScheduleIInv, OnTime
  <2>6. publishedBy[n] \in {Unset} \cup Nat
    <3>1. n \in Names
      BY DEF OfBitShares, Names
    <3> QED
      BY <2>1, <3>1, Known DEF ScheduleIInv, TypeOK
  <2>7. lastPublished >= 0 => publishedBy[n] >= lastPublished
    BY <2>1 DEF NotedIsPublished
  <2>8. IntervalEnd <= (IF publishedBy[n] = Unset THEN 0 ELSE publishedBy[n]) + TimeInterval
    BY <2>3, <2>6, <2>7 DEF IntervalEnd, Unset
  <2>9. IntervalEnd \in Int
    BY <2>3 DEF IntervalEnd
  <2> QED
    BY <2>3, <2>4, <2>5, <2>6, <2>8, <2>9 DEF Unset
<1>2. IntervalIInv /\ [Next]_vars => IntervalIInv'
  BY NextInterval
<1> QED
  BY <1>1, <1>2, InitInterval, PTL DEF Spec
-----------------------------------------------------------------------------
(* The slots are kept. *)

SlotAt(k, h, m) == k * h + m

TargetAt(t, h, m) == t - (t % h) + m

(* The latest time before now that is at this minute is no earlier than another. *)
LEMMA LatestSlot ==
    ASSUME NEW t \in Nat, NEW h \in Nat \ {0}, NEW m \in 0..(h - 1), NEW k \in Nat, SlotAt(k, h, m) < t
    PROVE  \E s \in {TargetAt(t, h, m) - h, TargetAt(t, h, m)} : SlotAt(k, h, m) <= s /\ s < t
<1> USE DEF SlotAt, TargetAt
<1> DEFINE q == t \div h
           r == t % h
           target == t - (t % h) + m
<1>1. t = h * q + r /\ r \in 0..(h - 1) /\ q \in Int
  OBVIOUS
<1>2. h * q \in Int /\ k * h \in Int /\ h * q = q * h
  BY <1>1
<1> HIDE DEF q, r
<1>3. target = q * h + m
  BY <1>1, <1>2 DEF r
<1>4. ASSUME NEW p \in Int, k * h < (p + 1) * h PROVE k * h <= p * h
  <2>1. k < p + 1
    <3>1. SUFFICES ASSUME k >= p + 1 PROVE FALSE
      BY <1>4
    <3>2. k * h >= (p + 1) * h
      BY <1>4, <3>1
    <3> QED
      BY <1>2, <1>4, <3>2
  <2>2. k <= p
    BY <1>4, <2>1
  <2> QED
    BY <1>4, <2>2
<1>5. CASE target < t
  <2>1. k * h < (q + 1) * h
    BY <1>1, <1>2
  <2>2. k * h <= q * h
    BY <1>1, <1>4, <2>1
  <2>3. k * h + m <= target
    BY <1>2, <1>3, <2>2
  <2> HIDE DEF target
  <2> QED
    BY <1>5, <2>3 DEF target
<1>6. CASE target >= t
  <2>1. r <= m
    BY <1>1, <1>2, <1>3, <1>6
  <2>2. (q - 1 + 1) * h = q * h /\ (q - 1) * h = q * h - h
    BY <1>1
  <2>3. k * h < q * h
    BY <1>1, <1>2, <1>3, <1>6, <2>1
  <2>4. k * h <= (q - 1) * h
    BY <1>1, <1>4, <2>2, <2>3
  <2>5. k * h + m <= target - h /\ target - h < t
    BY <1>1, <1>2, <1>3, <2>2, <2>4
  <2> HIDE DEF target
  <2> QED
    BY <2>5 DEF target
<1> QED
  BY <1>3, <1>5, <1>6, <1>2

(* A check that falls within its time of a slot sees that it has arrived. *)
LEMMA SlotIsSeen ==
    ASSUME ScheduleIInv, TimeSlot # Unset, TimeSlot # 0, 20 * MaxDelay < CheckInterval, NEW k \in Nat,
           k * Hour + TimeSlot < now, now <= k * Hour + TimeSlot + CheckInterval + 2 * MaxDelay
    PROVE  SlotArrived
<1>1. /\ CheckInterval \in Nat \ {0} /\ Hour \in Nat \ {0} /\ MaxDelay \in Nat /\ now \in Nat
      /\ TimeSlot \in 0..(Hour - 1) /\ TimeSlot > 0
  BY Known
<1> DEFINE target == now - (now % Hour) + TimeSlot
<1>2. PICK s \in {target - Hour, target} : k * Hour + TimeSlot <= s /\ s < now
  <2>1. now \in Nat /\ Hour \in Nat \ {0} /\ TimeSlot \in 0..(Hour - 1) /\ k * Hour + TimeSlot < now
    BY <1>1
  <2>2. \E s \in {target - Hour, target} : k * Hour + TimeSlot <= s /\ s < now
    <3>1. \E s \in {TargetAt(now, Hour, TimeSlot) - Hour, TargetAt(now, Hour, TimeSlot)} :
             SlotAt(k, Hour, TimeSlot) <= s /\ s < now
      <4>1. SlotAt(k, Hour, TimeSlot) < now
        BY <2>1 DEF SlotAt
      <4> QED
        BY <2>1, <4>1, LatestSlot
    <3> QED
      BY <3>1 DEF SlotAt, TargetAt
  <2> QED
    BY <2>2
<1>3. s \in Int /\ k * Hour + TimeSlot \in Int
  BY <1>1
<1>4. 0 < now - s /\ now - s <= CheckInterval + 2 * MaxDelay
  BY <1>1, <1>2, <1>3
<1>5. 10 * (now - s) < 11 * CheckInterval
  BY <1>1, <1>3, <1>4
<1> QED
  BY <1>1, <1>2, <1>4, <1>5 DEF SlotArrived

SlotOf(k) == k * Hour + TimeSlot

SlotWatchedFor(c, i, k) ==
    \/ publishedBy[Publishers[c][i]] >= SlotOf(k)
    \/ /\ due[c] <= SlotOf(k) + CheckInterval + MaxDelay
       /\ Decided(c, i) => due[c] <= SlotOf(k)

(* A publication stays, and a slot that is still to come was not published since. *)
LEMMA PublishedStays ==
    ASSUME ScheduleIInv, NEW c \in Clients, Publish(c), NEW n \in Names, NEW s \in Int
    PROVE  /\ publishedBy[n] >= s => publishedBy'[n] >= s
           /\ Reliable /\ n = Publishers[c][turn[c]] /\ now >= s => publishedBy'[n] >= s
<1>1. /\ publishedBy' \in {publishedBy, [publishedBy EXCEPT ![Publishers[c][turn[c]]] = now]}
      /\ Reliable => publishedBy' = [publishedBy EXCEPT ![Publishers[c][turn[c]]] = now]
  BY PublishEffect
<1>2. now \in Int /\ publishedBy[n] \in Int /\ publishedBy[n] <= now /\ n \in DOMAIN publishedBy
  BY Known DEF ScheduleIInv, Past, TypeOK
<1> QED
  BY <1>1, <1>2

LEMMA CheckSlotWatched ==
    ASSUME ScheduleIInv, Reliable, TimeSlot # Unset, TimeSlot # 0, 20 * MaxDelay < CheckInterval,
           TimeInterval # Unset => TimeInterval >= CheckInterval,
           NEW c \in Clients \ Steem, NEW i \in DOMAIN Publishers[c], NEW k \in Nat,
           SlotWatchedFor(c, i, k), Check(c)
    PROVE  SlotWatchedFor(c, i, k)'
<1>1. /\ CheckInterval \in Nat \ {0} /\ MaxDelay \in Nat /\ now \in Nat /\ Hour \in Nat
      /\ TimeSlot \in Nat /\ due[c] \in Nat /\ turn[c] \in Nat /\ i \in Nat /\ i >= 1
      /\ i <= Len(Publishers[c]) /\ Len(Publishers[c]) \in Nat
  <2>1. TimeSlot \in Nat /\ i \in 1..Len(Publishers[c]) /\ Len(Publishers[c]) \in Nat
    BY Known
  <2>2. turn[c] \in 1..(Len(Publishers[c]) + 1)
    BY Known
  <2> QED
    BY <2>1, <2>2, Known
<1>2. SlotOf(k) \in Nat
  BY <1>1 DEF SlotOf
<1>3. /\ config' = config /\ CheckInterval' = CheckInterval /\ MaxDelay' = MaxDelay
      /\ Publishers' = Publishers /\ SlotOf(k)' = SlotOf(k)
  <2>1. config' = config
    BY ConfigKept DEF Next
  <2> QED
    BY <2>1, SettingsKept DEF SlotOf
<1>4. c \in DOMAIN at /\ c \in DOMAIN due /\ c \in DOMAIN turn
  BY DEF ScheduleIInv, TypeOK
<1> DEFINE n == Publishers[c][i]
<1>5. n \in Names
  BY PublishersInUse DEF ScheduleIInv, TypeOK
<1>6. CASE Fetch(c)
  <2>1. due' = due /\ at'[c] = "fetched" /\ publishedBy' = publishedBy
    BY <1>4, <1>6 DEF Fetch, Goto
  <2> QED
    BY <1>3, <2>1 DEF SlotWatchedFor, Decided
<1>7. CASE CountCheck(c)
  <2>1. due' = due /\ turn'[c] = 1 /\ publishedBy' = publishedBy
    BY <1>4, <1>7 DEF CountCheck
  <2> QED
    BY <1>1, <1>3, <2>1 DEF SlotWatchedFor, Decided
<1>8. CASE Decide(c)
  <2>1. due' = due /\ publishedBy' = publishedBy /\ at[c] = "deciding"
    BY <1>8 DEF Decide
  <2>2. turn'[c] = turn[c] \/ (turn'[c] = turn[c] + 1 /\ ~ShouldPublish)
    <3>1. c \notin Steem /\ Reliable
      OBVIOUS
    <3>2. turn' = turn \/ (NextNode(c) /\ ~ShouldPublish)
      BY <1>8, <3>1, Zenon DEF Decide
    <3> QED
      BY <1>4, <3>2 DEF NextNode
  <2>3. CASE publishedBy[n] >= SlotOf(k)
    BY <1>3, <2>1, <2>3 DEF SlotWatchedFor
  <2>4. CASE due[c] <= SlotOf(k) + CheckInterval + MaxDelay /\ (Decided(c, i) => due[c] <= SlotOf(k))
    <3>1. Decided(c, i)' => due[c] <= SlotOf(k)
      <4>1. CASE turn[c] > i
        BY <2>1, <2>4, <4>1 DEF Decided
      <4>2. CASE turn[c] <= i /\ turn'[c] = turn[c]
        BY <1>1, <4>2 DEF Decided
      <4>3. CASE ~ShouldPublish
        <5>1. due[c] <= now /\ now <= due[c] + MaxDelay
          BY <2>1 DEF ScheduleIInv, OnTime
        <5>2. now <= SlotOf(k) + CheckInterval + 2 * MaxDelay
          BY <1>1, <1>2, <2>4, <5>1
        <5>3. ~SlotArrived
          BY <4>3, DividesByThePeriod DEF ShouldPublish
        <5>4. ~(SlotOf(k) < now)
          BY <5>2, <5>3, SlotIsSeen DEF SlotOf
        <5> QED
          BY <1>1, <1>2, <5>1, <5>4
      <4> QED
        BY <1>1, <2>2, <4>1, <4>2, <4>3
    <3> QED
      BY <1>3, <2>1, <2>4, <3>1 DEF SlotWatchedFor
  <2> QED
    BY <2>3, <2>4 DEF SlotWatchedFor
<1>9. CASE Publish(c)
  <2>1. /\ due' = due /\ at[c] = "publishing" /\ turn'[c] = turn[c] + 1
    BY <1>4, <1>9, PublishEffect
  <2>2. due[c] <= now
    BY <2>1 DEF ScheduleIInv, OnTime
  <2>3. CASE publishedBy[n] >= SlotOf(k)
    <3>1. publishedBy'[n] >= SlotOf(k)
      BY <1>2, <1>5, <1>9, <2>3, PublishedStays
    <3> QED
      BY <1>3, <3>1 DEF SlotWatchedFor
  <2>4. CASE due[c] <= SlotOf(k) + CheckInterval + MaxDelay /\ (Decided(c, i) => due[c] <= SlotOf(k))
    <3>1. CASE turn[c] # i
      <4>1. Decided(c, i)' => due[c] <= SlotOf(k)
        BY <1>1, <2>1, <2>4, <3>1 DEF Decided
      <4> QED
        BY <1>3, <2>1, <2>4, <4>1 DEF SlotWatchedFor
    <3>2. CASE turn[c] = i /\ now >= SlotOf(k)
      <4>1. publishedBy'[n] >= SlotOf(k)
        BY <1>2, <1>5, <1>9, <3>2, PublishedStays
      <4> QED
        BY <1>3, <4>1 DEF SlotWatchedFor
    <3>3. CASE ~(now >= SlotOf(k))
      <4>1. due[c] <= SlotOf(k)
        BY <1>1, <1>2, <2>2, <3>3
      <4> QED
        BY <1>3, <2>1, <2>4, <4>1 DEF SlotWatchedFor
    <3> QED
      BY <3>1, <3>2, <3>3
  <2> QED
    BY <2>3, <2>4 DEF SlotWatchedFor
<1>10. CASE EndCheck(c)
  <2>1. /\ at[c] = "deciding" /\ turn[c] > i /\ at'[c] = "waiting" /\ due'[c] = now + CheckInterval
        /\ publishedBy' = publishedBy
    BY <1>1, <1>4, <1>10 DEF EndCheck, Rearm, Goto
  <2>2. CASE publishedBy[n] >= SlotOf(k)
    BY <1>3, <2>1, <2>2 DEF SlotWatchedFor
  <2>3. CASE Decided(c, i) => due[c] <= SlotOf(k)
    <3>1. due[c] <= SlotOf(k)
      BY <2>1, <2>3 DEF Decided
    <3>2. now <= due[c] + MaxDelay
      BY <2>1 DEF ScheduleIInv, OnTime
    <3>3. due'[c] <= SlotOf(k) + CheckInterval + MaxDelay
      BY <1>1, <1>2, <2>1, <3>1, <3>2
    <3>4. ~Decided(c, i)'
      BY <2>1 DEF Decided
    <3> QED
      BY <1>3, <3>3, <3>4 DEF SlotWatchedFor
  <2> QED
    BY <2>2, <2>3 DEF SlotWatchedFor
<1> QED
  BY <1>6, <1>7, <1>8, <1>9, <1>10 DEF Check

LEMMA InitSlots == Init => SlotIInv
<1> SUFFICES ASSUME Init PROVE SlotIInv
  OBVIOUS
<1>1. ScheduleIInv
  BY InitSchedule
<1>2. CheckInterval \in Nat /\ MaxDelay \in Nat /\ Hour \in Nat /\ TimeSlot \in Nat \cup {Unset}
  BY <1>1, Known
<1>3. \A c \in Clients : due[c] <= CheckInterval /\ due[c] \in Nat /\ at[c] = "waiting"
  <2>1. Starts \subseteq 0..CheckInterval
    BY InUse DEF Init
  <2>2. \A c \in Clients : due[c] \in Starts /\ at[c] = "waiting"
    BY DEF Init
  <2>3. \A t \in Starts : t \in Nat /\ t <= CheckInterval
    BY <1>2, <2>1
  <2> QED
    BY <2>2, <2>3
<1>4. TimeSlot # Unset => \A k \in Nat : k * Hour + TimeSlot \in Nat
  BY <1>2
<1>5. SlotWatched
  BY <1>2, <1>3, <1>4 DEF SlotWatched, Decided
<1> QED
  BY <1>1, <1>5 DEF SlotIInv

LEMMA SlotInUse ==
    ASSUME config \in DOMAIN Settings, \A s \in DOMAIN Settings : SlotCanBeKept(Settings[s]),
           Reliable, TimeSlot # Unset
    PROVE  /\ TimeInterval # Unset => TimeInterval >= CheckInterval
           /\ TimeSlot # 0 /\ 20 * MaxDelay < CheckInterval
<1>1. SlotCanBeKept(Settings[config])
  OBVIOUS
<1> QED
  BY <1>1 DEF SlotCanBeKept, PeriodIsPositive, Reliable, TimeSlot, TimeInterval, CheckInterval, MaxDelay

LEMMA NextSlots ==
    ASSUME \A s \in DOMAIN Settings : SlotCanBeKept(Settings[s]), SlotIInv, [Next]_vars
    PROVE  SlotIInv'
<1>1. ScheduleIInv /\ ScheduleIInv' /\ SlotWatched /\ config \in DOMAIN Settings
  BY NextSchedule DEF SlotIInv, ScheduleIInv, TypeOK
<1>2. config' = config
  BY ConfigKept
<1>3. /\ Clients' = Clients /\ Steem' = Steem /\ Publishers' = Publishers /\ Reliable' = Reliable
      /\ TimeSlot' = TimeSlot /\ CheckInterval' = CheckInterval /\ MaxDelay' = MaxDelay /\ Hour' = Hour
  BY <1>2, SettingsKept
<1>4. SlotWatched'
  <2>1. CASE ~(Reliable /\ TimeSlot # Unset)
    BY <1>3, <2>1 DEF SlotWatched
  <2>2. CASE Reliable /\ TimeSlot # Unset
    <3>1. ASSUME NEW d \in Clients \ Steem, NEW i \in DOMAIN Publishers[d], NEW k \in Nat
          PROVE  SlotWatchedFor(d, i, k)'
      <4>1. SlotWatchedFor(d, i, k)
        BY <1>1, <2>2 DEF SlotWatched, SlotWatchedFor, SlotOf
      <4>2. CASE Check(d)
        BY <1>1, <2>2, <4>1, <4>2, SlotInUse, CheckSlotWatched
      <4>3. CASE /\ at'[d] = at[d] /\ due'[d] = due[d] /\ turn'[d] = turn[d]
                 /\ publishedBy[Publishers[d][i]] >= SlotOf(k) => publishedBy'[Publishers[d][i]] >= SlotOf(k)
        <5>1. SlotOf(k)' = SlotOf(k)
          BY <1>3 DEF SlotOf
        <5> QED
          BY <1>3, <4>1, <4>3, <5>1 DEF SlotWatchedFor, Decided
      <4>4. ASSUME NEW c \in Clients, Check(c)
            PROVE  publishedBy[Publishers[d][i]] >= SlotOf(k) => publishedBy'[Publishers[d][i]] >= SlotOf(k)
        <5>1. CASE Publish(c)
          <6>1. SlotOf(k) \in Int /\ Publishers[d][i] \in Names
            BY <1>1, <2>2, Known, PublishersInUse DEF SlotOf
          <6> QED
            BY <1>1, <5>1, <6>1, PublishedStays
        <5>2. CASE publishedBy' = publishedBy
          BY <5>2
        <5> QED
          BY <4>4, <5>1, <5>2 DEF Check, Fetch, CountCheck, Decide, EndCheck
      <4> QED
        BY <1>1, <4>2, <4>3, <4>4, OthersKept DEF Next, Tick, vars
    <3> QED
      BY <1>3, <3>1 DEF SlotWatched, SlotWatchedFor, SlotOf
  <2> QED
    BY <2>1, <2>2
<1> QED
  BY <1>1, <1>4 DEF SlotIInv

(* "publish every hour at a fixed number of minutes" (config.yaml:154,            *)
(* feed_publish.py:219-226): for any phase of the checks to the hour, any number  *)
(* of clients and publishers, and any drift, if a check takes less than a         *)
(* twentieth of the interval, which is what the factor 1.1 leaves for.            *)
THEOREM SlotsAreKept ==
    ASSUME \A s \in DOMAIN Settings : SlotCanBeKept(Settings[s])
    PROVE  Spec => []SlotKept
<1>1. SlotIInv => SlotKept
  <2> SUFFICES ASSUME SlotIInv, Reliable, TimeSlot # Unset, NEW k \in 0..(now \div Hour),
                      SlotOf(k) + CheckInterval + 2 * MaxDelay < now, NEW n \in OfBitShares
               PROVE  publishedBy[n] >= SlotOf(k)
    BY DEF SlotKept, SlotOf
  <2>1. ScheduleIInv /\ SlotWatched
    BY DEF SlotIInv
  <2>2. PICK c \in Clients \ Steem : \E i \in DOMAIN Publishers[c] : n = Publishers[c][i]
    BY SomePublisher
  <2>3. PICK i \in DOMAIN Publishers[c] : n = Publishers[c][i]
    BY <2>2
  <2>4. /\ CheckInterval \in Nat /\ MaxDelay \in Nat /\ now \in Nat /\ due[c] \in Nat
        /\ k \in Nat /\ SlotOf(k) \in Int
    BY <2>1, Known DEF SlotOf
  <2>5. now <= due[c] + MaxDelay
    BY <2>1, <2>4 DEF ScheduleIInv, OnTime
  <2>6. ~(due[c] <= SlotOf(k) + CheckInterval + MaxDelay)
    BY <2>4, <2>5
  <2>7. publishedBy[n] >= SlotOf(k) \/ due[c] <= SlotOf(k) + CheckInterval + MaxDelay
    BY <2>1, <2>3, <2>4 DEF SlotWatched, SlotOf
  <2> QED
    BY <2>6, <2>7
<1>2. SlotIInv /\ [Next]_vars => SlotIInv'
  BY NextSlots
<1> QED
  BY <1>1, <1>2, InitSlots, PTL DEF Spec
=============================================================================
