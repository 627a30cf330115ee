-------------------------- MODULE MonitorLoopProofs --------------------------
(***************************************************************************)
(* What the monitoring thread tells its user is true, for all clients,     *)
(* whatever plugins and role they have, and any number of watched nodes.   *)
(***************************************************************************)
EXTENDS MonitorLoop, StableStateProofs

(* The part of the invariant about one topic: its monitor m, the last          *)
(* notification x, the topics B not notified since the client came online and  *)
(* the topics U of which the last change was not notified.                     *)
Good(t, m, x, B, U) ==
    /\ IsMonitor(m, Size(t), Readings(t))
    /\ x \in Readings(t) \cup {None}
    /\ t \in Measured \cup Names /\ t \notin U /\ x # None => x = Settled(m)
    /\ t \in Forced =>
         /\ x = Down[t] => Settled(m) = Down[t]
         /\ x = Up[t] /\ t \notin B => Settled(m) = Up[t]

(* In the iteration that saw the client come online, the topics a plugin is *)
(* about to force were not notified since.                                  *)
NotYetForced ==
    JustCameOnline =>
      /\ pc \in {"indexing", "info", "seed", "network_connections", "wallet_state"}
           => {"open", "locked"} \subseteq back
      /\ pc \in {"indexing", "info", "seed", "network_connections", "wallet_state", "fork"}
           => "sync" \in back

(* A vote notice is only due for a change, and was not sent yet. *)
NoticeDue ==
    \A i \in 1..Len(Voters) :
        pc = "head_block" /\ voter = i =>
          /\ JustChanged(mon[Voters[i]])
          /\ told[Voters[i]] # Stable(mon[Voters[i]]) \/ Voters[i] \in lost

IInv ==
    /\ TypeOK
    /\ \A t \in Topics : Good(t, mon[t], told[t], back, Unsure)
    /\ NotYetForced
    /\ NoticeDue
-----------------------------------------------------------------------------
(* The names of the topics and their readings. *)
LEMMA TopicFacts ==
    /\ \A t \in Topics : Size(t) \in Nat \ {0} /\ None \notin Readings(t)
         /\ Up[t] # Down[t] /\ Readings(t) = {Up[t], Down[t]}
    /\ Measured \subseteq ClientTopics /\ Forced \subseteq ClientTopics
    /\ Measured \cap Forced = {} /\ ClientTopics \subseteq Topics
    /\ ClientTopics = Measured \cup Forced
    /\ Readings("online") = {"online", "offline"}
    /\ Down["open"] = "closed" /\ Down["locked"] = "locked"
    /\ Down["sync"] = "stale" /\ Up["sync"] = "up-to-date"
    /\ \A t \in Names : Readings(t) = {"active", "standby"} /\ t \notin ClientTopics
<1>1. \A t \in Topics : Size(t) \in Nat \ {0}
  BY DEF Size
<1>2. \A t \in ClientTopics : None \notin Readings(t) /\ Up[t] # Down[t]
  BY DEF Readings, Up, Down, None, ClientTopics, Topics
<1>3. \A t \in Names : t \notin ClientTopics
  BY MonitoringAssumption
<1>4. \A t \in Names : Up[t] = "active" /\ Down[t] = "standby"
  BY <1>3 DEF Up, Down, Topics, ClientTopics
<1>5. \A t \in Names : None \notin Readings(t) /\ Up[t] # Down[t]
                       /\ Readings(t) = {"active", "standby"}
  BY <1>4 DEF Readings, None
<1>6. /\ Readings("online") = {"online", "offline"}
      /\ Down["open"] = "closed" /\ Down["locked"] = "locked"
      /\ Down["sync"] = "stale" /\ Up["sync"] = "up-to-date"
  BY DEF Readings, Up, Down, Topics, ClientTopics
<1>7. \A t \in Topics : None \notin Readings(t) /\ Up[t] # Down[t]
                         /\ Readings(t) = {Up[t], Down[t]}
  BY <1>2, <1>5 DEF Topics, Readings
<1>8. /\ Measured \subseteq ClientTopics /\ Forced \subseteq ClientTopics
      /\ Measured \cap Forced = {} /\ ClientTopics \subseteq Topics
      /\ ClientTopics = Measured \cup Forced
  BY DEF Measured, Forced, ClientTopics, Topics
<1> QED BY <1>1, <1>3, <1>5, <1>6, <1>7, <1>8

(* Only votes can be unsure. *)
LEMMA UnsureNames == TypeOK => Unsure \subseteq Names
<1>1. \A i \in 1..Len(Voters) : Voters[i] \in Names
  BY DEF Names
<1> QED BY <1>1 DEF TypeOK, Unsure

(* A push on topic t that is notified if it just changed the monitor. *)
LEMMA GoodPush ==
    ASSUME NEW t \in Topics, NEW m, NEW x, NEW B, NEW U, Good(t, m, x, B, U),
           NEW v \in Readings(t)
    PROVE  /\ ~JustChanged(Push(m, v)) => Good(t, Push(m, v), x, B, U)
           /\ JustChanged(Push(m, v)) =>
                /\ Stable(Push(m, v)) = v
                /\ \A C, W : Good(t, Push(m, v), v, C, W)
                /\ x = v => t \in U \/ (t \in B /\ t \in Forced /\ x = Up[t])
<1>1. /\ Size(t) \in Nat \ {0} /\ None \notin Readings(t) /\ v # None
      /\ Readings(t) = {Up[t], Down[t]} /\ Up[t] # Down[t]
      /\ Measured \cap Forced = {}
      /\ t \in Names \/ t \in Measured \/ t \in Forced
  BY TopicFacts DEF Topics
<1>2. IsMonitor(m, Size(t), Readings(t))
  BY DEF Good
<1>3. /\ Stable(Push(m, v)) \in {v, None}
      /\ Settled(Push(m, v)) = IF Stable(Push(m, v)) = v THEN v ELSE Settled(m)
      /\ JustChanged(Push(m, v))
           <=> Stable(Push(m, v)) = v /\ Settled(m) \notin {None, v}
      /\ IsMonitor(Push(m, v), Size(t), Readings(t))
  BY <1>1, <1>2, PushSettles, PushType
<1>4. ASSUME ~JustChanged(Push(m, v)) PROVE Good(t, Push(m, v), x, B, U)
  BY <1>1, <1>3, <1>4 DEF Good
<1>5. ASSUME JustChanged(Push(m, v))
      PROVE  /\ Stable(Push(m, v)) = v
             /\ \A C, W : Good(t, Push(m, v), v, C, W)
             /\ x = v => t \in U \/ (t \in B /\ t \in Forced /\ x = Up[t])
  BY <1>1, <1>3, <1>5 DEF Good
<1> QED BY <1>4, <1>5

(* Forcing a topic down, silently, after the client came online. *)
LEMMA GoodForce ==
    ASSUME NEW t \in Forced, NEW m, NEW x, NEW B, NEW U, t \in B, Good(t, m, x, B, U)
    PROVE  Good(t, Push(m, Down[t]), x, B, U)
<1>1. /\ t \in Topics /\ t \notin Measured \cup Names /\ Size(t) \in Nat \ {0}
      /\ None \notin Readings(t) /\ Down[t] \in Readings(t) /\ Down[t] # None
  BY TopicFacts
<1>2. /\ Settled(Push(m, Down[t])) \in {Down[t], Settled(m)}
      /\ IsMonitor(Push(m, Down[t]), Size(t), Readings(t))
  BY <1>1, PushSettles, PushType DEF Good
<1> QED BY <1>1, <1>2 DEF Good

-----------------------------------------------------------------------------
(* What every step but those of voted_in does: the topics stay good, and no *)
(* notice is repeated.                                                      *)
Faithful ==
    /\ mon' = [t \in Topics |-> mon'[t]]
    /\ told' = [t \in Topics |-> told'[t]]
    /\ sent' \subseteq ClientTopics
    /\ back' \subseteq Topics
    /\ lost' = lost
    /\ \A t \in Topics : Good(t, mon'[t], told'[t], back', Unsure)
    /\ \A t \in sent' :
         told'[t] = told[t] => t \in back \cap Forced /\ told[t] = Up[t]

(* A step that pushes on the topics T and notifies those that changed. *)
LEMMA OutcomeFaithful ==
    ASSUME IInv, NEW T \in SUBSET ClientTopics, NEW base, NEW next, NEW b \in BOOLEAN,
           next = [t \in Topics |-> next[t]],
           \A t \in Topics : Good(t, base[t], told[t], back, Unsure),
           \A t \in Topics \ T : next[t] = base[t],
           \A t \in T : \E v \in Readings(t) : next[t] = Push(base[t], v),
           Outcome(next, Changed(next, T), b)
    PROVE  Faithful
<1>1. /\ mon' = next
      /\ sent' = Changed(next, T)
      /\ told' = [t \in Topics |-> IF t \in sent' THEN Stable(next[t]) ELSE told[t]]
      /\ back' = (IF b THEN Topics ELSE back) \ sent'
      /\ lost' = lost \ sent'
  BY DEF Outcome
<1>2. /\ sent' \subseteq T /\ sent' \subseteq ClientTopics /\ back' \subseteq Topics
      /\ lost' = lost
  <2>1. sent' \subseteq T /\ back' \subseteq Topics
    BY <1>1 DEF Changed, IInv, TypeOK
  <2>2. lost \cap ClientTopics = {}
    BY MonitoringAssumption DEF IInv, TypeOK
  <2> QED BY <1>1, <2>1, <2>2
<1>3. told' = [t \in Topics |-> told'[t]]
  BY <1>1
<1>4. ASSUME NEW t \in Topics
      PROVE  /\ Good(t, mon'[t], told'[t], back', Unsure)
             /\ t \in sent' /\ told'[t] = told[t]
                  => t \in back \cap Forced /\ told[t] = Up[t]
  <2>1. Good(t, base[t], told[t], back, Unsure)
    OBVIOUS
  <2>2. CASE t \in sent'
    <3>1. t \in T /\ JustChanged(next[t]) /\ told'[t] = Stable(next[t]) /\ t \notin back'
      BY <1>1, <2>2 DEF Changed
    <3>2. PICK v \in Readings(t) : next[t] = Push(base[t], v)
      BY <3>1
    <3>3. /\ Stable(next[t]) = v
          /\ \A C, W : Good(t, next[t], v, C, W)
          /\ told[t] = v => t \in Unsure \/ (t \in back /\ t \in Forced /\ told[t] = Up[t])
      BY <2>1, <3>1, <3>2, GoodPush
    <3>4. t \notin Unsure
      BY <3>1, UnsureNames, MonitoringAssumption DEF IInv
    <3> QED BY <1>1, <3>1, <3>3, <3>4
  <2>3. CASE t \notin sent'
    <3>1. told'[t] = told[t] /\ (t \in back => t \in back')
      BY <1>1, <2>3
    <3>2. Good(t, next[t], told[t], back, Unsure)
      <4>1. CASE t \in T
        <5>1. PICK v \in Readings(t) : next[t] = Push(base[t], v)
          BY <4>1
        <5>2. ~JustChanged(next[t])
          BY <1>1, <2>3, <4>1 DEF Changed
        <5> QED BY <2>1, <5>1, <5>2, GoodPush
      <4>2. CASE t \notin T
        BY <2>1, <4>2
      <4> QED BY <4>1, <4>2
    <3>3. Good(t, next[t], told[t], back', Unsure)
      BY <3>1, <3>2 DEF Good
    <3>4. mon'[t] = next[t]
      BY <1>1
    <3> QED BY <2>3, <3>1, <3>3, <3>4
  <2> QED BY <2>2, <2>3
<1> QED BY <1>1, <1>2, <1>3, <1>4, TopicFacts DEF Faithful

(* A step that pushes nothing and sends nothing. *)
LEMMA SilentFaithful == IInv /\ Silent => Faithful
<1> SUFFICES ASSUME IInv, Silent PROVE Faithful
  OBVIOUS
<1>1. /\ mon' = mon /\ sent' = {} /\ back' = back
      /\ told' = [t \in Topics |-> told[t]] /\ lost' = lost
      /\ mon = [t \in Topics |-> mon[t]] /\ told = [t \in Topics |-> told[t]]
      /\ back \subseteq Topics
      /\ \A t \in Topics : Good(t, mon[t], told[t], back, Unsure)
  BY DEF Silent, Outcome, IInv, TypeOK
<1>2. told' = told
  BY <1>1
<1> QED BY <1>1, <1>2 DEF Faithful

(* One push of a measured value. *)
LEMMA PushFaithful ==
    ASSUME IInv, NEW t \in ClientTopics, NEW v \in Readings(t), NEW b \in BOOLEAN,
           Outcome(PushTo(mon, t, v), Changed(PushTo(mon, t, v), {t}), b)
    PROVE  Faithful
<1> DEFINE next == PushTo(mon, t, v)
<1>1. /\ mon = [u \in Topics |-> mon[u]]
      /\ \A u \in Topics : Good(u, mon[u], told[u], back, Unsure)
  BY DEF IInv, TypeOK
<1>2. /\ next = [u \in Topics |-> next[u]]
      /\ next[t] = Push(mon[t], v)
      /\ \A u \in Topics \ {t} : next[u] = mon[u]
  BY <1>1, TopicFacts DEF PushTo
<1>3. Outcome(next, Changed(next, {t}), b)
  OBVIOUS
<1> HIDE DEF next
<1> QED BY <1>1, <1>2, <1>3, OutcomeFaithful, {t} \in SUBSET ClientTopics
-----------------------------------------------------------------------------
(* The plugins that force a topic down do it before the user hears of it. *)
LEMMA ForcedGood ==
    ASSUME IInv, pc \in {"wallet_state", "fork"}
    PROVE  LET base == IF pc = "wallet_state" THEN ForcedWallet ELSE ForcedSync
           IN /\ base = [t \in Topics |-> base[t]]
              /\ \A t \in Topics : Good(t, base[t], told[t], back, Unsure)
<1>1. /\ mon = [t \in Topics |-> mon[t]]
      /\ \A t \in Topics : Good(t, mon[t], told[t], back, Unsure)
  BY DEF IInv, TypeOK
<1>2. /\ {"open", "locked", "sync"} = Forced /\ Forced \subseteq Topics
      /\ Down["open"] = "closed" /\ Down["locked"] = "locked" /\ Down["sync"] = "stale"
  BY TopicFacts DEF Forced
<1>3. CASE ~JustCameOnline
  BY <1>1, <1>3 DEF ForcedWallet, ForcedSync
<1>4. CASE JustCameOnline /\ pc = "wallet_state"
  <2>1. {"open", "locked"} \subseteq back
    BY <1>4 DEF IInv, NotYetForced
  <2>2. /\ Good("open", Push(mon["open"], "closed"), told["open"], back, Unsure)
        /\ Good("locked", Push(mon["locked"], "locked"), told["locked"], back, Unsure)
    <3>1. "open" \in Forced /\ "locked" \in Forced /\ "open" \in Topics /\ "locked" \in Topics
      BY <1>2
    <3>2. Good("open", Push(mon["open"], Down["open"]), told["open"], back, Unsure)
      BY <1>1, <2>1, <3>1, GoodForce
    <3>3. Good("locked", Push(mon["locked"], Down["locked"]), told["locked"], back, Unsure)
      BY <1>1, <2>1, <3>1, GoodForce
    <3> QED BY <1>2, <3>2, <3>3
  <2>3. ForcedWallet = [t \in Topics |-> IF t = "open" THEN Push(mon["open"], "closed")
                                         ELSE IF t = "locked" THEN Push(mon["locked"], "locked")
                                         ELSE mon[t]]
    BY <1>1, <1>2, <1>4 DEF ForcedWallet, PushTo
  <2> QED BY <1>1, <1>4, <2>2, <2>3
<1>5. CASE JustCameOnline /\ pc = "fork"
  <2>1. "sync" \in back /\ "sync" \in Forced /\ "sync" \in Topics
    BY <1>2, <1>5 DEF IInv, NotYetForced
  <2> DEFINE f(x) == Push(x, Down["sync"])
  <2>2. Good("sync", f(mon["sync"]), told["sync"], back, Unsure)
    BY <1>1, <2>1, GoodForce
  <2>3. Good("sync", f(f(mon["sync"])), told["sync"], back, Unsure)
    BY <2>1, <2>2, GoodForce
  <2>4. Good("sync", f(f(f(mon["sync"]))), told["sync"], back, Unsure)
    BY <2>1, <2>3, GoodForce
  <2>5. ForcedSync = [t \in Topics |-> IF t = "sync" THEN f(f(f(mon["sync"]))) ELSE mon[t]]
    BY <1>1, <1>2, <1>5 DEF ForcedSync, PushTo
  <2> HIDE DEF f
  <2> QED BY <1>1, <1>5, <2>4, <2>5
<1> QED BY <1>3, <1>4, <1>5

(* online.monitor(), which tells the change it sees in the same call. *)
LEMMA OnlineFaithful == IInv /\ MonitorOnline => Faithful
<1> SUFFICES ASSUME IInv, MonitorOnline PROVE Faithful
  OBVIOUS
<1>1. PICK answer \in InfoAnswers :
        LET state == IF answer = Failed THEN "offline" ELSE "online"
            next == PushTo(mon, "online", state)
        IN Outcome(next, Changed(next, {"online"}),
                   state = "online" /\ JustChanged(next["online"]))
  BY DEF MonitorOnline
<1> DEFINE state == IF answer = Failed THEN "offline" ELSE "online"
           next == PushTo(mon, "online", state)
<1>2. "online" \in ClientTopics /\ state \in Readings("online")
  BY TopicFacts DEF ClientTopics
<1>3. PICK b \in BOOLEAN : Outcome(next, Changed(next, {"online"}), b)
  BY <1>1
<1> HIDE DEF state
<1> QED BY <1>2, <1>3, PushFaithful

(* network_connections.monitor() and free_disk_space.monitor(). *)
LEMMA MeasureFaithful ==
    ASSUME IInv, NEW t \in {"connections", "disk"}, Measure(t)
    PROVE  Faithful
<1>1. t \in ClientTopics
  BY TopicFacts DEF ClientTopics
<1>2. CASE Silent
  BY <1>2, SilentFaithful
<1>3. ASSUME NEW v \in Readings(t),
             Outcome(PushTo(mon, t, v), Changed(PushTo(mon, t, v), {t}), FALSE)
      PROVE  Faithful
  BY <1>1, <1>3, PushFaithful
<1> QED BY <1>2, <1>3 DEF Measure

(* wallet_state.monitor(), wherever an exception cuts it short. *)
LEMMA WalletFaithful == IInv /\ MonitorWallet => Faithful
<1> SUFFICES ASSUME IInv, MonitorWallet PROVE Faithful
  OBVIOUS
<1> DEFINE base == ForcedWallet
<1>1. pc = "wallet_state"
  BY DEF MonitorWallet, ClientPlugin
<1>2. base = [t \in Topics |-> base[t]] /\ \A t \in Topics : Good(t, base[t], told[t], back, Unsure)
  BY <1>1, ForcedGood
<1>3. {"open", "locked"} \subseteq ClientTopics /\ ClientTopics \subseteq Topics
  BY TopicFacts DEF ClientTopics
<1> HIDE DEF base
<1>4. CASE Outcome(base, {}, FALSE)
  <2>1. Changed(base, {}) = {}
    BY DEF Changed
  <2> QED BY <1>2, <1>4, <2>1, OutcomeFaithful, {} \in SUBSET ClientTopics
<1>5. ASSUME NEW o \in Readings("open"),
             Outcome(PushTo(base, "open", o), Changed(PushTo(base, "open", o), {"open"}), FALSE)
      PROVE  Faithful
  <2> DEFINE next == PushTo(base, "open", o)
  <2>1. /\ next = [t \in Topics |-> next[t]] /\ next["open"] = Push(base["open"], o)
        /\ \A t \in Topics \ {"open"} : next[t] = base[t]
    BY <1>2, <1>3 DEF PushTo
  <2>2. Outcome(next, Changed(next, {"open"}), FALSE)
    BY <1>5
  <2> HIDE DEF next
  <2>3. \A t \in {"open"} : \E v \in Readings(t) : next[t] = Push(base[t], v)
    BY <2>1
  <2> QED BY <1>2, <1>3, <2>1, <2>2, <2>3, OutcomeFaithful, {"open"} \in SUBSET ClientTopics
<1>6. ASSUME NEW o \in Readings("open"), NEW l \in Readings("locked"),
             LET next == PushTo(PushTo(base, "open", o), "locked", l)
             IN Outcome(next, Changed(next, {"open", "locked"}), FALSE)
      PROVE  Faithful
  <2> DEFINE next == PushTo(PushTo(base, "open", o), "locked", l)
  <2>1. /\ next = [t \in Topics |-> next[t]]
        /\ next["open"] = Push(base["open"], o)
        /\ next["locked"] = Push(base["locked"], l)
        /\ \A t \in Topics \ {"open", "locked"} : next[t] = base[t]
    BY <1>2, <1>3 DEF PushTo
  <2>2. Outcome(next, Changed(next, {"open", "locked"}), FALSE)
    BY <1>6
  <2> HIDE DEF next
  <2>3. \A t \in {"open", "locked"} : \E v \in Readings(t) : next[t] = Push(base[t], v)
    BY <2>1
  <2> QED BY <1>2, <1>3, <2>1, <2>2, <2>3, OutcomeFaithful, {"open", "locked"} \in SUBSET ClientTopics
<1> QED BY <1>4, <1>5, <1>6 DEF MonitorWallet, base

(* fork.monitor(), with or without an answer of info(). *)
LEMMA ForkFaithful == IInv /\ MonitorFork => Faithful
<1> SUFFICES ASSUME IInv, MonitorFork PROVE Faithful
  OBVIOUS
<1> DEFINE base == ForcedSync
<1>1. pc = "fork"
  BY DEF MonitorFork, ClientPlugin
<1>2. base = [t \in Topics |-> base[t]] /\ \A t \in Topics : Good(t, base[t], told[t], back, Unsure)
  BY <1>1, ForcedGood
<1>3. "sync" \in ClientTopics /\ "sync" \in Topics
  BY TopicFacts DEF ClientTopics
<1> HIDE DEF base
<1>4. CASE Outcome(base, {}, FALSE)
  <2>1. Changed(base, {}) = {}
    BY DEF Changed
  <2> QED BY <1>2, <1>4, <2>1, OutcomeFaithful, {} \in SUBSET ClientTopics
<1>5. ASSUME NEW v \in Readings("sync"),
             Outcome(PushTo(base, "sync", v), Changed(PushTo(base, "sync", v), {"sync"}), FALSE)
      PROVE  Faithful
  <2> DEFINE next == PushTo(base, "sync", v)
  <2>1. /\ next = [t \in Topics |-> next[t]] /\ next["sync"] = Push(base["sync"], v)
        /\ \A t \in Topics \ {"sync"} : next[t] = base[t]
    BY <1>2, <1>3 DEF PushTo
  <2>2. Outcome(next, Changed(next, {"sync"}), FALSE)
    BY <1>5
  <2> HIDE DEF next
  <2>3. \A t \in {"sync"} : \E w \in Readings(t) : next[t] = Push(base[t], w)
    BY <2>1
  <2> QED BY <1>2, <1>3, <2>1, <2>2, <2>3, OutcomeFaithful, {"sync"} \in SUBSET ClientTopics
<1>6. "up-to-date" \in Readings("sync") /\ "stale" \in Readings("sync")
  BY <1>3, TopicFacts
<1>7. PICK answer \in InfoAnswers :
        LET next == PushTo(base, "sync", IF answer = "synced" THEN "up-to-date" ELSE "stale")
        IN IF answer = Failed
           THEN Outcome(base, {}, FALSE)
           ELSE Outcome(next, Changed(next, {"sync"}), FALSE)
  BY DEF MonitorFork, base
<1> DEFINE v == IF answer = "synced" THEN "up-to-date" ELSE "stale"
<1>8. v \in Readings("sync")
  BY <1>6
<1>9. \/ Outcome(base, {}, FALSE)
      \/ Outcome(PushTo(base, "sync", v), Changed(PushTo(base, "sync", v), {"sync"}), FALSE)
  BY <1>7
<1> HIDE DEF v
<1> QED BY <1>4, <1>5, <1>8, <1>9

-----------------------------------------------------------------------------
(* What every step does. *)
Promised ==
    /\ mon' = [t \in Topics |-> mon'[t]]
    /\ told' = [t \in Topics |-> told'[t]]
    /\ sent' \subseteq Topics
    /\ back' \subseteq Topics
    /\ lost' \subseteq Names
    /\ \A t \in Topics : Good(t, mon'[t], told'[t], back', Unsure')
    /\ \A t \in sent' :
         told'[t] = told[t] => (t \in back \cap Forced /\ told[t] = Up[t]) \/ t \in lost
    /\ NoticeDue'

(* A faithful step away from voted_in keeps what is promised of it. *)
LEMMA FaithfulPromised ==
    ASSUME IInv, Faithful, pc # "head_block", pc' # "head_block"
    PROVE  Promised
<1>1. Unsure' = Unsure /\ NoticeDue'
  BY DEF Faithful, Unsure, NoticeDue
<1>2. lost \subseteq Names /\ ClientTopics \subseteq Topics
  BY DEF IInv, TypeOK, Topics
<1> QED BY <1>1, <1>2 DEF Faithful, Promised

(* Dropping the cache disturbs nothing, not even a notice that is due, and neither *)
(* does a call that hangs.                                                         *)
LEMMA ViewPromised == IInv /\ (ViewClearsCache \/ Hang) => Promised
<1> SUFFICES ASSUME IInv, ViewClearsCache \/ Hang PROVE Promised
  OBVIOUS
<1>1. Faithful
  BY SilentFaithful DEF ViewClearsCache, Hang
<1>2. mon' = mon /\ told' = told /\ pc' = pc /\ voter' = voter /\ lost' = lost /\ sent' = {}
  BY <1>1 DEF ViewClearsCache, Hang, Silent, Outcome, Faithful, IInv, TypeOK
<1>3. Unsure' = Unsure
  BY <1>2 DEF Unsure
<1>4. NoticeDue'
  BY <1>2 DEF IInv, NoticeDue
<1>5. lost \subseteq Names
  BY DEF IInv, TypeOK
<1> QED BY <1>1, <1>2, <1>3, <1>4, <1>5 DEF Faithful, Promised

(* A change of vote makes the notice due; nothing else changes what is sure. *)
LEMMA VoterPromised == IInv /\ MonitorVoter => Promised
<1> SUFFICES ASSUME IInv, MonitorVoter PROVE Promised
  OBVIOUS
<1>1. PICK i \in 1..Len(Voters), active \in BOOLEAN :
        LET next == PushTo(mon, Voters[i], IF active THEN "active" ELSE "standby")
        IN /\ LooksAt(i)
           /\ Outcome(next, {}, FALSE)
           /\ IF JustChanged(next[Voters[i]])
              THEN pc' = "head_block" /\ UNCHANGED voter
              ELSE voter' = voter + 1 /\ UNCHANGED pc
  BY DEF MonitorVoter
<1> DEFINE t == Voters[i]
           v == IF active THEN "active" ELSE "standby"
           next == PushTo(mon, t, v)
<1>2. /\ t \in Topics /\ t \in Names /\ v \in Readings(t) /\ t \notin Forced /\ t \notin ClientTopics
      /\ Size(t) \in Nat \ {0}
  <2>1. t \in Names
    BY DEF Names
  <2> QED BY <2>1, TopicFacts DEF Topics
<1>3. /\ mon = [u \in Topics |-> mon[u]] /\ told = [u \in Topics |-> told[u]]
      /\ \A u \in Topics : Good(u, mon[u], told[u], back, Unsure)
      /\ back \subseteq Topics /\ lost \subseteq Names
  BY DEF IInv, TypeOK
<1>4. pc = "voted_in" /\ voter = i /\ Unsure = lost
  BY <1>1 DEF LooksAt, Unsure
<1> HIDE DEF t, v
<1>5. /\ mon' = [u \in Topics |-> IF u = t THEN Push(mon[t], v) ELSE mon[u]]
      /\ told' = told /\ sent' = {} /\ back' = back /\ lost' = lost
      /\ next[t] = Push(mon[t], v) /\ mon'[t] = Push(mon[t], v)
  BY <1>1, <1>2, <1>3 DEF Outcome, PushTo, t, v
<1>6. /\ ~JustChanged(Push(mon[t], v)) => Good(t, Push(mon[t], v), told[t], back, lost)
      /\ JustChanged(Push(mon[t], v)) =>
           /\ Stable(Push(mon[t], v)) = v
           /\ \A C, W : Good(t, Push(mon[t], v), v, C, W)
           /\ told[t] = v => t \in lost
  BY <1>2, <1>3, <1>4, GoodPush
<1>7. CASE ~JustChanged(Push(mon[t], v))
  <2>1. pc' = "voted_in" /\ Unsure' = lost /\ NoticeDue'
    BY <1>1, <1>4, <1>5, <1>7 DEF Unsure, NoticeDue, t, v
  <2> QED BY <1>3, <1>4, <1>5, <1>6, <1>7, <2>1 DEF Promised
<1>8. CASE JustChanged(Push(mon[t], v))
  <2>1. pc' = "head_block" /\ voter' = i
    BY <1>1, <1>4, <1>5, <1>8 DEF t, v
  <2>2. t \in Unsure' /\ lost \subseteq Unsure'
    BY <1>5, <2>1 DEF Unsure, t
  <2>3. NoticeDue'
    BY <1>5, <1>6, <1>8, <2>1 DEF NoticeDue, t
  <2>4. \A u \in Topics : Good(u, mon'[u], told'[u], back', Unsure')
    <3>1. Good(t, Push(mon[t], v), told[t], back, Unsure')
      BY <1>2, <1>3, <1>6, <1>8, <2>2 DEF Good
    <3>2. ASSUME NEW u \in Topics, u # t PROVE Good(u, mon[u], told[u], back, Unsure')
      BY <1>3, <1>4, <2>2 DEF Good
    <3> QED BY <1>5, <3>1, <3>2
  <2> QED BY <1>3, <1>5, <2>3, <2>4 DEF Promised
<1> QED BY <1>7, <1>8

(* The notice that is due is sent or lost. *)
LEMMA AnnouncePromised == IInv /\ AnnounceVote => Promised
<1> SUFFICES ASSUME IInv, AnnounceVote PROVE Promised
  OBVIOUS
<1>1. PICK i \in 1..Len(Voters) :
        /\ pc = "head_block" /\ voter = i
        /\ \/ /\ lost' = lost \cup {Voters[i]}
              /\ sent' = {}
              /\ UNCHANGED <<mon, told, back>>
           \/ Outcome(mon, {Voters[i]}, FALSE)
        /\ pc' = "voted_in"
  BY DEF AnnounceVote
<1> DEFINE t == Voters[i]
<1>2. t \in Topics /\ t \in Names /\ t \notin Forced
  <2>1. t \in Names
    BY DEF Names
  <2> QED BY <2>1, TopicFacts DEF Topics
<1>3. /\ mon = [u \in Topics |-> mon[u]] /\ told = [u \in Topics |-> told[u]]
      /\ \A u \in Topics : Good(u, mon[u], told[u], back, Unsure)
      /\ back \subseteq Topics /\ lost \subseteq Names
      /\ JustChanged(mon[t]) /\ (told[t] # Stable(mon[t]) \/ t \in lost)
  BY <1>1 DEF IInv, TypeOK, NoticeDue
<1>4. Unsure = lost \cup {t} /\ Unsure' = lost' /\ NoticeDue'
  BY <1>1 DEF Unsure, NoticeDue, t
<1> HIDE DEF t
<1>5. CASE lost' = lost \cup {t} /\ sent' = {} /\ UNCHANGED <<mon, told, back>>
  BY <1>2, <1>3, <1>4, <1>5 DEF Promised
<1>6. CASE Outcome(mon, {t}, FALSE)
  <2>1. /\ mon' = mon /\ sent' = {t} /\ back' = back \ {t} /\ lost' = lost \ {t}
        /\ told' = [u \in Topics |-> IF u = t THEN Stable(mon[t]) ELSE told[u]]
    BY <1>2, <1>6 DEF Outcome
  <2>2. Good(t, mon[t], Stable(mon[t]), back', lost')
    <3>1. Stable(mon[t]) # None /\ Settled(mon[t]) = Stable(mon[t])
      BY <1>3 DEF JustChanged, Settled
    <3>2. Stable(mon[t]) \in Readings(t)
      <4>1. IsMonitor(mon[t], Size(t), Readings(t))
        BY <1>2, <1>3 DEF Good
      <4> QED BY <1>2, <3>1, <4>1, TopicFacts, StableType
    <3> QED BY <1>2, <1>3, <3>1, <3>2 DEF Good
  <2>3. ASSUME NEW u \in Topics, u # t PROVE Good(u, mon[u], told[u], back', lost')
    BY <1>3, <1>4, <2>1, <2>3 DEF Good
  <2> QED BY <1>2, <1>3, <1>4, <2>1, <2>2, <2>3 DEF Promised
<1> QED BY <1>1, <1>5, <1>6 DEF t
-----------------------------------------------------------------------------
(* Every step keeps its promise, one case per kind of action. *)
LEMMA StepPromised == IInv /\ Next => Promised
<1> SUFFICES ASSUME IInv, Next PROVE Promised
  OBVIOUS
<1>1. CASE BeginIteration \/ MonitorIndexing \/ GetInfo \/ SkipPlugin \/ MonitorSeed \/ RolesDone
  <2>1. Faithful
    BY <1>1, SilentFaithful
    DEF BeginIteration, MonitorIndexing, GetInfo, SkipPlugin, MonitorSeed, RolesDone
  <2>2. pc # "head_block" /\ pc' # "head_block"
    <3>1. CASE BeginIteration \/ RolesDone
      BY <3>1 DEF BeginIteration, RolesDone, Goto
    <3>2. CASE MonitorIndexing \/ GetInfo
      BY <3>2 DEF MonitorIndexing, GetInfo, Goto, EndIteration
    <3>3. CASE SkipPlugin \/ MonitorSeed
      <4>1. \A p \in DOMAIN After : p # "head_block" /\ After[p] # "head_block"
        BY DEF After
      <4>2. pc \in DOMAIN After /\ pc' = After[pc]
        BY <3>3 DEF SkipPlugin, MonitorSeed, ClientPlugin, Goto, After
      <4> QED BY <4>1, <4>2
    <3> QED BY <1>1, <3>1, <3>2, <3>3
  <2> QED BY <2>1, <2>2, FaithfulPromised
<1>2. CASE MonitorOnline
  BY <1>2, OnlineFaithful, FaithfulPromised DEF MonitorOnline, Goto
<1>3. CASE MonitorConnections \/ MonitorDisk
  <2>1. Faithful
    BY <1>3, MeasureFaithful DEF MonitorConnections, MonitorDisk
  <2>2. pc # "head_block" /\ pc' # "head_block"
    BY <1>3 DEF MonitorConnections, MonitorDisk, ClientPlugin, Goto, After
  <2> QED BY <2>1, <2>2, FaithfulPromised
<1>4. CASE MonitorWallet
  BY <1>4, WalletFaithful, FaithfulPromised DEF MonitorWallet, ClientPlugin, Goto, After
<1>5. CASE MonitorFork
  BY <1>5, ForkFaithful, FaithfulPromised DEF MonitorFork, ClientPlugin, Goto, After
<1> QED
  BY <1>1, <1>2, <1>3, <1>4, <1>5, VoterPromised, AnnouncePromised, ViewPromised
  DEF Next, Thread

(* The steps before a plugin that forces its topics leave them unnotified. *)
LEMMA StepNotYetForced == IInv /\ Next => NotYetForced'
<1> SUFFICES ASSUME IInv, Next, JustCameOnline'
             PROVE  /\ pc' \in {"indexing", "info", "seed", "network_connections",
                                 "wallet_state"} => {"open", "locked"} \subseteq back'
                    /\ pc' \in {"indexing", "info", "seed", "network_connections",
                                 "wallet_state", "fork"} => "sync" \in back'
  BY DEF NotYetForced
<1>1. NotYetForced /\ ClientTopics \subseteq Topics
      /\ mon = [t \in Topics |-> mon[t]]
  BY TopicFacts DEF IInv, TypeOK
<1>2. CASE \/ BeginIteration \/ RolesDone \/ MonitorVoter \/ AnnounceVote
           \/ MonitorFork \/ MonitorDisk
  BY <1>2 DEF BeginIteration, RolesDone, MonitorVoter, AnnounceVote, LooksAt, MonitorFork,
              MonitorDisk, ClientPlugin, After, Goto
<1>3. CASE MonitorOnline
  <2>1. PICK answer \in InfoAnswers :
          LET state == IF answer = Failed THEN "offline" ELSE "online"
              next == PushTo(mon, "online", state)
          IN /\ Outcome(next, Changed(next, {"online"}),
                        state = "online" /\ JustChanged(next["online"]))
             /\ Goto(IF state = "online" THEN "indexing" ELSE "sleep")
    BY <1>3 DEF MonitorOnline
  <2>2. CASE answer = Failed
    BY <2>1, <2>2 DEF Goto
  <2>3. CASE answer # Failed
    <3>1. back' = Topics \ sent' /\ sent' \subseteq {"online"}
      BY <2>1, <2>3 DEF Outcome, Changed, JustCameOnline
    <3> QED BY <1>1, <3>1 DEF ClientTopics
  <2> QED BY <2>2, <2>3
<1>4. CASE MonitorConnections
  <2>1. /\ pc = "network_connections" /\ pc' = "wallet_state"
        /\ mon'["online"] = mon["online"] /\ back' = back \ sent' /\ sent' \subseteq {"connections"}
    BY <1>1, <1>4 DEF MonitorConnections, Measure, Silent, Outcome, Changed, PushTo,
                      ClientPlugin, After, Goto, ClientTopics
  <2> QED BY <1>1, <2>1 DEF NotYetForced, JustCameOnline
<1>5. CASE MonitorWallet
  <2>1. /\ pc = "wallet_state" /\ pc' = "fork"
        /\ back' = back \ sent' /\ sent' \subseteq {"open", "locked"}
    BY <1>5 DEF MonitorWallet, Outcome, Changed, ClientPlugin, After, Goto
  <2>2. mon'["online"] = mon["online"]
    BY <1>1, <1>5 DEF MonitorWallet, ForcedWallet, Outcome, PushTo, ClientTopics
  <2> QED BY <1>1, <2>1, <2>2 DEF NotYetForced, JustCameOnline
<1>6. CASE Silent /\ (\/ MonitorIndexing \/ GetInfo \/ SkipPlugin \/ MonitorSeed
                      \/ ViewClearsCache \/ Hang)
  <2>1. mon' = mon /\ back' = back
    BY <1>6 DEF Silent, Outcome, IInv, TypeOK
  <2>2. \/ pc' = pc
        \/ pc = "indexing" /\ pc' \in {"info", "sleep"}
        \/ pc = "info" /\ pc' \in {"seed", "sleep"}
        \/ pc \in DOMAIN After /\ pc' = After[pc]
    BY <1>6 DEF MonitorIndexing, GetInfo, SkipPlugin, MonitorSeed, ViewClearsCache, Hang,
                ClientPlugin, Goto, EndIteration, After
  <2> QED BY <1>1, <2>1, <2>2 DEF NotYetForced, JustCameOnline, After
<1> QED
  BY <1>2, <1>3, <1>4, <1>5, <1>6
  DEF Next, Thread, MonitorIndexing, GetInfo, SkipPlugin, MonitorSeed, ViewClearsCache, Hang

(* The variables that are not about topics keep their types. *)
LEMMA StepType ==
    IInv /\ Next => /\ pc' \in Steps
                    /\ voter' \in 1..(Len(Voters) + 1)
                    /\ info' \in {NoInfo, Failed, "synced", "behind"}
                    /\ hung' \in BOOLEAN
<1> SUFFICES ASSUME IInv, Next
             PROVE  /\ pc' \in Steps
                    /\ voter' \in 1..(Len(Voters) + 1)
                    /\ info' \in {NoInfo, Failed, "synced", "behind"}
                    /\ hung' \in BOOLEAN
  OBVIOUS
<1>1. /\ pc \in Steps /\ voter \in 1..(Len(Voters) + 1) /\ Len(Voters) \in Nat
      /\ info \in {NoInfo, Failed, "synced", "behind"}
      /\ InfoAnswers \subseteq {NoInfo, Failed, "synced", "behind"}
  BY MonitoringAssumption DEF IInv, TypeOK, InfoAnswers
<1>2. pc' \in Steps /\ voter' \in 1..(Len(Voters) + 1)
  <2>1. CASE BeginIteration
    BY <1>1, <2>1 DEF BeginIteration, Goto, Steps
  <2>2. CASE MonitorOnline
    BY <1>1, <2>2 DEF MonitorOnline, Goto, Steps
  <2>3. CASE MonitorIndexing
    BY <1>1, <2>3 DEF MonitorIndexing, Goto, Steps, EndIteration
  <2>4. CASE GetInfo
    BY <1>1, <2>4 DEF GetInfo, Goto, Steps, EndIteration
  <2>5. CASE SkipPlugin
    BY <1>1, <2>5 DEF SkipPlugin, Goto, Steps, After
  <2>6. CASE MonitorSeed
    BY <1>1, <2>6 DEF MonitorSeed, Goto, Steps, ClientPlugin, After
  <2>7. CASE MonitorConnections
    BY <1>1, <2>7 DEF MonitorConnections, Goto, Steps, ClientPlugin, After
  <2>8. CASE MonitorWallet
    BY <1>1, <2>8 DEF MonitorWallet, Goto, Steps, ClientPlugin, After
  <2>9. CASE MonitorFork
    BY <1>1, <2>9 DEF MonitorFork, Goto, Steps, ClientPlugin, After
  <2>10. CASE MonitorDisk
    BY <1>1, <2>10 DEF MonitorDisk, Goto, Steps, ClientPlugin, After
  <2>11. CASE MonitorVoter
    BY <1>1, <2>11 DEF MonitorVoter, LooksAt, Steps
  <2>13. CASE AnnounceVote
    BY <1>1, <2>13 DEF AnnounceVote, Steps
  <2>12. CASE RolesDone \/ ViewClearsCache \/ Hang
    BY <1>1, <2>12 DEF RolesDone, ViewClearsCache, Hang, Steps
  <2> QED
    BY <2>1, <2>2, <2>3, <2>4, <2>5, <2>6, <2>7, <2>8, <2>9, <2>10, <2>11, <2>12, <2>13
    DEF Next, Thread
<1>3. /\ info' \in {NoInfo, Failed, "synced", "behind"}
  BY <1>1
  DEF Next, Thread, BeginIteration, MonitorOnline, MonitorIndexing, GetInfo, SkipPlugin,
      MonitorSeed, MonitorConnections, MonitorWallet, MonitorFork, MonitorDisk, MonitorVoter,
      AnnounceVote, IsActive, RolesDone, ViewClearsCache, Hang
<1>4. hung' \in BOOLEAN
  <2>1. hung \in BOOLEAN
    BY DEF IInv, TypeOK
  <2>2. hung' = FALSE \/ hung' = TRUE \/ hung' = hung
    BY DEF Next, Thread, Hang, ViewClearsCache
  <2> QED BY <2>1, <2>2
<1> QED BY <1>2, <1>3, <1>4

(* The invariant holds when the thread starts. *)
LEMMA InitIInv == Init => IInv
<1> SUFFICES ASSUME Init PROVE IInv
  OBVIOUS
<1>1. /\ client \in Clients /\ pc \in Steps /\ voter \in 1..(Len(Voters) + 1)
      /\ info \in {NoInfo, Failed, "synced", "behind"} /\ hung \in BOOLEAN
      /\ sent \subseteq Topics /\ back \subseteq Topics
      /\ lost \subseteq Names
  <2>1. Len(Voters) \in Nat
    BY MonitoringAssumption
  <2>2. voter = 1 /\ 1 \in 1..(Len(Voters) + 1)
    BY <2>1 DEF Init
  <2>3. /\ client \in Clients /\ pc = "sleep" /\ info = NoInfo /\ sent = {} /\ back = {}
        /\ lost = {}
    BY DEF Init
  <2>4. hung \in BOOLEAN
    BY DEF Init
  <2> QED BY <2>2, <2>3, <2>4 DEF Steps
<1>2. /\ mon = [t \in Topics |-> NewMonitor(Size(t))] /\ told = [t \in Topics |-> None]
      /\ pc = "sleep"
  BY DEF Init
<1>3. \A t \in Topics : IsMonitor(mon[t], Size(t), Readings(t))
  BY <1>2, NewMonitorType, TopicFacts
<1>4. \A t \in Topics : told[t] = None /\ Up[t] # None /\ Down[t] # None
  BY <1>2, TopicFacts
<1>5. \A t \in Topics : Good(t, mon[t], told[t], back, Unsure)
  BY <1>3, <1>4 DEF Good
<1> QED BY <1>1, <1>2, <1>3, <1>4, <1>5 DEF IInv, TypeOK, NotYetForced, NoticeDue

(* The thread serves the client it was started for. *)
LEMMA StepClient == Next => client' = client
<1>1. MonitorOnline \/ MonitorWallet \/ MonitorFork => client' = client
  BY DEF MonitorOnline, MonitorWallet, MonitorFork, Outcome
<1>2. MonitorConnections \/ MonitorDisk => client' = client
  BY DEF MonitorConnections, MonitorDisk, Measure, Silent, Outcome
<1>3. MonitorVoter \/ AnnounceVote => client' = client
  BY DEF MonitorVoter, AnnounceVote, Outcome
<1>4. BeginIteration \/ MonitorIndexing \/ GetInfo \/ SkipPlugin \/ MonitorSeed \/ RolesDone
      \/ ViewClearsCache \/ Hang => client' = client
  BY DEF BeginIteration, MonitorIndexing, GetInfo, SkipPlugin, MonitorSeed, RolesDone,
         ViewClearsCache, Hang, Silent, Outcome
<1> QED BY <1>1, <1>2, <1>3, <1>4 DEF Next, Thread

(* The invariant is kept by every step. *)
LEMMA NextIInv == IInv /\ [Next]_vars => IInv'
<1> SUFFICES ASSUME IInv, [Next]_vars PROVE IInv'
  OBVIOUS
<1>1. CASE Next
  BY <1>1, StepPromised, StepNotYetForced, StepType, StepClient DEF Promised, IInv, TypeOK, Good
<1>2. CASE UNCHANGED vars
  BY <1>2 DEF vars, IInv, TypeOK, NotYetForced, JustCameOnline, NoticeDue, Unsure
<1> QED BY <1>1, <1>2

(* The invariant holds at every moment of the life of the thread. *)
THEOREM Invariance == Spec => []IInv
  BY InitIInv, NextIInv, PTL DEF Spec

(* Type correctness of the monitoring thread. *)
THEOREM TypeCorrect == Spec => []TypeOK
  BY Invariance, PTL DEF IInv

(* The last notification never contradicts what the plugin holds for stable. *)
THEOREM Truthful == Spec => []ToldTheTruth
<1>1. IInv => ToldTheTruth
  <2> SUFFICES ASSUME IInv PROVE ToldTheTruth
    OBVIOUS
  <2>1. \A t \in Topics : Good(t, mon[t], told[t], back, Unsure)
    BY DEF IInv
  <2>2. \A t \in Measured : t \notin Unsure /\ t \in Topics
    BY UnsureNames, TopicFacts DEF IInv
  <2>3. \A t \in Forced \cup Names : t \in Topics
    BY TopicFacts DEF Topics
  <2>4. \A t \in Forced : Up[t] # Down[t] /\ Up[t] # None
    BY <2>3, TopicFacts
  <2> QED BY <2>1, <2>2, <2>3, <2>4 DEF Good, ToldTheTruth, Settled
<1> QED BY <1>1, Invariance, PTL

(* No alert and no all-clear is sent twice in a row, but for the all-clears of *)
(* the forced topics after the client came online.                             *)
THEOREM NoRepetition == Spec => NoRepeatedNotice
<1>1. IInv /\ Next
        => \A t \in sent' :
             told'[t] = told[t] => \/ t \in back \cap Forced /\ told[t] = Up[t]
                                  \/ t \in lost
  BY StepPromised DEF Promised
<1> QED BY <1>1, Invariance, PTL DEF Spec, NoRepeatedNotice
-----------------------------------------------------------------------------
(* The polls implement Debounce within the loop. *)

Polled == {"online", "connections"}

PolledRuns == \A t \in Polled : \E k \in 0..3 : IsRun(mon[t], k)

LEMMA PolledFacts ==
    \A t \in Polled : /\ t \in Topics /\ t \in ClientTopics /\ t \notin Names /\ Size(t) = 3
                      /\ t \notin {"open", "locked", "sync", "disk"}
  BY MonitoringAssumption DEF Polled, Topics, ClientTopics, Size

(* A push on one topic leaves the others alone. *)
LEMMA PushToOthers ==
    ASSUME NEW m, NEW u, NEW v, m = [t \in Topics |-> m[t]]
    PROVE  LET next == PushTo(m, u, v)
           IN /\ next = [t \in Topics |-> next[t]]
              /\ \A t \in Topics : next[t] = IF t = u THEN Push(m[t], v) ELSE m[t]
  BY DEF PushTo

(* Nothing but their plugin pushes on the topics of the polls, and it pushes one *)
(* reading at a time: forcing the state of others does not reach them.           *)
LEMMA PolledPushed ==
    ASSUME IInv, [Next]_vars, NEW t \in Polled
    PROVE  mon'[t] = mon[t] \/ \E v \in Readings(t) : mon'[t] = Push(mon[t], v)
<1>1. mon = [u \in Topics |-> mon[u]]
  BY DEF IInv, TypeOK
<1>2. t \in Topics /\ t \notin Names /\ t \notin {"open", "locked", "sync", "disk"}
  BY PolledFacts
<1>3. Silent => mon'[t] = mon[t]
  BY DEF Silent, Outcome
<1>4. CASE MonitorOnline
  <2>1. PICK state \in {"online", "offline"} : mon' = PushTo(mon, "online", state)
    BY <1>4 DEF MonitorOnline, Outcome
  <2>2. mon'[t] = IF t = "online" THEN Push(mon[t], state) ELSE mon[t]
    BY <1>1, <1>2, <2>1, PushToOthers
  <2> QED BY <2>2, TopicFacts
<1>5. ASSUME NEW u \in {"connections", "disk"}, Measure(u)
      PROVE  mon'[t] = mon[t] \/ \E v \in Readings(t) : mon'[t] = Push(mon[t], v)
  <2>1. CASE Silent
    BY <1>3, <2>1
  <2>2. CASE \E v \in Readings(u) : mon' = PushTo(mon, u, v)
    <3>1. PICK v \in Readings(u) : mon' = PushTo(mon, u, v)
      BY <2>2
    <3>2. mon'[t] = IF t = u THEN Push(mon[t], v) ELSE mon[t]
      BY <1>1, <1>2, <3>1, PushToOthers
    <3> QED BY <3>2
  <2> QED BY <1>5, <2>1, <2>2 DEF Measure, Outcome
<1>6. CASE MonitorWallet
  <2>1. ForcedWallet = [u \in Topics |-> ForcedWallet[u]] /\ ForcedWallet[t] = mon[t]
    <3> DEFINE closed == PushTo(mon, "open", "closed")
    <3>1. closed = [u \in Topics |-> closed[u]] /\ closed[t] = mon[t]
      BY <1>1, <1>2, PushToOthers
    <3> DEFINE both == PushTo(closed, "locked", "locked")
    <3>2. both = [u \in Topics |-> both[u]] /\ both[t] = mon[t]
      <4> HIDE DEF closed
      <4> QED BY <1>2, <3>1, PushToOthers
    <3> QED BY <1>1, <3>2 DEF ForcedWallet
  <2>2. ASSUME NEW o
        PROVE  LET opened == PushTo(ForcedWallet, "open", o)
               IN opened = [u \in Topics |-> opened[u]] /\ opened[t] = mon[t]
    BY <1>2, <2>1, PushToOthers
  <2>3. ASSUME NEW o, NEW l
        PROVE  PushTo(PushTo(ForcedWallet, "open", o), "locked", l)[t] = mon[t]
    <3> DEFINE opened == PushTo(ForcedWallet, "open", o)
    <3>1. opened = [u \in Topics |-> opened[u]] /\ opened[t] = mon[t]
      BY <2>2
    <3> HIDE DEF opened
    <3>2. PushTo(opened, "locked", l)[t] = mon[t]
      BY <1>2, <3>1, PushToOthers
    <3> QED BY <3>2 DEF opened
  <2>4. \/ mon' = ForcedWallet
        \/ \E o : mon' = PushTo(ForcedWallet, "open", o)
        \/ \E o, l : mon' = PushTo(PushTo(ForcedWallet, "open", o), "locked", l)
    BY <1>6 DEF MonitorWallet, Outcome
  <2>5. mon'[t] = mon[t]
    <3>1. CASE mon' = ForcedWallet
      BY <2>1, <3>1
    <3>2. ASSUME NEW o, mon' = PushTo(ForcedWallet, "open", o) PROVE mon'[t] = mon[t]
      BY <2>2, <3>2
    <3>3. ASSUME NEW o, NEW l, mon' = PushTo(PushTo(ForcedWallet, "open", o), "locked", l)
          PROVE  mon'[t] = mon[t]
      BY <2>3, <3>3
    <3> QED BY <2>4, <3>1, <3>2, <3>3
  <2> QED BY <2>5
<1>7. CASE MonitorFork
  <2>1. ForcedSync = [u \in Topics |-> ForcedSync[u]] /\ ForcedSync[t] = mon[t]
    <3> DEFINE f(x) == PushTo(x, "sync", "stale")
    <3>1. \A x : (x = [u \in Topics |-> x[u]] /\ x[t] = mon[t])
                   => f(x) = [u \in Topics |-> f(x)[u]] /\ f(x)[t] = mon[t]
      BY <1>2, PushToOthers
    <3>2. ForcedSync = IF JustCameOnline THEN f(f(f(mon))) ELSE mon
      BY DEF ForcedSync
    <3> HIDE DEF f
    <3>3. f(mon) = [u \in Topics |-> f(mon)[u]] /\ f(mon)[t] = mon[t]
      BY <1>1, <3>1
    <3>4. f(f(mon)) = [u \in Topics |-> f(f(mon))[u]] /\ f(f(mon))[t] = mon[t]
      BY <3>1, <3>3
    <3>5. f(f(f(mon))) = [u \in Topics |-> f(f(f(mon)))[u]] /\ f(f(f(mon)))[t] = mon[t]
      BY <3>1, <3>4
    <3> QED BY <1>1, <3>2, <3>5
  <2>2. mon' = ForcedSync \/ \E v : mon' = PushTo(ForcedSync, "sync", v)
    BY <1>7 DEF MonitorFork, Outcome
  <2> QED BY <1>2, <2>1, <2>2, PushToOthers
<1>8. CASE MonitorVoter
  <2>1. PICK i \in 1..Len(Voters) : \E v : mon' = PushTo(mon, Voters[i], v)
    BY <1>8 DEF MonitorVoter, Outcome
  <2>2. Voters[i] # t
    BY <1>2 DEF Names
  <2> QED BY <1>1, <1>2, <2>1, <2>2, PushToOthers
<1>9. CASE AnnounceVote
  BY <1>9 DEF AnnounceVote, Outcome
<1>10. CASE UNCHANGED vars
  BY <1>10 DEF vars
<1> QED
  BY <1>3, <1>4, <1>5, <1>6, <1>7, <1>8, <1>9, <1>10
  DEF Next, Thread, BeginIteration, MonitorIndexing, GetInfo, SkipPlugin, MonitorSeed,
      MonitorConnections, MonitorDisk, RolesDone, ViewClearsCache, Hang

(* The monitor of a poll, when the thread starts. *)
LEMMA Fresh ==
    ASSUME Init, NEW t \in Polled
    PROVE  /\ mon[t] = NewMonitor(3) /\ IsRun(mon[t], 0) /\ RunLength(mon[t]) = 0
           /\ LastPushed(mon[t]) = None /\ Settled(mon[t]) = None /\ JustChanged(mon[t]) = FALSE
<1>1. mon[t] = NewMonitor(3)
  BY PolledFacts DEF Init
<1> DEFINE m == NewMonitor(3)
<1>2. 3 \in Nat \ {0}
  OBVIOUS
<1>3. /\ IsRun(m, 0) /\ RunLength(m) = 0
      /\ LastPushed(m) = None /\ Settled(m) = None /\ JustChanged(m) = FALSE
  BY <1>2, NewMonitorRun
<1> HIDE DEF m
<1> QED BY <1>1, <1>3 DEF m

LEMMA InitPolled == Init => PolledRuns
<1> SUFFICES ASSUME Init, NEW t \in Polled PROVE \E k \in 0..3 : IsRun(mon[t], k)
  BY DEF PolledRuns
<1>1. IsRun(mon[t], 0)
  BY Fresh
<1>2. 0 \in 0..3
  OBVIOUS
<1> QED BY <1>1, <1>2

(* A push on the topic of a poll is an observation. *)
LEMMA PolledObserved ==
    ASSUME IInv, PolledRuns, NEW t \in Polled, NEW v \in Readings(t), mon'[t] = Push(mon[t], v)
    PROVE  LET m == mon[t]
               r == IF v # LastPushed(m) THEN 1 ELSE IF RunLength(m) < 3 THEN RunLength(m) + 1 ELSE 3
           IN /\ r \in 0..3 /\ IsRun(mon'[t], r)
              /\ LastPushed(mon'[t]) = v /\ RunLength(mon'[t]) = r
              /\ Settled(mon'[t]) = IF r = 3 THEN v ELSE Settled(m)
              /\ JustChanged(mon'[t]) = (r = 3 /\ Settled(m) \notin {v, None})
<1> DEFINE m == mon[t]
<1>1. IsMonitor(m, 3, Readings(t)) /\ None \notin Readings(t)
  BY PolledFacts, TopicFacts DEF IInv, TypeOK
<1>2. \E k \in 0..3 : IsRun(m, k)
  BY DEF PolledRuns
<1> HIDE DEF m
<1>3. 3 \in Nat \ {0}
  OBVIOUS
<1> DEFINE V == Readings(t)
<1>4. None \notin V /\ IsMonitor(m, 3, V) /\ v \in V
  BY <1>1
<1> HIDE DEF V
<1>5. LET r == IF v # LastPushed(m) THEN 1 ELSE IF RunLength(m) < 3 THEN RunLength(m) + 1 ELSE 3
          p == Push(m, v)
      IN /\ r \in 0..3 /\ IsRun(p, r)
         /\ LastPushed(p) = v /\ RunLength(p) = r
         /\ Settled(p) = IF r = 3 THEN v ELSE Settled(m)
         /\ JustChanged(p) = (r = 3 /\ Settled(m) \notin {v, None})
  BY <1>2, <1>3, <1>4, PushObserved
<1> QED BY <1>5 DEF m

LEMMA StepPolled == IInv /\ PolledRuns /\ [Next]_vars => PolledRuns'
<1> SUFFICES ASSUME IInv, PolledRuns, [Next]_vars, NEW t \in Polled
             PROVE  \E k \in 0..3 : IsRun(mon'[t], k)
  BY DEF PolledRuns, Polled
<1>1. CASE mon'[t] = mon[t]
  BY <1>1 DEF PolledRuns
<1>2. ASSUME NEW v \in Readings(t), mon'[t] = Push(mon[t], v)
      PROVE  \E k \in 0..3 : IsRun(mon'[t], k)
  BY <1>2, PolledObserved
<1> QED BY <1>1, <1>2, PolledPushed

LEMMA PolledInvariance == Spec => [](IInv /\ PolledRuns)
  BY InitIInv, NextIInv, InitPolled, StepPolled, PTL DEF Spec

(* The poll of a client (monitoring/online.py) is debounced as StableStateMonitor   *)
(* promises, whatever exceptions end an iteration after it: "online" and "offline"  *)
(* are believed at the third answer in a row, and the change is told by that answer. *)
THEOREM OnlineRefinement == Spec => OnlineKeepsPromise
<1> DEFINE m == mon["online"]
<1>1. "online" \in Polled /\ Readings("online") = {"online", "offline"}
  BY TopicFacts DEF Polled
<1>2. Init => OnlinePromise!Init
  BY <1>1, Fresh DEF OnlinePromise!Init
<1>3. IInv /\ PolledRuns /\ [Next]_vars => [OnlinePromise!Next]_(OnlinePromise!vars)
  <2> SUFFICES ASSUME IInv, PolledRuns, [Next]_vars PROVE [OnlinePromise!Next]_(OnlinePromise!vars)
    OBVIOUS
  <2>1. CASE m' = m
    BY <2>1 DEF OnlinePromise!vars
  <2>2. ASSUME NEW v \in {"online", "offline"}, m' = Push(m, v) PROVE OnlinePromise!Next
    <3>1. OnlinePromise!Observe(v)
      BY <1>1, <2>2, PolledObserved DEF OnlinePromise!Observe, OnlinePromise!RunWith
    <3> QED BY <3>1 DEF OnlinePromise!Next
  <2> QED BY <1>1, <2>1, <2>2, PolledPushed
<1> QED BY <1>2, <1>3, PolledInvariance, PTL DEF Spec, OnlineKeepsPromise, OnlinePromise!Spec

(* So are the connections of the network (monitoring/network_connections.py), which *)
(* are measured in some iterations only, and after other plugins of which any may   *)
(* have ended the iteration.                                                        *)
THEOREM ConnectionsRefinement == Spec => ConnectionsKeepPromise
<1> DEFINE m == mon["connections"]
<1>1. "connections" \in Polled /\ Readings("connections") = {"connected", "starved"}
  BY DEF Polled, Readings, Up, Down, Topics, ClientTopics
<1>2. Init => ConnectionsPromise!Init
  BY <1>1, Fresh DEF ConnectionsPromise!Init
<1>3. IInv /\ PolledRuns /\ [Next]_vars => [ConnectionsPromise!Next]_(ConnectionsPromise!vars)
  <2> SUFFICES ASSUME IInv, PolledRuns, [Next]_vars
               PROVE  [ConnectionsPromise!Next]_(ConnectionsPromise!vars)
    OBVIOUS
  <2>1. CASE m' = m
    BY <2>1 DEF ConnectionsPromise!vars
  <2>2. ASSUME NEW v \in {"connected", "starved"}, m' = Push(m, v) PROVE ConnectionsPromise!Next
    <3>1. ConnectionsPromise!Observe(v)
      BY <1>1, <2>2, PolledObserved DEF ConnectionsPromise!Observe, ConnectionsPromise!RunWith
    <3> QED BY <3>1 DEF ConnectionsPromise!Next
  <2> QED BY <1>1, <2>1, <2>2, PolledPushed
<1> QED BY <1>2, <1>3, PolledInvariance, PTL DEF Spec, ConnectionsKeepPromise, ConnectionsPromise!Spec
==============================================================================
