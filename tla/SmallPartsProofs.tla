-------------------------- MODULE SmallPartsProofs --------------------------
(***************************************************************************)
(* What the four parts of MCSmallParts promise, for any size of the        *)
(* monitor, any seeds, hosts, periods and time spans: one section for each *)
(* part with its invariant, and the theorems of the parts together.        *)
(***************************************************************************)
EXTENDS MCSmallParts, StableStateProofs, SequenceTheorems, TLAPS
-----------------------------------------------------------------------------
(* The monitor: one of any size, over any states, implements Debounce. *)

Inv == TypeOK /\ \E k \in 0..N : IsRun(m, k)

(* A fresh monitor has a run of length 0. *)
LEMMA InitInv == Init => Inv
<1> SUFFICES ASSUME Init PROVE Inv
  OBVIOUS
<1>1. m = [n |-> N, states |-> <<>>, last |-> None] /\ N \in Nat \ {0}
  BY SizeAssumption DEF Init, NewMonitor
<1>2. TypeOK
  BY <1>1 DEF TypeOK, IsMonitor
<1>3. IsRun(m, 0)
  BY <1>1 DEF IsRun, TailAgrees
<1> QED BY <1>1, <1>2, <1>3 DEF Inv

(* Every push is one observation of the abstract debouncer. *)
LEMMA PushObserves ==
    ASSUME Inv, NEW v \in Values, m' = Push(m, v)
    PROVE  Inv' /\ Abstract!Observe(v)
<1>1. N \in Nat \ {0} /\ None \notin Values /\ IsMonitor(m, N, Values) /\ \E k \in 0..N : IsRun(m, k)
  BY SizeAssumption DEF Inv, TypeOK
<1> DEFINE r == IF v # LastPushed(m) THEN 1 ELSE IF RunLength(m) < N THEN RunLength(m) + 1 ELSE N
<1>2. /\ r \in 0..N /\ IsRun(m', r) /\ IsMonitor(m', N, Values)
      /\ LastPushed(m') = v /\ RunLength(m') = r
      /\ Settled(m') = IF r = N THEN v ELSE Settled(m)
      /\ JustChanged(m') = (r = N /\ Settled(m) \notin {v, None})
  BY <1>1, PushObserved, PushType
<1>3. r = Abstract!RunWith(v)
  BY DEF Abstract!RunWith
<1> HIDE DEF r
<1>4. Inv'
  BY <1>2 DEF Inv, TypeOK
<1> QED BY <1>2, <1>3, <1>4 DEF Abstract!Observe

(* A push keeps the type of the monitor, and its run is the next one. *)
LEMMA NextInv == Inv /\ [Next]_m => Inv'
<1> SUFFICES ASSUME Inv, [Next]_m PROVE Inv'
  OBVIOUS
<1>1. CASE Next
  BY <1>1, PushObserves DEF Next
<1>2. CASE UNCHANGED m
  BY <1>2 DEF Inv, TypeOK
<1> QED BY <1>1, <1>2

(* Type correctness: the queue never holds more than N+1 states. *)
THEOREM TypeCorrect == Spec => []TypeOK
  BY InitInv, NextInv, PTL DEF Spec, Inv

(* The promise of StableStateMonitor (monitor.py:38-68) for every size and *)
(* every set of states: a value is believed when it was pushed N times in  *)
(* a row, and the push that changed it is the one just_changed() tells of. *)
THEOREM Refinement == Spec => KeepsPromise
<1>1. Init => Abstract!Init
  <2> SUFFICES ASSUME Init PROVE Abstract!Init
    OBVIOUS
  <2>1. m = [n |-> N, states |-> <<>>, last |-> None] /\ N \in Nat \ {0}
    BY SizeAssumption DEF Init, NewMonitor
  <2>2. IsMonitor(m, N, Values) /\ IsRun(m, 0)
    BY InitInv, <2>1 DEF Inv, TypeOK, IsRun, TailAgrees
  <2>3. RunLength(m) = 0 /\ Stable(m) = None
    BY <2>1, <2>2, RunIsUnique
  <2> QED BY <2>1, <2>3 DEF Abstract!Init, LastPushed, Settled, JustChanged
<1>2. Inv /\ [Next]_m => [Abstract!Next]_(Abstract!vars)
  <2> SUFFICES ASSUME Inv, [Next]_m PROVE [Abstract!Next]_(Abstract!vars)
    OBVIOUS
  <2>1. CASE Next
    BY <2>1, PushObserves DEF Next, Abstract!Next
  <2>2. CASE UNCHANGED m
    BY <2>2 DEF Abstract!vars
  <2> QED BY <2>1, <2>2
<1> QED BY InitInv, NextInv, <1>1, <1>2, PTL DEF Spec, KeepsPromise, Abstract!Spec
-----------------------------------------------------------------------------
(* The crawler: what it shows is what its probes found.  The invariant ties *)
(* lastSeen, which counts rounds, to the answers in the history.            *)

(* A probe of the last k rounds, or of the one before them, found the seed online. *)
SeenWithin(s, k) ==
    \/ crawlerAt = "joining" /\ round.answers[s] = "online"
    \/ \E i \in 1..Len(past) : Crawl!Ago(i) <= k /\ past[i].answers[s] = "online"

LastSeenIsTrue ==
    \A s \in Seeds : \A k \in 0..(Crawl!HistoryLen - 1) : lastSeen[s] <= k <=> SeenWithin(s, k)

(* A probe that goes on has not answered. *)
Unanswered(r) == \A s \in r.probing : r.answers[s] = Crawl!Unknown

CrawlerIInv ==
    /\ Crawl!TypeOK
    /\ crawlerAt = "deciding" => Len(past) > 0
    /\ crawlerAt # "joining" => round = Crawl!NoRound
    /\ Unanswered(round)
    /\ \A i \in 1..Len(past) : Unanswered(past[i])
    /\ LastSeenIsTrue

LEMMA History ==
  ASSUME Crawl!TypeOK
  PROVE  /\ Len(past) \in 0..Crawl!HistoryLen /\ DOMAIN past = 1..Len(past)
         /\ \A i \in 1..Len(past) : past[i] \in Crawl!Rounds
  <1>1. past \in Seq(Crawl!Rounds) /\ Len(past) <= Crawl!HistoryLen
    BY DEF Crawl!TypeOK
  <1>2. Len(past) \in Nat /\ DOMAIN past = 1..Len(past)
    BY <1>1, LenProperties
  <1>3. \A i \in 1..Len(past) : past[i] \in Crawl!Rounds
    BY <1>1, ElementOfSeq
  <1> QED
    BY <1>1, <1>2, <1>3 DEF Crawl!HistoryLen

LEMMA NoRoundType == Crawl!NoRound \in Crawl!Rounds /\ Unanswered(Crawl!NoRound)
  BY DEF Crawl!NoRound, Crawl!Rounds, Unanswered

LEMMA FinishedType ==
  ASSUME NEW r \in Crawl!Rounds, Unanswered(r), NEW s \in Seeds,
         NEW status \in Statuses \cup {Crawl!Unknown}
  PROVE  /\ Crawl!Finished(r, s, status) \in Crawl!Rounds
         /\ Unanswered(Crawl!Finished(r, s, status))
         /\ \A t \in Seeds : Crawl!Finished(r, s, status).answers[t]
                               = IF t = s THEN status ELSE r.answers[t]
  BY DEF Crawl!Rounds, Crawl!Finished, Unanswered

LEMMA InitCrawler == ASSUME Crawl!SeedsAssumption, Crawl!Init PROVE CrawlerIInv
  <1>1. past = <<>> /\ Len(past) = 0 /\ past \in Seq(Crawl!Rounds)
    BY DEF Crawl!Init
  <1>2. Crawl!TypeOK
    BY <1>1, NoRoundType DEF Crawl!Init, Crawl!TypeOK, Crawl!Shown, Crawl!HistoryLen
  <1>3. LastSeenIsTrue
    BY <1>1 DEF Crawl!Init, LastSeenIsTrue, SeenWithin, Crawl!HistoryLen
  <1> QED
    BY <1>1, <1>2, <1>3, NoRoundType DEF Crawl!Init, CrawlerIInv

LEMMA StartStep ==
  ASSUME Crawl!SeedsAssumption, CrawlerIInv, Crawl!StartProbes
  PROVE CrawlerIInv'
  <1>1. /\ round' \in Crawl!Rounds /\ Unanswered(round')
        /\ \A s \in Seeds : round'.answers[s] = Crawl!Unknown
    BY DEF Crawl!StartProbes, Crawl!NoRound, Crawl!Rounds, Unanswered
  <1>2. Crawl!TypeOK'
    BY <1>1 DEF CrawlerIInv, Crawl!TypeOK, Crawl!StartProbes, Crawl!HistoryLen
  <1>3. /\ Len(past) \in Nat
        /\ \A i \in 1..Len(past) :
             Crawl!Ago(i) = Len(past) - i /\ Crawl!Ago(i)' = Crawl!Ago(i) + 1
    BY History DEF CrawlerIInv, Crawl!StartProbes, Crawl!Ago, Crawl!HistoryLen
  <1>4. ASSUME NEW s \in Seeds, NEW k \in 0..(Crawl!HistoryLen - 1)
        PROVE  lastSeen'[s] <= k <=> SeenWithin(s, k)'
    <2>1. /\ lastSeen[s] \in 0..Crawl!HistoryLen
          /\ lastSeen'[s] = IF lastSeen[s] < Crawl!HistoryLen THEN lastSeen[s] + 1
                            ELSE Crawl!HistoryLen
      BY DEF CrawlerIInv, Crawl!TypeOK, Crawl!StartProbes
    <2>2. SeenWithin(s, k)' <=>
            \E i \in 1..Len(past) : Crawl!Ago(i) <= k - 1 /\ past[i].answers[s] = "online"
      <3>1. SeenWithin(s, k)' <=>
              \E i \in 1..Len(past) : Crawl!Ago(i)' <= k /\ past[i].answers[s] = "online"
        BY <1>1 DEF Crawl!StartProbes, SeenWithin, Crawl!Unknown
      <3>2. \A i \in 1..Len(past) : Crawl!Ago(i)' <= k <=> Crawl!Ago(i) <= k - 1
        BY <1>3 DEF Crawl!HistoryLen
      <3> QED
        BY <3>1, <3>2
    <2>3. CASE k = 0
      BY <2>1, <2>2, <2>3, <1>3 DEF Crawl!HistoryLen
    <2>4. CASE k # 0
      <3>1. k - 1 \in 0..(Crawl!HistoryLen - 1)
        BY <2>4 DEF Crawl!HistoryLen
      <3>2. lastSeen[s] <= k - 1 <=> SeenWithin(s, k - 1)
        BY <3>1 DEF CrawlerIInv, LastSeenIsTrue
      <3>3. crawlerAt # "joining"
        BY DEF Crawl!StartProbes
      <3> QED
        BY <2>1, <2>2, <3>2, <3>3 DEF SeenWithin, Crawl!HistoryLen
    <2> QED
      BY <2>3, <2>4
  <1> QED
    BY <1>1, <1>2, <1>4 DEF CrawlerIInv, Crawl!StartProbes, LastSeenIsTrue

(* A full history without its first round: each round is one place further on. *)
LEMMA Shifted ==
  ASSUME NEW a, NEW b, a = 3, b = 2
  PROVE  \A i \in 1..b : a - b + i = i + 1
  OBVIOUS

(* The new history, whether or not it was full. *)
LEMMA Remembered ==
  ASSUME NEW r \in Crawl!Rounds, Crawl!TypeOK, Crawl!Remember(r)
  PROVE  /\ past' \in Seq(Crawl!Rounds) /\ Len(past') \in 1..Crawl!HistoryLen
         /\ past'[Len(past')] = r
         /\ \A i \in 1..(Len(past') - 1) : past'[i] = past[Len(past) - Len(past') + i + 1]
         /\ Len(past') = IF Len(past) = Crawl!HistoryLen THEN Crawl!HistoryLen ELSE Len(past) + 1
  <1>1. past \in Seq(Crawl!Rounds) /\ Len(past) \in 0..Crawl!HistoryLen
    BY History DEF Crawl!TypeOK
  <1> DEFINE kept == IF Len(past) = Crawl!HistoryLen THEN Tail(past) ELSE past
  <1>2. /\ kept \in Seq(Crawl!Rounds)
        /\ Len(kept) = IF Len(past) = Crawl!HistoryLen THEN Crawl!HistoryLen - 1 ELSE Len(past)
        /\ \A i \in 1..Len(kept) : kept[i] = past[Len(past) - Len(kept) + i]
    <2>1. CASE Len(past) = Crawl!HistoryLen
      <3>1. past # <<>>
        BY <2>1, EmptySeq DEF Crawl!HistoryLen
      <3>2. /\ Tail(past) \in Seq(Crawl!Rounds) /\ Len(Tail(past)) = Len(past) - 1
            /\ \A i \in 1..Len(Tail(past)) : Tail(past)[i] = past[i + 1]
        BY <1>1, <3>1, HeadTailProperties
      <3>3. \A i \in 1..Len(Tail(past)) : Len(past) - Len(Tail(past)) + i = i + 1
        <4>1. Len(Tail(past)) = Len(past) - 1
          BY <3>2
        <4>2. Len(past) = 3
          BY <2>1 DEF Crawl!HistoryLen
        <4>3. Len(Tail(past)) = 2
          BY <4>1, <4>2
        <4> QED
          BY <4>2, <4>3, Shifted
      <3> QED
        BY <2>1, <3>2, <3>3
    <2>2. CASE Len(past) # Crawl!HistoryLen
      <3>1. \A i \in 1..Len(past) : Len(past) - Len(past) + i = i
        BY <1>1
      <3> QED
        BY <1>1, <2>2, <3>1
    <2> QED
      BY <2>1, <2>2
  <1>3. past' = Append(kept, r)
    BY DEF Crawl!Remember
  <1> HIDE DEF kept
  <1>4. /\ past' \in Seq(Crawl!Rounds) /\ Len(past') = Len(kept) + 1
        /\ \A i \in 1..Len(kept) : past'[i] = kept[i]
        /\ past'[Len(kept) + 1] = r
    BY <1>2, <1>3, AppendProperties
  <1>5. /\ Len(kept) \in 0..(Crawl!HistoryLen - 1) /\ Len(past') - 1 = Len(kept)
        /\ \A i \in 1..Len(kept) : Len(past) - Len(kept) + i = Len(past) - Len(past') + i + 1
    <2>1. Len(kept) \in 0..(Crawl!HistoryLen - 1)
      BY <1>1, <1>2 DEF Crawl!HistoryLen
    <2>2. Len(past) \in Nat /\ Len(kept) \in Nat /\ Len(past') = Len(kept) + 1
      BY <1>1, <1>2, <1>4, <2>1
    <2> QED
      BY <2>1, <2>2
  <1>6. \A i \in 1..Len(kept) : past'[i] = past[Len(past) - Len(past') + i + 1]
    BY <1>2, <1>4, <1>5
  <1>7. /\ Len(past') \in 1..Crawl!HistoryLen /\ past'[Len(past')] = r
        /\ Len(past') = IF Len(past) = Crawl!HistoryLen THEN Crawl!HistoryLen ELSE Len(past) + 1
    BY <1>1, <1>2, <1>4, <1>5 DEF Crawl!HistoryLen
  <1> QED
    BY <1>4, <1>5, <1>6, <1>7

LEMMA JoinStep == ASSUME Crawl!SeedsAssumption, CrawlerIInv, Crawl!Join PROVE CrawlerIInv'
  <1>1. /\ Crawl!TypeOK /\ round \in Crawl!Rounds /\ Crawl!Remember(round)
        /\ crawlerAt = "joining" /\ crawlerAt' = "deciding"
        /\ round' = Crawl!NoRound /\ UNCHANGED <<shown, lastSeen>>
    BY DEF CrawlerIInv, Crawl!TypeOK, Crawl!Join
  <1> DEFINE was == Len(past)
             new == Len(past')
  <1>2. /\ past' \in Seq(Crawl!Rounds) /\ new \in 1..Crawl!HistoryLen /\ past'[new] = round
        /\ \A i \in 1..(new - 1) : past'[i] = past[was - new + i + 1]
        /\ new = IF was = Crawl!HistoryLen THEN Crawl!HistoryLen ELSE was + 1
        /\ was \in 0..Crawl!HistoryLen
    BY <1>1, Remembered, History
  <1>3. Crawl!TypeOK'
    BY <1>1, <1>2, NoRoundType DEF Crawl!TypeOK, Crawl!HistoryLen
  <1>4. \A i \in 1..new : Unanswered(past'[i])
    <2>1. ASSUME NEW i \in 1..(new - 1) PROVE Unanswered(past'[i])
      <3>1. was - new + i + 1 \in 1..was
        BY <1>2 DEF Crawl!HistoryLen
      <3> QED
        BY <1>2, <3>1 DEF CrawlerIInv
    <2>2. Unanswered(past'[new])
      BY <1>2 DEF CrawlerIInv
    <2>3. \A i \in 1..new : i = new \/ i \in 1..(new - 1)
      BY <1>2 DEF Crawl!HistoryLen
    <2> QED
      BY <2>1, <2>2, <2>3
  <1>5. ASSUME NEW s \in Seeds, NEW k \in 0..(Crawl!HistoryLen - 1)
        PROVE  SeenWithin(s, k)' <=> SeenWithin(s, k)
    <2>1. SeenWithin(s, k)' <=> \E i \in 1..new : new - i <= k /\ past'[i].answers[s] = "online"
      BY <1>1 DEF SeenWithin, Crawl!Ago
    <2>2. SeenWithin(s, k) <=>
            \/ round.answers[s] = "online"
            \/ \E i \in 1..was : was - i + 1 <= k /\ past[i].answers[s] = "online"
      BY <1>1 DEF SeenWithin, Crawl!Ago
    <2>3. (\E i \in 1..new : new - i <= k /\ past'[i].answers[s] = "online") <=>
            \/ round.answers[s] = "online"
            \/ \E i \in 1..(new - 1) : new - i <= k /\ past[was - new + i + 1].answers[s] = "online"
      <3>1. new \in 1..new /\ new - new <= k /\ \A i \in 1..new : i = new \/ i \in 1..(new - 1)
        BY <1>2 DEF Crawl!HistoryLen
      <3>2. \A i \in 1..(new - 1) : i \in 1..new
        BY <1>2 DEF Crawl!HistoryLen
      <3> HIDE DEF new, was
      <3> QED
        BY <1>2, <3>1, <3>2
    <2>4. (\E i \in 1..(new - 1) : new - i <= k /\ past[was - new + i + 1].answers[s] = "online")
            <=> \E i \in 1..was : was - i + 1 <= k /\ past[i].answers[s] = "online"
      <3>1. ASSUME NEW i \in 1..was, was - i + 1 <= k, past[i].answers[s] = "online"
            PROVE  \E j \in 1..(new - 1) : new - j <= k /\ past[was - new + j + 1].answers[s] = "online"
        <4> DEFINE j == i + new - was - 1
        <4>1. /\ new \in 1..Crawl!HistoryLen /\ was \in 0..Crawl!HistoryLen
              /\ new = IF was = Crawl!HistoryLen THEN Crawl!HistoryLen ELSE was + 1
          BY <1>2
        <4> HIDE DEF new, was
        <4>2. j \in 1..(new - 1) /\ new - j <= k /\ was - new + j + 1 = i
          BY <3>1, <4>1 DEF Crawl!HistoryLen
        <4> QED
          BY <3>1, <4>2
      <3>2. ASSUME NEW j \in 1..(new - 1), new - j <= k, past[was - new + j + 1].answers[s] = "online"
            PROVE  \E i \in 1..was : was - i + 1 <= k /\ past[i].answers[s] = "online"
        <4> DEFINE i == was - new + j + 1
        <4>1. i \in 1..was /\ was - i + 1 <= k
          BY <1>2, <3>2 DEF Crawl!HistoryLen
        <4> QED
          BY <3>2, <4>1
      <3> QED
        BY <3>1, <3>2
    <2> QED
      BY <2>1, <2>2, <2>3, <2>4
  <1>6. LastSeenIsTrue'
    BY <1>1, <1>5 DEF CrawlerIInv, LastSeenIsTrue
  <1> QED
    BY <1>1, <1>2, <1>3, <1>4, <1>6, NoRoundType DEF CrawlerIInv

(* A seed is stable at "online" exactly when a round of the history found it so. *)
LEMMA StableOnline ==
  ASSUME Crawl!TypeOK, Len(past) > 0, NEW s \in Seeds
  PROVE  /\ Crawl!StableStatus(s) \in Crawl!Shown
         /\ Crawl!StableStatus(s) = "online" <=> \E i \in 1..Len(past) : past[i].answers[s] = "online"
  <1> DEFINE h == [i \in DOMAIN past |-> past[i].answers[s]]
             last == h[Len(past)]
  <1>1. /\ Len(past) \in 1..Crawl!HistoryLen /\ DOMAIN past = 1..Len(past)
        /\ \A i \in 1..Len(past) : h[i] = past[i].answers[s] /\ h[i] \in Statuses \cup {Crawl!Unknown}
    BY History DEF Crawl!Rounds, Crawl!HistoryLen
  <1>2. Len(past) \in 1..Len(past)
    BY <1>1
  <1>3. Crawl!StableStatus(s) = IF \A i \in DOMAIN past : h[i] = last THEN last
                          ELSE IF \E i \in DOMAIN past : h[i] = "online" THEN "online"
                          ELSE Crawl!Undecided
    BY DEF Crawl!StableStatus
  <1> HIDE DEF h
  <1>4. CASE \A i \in DOMAIN past : h[i] = last
    BY <1>1, <1>2, <1>3, <1>4 DEF Crawl!Shown
  <1>5. CASE ~(\A i \in DOMAIN past : h[i] = last)
    <2>1. CASE \E i \in DOMAIN past : h[i] = "online"
      <3>1. PICK i \in 1..Len(past) : h[i] = "online"
        BY <1>1, <2>1
      <3> QED
        BY <1>1, <1>3, <1>5, <2>1, <3>1 DEF Crawl!Shown
    <2>2. CASE ~(\E i \in DOMAIN past : h[i] = "online")
      BY <1>1, <1>3, <1>5, <2>2 DEF Crawl!Shown, Crawl!Undecided
    <2> QED
      BY <2>1, <2>2
  <1> QED
    BY <1>4, <1>5

LEMMA ShowStep == ASSUME Crawl!SeedsAssumption, CrawlerIInv, Crawl!Show PROVE CrawlerIInv'
  <1>1. Crawl!TypeOK'
    BY StableOnline DEF CrawlerIInv, Crawl!TypeOK, Crawl!Show
  <1>2. LastSeenIsTrue'
    BY DEF CrawlerIInv, Crawl!Show, LastSeenIsTrue, SeenWithin, Crawl!Ago
  <1> QED
    BY <1>1, <1>2 DEF CrawlerIInv, Crawl!Show

LEMMA AnswerStep ==
  ASSUME Crawl!SeedsAssumption, CrawlerIInv, NEW s \in Seeds, Crawl!Answer(s) PROVE CrawlerIInv'
  <1>1. PICK status \in Statuses \cup {Crawl!Unknown} :
          round' = Crawl!Finished(round, s, status) /\ Crawl!Sees(s, status, 0)
    BY DEF Crawl!Answer
  <1>2. /\ round \in Crawl!Rounds /\ Unanswered(round) /\ s \in round.probing
        /\ UNCHANGED <<crawlerAt, past, shown>> /\ crawlerAt = "joining"
        /\ round.answers[s] = Crawl!Unknown
    BY DEF CrawlerIInv, Crawl!TypeOK, Crawl!Answer, Crawl!NoRound, Unanswered
  <1>3. /\ round' \in Crawl!Rounds /\ Unanswered(round')
        /\ \A t \in Seeds : round'.answers[t] = IF t = s THEN status ELSE round.answers[t]
    BY <1>1, <1>2, FinishedType
  <1>4. /\ lastSeen' \in [Seeds -> 0..Crawl!HistoryLen]
        /\ \A t \in Seeds : lastSeen'[t] = IF t = s /\ status = "online" THEN 0 ELSE lastSeen[t]
    BY <1>1 DEF CrawlerIInv, Crawl!TypeOK, Crawl!Sees, Crawl!HistoryLen
  <1>5. Crawl!TypeOK'
    BY <1>2, <1>3, <1>4 DEF CrawlerIInv, Crawl!TypeOK
  <1>6. ASSUME NEW t \in Seeds, NEW k \in 0..(Crawl!HistoryLen - 1)
        PROVE  lastSeen'[t] <= k <=> SeenWithin(t, k)'
    <2>1. lastSeen[t] <= k <=> SeenWithin(t, k)
      BY DEF CrawlerIInv, LastSeenIsTrue
    <2>2. SeenWithin(t, k)' <=>
            \/ round'.answers[t] = "online"
            \/ \E i \in 1..Len(past) : Crawl!Ago(i) <= k /\ past[i].answers[t] = "online"
      BY <1>2 DEF SeenWithin, Crawl!Ago
    <2>3. CASE t = s /\ status = "online"
      BY <1>3, <1>4, <2>2, <2>3 DEF Crawl!HistoryLen
    <2>4. CASE ~(t = s /\ status = "online")
      <3>1. round'.answers[t] = "online" <=> round.answers[t] = "online"
        BY <1>2, <1>3, <2>4 DEF Crawl!Unknown
      <3> QED
        BY <1>2, <1>4, <2>1, <2>2, <2>4, <3>1 DEF SeenWithin
    <2> QED
      BY <2>3, <2>4
  <1> QED
    BY <1>2, <1>3, <1>5, <1>6 DEF CrawlerIInv, LastSeenIsTrue

LEMMA LateAnswerStep ==
  ASSUME Crawl!SeedsAssumption, CrawlerIInv,
         NEW i \in DOMAIN past, NEW s \in Seeds, Crawl!LateAnswer(i, s)
  PROVE  CrawlerIInv'
  <1>1. PICK status \in Statuses \cup {Crawl!Unknown} :
          /\ past' = [past EXCEPT ![i] = Crawl!Finished(past[i], s, status)]
          /\ Crawl!Sees(s, status, Crawl!Ago(i))
    BY DEF Crawl!LateAnswer
  <1>2. /\ i \in 1..Len(past) /\ Len(past) \in 0..Crawl!HistoryLen /\ past[i] \in Crawl!Rounds
        /\ Unanswered(past[i]) /\ s \in past[i].probing /\ UNCHANGED <<crawlerAt, round, shown>>
        /\ past[i].answers[s] = Crawl!Unknown
    BY History DEF CrawlerIInv, Crawl!LateAnswer, Unanswered
  <1>3. /\ Crawl!Finished(past[i], s, status) \in Crawl!Rounds
        /\ Unanswered(Crawl!Finished(past[i], s, status))
        /\ \A t \in Seeds : Crawl!Finished(past[i], s, status).answers[t]
                              = IF t = s THEN status ELSE past[i].answers[t]
    BY <1>2, FinishedType
  <1>4. /\ past' \in Seq(Crawl!Rounds) /\ Len(past') = Len(past)
        /\ past'[i] = Crawl!Finished(past[i], s, status)
        /\ \A j \in 1..Len(past) : j # i => past'[j] = past[j]
    BY <1>1, <1>2, <1>3 DEF CrawlerIInv, Crawl!TypeOK
  <1>5. Crawl!Ago(i) \in 0..Crawl!HistoryLen /\ \A j \in 1..Len(past) : Crawl!Ago(j)' = Crawl!Ago(j)
    BY <1>2, <1>4 DEF Crawl!Ago, Crawl!HistoryLen
  <1>6. /\ lastSeen' \in [Seeds -> 0..Crawl!HistoryLen]
        /\ \A t \in Seeds : lastSeen'[t] = IF t = s /\ status = "online" /\ Crawl!Ago(i) < lastSeen[t]
                                           THEN Crawl!Ago(i) ELSE lastSeen[t]
    BY <1>1, <1>5 DEF CrawlerIInv, Crawl!TypeOK, Crawl!Sees
  <1>7. Crawl!TypeOK'
    BY <1>2, <1>4, <1>6 DEF CrawlerIInv, Crawl!TypeOK
  <1>8. ASSUME NEW t \in Seeds, NEW k \in 0..(Crawl!HistoryLen - 1)
        PROVE  lastSeen'[t] <= k <=> SeenWithin(t, k)'
    <2>1. lastSeen[t] <= k <=> SeenWithin(t, k)
      BY DEF CrawlerIInv, LastSeenIsTrue
    <2>2. SeenWithin(t, k)' <=>
            \/ crawlerAt = "joining" /\ round.answers[t] = "online"
            \/ \E j \in 1..Len(past) : Crawl!Ago(j) <= k /\ past'[j].answers[t] = "online"
      BY <1>2, <1>4, <1>5 DEF SeenWithin
    <2>3. lastSeen[t] \in 0..Crawl!HistoryLen
      BY DEF CrawlerIInv, Crawl!TypeOK
    <2>4. CASE t = s /\ status = "online"
      <3>1. past'[i].answers[t] = "online"
        BY <1>3, <1>4, <2>4
      <3>2. \A j \in 1..Len(past) : j # i => past'[j].answers[t] = past[j].answers[t]
        BY <1>4
      <3>3. past[i].answers[t] # "online"
        BY <1>2, <2>4 DEF Crawl!Unknown
      <3>4. SeenWithin(t, k)' <=> Crawl!Ago(i) <= k \/ SeenWithin(t, k)
        BY <1>2, <2>2, <3>1, <3>2, <3>3 DEF SeenWithin
      <3> QED
        BY <1>5, <1>6, <2>1, <2>3, <2>4, <3>4 DEF Crawl!HistoryLen
    <2>5. CASE ~(t = s /\ status = "online")
      <3>1. \A j \in 1..Len(past) : past'[j].answers[t] = "online" <=> past[j].answers[t] = "online"
        BY <1>2, <1>3, <1>4, <2>5 DEF Crawl!Unknown
      <3>2. lastSeen'[t] = lastSeen[t]
        BY <1>6, <2>5
      <3> QED
        BY <2>1, <2>2, <3>1, <3>2 DEF SeenWithin
    <2> QED
      BY <2>4, <2>5
  <1> QED
    BY <1>2, <1>3, <1>4, <1>7, <1>8 DEF CrawlerIInv, LastSeenIsTrue

LEMMA StepCrawler ==
  ASSUME Crawl!SeedsAssumption, CrawlerIInv, [Crawl!Next]_(Crawl!vars)
  PROVE CrawlerIInv'
  <1>1. CASE Crawl!Crawler
    BY <1>1, StartStep, JoinStep, ShowStep DEF Crawl!Crawler
  <1>2. ASSUME NEW s \in Seeds, Crawl!Answer(s) PROVE CrawlerIInv'
    BY <1>2, AnswerStep
  <1>3. ASSUME NEW i \in DOMAIN past, NEW s \in Seeds, Crawl!LateAnswer(i, s) PROVE CrawlerIInv'
    BY <1>3, LateAnswerStep
  <1>4. CASE UNCHANGED Crawl!vars
    BY <1>4 DEF CrawlerIInv, Crawl!TypeOK, Crawl!vars, Unanswered, LastSeenIsTrue, SeenWithin,
                Crawl!Ago
  <1> QED
    BY <1>1, <1>2, <1>3, <1>4 DEF Crawl!Next

-----------------------------------------------------------------------------
(* The reconnection: RateLimited compares a host's age with the time since it *)
(* was tried; the invariant says that the two agree for every host not        *)
(* excused.                                                                   *)

(* The age that counts: of a host the loop has yet to come to, the one put aside. *)
AgeInHand(h) == IF h \in todo THEN old[h] ELSE age[h]

(* The time since the last attempt is told by the age: NoAge is as good as the     *)
(* whole period, and the iteration that is under way has not aged it yet.          *)
AgeIsTrue(h) ==
    /\ AgeInHand(h) = Loop!NoAge => quiet[h] = period
    /\ AgeInHand(h) # Loop!NoAge /\ h \in todo =>
         quiet[h] = IF AgeInHand(h) < period THEN AgeInHand(h) + 1 ELSE period
    /\ AgeInHand(h) # Loop!NoAge /\ h \notin todo => quiet[h] = AgeInHand(h)

(* An age below the period, as NextAge() makes it; with a period of 0, no age but 0. *)
Below(a) == a = Loop!NoAge \/ a = 0 \/ a < period

LoopIInv ==
    /\ Loop!TypeOK
    /\ loopAt = "idle" => todo = {}
    /\ \A h \in Hosts : Below(age[h]) /\ Below(old[h])
    /\ \A h \in Hosts : h \notin excused => AgeIsTrue(h)

LEMMA InitLoop == ASSUME Loop!BackboneAssumption, Loop!Init PROVE LoopIInv
  <1>1. period \in Nat
    BY DEF Loop!BackboneAssumption, Loop!Init
  <1>2. Loop!TypeOK
    <2>1. Loop!NoAge \in Loop!NoAge..period /\ period \in 0..period
      BY <1>1 DEF Loop!NoAge
    <2> QED
      BY <2>1 DEF Loop!Init, Loop!TypeOK
  <1> QED
    BY <1>2 DEF Loop!Init, LoopIInv, AgeIsTrue, AgeInHand, Below, Loop!NoAge

(* Begin puts the ages aside: what was an age in hand stays one. *)
LEMMA BeginStep == ASSUME Loop!BackboneAssumption, LoopIInv, Loop!Begin PROVE LoopIInv'
  <1>1. Loop!TypeOK'
    BY DEF Loop!BackboneAssumption, LoopIInv, Loop!TypeOK, Loop!Begin, Loop!Listed,
           Loop!AgesPutAside, Loop!NoAges, Loop!NoAge
  <1>2. loopAt' = "looping" /\ \A h \in Hosts : Below(age[h])' /\ Below(old[h])'
    BY DEF LoopIInv, Loop!TypeOK, Loop!Begin, Loop!AgesPutAside, Loop!NoAges, Loop!NoAge, Below
  <1>3. ASSUME NEW h \in Hosts, h \notin excused' PROVE AgeIsTrue(h)'
    <2>1. h \in todo' /\ h \notin excused /\ h \notin todo
      BY <1>3 DEF LoopIInv, Loop!TypeOK, Loop!Begin, Loop!Listed
    <2>2. AgeInHand(h)' = age[h] /\ AgeInHand(h) = age[h]
      BY <2>1 DEF LoopIInv, Loop!TypeOK, AgeInHand, Loop!Begin, Loop!AgesPutAside
    <2>3. AgeIsTrue(h) /\ Below(age[h])
      BY <2>1 DEF LoopIInv
    <2> QED
      BY <2>1, <2>2, <2>3 DEF Loop!BackboneAssumption, LoopIInv, Loop!TypeOK, AgeIsTrue, Below,
                              Loop!Begin, Loop!NoAge
  <1> QED
    BY <1>1, <1>2, <1>3 DEF LoopIInv

(* Visit() ages one host; the others keep what they have. *)
LEMMA VisitStep ==
  ASSUME Loop!BackboneAssumption, LoopIInv, NEW h \in Hosts, Loop!Visit(h) PROVE LoopIInv'
  <1>1. /\ age' = [age EXCEPT ![h] = Loop!NextAge(h)]
        /\ h \in todo /\ loopAt = "looping"
        /\ UNCHANGED <<period, connected, old>>
        /\ period \in Nat /\ period \in Periods
    BY DEF Loop!BackboneAssumption, LoopIInv, Loop!TypeOK, Loop!Visit
  <1>2. Loop!NextAge(h) \in 0..period /\ (Loop!NextAge(h) = 0 \/ Loop!NextAge(h) < period)
    BY <1>1 DEF LoopIInv, Loop!TypeOK, Loop!NextAge, Loop!NoAge
  <1>3. Loop!TypeOK'
    <2>1. /\ age' \in [Hosts -> Loop!NoAge..period] /\ old' \in [Hosts -> Loop!NoAge..period]
          /\ period' = period
      BY <1>1, <1>2 DEF LoopIInv, Loop!TypeOK, Loop!NoAge
    <2>2. quiet' \in [Hosts -> 0..period]
      BY <1>1 DEF LoopIInv, Loop!TypeOK, Loop!Visit
    <2>3. loopAt' \in {"idle", "looping"} /\ todo' \subseteq Hosts /\ excused' \subseteq Hosts
      BY <1>1 DEF LoopIInv, Loop!TypeOK, Loop!Visit, Loop!Raises
    <2>4. trouble' \in BOOLEAN
      BY Zenon DEF LoopIInv, Loop!TypeOK, Loop!Visit, Loop!Raises
    <2> QED
      BY <1>1, <2>1, <2>2, <2>3, <2>4 DEF LoopIInv, Loop!TypeOK
  <1>4. \A k \in Hosts : Below(age[k])' /\ Below(old[k])'
    BY <1>1, <1>2 DEF LoopIInv, Loop!TypeOK, Below, Loop!NoAge
  <1>5. loopAt' = "idle" => todo' = {}
    BY <1>1 DEF LoopIInv, Loop!Visit, Loop!Raises
  <1>6. ASSUME NEW k \in Hosts, k \notin excused' PROVE AgeIsTrue(k)'
    <2>1. CASE k = h
      <3>1. h \notin todo' /\ AgeInHand(h)' = Loop!NextAge(h)
        BY <1>1 DEF LoopIInv, Loop!TypeOK, Loop!Visit, Loop!Raises, AgeInHand
      <3>2. quiet'[h] = Loop!NextAge(h)
        <4>1. CASE period = 0
          BY <4>1, <1>1, <1>2 DEF LoopIInv, Loop!TypeOK, Loop!Visit, Loop!Raises
        <4>2. CASE period # 0 /\ Loop!NextAge(h) # 0
          <5>1. h \notin excused /\ quiet' = quiet
            BY <4>2, <1>6, <2>1 DEF Loop!Visit
          <5>2. AgeIsTrue(h) /\ AgeInHand(h) = old[h]
            BY <5>1, <1>1 DEF LoopIInv, AgeInHand
          <5>3. Loop!NextAge(h) = old[h] + 1 /\ old[h] + 1 < period /\ old[h] # Loop!NoAge
            BY <4>2, <1>1 DEF LoopIInv, Loop!TypeOK, Loop!NextAge, Loop!NoAge
          <5> QED
            BY <5>1, <5>2, <5>3, <1>1 DEF LoopIInv, Loop!TypeOK, AgeIsTrue, Loop!NoAge
        <4>3. CASE period # 0 /\ Loop!NextAge(h) = 0
          BY <4>3, <1>1 DEF LoopIInv, Loop!TypeOK, Loop!Visit
        <4> QED
          BY <4>1, <4>2, <4>3
      <3> QED
        BY <3>1, <3>2, <1>2, <2>1 DEF AgeIsTrue, Loop!NoAge
    <2>2. CASE k # h
      <3>1. k \notin excused /\ (k \in todo' <=> k \in todo)
        BY <1>1, <1>6, <2>2 DEF LoopIInv, Loop!TypeOK, Loop!Visit, Loop!Raises
      <3>2. AgeIsTrue(k)
        BY <3>1 DEF LoopIInv
      <3>3. quiet'[k] = quiet[k] /\ age'[k] = age[k]
        BY <1>1, <2>2 DEF LoopIInv, Loop!TypeOK, Loop!Visit
      <3> QED
        BY <3>1, <3>2, <3>3, <1>1 DEF AgeIsTrue, AgeInHand
    <2> QED
      BY <2>1, <2>2
  <1> QED
    BY <1>3, <1>4, <1>5, <1>6 DEF LoopIInv

LEMMA StepLoop ==
  ASSUME Loop!BackboneAssumption, LoopIInv, [Loop!Next]_(Loop!vars)
  PROVE LoopIInv'
  <1>1. CASE Loop!Begin
    BY <1>1, BeginStep
  <1>2. CASE Loop!End
    BY <1>2 DEF LoopIInv, Loop!TypeOK, Loop!End, AgeIsTrue, AgeInHand, Below
  <1>3. ASSUME NEW h \in Hosts, Loop!Visit(h) PROVE LoopIInv'
    BY <1>3, VisitStep
  <1>4. ASSUME NEW h \in Hosts, Loop!PeerChanges(h) PROVE LoopIInv'
    BY <1>4 DEF LoopIInv, Loop!TypeOK, Loop!PeerChanges, AgeIsTrue, AgeInHand, Below
  <1>5. CASE UNCHANGED Loop!vars
    BY <1>5 DEF LoopIInv, Loop!TypeOK, Loop!vars, AgeIsTrue, AgeInHand, Below
  <1> QED
    BY <1>1, <1>2, <1>3, <1>4, <1>5 DEF Loop!Next, Loop!Thread

-----------------------------------------------------------------------------
(* The samples: the deque is full before a ratio is kept, and then each sample *)
(* stands for a ratio of iterations at least.                                  *)

(* Each of the samples recorded since the deque was full stands for at least *)
(* one ratio of iterations.                                                  *)
Spaced ==
    \A i \in 1..Len(stats) :
        i > Len(stats) - sparse =>
            stats[i] >= (Len(stats) - i) * Samples!Ratio + loopIndex

SamplesIInv ==
    /\ Samples!TypeOK
    /\ sparse > 0 => Samples!Full
    /\ Spaced

LEMMA Rounding ==
  ASSUME NEW a \in Nat, NEW b \in Nat \ {0}
  PROVE  (a + b - 1) \div b \in Nat /\ b * ((a + b - 1) \div b) >= a
  OBVIOUS

LEMMA RatioBounds ==
  ASSUME Samples!StatsAssumption, desired \in TimeSpans
  PROVE  /\ desired \in Nat /\ MaxLen \in Nat \ {0}
         /\ Samples!Ratio \in Nat \ {0} /\ Samples!StatsLen \in Nat
         /\ Samples!StatsLen * Samples!Ratio >= desired
         /\ ~Samples!Decimated => Samples!Ratio = 1
  <1>1. desired \in Nat /\ MaxLen \in Nat \ {0}
    BY DEF Samples!StatsAssumption
  <1>2. CASE desired > MaxLen
    <2>1. (desired + MaxLen - 1) \div MaxLen \in Nat
          /\ MaxLen * ((desired + MaxLen - 1) \div MaxLen) >= desired
      BY <1>1, Rounding
    <2> QED
      BY <1>1, <1>2, <2>1 DEF Samples!Ratio, Samples!StatsLen, Samples!Decimated
  <1>3. CASE ~(desired > MaxLen)
    BY <1>1, <1>3 DEF Samples!Ratio, Samples!StatsLen, Samples!Decimated
  <1> QED
    BY <1>2, <1>3

LEMMA OldestBounds ==
  ASSUME Samples!StatsAssumption, desired \in TimeSpans
  PROVE  /\ Samples!Oldest \in Nat
         /\ \A k \in Nat : k <= Samples!StatsLen =>
              /\ k * Samples!Ratio \in Nat
              /\ k * Samples!Ratio <= Samples!Oldest
              /\ k > 0 => k * Samples!Ratio = (k - 1) * Samples!Ratio + Samples!Ratio
  <1> DEFINE r == Samples!Ratio
             l == Samples!StatsLen
  <1>1. r \in Nat /\ l \in Nat /\ desired \in Nat /\ Samples!Oldest = l * r + desired
    BY RatioBounds DEF Samples!Oldest
  <1> HIDE DEF r, l
  <1>2. l * r \in Nat
    BY <1>1
  <1>3. ASSUME NEW k \in Nat, k <= l
        PROVE  k * r \in Nat /\ k * r <= l * r /\ (k > 0 => k * r = (k - 1) * r + r)
    BY <1>1, <1>3
  <1>4. ASSUME NEW k \in Nat, k <= l PROVE k * r <= Samples!Oldest
    <2> DEFINE lower == k * r
               upper == l * r
    <2>1. lower \in Nat /\ upper \in Nat /\ lower <= upper /\ Samples!Oldest = upper + desired
      BY <1>1, <1>2, <1>3, <1>4
    <2> HIDE DEF lower, upper
    <2>2. lower <= Samples!Oldest
      BY <1>1, <2>1
    <2> QED
      BY <2>2 DEF lower
  <1> QED
    BY <1>1, <1>2, <1>3, <1>4 DEF r, l

LEMMA InitSamples == ASSUME Samples!StatsAssumption, Samples!Init PROVE SamplesIInv
  <1>1. /\ desired \in TimeSpans /\ loopIndex = 0 /\ sparse = 0
        /\ stats = <<>> /\ Len(stats) = 0 /\ stats \in Seq(0..Samples!Oldest) /\ DOMAIN stats = {}
    BY DEF Samples!Init
  <1>2. Samples!TypeOK
    BY <1>1, RatioBounds DEF Samples!TypeOK
  <1> QED
    BY <1>1, <1>2 DEF SamplesIInv, Spaced

(* An iteration makes every sample older by one. *)
LEMMA AgedSamples ==
  ASSUME Samples!StatsAssumption, Samples!TypeOK
  PROVE  /\ Samples!Aged \in Seq(0..Samples!Oldest) /\ Len(Samples!Aged) = Len(stats)
         /\ Len(stats) \in Nat /\ DOMAIN stats = 1..Len(stats)
         /\ DOMAIN Samples!Aged = 1..Len(stats)
         /\ \A i \in 1..Len(stats) :
              /\ stats[i] \in 0..Samples!Oldest
              /\ Samples!Aged[i] = IF stats[i] < Samples!Oldest THEN stats[i] + 1 ELSE Samples!Oldest
              /\ Samples!Aged[i] \in 0..Samples!Oldest
         /\ \A i, j \in 1..Len(stats) :
              i < j => Samples!Aged[i] > Samples!Aged[j] \/ Samples!Aged[i] = Samples!Oldest
         /\ \A i \in 1..Len(stats) : Samples!Aged[i] > 0 \/ Samples!Aged[i] = Samples!Oldest
  <1>1. Samples!Oldest \in Nat
    BY OldestBounds DEF Samples!TypeOK
  <1>2. /\ Len(stats) \in Nat /\ DOMAIN stats = 1..Len(stats)
        /\ \A i \in 1..Len(stats) : stats[i] \in 0..Samples!Oldest
    BY LenProperties, ElementOfSeq DEF Samples!TypeOK
  <1>3. Samples!Aged = [i \in 1..Len(stats) |->
                           IF stats[i] < Samples!Oldest THEN stats[i] + 1 ELSE Samples!Oldest]
    BY <1>2 DEF Samples!Aged
  <1>4. \A i \in 1..Len(stats) :
              /\ Samples!Aged[i] = IF stats[i] < Samples!Oldest THEN stats[i] + 1 ELSE Samples!Oldest
              /\ Samples!Aged[i] \in 0..Samples!Oldest
    BY <1>1, <1>2, <1>3
  <1>5. /\ Samples!Aged \in Seq(0..Samples!Oldest) /\ Len(Samples!Aged) = Len(stats)
        /\ DOMAIN Samples!Aged = 1..Len(stats)
    BY <1>2, <1>3, <1>4, IsASeq
  <1>6. ASSUME NEW i \in 1..Len(stats), NEW j \in 1..Len(stats), i < j
        PROVE  Samples!Aged[i] > Samples!Aged[j] \/ Samples!Aged[i] = Samples!Oldest
    <2>1. stats[i] > stats[j] \/ stats[i] = Samples!Oldest
      BY <1>2, <1>6 DEF Samples!TypeOK
    <2> QED
      BY <1>1, <1>2, <1>4, <2>1
  <1> QED
    BY <1>1, <1>2, <1>4, <1>5, <1>6

(* How far apart the samples are once they have aged. *)
LEMMA AgedSpaced ==
  ASSUME Samples!StatsAssumption, SamplesIInv, NEW i \in 1..Len(stats), i > Len(stats) - sparse
  PROVE  Samples!Aged[i] >= (Len(stats) - i) * Samples!Ratio + loopIndex + 1
  <1> DEFINE k == Len(stats) - i
             before == k * Samples!Ratio
             after == (k + 1) * Samples!Ratio
  <1>1. /\ Len(stats) \in Nat /\ stats[i] \in 0..Samples!Oldest
        /\ Samples!Aged[i] = IF stats[i] < Samples!Oldest THEN stats[i] + 1 ELSE Samples!Oldest
    BY AgedSamples DEF SamplesIInv
  <1>2. /\ Samples!Ratio \in Nat \ {0} /\ Samples!StatsLen \in Nat /\ Samples!Oldest \in Nat
        /\ loopIndex \in 0..(Samples!Ratio - 1) /\ Len(stats) <= Samples!StatsLen
    BY RatioBounds, OldestBounds DEF SamplesIInv, Samples!TypeOK
  <1>3. k \in Nat /\ k + 1 \in Nat /\ k + 1 > 0 /\ (k + 1) - 1 = k /\ k + 1 <= Samples!StatsLen
    BY <1>1, <1>2
  <1>4. k <= Samples!StatsLen
    BY <1>2, <1>3
  <1> HIDE DEF k
  <1>5. before \in Nat /\ after \in Nat /\ after <= Samples!Oldest
    BY <1>3, <1>4, OldestBounds DEF SamplesIInv, Samples!TypeOK
  <1>6. after = before + Samples!Ratio
    <2>1. after = ((k + 1) - 1) * Samples!Ratio + Samples!Ratio
      BY <1>3, OldestBounds DEF SamplesIInv, Samples!TypeOK
    <2> QED
      BY <1>3, <2>1
  <1>7. stats[i] >= before + loopIndex
    BY DEF k, SamplesIInv, Spaced
  <1> HIDE DEF before, after
  <1>8. Samples!Aged[i] >= before + loopIndex + 1
    BY <1>1, <1>2, <1>5, <1>6, <1>7
  <1> QED
    BY <1>8 DEF before, k

(* An iteration that records nothing. *)
LEMMA AgeStep ==
  ASSUME Samples!StatsAssumption, SamplesIInv, loopIndex' = Samples!NextIndex,
         stats' = Samples!Aged, UNCHANGED <<desired, sparse>>
  PROVE  SamplesIInv'
  <1>1. /\ Samples!Ratio \in Nat \ {0} /\ loopIndex \in 0..(Samples!Ratio - 1)
        /\ UNCHANGED <<Samples!Ratio, Samples!StatsLen, Samples!Oldest>>
    BY RatioBounds DEF SamplesIInv, Samples!TypeOK, Samples!Ratio, Samples!StatsLen,
                       Samples!Oldest
  <1>2. loopIndex' \in 0..(Samples!Ratio - 1) /\ loopIndex' <= loopIndex + 1
    BY <1>1 DEF Samples!NextIndex
  <1>3. /\ stats' \in Seq(0..Samples!Oldest) /\ Len(stats') = Len(stats) /\ Len(stats) \in Nat
        /\ DOMAIN stats' = 1..Len(stats)
        /\ \A i, j \in 1..Len(stats) : i < j => stats'[i] > stats'[j] \/ stats'[i] = Samples!Oldest
        /\ \A i \in 1..Len(stats) : stats'[i] \in 0..Samples!Oldest
    BY AgedSamples DEF SamplesIInv
  <1>4. Samples!TypeOK'
    BY <1>1, <1>2, <1>3 DEF SamplesIInv, Samples!TypeOK
  <1>5. Spaced'
    <2> SUFFICES ASSUME NEW i \in 1..Len(stats), i > Len(stats) - sparse
                 PROVE  stats'[i] >= (Len(stats) - i) * Samples!Ratio + loopIndex'
      BY <1>1, <1>3 DEF Spaced
    <2> DEFINE before == (Len(stats) - i) * Samples!Ratio
    <2>1. before \in Int
      BY <1>1, <1>3
    <2>2. /\ stats'[i] >= before + loopIndex + 1
          /\ stats'[i] \in 0..Samples!Oldest /\ Samples!Oldest \in Nat
      BY <1>3, AgedSpaced, OldestBounds DEF SamplesIInv, Samples!TypeOK
    <2> HIDE DEF before
    <2>3. stats'[i] >= before + loopIndex'
      BY <1>1, <1>2, <2>1, <2>2
    <2> QED
      BY <2>3 DEF before
  <1> QED
    BY <1>1, <1>3, <1>4, <1>5 DEF SamplesIInv, Samples!Full

(* One that records while the deque has room. *)
LEMMA FillStep ==
  ASSUME Samples!StatsAssumption, SamplesIInv, loopIndex' = Samples!NextIndex,
         ~Samples!Full, stats' = Append(Samples!Aged, 0), UNCHANGED <<desired, sparse>>
  PROVE  SamplesIInv'
  <1>1. /\ Samples!Ratio \in Nat \ {0} /\ loopIndex \in 0..(Samples!Ratio - 1)
        /\ UNCHANGED <<Samples!Ratio, Samples!StatsLen, Samples!Oldest>>
        /\ Samples!StatsLen \in Nat /\ Samples!Oldest \in Nat
    BY RatioBounds, OldestBounds DEF SamplesIInv, Samples!TypeOK, Samples!Ratio,
                                     Samples!StatsLen, Samples!Oldest
  <1>2. loopIndex' \in 0..(Samples!Ratio - 1)
    BY <1>1 DEF Samples!NextIndex
  <1>3. sparse = 0 /\ Len(stats) \in Nat /\ Len(stats) + 1 <= Samples!StatsLen
    BY <1>1, AgedSamples DEF SamplesIInv, Samples!TypeOK, Samples!Full
  <1>4. /\ stats' \in Seq(0..Samples!Oldest) /\ Len(stats') = Len(stats) + 1
        /\ stats'[Len(stats) + 1] = 0
        /\ \A i \in 1..Len(stats) : stats'[i] = Samples!Aged[i]
    <2>1. Samples!Aged \in Seq(0..Samples!Oldest) /\ Len(Samples!Aged) = Len(stats) /\ 0 \in 0..Samples!Oldest
      BY <1>1, AgedSamples DEF SamplesIInv
    <2> QED
      BY <2>1, AppendProperties
  <1>5. ASSUME NEW i \in DOMAIN stats', NEW j \in DOMAIN stats', i < j
        PROVE  stats'[i] > stats'[j] \/ stats'[i] = Samples!Oldest
    <2>1. i \in 1..Len(stats) /\ j \in 1..(Len(stats) + 1)
      BY <1>3, <1>4, <1>5, LenProperties
    <2>2. CASE j = Len(stats) + 1
      BY <1>4, <2>1, <2>2, AgedSamples DEF SamplesIInv
    <2>3. CASE j # Len(stats) + 1
      <3>1. j \in 1..Len(stats)
        BY <1>3, <2>1, <2>3
      <3> QED
        BY <1>4, <1>5, <2>1, <3>1, AgedSamples DEF SamplesIInv
    <2> QED
      BY <2>2, <2>3
  <1>6. Samples!TypeOK'
    BY <1>1, <1>2, <1>3, <1>4, <1>5 DEF SamplesIInv, Samples!TypeOK
  <1> QED
    BY <1>3, <1>4, <1>6 DEF SamplesIInv, Spaced

(* One that records into the full deque: it comes a whole ratio after the last. *)
LEMMA ShiftStep ==
  ASSUME Samples!StatsAssumption, SamplesIInv, loopIndex' = Samples!NextIndex,
         Samples!Full, Samples!Records, Samples!StatsLen # 0,
         stats' = Append(Tail(Samples!Aged), 0), UNCHANGED desired,
         sparse' = IF sparse < Samples!StatsLen THEN sparse + 1 ELSE sparse
  PROVE  SamplesIInv'
  <1> DEFINE l == Len(stats)
  <1>1. /\ Samples!Ratio \in Nat \ {0} /\ loopIndex \in 0..(Samples!Ratio - 1)
        /\ UNCHANGED <<Samples!Ratio, Samples!StatsLen, Samples!Oldest>>
        /\ Samples!StatsLen \in Nat \ {0} /\ Samples!Oldest \in Nat /\ sparse \in 0..Samples!StatsLen
    BY RatioBounds, OldestBounds DEF SamplesIInv, Samples!TypeOK, Samples!Ratio,
                                     Samples!StatsLen, Samples!Oldest
  <1>2. loopIndex' = 0 /\ loopIndex + 1 = Samples!Ratio
    <2>1. CASE Samples!Decimated
      BY <1>1, <2>1 DEF Samples!Records, Samples!NextIndex
    <2>2. CASE ~Samples!Decimated
      <3>1. Samples!Ratio = 1
        BY <2>2, RatioBounds DEF SamplesIInv, Samples!TypeOK
      <3> QED
        BY <1>1, <3>1 DEF Samples!NextIndex
    <2> QED
      BY <2>1, <2>2
  <1>3. l = Samples!StatsLen /\ l \in Nat \ {0}
    BY <1>1 DEF Samples!Full
  <1>4. /\ stats' \in Seq(0..Samples!Oldest) /\ Len(stats') = l
        /\ stats'[l] = 0
        /\ \A i \in 1..(l - 1) : stats'[i] = Samples!Aged[i + 1]
    <2>1. Samples!Aged \in Seq(0..Samples!Oldest) /\ Len(Samples!Aged) = l /\ 0 \in 0..Samples!Oldest
      BY <1>1, AgedSamples DEF SamplesIInv
    <2> HIDE DEF l
    <2>2. Samples!Aged # <<>>
      BY <1>3, <2>1, EmptySeq
    <2>3. /\ Tail(Samples!Aged) \in Seq(0..Samples!Oldest) /\ Len(Tail(Samples!Aged)) = l - 1
          /\ \A i \in 1..(l - 1) : Tail(Samples!Aged)[i] = Samples!Aged[i + 1]
      BY <2>1, <2>2, HeadTailProperties
    <2>4. /\ stats' \in Seq(0..Samples!Oldest) /\ Len(stats') = (l - 1) + 1
          /\ stats'[(l - 1) + 1] = 0
          /\ \A i \in 1..(l - 1) : stats'[i] = Tail(Samples!Aged)[i]
      BY <2>1, <2>3, AppendProperties
    <2>5. (l - 1) + 1 = l
      BY <1>3
    <2> QED
      BY <2>3, <2>4, <2>5
  <1>5. \A i \in 1..(l - 1) : i + 1 \in 1..l
    BY <1>3
  <1>6. ASSUME NEW i \in DOMAIN stats', NEW j \in DOMAIN stats', i < j
        PROVE  stats'[i] > stats'[j] \/ stats'[i] = Samples!Oldest
    <2>1. i \in 1..(l - 1) /\ j \in 1..l /\ i + 1 \in 1..l
      BY <1>3, <1>4, <1>6, LenProperties
    <2>2. CASE j = l
      BY <1>4, <2>1, <2>2, AgedSamples DEF SamplesIInv
    <2>3. CASE j # l
      <3>1. j \in 1..(l - 1) /\ j + 1 \in 1..l /\ i + 1 < j + 1
        BY <1>3, <1>6, <2>1, <2>3
      <3> QED
        BY <1>4, <2>1, <3>1, AgedSamples DEF SamplesIInv
    <2> QED
      BY <2>2, <2>3
  <1>7. sparse' \in 0..Samples!StatsLen /\ sparse' <= sparse + 1
    BY <1>1
  <1>8. Samples!TypeOK'
    <2>1. desired' \in TimeSpans /\ loopIndex' \in 0..(Samples!Ratio' - 1)
      BY <1>1, <1>2 DEF SamplesIInv, Samples!TypeOK
    <2>2. stats' \in Seq(0..Samples!Oldest') /\ Len(stats') <= Samples!StatsLen'
      BY <1>1, <1>3, <1>4
    <2>3. sparse' \in 0..Samples!StatsLen'
      BY <1>1, <1>7
    <2>4. \A i, j \in DOMAIN stats' : i < j => stats'[i] > stats'[j] \/ stats'[i] = Samples!Oldest'
      BY <1>1, <1>6
    <2> QED
      BY <2>1, <2>2, <2>3, <2>4 DEF Samples!TypeOK
  <1>9. Spaced'
    <2> SUFFICES ASSUME NEW i \in 1..l, i > l - sparse'
                 PROVE  stats'[i] >= (l - i) * Samples!Ratio + 0
      BY <1>1, <1>2, <1>4 DEF Spaced
    <2>1. CASE i = l
      <3>1. (l - i) * Samples!Ratio = 0
        BY <1>1, <1>3, <2>1
      <3> QED
        BY <1>4, <2>1, <3>1
    <2>2. CASE i # l
      <3>1. i \in 1..(l - 1) /\ i + 1 \in 1..l /\ i + 1 > l - sparse
        BY <1>1, <1>3, <1>7, <2>2
      <3> DEFINE k == l - (i + 1)
                 before == k * Samples!Ratio
                 after == (l - i) * Samples!Ratio
      <3>2. k \in Nat /\ l - i = k + 1
        BY <1>3, <3>1
      <3>3. before \in Nat /\ after = before + Samples!Ratio
        <4> HIDE DEF k
        <4>1. k * Samples!Ratio \in Nat /\ (k + 1) * Samples!Ratio = k * Samples!Ratio + Samples!Ratio
          BY <1>1, <3>2
        <4> QED
          BY <3>2, <4>1
      <3>4. Samples!Aged[i + 1] >= before + loopIndex + 1
        BY <3>1, AgedSpaced
      <3>5. stats'[i] = Samples!Aged[i + 1] /\ stats'[i] \in 0..Samples!Oldest
        BY <1>4, <3>1, AgedSamples DEF SamplesIInv
      <3> HIDE DEF before, after, k
      <3>6. Samples!Aged[i + 1] >= after
        <4>1. Samples!Ratio = loopIndex + 1
          BY <1>2
        <4>2. loopIndex \in Int
          BY <1>1
        <4>3. \A b \in 0..Samples!Oldest : b \in Int
          BY <1>1
        <4>4. Samples!Aged[i + 1] \in Int
          BY <3>5, <4>3
        <4> QED
          BY <3>3, <3>4, <4>1, <4>2, <4>4
      <3>7. stats'[i] >= after + 0
        <4>1. after + 0 = after
          BY <1>1, <3>3
        <4> QED
          BY <3>5, <3>6, <4>1, Zenon
      <3> QED
        BY <3>7 DEF after
    <2> QED
      BY <2>1, <2>2
  <1> QED
    BY <1>1, <1>3, <1>4, <1>8, <1>9 DEF SamplesIInv, Samples!Full

LEMMA StepSamples ==
  ASSUME Samples!StatsAssumption, SamplesIInv, [Samples!Next]_(Samples!vars)
  PROVE  SamplesIInv'
  <1>1. CASE Samples!Missed
    BY <1>1, AgeStep DEF Samples!Missed
  <1>2. CASE Samples!Monitor
    <2> USE <1>2 DEF Samples!Monitor
    <2>1. CASE ~Samples!Records
      BY <2>1, AgeStep
    <2>2. CASE Samples!Records /\ Samples!StatsLen = 0
      <3>1. stats' = <<>> /\ stats = <<>> /\ Samples!Full /\ sparse = 0 /\ sparse' = 0
        BY <2>2, EmptySeq DEF SamplesIInv, Samples!TypeOK, Samples!Full, Samples!Sampled
      <3>2. Samples!Aged = <<>>
        BY <3>1 DEF Samples!Aged
      <3> QED
        BY <3>1, <3>2, AgeStep
    <2>3. CASE Samples!Records /\ Samples!StatsLen # 0 /\ ~Samples!Full
      BY <2>3, FillStep DEF Samples!Sampled
    <2>4. CASE Samples!Records /\ Samples!StatsLen # 0 /\ Samples!Full
      BY <2>4, ShiftStep DEF Samples!Sampled
    <2> QED
      BY <2>1, <2>2, <2>3, <2>4
  <1>3. CASE UNCHANGED Samples!vars
    BY <1>3 DEF Samples!vars, SamplesIInv, Samples!TypeOK, Samples!Full, Spaced, Samples!Ratio,
                Samples!StatsLen, Samples!Oldest
  <1> QED
    BY <1>1, <1>2, <1>3 DEF Samples!Next

LEMMA SpanFromSpacing ==
  ASSUME Samples!StatsAssumption, SamplesIInv PROVE SpanAsAsked
  <1> SUFFICES ASSUME sparse = Samples!StatsLen, Samples!StatsLen > 0
               PROVE  stats[1] + Samples!Ratio >= desired
    BY DEF SpanAsAsked, Samples!SpanAsAsked
  <1> DEFINE l == Samples!StatsLen
             before == (l - 1) * Samples!Ratio
             after == l * Samples!Ratio
  <1>1. l \in Nat \ {0} /\ Samples!Ratio \in Nat \ {0} /\ desired \in Nat /\ after >= desired
    BY RatioBounds DEF SamplesIInv, Samples!TypeOK
  <1>2. Len(stats) = l /\ sparse = l
    BY <1>1 DEF SamplesIInv, Samples!Full
  <1>3. l - 1 \in Nat /\ 1 \in 1..l /\ 1 > l - l
    BY <1>1
  <1>4. stats[1] >= before + loopIndex /\ loopIndex \in 0..(Samples!Ratio - 1)
    BY <1>2, <1>3 DEF SamplesIInv, Spaced, Samples!TypeOK
  <1>5. before \in Nat /\ after = before + Samples!Ratio
    BY <1>1, <1>3, OldestBounds DEF SamplesIInv, Samples!TypeOK
  <1>6. stats[1] \in Int
    BY <1>2, <1>3, AgedSamples, OldestBounds DEF SamplesIInv, Samples!TypeOK
  <1> HIDE DEF before, after, l
  <1> QED
    BY <1>1, <1>4, <1>5, <1>6
-----------------------------------------------------------------------------
(* The parts together: the one that runs keeps its invariant, and leaves the *)
(* variables of the others alone.                                            *)
PartsIInv == Inv /\ CrawlerIInv /\ LoopIInv /\ SamplesIInv

LEMMA InitParts == PartsInit => PartsIInv
  BY InitInv, InitCrawler, InitLoop, InitSamples, PartsAssumption DEF PartsInit, PartsIInv

(* A step of the parts is a step of each of them, or leaves it as it is. *)
LEMMA PartsSteps ==
  ASSUME [PartsNext]_partsVars
  PROVE  /\ [Next]_m
         /\ [Crawl!Next]_(Crawl!vars)
         /\ [Loop!Next]_(Loop!vars)
         /\ [Samples!Next]_(Samples!vars)
  BY DEF PartsNext, partsVars, crawlerVars, reconnectionVars, samplesVars, MonitorRuns,
         CrawlerRuns,
         ReconnectionRuns, SamplesRun, Crawl!vars, Loop!vars, Samples!vars

LEMMA StepParts == PartsIInv /\ [PartsNext]_partsVars => PartsIInv'
  BY PartsSteps, NextInv, StepCrawler, StepLoop, StepSamples, PartsAssumption DEF PartsIInv

LEMMA PartsInvariance == PartsSpec => []PartsIInv
  BY InitParts, StepParts, PTL DEF PartsSpec

(* Type correctness of the parts for any seeds, statuses, hosts, periods and time *)
(* spans: no history holds more than three rounds (seednodes.py:212), no deque    *)
(* more samples than its length, in the order of time (cpu_ram_usage.py:49).      *)
THEOREM PartsTypeCorrect == PartsSpec => []PartsTypeOK
  <1>1. PartsIInv => PartsTypeOK
    BY DEF PartsIInv, CrawlerIInv, LoopIInv, SamplesIInv, PartsTypeOK
  <1> QED
    BY <1>1, PartsInvariance, PTL

(* A seed is shown online exactly when one of its last three probes found it so   *)
(* (seednodes.py:190-193, 209, 221-231), for any seeds and statuses.              *)
THEOREM ShowsWhatWasSeen == PartsSpec => ShownAsSeen
  <1> DEFINE Truth == crawlerAt = "deciding" /\ crawlerAt' = "sleeping" =>
                        \A s \in Seeds : shown'[s] = "online" <=> lastSeen[s] < Crawl!HistoryLen
  <1>1. ASSUME PartsIInv, [PartsNext]_partsVars PROVE [Truth]_(Crawl!vars)
    <2> SUFFICES ASSUME crawlerAt = "deciding", crawlerAt' = "sleeping", NEW s \in Seeds
                 PROVE  shown'[s] = "online" <=> lastSeen[s] < Crawl!HistoryLen
      OBVIOUS
    <2>1. CrawlerIInv /\ [Crawl!Next]_(Crawl!vars)
      BY <1>1, PartsSteps DEF PartsIInv
    <2>2. Crawl!Show
      BY <2>1 DEF Crawl!Next, Crawl!Crawler, Crawl!StartProbes, Crawl!Join,
                  Crawl!Answer, Crawl!LateAnswer, Crawl!vars
    <2>3. shown'[s] = "online" <=> \E i \in 1..Len(past) : past[i].answers[s] = "online"
      BY <2>1, <2>2, StableOnline DEF CrawlerIInv, Crawl!Show
    <2>4. lastSeen[s] <= Crawl!HistoryLen - 1 <=> SeenWithin(s, Crawl!HistoryLen - 1)
      BY <2>1 DEF CrawlerIInv, LastSeenIsTrue, Crawl!HistoryLen
    <2>5. \A i \in 1..Len(past) : Crawl!Ago(i) <= Crawl!HistoryLen - 1
      BY <2>1, History DEF CrawlerIInv, Crawl!Ago, Crawl!HistoryLen
    <2>6. SeenWithin(s, Crawl!HistoryLen - 1)
            <=> \E i \in 1..Len(past) : past[i].answers[s] = "online"
      BY <2>5 DEF SeenWithin
    <2> QED
      BY <2>1, <2>3, <2>4, <2>6 DEF CrawlerIInv, Crawl!TypeOK, Crawl!HistoryLen
  <1> QED
    BY <1>1, PartsInvariance, PTL DEF PartsSpec, ShownAsSeen, Crawl!ShownAsSeen

(* "rate limiting to avoid hammering the server" (monitoring/backbone.py:38), for any *)
(* hosts and periods: only a visit resets the time since an attempt, and it does so   *)
(* when the age has come to the period.                                               *)
THEOREM Limited == PartsSpec => RateLimited
  <1> DEFINE Limit == \A h \in Hosts : quiet'[h] < quiet[h] => quiet[h] = period \/ h \in excused
  <1>1. ASSUME PartsIInv, [PartsNext]_partsVars PROVE [Limit]_(Loop!vars)
    <2> SUFFICES ASSUME NEW h \in Hosts, quiet'[h] < quiet[h], h \notin excused
                 PROVE quiet[h] = period
      OBVIOUS
    <2>1. LoopIInv /\ [Loop!Next]_(Loop!vars)
      BY <1>1, PartsSteps DEF PartsIInv
    <2>2. period \in Nat /\ quiet[h] \in 0..period
      BY <2>1, PartsAssumption DEF Loop!BackboneAssumption, LoopIInv, Loop!TypeOK
    <2>3. CASE Loop!Begin
      BY <2>2, <2>3 DEF Loop!Begin
    <2>4. ASSUME NEW k \in Hosts, Loop!Visit(k) PROVE quiet[h] = period
      <3>1. k = h /\ h \in todo /\ Loop!NextAge(h) = 0
        BY <2>1, <2>2, <2>4 DEF LoopIInv, Loop!TypeOK, Loop!Visit
      <3>2. /\ AgeIsTrue(h) /\ Below(old[h]) /\ AgeInHand(h) = old[h]
            /\ old[h] \in Loop!NoAge..period
        BY <2>1, <3>1 DEF LoopIInv, Loop!TypeOK, AgeInHand
      <3> QED
        BY <2>2, <3>1, <3>2 DEF AgeIsTrue, Loop!NextAge, Loop!NoAge
    <2> QED
      BY <2>1, <2>2, <2>3, <2>4 DEF Loop!Next, Loop!Thread, Loop!End,
                                    Loop!PeerChanges, Loop!vars
  <1> QED
    BY <1>1, PartsInvariance, PTL DEF PartsSpec, RateLimited, Loop!RateLimited

(* "the time span will be at least the one asked for" (cpu_ram_usage.py:98), for any *)
(* time span and length, once the samples of the start are gone.                     *)
THEOREM SpansWhatWasAsked == PartsSpec => []SpanAsAsked
  <1>1. PartsIInv => SpanAsAsked
    BY SpanFromSpacing, PartsAssumption DEF PartsIInv
  <1> QED
    BY <1>1, PartsInvariance, PTL
=============================================================================
