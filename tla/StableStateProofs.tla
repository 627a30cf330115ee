-------------------------- MODULE StableStateProofs --------------------------
(* What the operators of StableState return, for every size and any states. *)
EXTENDS StableState, TLAPS

(* The queue stays within its bound and ends with what was appended. *)
LEMMA DequeAppendType ==
    ASSUME NEW S, NEW s \in Seq(S), NEW x \in S, NEW max \in Nat \ {0}, Len(s) <= max
    PROVE  /\ DequeAppend(s, x, max) \in Seq(S)
           /\ Len(DequeAppend(s, x, max)) \in 1..max
           /\ DequeAppend(s, x, max)[Len(DequeAppend(s, x, max))] = x
  BY DEF DequeAppend

(* A run grows with an equal state, when nothing is dropped. *)
LEMMA TailAgreesAppend ==
    ASSUME NEW S, NEW s \in Seq(S), NEW x \in S, NEW k \in Nat \ {0}
    PROVE  TailAgrees(Append(s, x), k + 1) <=> TailAgrees(s, k) /\ s[Len(s)] = x
<1> DEFINE t == Append(s, x)
<1>1. /\ t \in Seq(S) /\ Len(t) = Len(s) + 1 /\ t[Len(t)] = x
      /\ \A i \in 1..Len(s) : t[i] = s[i]
  OBVIOUS
<1> HIDE DEF t
<1>2. ASSUME TailAgrees(t, k + 1) PROVE TailAgrees(s, k) /\ s[Len(s)] = x
  <2>1. Len(s) >= k /\ \A i \in (Len(s) - k + 1)..(Len(s) + 1) : t[i] = x
    BY <1>1, <1>2 DEF TailAgrees
  <2>2. \A i \in (Len(s) - k + 1)..Len(s) : s[i] = x
    BY <1>1, <2>1
  <2> QED BY <2>1, <2>2 DEF TailAgrees
<1>3. ASSUME TailAgrees(s, k), s[Len(s)] = x PROVE TailAgrees(t, k + 1)
  <2>1. Len(s) >= k /\ \A i \in (Len(s) - k + 1)..Len(s) : s[i] = x
    BY <1>3 DEF TailAgrees
  <2>2. \A i \in (Len(s) - k + 1)..(Len(s) + 1) : t[i] = x
    BY <1>1, <2>1
  <2> QED BY <1>1, <2>1, <2>2 DEF TailAgrees
<1> QED BY <1>2, <1>3 DEF t

(* Dropping the oldest state does not touch the shorter runs. *)
LEMMA TailAgreesTail ==
    ASSUME NEW S, NEW s \in Seq(S), NEW k \in Nat \ {0}, k < Len(s)
    PROVE  /\ TailAgrees(Tail(s), k) <=> TailAgrees(s, k)
           /\ Tail(s)[Len(Tail(s))] = s[Len(s)]
<1> DEFINE t == Tail(s)
<1>1. /\ t \in Seq(S) /\ Len(t) = Len(s) - 1
      /\ \A i \in 1..Len(t) : t[i] = s[i + 1]
  OBVIOUS
<1> HIDE DEF t
<1>2. t[Len(t)] = s[Len(s)]
  BY <1>1
<1>3. ASSUME TailAgrees(t, k) PROVE TailAgrees(s, k)
  <2>1. \A i \in (Len(t) - k + 1)..Len(t) : s[i + 1] = s[Len(s)]
    BY <1>1, <1>2, <1>3 DEF TailAgrees
  <2>2. ASSUME NEW i \in (Len(s) - k + 1)..Len(s) PROVE s[i] = s[Len(s)]
    <3>1. i - 1 \in (Len(t) - k + 1)..Len(t) /\ (i - 1) + 1 = i
      BY <1>1
    <3>2. s[(i - 1) + 1] = s[Len(s)]
      BY <2>1, <3>1
    <3> QED BY <3>1, <3>2
  <2> QED BY <2>2 DEF TailAgrees
<1>4. ASSUME TailAgrees(s, k) PROVE TailAgrees(t, k)
  BY <1>1, <1>2, <1>4 DEF TailAgrees
<1> QED BY <1>2, <1>3, <1>4 DEF t

(* What one more state does to the runs at the end of the queue of a monitor: *)
(* the bound on the queue never loses a state that still counts.              *)
LEMMA TailAgreesDeque ==
    ASSUME NEW S, NEW n \in Nat \ {0}, NEW s \in Seq(S), Len(s) <= n + 1,
           NEW x \in S, NEW k \in 1..n
    PROVE  TailAgrees(DequeAppend(s, x, n + 1), k + 1)
             <=> TailAgrees(s, k) /\ s[Len(s)] = x
<1>1. CASE Len(s) < n + 1
  BY <1>1, TailAgreesAppend DEF DequeAppend
<1>2. CASE Len(s) = n + 1
  <2>1. Tail(s) \in Seq(S) /\ k < Len(s) /\ k \in Nat \ {0}
    BY <1>2
  <2>2. DequeAppend(s, x, n + 1) = Append(Tail(s), x)
    BY <1>2 DEF DequeAppend
  <2>3. /\ TailAgrees(Tail(s), k) <=> TailAgrees(s, k)
        /\ Tail(s)[Len(Tail(s))] = s[Len(s)]
    BY <2>1, TailAgreesTail
  <2>4. TailAgrees(Append(Tail(s), x), k + 1)
          <=> TailAgrees(Tail(s), k) /\ Tail(s)[Len(Tail(s))] = x
    BY <2>1, TailAgreesAppend
  <2> QED BY <2>2, <2>3, <2>4
<1> QED BY <1>1, <1>2

(* A long run contains the shorter ones. *)
LEMMA TailAgreesShorter ==
    ASSUME NEW S, NEW s \in Seq(S), NEW k \in Nat, NEW j \in 0..k, TailAgrees(s, k)
    PROVE  TailAgrees(s, j)
  BY DEF TailAgrees

(* What push() does to the fields of a monitor, and that it stays one. *)
LEMMA PushType ==
    ASSUME NEW n \in Nat \ {0}, NEW V, NEW m, IsMonitor(m, n, V), NEW v \in V
    PROVE  /\ IsMonitor(Push(m, v), n, V)
           /\ Push(m, v).last = Settled(m)
           /\ Push(m, v).n = n
           /\ Push(m, v).states = DequeAppend(m.states, v, n + 1)
           /\ LastPushed(Push(m, v)) = v
           /\ Push(m, v).states # <<>>
<1>1. /\ m.n = n /\ m.states \in Seq(V) /\ Len(m.states) <= n + 1
      /\ m.last \in V \cup {None}
  BY DEF IsMonitor
<1>2. Settled(m) \in V \cup {None}
  BY <1>1 DEF Settled, Stable, TailAgrees
<1>3. /\ Push(m, v).last = Settled(m)
      /\ Push(m, v).n = n
      /\ Push(m, v).states = DequeAppend(m.states, v, n + 1)
  BY <1>1 DEF Push, IsMonitor
<1>4. /\ DequeAppend(m.states, v, n + 1) \in Seq(V)
      /\ Len(DequeAppend(m.states, v, n + 1)) \in 1..(n + 1)
      /\ DequeAppend(m.states, v, n + 1)[Len(DequeAppend(m.states, v, n + 1))] = v
  BY <1>1, DequeAppendType
<1>5. Push(m, v) = [n |-> n, states |-> DequeAppend(m.states, v, n + 1), last |-> Settled(m)]
  BY <1>1 DEF Push, IsMonitor
<1>6. IsMonitor(Push(m, v), n, V)
  BY <1>2, <1>4, <1>5 DEF IsMonitor
<1>7. Push(m, v).states # <<>>
  BY <1>3, <1>4
<1> QED BY <1>3, <1>4, <1>6, <1>7 DEF LastPushed

(* The run of a monitor is unique, and its stable state is told by it. *)
LEMMA RunIsUnique ==
    ASSUME NEW n \in Nat \ {0}, NEW V, NEW m, IsMonitor(m, n, V),
           NEW k, IsRun(m, k)
    PROVE  /\ k \in 0..n
           /\ RunLength(m) = k
           /\ Stable(m) = IF k = n THEN LastPushed(m) ELSE None
<1>1. m.n = n /\ m.states \in Seq(V) /\ k \in 0..n
  BY DEF IsMonitor, IsRun
<1>2. ASSUME NEW a \in 0..n, NEW b \in 0..n, IsRun(m, a), IsRun(m, b), a < b
      PROVE  FALSE
  <2>1. TailAgrees(m.states, b) /\ ~TailAgrees(m.states, a + 1)
    BY <1>1, <1>2 DEF IsRun
  <2> QED BY <1>1, <1>2, <2>1, TailAgreesShorter
<1>3. \A j \in 0..n : IsRun(m, j) => j = k
  BY <1>1, <1>2
<1>4. RunLength(m) = k
  BY <1>1, <1>3 DEF RunLength
<1>5. TailAgrees(m.states, n) <=> k = n
  <2>1. CASE k = n
    BY <1>1, <2>1 DEF IsRun
  <2>2. CASE k < n
    <3>1. ~TailAgrees(m.states, k + 1) /\ k + 1 \in 0..n
      BY <1>1, <2>2 DEF IsRun
    <3> QED BY <1>1, <2>2, <3>1, TailAgreesShorter
  <2> QED BY <1>1, <2>1, <2>2
<1>6. k = n => m.states # <<>>
  BY <1>1 DEF IsRun
<1> QED BY <1>1, <1>4, <1>5, <1>6 DEF Stable, LastPushed

(* What a push does to the value a monitor stands by. *)
LEMMA PushSettles ==
    ASSUME NEW n \in Nat \ {0}, NEW V, NEW m, IsMonitor(m, n, V), NEW v \in V, None \notin V
    PROVE  /\ Stable(Push(m, v)) \in {v, None}
           /\ Settled(Push(m, v)) = IF Stable(Push(m, v)) = v THEN v ELSE Settled(m)
           /\ JustChanged(Push(m, v))
                 <=> Stable(Push(m, v)) = v /\ Settled(m) \notin {None, v}
           /\ Settled(m) \in V \cup {None}
<1>1. Push(m, v).last = Settled(m) /\ LastPushed(Push(m, v)) = v /\ Push(m, v).states # <<>>
  BY PushType
<1>2. Stable(Push(m, v)) \in {v, None}
  BY <1>1 DEF Stable, LastPushed
<1>3. v # None
  OBVIOUS
<1>4. Settled(m) \in V \cup {None}
  BY DEF Settled, Stable, TailAgrees, IsMonitor
<1> QED BY <1>1, <1>2, <1>3, <1>4 DEF Settled, JustChanged

(* The stable state is one that was pushed. *)
LEMMA StableType ==
    ASSUME NEW n \in Nat \ {0}, NEW V, NEW m, IsMonitor(m, n, V)
    PROVE  Stable(m) \in V \cup {None}
  BY DEF Stable, TailAgrees, IsMonitor

(* A fresh monitor is one. *)
LEMMA NewMonitorType ==
    ASSUME NEW n \in Nat \ {0}, NEW V
    PROVE  IsMonitor(NewMonitor(n), n, V)
  BY DEF IsMonitor, NewMonitor

(* The run after one more push. *)
LEMMA RunPushed ==
    ASSUME NEW n \in Nat \ {0}, NEW V, None \notin V, NEW m, IsMonitor(m, n, V),
           NEW v \in V, NEW k \in 0..n, IsRun(m, k)
    PROVE  IsRun(Push(m, v), IF v # LastPushed(m) THEN 1 ELSE IF k < n THEN k + 1 ELSE n)
<1> DEFINE s == m.states
           p == Push(m, v)
           r == IF v # LastPushed(m) THEN 1 ELSE IF k < n THEN k + 1 ELSE n
<1>1. s \in Seq(V) /\ Len(s) <= n + 1 /\ m.n = n
  BY DEF IsMonitor
<1>2. /\ p.n = n /\ p.states = DequeAppend(s, v, n + 1) /\ p.states # <<>>
      /\ p.states \in Seq(V) /\ Len(p.states) >= 1
  <2>1. p.states = DequeAppend(s, v, n + 1) /\ p.n = n /\ p.states # <<>>
    BY <1>1, PushType
  <2>2. DequeAppend(s, v, n + 1) \in Seq(V) /\ Len(DequeAppend(s, v, n + 1)) >= 1
    BY <1>1, DequeAppendType, n + 1 \in Nat \ {0}
  <2> QED BY <2>1, <2>2
<1>3. \A j \in 1..n : TailAgrees(p.states, j + 1) <=> TailAgrees(s, j) /\ s[Len(s)] = v
  <2>1. \A j \in 1..n : TailAgrees(DequeAppend(s, v, n + 1), j + 1)
                            <=> TailAgrees(s, j) /\ s[Len(s)] = v
    <3> HIDE DEF s
    <3> QED BY <1>1, TailAgreesDeque, ZenonT(20)
  <2> QED BY <1>2, <2>1
<1>4. k = 0 <=> s = <<>>
  BY DEF IsRun
<1>5. CASE v # LastPushed(m)
  <2>1. r = 1 /\ TailAgrees(p.states, 1)
    BY <1>2, <1>5 DEF TailAgrees
  <2>2. ~TailAgrees(p.states, 2)
    <3>1. SUFFICES ASSUME TailAgrees(s, 1), s[Len(s)] = v PROVE FALSE
      BY <1>1, <1>3, 1 \in 1..n, 1 + 1 = 2
    <3>2. s # <<>>
      BY <3>1 DEF TailAgrees
    <3> QED BY <1>5, <3>1, <3>2 DEF LastPushed
  <2> QED BY <1>1, <1>2, <2>1, <2>2 DEF IsRun
<1>6. CASE v = LastPushed(m)
  <2>1. s # <<>> /\ s[Len(s)] = v /\ k \in 1..n
    BY <1>4, <1>6 DEF LastPushed
  <2>2. TailAgrees(s, k) /\ (k < n => ~TailAgrees(s, k + 1))
    BY <1>1 DEF IsRun
  <2>3. TailAgrees(p.states, k + 1)
    BY <1>3, <2>1, <2>2
  <2>4. CASE k < n
    <3>1. r = k + 1 /\ k + 1 \in 1..n
      BY <1>6, <2>1, <2>4
    <3>2. ~TailAgrees(p.states, (k + 1) + 1)
      BY <1>3, <2>2, <2>4, <3>1
    <3> QED BY <1>2, <2>3, <3>1, <3>2 DEF IsRun
  <2>5. CASE k = n
    <3>1. r = n
      BY <1>6, <2>5
    <3>2. TailAgrees(p.states, n)
      BY <1>1, <1>2, <2>3, <2>5, TailAgreesShorter, n + 1 \in Nat, n \in 0..(n + 1)
    <3> QED BY <1>1, <1>2, <3>1, <3>2 DEF IsRun
  <2> QED BY <1>1, <2>1, <2>4, <2>5
<1> QED BY <1>5, <1>6

(* A push is an observation of Debounce. *)
LEMMA PushObserved ==
    ASSUME NEW n \in Nat \ {0}, NEW V, None \notin V, NEW m, IsMonitor(m, n, V),
           NEW v \in V, \E k \in 0..n : IsRun(m, k)
    PROVE  LET r == IF v # LastPushed(m) THEN 1 ELSE IF RunLength(m) < n THEN RunLength(m) + 1 ELSE n
               p == Push(m, v)
           IN /\ r \in 0..n /\ IsRun(p, r)
              /\ LastPushed(p) = v /\ RunLength(p) = r
              /\ Settled(p) = IF r = n THEN v ELSE Settled(m)
              /\ JustChanged(p) = (r = n /\ Settled(m) \notin {v, None})
<1> DEFINE r == IF v # LastPushed(m) THEN 1 ELSE IF RunLength(m) < n THEN RunLength(m) + 1 ELSE n
           p == Push(m, v)
<1>1. PICK k \in 0..n : IsRun(m, k)
  OBVIOUS
<1>2. RunLength(m) = k
  BY <1>1, RunIsUnique
<1>3. IsRun(p, r)
  BY <1>1, <1>2, RunPushed
<1>4. IsMonitor(p, n, V) /\ p.last = Settled(m) /\ LastPushed(p) = v
  BY PushType
<1> HIDE DEF p, r
<1>5. r \in 0..n /\ RunLength(p) = r /\ Stable(p) = IF r = n THEN v ELSE None
  BY <1>3, <1>4, RunIsUnique
<1>6. v # None
  OBVIOUS
<1>7. Settled(p) = IF r = n THEN v ELSE Settled(m)
  BY <1>4, <1>5, <1>6 DEF Settled
<1>8. JustChanged(p) = (r = n /\ Settled(m) \notin {v, None})
  BY <1>4, <1>5, <1>6 DEF JustChanged
<1> QED BY <1>3, <1>4, <1>5, <1>7, <1>8 DEF p, r

(* A fresh monitor has observed nothing. *)
LEMMA NewMonitorRun ==
    ASSUME NEW n \in Nat \ {0}
    PROVE  LET m == NewMonitor(n)
           IN /\ IsRun(m, 0) /\ RunLength(m) = 0
              /\ LastPushed(m) = None /\ Settled(m) = None /\ JustChanged(m) = FALSE
<1> DEFINE m == NewMonitor(n)
<1>1. IsMonitor(m, n, {}) /\ m.n = n /\ m.states = <<>> /\ m.last = None
  BY NewMonitorType DEF NewMonitor
<1> HIDE DEF m
<1>2. IsRun(m, 0)
  BY <1>1 DEF IsRun, TailAgrees
<1>3. RunLength(m) = 0 /\ Stable(m) = None
  BY <1>1, <1>2, RunIsUnique
<1> QED BY <1>1, <1>2, <1>3 DEF m, LastPushed, Settled, JustChanged
==============================================================================
