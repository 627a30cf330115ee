---------------------------- MODULE RpcCacheProofs ----------------------------
(***************************************************************************)
(* What the cache of RPC results guarantees, for any number of threads     *)
(* and methods and however the threads interleave.                         *)
(***************************************************************************)
EXTENDS RpcCache, TLAPS

(* Neither the cache nor an answer on its way is older than what was on its way *)
(* when t dropped the cache.                                                    *)
FreshFor(t) ==
    /\ version >= oldest[t]
    /\ \A m \in DOMAIN cache : cache[m].version >= oldest[t]
    /\ \A u \in Threads : at[u] = "store" => answer[u].version >= oldest[t]
    /\ at[t] = "returned" /\ ~answer[t].missing => answer[t].version >= oldest[t]

(* As long as nobody else drops the cache, what t asked for is in it or about to *)
(* be, and what t found there still is.                                          *)
KeptFor(t) ==
    ~disturbed[t] =>
      /\ \A m \in Cacheable :
           /\ asked[t][m] <= 1
           /\ asked[t][m] = 1 => \/ m \in DOMAIN cache
                                 \/ at[t] = "store" /\ method[t] = m
           /\ at[t] = "ask" /\ method[t] = m => asked[t][m] = 0
      /\ at[t] = "read" => method[t] \in DOMAIN cache
      /\ at[t] \in {"store", "returned"} => ~answer[t].missing

IInv ==
    /\ TypeOK
    /\ \A t \in Threads : at[t] = "store" => method[t] \in Cacheable /\ ~answer[t].missing
    /\ \A t \in Threads : FreshFor(t) /\ KeptFor(t)
-----------------------------------------------------------------------------
(* Initially nothing is cached or on its way. *)
LEMMA InitInvariant == Init => IInv
<1> SUFFICES ASSUME Init PROVE IInv
    OBVIOUS
<1>1. (CHOOSE m \in Methods : TRUE) \in Methods
    BY CacheAssumption
<1>2. TypeOK
    BY <1>1, CacheAssumption DEF Init, TypeOK, Nothing, Answers
<1>3. ASSUME NEW t \in Threads PROVE FreshFor(t) /\ KeptFor(t)
    BY DEF Init, FreshFor, KeptFor, Cacheable
<1> QED
    BY <1>2, <1>3 DEF Init, IInv

(* Every step keeps the invariant. *)
LEMMA NextInvariant == IInv /\ [Next]_vars => IInv'
<1> SUFFICES ASSUME IInv, [Next]_vars PROVE IInv'
    OBVIOUS
<1> USE CacheAssumption DEF IInv
<1>1. CASE Change
    BY <1>1 DEF Change, TypeOK, FreshFor, KeptFor, clientVars, Answers, Cacheable
<1>2. ASSUME NEW t \in Threads, BeginRound(t) PROVE IInv'
    <2>1. /\ at[t] = "idle" /\ UNCHANGED <<version, at, method, answer>>
          /\ rounds' = [rounds EXCEPT ![t] = @ + 1] /\ rounds[t] < MaxRounds[t]
          /\ calls' = [calls EXCEPT ![t] = 0]
          /\ asked' = [asked EXCEPT ![t] = [m \in Methods |-> 0]]
        BY <1>2 DEF BeginRound
    <2>2. CASE t \in Clearing
        <3>1. PICK v \in {version} \cup OnTheirWay :
                  /\ \A w \in {version} \cup OnTheirWay : v <= w
                  /\ oldest' = [oldest EXCEPT ![t] = v]
            BY <1>2, <2>2 DEF BeginRound
        <3>2. cache' = [m \in {} |-> 0] /\ disturbed' = [u \in Threads |-> u # t]
            BY <1>2, <2>2 DEF BeginRound, Cleared
        <3>3. v \in 0..MaxVersion
            BY DEF OnTheirWay, TypeOK
        <3>4. /\ v <= version
              /\ \A u \in Threads : at[u] = "store" => v <= answer[u].version
            BY <3>1 DEF OnTheirWay
        <3>5. DOMAIN cache' = {}
            BY <3>2
        <3>6. TypeOK'
            <4>1. disturbed' \in [Threads -> BOOLEAN]
                BY <3>2, Zenon
            <4>2. /\ rounds'[t] \in 0..MaxRounds[t] /\ calls'[t] \in 0..MaxCalls[t]
                  /\ \A u \in Threads \ {t} : rounds'[u] = rounds[u] /\ calls'[u] = calls[u]
                BY <2>1 DEF TypeOK
            <4>3. asked' \in [Threads -> [Methods -> Nat]]
                BY <2>1 DEF TypeOK
            <4>4. oldest' \in [Threads -> 0..MaxVersion]
                BY <3>1, <3>3 DEF TypeOK
            <4> QED
                BY <2>1, <3>5, <4>1, <4>2, <4>3, <4>4 DEF TypeOK
        <3>7. ASSUME NEW u \in Threads PROVE FreshFor(u)'
            <4>1. oldest'[u] = IF u = t THEN v ELSE oldest[u]
                <5>1. oldest \in [Threads -> 0..MaxVersion]
                    BY DEF TypeOK
                <5> QED
                    BY <3>1, <5>1
            <4>2. /\ UNCHANGED <<version, at, answer>>
                  /\ at[t] = "idle"
                BY <2>1
            <4>3. FreshFor(u)
                OBVIOUS
            <4> QED
                BY <3>4, <3>5, <4>1, <4>2, <4>3 DEF FreshFor
        <3>8. ASSUME NEW u \in Threads PROVE KeptFor(u)'
            <4>1. CASE u = t
                <5>1. \A m \in Cacheable : asked'[u][m] = 0
                    BY <2>1, <4>1 DEF TypeOK, Cacheable
                <5>2. at'[u] = "idle"
                    BY <2>1, <4>1
                <5> QED
                    BY <5>1, <5>2 DEF KeptFor, Cacheable
            <4>2. CASE u # t
                <5>1. disturbed'[u]
                    BY <3>2, <4>2, Zenon
                <5> QED
                    BY <5>1 DEF KeptFor
            <4> QED
                BY <4>1, <4>2
        <3> QED
            BY <2>1, <3>6, <3>7, <3>8 DEF Cacheable
    <2>3. CASE t \notin Clearing
        <3>1. UNCHANGED <<cache, oldest>> /\ disturbed' = [disturbed EXCEPT ![t] = FALSE]
            BY <1>2, <2>3 DEF BeginRound
        <3>2. TypeOK'
            BY <2>1, <3>1 DEF TypeOK, Answers
        <3>3. ASSUME NEW u \in Threads PROVE FreshFor(u)'
            BY <2>1, <3>1 DEF TypeOK, FreshFor
        <3>4. ASSUME NEW u \in Threads PROVE KeptFor(u)'
            BY <2>1, <3>1 DEF TypeOK, KeptFor, Cacheable
        <3> QED
            BY <2>1, <3>2, <3>3, <3>4 DEF Cacheable
    <2> QED
        BY <2>2, <2>3
<1>3. ASSUME NEW t \in Threads, NEW m \in Methods, StartCall(t, m) PROVE IInv'
    BY <1>3 DEF StartCall, Goto, TypeOK, FreshFor, KeptFor, Answers, Cacheable
<1>4. ASSUME NEW t \in Threads, Lookup(t) PROVE IInv'
    <2> USE <1>4 DEF Lookup, Goto, clientVars
    <2>1. TypeOK'
        BY DEF TypeOK, Answers
    <2>2. ASSUME NEW u \in Threads PROVE FreshFor(u)'
        BY DEF TypeOK, FreshFor
    <2>3. ASSUME NEW u \in Threads PROVE KeptFor(u)'
        <3>1. CASE u = t
            <4>1. /\ at[t] = "lookup" /\ at'[t] \in {"read", "ask"}
                  /\ at'[t] = "read" <=> method[t] \in DOMAIN cache
                BY DEF TypeOK
            <4>2. \A m \in Cacheable : asked[t][m] \in Nat
                BY DEF TypeOK, Cacheable
            <4>3. KeptFor(t)
                OBVIOUS
            <4> QED
                BY <3>1, <4>1, <4>2, <4>3 DEF KeptFor, Cacheable
        <3>2. CASE u # t
            BY <3>2 DEF TypeOK, KeptFor, Cacheable
        <3> QED
            BY <3>1, <3>2
    <2> QED
        BY <2>1, <2>2, <2>3 DEF TypeOK, Cacheable
<1>5. ASSUME NEW t \in Threads, Read(t) PROVE IInv'
    BY <1>5 DEF Read, Goto, Served, KeyError, TypeOK, FreshFor, KeptFor, clientVars, Answers,
               Cacheable
<1>6. ASSUME NEW t \in Threads, Ask(t) PROVE IInv'
    BY <1>6 DEF Ask, Goto, Served, TypeOK, FreshFor, KeptFor, clientVars, Answers, Cacheable
<1>7. ASSUME NEW t \in Threads, Store(t) PROVE IInv'
    BY <1>7 DEF Store, Goto, With, Kept, TypeOK, FreshFor, KeptFor, clientVars, Answers,
               Cacheable
<1>8. ASSUME NEW t \in Threads, Return(t) PROVE IInv'
    BY <1>8 DEF Return, Goto, Nothing, TypeOK, FreshFor, KeptFor, clientVars, Answers, Cacheable
<1>9. CASE UNCHANGED vars
    BY <1>9 DEF vars, TypeOK, FreshFor, KeptFor, Answers, Cacheable
<1> QED
    BY <1>1, <1>2, <1>3, <1>4, <1>5, <1>6, <1>7, <1>8, <1>9 DEF Next

LEMMA Invariant == Spec => []IInv
<1> QED
    BY InitInvariant, NextInvariant, PTL DEF Spec
-----------------------------------------------------------------------------
(* The cache, its answers and its counters keep their type: nothing but results *)
(* and exceptions of cacheable methods is ever stored.                          *)
THEOREM TypeCorrect == Spec => []TypeOK
<1>1. IInv => TypeOK
    BY DEF IInv
<1> QED
    BY <1>1, Invariant, PTL

(* An iteration or a view that dropped the cache is told nothing older than what *)
(* was on its way then (monitor.py:184, views.py:111).                           *)
THEOREM ServesFresh == Spec => []Fresh
<1>1. IInv => Fresh
    BY CacheAssumption DEF IInv, Fresh, FreshFor
<1> QED
    BY <1>1, Invariant, PTL

(* A client is asked once for the same thing unless another thread drops the *)
(* cache (views.py:104-105).                                                 *)
THEOREM AsksOnce == Spec => []AskedOnce
<1>1. IInv => AskedOnce
    BY DEF IInv, AskedOnce, KeptFor
<1> QED
    BY <1>1, Invariant, PTL
=============================================================================
