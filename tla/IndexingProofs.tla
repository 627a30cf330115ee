--------------------------- MODULE IndexingProofs ---------------------------
(***************************************************************************)
(* What the block index of a client counts and what the missed plugin says *)
(* of it, for any chain, any witnesses and any number of restarts.         *)
(***************************************************************************)
EXTENDS Indexing, SequenceTheorems, FiniteSetTheorems, TLAPS

(* The last block that was dealt with, whether or not last_indexed_block says so. *)
Reached == IF pc = "advance" THEN db.last + 1 ELSE db.last

CountedOf(w) == {n \in (first + 1)..Reached : chain[n].by = w} \ uncounted

(* What a witness had missed by its last counted block. *)
MissedBefore(w) ==
    IF CountedOf(w) = {} THEN 0 ELSE chain[Max(CountedOf(w))].missed[w]

ChainIsOrdered ==
    \A n \in 1..Len(chain), w \in Witnesses : chain[n].missed[w] <= totalMissed[w]

(* The thread only deals with blocks the chain has. *)
Control ==
    /\ head <= Len(chain) /\ db.last <= Len(chain)
    /\ pc \in {"retry", "advance"} => db.last < head
    /\ pc = "retry" => asked <= tries + 1

(* What the file holds, and what save_db() has read of it. *)
Files ==
    /\ ~disk.written => disk = NoFile
    /\ disk.db.last <= Len(chain)
    /\ saving <= db.last
    /\ saving >= 0 => Full /\ starts < MaxStarts
    /\ first <= db.last /\ (Full => first = 0)

NoneSkipped ==
    /\ \A n \in (first + 1)..Reached : n \in uncounted \/ counted[n] > 0
    /\ \A n \in 1..disk.db.last : n \in disk.uncounted \/ disk.counted[n] > 0

(* The counters of a database: each process may count the whole chain again. *)
Sized(d, upTo) ==
    \A w \in Witnesses :
        /\ d.produced[w] + 1 <= upTo + MaxHead * starts
        /\ d.streak[w] <= d.produced[w] + 1
        /\ d.missed[w] <= totalMissed[w]
Sizes ==
    /\ Sized(db, Reached) /\ Sized(disk.db, disk.db.last)
    /\ \A w \in Witnesses : db.streak[w] <= ctxProduced[w] + 1

(* The blocks counted by the first process, and the last of them. *)
Tally ==
    /\ uncounted \subseteq 1..Reached
    /\ \A w \in Witnesses :
         /\ db.produced[w] + 1 = Cardinality(CountedOf(w))
         /\ CountedOf(w) # {} => \E m \in CountedOf(w) : \A n \in CountedOf(w) : n <= m

(* The plugin has not looked at the witness yet, or it knows the misses up to the *)
(* last block it saw counted, and the streak is among those after it.             *)
Looked ==
    \A w \in Witnesses :
        /\ db.missed[w] < 0 => db.streak[w] = 0 /\ ctxProduced[w] = 0
        /\ db.missed[w] >= 0 => ctxProduced[w] <= db.produced[w]
        /\ db.missed[w] >= 0 /\ ctxProduced[w] = db.produced[w] /\ w \notin misled =>
             /\ MissedBefore(w) <= db.missed[w]
             /\ -db.streak[w] <= db.missed[w] - MissedBefore(w)

FirstProcess == starts = 0 => Tally /\ Looked

Types == ChainTypes /\ DatabaseTypes /\ ThreadTypes /\ HistoryTypes

IInv ==
    /\ Types /\ ChainIsOrdered /\ Control /\ Files /\ NoneSkipped /\ Sizes /\ FirstProcess
(* No answer is ahead of the client. *)
NotAhead ==
    /\ \A q \in Questions : cached[q] <= Answer(q)
    /\ view.answer <= Answer(view.of)

(* The client has a head block once it was polled. *)
HeadIsKnown ==
    /\ pc \in {"polled", "named"} => chain # <<>>
    /\ cached[Info] # 0 /\ (view.of = Info => view.answer # 0)

(* The last block that the iteration counts. *)
Horizon ==
    IF pc \in {"polled", "named"} THEN cached[Info]
    ELSE IF pc = "missed" THEN db.last ELSE head

(* What is in the cache of an iteration that no view touched is as new as what the *)
(* iteration counts and as what the plugin knew.                                   *)
Fresh ==
    /\ pc \in {"polled", "named"} => cached[Info] # Nothing
    /\ \A w \in Witnesses : cached[w] # Nothing =>
         /\ db.missed[w] <= cached[w]
         /\ \A n \in 1..Len(chain) :
              n <= Reached \/ n <= Horizon => chain[n].missed[w] <= cached[w]

CInv ==
    /\ CacheTypes /\ NotAhead /\ HeadIsKnown
    /\ pc # "sleep" /\ ~disturbed => Fresh
-----------------------------------------------------------------------------
LEMMA Bounds ==
  ASSUME config \in Configs
  PROVE  /\ IsFiniteSet(Witnesses) /\ Full \in BOOLEAN
         /\ MaxHead \in Nat /\ MaxMissed \in Nat /\ MaxStarts \in Nat
  BY IndexingAssumption DEF Witnesses, Full, MaxHead, MaxMissed, MaxStarts

LEMMA Multiples ==
  \A h, s, m \in Nat :
    /\ h * s \in Nat /\ h * (s + 1) = h * s + h
    /\ s <= m => h * s <= h * m
  OBVIOUS

(* The configuration does not change, and neither does what it sets. *)
LEMMA SameConfig ==
  ASSUME config' = config
  PROVE  /\ Witnesses' = Witnesses /\ (Full <=> Full')
         /\ MaxHead' = MaxHead /\ MaxMissed' = MaxMissed /\ MaxStarts' = MaxStarts
         /\ Counters' = Counters /\ Streaks' = Streaks /\ Databases' = Databases
         /\ EmptyDb' = EmptyDb /\ NoFile' = NoFile
  BY DEF Witnesses, Full, MaxHead, MaxMissed, MaxStarts, Counters, Streaks, Databases,
         EmptyDb, NoFile

(* Membership in Databases, field by field. *)
LEMMA Fields ==
  ASSUME NEW d \in Databases
  PROVE  /\ d.last \in 0..MaxHead /\ d.produced \in Counters
         /\ d.missed \in [Witnesses -> -1..MaxMissed] /\ d.streak \in Streaks
  BY DEF Databases

LEMMA Numbers ==
  ASSUME NEW d \in Databases, NEW w \in Witnesses
  PROVE  d.produced[w] \in Int /\ d.missed[w] \in Int /\ d.streak[w] \in Int
  <1>1. \A a, b : a..b \subseteq Int
    OBVIOUS
  <1> QED
    BY <1>1, Fields DEF Counters, Streaks

LEMMA EmptyTypes ==
  ASSUME config \in Configs
  PROVE  /\ EmptyDb \in Databases
         /\ NoFile \in [written : BOOLEAN, db : Databases, counted : [1..MaxHead -> Nat],
                        uncounted : SUBSET (1..MaxHead)]
  <1>1. MaxHead * (MaxStarts + 1) \in Nat /\ MaxHead \in Nat /\ MaxMissed \in Nat
    BY Bounds, Multiples
  <1>2. /\ 0 \in 0..MaxHead /\ -1 \in -1..(MaxHead * (MaxStarts + 1)) /\ -1 \in -1..MaxMissed
    BY <1>1
  <1>3. EmptyDb \in Databases
    BY <1>2 DEF EmptyDb, Databases, Counters, Streaks
  <1> QED
    BY <1>3 DEF NoFile

LEMMA InitIInv == Init => IInv
  <1> SUFFICES ASSUME Init PROVE IInv
    OBVIOUS
  <1>1. config \in Configs
    BY DEF Init
  <1>2. /\ MaxHead \in Nat /\ MaxMissed \in Nat /\ MaxStarts \in Nat
        /\ MaxHead * (MaxStarts + 1) \in Nat /\ MaxHead * 0 = 0
    BY <1>1, Bounds, Multiples
  <1>3. Types
    <2>1. ChainTypes
      <3>1. <<>> \in Seq([by : Witnesses \cup {Other}, missed : [Witnesses -> 0..MaxMissed]])
            /\ Len(<<>>) = 0
        BY EmptySeq
      <3> QED
        BY <1>1, <1>2, <3>1 DEF Init, ChainTypes
    <2>2. DatabaseTypes
      BY <1>1, <1>2, EmptyTypes DEF Init, DatabaseTypes
    <2>3. ThreadTypes
      <3>1. cachedNone \in BOOLEAN
        BY DEF Init
      <3>2. 0 \in -1..(MaxHead * (MaxStarts + 1)) /\ 0 \in 0..MaxHead
        BY <1>2
      <3>3. ctxProduced \in Counters
        BY <3>2 DEF Init, Counters
      <3>4. pc = "sleep" /\ names = {} /\ head = 0 /\ tries = 0 /\ todo = {} /\ asked = 0
        BY DEF Init
      <3> QED
        BY <3>1, <3>2, <3>3, <3>4 DEF ThreadTypes
    <2>4. HistoryTypes
      BY <1>2 DEF Init, HistoryTypes
    <2> QED
      BY <2>1, <2>2, <2>3, <2>4 DEF Types
  <1>4. /\ pc = "sleep" /\ head = 0 /\ saving = -1 /\ starts = 0 /\ first = 0 /\ uncounted = {}
        /\ db = EmptyDb /\ disk = NoFile /\ chain = <<>> /\ Len(chain) = 0
    BY EmptySeq DEF Init
  <1>5. /\ db.last = 0 /\ disk.db.last = 0 /\ Reached = 0 /\ disk.db = EmptyDb
        /\ \A w \in Witnesses : /\ db.produced[w] = -1 /\ db.missed[w] = -1 /\ db.streak[w] = 0
                                /\ disk.db.produced[w] = -1 /\ disk.db.streak[w] = 0
                                /\ disk.db.missed[w] = -1 /\ totalMissed[w] = 0
                                /\ ctxProduced[w] = 0
    BY <1>4 DEF EmptyDb, NoFile, Reached, Init
  <1>6. ChainIsOrdered /\ Control
    BY <1>4, <1>5 DEF ChainIsOrdered, Control
  <1>7. Files /\ NoneSkipped
    BY <1>4, <1>5 DEF Files, NoneSkipped
  <1>8. Sizes
    BY <1>2, <1>4, <1>5 DEF Sizes, Sized
  <1>9. FirstProcess
    <2>1. \A w : CountedOf(w) = {}
      BY <1>4, <1>5 DEF CountedOf
    <2>2. Tally
      <3>1. uncounted = {} /\ \A w \in Witnesses : db.produced[w] + 1 = 0
        BY <1>4, <1>5
      <3>2. Cardinality({}) = 0
        BY FS_EmptySet
      <3> QED
        BY <2>1, <3>1, <3>2 DEF Tally
    <2>3. Looked
      BY <1>5 DEF Looked
    <2> QED
      BY <2>2, <2>3 DEF FirstProcess
  <1> QED
    BY <1>3, <1>6, <1>7, <1>8, <1>9 DEF IInv
-----------------------------------------------------------------------------
(* The blocks dealt with are blocks of the chain. *)
LEMMA ReachedTypes ==
  ASSUME IInv
  PROVE  /\ Reached \in 0..Len(chain) /\ first \in Nat /\ first <= Reached
         /\ Len(chain) \in Nat /\ Len(chain) <= MaxHead
         /\ pc = "advance" => Reached = db.last + 1
  <1>1. db \in Databases /\ config \in Configs
    BY DEF IInv, Types, DatabaseTypes, ChainTypes
  <1>2. db.last \in 0..MaxHead /\ MaxHead \in Nat
    BY <1>1, Bounds, Fields
  <1>3. chain \in Seq([by : Witnesses \cup {Other}, missed : [Witnesses -> 0..MaxMissed]])
        /\ Len(chain) <= MaxHead
    BY DEF IInv, Types, ChainTypes
  <1>4. Len(chain) \in Nat
    BY <1>3, LenProperties
  <1>5. first \in 0..MaxHead /\ first <= db.last
    BY DEF IInv, Types, HistoryTypes, Files
  <1>6. head \in 0..MaxHead /\ head <= Len(chain) /\ db.last <= Len(chain)
        /\ (pc = "advance" => db.last < head)
    BY DEF IInv, Types, ThreadTypes, Control
  <1>7. CASE pc = "advance"
    BY <1>2, <1>3, <1>4, <1>5, <1>6, <1>7 DEF Reached
  <1>8. CASE pc # "advance"
    BY <1>2, <1>3, <1>4, <1>5, <1>6, <1>8 DEF Reached
  <1> QED
    BY <1>7, <1>8

(* The maximum of the counted blocks is one of them. *)
LEMMA LastCounted ==
  ASSUME IInv, starts = 0, NEW w \in Witnesses
  PROVE  /\ CountedOf(w) \subseteq 1..Reached
         /\ CountedOf(w) # {} => Max(CountedOf(w)) \in CountedOf(w)
  <1>1. CountedOf(w) \subseteq 1..Reached
    BY ReachedTypes DEF CountedOf
  <1>2. ASSUME CountedOf(w) # {} PROVE Max(CountedOf(w)) \in CountedOf(w)
    <2>1. PICK m \in CountedOf(w) : \A n \in CountedOf(w) : n <= m
      BY <1>2 DEF IInv, FirstProcess, Tally
    <2>2. \A n \in CountedOf(w) : m >= n
      BY <1>1, <2>1, ReachedTypes
    <2> QED
      BY <2>1, <2>2 DEF Max
  <1> QED
    BY <1>1, <1>2

(* A step that leaves the chain, the counts and the place in the chain alone. *)
LEMMA ControlStep ==
  ASSUME IInv, UNCHANGED <<chainVars, db, disk, starts, ctxProduced, first, uncounted, counted, misled>>,
         Reached' = Reached,
         saving' = saving \/ (saving' = db.last /\ Full /\ starts < MaxStarts),
         ThreadTypes', Control'
  PROVE  IInv'
  <1>1. UNCHANGED <<config, chain, totalMissed>>
    BY DEF chainVars
  <1>2. ChainTypes' /\ HistoryTypes'
    BY <1>1, SameConfig DEF IInv, Types, ChainTypes, HistoryTypes
  <1>3. saving' \in 0..MaxHead \cup {-1}
    BY Fields DEF IInv, Types, DatabaseTypes
  <1>4. DatabaseTypes'
    BY <1>1, <1>3, SameConfig DEF IInv, Types, DatabaseTypes
  <1>5. Files'
    <2>1. db.last \in 0..MaxHead /\ MaxHead \in Nat
      BY Fields, Bounds DEF IInv, Types, DatabaseTypes, ChainTypes
    <2> QED
      BY <1>1, <2>1, SameConfig DEF IInv, Files
  <1>6. ChainIsOrdered' /\ NoneSkipped'
    BY <1>1, SameConfig DEF IInv, ChainIsOrdered, NoneSkipped
  <1>7. Sizes'
    BY <1>1, SameConfig DEF IInv, Sizes, Sized
  <1>8. FirstProcess'
    <2>1. \A w : CountedOf(w)' = CountedOf(w)
      BY <1>1 DEF CountedOf
    <2>2. \A w : MissedBefore(w)' = MissedBefore(w)
      BY <1>1, <2>1 DEF MissedBefore
    <2> QED
      BY <1>1, <2>1, <2>2, SameConfig DEF IInv, FirstProcess, Tally, Looked
  <1> QED
    BY <1>2, <1>4, <1>5, <1>6, <1>7, <1>8 DEF IInv, Types

LEMMA NotIndexedStep == IInv /\ NotIndexed => IInv'
  <1> SUFFICES ASSUME IInv, NotIndexed PROVE IInv'
    OBVIOUS
  <1>1. /\ UNCHANGED <<chainVars, db, disk, saving, starts, names, head, cachedNone, tries, asked>>
        /\ UNCHANGED <<ctxProduced, first, uncounted, counted, misled>>
        /\ pc = "polled" /\ pc' = "missed" /\ todo' = Witnesses
    BY DEF NotIndexed, historyVars, diskVars, blockVars
  <1>2. ThreadTypes' /\ Control' /\ Reached' = Reached
    BY <1>1, SameConfig DEF IInv, Types, ThreadTypes, Control, Reached, chainVars
  <1> QED
    BY <1>1, <1>2, ControlStep

LEMMA IndexingDoneStep == IInv /\ IndexingDone => IInv'
  <1> SUFFICES ASSUME IInv, IndexingDone PROVE IInv'
    OBVIOUS
  <1>1. /\ UNCHANGED <<chainVars, db, disk, saving, starts, names, head, cachedNone, tries, asked>>
        /\ UNCHANGED <<ctxProduced, first, uncounted, counted, misled>>
        /\ pc = "index" /\ pc' \in {"missed", "sleep"} /\ todo' \in {todo, Witnesses}
    BY DEF IndexingDone, historyVars, diskVars, blockVars
  <1>2. ThreadTypes' /\ Control' /\ Reached' = Reached
    BY <1>1, SameConfig DEF IInv, Types, ThreadTypes, Control, Reached, chainVars
  <1> QED
    BY <1>1, <1>2, ControlStep

LEMMA EndIterationStep == IInv /\ EndIteration => IInv'
  <1> SUFFICES ASSUME IInv, EndIteration PROVE IInv'
    OBVIOUS
  <1>1. /\ UNCHANGED <<chainVars, db, disk, saving, starts, names, head, cachedNone, tries, asked>>
        /\ UNCHANGED <<todo, ctxProduced, first, uncounted, counted, misled>>
        /\ pc = "missed" /\ pc' = "sleep"
    BY DEF EndIteration, historyVars, diskVars, blockVars
  <1>2. ThreadTypes' /\ Control' /\ Reached' = Reached
    BY <1>1, SameConfig DEF IInv, Types, ThreadTypes, Control, Reached, chainVars
  <1> QED
    BY <1>1, <1>2, ControlStep

LEMMA ViewClearsCacheStep == IInv /\ ViewClearsCache => IInv'
  <1> SUFFICES ASSUME IInv, ViewClearsCache PROVE IInv'
    OBVIOUS
  <1>1. /\ UNCHANGED <<chainVars, db, disk, saving, starts, pc, names, head, tries, asked>>
        /\ UNCHANGED <<todo, ctxProduced, first, uncounted, counted, misled>>
    BY DEF ViewClearsCache, historyVars, diskVars
  <1>2. cachedNone' \in BOOLEAN
    BY DEF ViewClearsCache
  <1>3. ThreadTypes' /\ Control' /\ Reached' = Reached
    BY <1>1, <1>2, SameConfig DEF IInv, Types, ThreadTypes, Control, Reached, chainVars
  <1> QED
    BY <1>1, <1>3, ControlStep

LEMMA ViewAsksStep == IInv /\ ViewAsks => IInv'
  <1> SUFFICES ASSUME IInv, ViewAsks PROVE IInv'
    OBVIOUS
  <1>1. /\ UNCHANGED <<chainVars, db, disk, saving, starts, pc, names, head, cachedNone>>
        /\ UNCHANGED <<tries, asked, todo, ctxProduced, first, uncounted, counted, misled>>
    BY DEF ViewAsks, historyVars, diskVars, blockVars
  <1>2. ThreadTypes' /\ Control' /\ Reached' = Reached
    BY <1>1, SameConfig DEF IInv, Types, ThreadTypes, Control, Reached, chainVars
  <1> QED
    BY <1>1, <1>2, ControlStep

LEMMA ViewStoresStep == IInv /\ ViewStores => IInv'
  <1> SUFFICES ASSUME IInv, ViewStores PROVE IInv'
    OBVIOUS
  <1>1. /\ UNCHANGED <<chainVars, db, disk, saving, starts, pc, names, head, cachedNone>>
        /\ UNCHANGED <<tries, asked, todo, ctxProduced, first, uncounted, counted, misled>>
    BY DEF ViewStores, historyVars, diskVars, blockVars
  <1>2. ThreadTypes' /\ Control' /\ Reached' = Reached
    BY <1>1, SameConfig DEF IInv, Types, ThreadTypes, Control, Reached, chainVars
  <1> QED
    BY <1>1, <1>2, ControlStep

LEMMA BeginIterationStep == IInv /\ BeginIteration => IInv'
  <1> SUFFICES ASSUME IInv, BeginIteration PROVE IInv'
    OBVIOUS
  <1>1. /\ UNCHANGED <<chainVars, db, disk, saving, starts, names, head, tries, asked, todo>>
        /\ UNCHANGED <<ctxProduced, first, uncounted, counted, misled>>
        /\ pc = "sleep" /\ pc' \in {"polled", "sleep"} /\ cachedNone' = FALSE
    BY DEF BeginIteration, historyVars, diskVars
  <1>2. cachedNone' \in BOOLEAN
    BY <1>1
  <1>3. ThreadTypes' /\ Control' /\ Reached' = Reached
    BY <1>1, <1>2, SameConfig DEF IInv, Types, ThreadTypes, Control, Reached, chainVars
  <1> QED
    BY <1>1, <1>3, ControlStep

LEMMA LookUpNamesStep == IInv /\ LookUpNames => IInv'
  <1> SUFFICES ASSUME IInv, LookUpNames PROVE IInv'
    OBVIOUS
  <1>1. /\ UNCHANGED <<chainVars, db, disk, saving, starts, head, cachedNone, tries, asked, todo>>
        /\ UNCHANGED <<ctxProduced, first, uncounted, counted, misled>>
        /\ pc = "polled" /\ pc' \in {"named", "sleep"} /\ names' \subseteq Witnesses
    BY DEF LookUpNames, historyVars, diskVars, blockVars
  <1>2. ThreadTypes' /\ Control' /\ Reached' = Reached
    BY <1>1, SameConfig DEF IInv, Types, ThreadTypes, Control, Reached, chainVars
  <1> QED
    BY <1>1, <1>2, ControlStep

LEMMA BeginSaveStep == IInv /\ BeginSave => IInv'
  <1> SUFFICES ASSUME IInv, BeginSave PROVE IInv'
    OBVIOUS
  <1>1. /\ UNCHANGED <<chainVars, db, disk, starts, pc, names, head, cachedNone, tries, asked>>
        /\ UNCHANGED <<todo, ctxProduced, first, uncounted, counted, misled>>
        /\ Full /\ starts < MaxStarts /\ saving' = db.last
    BY DEF BeginSave, historyVars, blockVars
  <1>2. ThreadTypes' /\ Control' /\ Reached' = Reached
    BY <1>1, SameConfig DEF IInv, Types, ThreadTypes, Control, Reached, chainVars
  <1> QED
    BY <1>1, <1>2, ControlStep
-----------------------------------------------------------------------------
LEMMA BlockTypes ==
  ASSUME IInv, NEW n \in 1..Len(chain), NEW w \in Witnesses
  PROVE  chain[n].missed[w] \in Nat /\ totalMissed[w] \in Nat /\ chain[n].missed[w] <= totalMissed[w]
  <1>1. chain \in Seq([by : Witnesses \cup {Other}, missed : [Witnesses -> 0..MaxMissed]])
    BY DEF IInv, Types, ChainTypes
  <1>2. chain[n] \in [by : Witnesses \cup {Other}, missed : [Witnesses -> 0..MaxMissed]]
    BY <1>1, ElementOfSeq
  <1>3. chain[n].missed \in [Witnesses -> 0..MaxMissed]
    BY <1>2
  <1>4. MaxMissed \in Nat /\ totalMissed \in [Witnesses -> 0..MaxMissed]
    BY Bounds DEF IInv, Types, ChainTypes
  <1> QED
    BY <1>3, <1>4 DEF IInv, ChainIsOrdered

LEMMA MissedBeforeTypes ==
  ASSUME IInv, starts = 0, NEW w \in Witnesses
  PROVE  /\ MissedBefore(w) \in Nat /\ totalMissed[w] \in Nat
         /\ MissedBefore(w) <= totalMissed[w]
  <1>1. totalMissed[w] \in Nat
    BY Bounds DEF IInv, Types, ChainTypes
  <1>2. CASE CountedOf(w) = {}
    BY <1>1, <1>2 DEF MissedBefore
  <1>3. CASE CountedOf(w) # {}
    <2>1. Max(CountedOf(w)) \in 1..Reached
      BY <1>3, LastCounted
    <2>2. Max(CountedOf(w)) \in 1..Len(chain)
      BY <2>1, ReachedTypes
    <2> QED
      BY <1>3, <2>2, BlockTypes DEF MissedBefore
  <1> QED
    BY <1>2, <1>3

(* What was counted stays so while the chain grows. *)
LEMMA CountsKept ==
  ASSUME IInv, starts = 0, NEW w \in Witnesses, UNCHANGED <<first, uncounted>>,
         Reached' = Reached, \A n \in 1..Reached : chain'[n] = chain[n]
  PROVE  CountedOf(w)' = CountedOf(w) /\ MissedBefore(w)' = MissedBefore(w)
  <1>1. \A n \in (first + 1)..Reached : chain'[n] = chain[n]
    BY ReachedTypes
  <1>2. CountedOf(w)' = CountedOf(w)
    BY <1>1 DEF CountedOf
  <1>3. CountedOf(w) # {} => chain'[Max(CountedOf(w))] = chain[Max(CountedOf(w))]
    BY LastCounted
  <1> QED
    BY <1>2, <1>3 DEF MissedBefore

(* The new block has the number of misses of its time. *)
LEMMA ProduceStep == IInv /\ Produce => IInv'
  <1> SUFFICES ASSUME IInv, Produce PROVE IInv'
    OBVIOUS
  <1> DEFINE Blocks == [by : Witnesses \cup {Other}, missed : [Witnesses -> 0..MaxMissed]]
  <1>1. /\ UNCHANGED <<config, totalMissed, db, disk, saving, starts, pc, names, head, cachedNone>>
        /\ UNCHANGED <<tries, asked, todo, ctxProduced, first, uncounted, counted, misled>>
        /\ Len(chain) < MaxHead
    BY DEF Produce, historyVars, diskVars, blockVars
  <1>2. PICK w \in Witnesses \cup {Other} :
          chain' = Append(chain, [by |-> w, missed |-> totalMissed])
    BY DEF Produce
  <1> DEFINE new == [by |-> w, missed |-> totalMissed]
  <1>3. chain \in Seq(Blocks) /\ totalMissed \in [Witnesses -> 0..MaxMissed] /\ MaxHead \in Nat
        /\ MaxMissed \in Nat
    BY Bounds DEF IInv, Types, ChainTypes
  <1>4. new \in Blocks /\ new.missed = totalMissed
    BY <1>3
  <1> HIDE DEF new, Blocks
  <1>5. /\ chain' \in Seq(Blocks) /\ Len(chain') = Len(chain) + 1 /\ Len(chain) \in Nat
        /\ \A n \in 1..Len(chain) : chain'[n] = chain[n]
        /\ chain'[Len(chain) + 1] = new
    <2>1. chain' = Append(chain, new)
      BY <1>2 DEF new
    <2> QED
      BY <1>3, <1>4, <2>1, AppendProperties, LenProperties
  <1>6. Reached' = Reached
    BY <1>1 DEF Reached
  <1>7. ChainTypes' /\ ChainIsOrdered'
    <2>1. Len(chain') <= MaxHead
      BY <1>1, <1>3, <1>5
    <2>2. ASSUME NEW n \in 1..Len(chain'), NEW v \in Witnesses
          PROVE  chain'[n].missed[v] <= totalMissed[v]
      <3>1. CASE n = Len(chain) + 1
        BY <1>3, <1>4, <1>5, <3>1
      <3>2. CASE n # Len(chain) + 1
        <4>1. n \in 1..Len(chain)
          BY <1>5, <3>2
        <4> QED
          BY <1>5, <4>1, BlockTypes
      <3> QED
        BY <3>1, <3>2
    <2>3. ChainIsOrdered'
      BY <1>1, <2>2, SameConfig DEF ChainIsOrdered
    <2> QED
      BY <1>1, <1>5, <2>1, <2>3, SameConfig DEF IInv, Types, ChainTypes, Blocks
  <1>8. DatabaseTypes' /\ ThreadTypes' /\ HistoryTypes'
    BY <1>1, SameConfig DEF IInv, Types, DatabaseTypes, ThreadTypes, HistoryTypes
  <1>9. db.last \in Nat /\ disk.db.last \in Nat /\ head \in Nat
    BY Fields DEF IInv, Types, DatabaseTypes, ThreadTypes
  <1>10. Control' /\ Files'
    BY <1>1, <1>5, <1>9, SameConfig DEF IInv, Control, Files
  <1>11. NoneSkipped' /\ Sizes'
    BY <1>1, <1>6, SameConfig DEF IInv, NoneSkipped, Sizes, Sized
  <1>12. FirstProcess'
    <2> SUFFICES ASSUME starts = 0 PROVE Tally' /\ Looked'
      BY <1>1 DEF FirstProcess
    <2>1. \A n \in 1..Reached : chain'[n] = chain[n]
      BY <1>5, ReachedTypes
    <2>2. \A v \in Witnesses : /\ CountedOf(v)' = CountedOf(v)
                               /\ MissedBefore(v)' = MissedBefore(v)
      BY <1>1, <1>6, <2>1, CountsKept
    <2> QED
      BY <1>1, <1>6, <2>2, SameConfig DEF IInv, FirstProcess, Tally, Looked
  <1> QED
    BY <1>7, <1>8, <1>10, <1>11, <1>12 DEF IInv, Types

LEMMA MissStep == IInv /\ Miss => IInv'
  <1> SUFFICES ASSUME IInv, Miss PROVE IInv'
    OBVIOUS
  <1>1. /\ UNCHANGED <<config, chain, db, disk, saving, starts, pc, names, head, cachedNone>>
        /\ UNCHANGED <<tries, asked, todo, ctxProduced, first, uncounted, counted, misled>>
    BY DEF Miss, historyVars, diskVars, blockVars
  <1>2. PICK w \in Witnesses : /\ totalMissed[w] < MaxMissed
                               /\ totalMissed' = [totalMissed EXCEPT ![w] = @ + 1]
    BY DEF Miss
  <1>3. totalMissed \in [Witnesses -> 0..MaxMissed] /\ MaxMissed \in Nat
    BY Bounds DEF IInv, Types, ChainTypes
  <1>4. /\ totalMissed' \in [Witnesses -> 0..MaxMissed]
        /\ \A v \in Witnesses : totalMissed[v] \in Nat /\ totalMissed'[v] \in Nat
                                /\ totalMissed[v] <= totalMissed'[v]
    BY <1>2, <1>3
  <1>5. Reached' = Reached
    BY <1>1 DEF Reached
  <1>6. ChainTypes' /\ DatabaseTypes' /\ ThreadTypes' /\ HistoryTypes'
    BY <1>1, <1>4, SameConfig
    DEF IInv, Types, ChainTypes, DatabaseTypes, ThreadTypes, HistoryTypes
  <1>7. ChainIsOrdered'
    <2>1. ASSUME NEW n \in 1..Len(chain), NEW v \in Witnesses
          PROVE  chain[n].missed[v] <= totalMissed'[v]
      BY <1>4, BlockTypes
    <2> QED
      BY <1>1, <2>1, SameConfig DEF ChainIsOrdered
  <1>8. Control' /\ Files' /\ NoneSkipped' /\ Sizes'
    <2>1. db \in Databases /\ disk.db \in Databases
      BY DEF IInv, Types, DatabaseTypes
    <2>2. ASSUME NEW d \in Databases, NEW v \in Witnesses, d.missed[v] <= totalMissed[v]
          PROVE  d.missed[v] <= totalMissed'[v]
      BY <1>4, <2>2, Numbers
    <2>3. Sized(db, Reached)' /\ Sized(disk.db, disk.db.last)'
      BY <1>1, <1>5, <2>1, <2>2, SameConfig DEF IInv, Sizes, Sized
    <2> QED
      BY <1>1, <1>5, <2>3, SameConfig DEF IInv, Control, Files, NoneSkipped, Sizes
  <1>9. FirstProcess'
    <2> SUFFICES ASSUME starts = 0 PROVE Tally' /\ Looked'
      BY <1>1 DEF FirstProcess
    <2>1. \A v \in Witnesses : /\ CountedOf(v)' = CountedOf(v)
                               /\ MissedBefore(v)' = MissedBefore(v)
      BY <1>1, <1>5, CountsKept
    <2>2. Tally'
      BY <1>1, <1>5, <2>1, SameConfig DEF IInv, FirstProcess, Tally
    <2>3. Looked'
      BY <1>1, <2>1, SameConfig DEF IInv, FirstProcess, Looked
    <2> QED
      BY <2>2, <2>3
  <1> QED
    BY <1>6, <1>7, <1>8, <1>9 DEF IInv, Types
-----------------------------------------------------------------------------
LEMMA Questioned ==
  ASSUME config \in Configs
  PROVE  /\ Info \in Questions /\ Witnesses \subseteq Questions /\ Info \notin Witnesses
         /\ Answer(Info) = Len(chain)
         /\ \A w \in Witnesses : Answer(w) = totalMissed[w]
  BY IndexingAssumption DEF Questions, Info, Answer, Witnesses

LEMMA AnswerTypes ==
  ASSUME ChainTypes, NEW q \in Questions
  PROVE  Answer(q) \in Nat
  <1>1. chain \in Seq([by : Witnesses \cup {Other}, missed : [Witnesses -> 0..MaxMissed]])
        /\ totalMissed \in [Witnesses -> 0..MaxMissed] /\ MaxMissed \in Nat
    BY Bounds DEF ChainTypes
  <1>2. Len(chain) \in Nat
    BY <1>1, LenProperties
  <1>3. CASE q = Info
    BY <1>2, <1>3 DEF Answer
  <1>4. CASE q # Info
    <2>1. q \in Witnesses
      BY <1>4 DEF Questions
    <2> QED
      BY <1>1, <1>4, <2>1 DEF Answer
  <1> QED
    BY <1>3, <1>4

(* What rpc_call() returns, from the cache or from the client. *)
LEMMA Asked ==
  ASSUME IInv, CInv, NEW q \in Questions
  PROVE  /\ Ask(q) \in Nat /\ Answer(q) \in Nat /\ Ask(q) <= Answer(q)
         /\ cached[q] \in Answers
         /\ chain # <<>> => Ask(Info) \in 1..Len(chain)
  <1>1. /\ cached \in [Questions -> Answers] /\ \A a \in Questions : cached[a] <= Answer(a)
        /\ cached[Info] # 0 /\ config \in Configs /\ ChainTypes
    BY DEF CInv, CacheTypes, NotAhead, HeadIsKnown, IInv, Types, ChainTypes
  <1>2. ASSUME NEW a \in Questions
        PROVE  /\ Ask(a) \in Nat /\ Answer(a) \in Nat /\ Ask(a) <= Answer(a)
               /\ cached[a] \in Answers
    <2>1. Answer(a) \in Nat /\ cached[a] \in Nat \cup {-1} /\ cached[a] <= Answer(a)
      BY <1>1, AnswerTypes DEF Answers, Nothing
    <2> QED
      BY <2>1 DEF Ask, Nothing, Answers
  <1>3. ASSUME chain # <<>> PROVE Ask(Info) \in 1..Len(chain)
    <2>1. Info \in Questions /\ Answer(Info) = Len(chain)
      BY <1>1, Questioned
    <2>2. chain \in Seq([by : Witnesses \cup {Other}, missed : [Witnesses -> 0..MaxMissed]])
      BY <1>1 DEF ChainTypes
    <2>3. Len(chain) \in Nat \ {0}
      BY <1>3, <2>2, EmptySeq, LenProperties
    <2>4. Ask(Info) # 0
      BY <1>1, <2>1, <2>3 DEF Ask
    <2> QED
      BY <1>2, <2>1, <2>3, <2>4
  <1> QED
    BY <1>2, <1>3

(* A new place in the chain to start from has nothing counted before it. *)
LEMMA BeginIndexingStep == IInv /\ CInv /\ BeginIndexing => IInv'
  <1> SUFFICES ASSUME IInv, CInv, BeginIndexing PROVE IInv'
    OBVIOUS
  <1>1. /\ UNCHANGED <<chainVars, disk, saving, starts, names, cachedNone, tries, asked, todo>>
        /\ UNCHANGED <<ctxProduced, uncounted, counted, misled>>
        /\ pc \in {"polled", "named"} /\ chain # <<>>
        /\ UNCHANGED <<config, chain, totalMissed>>
    BY DEF BeginIndexing, diskVars, blockVars, chainVars, CInv, HeadIsKnown
  <1>2. /\ chain \in Seq([by : Witnesses \cup {Other}, missed : [Witnesses -> 0..MaxMissed]])
        /\ Len(chain) <= MaxHead /\ MaxHead \in Nat /\ Len(chain) \in Nat
    BY Bounds, ReachedTypes DEF IInv, Types, ChainTypes
  <1>3. Ask(Info) \in 1..Len(chain)
    <2>1. Info \in Questions
      BY DEF Questions
    <2> QED
      BY <1>1, <2>1, Asked
  <1>4. CASE pc' = "sleep" /\ UNCHANGED <<head, db, first>>
    <2>1. ThreadTypes' /\ Control' /\ Reached' = Reached
      BY <1>1, <1>4, SameConfig DEF IInv, Types, ThreadTypes, Control, Reached
    <2> QED
      BY <1>1, <1>4, <2>1, ControlStep
  <1>5. CASE pc' = "index" /\ head' = Ask(Info) /\ UNCHANGED <<db, first>>
    <2>1. head' \in 0..MaxHead /\ head' <= Len(chain)
      BY <1>2, <1>3, <1>5
    <2>2. ThreadTypes' /\ Control' /\ Reached' = Reached
      BY <1>1, <1>5, <2>1, SameConfig DEF IInv, Types, ThreadTypes, Control, Reached
    <2> QED
      BY <1>1, <1>5, <2>2, ControlStep
  <1>6. CASE /\ pc' = "index" /\ head' = Ask(Info) /\ ~Full /\ db.last = 0
             /\ db' = [db EXCEPT !.last = head' - 1] /\ first' = head' - 1
    <2>1. db \in Databases /\ disk.db \in Databases /\ saving \in 0..MaxHead \cup {-1}
      BY DEF IInv, Types, DatabaseTypes
    <2>2. head' - 1 \in 0..MaxHead /\ head' \in 0..MaxHead /\ head' <= Len(chain)
          /\ head' - 1 <= Len(chain)
          /\ head' - 1 \in Nat
      BY <1>2, <1>3, <1>6
    <2>3. /\ db' \in Databases /\ db'.last = head' - 1 /\ db'.produced = db.produced
          /\ db'.missed = db.missed /\ db'.streak = db.streak
      BY <1>6, <2>1, <2>2 DEF Databases
    <2>4. Reached = 0 /\ Reached' = head' - 1 /\ first = 0
      BY <1>1, <1>6, <2>3 DEF Reached, IInv, Types, HistoryTypes, Files
    <2>5. ChainTypes' /\ ChainIsOrdered' /\ DatabaseTypes' /\ HistoryTypes' /\ ThreadTypes'
      BY <1>1, <1>6, <2>2, <2>3, SameConfig
      DEF IInv, Types, ChainTypes, ChainIsOrdered, DatabaseTypes, HistoryTypes, ThreadTypes
    <2>6. Control'
      BY <1>1, <1>6, <2>2, <2>3 DEF IInv, Control
    <2>7. Files'
      <3>1. saving = -1
        BY <1>2, <1>6, <2>1 DEF IInv, Files
      <3> QED
        BY <1>1, <1>6, <2>2, <2>3, <3>1, SameConfig DEF IInv, Files
    <2>8. NoneSkipped'
      BY <1>1, <1>6, <2>2, <2>4 DEF IInv, NoneSkipped
    <2>9. Sizes'
      <3>1. MaxHead * starts \in Nat
        BY <1>2, Multiples, Bounds DEF IInv, Types, DatabaseTypes, ChainTypes
      <3>2. \A w \in Witnesses : db.produced[w] + 1 <= head' - 1 + MaxHead * starts
        <4> TAKE w \in Witnesses
        <4> DEFINE before == MaxHead * starts
        <4>1. db.produced[w] + 1 <= 0 + before
          BY <2>4 DEF IInv, Sizes, Sized
        <4>2. db.produced[w] \in Int
          BY <2>1, Numbers
        <4>3. before \in Nat
          BY <3>1
        <4>4. head' - 1 \in Nat
          BY <2>2
        <4> HIDE DEF before
        <4>5. db.produced[w] + 1 <= head' - 1 + before
          BY <4>1, <4>2, <4>3, <4>4
        <4> QED
          BY <4>5 DEF before
      <3> QED
        BY <1>1, <2>3, <2>4, <3>2, SameConfig DEF IInv, Sizes, Sized
    <2>10. FirstProcess'
      <3> SUFFICES ASSUME starts = 0 PROVE Tally' /\ Looked'
        BY <1>1 DEF FirstProcess
      <3>1. (first + 1)..Reached = {} /\ (first' + 1)..Reached' = {}
        BY <1>6, <2>2, <2>4
      <3>2. \A w : CountedOf(w) = {} /\ CountedOf(w)' = {}
        BY <3>1 DEF CountedOf
      <3>3. \A w : MissedBefore(w) = 0 /\ MissedBefore(w)' = 0
        BY <3>2 DEF MissedBefore
      <3>4. uncounted' = {}
        BY <1>1, <2>4 DEF IInv, FirstProcess, Tally
      <3>5. Tally'
        BY <1>1, <2>3, <3>2, <3>4, SameConfig DEF IInv, FirstProcess, Tally
      <3>6. Looked'
        BY <1>1, <2>3, <3>3, SameConfig DEF IInv, FirstProcess, Looked
      <3> QED
        BY <3>5, <3>6
    <2> QED
      BY <2>5, <2>6, <2>7, <2>8, <2>9, <2>10 DEF IInv, Types
  <1> QED
    BY <1>4, <1>5, <1>6 DEF BeginIndexing

(* The block is counted once and for its own witness, or it is among the uncounted. *)
LEMMA GotStep ==
  ASSUME IInv, pc \in {"index", "retry"}, db.last < head, Got(db.last + 1),
         UNCHANGED <<chainVars, disk, saving, starts, names, head, todo, ctxProduced, first, misled>>
  PROVE  IInv'
  <1> DEFINE n == db.last + 1
             by(w) == Resolves(n, w)
  <1>1. /\ UNCHANGED <<config, chain, totalMissed>>
        /\ pc' = "advance" /\ tries' = 0 /\ asked' = 0 /\ cachedNone' = FALSE
    BY DEF Got, chainVars
  <1>2. db' = [db EXCEPT !.produced = [w \in Witnesses |-> IF by(w) THEN db.produced[w] + 1
                                                           ELSE db.produced[w]]]
    BY DEF Got
  <1>3. IF \E w \in Witnesses : by(w)
        THEN counted' = [counted EXCEPT ![n] = @ + 1] /\ uncounted' = uncounted
        ELSE uncounted' = uncounted \cup {n} /\ counted' = counted
    BY DEF Got
  <1>4. /\ db \in Databases /\ disk.db \in Databases /\ starts \in 0..MaxStarts
        /\ MaxHead \in Nat /\ MaxStarts \in Nat /\ head \in 0..MaxHead /\ first \in Nat
        /\ counted \in [1..MaxHead -> Nat] /\ uncounted \subseteq 1..MaxHead
        /\ Len(chain) \in Nat /\ head <= Len(chain) /\ Len(chain) <= MaxHead
    BY Bounds, ReachedTypes
    DEF IInv, Types, ChainTypes, DatabaseTypes, ThreadTypes, HistoryTypes, Control
  <1>5. /\ db.last \in 0..MaxHead /\ n \in 1..MaxHead /\ n \in 1..Len(chain) /\ n <= head
        /\ db.produced \in Counters
    BY <1>4, Fields
  <1>6. Reached = db.last /\ first <= db.last
    BY DEF Reached, IInv, Files
  <1>7. ASSUME NEW w \in Witnesses
        PROVE  /\ db.produced[w] \in -1..(MaxHead * (MaxStarts + 1))
               /\ db.produced[w] + 1 <= db.last + MaxHead * starts
               /\ MaxHead * starts \in Nat /\ MaxHead * (MaxStarts + 1) \in Nat
               /\ db.last + MaxHead * starts + 1 <= MaxHead * (MaxStarts + 1)
    <2>1. db.produced[w] \in -1..(MaxHead * (MaxStarts + 1))
      BY <1>5 DEF Counters
    <2>2. db.produced[w] + 1 <= db.last + MaxHead * starts
      BY <1>6 DEF IInv, Sizes, Sized
    <2>3. /\ starts \in Nat /\ MaxHead * starts \in Nat /\ MaxHead * (starts + 1) = MaxHead * starts + MaxHead
          /\ MaxHead * (starts + 1) <= MaxHead * (MaxStarts + 1)
          /\ MaxHead * (MaxStarts + 1) \in Nat
      BY <1>4, Multiples
    <2>4. db.last + 1 <= MaxHead /\ db.last \in Nat
      BY <1>4, <1>5
    <2> DEFINE before == MaxHead * starts
               next == MaxHead * (starts + 1)
               all == MaxHead * (MaxStarts + 1)
    <2>5. before \in Nat /\ next = before + MaxHead /\ next <= all /\ all \in Nat
      BY <2>3
    <2> HIDE DEF before, next, all
    <2>6. db.last + before + 1 <= all
      BY <1>4, <2>4, <2>5
    <2> QED
      BY <2>1, <2>2, <2>5, <2>6 DEF before, all
  <1> HIDE DEF by, n
  <1>8. /\ db'.last = db.last /\ db'.missed = db.missed /\ db'.streak = db.streak
        /\ db'.produced = [w \in Witnesses |-> IF by(w) THEN db.produced[w] + 1
                                               ELSE db.produced[w]]
        /\ db' = [last |-> db.last, produced |-> db'.produced, missed |-> db.missed,
                  streak |-> db.streak]
    BY <1>2, <1>4 DEF Databases
  <1>9. ASSUME NEW w \in Witnesses
        PROVE  /\ db'.produced[w] \in -1..(MaxHead * (MaxStarts + 1))
               /\ db'.produced[w] + 1 <= n + MaxHead * starts
               /\ db.produced[w] <= db'.produced[w] /\ db.produced[w] \in Int
    <2>1. n = db.last + 1 /\ db.last \in Int
      BY <1>5 DEF n
    <2>2. db'.produced[w] = IF by(w) THEN db.produced[w] + 1 ELSE db.produced[w]
      BY <1>8
    <2> QED
      BY <1>7, <2>1, <2>2
  <1>10. db'.produced \in Counters /\ db' \in Databases
    <2>1. db'.produced \in Counters
      BY <1>8, <1>9 DEF Counters
    <2> QED
      BY <1>4, <1>8, <2>1 DEF Databases
  <1>11. /\ uncounted' \subseteq 1..MaxHead /\ counted' \in [1..MaxHead -> Nat]
         /\ uncounted \subseteq uncounted' /\ \A k \in 1..MaxHead : counted[k] <= counted'[k]
         /\ n \in uncounted' \/ counted'[n] > 0
    <2>1. counted[n] \in Nat
      BY <1>4, <1>5
    <2>2. CASE \E w \in Witnesses : by(w)
      <3>1. counted' = [counted EXCEPT ![n] = counted[n] + 1] /\ uncounted' = uncounted
        BY <1>3, <2>2
      <3> QED
        BY <1>4, <1>5, <2>1, <3>1
    <2>3. CASE ~\E w \in Witnesses : by(w)
      <3>1. counted' = counted /\ uncounted' = uncounted \cup {n}
        BY <1>3, <2>3
      <3> QED
        BY <1>4, <1>5, <3>1
    <2> QED
      BY <2>2, <2>3
  <1>12. Reached' = n /\ n = Reached + 1
    BY <1>1, <1>6, <1>8 DEF Reached, n
  <1>13. ChainTypes' /\ DatabaseTypes' /\ ThreadTypes' /\ HistoryTypes'
    <2>1. ChainTypes' /\ DatabaseTypes' /\ HistoryTypes'
      BY <1>1, <1>10, <1>11, SameConfig
      DEF IInv, Types, ChainTypes, DatabaseTypes, HistoryTypes
    <2>2. cachedNone' \in BOOLEAN
      BY <1>1
    <2> QED
      BY <1>1, <2>1, <2>2, SameConfig DEF IInv, Types, ThreadTypes
  <1>14. ChainIsOrdered' /\ Control' /\ Files'
    BY <1>1, <1>8, SameConfig DEF IInv, ChainIsOrdered, Control, Files
  <1>15. NoneSkipped'
    <2>1. ASSUME NEW k \in (first + 1)..n PROVE k \in uncounted' \/ counted'[k] > 0
      <3>1. CASE k = n
        BY <1>11, <3>1
      <3>2. CASE k # n
        <4>1. k \in (first + 1)..Reached /\ k \in 1..MaxHead
          BY <1>4, <1>5, <1>6, <1>12, <3>2
        <4>2. k \in uncounted \/ counted[k] > 0
          BY <4>1 DEF IInv, NoneSkipped
        <4> QED
          BY <1>4, <1>11, <4>1, <4>2
      <3> QED
        BY <3>1, <3>2
    <2> QED
      BY <1>12, <2>1 DEF IInv, NoneSkipped
  <1>16. Sizes'
    <2>1. ASSUME NEW w \in Witnesses PROVE db.streak[w] <= db'.produced[w] + 1
      <3>1. db.streak[w] \in Int /\ db.streak[w] <= db.produced[w] + 1
        BY <1>4, Fields, Bounds, Multiples
        DEF Streaks, IInv, Types, ChainTypes, Sizes, Sized
      <3> QED
        BY <1>9, <3>1
    <2>2. Sized(db, Reached)' /\ Sized(disk.db, disk.db.last)'
      BY <1>1, <1>8, <1>9, <1>12, <2>1, SameConfig DEF IInv, Sizes, Sized
    <2> QED
      BY <1>1, <1>8, <2>2, SameConfig DEF IInv, Sizes
  <1>17. FirstProcess'
    <2> SUFFICES ASSUME starts = 0 PROVE Tally' /\ Looked'
      BY <1>1 DEF FirstProcess
    <2>1. n \notin uncounted /\ \A w : n \notin CountedOf(w)
      BY <1>5, <1>6, <1>12, ReachedTypes DEF IInv, FirstProcess, Tally, CountedOf
    <2>2. (first + 1)..n = ((first + 1)..Reached) \cup {n}
      BY <1>4, <1>5, <1>6, <1>12
    <2>3. ASSUME NEW w \in Witnesses
          PROVE  CountedOf(w)' = IF by(w) THEN CountedOf(w) \cup {n} ELSE CountedOf(w)
      <3>1. CASE by(w)
        <4>1. chain[n].by = w /\ uncounted' = uncounted
          BY <1>3, <3>1 DEF by, Resolves
        <4> QED
          BY <1>1, <1>12, <2>1, <2>2, <3>1, <4>1 DEF CountedOf
      <3>2. CASE ~by(w)
        <4>1. chain[n].by = w => uncounted' = uncounted \cup {n}
          BY <1>3, <3>2 DEF by, Resolves
        <4>2. uncounted' = uncounted \/ uncounted' = uncounted \cup {n}
          BY <1>3
        <4> QED
          BY <1>1, <1>12, <2>1, <2>2, <3>2, <4>1, <4>2 DEF CountedOf
      <3> QED
        BY <3>1, <3>2
    <2>4. ASSUME NEW w \in Witnesses
          PROVE  /\ db'.produced[w] + 1 = Cardinality(CountedOf(w)')
                 /\ CountedOf(w)' # {} =>
                      \E m \in CountedOf(w)' : \A k \in CountedOf(w)' : k <= m
      <3>1. CountedOf(w) \subseteq 1..Reached /\ Reached \in Nat
        <4>1. CountedOf(w) \subseteq 1..Reached
          BY LastCounted
        <4>2. Reached \in Nat
          BY ReachedTypes
        <4> QED
          BY <4>1, <4>2
      <3>2. IsFiniteSet(CountedOf(w)) /\ Cardinality(CountedOf(w)) \in Nat
        <4>1. IsFiniteSet(1..Reached)
          BY <3>1, FS_Interval
        <4>2. IsFiniteSet(CountedOf(w))
          BY <3>1, <4>1, FS_Subset
        <4> QED
          BY <4>2, FS_CardinalityType
      <3>3. db.produced[w] + 1 = Cardinality(CountedOf(w)) /\ db.produced[w] \in Int
        BY <1>9 DEF IInv, FirstProcess, Tally
      <3>4. CASE by(w)
        <4>1. CountedOf(w)' = CountedOf(w) \cup {n}
          BY <2>3, <3>4
        <4>2. Cardinality(CountedOf(w)') = Cardinality(CountedOf(w)) + 1
          BY <2>1, <3>2, <4>1, FS_AddElement
        <4>3. db'.produced[w] = db.produced[w] + 1
          BY <1>8, <3>4
        <4>4. \A k \in CountedOf(w)' : k <= n
          BY <1>12, <3>1, <4>1
        <4> QED
          BY <3>2, <3>3, <4>1, <4>2, <4>3, <4>4
      <3>5. CASE ~by(w)
        BY <1>8, <2>3, <3>3, <3>5 DEF IInv, FirstProcess, Tally
      <3> QED
        BY <3>4, <3>5
    <2>5. uncounted' \subseteq 1..Reached'
      <3>1. uncounted \subseteq 1..Reached
        BY DEF IInv, FirstProcess, Tally
      <3>2. uncounted' \subseteq uncounted \cup {n}
        BY <1>3
      <3> QED
        BY <1>12, <3>1, <3>2, ReachedTypes
    <2>6. Tally'
      BY <1>1, <2>4, <2>5, SameConfig DEF Tally
    <2>7. Looked'
      <3> SUFFICES ASSUME NEW w \in Witnesses
                   PROVE  /\ db.missed[w] < 0 => db.streak[w] = 0 /\ ctxProduced[w] = 0
                          /\ db.missed[w] >= 0 => ctxProduced[w] <= db'.produced[w]
                          /\ db.missed[w] >= 0 /\ ctxProduced[w] = db'.produced[w]
                               /\ w \notin misled =>
                               /\ MissedBefore(w)' <= db.missed[w]
                               /\ -db.streak[w] <= db.missed[w] - MissedBefore(w)'
        BY <1>1, <1>8, SameConfig DEF Looked
      <3>1. ctxProduced[w] \in Int
        BY Multiples, <1>4 DEF IInv, Types, ThreadTypes, Counters
      <3>2. CASE by(w)
        <4>1. db'.produced[w] = db.produced[w] + 1
          BY <1>8, <3>2
        <4> QED
          BY <1>9, <3>1, <4>1 DEF IInv, FirstProcess, Looked
      <3>3. CASE ~by(w)
        <4>1. CountedOf(w)' = CountedOf(w) /\ db'.produced[w] = db.produced[w]
          BY <1>8, <2>3, <3>3
        <4>2. MissedBefore(w)' = MissedBefore(w)
          BY <1>1, <4>1 DEF MissedBefore
        <4> QED
          BY <4>1, <4>2 DEF IInv, FirstProcess, Looked
      <3> QED
        BY <3>2, <3>3
    <2> QED
      BY <2>6, <2>7
  <1> QED
    BY <1>13, <1>14, <1>15, <1>16, <1>17 DEF IInv, Types

LEMMA GetBlockStep == IInv /\ GetBlock => IInv'
  <1> SUFFICES ASSUME IInv, GetBlock PROVE IInv'
    OBVIOUS
  <1>1. /\ UNCHANGED <<chainVars, disk, saving, starts, names, head, todo, ctxProduced, first, misled>>
        /\ pc = "index" /\ db.last < head
    BY DEF GetBlock, diskVars
  <1>2. CASE Got(db.last + 1)
    BY <1>1, <1>2, GotStep
  <1>3. CASE GotNone /\ tries' = 0 /\ asked' = 1
    <2>1. /\ UNCHANGED <<db, counted, uncounted>> /\ pc' = "retry" /\ cachedNone' = TRUE
          /\ tries' = 0 /\ asked' = 1
      BY <1>3 DEF GotNone
    <2>2. cachedNone' \in BOOLEAN
      BY <2>1
    <2>3. ThreadTypes' /\ Control' /\ Reached' = Reached
      BY <1>1, <2>1, <2>2, SameConfig
      DEF IInv, Types, ThreadTypes, Control, Reached, chainVars
    <2> QED
      BY <1>1, <2>1, <2>3, ControlStep
  <1>4. CASE pc' = "sleep" /\ UNCHANGED <<db, counted, uncounted, blockVars>>
    <2>1. ThreadTypes' /\ Control' /\ Reached' = Reached
      BY <1>1, <1>4, SameConfig
      DEF IInv, Types, ThreadTypes, Control, Reached, chainVars, blockVars
    <2> QED
      BY <1>1, <1>4, <2>1, ControlStep
  <1> QED
    BY <1>2, <1>3, <1>4 DEF GetBlock

LEMMA RetryStep == IInv /\ Retry => IInv'
  <1> SUFFICES ASSUME IInv, Retry PROVE IInv'
    OBVIOUS
  <1>1. /\ UNCHANGED <<chainVars, disk, saving, starts, names, head, todo, ctxProduced, first, misled>>
        /\ pc = "retry" /\ tries < 3 /\ db.last < head
    BY DEF Retry, diskVars, IInv, Control
  <1>2. CASE Got(db.last + 1)
    BY <1>1, <1>2, GotStep
  <1>3. CASE GotNone /\ tries' = tries + 1 /\ asked' = IF cachedNone THEN asked ELSE asked + 1
    <2>1. /\ UNCHANGED <<db, counted, uncounted>> /\ pc' = "retry" /\ cachedNone' = TRUE
          /\ tries' = tries + 1 /\ asked' \in {asked, asked + 1}
      BY <1>3 DEF GotNone
    <2>2. cachedNone' \in BOOLEAN
      BY <2>1
    <2>3. tries' \in 0..3 /\ asked' \in 0..4 /\ asked' <= tries' + 1
      BY <1>1, <2>1 DEF IInv, Types, ThreadTypes, Control
    <2>4. ThreadTypes' /\ Control' /\ Reached' = Reached
      BY <1>1, <2>1, <2>2, <2>3, SameConfig
      DEF IInv, Types, ThreadTypes, Control, Reached, chainVars
    <2> QED
      BY <1>1, <2>1, <2>4, ControlStep
  <1>4. CASE pc' = "sleep" /\ UNCHANGED <<db, counted, uncounted, blockVars>>
    <2>1. ThreadTypes' /\ Control' /\ Reached' = Reached
      BY <1>1, <1>4, SameConfig
      DEF IInv, Types, ThreadTypes, Control, Reached, chainVars, blockVars
    <2> QED
      BY <1>1, <1>4, <2>1, ControlStep
  <1> QED
    BY <1>2, <1>3, <1>4 DEF Retry

(* A block that is given up is dealt with, and not counted. *)
LEMMA GiveUpStep == IInv /\ GiveUp => IInv'
  <1> SUFFICES ASSUME IInv, GiveUp PROVE IInv'
    OBVIOUS
  <1> DEFINE n == db.last + 1
  <1>1. /\ UNCHANGED <<chainVars, db, disk, saving, starts, names, head, cachedNone, tries, asked>>
        /\ UNCHANGED <<todo, ctxProduced, first, counted, misled>>
        /\ UNCHANGED <<config, chain, totalMissed>>
        /\ pc = "retry" /\ db.last < head
    BY DEF GiveUp, historyVars, diskVars, blockVars, chainVars, IInv, Control
  <1>2. CASE pc' = "sleep" /\ UNCHANGED uncounted
    <2>1. ThreadTypes' /\ Control' /\ Reached' = Reached
      BY <1>1, <1>2, SameConfig DEF IInv, Types, ThreadTypes, Control, Reached
    <2> QED
      BY <1>1, <1>2, <2>1, ControlStep
  <1>3. CASE pc' = "advance" /\ uncounted' = uncounted \cup {n}
    <2>1. /\ db \in Databases /\ MaxHead \in Nat /\ head \in 0..MaxHead /\ first \in Nat
          /\ uncounted \subseteq 1..MaxHead /\ starts \in 0..MaxStarts /\ MaxStarts \in Nat
      BY Bounds, ReachedTypes
      DEF IInv, Types, ChainTypes, DatabaseTypes, ThreadTypes, HistoryTypes
    <2>2. db.last \in 0..MaxHead /\ n \in 1..MaxHead
      BY <1>1, <2>1, Fields
    <2>3. Reached = db.last /\ first <= db.last /\ Reached' = n /\ n = Reached + 1
      BY <1>1, <1>3 DEF Reached, IInv, Files
    <2> HIDE DEF n
    <2>4. ChainTypes' /\ DatabaseTypes' /\ ThreadTypes' /\ HistoryTypes'
      BY <1>1, <1>3, <2>1, <2>2, SameConfig
      DEF IInv, Types, ChainTypes, DatabaseTypes, ThreadTypes, HistoryTypes
    <2>5. ChainIsOrdered' /\ Control' /\ Files'
      BY <1>1, <1>3, SameConfig DEF IInv, ChainIsOrdered, Control, Files
    <2>6. NoneSkipped'
      <3>1. ASSUME NEW k \in (first + 1)..n PROVE k \in uncounted' \/ counted[k] > 0
        <4>1. CASE k = n
          BY <1>3, <4>1
        <4>2. CASE k # n
          <5>1. k \in (first + 1)..Reached
            BY <2>1, <2>2, <2>3, <4>2
          <5> QED
            BY <1>3, <5>1 DEF IInv, NoneSkipped
        <4> QED
          BY <4>1, <4>2
      <3> QED
        BY <1>1, <2>3, <3>1 DEF IInv, NoneSkipped
    <2>7. Sizes'
      <3>1. ASSUME NEW w \in Witnesses PROVE db.produced[w] + 1 <= n + MaxHead * starts
        <4> DEFINE before == MaxHead * starts
        <4>1. before \in Nat /\ db.produced[w] \in Int
          BY <2>1, Multiples, Numbers
        <4>2. db.produced[w] + 1 <= Reached + before
          BY DEF IInv, Sizes, Sized
        <4> HIDE DEF before
        <4>3. db.produced[w] + 1 <= n + before
          BY <2>2, <2>3, <4>1, <4>2
        <4> QED
          BY <4>3 DEF before
      <3> QED
        BY <1>1, <2>3, <3>1, SameConfig DEF IInv, Sizes, Sized
    <2>8. FirstProcess'
      <3> SUFFICES ASSUME starts = 0 PROVE Tally' /\ Looked'
        BY <1>1 DEF FirstProcess
      <3>1. (first + 1)..n = ((first + 1)..Reached) \cup {n}
        BY <2>1, <2>2, <2>3
      <3>2. \A k \in (first + 1)..Reached : k # n
        BY <2>2, <2>3
      <3>3. \A w : CountedOf(w)' = CountedOf(w)
        BY <1>1, <1>3, <2>3, <3>1, <3>2 DEF CountedOf
      <3>4. \A w : MissedBefore(w)' = MissedBefore(w)
        BY <1>1, <3>3 DEF MissedBefore
      <3>5. uncounted' \subseteq 1..n
        <4>1. uncounted \subseteq 1..Reached
          BY DEF IInv, FirstProcess, Tally
        <4>2. 1..n = (1..Reached) \cup {n}
          BY <2>1, <2>2, <2>3
        <4> QED
          BY <1>3, <4>1, <4>2
      <3>6. Tally'
        BY <1>1, <2>3, <3>3, <3>5, SameConfig DEF IInv, FirstProcess, Tally
      <3>7. Looked'
        BY <1>1, <3>4, SameConfig DEF IInv, FirstProcess, Looked
      <3> QED
        BY <3>6, <3>7
    <2> QED
      BY <2>4, <2>5, <2>6, <2>7, <2>8 DEF IInv, Types
  <1> QED
    BY <1>2, <1>3 DEF GiveUp

LEMMA AdvanceStep == IInv /\ Advance => IInv'
  <1> SUFFICES ASSUME IInv, Advance PROVE IInv'
    OBVIOUS
  <1>1. /\ UNCHANGED <<config, chain, totalMissed, disk, saving, starts, names, head, todo>>
        /\ UNCHANGED <<ctxProduced, first, uncounted, counted, misled>>
        /\ pc = "advance" /\ pc' = "index" /\ tries' = 0 /\ asked' = 0 /\ cachedNone' = FALSE
        /\ db' = [db EXCEPT !.last = db.last + 1]
    BY DEF Advance, historyVars, diskVars, chainVars
  <1>2. /\ db \in Databases /\ MaxHead \in Nat /\ head \in 0..MaxHead
        /\ head <= Len(chain) /\ db.last < head /\ Len(chain) \in Nat
    BY <1>1, Bounds, ReachedTypes
    DEF IInv, Types, ChainTypes, DatabaseTypes, ThreadTypes, Control
  <1>3. db.last \in 0..MaxHead /\ db.last + 1 \in 0..MaxHead /\ db.last + 1 <= Len(chain)
    BY <1>2, Fields
  <1>4. /\ db' \in Databases /\ db'.last = db.last + 1 /\ db'.produced = db.produced
        /\ db'.missed = db.missed /\ db'.streak = db.streak
    BY <1>1, <1>2, <1>3 DEF Databases
  <1>5. Reached' = Reached
    BY <1>1, <1>4 DEF Reached
  <1>6. ChainTypes' /\ DatabaseTypes' /\ HistoryTypes'
    BY <1>1, <1>4, SameConfig DEF IInv, Types, ChainTypes, DatabaseTypes, HistoryTypes
  <1>7. cachedNone' \in BOOLEAN
    BY <1>1
  <1>8. ThreadTypes'
    BY <1>1, <1>7, SameConfig DEF IInv, Types, ThreadTypes
  <1>9. ChainIsOrdered' /\ Control'
    BY <1>1, <1>2, <1>3, <1>4, SameConfig DEF IInv, ChainIsOrdered, Control
  <1>10. Files'
    <2>1. first \in Nat /\ saving \in Int
      BY ReachedTypes DEF IInv, Types, DatabaseTypes
    <2>2. first <= db'.last /\ saving <= db'.last
      BY <1>3, <1>4, <2>1 DEF IInv, Files
    <2> QED
      BY <1>1, <2>2, SameConfig DEF IInv, Files
  <1>11. NoneSkipped' /\ Sizes'
    BY <1>1, <1>4, <1>5, SameConfig DEF IInv, NoneSkipped, Sizes, Sized
  <1>12. FirstProcess'
    <2>1. \A w : CountedOf(w)' = CountedOf(w)
      BY <1>1, <1>5 DEF CountedOf
    <2>2. \A w : MissedBefore(w)' = MissedBefore(w)
      BY <1>1, <2>1 DEF MissedBefore
    <2> QED
      BY <1>1, <1>4, <1>5, <2>1, <2>2, SameConfig DEF IInv, FirstProcess, Tally, Looked
  <1> QED
    BY <1>6, <1>8, <1>9, <1>10, <1>11, <1>12 DEF IInv, Types
-----------------------------------------------------------------------------
LEMMA Extremes ==
  ASSUME NEW a \in Int
  PROVE  /\ Min({a, 0}) = IF a < 0 THEN a ELSE 0
         /\ Max({a, 0}) = IF a < 0 THEN 0 ELSE a
  <1>1. /\ \E x \in {a, 0} : \A y \in {a, 0} : x <= y
        /\ \E x \in {a, 0} : \A y \in {a, 0} : x >= y
    BY SMT
  <1>2. /\ Min({a, 0}) \in {a, 0} /\ \A y \in {a, 0} : Min({a, 0}) <= y
        /\ Max({a, 0}) \in {a, 0} /\ \A y \in {a, 0} : Max({a, 0}) >= y
    BY <1>1 DEF Min, Max
  <1> QED
    BY <1>2

(* The counts of all the processes together are within their bound. *)
LEMMA WithinBound ==
  ASSUME IInv
  PROVE  /\ MaxHead * starts \in Nat /\ MaxHead * (MaxStarts + 1) \in Nat
         /\ MaxHead * (starts + 1) = MaxHead * starts + MaxHead
         /\ Reached + MaxHead * starts <= MaxHead * (MaxStarts + 1)
  <1>1. /\ MaxHead \in Nat /\ starts \in Nat /\ MaxStarts \in Nat /\ starts <= MaxStarts
        /\ Reached \in Nat /\ Reached <= MaxHead
    BY Bounds, ReachedTypes DEF IInv, Types, ChainTypes, DatabaseTypes
  <1> DEFINE before == MaxHead * starts
             next == MaxHead * (starts + 1)
             all == MaxHead * (MaxStarts + 1)
  <1>2. before \in Nat /\ next = before + MaxHead /\ next <= all /\ all \in Nat
    BY <1>1, Multiples
  <1> HIDE DEF before, next, all
  <1>3. Reached + before <= all
    BY <1>1, <1>2
  <1> QED
    BY <1>2, <1>3 DEF before, next, all

(* The misses of a witness as the plugin asks for them. *)
LEMMA AskedMissed ==
  ASSUME IInv, CInv, NEW w \in Witnesses
  PROVE  Ask(w) \in Nat /\ totalMissed[w] \in Nat /\ Ask(w) <= totalMissed[w]
  <1>1. w \in Questions /\ Answer(w) = totalMissed[w]
    BY Questioned DEF IInv, Types, ChainTypes
  <1> QED
    BY <1>1, Asked

(* Outside of the step between them, last_indexed_block and total_produced agree. *)
LEMMA BlocksCounted ==
  ASSUME IInv, pc # "advance", NEW w
  PROVE  CountedOf(w) = BlocksOf(w) \ uncounted /\ MissedBefore(w) = MissedByLast(w)
  <1>1. CountedOf(w) = BlocksOf(w) \ uncounted
    BY DEF CountedOf, BlocksOf, Reached
  <1> QED
    BY <1>1 DEF MissedBefore, MissedByLast

(* The streak of a witness after the plugin looked at it. *)
LEMMA StreakStep ==
  ASSUME IInv, CInv, pc = "missed", NEW w \in Witnesses
  PROVE  /\ StreakAfter(w) \in Int /\ StreakAfter(w) <= db.produced[w] + 1
         /\ starts = 0 /\ ~IsOld(w) /\ (NewlyProduced(w) \/ w \notin misled) =>
              /\ MissedBefore(w) <= Ask(w)
              /\ -StreakAfter(w) <= Ask(w) - MissedBefore(w)
  <1>1. /\ db.produced[w] \in Int /\ db.missed[w] \in Int /\ db.streak[w] \in Int
        /\ Ask(w) \in Nat
    BY Numbers, AskedMissed DEF IInv, Types, DatabaseTypes
  <1>2. db.produced[w] >= -1 /\ ctxProduced[w] >= -1 /\ ctxProduced[w] \in Int
    BY Fields, WithinBound DEF IInv, Types, DatabaseTypes, ThreadTypes, Counters
  <1>3. db.streak[w] <= db.produced[w] + 1 /\ db.streak[w] <= ctxProduced[w] + 1
    BY DEF IInv, Sizes, Sized
  <1>4. /\ NewlyMissed(w) <=> db.missed[w] >= 0 /\ Ask(w) > db.missed[w]
        /\ NewlyProduced(w) <=> db.produced[w] > ctxProduced[w]
    BY <1>1 DEF NewlyMissed, NewlyProduced, Baseline
  <1>5. StreakAfterMiss(w) = IF NewlyMissed(w)
                             THEN IF db.streak[w] < 0 THEN db.streak[w] - 1 ELSE -1
                             ELSE db.streak[w]
    BY <1>1, Extremes DEF StreakAfterMiss
  <1>6. StreakAfterMiss(w) \in Int /\ StreakAfterMiss(w) <= db.produced[w] + 1
        /\ StreakAfterMiss(w) <= ctxProduced[w] + 1
    BY <1>1, <1>2, <1>3, <1>5
  <1>7. StreakAfter(w) = IF NewlyProduced(w)
                         THEN IF StreakAfterMiss(w) < 0 THEN 1 ELSE StreakAfterMiss(w) + 1
                         ELSE StreakAfterMiss(w)
    <2> DEFINE after == StreakAfterMiss(w)
    <2>1. after \in Int
      BY <1>6
    <2> HIDE DEF after
    <2>2. Max({after, 0}) = IF after < 0 THEN 0 ELSE after
      BY <2>1, Extremes
    <2> QED
      BY <2>1, <2>2 DEF StreakAfter, after
  <1>8. StreakAfter(w) \in Int /\ StreakAfter(w) <= db.produced[w] + 1
    BY <1>1, <1>2, <1>4, <1>6, <1>7
  <1>9. ASSUME starts = 0, ~IsOld(w), NewlyProduced(w) \/ w \notin misled
        PROVE  /\ MissedBefore(w) <= Ask(w)
               /\ -StreakAfter(w) <= Ask(w) - MissedBefore(w)
    <2>1. MissedBefore(w) \in Nat
      BY <1>9, MissedBeforeTypes
    <2>2. db.missed[w] <= Ask(w)
      BY <1>1, <1>9 DEF IsOld
    <2>3. MissedBefore(w) <= Ask(w)
      <3>1. CASE CountedOf(w) = {}
        BY <1>1, <3>1 DEF MissedBefore
      <3>2. CASE CountedOf(w) # {}
        <4> DEFINE m == Max(CountedOf(w))
        <4>1. m \in CountedOf(w) /\ m \in 1..Reached
          BY <1>9, <3>2, LastCounted
        <4>2. m \in BlocksOf(w) \ uncounted
          BY <4>1, BlocksCounted
        <4>3. m \in 1..Len(chain)
          BY <4>1, ReachedTypes
        <4> HIDE DEF m
        <4>4. ~(Ask(w) < chain[m].missed[w])
          BY <1>9, <4>2 DEF IsOld
        <4>5. chain[m].missed[w] \in Nat
          BY <4>3, BlockTypes
        <4>6. MissedBefore(w) = chain[m].missed[w]
          BY <3>2 DEF MissedBefore, m
        <4> QED
          BY <1>1, <4>4, <4>5, <4>6
      <3> QED
        BY <3>1, <3>2
    <2>4. /\ db.missed[w] < 0 => db.streak[w] = 0
          /\ db.missed[w] >= 0 => ctxProduced[w] <= db.produced[w]
          /\ db.missed[w] >= 0 /\ ctxProduced[w] = db.produced[w] /\ w \notin misled =>
               /\ MissedBefore(w) <= db.missed[w]
               /\ -db.streak[w] <= db.missed[w] - MissedBefore(w)
      BY <1>9 DEF IInv, FirstProcess, Looked
    <2>5. CASE NewlyProduced(w)
      BY <1>1, <1>6, <1>7, <2>1, <2>3, <2>5
    <2>6. CASE ~NewlyProduced(w)
      BY <1>1, <1>2, <1>4, <1>5, <1>7, <1>9, <2>1, <2>2, <2>3, <2>4, <2>6
    <2> QED
      BY <2>3, <2>5, <2>6
  <1> QED
    BY <1>8, <1>9

(* The misses seen and the streak stay those since the last block that was counted. *)
LEMMA MonitorMissedStep == IInv /\ CInv /\ MonitorMissed => IInv'
  <1> SUFFICES ASSUME IInv, CInv, MonitorMissed PROVE IInv'
    OBVIOUS
  <1>1. /\ UNCHANGED <<config, chain, totalMissed, disk, saving, starts, pc, names, head>>
        /\ UNCHANGED <<cachedNone, tries, asked, first, uncounted, counted>>
        /\ UNCHANGED chainVars /\ pc = "missed"
    BY DEF MonitorMissed, chainVars, diskVars, blockVars
  <1>2. PICK w \in todo :
          /\ todo' = todo \ {w}
          /\ \/ UNCHANGED <<db, ctxProduced, misled>>
             \/ /\ db' = [db EXCEPT !.missed[w] = Ask(w), !.streak[w] = StreakAfter(w)]
                /\ ctxProduced' = [ctxProduced EXCEPT ![w] = db.produced[w]]
                /\ misled' = (IF NewlyProduced(w) THEN misled \ {w} ELSE misled)
                                \cup {v \in {w} : IsOld(v)}
    BY DEF MonitorMissed
  <1>3. CASE UNCHANGED <<db, ctxProduced, misled>>
    <2>1. ThreadTypes' /\ Control' /\ Reached' = Reached
      BY <1>1, <1>2, <1>3, SameConfig DEF IInv, Types, ThreadTypes, Control, Reached
    <2> QED
      BY <1>1, <1>3, <2>1, ControlStep
  <1>4. CASE /\ db' = [db EXCEPT !.missed[w] = Ask(w), !.streak[w] = StreakAfter(w)]
             /\ ctxProduced' = [ctxProduced EXCEPT ![w] = db.produced[w]]
             /\ misled' = (IF NewlyProduced(w) THEN misled \ {w} ELSE misled)
                             \cup {v \in {w} : IsOld(v)}
    <2>1. /\ w \in Witnesses /\ todo' \subseteq Witnesses /\ db \in Databases
          /\ db.produced \in Counters /\ ctxProduced \in Counters
          /\ db.missed \in [Witnesses -> -1..MaxMissed] /\ db.streak \in Streaks
          /\ totalMissed \in [Witnesses -> 0..MaxMissed] /\ MaxMissed \in Nat
      BY <1>2, Fields, Bounds DEF IInv, Types, ChainTypes, ThreadTypes, DatabaseTypes
    <2>2. /\ db'.last = db.last /\ db'.produced = db.produced
          /\ db'.missed = [db.missed EXCEPT ![w] = Ask(w)]
          /\ db'.streak = [db.streak EXCEPT ![w] = StreakAfter(w)]
          /\ db' = [last |-> db.last, produced |-> db.produced, missed |-> db'.missed,
                    streak |-> db'.streak]
      BY <1>4, <2>1 DEF Databases
    <2>3. Ask(w) \in Nat /\ totalMissed[w] \in Nat /\ Ask(w) <= totalMissed[w]
      BY <2>1, AskedMissed
    <2>4. db'.missed \in [Witnesses -> -1..MaxMissed] /\ db'.streak \in Streaks
      <3>1. Ask(w) \in -1..MaxMissed
        BY <2>1, <2>3
      <3>2. StreakAfter(w) \in Int
        BY <1>1, <2>1, StreakStep
      <3> QED
        BY <2>1, <2>2, <3>1, <3>2 DEF Streaks
    <2>5. db' \in Databases
      BY <2>1, <2>2, <2>4, Fields DEF Databases
    <2>6. Reached' = Reached
      BY <1>1, <2>2 DEF Reached
    <2>7. ctxProduced' \in Counters /\ \A v \in Witnesses :
            ctxProduced'[v] = IF v = w THEN db.produced[w] ELSE ctxProduced[v]
      BY <1>4, <2>1 DEF Counters
    <2>8. ChainTypes' /\ DatabaseTypes' /\ ThreadTypes' /\ HistoryTypes'
      BY <1>1, <1>4, <2>1, <2>5, <2>7, SameConfig
      DEF IInv, Types, ChainTypes, DatabaseTypes, ThreadTypes, HistoryTypes
    <2>9. ChainIsOrdered' /\ Control' /\ Files' /\ NoneSkipped'
      BY <1>1, <2>2, <2>6, SameConfig DEF IInv, ChainIsOrdered, Control, Files, NoneSkipped
    <2>10. \A v \in Witnesses :
             /\ v = w => db'.missed[v] = Ask(v) /\ db'.streak[v] = StreakAfter(v)
             /\ v # w => db'.missed[v] = db.missed[v] /\ db'.streak[v] = db.streak[v]
      BY <2>1, <2>2 DEF Streaks
    <2>11. Sizes'
      <3>1. ASSUME NEW v \in Witnesses
            PROVE  /\ db'.streak[v] <= db.produced[v] + 1
                   /\ db'.streak[v] <= ctxProduced'[v] + 1
                   /\ db'.missed[v] <= totalMissed[v]
        <4>1. CASE v = w
          BY <1>1, <2>3, <2>7, <2>10, <4>1, StreakStep
        <4>2. CASE v # w
          BY <2>7, <2>10, <4>2 DEF IInv, Sizes, Sized
        <4> QED
          BY <4>1, <4>2
      <3> QED
        BY <1>1, <2>2, <2>6, <3>1, SameConfig DEF IInv, Sizes, Sized
    <2>12. FirstProcess'
      <3> SUFFICES ASSUME starts = 0 PROVE Tally' /\ Looked'
        BY <1>1 DEF FirstProcess
      <3>1. \A v \in Witnesses : /\ CountedOf(v)' = CountedOf(v)
                                 /\ MissedBefore(v)' = MissedBefore(v)
        BY <1>1, <2>6, CountsKept
      <3>2. Tally'
        BY <1>1, <2>2, <2>6, <3>1, SameConfig DEF IInv, FirstProcess, Tally
      <3>3. ASSUME NEW v \in Witnesses
            PROVE  /\ db'.missed[v] < 0 => db'.streak[v] = 0 /\ ctxProduced'[v] = 0
                   /\ db'.missed[v] >= 0 => ctxProduced'[v] <= db.produced[v]
                   /\ db'.missed[v] >= 0 /\ ctxProduced'[v] = db.produced[v]
                      /\ v \notin misled' =>
                        /\ MissedBefore(v) <= db'.missed[v]
                        /\ -db'.streak[v] <= db'.missed[v] - MissedBefore(v)
        <4>1. CASE v = w
          <5>1. db'.missed[v] = Ask(v) /\ Ask(v) \in Nat /\ db'.streak[v] = StreakAfter(v)
            BY <2>3, <2>10, <4>1
          <5>2. ctxProduced'[v] = db.produced[v] /\ db.produced[v] \in Int
            BY <2>1, <2>7, <4>1, Numbers
          <5>3. v \notin misled' => ~IsOld(v) /\ (NewlyProduced(v) \/ v \notin misled)
            BY <1>4, <4>1
          <5>4. v \notin misled' => /\ MissedBefore(v) <= Ask(v)
                                    /\ -StreakAfter(v) <= Ask(v) - MissedBefore(v)
            BY <1>1, <5>3, StreakStep
          <5> QED
            BY <5>1, <5>2, <5>4
        <4>2. CASE v # w
          <5>1. v \in misled' <=> v \in misled
            BY <1>4, <4>2
          <5> QED
            BY <2>7, <2>10, <4>2, <5>1 DEF IInv, FirstProcess, Looked
        <4> QED
          BY <4>1, <4>2
      <3>4. Looked'
        BY <1>1, <2>2, <3>1, <3>3, SameConfig DEF Looked
      <3> QED
        BY <3>2, <3>4
    <2> QED
      BY <2>8, <2>9, <2>11, <2>12 DEF IInv, Types
  <1> QED
    BY <1>2, <1>3, <1>4
-----------------------------------------------------------------------------
(* A new process finds a file whose counts go as far as its last indexed block. *)
LEMMA StartStep ==
  ASSUME IInv, StartWith(disk'), starts < MaxStarts,
         disk' \in [written : BOOLEAN, db : Databases, counted : [1..MaxHead -> Nat],
                    uncounted : SUBSET (1..MaxHead)],
         ~disk'.written => disk' = NoFile,
         disk'.db.last <= Len(chain),
         \A n \in 1..disk'.db.last : n \in disk'.uncounted \/ disk'.counted[n] > 0,
         \A w \in Witnesses :
           /\ disk'.db.produced[w] + 1 <= disk'.db.last + MaxHead * (starts + 1)
           /\ disk'.db.streak[w] <= disk'.db.produced[w] + 1
           /\ disk'.db.missed[w] <= totalMissed[w]
  PROVE  IInv'
  <1>1. /\ UNCHANGED <<config, chain, totalMissed>> /\ starts' = starts + 1 /\ saving' = -1
        /\ db' = disk'.db /\ counted' = disk'.counted /\ uncounted' = disk'.uncounted
        /\ pc' = "sleep" /\ names' = {} /\ head' = 0 /\ cachedNone' = FALSE /\ tries' = 0
        /\ asked' = 0 /\ todo' = {} /\ first' = 0 /\ misled' = {}
        /\ ctxProduced' = [w \in Witnesses |-> IF disk'.written THEN disk'.db.produced[w] ELSE 0]
    BY DEF StartWith, chainVars
  <1>2. /\ disk'.db \in Databases /\ MaxHead \in Nat /\ MaxStarts \in Nat
        /\ starts \in 0..MaxStarts /\ Len(chain) \in Nat
    BY Bounds, ReachedTypes DEF IInv, Types, ChainTypes, DatabaseTypes
  <1>3. disk'.db.last \in 0..MaxHead /\ disk'.db.produced \in Counters
    BY <1>2, Fields
  <1>4. Reached' = disk'.db.last
    BY <1>1 DEF Reached
  <1>5. ChainTypes' /\ DatabaseTypes' /\ HistoryTypes'
    <2>1. /\ disk'.counted \in [1..MaxHead -> Nat] /\ disk'.uncounted \subseteq 1..MaxHead
      OBVIOUS
    <2>2. starts + 1 \in 0..MaxStarts /\ 0 \in 0..MaxHead
      BY <1>2
    <2> QED
      BY <1>1, <1>2, <2>1, <2>2, SameConfig
      DEF IInv, Types, ChainTypes, DatabaseTypes, HistoryTypes
  <1>6. ThreadTypes'
    <2>1. cachedNone' \in BOOLEAN
      BY <1>1
    <2>2. 0 \in -1..(MaxHead * (MaxStarts + 1)) /\ 0 \in 0..MaxHead
      BY <1>2, WithinBound
    <2>3. ctxProduced' \in Counters
      BY <1>1, <1>3, <2>2 DEF Counters
    <2> QED
      BY <1>1, <2>1, <2>2, <2>3, SameConfig DEF ThreadTypes
  <1>7. ChainIsOrdered' /\ Control'
    BY <1>1, <1>2, SameConfig DEF IInv, ChainIsOrdered, Control
  <1>8. Files' /\ NoneSkipped'
    BY <1>1, <1>3, <1>4, SameConfig DEF Files, NoneSkipped
  <1>9. Sizes'
    <2>1. ASSUME NEW w \in Witnesses PROVE disk'.db.streak[w] <= ctxProduced'[w] + 1
      <3>1. CASE disk'.written
        BY <1>1, <3>1
      <3>2. CASE ~disk'.written
        <4>1. disk'.db.streak[w] = 0 /\ ctxProduced'[w] = 0
          BY <1>1, <3>2 DEF NoFile, EmptyDb
        <4> QED
          BY <4>1
      <3> QED
        BY <3>1, <3>2
    <2> QED
      BY <1>1, <1>4, <2>1, SameConfig DEF Sizes, Sized
  <1>10. FirstProcess'
    BY <1>1, <1>2 DEF FirstProcess
  <1> QED
    BY <1>5, <1>6, <1>7, <1>8, <1>9, <1>10 DEF IInv, Types

(* What save_db() read first is not ahead of the counts it wrote after. *)
LEMMA SaveAndRestartStep == IInv /\ SaveAndRestart => IInv'
  <1> SUFFICES ASSUME IInv, SaveAndRestart PROVE IInv'
    OBVIOUS
  <1>1. /\ saving >= 0 /\ StartWith(disk')
        /\ disk' = [written |-> TRUE, db |-> [db EXCEPT !.last = saving], counted |-> counted,
                    uncounted |-> uncounted]
    BY DEF SaveAndRestart
  <1>2. /\ db \in Databases /\ saving \in 0..MaxHead \cup {-1} /\ MaxHead \in Nat
        /\ counted \in [1..MaxHead -> Nat] /\ uncounted \subseteq 1..MaxHead
        /\ Reached \in Nat /\ Reached <= MaxHead /\ Len(chain) \in Nat
    BY Bounds, ReachedTypes DEF IInv, Types, ChainTypes, DatabaseTypes, HistoryTypes
  <1>3. /\ saving \in 0..MaxHead /\ saving <= db.last /\ db.last \in Nat /\ first = 0
        /\ starts < MaxStarts /\ db.last <= Len(chain)
    BY <1>1, <1>2, Fields DEF IInv, Files, Control
  <1> DEFINE saved == [db EXCEPT !.last = saving]
  <1>4. /\ saved \in Databases /\ saved.last = saving /\ saved.produced = db.produced
        /\ saved.missed = db.missed /\ saved.streak = db.streak
    BY <1>2, <1>3 DEF Databases
  <1> HIDE DEF saved
  <1>5. /\ disk' = [written |-> TRUE, db |-> saved, counted |-> counted, uncounted |-> uncounted]
        /\ disk'.written /\ disk'.db = saved /\ disk'.counted = counted
        /\ disk'.uncounted = uncounted
    BY <1>1 DEF saved
  <1>6. disk' \in [written : BOOLEAN, db : Databases, counted : [1..MaxHead -> Nat],
                   uncounted : SUBSET (1..MaxHead)]
    BY <1>2, <1>4, <1>5
  <1>7. \A n \in 1..saving : n \in uncounted \/ counted[n] > 0
    <2>1. saving <= Reached
      BY <1>3 DEF Reached
    <2>2. \A n \in 1..saving : n \in (first + 1)..Reached
      BY <1>2, <1>3, <2>1
    <2> QED
      BY <2>2 DEF IInv, NoneSkipped
  <1>8. ASSUME NEW w \in Witnesses
        PROVE  db.produced[w] + 1 <= saving + MaxHead * (starts + 1)
    <2> DEFINE before == MaxHead * starts
               next == MaxHead * (starts + 1)
    <2>1. before \in Nat /\ next = before + MaxHead /\ db.produced[w] \in Int
      BY <1>2, Numbers, WithinBound
    <2>2. db.produced[w] + 1 <= Reached + before
      BY DEF IInv, Sizes, Sized
    <2> HIDE DEF before, next
    <2>3. db.produced[w] + 1 <= saving + next
      BY <1>2, <1>3, <2>1, <2>2
    <2> QED
      BY <2>3 DEF next
  <1>9. \A w \in Witnesses : /\ db.streak[w] <= db.produced[w] + 1
                             /\ db.missed[w] <= totalMissed[w]
    BY DEF IInv, Sizes, Sized
  <1>10. saving <= Len(chain)
    BY <1>2, <1>3
  <1>11. \A n \in 1..disk'.db.last : n \in disk'.uncounted \/ disk'.counted[n] > 0
    BY <1>4, <1>5, <1>7
  <1>12. \A w \in Witnesses :
           /\ disk'.db.produced[w] + 1 <= disk'.db.last + MaxHead * (starts + 1)
           /\ disk'.db.streak[w] <= disk'.db.produced[w] + 1
           /\ disk'.db.missed[w] <= totalMissed[w]
    BY <1>4, <1>5, <1>8, <1>9
  <1>13. disk'.db.last <= Len(chain) /\ (~disk'.written => disk' = NoFile)
    BY <1>4, <1>5, <1>10
  <1> QED
    BY <1>1, <1>3, <1>6, <1>11, <1>12, <1>13, StartStep

(* The file of an earlier exit, or none. *)
LEMMA KillAndRestartStep == IInv /\ KillAndRestart => IInv'
  <1> SUFFICES ASSUME IInv, KillAndRestart PROVE IInv'
    OBVIOUS
  <1>1. starts < MaxStarts /\ disk' \in {NoFile, disk} /\ StartWith(disk')
    BY DEF KillAndRestart
  <1>2. /\ MaxHead \in Nat /\ Len(chain) \in Nat /\ config \in Configs
        /\ disk \in [written : BOOLEAN, db : Databases, counted : [1..MaxHead -> Nat],
                     uncounted : SUBSET (1..MaxHead)]
        /\ \A w \in Witnesses : totalMissed[w] \in Nat
    BY Bounds, ReachedTypes DEF IInv, Types, ChainTypes, DatabaseTypes
  <1>3. disk' \in [written : BOOLEAN, db : Databases, counted : [1..MaxHead -> Nat],
                   uncounted : SUBSET (1..MaxHead)]
    BY <1>1, <1>2, EmptyTypes
  <1>4. CASE disk' = NoFile
    <2>1. /\ disk'.db.last = 0
          /\ \A w \in Witnesses : /\ disk'.db.produced[w] = -1 /\ disk'.db.streak[w] = 0
                                  /\ disk'.db.missed[w] = -1
      BY <1>4 DEF NoFile, EmptyDb
    <2>2. MaxHead * (starts + 1) \in Nat
      BY <1>2, WithinBound
    <2>3. \A w \in Witnesses :
           /\ disk'.db.produced[w] + 1 <= disk'.db.last + MaxHead * (starts + 1)
           /\ disk'.db.streak[w] <= disk'.db.produced[w] + 1
           /\ disk'.db.missed[w] <= totalMissed[w]
      BY <1>2, <2>1, <2>2
    <2>4. /\ disk'.db.last <= Len(chain) /\ (~disk'.written => disk' = NoFile)
          /\ \A n \in 1..disk'.db.last : n \in disk'.uncounted \/ disk'.counted[n] > 0
      BY <1>2, <1>4, <2>1
    <2> QED
      BY <1>1, <1>3, <2>3, <2>4, StartStep
  <1>5. CASE disk' = disk
    <2>1. disk.db \in Databases
      BY <1>2
    <2>2. ASSUME NEW w \in Witnesses
          PROVE  disk.db.produced[w] + 1 <= disk.db.last + MaxHead * (starts + 1)
      <3> DEFINE before == MaxHead * starts
                 next == MaxHead * (starts + 1)
      <3>1. before \in Nat /\ next = before + MaxHead
        BY WithinBound
      <3>2. disk.db.produced[w] \in Int /\ disk.db.last \in Int
        BY <1>2, <2>1, Numbers, Fields
      <3>3. disk.db.produced[w] + 1 <= disk.db.last + before
        BY DEF IInv, Sizes, Sized
      <3> HIDE DEF before, next
      <3>4. disk.db.produced[w] + 1 <= disk.db.last + next
        BY <1>2, <3>1, <3>2, <3>3
      <3> QED
        BY <3>4 DEF next
    <2>3. \A w \in Witnesses :
           /\ disk'.db.produced[w] + 1 <= disk'.db.last + MaxHead * (starts + 1)
           /\ disk'.db.streak[w] <= disk'.db.produced[w] + 1
           /\ disk'.db.missed[w] <= totalMissed[w]
      BY <1>5, <2>2 DEF IInv, Sizes, Sized
    <2>4. /\ disk'.db.last <= Len(chain) /\ (~disk'.written => disk' = NoFile)
          /\ \A n \in 1..disk'.db.last : n \in disk'.uncounted \/ disk'.counted[n] > 0
      BY <1>5 DEF IInv, Files, NoneSkipped
    <2> QED
      BY <1>1, <1>3, <2>3, <2>4, StartStep
  <1> QED
    BY <1>1, <1>4, <1>5
-----------------------------------------------------------------------------
LEMMA NextIInv == IInv /\ CInv /\ [Next]_vars => IInv'
  <1> SUFFICES ASSUME IInv, CInv, [Next]_vars PROVE IInv'
    OBVIOUS
  <1>1. CASE UNCHANGED vars
    <2>1. /\ UNCHANGED <<chainVars, db, disk, saving, starts, pc, names, head, cachedNone>>
          /\ UNCHANGED <<tries, asked, todo, ctxProduced, first, uncounted, counted, misled>>
      BY <1>1 DEF vars, historyVars, chainVars, diskVars, blockVars
    <2>2. ThreadTypes' /\ Control' /\ Reached' = Reached
      BY <2>1, SameConfig DEF IInv, Types, ThreadTypes, Control, Reached, chainVars
    <2> QED
      BY <2>1, <2>2, ControlStep
  <1>2. CASE Next
    BY <1>2, ProduceStep, MissStep, BeginIterationStep, LookUpNamesStep, BeginIndexingStep,
       NotIndexedStep, GetBlockStep, RetryStep, GiveUpStep, AdvanceStep, IndexingDoneStep,
       MonitorMissedStep, EndIterationStep, ViewClearsCacheStep, ViewAsksStep, ViewStoresStep,
       BeginSaveStep, SaveAndRestartStep, KillAndRestartStep DEF Next
  <1> QED
    BY <1>1, <1>2
-----------------------------------------------------------------------------
LEMMA SameAnswers ==
  ASSUME UNCHANGED <<config, chain, totalMissed>>
  PROVE  /\ Questions' = Questions /\ MaxViews' = MaxViews /\ Witnesses' = Witnesses
         /\ \A q : Answer(q)' = Answer(q)
  BY DEF Questions, MaxViews, Witnesses, Answer

LEMMA Views ==
  ASSUME config \in Configs
  PROVE  MaxViews \in Nat
  BY IndexingAssumption DEF MaxViews

(* An empty cache agrees with any client. *)
LEMMA EmptyCache ==
  ASSUME ChainTypes
  PROVE  /\ [q \in Questions |-> Nothing] \in [Questions -> Answers]
         /\ NoView \in [of : Questions, answer : Answers]
         /\ \A q \in Questions : Nothing <= Answer(q)
         /\ NoView.answer <= Answer(NoView.of)
         /\ NoView.answer # 0 /\ Nothing # 0
  <1>1. Nothing \in Answers /\ Nothing # 0 /\ Nothing = -1
    BY DEF Answers, Nothing
  <1>2. NoView.of = Info /\ NoView.answer = Nothing /\ NoView = [of |-> Info, answer |-> Nothing]
    BY DEF NoView
  <1>3. Info \in Questions
    BY DEF Questions
  <1>4. \A q \in Questions : Nothing <= Answer(q)
    BY <1>1, AnswerTypes
  <1> QED
    BY <1>1, <1>2, <1>3, <1>4

LEMMA InitCInv == Init => CInv
  <1> SUFFICES ASSUME Init PROVE CInv
    OBVIOUS
  <1>1. /\ cached = [q \in Questions |-> Nothing] /\ view = NoView /\ viewCalls = 0
        /\ disturbed = FALSE /\ pc = "sleep" /\ config \in Configs
    BY DEF Init
  <1>2. ChainTypes
    BY InitIInv DEF IInv, Types
  <1>3. MaxViews \in Nat
    BY <1>1, Views
  <1>4. Info \in Questions
    BY DEF Questions
  <1>5. disturbed \in BOOLEAN
    BY <1>1
  <1>6. CacheTypes
    BY <1>1, <1>2, <1>3, <1>5, EmptyCache DEF CacheTypes
  <1>7. NotAhead
    BY <1>1, <1>2, EmptyCache DEF NotAhead
  <1>8. HeadIsKnown
    BY <1>1, <1>2, <1>4, EmptyCache DEF HeadIsKnown
  <1> QED
    BY <1>1, <1>6, <1>7, <1>8 DEF CInv

(* The answers, as sets and numbers. *)
LEMMA CacheNumbers ==
  ASSUME IInv, CInv
  PROVE  /\ cached \in [Questions -> Answers] /\ view \in [of : Questions, answer : Answers]
         /\ viewCalls \in 0..MaxViews /\ disturbed \in BOOLEAN /\ MaxViews \in Nat
         /\ Answers \subseteq Int /\ Nothing \in Answers /\ Info \in Questions
         /\ Witnesses \subseteq Questions /\ Info \notin Witnesses
         /\ ChainTypes /\ config \in Configs
         /\ chain \in Seq([by : Witnesses \cup {Other}, missed : [Witnesses -> 0..MaxMissed]])
         /\ Len(chain) \in Nat /\ (chain # <<>> => Len(chain) # 0)
         /\ Reached \in 0..Len(chain)
  <1>1. ChainTypes /\ config \in Configs
        /\ chain \in Seq([by : Witnesses \cup {Other}, missed : [Witnesses -> 0..MaxMissed]])
    BY DEF IInv, Types, ChainTypes
  <1>2. Len(chain) \in Nat /\ (chain # <<>> => Len(chain) # 0)
    BY <1>1, EmptySeq, LenProperties
  <1>3. Answers \subseteq Int /\ Nothing \in Answers
    BY DEF Answers, Nothing
  <1> QED
    BY <1>1, <1>2, <1>3, Views, Questioned, ReachedTypes DEF CInv, CacheTypes

(* A step that leaves the cache alone, and does not count a block behind the horizon. *)
LEMMA CacheStep ==
  ASSUME IInv, CInv, UNCHANGED <<config, chain, totalMissed, cached, view, viewCalls, disturbed>>,
         pc' \in {"polled", "named"} => pc \in {"polled", "named"},
         pc' # "sleep" =>
            /\ pc # "sleep" /\ db'.missed = db.missed
            /\ \A n \in 1..Len(chain) : n <= Reached' \/ n <= Horizon' => n <= Reached \/ n <= Horizon
  PROVE  CInv'
  <1>1. CacheTypes' /\ NotAhead'
    BY SameAnswers DEF CInv, CacheTypes, NotAhead
  <1>2. HeadIsKnown'
    BY DEF CInv, HeadIsKnown
  <1>3. ASSUME pc' # "sleep", ~disturbed PROVE Fresh'
    <2>1. Fresh
      BY <1>3 DEF CInv
    <2> QED
      BY <1>3, <2>1, SameAnswers DEF Fresh
  <1> QED
    BY <1>1, <1>2, <1>3 DEF CInv

(* A step after which the cache is known to be no longer of this iteration. *)
LEMMA DisturbedStep ==
  ASSUME CacheTypes', NotAhead', HeadIsKnown', disturbed' \/ pc' = "sleep"
  PROVE  CInv'
  BY DEF CInv

(* The answers of the client only grow. *)
LEMMA LaterAnswers ==
  ASSUME IInv, CInv, UNCHANGED <<config, cached, view, viewCalls, disturbed>>,
         Len(chain') \in Nat, Len(chain) <= Len(chain'),
         \A w \in Witnesses : totalMissed'[w] \in Nat /\ totalMissed[w] <= totalMissed'[w]
  PROVE  CacheTypes' /\ NotAhead' /\ Witnesses' = Witnesses
  <1> DEFINE Later(q) == IF q = Info THEN Len(chain') ELSE totalMissed'[q]
  <1>1. Questions' = Questions /\ MaxViews' = MaxViews /\ Witnesses' = Witnesses
    BY DEF Questions, MaxViews, Witnesses
  <1>2. CacheTypes'
    BY <1>1 DEF CInv, CacheTypes
  <1>3. ASSUME NEW q \in Questions, NEW a \in Answers, a <= Answer(q) PROVE a <= Later(q)
    <2>1. Answer(q) \in Nat /\ a \in Int
      BY CacheNumbers, AnswerTypes
    <2>2. CASE q = Info
      BY <1>3, <2>1, <2>2 DEF Answer
    <2>3. CASE q # Info
      <3>1. q \in Witnesses /\ totalMissed[q] = Answer(q)
        BY <2>3 DEF Questions, Answer
      <3> QED
        BY <1>3, <2>1, <2>3, <3>1
    <2> QED
      BY <2>2, <2>3
  <1> HIDE DEF Later
  <1>4. \A q \in Questions : cached[q] <= Later(q)
    BY <1>3, CacheNumbers DEF CInv, NotAhead
  <1>5. view.answer <= Later(view.of)
    <2>1. view.of \in Questions /\ view.answer \in Answers /\ view.answer <= Answer(view.of)
      BY CacheNumbers DEF CInv, NotAhead
    <2> QED
      BY <1>3, <2>1
  <1> QED
    BY <1>1, <1>2, <1>4, <1>5 DEF NotAhead, Answer, Later

LEMMA ProduceCache == IInv /\ CInv /\ Produce => CInv'
  <1> SUFFICES ASSUME IInv, CInv, Produce PROVE CInv'
    OBVIOUS
  <1>1. /\ UNCHANGED <<config, totalMissed, db, pc, head, cached, view, viewCalls, disturbed>>
        /\ \E w \in Witnesses \cup {Other} :
             chain' = Append(chain, [by |-> w, missed |-> totalMissed])
    BY DEF Produce, cacheVars, viewVars
  <1> DEFINE Blocks == [by : Witnesses \cup {Other}, missed : [Witnesses -> 0..MaxMissed]]
  <1>2. totalMissed \in [Witnesses -> 0..MaxMissed] /\ MaxMissed \in Nat
    BY Bounds, CacheNumbers DEF ChainTypes
  <1>3. PICK b \in Blocks : chain' = Append(chain, b)
    BY <1>1, <1>2
  <1>4. chain \in Seq(Blocks) /\ Len(chain) \in Nat
    BY CacheNumbers
  <1> HIDE DEF Blocks
  <1>5. /\ Len(chain') = Len(chain) + 1
        /\ \A n \in 1..Len(chain) : chain'[n] = chain[n]
    BY <1>3, <1>4, AppendProperties
  <1>6. CacheTypes' /\ NotAhead' /\ Witnesses' = Witnesses
    BY <1>1, <1>2, <1>4, <1>5, LaterAnswers
  <1>7. HeadIsKnown'
    <2>1. chain' # <<>>
      BY <1>3, <1>4, AppendProperties
    <2> QED
      BY <1>1, <2>1 DEF CInv, HeadIsKnown
  <1>8. ASSUME pc # "sleep", ~disturbed PROVE Fresh'
    <2>1. Fresh
      BY <1>8 DEF CInv
    <2>2. Reached' = Reached /\ Horizon' = Horizon
      BY <1>1 DEF Reached, Horizon
    <2>3. Reached \in 0..Len(chain) /\ Horizon \in Int /\ Horizon <= Len(chain)
      <3>1. cached[Info] \in Int /\ cached[Info] <= Len(chain)
        BY CacheNumbers DEF CInv, NotAhead, Answer
      <3>2. head \in Int /\ head <= Len(chain) /\ db.last <= Len(chain) /\ db.last \in Int
        BY Fields DEF IInv, Types, ThreadTypes, DatabaseTypes, Control
      <3> QED
        BY <3>1, <3>2, CacheNumbers DEF Horizon
    <2>4. ASSUME NEW n \in 1..Len(chain'), n <= Reached \/ n <= Horizon
          PROVE  n \in 1..Len(chain) /\ chain'[n] = chain[n]
      BY <1>4, <1>5, <2>3, <2>4
    <2> QED
      BY <1>1, <1>6, <2>1, <2>2, <2>4 DEF Fresh
  <1> QED
    BY <1>1, <1>6, <1>7, <1>8 DEF CInv

LEMMA MissCache == IInv /\ CInv /\ Miss => CInv'
  <1> SUFFICES ASSUME IInv, CInv, Miss PROVE CInv'
    OBVIOUS
  <1>1. /\ UNCHANGED <<config, chain, db, pc, head, cached, view, viewCalls, disturbed>>
        /\ \E w \in Witnesses : totalMissed' = [totalMissed EXCEPT ![w] = @ + 1]
    BY DEF Miss, cacheVars, viewVars
  <1>2. \A w \in Witnesses : totalMissed'[w] \in Nat /\ totalMissed[w] <= totalMissed'[w]
    <2>1. totalMissed \in [Witnesses -> 0..MaxMissed] /\ MaxMissed \in Nat
      BY Bounds, CacheNumbers DEF ChainTypes
    <2> QED
      BY <1>1, <2>1
  <1>3. CacheTypes' /\ NotAhead' /\ Witnesses' = Witnesses
    BY <1>1, <1>2, CacheNumbers, LaterAnswers
  <1>4. HeadIsKnown'
    BY <1>1 DEF CInv, HeadIsKnown
  <1>5. ASSUME pc # "sleep", ~disturbed PROVE Fresh'
    <2>1. Reached' = Reached /\ Horizon' = Horizon
      BY <1>1 DEF Reached, Horizon
    <2> QED
      BY <1>1, <1>3, <1>5, <2>1 DEF CInv, Fresh
  <1> QED
    BY <1>1, <1>3, <1>4, <1>5 DEF CInv

LEMMA BeginIterationCache == IInv /\ CInv /\ BeginIteration => CInv'
  <1> SUFFICES ASSUME IInv, CInv, BeginIteration PROVE CInv'
    OBVIOUS
  <1>1. /\ UNCHANGED <<config, chain, totalMissed, view, viewCalls>>
        /\ disturbed' = FALSE /\ pc = "sleep"
    BY DEF BeginIteration, chainVars, viewVars
  <1>2. disturbed' \in BOOLEAN
    BY <1>1
  <1>3. Answer(Info) = Len(chain)
    BY DEF Answer
  <1>4. CASE pc' = "sleep" /\ cached' = [q \in Questions |-> Nothing]
    <2>1. CacheTypes' /\ NotAhead' /\ HeadIsKnown'
      BY <1>1, <1>2, <1>4, CacheNumbers, EmptyCache, SameAnswers
      DEF CInv, CacheTypes, NotAhead, HeadIsKnown
    <2> QED
      BY <1>4, <2>1, DisturbedStep
  <1>5. CASE /\ pc' = "polled" /\ chain # <<>>
             /\ cached' = [q \in Questions |-> IF q = Info THEN Len(chain) ELSE Nothing]
    <2>1. cached' \in [Questions -> Answers]
      BY <1>5, CacheNumbers DEF Answers
    <2>2. /\ cached'[Info] = Len(chain) /\ Len(chain) \in Nat \ {0}
          /\ \A w \in Witnesses : cached'[w] = Nothing
      BY <1>5, CacheNumbers
    <2>3. \A q \in Questions : cached'[q] <= Answer(q)
      BY <1>3, <1>5, CacheNumbers, EmptyCache
    <2>4. CacheTypes' /\ NotAhead' /\ HeadIsKnown'
      BY <1>1, <1>2, <1>5, <2>1, <2>2, <2>3, SameAnswers
      DEF CInv, CacheTypes, NotAhead, HeadIsKnown
    <2>5. cached'[Info] # Nothing
      BY <2>2 DEF Nothing
    <2>6. Fresh'
      BY <1>1, <2>2, <2>5, SameAnswers DEF Fresh
    <2> QED
      BY <2>4, <2>6 DEF CInv
  <1> QED
    BY <1>1, <1>4, <1>5 DEF BeginIteration

(* What is asked now is as new as all that was counted. *)
LEMMA AskedIsFresh ==
  ASSUME IInv, CInv, pc # "sleep", ~disturbed, NEW w \in Witnesses
  PROVE  /\ db.missed[w] <= Ask(w)
         /\ \A n \in 1..Len(chain) :
              n <= Reached \/ n <= Horizon => chain[n].missed[w] <= Ask(w)
  <1>1. Fresh
    BY DEF CInv
  <1>2. CASE cached[w] # Nothing
    BY <1>1, <1>2 DEF Ask, Fresh
  <1>3. CASE cached[w] = Nothing
    <2>1. Ask(w) = totalMissed[w]
      BY <1>3, CacheNumbers, Questioned DEF Ask
    <2> QED
      BY <2>1 DEF IInv, ChainIsOrdered, Sizes, Sized
  <1> QED
    BY <1>2, <1>3

LEMMA LookUpNamesCache == IInv /\ CInv /\ LookUpNames => CInv'
  <1> SUFFICES ASSUME IInv, CInv, LookUpNames PROVE CInv'
    OBVIOUS
  <1>1. /\ UNCHANGED <<config, chain, totalMissed, db, head, view, viewCalls, disturbed>>
        /\ pc = "polled" /\ pc' \in {"named", "sleep"}
        /\ cached' = [q \in Questions |-> IF q \in names' THEN Ask(q) ELSE cached[q]]
        /\ names' \subseteq Witnesses
    BY DEF LookUpNames, chainVars, viewVars
  <1>2. /\ cached' \in [Questions -> Answers] /\ cached'[Info] = cached[Info]
        /\ \A q \in Questions : cached'[q] <= Answer(q)
    BY <1>1, CacheNumbers, Asked DEF Answers, CInv, NotAhead
  <1>3. CacheTypes' /\ NotAhead' /\ HeadIsKnown'
    BY <1>1, <1>2, SameAnswers DEF CInv, CacheTypes, NotAhead, HeadIsKnown
  <1>4. ASSUME pc' # "sleep", ~disturbed PROVE Fresh'
    <2>1. Fresh
      BY <1>1, <1>4 DEF CInv
    <2>2. Reached' = Reached /\ Horizon' = Horizon
      BY <1>1, <1>2, <1>4 DEF Reached, Horizon
    <2>3. \A w \in Witnesses : cached'[w] = cached[w] \/ cached'[w] = Ask(w)
      BY <1>1, CacheNumbers
    <2>4. ASSUME NEW w \in Witnesses, cached'[w] # Nothing
          PROVE  /\ db.missed[w] <= cached'[w]
                 /\ \A n \in 1..Len(chain) :
                      n <= Reached \/ n <= Horizon => chain[n].missed[w] <= cached'[w]
      <3>1. CASE cached'[w] = cached[w]
        BY <2>1, <2>4, <3>1 DEF Fresh
      <3>2. CASE cached'[w] = Ask(w)
        <4>1. pc # "sleep"
          BY <1>1
        <4> QED
          BY <1>4, <3>2, <4>1, AskedIsFresh
      <3> QED
        BY <2>3, <3>1, <3>2
    <2> QED
      BY <1>1, <1>2, <2>1, <2>2, <2>4, SameAnswers DEF Fresh
  <1> QED
    BY <1>1, <1>3, <1>4 DEF CInv

LEMMA BeginIndexingCache == IInv /\ CInv /\ BeginIndexing => CInv'
  <1> SUFFICES ASSUME IInv, CInv, BeginIndexing PROVE CInv'
    OBVIOUS
  <1>1. /\ UNCHANGED <<config, chain, totalMissed, view, viewCalls, disturbed>>
        /\ pc \in {"polled", "named"} /\ chain # <<>>
    BY DEF BeginIndexing, chainVars, viewVars, CInv, HeadIsKnown
  <1>2. CASE pc' = "sleep" /\ UNCHANGED cached
    <2>1. CacheTypes' /\ NotAhead' /\ HeadIsKnown'
      BY <1>1, <1>2, SameAnswers DEF CInv, CacheTypes, NotAhead, HeadIsKnown
    <2> QED
      BY <1>2, <2>1, DisturbedStep
  <1>3. CASE /\ pc' = "index" /\ head' = Ask(Info) /\ cached' = [cached EXCEPT ![Info] = head']
             /\ \/ db' = [db EXCEPT !.last = head' - 1]
                \/ UNCHANGED db
    <2>1. Ask(Info) \in 1..Len(chain) /\ Ask(Info) <= Answer(Info)
      BY <1>1, CacheNumbers, Asked
    <2>2. /\ cached' \in [Questions -> Answers] /\ cached'[Info] = Ask(Info) /\ Ask(Info) # 0
          /\ \A q \in Questions : cached'[q] <= Answer(q)
          /\ \A w \in Witnesses : cached'[w] = cached[w]
      BY <1>3, <2>1, CacheNumbers DEF Answers, CInv, NotAhead
    <2>3. CacheTypes' /\ NotAhead' /\ HeadIsKnown'
      BY <1>1, <1>3, <2>2, SameAnswers DEF CInv, CacheTypes, NotAhead, HeadIsKnown
    <2>4. ASSUME ~disturbed PROVE Fresh'
      <3>1. Fresh /\ cached[Info] # Nothing
        BY <1>1, <2>4 DEF CInv, Fresh
      <3>2. Ask(Info) = cached[Info] /\ Horizon = cached[Info] /\ Horizon' = Ask(Info)
        BY <1>1, <1>3, <3>1 DEF Ask, Horizon
      <3>3. db \in Databases
        BY DEF IInv, Types, DatabaseTypes
      <3>4. db'.missed = db.missed /\ (db'.last = db.last \/ db'.last = head' - 1)
        BY <1>3, <3>3 DEF Databases
      <3>5. Reached' = db'.last /\ Reached = db.last
        BY <1>1, <1>3 DEF Reached
      <3>6. \A n \in 1..Len(chain) : n <= Reached' \/ n <= Horizon' => n <= Reached \/ n <= Horizon
        BY <1>3, <2>1, <3>2, <3>4, <3>5
      <3> QED
        BY <1>1, <1>3, <2>2, <3>1, <3>4, <3>6, SameAnswers DEF Fresh
    <2> QED
      BY <1>1, <2>3, <2>4 DEF CInv
  <1> QED
    BY <1>2, <1>3 DEF BeginIndexing

(* The steps of the thread that look at blocks, and those that end its iteration. *)
LEMMA IndexCache ==
  ASSUME IInv, CInv, UNCHANGED <<config, chain, totalMissed, cached, view, viewCalls, disturbed>>,
         \/ NotIndexed \/ GetBlock \/ Retry \/ GiveUp \/ Advance \/ IndexingDone \/ EndIteration
         \/ BeginSave \/ UNCHANGED vars
  PROVE  CInv'
  <1>1. db.last \in Nat /\ head \in Nat /\ db \in Databases
    BY Fields, CacheNumbers, Bounds DEF IInv, Types, DatabaseTypes, ThreadTypes
  <1>2. CASE BeginSave \/ UNCHANGED vars
    <2>1. UNCHANGED <<pc, db, head>>
      BY <1>2 DEF BeginSave, vars
    <2>2. Reached' = Reached /\ Horizon' = Horizon
      BY <2>1 DEF Reached, Horizon
    <2> QED
      BY <2>1, <2>2, CacheStep
  <1>3. CASE NotIndexed
    <2>1. pc = "polled" /\ pc' = "missed" /\ UNCHANGED db
      BY <1>3 DEF NotIndexed
    <2>2. Reached' = Reached /\ Horizon' = Reached
      BY <2>1 DEF Reached, Horizon
    <2> QED
      BY <2>1, <2>2, CacheStep
  <1>4. CASE IndexingDone
    <2>1. pc = "index" /\ pc' \in {"missed", "sleep"} /\ UNCHANGED db
      BY <1>4 DEF IndexingDone
    <2>2. pc' = "missed" => Reached' = Reached /\ Horizon' = Reached
      BY <2>1 DEF Reached, Horizon
    <2> QED
      BY <2>1, <2>2, CacheStep
  <1>5. CASE EndIteration
    <2>1. pc' = "sleep"
      BY <1>5 DEF EndIteration
    <2> QED
      BY <2>1, CacheStep
  <1>6. CASE Advance
    <2>1. pc = "advance" /\ pc' = "index" /\ UNCHANGED head
          /\ db' = [db EXCEPT !.last = db.last + 1]
      BY <1>6 DEF Advance
    <2>2. db'.missed = db.missed /\ db'.last = db.last + 1
      BY <1>1, <2>1 DEF Databases
    <2>3. Reached' = Reached /\ Horizon' = Horizon
      BY <2>1, <2>2 DEF Reached, Horizon
    <2> QED
      BY <2>1, <2>2, <2>3, CacheStep
  <1>7. CASE GetBlock \/ Retry \/ GiveUp
    <2>1. /\ pc \in {"index", "retry"} /\ db.last < head /\ UNCHANGED head
          /\ \/ pc' = "sleep"
             \/ pc' = "retry" /\ UNCHANGED db
             \/ pc' = "advance" /\ db'.missed = db.missed /\ db'.last = db.last
      <3>1. Got(db.last + 1) => pc' = "advance" /\ db'.missed = db.missed /\ db'.last = db.last
        BY <1>1 DEF Got, Databases
      <3>2. GotNone => pc' = "retry" /\ UNCHANGED db
        BY DEF GotNone
      <3>3. CASE GetBlock
        BY <3>1, <3>2, <3>3 DEF GetBlock
      <3>4. CASE Retry
        BY <3>1, <3>2, <3>4 DEF Retry, IInv, Control
      <3>5. CASE GiveUp
        BY <3>5 DEF GiveUp, IInv, Control
      <3> QED
        BY <1>7, <3>3, <3>4, <3>5
    <2>2. pc' # "sleep" => Horizon' = Horizon /\ Horizon = head /\ Reached' <= head /\ Reached' \in Nat
      BY <1>1, <2>1 DEF Horizon, Reached
    <2>3. pc' # "sleep" =>
            \A n \in 1..Len(chain) : n <= Reached' \/ n <= Horizon' => n <= Reached \/ n <= Horizon
      BY <1>1, <2>2
    <2> QED
      BY <2>1, <2>3, CacheStep
  <1> QED
    BY <1>2, <1>3, <1>4, <1>5, <1>6, <1>7

LEMMA MonitorMissedCache == IInv /\ CInv /\ MonitorMissed => CInv'
  <1> SUFFICES ASSUME IInv, CInv, MonitorMissed PROVE CInv'
    OBVIOUS
  <1>1. /\ UNCHANGED <<config, chain, totalMissed, pc, view, viewCalls, disturbed>>
        /\ pc = "missed"
    BY DEF MonitorMissed, chainVars, viewVars
  <1>2. PICK w \in todo :
          \/ UNCHANGED <<db, cached>>
          \/ /\ db' = [db EXCEPT !.missed[w] = Ask(w), !.streak[w] = StreakAfter(w)]
             /\ cached' = [cached EXCEPT ![w] = Ask(w)]
    BY DEF MonitorMissed
  <1>3. CASE UNCHANGED <<db, cached>>
    <2>1. Reached' = Reached /\ Horizon' = Horizon
      BY <1>1, <1>3 DEF Reached, Horizon
    <2> QED
      BY <1>1, <1>3, <2>1, CacheStep
  <1>4. CASE /\ db' = [db EXCEPT !.missed[w] = Ask(w), !.streak[w] = StreakAfter(w)]
             /\ cached' = [cached EXCEPT ![w] = Ask(w)]
    <2>1. w \in Witnesses /\ w \in Questions /\ w # Info /\ db \in Databases
          /\ db.missed \in [Witnesses -> -1..MaxMissed]
      BY CacheNumbers, Fields DEF IInv, Types, ThreadTypes, DatabaseTypes
    <2>2. /\ db'.last = db.last
          /\ \A v \in Witnesses : db'.missed[v] = IF v = w THEN Ask(w) ELSE db.missed[v]
      BY <1>4, <2>1 DEF Databases
    <2>3. /\ cached' \in [Questions -> Answers] /\ cached'[Info] = cached[Info]
          /\ \A q \in Questions : cached'[q] = IF q = w THEN Ask(w) ELSE cached[q]
      BY <1>4, <2>1, CacheNumbers, Asked DEF Answers
    <2>4. \A q \in Questions : cached'[q] <= Answer(q)
      BY <2>1, <2>3, Asked DEF CInv, NotAhead
    <2>5. CacheTypes' /\ NotAhead' /\ HeadIsKnown'
      BY <1>1, <2>3, <2>4, SameAnswers DEF CInv, CacheTypes, NotAhead, HeadIsKnown
    <2>6. ASSUME ~disturbed PROVE Fresh'
      <3>1. Fresh
        BY <1>1, <2>6 DEF CInv
      <3>2. Reached' = Reached /\ Horizon' = Horizon
        BY <1>1, <2>2 DEF Reached, Horizon
      <3>3. ASSUME NEW v \in Witnesses, cached'[v] # Nothing
            PROVE  /\ db'.missed[v] <= cached'[v]
                   /\ \A n \in 1..Len(chain) :
                        n <= Reached \/ n <= Horizon => chain[n].missed[v] <= cached'[v]
        <4>1. CASE v = w
          <5>1. db'.missed[v] = Ask(v) /\ cached'[v] = Ask(v) /\ Ask(v) \in Nat /\ pc # "sleep"
            BY <1>1, <2>1, <2>2, <2>3, <4>1, Asked
          <5> QED
            BY <2>6, <5>1, AskedIsFresh
        <4>2. CASE v # w
          <5>1. db'.missed[v] = db.missed[v] /\ cached'[v] = cached[v]
            BY <2>2, <2>3, <4>2, CacheNumbers
          <5> QED
            BY <3>1, <3>3, <5>1 DEF Fresh
        <4> QED
          BY <4>1, <4>2
      <3> QED
        BY <1>1, <3>2, <3>3, SameAnswers DEF Fresh
    <2> QED
      BY <1>1, <2>5, <2>6 DEF CInv
  <1> QED
    BY <1>2, <1>3, <1>4

LEMMA ViewsCache == IInv /\ CInv /\ (ViewClearsCache \/ ViewAsks \/ ViewStores) => CInv'
  <1> SUFFICES ASSUME IInv, CInv, ViewClearsCache \/ ViewAsks \/ ViewStores PROVE CInv'
    OBVIOUS
  <1>1. UNCHANGED <<config, chain, totalMissed, pc, db, head>>
    BY DEF ViewClearsCache, ViewAsks, ViewStores, chainVars
  <1>2. CASE ViewClearsCache
    <2>1. /\ cached' = [q \in Questions |-> Nothing] /\ disturbed' = TRUE
          /\ UNCHANGED <<view, viewCalls>>
      BY <1>2 DEF ViewClearsCache, viewVars
    <2>2. disturbed' \in BOOLEAN
      BY <2>1
    <2>3. CacheTypes' /\ NotAhead' /\ HeadIsKnown'
      BY <1>1, <2>1, <2>2, CacheNumbers, EmptyCache, SameAnswers
      DEF CInv, CacheTypes, NotAhead, HeadIsKnown
    <2> QED
      BY <2>1, <2>3, DisturbedStep
  <1>3. CASE ViewAsks
    <2>1. /\ UNCHANGED <<cached, disturbed>> /\ viewCalls < MaxViews
          /\ viewCalls' = viewCalls + 1 /\ chain # <<>>
      BY <1>3 DEF ViewAsks
    <2>2. PICK q \in Questions : view' = [of |-> q, answer |-> Answer(q)]
      BY <1>3 DEF ViewAsks
    <2>3. /\ view'.of = q /\ view'.answer = Answer(q) /\ Answer(q) \in Nat
          /\ view' \in [of : Questions, answer : Answers]
      BY <2>2, CacheNumbers, AnswerTypes DEF Answers
    <2>4. view'.of = Info => view'.answer # 0
      BY <2>1, <2>3, CacheNumbers DEF Answer
    <2>5. view'.answer <= Answer(q) /\ viewCalls' \in 0..MaxViews
      BY <2>1, <2>3, CacheNumbers
    <2>6. CacheTypes' /\ HeadIsKnown'
      BY <1>1, <2>1, <2>3, <2>4, <2>5, SameAnswers DEF CInv, CacheTypes, HeadIsKnown
    <2>7. NotAhead'
      BY <1>1, <2>1, <2>3, <2>5, SameAnswers DEF CInv, NotAhead, Answer
    <2>8. ASSUME pc # "sleep", ~disturbed PROVE Fresh'
      <3>1. Reached' = Reached /\ Horizon' = Horizon
        BY <1>1, <2>1 DEF Reached, Horizon
      <3> QED
        BY <1>1, <2>1, <2>8, <3>1, SameAnswers DEF CInv, Fresh
    <2> QED
      BY <1>1, <2>1, <2>6, <2>7, <2>8 DEF CInv
  <1>4. CASE ViewStores
    <2>1. /\ cached' = [cached EXCEPT ![view.of] = view.answer] /\ view' = NoView
          /\ disturbed' = TRUE /\ UNCHANGED viewCalls
      BY <1>4 DEF ViewStores
    <2>2. view.of \in Questions /\ view.answer \in Answers /\ view.answer <= Answer(view.of)
      BY CacheNumbers DEF CInv, NotAhead
    <2>3. /\ cached' \in [Questions -> Answers] /\ disturbed' \in BOOLEAN
          /\ \A q \in Questions : cached'[q] = IF q = view.of THEN view.answer ELSE cached[q]
      BY <2>1, <2>2, CacheNumbers
    <2>4. /\ \A q \in Questions : cached'[q] <= Answer(q)
          /\ cached'[Info] # 0
      BY <2>2, <2>3, CacheNumbers DEF CInv, NotAhead, HeadIsKnown
    <2>5. CacheTypes' /\ NotAhead' /\ HeadIsKnown'
      BY <1>1, <2>1, <2>3, <2>4, CacheNumbers, EmptyCache, SameAnswers
      DEF CInv, CacheTypes, NotAhead, HeadIsKnown
    <2> QED
      BY <2>1, <2>5, DisturbedStep
  <1> QED
    BY <1>2, <1>3, <1>4

(* A new process has an empty cache. *)
LEMMA StartCache ==
  ASSUME IInv, CInv, SaveAndRestart \/ KillAndRestart
  PROVE  CInv'
  <1>1. PICK file : StartWith(file)
    BY DEF SaveAndRestart, KillAndRestart
  <1>2. /\ UNCHANGED <<config, chain, totalMissed, viewCalls>> /\ pc' = "sleep"
        /\ cached' = [q \in Questions |-> Nothing] /\ view' = NoView /\ disturbed' = FALSE
    BY <1>1 DEF StartWith, chainVars
  <1>3. disturbed' \in BOOLEAN
    BY <1>2
  <1>4. CacheTypes' /\ NotAhead' /\ HeadIsKnown'
    BY <1>2, <1>3, CacheNumbers, EmptyCache, SameAnswers
    DEF CInv, CacheTypes, NotAhead, HeadIsKnown
  <1> QED
    BY <1>2, <1>4, DisturbedStep

LEMMA NextCInv == IInv /\ CInv /\ [Next]_vars => CInv'
  <1> SUFFICES ASSUME IInv, CInv, [Next]_vars PROVE CInv'
    OBVIOUS
  <1>1. ASSUME \/ NotIndexed \/ GetBlock \/ Retry \/ GiveUp \/ Advance \/ IndexingDone
               \/ EndIteration \/ BeginSave \/ UNCHANGED vars
        PROVE  CInv'
    <2>1. UNCHANGED <<chainVars, cacheVars>>
      BY <1>1 DEF NotIndexed, GetBlock, Retry, GiveUp, Advance, IndexingDone, EndIteration,
                  BeginSave, vars
    <2>2. UNCHANGED <<config, chain, totalMissed, cached, view, viewCalls, disturbed>>
      BY <2>1 DEF chainVars, cacheVars, viewVars
    <2> QED
      BY <1>1, <2>2, IndexCache
  <1>2. CASE ~UNCHANGED vars
    BY <1>1, <1>2, ProduceCache, MissCache, BeginIterationCache, LookUpNamesCache,
       BeginIndexingCache, MonitorMissedCache, ViewsCache, StartCache DEF Next
  <1> QED
    BY <1>1, <1>2

LEMMA Invariance == Spec => [](IInv /\ CInv)
  <1>1. IInv /\ CInv /\ [Next]_vars => (IInv /\ CInv)'
    BY NextIInv, NextCInv
  <1> QED
    BY InitIInv, InitCInv, <1>1, PTL DEF Spec
-----------------------------------------------------------------------------
(* Every variable stays in its domain; in particular the counters of blocks stay     *)
(* below one count of the whole chain for each process, and no streak of blocks is   *)
(* longer than the count of them (indexing.py:99-106, missed.py:59-72,               *)
(* core.py:149-179).                                                                 *)
THEOREM TypeCorrect == Spec => []TypeOK
  <1>1. IInv /\ CInv => TypeOK
    BY DEF IInv, Types, CInv, TypeOK, StreaksAreCounted, Sizes, Sized
  <1> QED
    BY <1>1, Invariance, PTL

(* Every block up to last_indexed_block was counted or found to be nobody's or given *)
(* up, whatever call failed and whenever the process was stopped or killed           *)
(* (indexing.py:80-106, core.py:149).                                                *)
THEOREM NothingIsSkipped == Spec => []NothingSkipped
  <1>1. IInv => NothingSkipped
    <2> SUFFICES ASSUME IInv, NEW n \in (first + 1)..db.last
                 PROVE  n \in uncounted \/ counted[n] > 0
      BY DEF NothingSkipped
    <2>1. n \in (first + 1)..Reached
      BY Fields DEF Reached, IInv, Types, DatabaseTypes
    <2> QED
      BY <2>1 DEF IInv, NoneSkipped
  <1> QED
    BY <1>1, Invariance, PTL

(* The first process counts every block of a witness once, but for those it gave up *)
(* or met before it knew the name (indexing.py:80-106).                             *)
THEOREM AccountsAreRight == Spec => []Accounting
  <1>1. IInv => Accounting
    BY BlocksCounted DEF IInv, FirstProcess, Tally, Accounting
  <1> QED
    BY <1>1, Invariance, PTL

(* The number of missed blocks that a notification of the first process quotes is no *)
(* more than what the witness missed since its last counted block, though the misses *)
(* come from the RPC cache: but for the witnesses for which the cache held a total   *)
(* that was older than a block already counted (missed.py:55-72).                    *)
THEOREM StreaksAreTrue == Spec => []StreakIsTrue
  <1>1. IInv => StreakIsTrue
    <2> SUFFICES ASSUME IInv, NEW w \in Witnesses, pc = "sleep", starts = 0,
                        ctxProduced[w] = db.produced[w], w \notin misled
                 PROVE  -db.streak[w] <= totalMissed[w] - MissedByLast(w)
      BY DEF StreakIsTrue
    <2>1. MissedByLast(w) = MissedBefore(w)
      BY BlocksCounted
    <2>2. /\ MissedBefore(w) \in Nat /\ totalMissed[w] \in Nat
          /\ MissedBefore(w) <= totalMissed[w]
      BY MissedBeforeTypes
    <2>3. /\ db.missed[w] \in Int /\ db.streak[w] \in Int /\ db.missed[w] <= totalMissed[w]
      BY Numbers DEF IInv, Types, DatabaseTypes, Sizes, Sized
    <2>4. /\ db.missed[w] < 0 => db.streak[w] = 0
          /\ db.missed[w] >= 0 => -db.streak[w] <= db.missed[w] - MissedBefore(w)
      BY DEF IInv, FirstProcess, Looked
    <2> QED
      BY <2>1, <2>2, <2>3, <2>4
  <1> QED
    BY <1>1, Invariance, PTL

(* An answer that misleads the missed plugin was left in the cache by a view: what   *)
(* the iteration itself put there, for the names or for the head, is as new as every *)
(* block it counts, in the first process and in all later ones (monitor.py:184,      *)
(* indexing.py:62-68, missed.py:55, rpcutils.py:231-254).                            *)
THEOREM ItselfNotMisled == Spec => OnlyViewsMislead
  <1>1. ASSUME IInv, CInv, MonitorMissed, ~disturbed PROVE misled' \subseteq misled
    <2>1. pc = "missed"
      BY <1>1 DEF MonitorMissed
    <2>2. PICK w \in todo :
            \/ UNCHANGED misled
            \/ misled' = (IF NewlyProduced(w) THEN misled \ {w} ELSE misled)
                            \cup {v \in {w} : IsOld(v)}
      BY <1>1 DEF MonitorMissed
    <2>3. w \in Witnesses
      BY <1>1 DEF IInv, Types, ThreadTypes
    <2>4. ~IsOld(w)
      <3>1. /\ db.missed[w] <= Ask(w)
            /\ \A n \in 1..Len(chain) : n <= Reached => chain[n].missed[w] <= Ask(w)
        BY <1>1, <2>1, <2>3, AskedIsFresh
      <3>2. db.missed[w] \in Int /\ Ask(w) \in Nat
        BY <1>1, <2>3, Numbers, AskedMissed DEF IInv, Types, DatabaseTypes
      <3>3. ASSUME NEW n \in BlocksOf(w) PROVE ~(Ask(w) < chain[n].missed[w])
        <4>1. n \in (first + 1)..Reached
          BY <2>1, <3>3 DEF BlocksOf, Reached
        <4>2. n \in 1..Len(chain) /\ n <= Reached
          BY <1>1, <4>1, ReachedTypes
        <4>3. chain[n].missed[w] \in Nat
          BY <1>1, <2>3, <4>2, BlockTypes
        <4> QED
          BY <3>1, <3>2, <4>2, <4>3
      <3> QED
        BY <3>1, <3>2, <3>3 DEF IsOld
    <2> QED
      BY <2>2, <2>4
  <1>2. IInv /\ CInv /\ [Next]_vars => [misled' \subseteq misled \/ disturbed]_vars
    <2> SUFFICES ASSUME IInv, CInv, Next, ~MonitorMissed PROVE misled' \subseteq misled
      BY <1>1
    <2> QED
      BY DEF Next, Produce, Miss, BeginIteration, LookUpNames, BeginIndexing, NotIndexed, GetBlock,
             Retry, GiveUp, Advance, IndexingDone, EndIteration, ViewClearsCache, ViewAsks,
             ViewStores, BeginSave, SaveAndRestart, KillAndRestart, StartWith, historyVars
  <1> QED
    BY <1>2, Invariance, PTL DEF Spec, OnlyViewsMislead
=============================================================================
