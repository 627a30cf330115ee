----------------------------- MODULE FeedsProofs -----------------------------
(***************************************************************************)
(* What the prices and their publication promise.  First the publication,  *)
(* for any assets, prices and number of checks: types for any publishers,  *)
(* and that what is logged is on the chain for a client with one, as in    *)
(* the shipped configuration.  Then the prices, for any configuration: any *)
(* clients, markets, rules, assets and length of the histories; only that  *)
(* what the rules imply is priced needs them in the order of their use.    *)
(***************************************************************************)
EXTENDS Feeds, SequenceTheorems, FiniteSetTheorems, WellFoundedInduction, TLAPS
-----------------------------------------------------------------------------
(* The publication. *)

Building == step \in {"begin", "add", "fees", "sign", "single"}

(* A round goes through the publishers with what the cache learnt in it. *)
Turns ==
    /\ Building => turn <= Len(Publishers) /\ priced = Range1(Assets)
    /\ step \in {"add", "fees", "sign"} => handle > 0
    /\ step # "idle" => round > 0 /\ ~cleared
    /\ cleared => DOMAIN cache = {}

(* A good answer in the cache tells the truth: the transaction exists, the operation *)
(* is in it, the feed was published in this round.                                   *)
CacheIsTrue ==
    \A call \in DOMAIN cache : cache[call].ok =>
        /\ call.name = "begin" => cache[call].result > 0
        /\ call.name = "add" => /\ call.handle \in 1..Len(builders)
                                /\ call.op \in builders[call.handle].ops
        /\ call.name = "publish_asset_feed" => <<call.op, round>> \in broadcast

(* How far the publisher has come. *)
Progress ==
    /\ step = "add" => \A i \in 1..(n - 1) : Operation(i) \in builders[handle].ops
    /\ step \in {"fees", "sign"} => OwnOperations \subseteq builders[handle].ops
    /\ step = "single" => \A i \in 1..(n - 1) :
                             <<Operation(i), round>> \in broadcast \/ Assets[i] \in refused

PublicationIInv == TypeOK /\ Turns /\ CacheIsTrue /\ Progress

(* A single publisher makes its calls once in a round: the transaction is its own, *)
(* and is signed by the wallet and not by the cache.                               *)
OnePublisher == Len(Publishers) = 1

OwnTransaction ==
    /\ (step = "turn" /\ turn = 1) \/ step = "begin" =>
         \A call \in DOMAIN cache : call.name # "begin"
    /\ (step = "turn" /\ turn = 1) \/ step \in {"begin", "add", "fees", "sign"} =>
         \A call \in DOMAIN cache : call.name # "sign"
    /\ step \in {"add", "fees", "sign"} => builders[handle].ops \subseteq OwnOperations

OwnIInv == PublicationIInv /\ OwnTransaction /\ ClaimIsTrue /\ OthersPublished

-----------------------------------------------------------------------------
(* The transactions of the wallet, and what is done to them. *)

(* The lists of the configuration. *)
LEMMA Lists ==
    /\ Len(Publishers) \in Nat \ {0} /\ DOMAIN Publishers = 1..Len(Publishers)
    /\ Len(Assets) \in Nat \ {0} /\ DOMAIN Assets = 1..Len(Assets)
    /\ \A i \in 1..Len(Publishers) : Publishers[i] \in Range1(Publishers)
    /\ \A i \in 1..Len(Assets) : Assets[i] \in Range1(Assets)
    /\ MaxRounds \in Nat
<1>1. /\ Publishers \in Seq(Range1(Publishers)) /\ Publishers # <<>>
      /\ Assets \in Seq(Range1(Assets)) /\ Assets # <<>> /\ MaxRounds \in Nat
  BY PublishAssumption
<1> HIDE DEF Range1
<1>2. /\ Len(Publishers) \in Nat \ {0} /\ DOMAIN Publishers = 1..Len(Publishers)
      /\ Len(Assets) \in Nat \ {0} /\ DOMAIN Assets = 1..Len(Assets)
  BY <1>1, EmptySeq, LenProperties
<1> QED
  BY <1>1, <1>2 DEF Range1

(* An operation of the publisher whose turn it is. *)
LEMMA OperationType ==
    ASSUME TypeOK, turn <= Len(Publishers)
    PROVE  \A i \in 1..Len(Assets) : Operation(i) \in Operations
<1>1. turn \in 1..Len(Publishers) /\ price \in Prices
  BY Lists DEF TypeOK
<1> QED
  BY <1>1, Lists DEF Operation, Operations

(* What a cached call leaves in the cache. *)
LEMMA Stored ==
    ASSUME NEW call, NEW answer, Store(call, answer)
    PROVE  /\ DOMAIN cache' = DOMAIN cache \cup {call}
           /\ cache'[call] = answer
           /\ \A c \in DOMAIN cache : c # call => cache'[c] = cache[c]
  BY DEF Store

(* An answer comes from the cache, or is new. *)
LEMMA AnswerOf ==
    ASSUME NEW call, NEW good, NEW answer \in Answers(call, good)
    PROVE  \/ Asked(call) /\ (answer = good \/ answer = Raised)
           \/ ~Asked(call) /\ call \in DOMAIN cache /\ answer = cache[call]
  BY DEF Answers, Asked

AnswerTypes == [ok : BOOLEAN, result : 0..Len(builders)]

(* What a good answer stored by a step says about the state after it. *)
SoundAfter(call, answer) ==
    answer.ok =>
        /\ call.name = "begin" => answer.result > 0
        /\ call.name = "add" => /\ call.handle \in 1..Len(builders')
                                /\ call.op \in builders'[call.handle].ops
        /\ call.name = "publish_asset_feed" => <<call.op, round>> \in broadcast'

(* Transactions only grow. *)
Growing ==
    /\ Len(builders) \in Nat /\ Len(builders') \in Nat /\ Len(builders') >= Len(builders)
    /\ \A h \in 1..Len(builders) : builders[h].ops \subseteq builders'[h].ops
    /\ broadcast \subseteq broadcast'
    /\ round' = round

(* What was in the cache stays true. *)
LEMMA CachedIsSound ==
    ASSUME PublicationIInv, Growing, NEW call \in DOMAIN cache
    PROVE  SoundAfter(call, cache[call]) /\ cache[call] \in AnswerTypes'
<1>1. cache[call] \in [ok : BOOLEAN, result : 0..Len(builders)]
  BY DEF PublicationIInv, TypeOK
<1>2. 0..Len(builders) \subseteq 0..Len(builders') /\ 1..Len(builders) \subseteq 1..Len(builders')
  BY DEF Growing
<1>3. cache[call] \in AnswerTypes'
  BY <1>1, <1>2 DEF AnswerTypes
<1>4. cache[call].ok =>
        /\ call.name = "begin" => cache[call].result > 0
        /\ call.name = "add" => /\ call.handle \in 1..Len(builders)
                                /\ call.op \in builders[call.handle].ops
        /\ call.name = "publish_asset_feed" => <<call.op, round>> \in broadcast
  BY DEF PublicationIInv, CacheIsTrue
<1> QED
  BY <1>2, <1>3, <1>4 DEF SoundAfter, Growing

(* A cached call keeps the cache well-formed and true when the wallet's answer is. *)
LEMMA CallKeepsCache ==
    ASSUME PublicationIInv, Growing, NEW call, NEW good, NEW answer \in Answers(call, good),
           Store(call, answer),
           Asked(call) /\ answer = good => SoundAfter(call, answer) /\ answer \in AnswerTypes'
    PROVE  /\ CacheIsTrue'
           /\ \A c \in DOMAIN cache' : cache'[c] \in AnswerTypes'
           /\ SoundAfter(call, answer) /\ answer \in AnswerTypes'
<1>0. /\ DOMAIN cache' = DOMAIN cache \cup {call} /\ cache'[call] = answer
      /\ \A c \in DOMAIN cache : c # call => cache'[c] = cache[c]
  BY Stored
<1>1. SoundAfter(call, answer) /\ answer \in AnswerTypes'
  <2>1. CASE Asked(call) /\ answer = good
    BY <2>1
  <2>2. CASE answer = Raised
    BY <2>2 DEF Raised, SoundAfter, AnswerTypes, Growing
  <2>3. CASE call \in DOMAIN cache /\ answer = cache[call]
    BY <2>3, CachedIsSound
  <2> QED
    BY <2>1, <2>2, <2>3, AnswerOf
<1>2. ASSUME NEW c \in DOMAIN cache'
      PROVE  SoundAfter(c, cache'[c]) /\ cache'[c] \in AnswerTypes'
  <2>1. CASE c = call
    BY <1>0, <1>1, <2>1
  <2>2. CASE c # call
    <3>1. c \in DOMAIN cache /\ cache'[c] = cache[c]
      BY <1>0, <1>2, <2>2
    <3> QED
      BY <3>1, CachedIsSound
  <2> QED
    BY <2>1, <2>2
<1> QED
  BY <1>1, <1>2 DEF CacheIsTrue, SoundAfter, Growing
-----------------------------------------------------------------------------
(* The invariant of the publication, step by step. *)

LEMMA InitPublication == Init => PublicationIInv
<1> SUFFICES ASSUME Init PROVE PublicationIInv
  OBVIOUS
<1>1. /\ DOMAIN cache = {} /\ Len(builders) = 0
      /\ builders \in Seq([ops : SUBSET Operations, paid : SUBSET Operations])
  BY EmptySeq DEF Init
<1>2. 1 \in 1..(Len(Publishers) + 1) /\ 1 \in 1..Len(Assets) /\ 0 \in 0..MaxRounds
  BY Lists
<1>3. TypeOK
  <2>1. cleared \in BOOLEAN
    BY DEF Init
  <2> QED
    BY <1>1, <1>2, <2>1 DEF Init, TypeOK
<1> QED
  BY <1>1, <1>3 DEF Init, PublicationIInv, Turns, CacheIsTrue, Progress, Building

LEMMA BeginRoundStep == ASSUME PublicationIInv, BeginRound PROVE PublicationIInv'
<1>1. TypeOK /\ Turns
  BY DEF PublicationIInv
<1>2. DOMAIN cache' = {} /\ UNCHANGED <<cache, builders, broadcast, handle, claimed>>
  BY <1>1 DEF BeginRound, Turns
<1>3. round' \in 0..MaxRounds /\ round' > 0 /\ 1 \in 1..(Len(Publishers) + 1) /\ 1 \in 1..Len(Assets)
  BY <1>1, Lists DEF BeginRound, TypeOK
<1>4. cleared' \in BOOLEAN /\ ~cleared'
  BY DEF BeginRound
<1>5. TypeOK'
  BY <1>1, <1>2, <1>3, <1>4 DEF TypeOK, BeginRound, Goto
<1> QED
  BY <1>2, <1>3, <1>4, <1>5 DEF PublicationIInv, Turns, CacheIsTrue, Progress, Building, BeginRound, Goto

LEMMA BeginTurnStep == ASSUME PublicationIInv, BeginTurn PROVE PublicationIInv'
<1>1. TypeOK /\ Turns /\ CacheIsTrue
  BY DEF PublicationIInv
<1>2. UNCHANGED <<cache, builders, broadcast, round, price, priced, cleared, handle, claimed>>
  BY DEF BeginTurn, roundVars
<1>3. 1 \in 1..Len(Assets) /\ n' = 1 /\ step' \in {"idle", "begin", "turn"}
  BY Lists DEF BeginTurn, Goto
<1>4. turn' \in 1..(Len(Publishers) + 1) /\ refused' \subseteq Range1(Assets)
  BY <1>1, Lists DEF TypeOK, BeginTurn
<1>5. TypeOK'
  BY <1>1, <1>2, <1>3, <1>4 DEF TypeOK
<1>6. CacheIsTrue'
  BY <1>1, <1>2 DEF CacheIsTrue
<1>7. step = "turn" /\ (step' = "begin" => turn' <= Len(Publishers) /\ priced' = Range1(Assets))
  BY <1>1, <1>2, Lists DEF BeginTurn, Goto, TypeOK
<1>8. Turns'
  BY <1>1, <1>2, <1>3, <1>7 DEF Turns, Building
<1> QED
  BY <1>3, <1>5, <1>6, <1>8 DEF PublicationIInv, Progress

LEMMA ClearCacheStep == ASSUME PublicationIInv, ClearCache PROVE PublicationIInv'
<1>1. TypeOK /\ Turns /\ Progress
  BY DEF PublicationIInv
<1>2. DOMAIN cache' = {} /\ UNCHANGED <<builders, broadcast, round, price, priced, step, turn, n,
                                       handle, claimed, refused>>
  BY DEF ClearCache
<1>3. cleared' \in BOOLEAN
  BY DEF ClearCache
<1>4. TypeOK'
  BY <1>1, <1>2, <1>3 DEF TypeOK
<1>5. step # "idle" => ~cleared'
  BY DEF ClearCache
<1>6. Turns'
  BY <1>1, <1>2, <1>5 DEF Turns, Building
<1>7. Progress'
  BY <1>1, <1>2 DEF Progress, Operation, OwnOperations
<1> QED
  BY <1>2, <1>4, <1>6, <1>7 DEF PublicationIInv, CacheIsTrue

(* The transaction in hand gains operations, or pays for those it has. *)
LEMMA Grown ==
    ASSUME builders \in Seq([ops : SUBSET Operations, paid : SUBSET Operations]),
           handle \in 1..Len(builders), NEW more \in SUBSET Operations,
           builders' \in {builders, [builders EXCEPT ![handle].ops = @ \cup more],
                          [builders EXCEPT ![handle].paid = builders[handle].ops]}
    PROVE  /\ builders' \in Seq([ops : SUBSET Operations, paid : SUBSET Operations])
           /\ Len(builders') = Len(builders) /\ Len(builders) \in Nat
           /\ \A h \in 1..Len(builders) : builders[h].ops \subseteq builders'[h].ops
           /\ builders'[handle].ops \subseteq builders[handle].ops \cup more
           /\ builders' = [builders EXCEPT ![handle].ops = @ \cup more]
                => builders'[handle].ops = builders[handle].ops \cup more
<1> DEFINE T == [ops : SUBSET Operations, paid : SUBSET Operations]
<1>1. /\ builders \in [1..Len(builders) -> T] /\ Len(builders) \in Nat
      /\ builders[handle] \in T
  BY ElementOfSeq, LenProperties
<1>2. CASE builders' = builders
  BY <1>1, <1>2
<1>3. CASE builders' = [builders EXCEPT ![handle].ops = @ \cup more]
  <2>1. [builders[handle] EXCEPT !.ops = @ \cup more] \in T
    BY <1>1
  <2>2. builders' \in [1..Len(builders) -> T]
    BY <1>1, <1>3, <2>1
  <2>3. builders' \in Seq(T) /\ Len(builders') = Len(builders)
    BY <1>1, <2>2
  <2>4. builders'[handle].ops = builders[handle].ops \cup more
    BY <1>1, <1>3
  <2>5. \A h \in 1..Len(builders) : h # handle => builders'[h] = builders[h]
    BY <1>1, <1>3
  <2> QED
    BY <1>1, <2>3, <2>4, <2>5
<1>4. CASE builders' = [builders EXCEPT ![handle].paid = builders[handle].ops]
  <2>1. [builders[handle] EXCEPT !.paid = builders[handle].ops] \in T
    BY <1>1
  <2>2. builders' \in [1..Len(builders) -> T]
    BY <1>1, <1>4, <2>1
  <2>3. builders' \in Seq(T) /\ Len(builders') = Len(builders)
    BY <1>1, <2>2
  <2>4. builders'[handle].ops = builders[handle].ops
    BY <1>1, <1>4
  <2>5. \A h \in 1..Len(builders) : h # handle => builders'[h] = builders[h]
    BY <1>1, <1>4
  <2> QED
    BY <1>1, <1>4, <2>3, <2>4, <2>5
<1> QED
  BY <1>2, <1>3, <1>4

LEMMA BeginTransactionStep == ASSUME PublicationIInv, BeginTransaction PROVE PublicationIInv'
<1>1. TypeOK /\ Turns /\ CacheIsTrue /\ step = "begin"
  BY DEF PublicationIInv, BeginTransaction
<1> DEFINE call == Call("begin", 0, NoOperation)
           good == Ok(Len(builders) + 1)
<1>2. PICK answer \in Answers(call, good) :
        /\ Store(call, answer)
        /\ builders' = IF Asked(call) /\ answer.ok
                       THEN Append(builders, [ops |-> {}, paid |-> {}]) ELSE builders
        /\ IF answer.ok THEN Goto("add") /\ handle' = answer.result
           ELSE Goto("single") /\ UNCHANGED handle
  BY DEF BeginTransaction
<1>3. UNCHANGED <<broadcast, round, price, priced, cleared, turn, claimed, refused>>
  BY DEF BeginTransaction, roundVars
<1>4. Len(builders) \in Nat /\ [ops |-> {}, paid |-> {}] \in [ops : SUBSET Operations, paid : SUBSET Operations]
  BY <1>1, LenProperties DEF TypeOK
<1>5. /\ builders' \in Seq([ops : SUBSET Operations, paid : SUBSET Operations])
      /\ Growing
      /\ Asked(call) /\ answer = good => Len(builders') = Len(builders) + 1
  <2>1. CASE Asked(call) /\ answer.ok
    <3>1. builders' = Append(builders, [ops |-> {}, paid |-> {}])
      BY <1>2, <2>1
    <3> QED
      BY <1>1, <1>3, <1>4, <3>1, AppendProperties DEF TypeOK, Growing
  <2>2. CASE ~(Asked(call) /\ answer.ok)
    <3>1. builders' = builders
      BY <1>2, <2>2
    <3> QED
      BY <1>1, <1>3, <1>4, <2>2, <3>1 DEF TypeOK, Growing, Ok
  <2> QED
    BY <2>1, <2>2
<1>6. Asked(call) /\ answer = good => SoundAfter(call, answer) /\ answer \in AnswerTypes'
  BY <1>4, <1>5 DEF SoundAfter, AnswerTypes, Call, Ok
<1>7. /\ CacheIsTrue' /\ \A c \in DOMAIN cache' : cache'[c] \in AnswerTypes'
      /\ SoundAfter(call, answer) /\ answer \in AnswerTypes'
  BY <1>2, <1>5, <1>6, CallKeepsCache
<1>8. answer.ok => answer.result \in 1..Len(builders')
  BY <1>5, <1>7 DEF SoundAfter, AnswerTypes, Call, Growing
<1>9. 1 \in 1..Len(Assets) /\ n' = 1 /\ step' \in {"add", "single"}
  BY <1>2, Lists DEF Goto
<1>10. handle' \in 0..Len(builders') /\ (step' = "add" => handle' > 0)
  BY <1>1, <1>2, <1>5, <1>8 DEF Goto, Growing, TypeOK
<1>11. TypeOK'
  BY <1>1, <1>3, <1>5, <1>7, <1>9, <1>10 DEF TypeOK, AnswerTypes
<1>12. Turns'
  BY <1>1, <1>3, <1>9, <1>10 DEF Turns, Building
<1> QED
  BY <1>7, <1>9, <1>11, <1>12 DEF PublicationIInv, Progress

LEMMA AddOperationStep == ASSUME PublicationIInv, AddOperation PROVE PublicationIInv'
<1>1. TypeOK /\ Turns /\ CacheIsTrue /\ Progress /\ step = "add"
  BY DEF PublicationIInv, AddOperation
<1>2. UNCHANGED <<broadcast, round, price, priced, cleared, turn, handle, claimed, refused>>
  BY DEF AddOperation, roundVars
<1>3. 1 \in 1..Len(Assets) /\ Len(builders) \in Nat /\ handle \in 1..Len(builders)
  BY <1>1, Lists, LenProperties DEF TypeOK, Turns
<1>4. CASE Goto("single") /\ UNCHANGED <<cache, builders>>
  <2>1. TypeOK'
    BY <1>1, <1>2, <1>3, <1>4 DEF TypeOK, Goto
  <2>2. Turns'
    BY <1>1, <1>2, <1>4 DEF Turns, Building, Goto
  <2>3. CacheIsTrue'
    BY <1>1, <1>2, <1>4 DEF CacheIsTrue
  <2> QED
    BY <1>4, <2>1, <2>2, <2>3 DEF PublicationIInv, Progress, Goto
<1>5. ASSUME NEW answer \in Answers(Call("add", handle, Operation(n)), Ok(0)),
             Store(Call("add", handle, Operation(n)), answer),
             builders' = IF Asked(Call("add", handle, Operation(n))) /\ answer.ok
                         THEN [builders EXCEPT ![handle].ops = @ \cup {Operation(n)}]
                         ELSE builders,
             IF ~answer.ok THEN Goto("single")
             ELSE IF LastAsset THEN Goto("fees")
             ELSE n' = n + 1 /\ UNCHANGED step
      PROVE  PublicationIInv'
  <2> DEFINE op == Operation(n)
             call == Call("add", handle, op)
  <2>1. op \in Operations /\ n \in 1..Len(Assets)
    BY <1>1, OperationType DEF Turns, Building, TypeOK
  <2>2. /\ builders' \in Seq([ops : SUBSET Operations, paid : SUBSET Operations])
        /\ Len(builders') = Len(builders)
        /\ \A h \in 1..Len(builders) : builders[h].ops \subseteq builders'[h].ops
        /\ Asked(call) /\ answer.ok => builders'[handle].ops = builders[handle].ops \cup {op}
    <3>1. builders' \in {builders, [builders EXCEPT ![handle].ops = @ \cup {op}],
                         [builders EXCEPT ![handle].paid = builders[handle].ops]}
      BY <1>5
    <3> QED
      <4>1. builders \in Seq([ops : SUBSET Operations, paid : SUBSET Operations])
        BY <1>1 DEF TypeOK
      <4>2. {op} \in SUBSET Operations
        BY <2>1
      <4> QED
        BY <1>3, <1>5, <3>1, <4>1, <4>2, Grown
  <2>3. Growing
    BY <1>2, <1>3, <2>2 DEF Growing
  <2>4. Asked(call) /\ answer = Ok(0) => SoundAfter(call, answer) /\ answer \in AnswerTypes'
    BY <1>3, <2>2 DEF SoundAfter, AnswerTypes, Call, Ok
  <2>5. /\ CacheIsTrue' /\ \A c \in DOMAIN cache' : cache'[c] \in AnswerTypes'
        /\ SoundAfter(call, answer) /\ answer \in AnswerTypes'
    BY <1>5, <2>3, <2>4, CallKeepsCache
  <2>6. answer.ok => op \in builders'[handle].ops
    BY <2>5 DEF SoundAfter, Call
  <2>7. n' \in 1..Len(Assets) /\ step' \in {"single", "fees", "add"}
    BY <1>1, <1>3, <1>5, <2>1, Lists DEF Goto, LastAsset
  <2>8. TypeOK'
    BY <1>1, <1>2, <2>2, <2>5, <2>7 DEF TypeOK, AnswerTypes
  <2>9. Turns'
    BY <1>1, <1>2, <2>7 DEF Turns, Building
  <2>10. Progress'
    <3>1. \A i \in 1..(n - 1) : Operation(i) \in builders'[handle].ops
      BY <1>1, <1>3, <2>2 DEF Progress
    <3>2. answer.ok => \A i \in 1..n : Operation(i) \in builders'[handle].ops
      BY <2>1, <2>6, <3>1
    <3>3. \A i : Operation(i)' = Operation(i)
      BY <1>2 DEF Operation
    <3>4. CASE ~answer.ok
      BY <1>5, <3>4 DEF Progress, Goto
    <3>5. CASE answer.ok /\ LastAsset
      <4>1. step' = "fees" /\ n = Len(Assets)
        BY <1>5, <3>5 DEF Goto, LastAsset
      <4>2. OwnOperations' \subseteq builders'[handle'].ops
        BY <1>2, <3>2, <3>3, <3>5, <4>1, Lists DEF OwnOperations
      <4> QED
        BY <4>1, <4>2 DEF Progress
    <3>6. CASE answer.ok /\ ~LastAsset
      <4>1. step' = "add" /\ n' - 1 = n
        BY <1>1, <1>5, <2>1, <3>6
      <4>2. \A i \in 1..(n' - 1) : Operation(i)' \in builders'[handle'].ops
        BY <1>2, <3>2, <3>3, <3>6, <4>1
      <4> QED
        BY <4>1, <4>2 DEF Progress
    <3> QED
      BY <3>4, <3>5, <3>6
  <2> QED
    BY <2>5, <2>8, <2>9, <2>10 DEF PublicationIInv
<1> QED
  BY <1>4, <1>5 DEF AddOperation

LEMMA SetFeesStep == ASSUME PublicationIInv, SetFees PROVE PublicationIInv'
<1>1. TypeOK /\ Turns /\ CacheIsTrue /\ Progress /\ step = "fees"
  BY DEF PublicationIInv, SetFees
<1>2. UNCHANGED <<broadcast, round, price, priced, cleared, turn, handle, claimed, refused>>
  BY DEF SetFees, roundVars
<1>3. 1 \in 1..Len(Assets) /\ Len(builders) \in Nat /\ handle \in 1..Len(builders)
  BY <1>1, Lists, LenProperties DEF TypeOK, Turns
<1> DEFINE call == Call("fees", handle, NoOperation)
<1>4. PICK answer \in Answers(call, Ok(0)) :
        /\ Store(call, answer)
        /\ builders' = IF Asked(call) /\ answer.ok
                       THEN [builders EXCEPT ![handle].paid = builders[handle].ops]
                       ELSE builders
        /\ Goto(IF answer.ok THEN "sign" ELSE "single")
  BY DEF SetFees
<1>5. /\ builders' \in Seq([ops : SUBSET Operations, paid : SUBSET Operations])
      /\ Len(builders') = Len(builders)
      /\ \A h \in 1..Len(builders) : builders[h].ops \subseteq builders'[h].ops
  <2>1. builders \in Seq([ops : SUBSET Operations, paid : SUBSET Operations])
    BY <1>1 DEF TypeOK
  <2>2. {} \in SUBSET Operations
    OBVIOUS
  <2>3. builders' \in {builders, [builders EXCEPT ![handle].ops = @ \cup {}],
                       [builders EXCEPT ![handle].paid = builders[handle].ops]}
    BY <1>4
  <2> QED
    BY <1>3, <2>1, <2>2, <2>3, Grown
<1>6. Growing
  BY <1>2, <1>3, <1>5 DEF Growing
<1>7. answer = Ok(0) => SoundAfter(call, answer) /\ answer \in AnswerTypes'
  BY <1>3, <1>5 DEF SoundAfter, AnswerTypes, Call, Ok
<1>8. CacheIsTrue' /\ \A c \in DOMAIN cache' : cache'[c] \in AnswerTypes'
  BY <1>4, <1>6, <1>7, CallKeepsCache
<1>9. n' = 1 /\ step' \in {"sign", "single"}
  BY <1>4 DEF Goto
<1>10. TypeOK'
  BY <1>1, <1>2, <1>3, <1>5, <1>8, <1>9 DEF TypeOK, AnswerTypes
<1>11. Turns'
  BY <1>1, <1>2, <1>9 DEF Turns, Building
<1>12. Progress'
  <2>1. OwnOperations' = OwnOperations
    BY <1>2 DEF OwnOperations, Operation
  <2> QED
    BY <1>1, <1>2, <1>3, <1>5, <1>9, <2>1 DEF Progress
<1> QED
  BY <1>8, <1>10, <1>11, <1>12 DEF PublicationIInv

LEMMA SignStep == ASSUME PublicationIInv, Sign PROVE PublicationIInv'
<1>1. TypeOK /\ Turns /\ CacheIsTrue /\ Progress /\ step = "sign"
  BY DEF PublicationIInv, Sign
<1>2. UNCHANGED <<builders, round, price, priced, cleared, handle, refused>>
  BY DEF Sign, roundVars
<1>3. /\ 1 \in 1..Len(Assets) /\ Len(builders) \in Nat /\ handle \in 1..Len(builders)
      /\ turn \in 1..Len(Publishers) /\ round \in 1..MaxRounds
      /\ Len(Publishers) \in Nat
  BY <1>1, Lists, LenProperties DEF TypeOK, Turns, Building
<1>4. builders[handle] \in [ops : SUBSET Operations, paid : SUBSET Operations]
  <2>1. builders \in Seq([ops : SUBSET Operations, paid : SUBSET Operations])
    BY <1>1 DEF TypeOK
  <2> QED
    BY <1>3, <2>1, ElementOfSeq
<1>5. OwnOperations \subseteq Operations
  BY <1>1, <1>3, Lists, OperationType DEF OwnOperations
<1> DEFINE call == Call("sign", handle, NoOperation)
           tx == builders[handle]
<1>6. PICK answer \in Answers(call, Ok(0)) :
        /\ Store(call, answer)
        /\ \/ Asked(call) /\ tx.ops = tx.paid /\ broadcast' = broadcast \cup InRound(tx.ops)
           \/ ~(Asked(call) /\ answer.ok) /\ UNCHANGED broadcast
        /\ IF answer.ok
           THEN claimed' = claimed \cup InRound(OwnOperations) /\ EndTurn
           ELSE Goto("single") /\ UNCHANGED <<claimed, turn>>
  BY DEF Sign
<1>7. broadcast \subseteq broadcast' /\ broadcast' \subseteq Operations \X (1..MaxRounds)
  BY <1>1, <1>3, <1>4, <1>6 DEF TypeOK, InRound
<1>8. claimed' \subseteq Operations \X (1..MaxRounds)
  BY <1>1, <1>3, <1>5, <1>6 DEF TypeOK, InRound
<1>9. Growing
  BY <1>2, <1>3, <1>7 DEF Growing
<1>10. answer = Ok(0) => SoundAfter(call, answer) /\ answer \in AnswerTypes'
  BY <1>2, <1>3 DEF SoundAfter, AnswerTypes, Call, Ok
<1>11. CacheIsTrue' /\ \A c \in DOMAIN cache' : cache'[c] \in AnswerTypes'
  BY <1>6, <1>9, <1>10, CallKeepsCache
<1>12. n' = 1 /\ step' \in {"turn", "single"} /\ turn' \in 1..(Len(Publishers) + 1)
  BY <1>3, <1>6 DEF Goto, EndTurn
<1>13. step' = "single" => turn' = turn
  BY <1>6 DEF Goto, EndTurn
<1>14. TypeOK'
  BY <1>1, <1>2, <1>3, <1>7, <1>8, <1>11, <1>12 DEF TypeOK, AnswerTypes
<1>15. Turns'
  BY <1>1, <1>2, <1>12, <1>13 DEF Turns, Building
<1> QED
  BY <1>11, <1>12, <1>14, <1>15 DEF PublicationIInv, Progress

LEMMA PublishSingleStep == ASSUME PublicationIInv, PublishSingle PROVE PublicationIInv'
<1>1. TypeOK /\ Turns /\ CacheIsTrue /\ Progress /\ step = "single"
  BY DEF PublicationIInv, PublishSingle
<1>2. UNCHANGED <<builders, round, price, priced, cleared, handle>>
  BY DEF PublishSingle, roundVars
<1>3. /\ Len(builders) \in Nat /\ n \in 1..Len(Assets) /\ Len(Assets) \in Nat
      /\ turn \in 1..Len(Publishers) /\ round \in 1..MaxRounds
      /\ Len(Publishers) \in Nat
  BY <1>1, Lists, LenProperties DEF TypeOK, Turns, Building
<1> DEFINE op == Operation(n)
           call == Call("publish_asset_feed", 0, op)
<1>4. op \in Operations /\ Assets[n] \in Range1(Assets)
  BY <1>1, <1>3, Lists, OperationType
<1>5. IF LastAsset THEN EndTurn ELSE n' = n + 1 /\ UNCHANGED <<step, turn>>
  BY DEF PublishSingle
<1>6. /\ CacheIsTrue' /\ \A c \in DOMAIN cache' : cache'[c] \in AnswerTypes'
      /\ broadcast \subseteq broadcast' /\ broadcast' \subseteq Operations \X (1..MaxRounds)
      /\ claimed' \subseteq Operations \X (1..MaxRounds)
      /\ refused \subseteq refused' /\ refused' \subseteq Range1(Assets)
      /\ <<op, round>> \in broadcast' \/ Assets[n] \in refused'
  <2>1. CASE refused' = refused \cup {Assets[n]} /\ UNCHANGED <<cache, broadcast, claimed>>
    <3>1. CacheIsTrue'
      BY <1>1, <1>2, <2>1 DEF CacheIsTrue
    <3> QED
      BY <1>1, <1>2, <1>4, <2>1, <3>1 DEF TypeOK, AnswerTypes
  <2>2. ASSUME NEW answer \in Answers(call, Ok(0)), Store(call, answer),
               IF answer.ok
               THEN /\ broadcast' = broadcast \cup (IF Asked(call) THEN InRound({op}) ELSE {})
                    /\ claimed' = claimed \cup InRound({op})
                    /\ UNCHANGED refused
               ELSE /\ refused' = refused \cup {Assets[n]}
                    /\ UNCHANGED <<broadcast, claimed>>
        PROVE  /\ CacheIsTrue' /\ \A c \in DOMAIN cache' : cache'[c] \in AnswerTypes'
               /\ broadcast \subseteq broadcast' /\ broadcast' \subseteq Operations \X (1..MaxRounds)
               /\ claimed' \subseteq Operations \X (1..MaxRounds)
               /\ refused \subseteq refused' /\ refused' \subseteq Range1(Assets)
               /\ <<op, round>> \in broadcast' \/ Assets[n] \in refused'
    <3> HIDE DEF op
    <3>1. /\ broadcast \subseteq broadcast' /\ broadcast' \subseteq Operations \X (1..MaxRounds)
          /\ claimed' \subseteq Operations \X (1..MaxRounds)
          /\ refused \subseteq refused' /\ refused' \subseteq Range1(Assets)
      BY <1>1, <1>3, <1>4, <2>2 DEF TypeOK, InRound
    <3>2. Growing
      BY <1>2, <1>3, <3>1 DEF Growing
    <3>3. Asked(call) /\ answer = Ok(0) => SoundAfter(call, answer) /\ answer \in AnswerTypes'
      BY <1>2, <1>3, <2>2 DEF SoundAfter, AnswerTypes, Call, Ok, InRound
    <3>4. /\ CacheIsTrue' /\ \A c \in DOMAIN cache' : cache'[c] \in AnswerTypes'
          /\ SoundAfter(call, answer)
      BY <2>2, <3>2, <3>3, CallKeepsCache
    <3>5. answer.ok => <<op, round>> \in broadcast'
      BY <3>4 DEF SoundAfter, Call
    <3>6. ~answer.ok => Assets[n] \in refused'
      BY <2>2
    <3> QED
      BY <3>1, <3>4, <3>5, <3>6
  <2> QED
    BY <2>1, <2>2 DEF PublishSingle
<1>7. n' \in 1..Len(Assets) /\ step' \in {"turn", "single"} /\ turn' \in 1..(Len(Publishers) + 1)
  BY <1>1, <1>3, <1>5 DEF Goto, EndTurn, LastAsset
<1>8. step' = "single" => turn' = turn /\ n' = n + 1
  BY <1>1, <1>5 DEF Goto, EndTurn
<1>9. TypeOK'
  BY <1>1, <1>2, <1>6, <1>7 DEF TypeOK, AnswerTypes
<1>10. Turns'
  BY <1>1, <1>2, <1>7, <1>8 DEF Turns, Building
<1>11. Progress'
  <2> SUFFICES ASSUME step' = "single", NEW i \in 1..(n' - 1)
               PROVE  <<Operation(i)', round'>> \in broadcast' \/ Assets[i] \in refused'
    BY <1>7 DEF Progress
  <2>1. n' = n + 1 /\ Operation(i)' = Operation(i)
    BY <1>2, <1>8 DEF Operation
  <2>2. i \in 1..n
    BY <1>3, <2>1
  <2>3. CASE i = n
    BY <1>2, <1>6, <2>1, <2>3
  <2>4. CASE i \in 1..(n - 1)
    BY <1>1, <1>2, <1>6, <2>1, <2>4 DEF Progress
  <2> QED
    BY <1>3, <2>2, <2>3, <2>4
<1> QED
  BY <1>6, <1>9, <1>10, <1>11 DEF PublicationIInv

LEMMA NextPublication == PublicationIInv /\ [Next]_vars => PublicationIInv'
<1> SUFFICES ASSUME PublicationIInv, [Next]_vars PROVE PublicationIInv'
  OBVIOUS
<1>1. CASE UNCHANGED vars
  <2>1. TypeOK'
    BY <1>1 DEF vars, PublicationIInv, TypeOK
  <2>2. Turns' /\ CacheIsTrue' /\ Progress'
    BY <1>1 DEF vars, PublicationIInv, Turns, CacheIsTrue, Progress, Building, Operation,
                OwnOperations
  <2> QED
    BY <2>1, <2>2 DEF PublicationIInv
<1> QED
  BY <1>1, BeginRoundStep, BeginTurnStep, BeginTransactionStep, AddOperationStep, SetFeesStep,
     SignStep, PublishSingleStep, ClearCacheStep DEF Next

LEMMA PublicationInvariance == Spec => []PublicationIInv
  BY InitPublication, NextPublication, PTL DEF Spec
-----------------------------------------------------------------------------
(* A single publisher: step by step, its transaction is its own. *)

LEMMA InitOwn == Init => OwnIInv
<1> SUFFICES ASSUME Init PROVE OwnIInv
  OBVIOUS
<1>1. DOMAIN cache = {}
  BY DEF Init
<1> QED
  BY <1>1, InitPublication DEF Init, OwnIInv, OwnTransaction, ClaimIsTrue, OthersPublished, TurnOver

(* The turn that is over is that of the publisher who had it. *)
LEMMA FinishedIsOwn ==
    ASSUME TypeOK, turn' = turn + 1, price' = price, round' = round
    PROVE  \A i \in DOMAIN Assets : Finished(i)' = <<Operation(i), round>>
<1>1. turn' - 1 = turn
  BY Lists DEF TypeOK
<1> QED
  BY <1>1 DEF Finished, Operation

(* Between the turns nothing is made of the transactions. *)
LEMMA OwnBetweenTurns ==
    ASSUME OnePublisher, OwnIInv, BeginRound \/ BeginTurn \/ ClearCache
    PROVE  OwnTransaction' /\ ClaimIsTrue' /\ OthersPublished'
<1>1. TypeOK /\ Turns /\ OwnTransaction /\ ClaimIsTrue /\ OthersPublished
  BY DEF OwnIInv, PublicationIInv
<1>2. CASE BeginRound
  <2>1. DOMAIN cache' = {} /\ step' = "turn" /\ turn' = 1 /\ UNCHANGED <<claimed, broadcast>>
    BY <1>1, <1>2 DEF BeginRound, Turns, Goto
  <2> QED
    BY <1>1, <2>1 DEF OwnTransaction, ClaimIsTrue, OthersPublished, TurnOver
<1>3. CASE BeginTurn
  <2>1. UNCHANGED <<cache, builders, broadcast, round, price, priced, cleared, handle, claimed>>
    BY <1>3 DEF BeginTurn, roundVars
  <2>2. /\ step = "turn" /\ step' \in {"idle", "begin", "turn"}
        /\ step' = "begin" => turn' = 1 /\ turn = 1
        /\ step' = "turn" => turn' > 1 /\ priced # Range1(Assets)
    BY <1>1, <1>3, Lists DEF BeginTurn, Goto, OnePublisher, TypeOK
  <2> QED
    BY <1>1, <2>1, <2>2 DEF OwnTransaction, ClaimIsTrue, OthersPublished, TurnOver
<1>4. CASE ClearCache
  <2>1. DOMAIN cache' = {} /\ UNCHANGED <<builders, broadcast, round, price, priced, step, turn,
                                         handle, claimed, refused>>
    BY <1>4 DEF ClearCache
  <2>2. OwnOperations' = OwnOperations /\ \A i : Finished(i)' = Finished(i)
    BY <2>1 DEF OwnOperations, Operation, Finished
  <2> QED
    BY <1>1, <2>1, <2>2 DEF OwnTransaction, ClaimIsTrue, OthersPublished, TurnOver
<1> QED
  BY <1>2, <1>3, <1>4

LEMMA OwnBegin ==
    ASSUME OnePublisher, OwnIInv, BeginTransaction
    PROVE  OwnTransaction' /\ ClaimIsTrue' /\ OthersPublished'
<1>1. TypeOK /\ Turns /\ OwnTransaction /\ ClaimIsTrue /\ step = "begin"
  BY DEF OwnIInv, PublicationIInv, BeginTransaction
<1> DEFINE call == Call("begin", 0, NoOperation)
<1>2. call \notin DOMAIN cache
  BY <1>1 DEF OwnTransaction, Call
<1>3. PICK answer \in Answers(call, Ok(Len(builders) + 1)) :
        /\ Store(call, answer)
        /\ builders' = IF Asked(call) /\ answer.ok
                       THEN Append(builders, [ops |-> {}, paid |-> {}]) ELSE builders
        /\ IF answer.ok THEN Goto("add") /\ handle' = answer.result
           ELSE Goto("single") /\ UNCHANGED handle
  BY DEF BeginTransaction
<1>4. UNCHANGED <<broadcast, round, price, priced, cleared, turn, claimed, refused>>
  BY DEF BeginTransaction, roundVars
<1>5. DOMAIN cache' = DOMAIN cache \cup {call}
  BY <1>3, Stored
<1>6. \A c \in DOMAIN cache' : c.name # "sign"
  BY <1>1, <1>5 DEF OwnTransaction, Call
<1>7. step' \in {"add", "single"}
  BY <1>3 DEF Goto
<1>8. step' = "add" => builders'[handle'].ops = {}
  <2>1. SUFFICES ASSUME answer.ok PROVE builders'[handle'].ops = {}
    BY <1>3 DEF Goto
  <2>2. answer = Ok(Len(builders) + 1) /\ Asked(call)
    BY <1>2, <1>3, <2>1, AnswerOf DEF Raised, Asked
  <2>3. handle' = Len(builders) + 1 /\ builders' = Append(builders, [ops |-> {}, paid |-> {}])
    BY <1>3, <2>1, <2>2 DEF Ok
  <2>4. builders \in Seq([ops : SUBSET Operations, paid : SUBSET Operations])
    BY <1>1 DEF TypeOK
  <2>5. builders'[handle'] = [ops |-> {}, paid |-> {}]
    BY <2>3, <2>4, AppendProperties
  <2> QED
    BY <2>5
<1> QED
  BY <1>1, <1>4, <1>6, <1>7, <1>8 DEF OwnTransaction, ClaimIsTrue, OthersPublished, TurnOver

LEMMA OwnAdd ==
    ASSUME OnePublisher, OwnIInv, AddOperation
    PROVE  OwnTransaction' /\ ClaimIsTrue' /\ OthersPublished'
<1>1. TypeOK /\ Turns /\ OwnTransaction /\ ClaimIsTrue /\ step = "add"
  BY DEF OwnIInv, PublicationIInv, AddOperation
<1>2. UNCHANGED <<broadcast, round, price, priced, cleared, turn, handle, claimed, refused>>
  BY DEF AddOperation, roundVars
<1>3. n \in 1..Len(Assets) /\ handle \in 1..Len(builders) /\ OwnOperations' = OwnOperations
  BY <1>1, <1>2, LenProperties DEF TypeOK, Turns, OwnOperations, Operation
<1> DEFINE call == Call("add", handle, Operation(n))
<1>4. /\ \A c \in DOMAIN cache' : c \in DOMAIN cache \/ c.name = "add"
      /\ step' \in {"single", "fees", "add"}
      /\ builders' \in {builders, [builders EXCEPT ![handle].ops = @ \cup {Operation(n)}]}
  <2>1. CASE Goto("single") /\ UNCHANGED <<cache, builders>>
    BY <2>1 DEF Goto
  <2>2. ASSUME NEW answer \in Answers(call, Ok(0)), Store(call, answer),
               builders' = IF Asked(call) /\ answer.ok
                           THEN [builders EXCEPT ![handle].ops = @ \cup {Operation(n)}]
                           ELSE builders,
               IF ~answer.ok THEN Goto("single")
               ELSE IF LastAsset THEN Goto("fees")
               ELSE n' = n + 1 /\ UNCHANGED step
        PROVE  /\ \A c \in DOMAIN cache' : c \in DOMAIN cache \/ c.name = "add"
               /\ step' \in {"single", "fees", "add"}
               /\ builders' \in {builders, [builders EXCEPT ![handle].ops = @ \cup {Operation(n)}]}
    <3>1. \A c \in DOMAIN cache' : c \in DOMAIN cache \/ c.name = "add"
      <4>1. DOMAIN cache' = DOMAIN cache \cup {call}
        BY <2>2, Stored
      <4> QED
        BY <4>1 DEF Call
    <3>2. step' \in {"single", "fees", "add"}
      BY <1>1, <2>2 DEF Goto
    <3>3. builders' \in {builders, [builders EXCEPT ![handle].ops = @ \cup {Operation(n)}]}
      BY <2>2
    <3> QED
      BY <3>1, <3>2, <3>3
  <2> QED
    BY <2>1, <2>2 DEF AddOperation
<1>5. Operation(n) \in OwnOperations /\ {Operation(n)} \in SUBSET Operations
  BY <1>1, <1>3, Lists, OperationType DEF OwnOperations, Turns, Building
<1>6. builders'[handle].ops \subseteq OwnOperations
  <2>1. builders \in Seq([ops : SUBSET Operations, paid : SUBSET Operations])
    BY <1>1 DEF TypeOK
  <2>2. builders'[handle].ops \subseteq builders[handle].ops \cup {Operation(n)}
    BY <1>3, <1>4, <1>5, <2>1, Grown
  <2> QED
    BY <1>1, <1>5, <2>2 DEF OwnTransaction
<1> QED
  BY <1>1, <1>2, <1>3, <1>4, <1>6 DEF OwnTransaction, ClaimIsTrue, OthersPublished, TurnOver

LEMMA OwnFees ==
    ASSUME OnePublisher, OwnIInv, SetFees
    PROVE  OwnTransaction' /\ ClaimIsTrue' /\ OthersPublished'
<1>1. TypeOK /\ Turns /\ OwnTransaction /\ ClaimIsTrue /\ step = "fees"
  BY DEF OwnIInv, PublicationIInv, SetFees
<1>2. UNCHANGED <<broadcast, round, price, priced, cleared, turn, handle, claimed, refused>>
  BY DEF SetFees, roundVars
<1>3. handle \in 1..Len(builders) /\ OwnOperations' = OwnOperations
  BY <1>1, <1>2, LenProperties DEF TypeOK, Turns, OwnOperations, Operation
<1> DEFINE call == Call("fees", handle, NoOperation)
<1>4. PICK answer \in Answers(call, Ok(0)) :
        /\ Store(call, answer)
        /\ builders' = IF Asked(call) /\ answer.ok
                       THEN [builders EXCEPT ![handle].paid = builders[handle].ops]
                       ELSE builders
        /\ Goto(IF answer.ok THEN "sign" ELSE "single")
  BY DEF SetFees
<1>5. step' \in {"sign", "single"} /\ \A c \in DOMAIN cache' : c \in DOMAIN cache \/ c.name = "fees"
  <2>1. DOMAIN cache' = DOMAIN cache \cup {call}
    BY <1>4, Stored
  <2> QED
    BY <1>4, <2>1 DEF Goto, Call
<1>6. builders'[handle].ops \subseteq OwnOperations
  <2>1. builders \in Seq([ops : SUBSET Operations, paid : SUBSET Operations])
    BY <1>1 DEF TypeOK
  <2>2. {} \in SUBSET Operations
    OBVIOUS
  <2>3. builders' \in {builders, [builders EXCEPT ![handle].ops = @ \cup {}],
                       [builders EXCEPT ![handle].paid = builders[handle].ops]}
    BY <1>4
  <2>4. builders'[handle].ops \subseteq builders[handle].ops \cup {}
    BY <1>3, <2>1, <2>2, <2>3, Grown
  <2> QED
    BY <1>1, <2>4 DEF OwnTransaction
<1> QED
  BY <1>1, <1>2, <1>3, <1>5, <1>6 DEF OwnTransaction, ClaimIsTrue, OthersPublished, TurnOver

(* The wallet is asked to sign: all of the publisher's operations, and no other, reach *)
(* the chain.                                                                          *)
LEMMA OwnSign ==
    ASSUME OnePublisher, OwnIInv, Sign
    PROVE  /\ OwnTransaction' /\ ClaimIsTrue' /\ OthersPublished'
           /\ broadcast' \ broadcast \subseteq InRound(OwnOperations)
<1>1. /\ TypeOK /\ Turns /\ Progress /\ OwnTransaction /\ ClaimIsTrue /\ step = "sign"
  BY DEF OwnIInv, PublicationIInv, Sign
<1>2. UNCHANGED <<builders, round, price, priced, cleared, handle, refused>>
  BY DEF Sign, roundVars
<1> DEFINE call == Call("sign", handle, NoOperation)
           tx == builders[handle]
<1>3. PICK answer \in Answers(call, Ok(0)) :
        /\ Store(call, answer)
        /\ \/ Asked(call) /\ tx.ops = tx.paid /\ broadcast' = broadcast \cup InRound(tx.ops)
           \/ ~(Asked(call) /\ answer.ok) /\ UNCHANGED broadcast
        /\ IF answer.ok
           THEN claimed' = claimed \cup InRound(OwnOperations) /\ EndTurn
           ELSE Goto("single") /\ UNCHANGED <<claimed, turn>>
  BY DEF Sign
<1>4. Asked(call)
  BY <1>1 DEF OwnTransaction, Asked, Call
<1>5. tx.ops = OwnOperations
  BY <1>1 DEF OwnTransaction, Progress
<1>6. /\ broadcast \subseteq broadcast' /\ broadcast' \ broadcast \subseteq InRound(OwnOperations)
      /\ answer.ok => InRound(OwnOperations) \subseteq broadcast'
  BY <1>3, <1>4, <1>5
<1>7. ClaimIsTrue'
  BY <1>1, <1>3, <1>6 DEF ClaimIsTrue
<1>8. /\ step' \in {"turn", "single"} /\ (step' = "turn" => turn' = turn + 1)
      /\ step' = "turn" => answer.ok
  BY <1>3 DEF Goto, EndTurn
<1>9. turn \in Nat \ {0}
  BY <1>1, Lists DEF TypeOK
<1>10. OwnTransaction'
  BY <1>8, <1>9 DEF OwnTransaction
<1>11. OthersPublished'
  <2> SUFFICES ASSUME step' = "turn", NEW i \in DOMAIN Assets PROVE Finished(i)' \in broadcast'
    BY DEF OthersPublished, TurnOver
  <2>1. Finished(i)' = <<Operation(i), round>>
    BY <1>1, <1>2, <1>8, FinishedIsOwn
  <2> QED
    BY <1>6, <1>8, <2>1 DEF InRound, OwnOperations
<1> QED
  BY <1>6, <1>7, <1>10, <1>11

LEMMA OwnSingle ==
    ASSUME OnePublisher, OwnIInv, PublishSingle
    PROVE  /\ OwnTransaction' /\ ClaimIsTrue' /\ OthersPublished'
           /\ broadcast' \ broadcast \subseteq InRound(OwnOperations)
<1>1. /\ TypeOK /\ Turns /\ Progress /\ CacheIsTrue /\ ClaimIsTrue /\ step = "single"
  BY DEF OwnIInv, PublicationIInv, PublishSingle
<1>2. UNCHANGED <<builders, round, price, priced, cleared, handle>>
  BY DEF PublishSingle, roundVars
<1> DEFINE op == Operation(n)
           call == Call("publish_asset_feed", 0, op)
<1>3. /\ n \in 1..Len(Assets) /\ turn \in Nat \ {0} /\ op \in OwnOperations
  BY <1>1, Lists DEF TypeOK, OwnOperations
<1>4. IF LastAsset THEN EndTurn ELSE n' = n + 1 /\ UNCHANGED <<step, turn>>
  BY DEF PublishSingle
<1> HIDE DEF op
<1>5. /\ broadcast \subseteq broadcast' /\ broadcast' \ broadcast \subseteq InRound(OwnOperations)
      /\ ClaimIsTrue' /\ refused \subseteq refused'
      /\ <<op, round>> \in broadcast' \/ Assets[n] \in refused'
  <2>1. CASE refused' = refused \cup {Assets[n]} /\ UNCHANGED <<cache, broadcast, claimed>>
    BY <1>1, <2>1 DEF ClaimIsTrue
  <2>2. ASSUME NEW answer \in Answers(call, Ok(0)), Store(call, answer),
               IF answer.ok
               THEN /\ broadcast' = broadcast \cup (IF Asked(call) THEN InRound({op}) ELSE {})
                    /\ claimed' = claimed \cup InRound({op})
                    /\ UNCHANGED refused
               ELSE /\ refused' = refused \cup {Assets[n]}
                    /\ UNCHANGED <<broadcast, claimed>>
        PROVE  /\ broadcast \subseteq broadcast' /\ broadcast' \ broadcast \subseteq InRound(OwnOperations)
               /\ ClaimIsTrue' /\ refused \subseteq refused'
               /\ <<op, round>> \in broadcast' \/ Assets[n] \in refused'
    <3>1. answer.ok => <<op, round>> \in broadcast'
      <4>1. SUFFICES ASSUME answer.ok, ~Asked(call) PROVE <<op, round>> \in broadcast
        BY <2>2 DEF InRound
      <4>2. call \in DOMAIN cache /\ answer = cache[call]
        BY <4>1, <2>2, AnswerOf
      <4> QED
        BY <1>1, <4>1, <4>2 DEF CacheIsTrue, Call
    <3> QED
      BY <1>1, <1>3, <2>2, <3>1 DEF InRound, ClaimIsTrue
  <2> QED
    BY <2>1, <2>2 DEF PublishSingle, op
<1>6. OwnTransaction'
  BY <1>1, <1>3, <1>4 DEF OwnTransaction, EndTurn, Goto
<1>7. OthersPublished'
  <2> SUFFICES ASSUME step' = "turn", NEW i \in DOMAIN Assets
               PROVE  Finished(i)' \in broadcast' \/ Assets[i] \in refused'
    BY DEF OthersPublished, TurnOver
  <2>1. n = Len(Assets) /\ turn' = turn + 1
    BY <1>1, <1>4 DEF EndTurn, Goto, LastAsset
  <2>2. Finished(i)' = <<Operation(i), round>>
    BY <1>1, <1>2, <2>1, FinishedIsOwn
  <2>3. i \in 1..n
    BY <2>1, Lists
  <2>4. CASE i = n
    BY <1>5, <2>2, <2>4 DEF op
  <2>5. CASE i \in 1..(n - 1)
    BY <1>1, <1>5, <2>2, <2>5 DEF Progress
  <2> QED
    BY <1>3, <2>3, <2>4, <2>5
<1> QED
  BY <1>5, <1>6, <1>7

LEMMA NextOwn == OnePublisher /\ OwnIInv /\ [Next]_vars => OwnIInv'
<1> SUFFICES ASSUME OnePublisher, OwnIInv, [Next]_vars PROVE OwnIInv'
  OBVIOUS
<1>1. PublicationIInv'
  BY NextPublication DEF OwnIInv
<1>2. CASE UNCHANGED vars
  <2>1. OwnTransaction' /\ ClaimIsTrue' /\ OthersPublished'
    BY <1>2 DEF vars, OwnIInv, OwnTransaction, ClaimIsTrue, OthersPublished, TurnOver, Finished,
                OwnOperations, Operation
  <2> QED
    BY <1>1, <2>1 DEF OwnIInv
<1> QED
  BY <1>1, <1>2, OwnBetweenTurns, OwnBegin, OwnAdd, OwnFees, OwnSign, OwnSingle DEF Next, OwnIInv

LEMMA OwnInvariance == ASSUME OnePublisher PROVE Spec => []OwnIInv
<1>1. OwnIInv /\ [Next]_vars => OwnIInv'
  BY NextOwn
<1> QED
  BY <1>1, InitOwn, PTL DEF Spec
-----------------------------------------------------------------------------
(* The handles are those of transactions that exist, the lists go no further than *)
(* they are long, for any publishers (feed_publish.py:252-311).                   *)
THEOREM TypeCorrect == Spec => []TypeOK
<1>1. PublicationIInv => TypeOK
  BY DEF PublicationIInv
<1> QED
  BY <1>1, PublicationInvariance, PTL

(* "successfully published feeds for ..." (feed_publish.py:280, 298): with one      *)
(* publisher, what is logged is on the chain, whatever fails and whenever the cache *)
(* is dropped.                                                                      *)
THEOREM ClaimsAreTrue == ASSUME OnePublisher PROVE Spec => []ClaimIsTrue
<1>1. OwnIInv => ClaimIsTrue
  BY DEF OwnIInv
<1> QED
  BY <1>1, OwnInvariance, PTL

(* "at least the ones that work can get published" (feed_publish.py:289): with one *)
(* publisher, a feed that is not on the chain at the end failed on its own.        *)
THEOREM OthersArePublished == ASSUME OnePublisher PROVE Spec => []OthersPublished
<1>1. OwnIInv => OthersPublished
  BY DEF OwnIInv
<1> QED
  BY <1>1, OwnInvariance, PTL

(* With one publisher, no operation or price of an earlier round is signed again *)
(* (feed_publish.py:265-279).                                                    *)
THEOREM NothingIsStale == ASSUME OnePublisher PROVE Spec => NothingStale
<1> DEFINE New == \A b \in broadcast' \ broadcast : b[1] \in OwnOperations /\ b[2] = round
<1>1. ASSUME OwnIInv, [Next]_vars PROVE [New]_vars
  <2>1. CASE Sign \/ PublishSingle
    <3>1. broadcast' \ broadcast \subseteq InRound(OwnOperations)
      BY <1>1, <2>1, OwnSign, OwnSingle
    <3> QED
      BY <3>1 DEF InRound
  <2>2. CASE UNCHANGED broadcast
    BY <2>2
  <2> QED
    BY <1>1, <2>1, <2>2 DEF Next, BeginRound, BeginTurn, BeginTransaction, AddOperation, SetFees,
                            ClearCache, vars
<1> QED
  BY <1>1, OwnInvariance, PTL DEF Spec, NothingStale
-----------------------------------------------------------------------------
(* Induction, for the rules that are applied one after the other. *)

LEMMA InductionOnSet ==
    ASSUME NEW S, 0 \in S, \A k \in Nat : k \in S => k + 1 \in S
    PROVE  \A k \in Nat : k \in S
<1> SUFFICES ASSUME NEW m \in Nat, m \notin S PROVE FALSE
  OBVIOUS
<1> DEFINE R == {ss \in Nat \X Nat : ss[1] < ss[2]}
           T == {k \in Nat : k \notin S}
<1>1. IsWellFoundedOn(R, Nat)
  BY NatLessThanWellFounded DEF OpToRel
<1>2. T \subseteq Nat /\ T # {}
  OBVIOUS
<1>3. PICK x \in T : \A y \in T : <<y, x>> \notin R
  <2> HIDE DEF R, T
  <2> QED
    BY <1>1, <1>2, WFMin
<1>4. x # 0 /\ x - 1 \in Nat
  OBVIOUS
<1>5. x - 1 \in S
  <2>1. SUFFICES ASSUME x - 1 \notin S PROVE FALSE
    OBVIOUS
  <2>2. x - 1 \in T /\ <<x - 1, x>> \in R
    BY <1>4, <2>1
  <2> HIDE DEF R, T
  <2> QED
    BY <1>3, <2>2
<1> QED
  BY <1>4, <1>5

(* A step repeated over the places of a list goes through a sequence of values. *)
IsIteration(g, E, first, len, move) ==
    g \in [0..len -> E] /\ g[0] = first /\ \A i \in 1..len : g[i] = move[i][g[i - 1]]

LEMMA Iteration ==
    ASSUME NEW E, NEW first \in E, NEW len \in Nat
    PROVE  \A move \in [1..len -> [E -> E]] : \E g : IsIteration(g, E, first, len, move)
<1> TAKE move \in [1..len -> [E -> E]]
<1> DEFINE Until(k) == {g \in [0..k -> E] :
                          g[0] = first /\ \A i \in 1..k : g[i] = move[i][g[i - 1]]}
           S == {k \in Nat : k <= len => Until(k) # {}}
<1>1. 0 \in S
  <2>1. [i \in 0..0 |-> first] \in Until(0)
    OBVIOUS
  <2> QED
    BY <2>1
<1>2. ASSUME NEW k \in Nat, k \in S PROVE k + 1 \in S
  <2>1. SUFFICES ASSUME k + 1 <= len PROVE Until(k + 1) # {}
    OBVIOUS
  <2>2. PICK g \in [0..k -> E] : g[0] = first /\ \A i \in 1..k : g[i] = move[i][g[i - 1]]
    BY <1>2, <2>1
  <2> DEFINE h == [i \in 0..(k + 1) |-> IF i = k + 1 THEN move[k + 1][g[k]] ELSE g[i]]
  <2>3. move[k + 1][g[k]] \in E
    BY <2>1, <2>2
  <2>4. h \in [0..(k + 1) -> E]
    BY <2>2, <2>3
  <2>5. h[0] = first
    BY <2>2
  <2>6. ASSUME NEW i \in 1..(k + 1) PROVE h[i] = move[i][h[i - 1]]
    <3>1. CASE i = k + 1
      <4>1. h[i] = move[k + 1][g[k]] /\ h[i - 1] = g[k] /\ i - 1 = k
        BY <3>1
      <4> HIDE DEF h
      <4> QED
        BY <3>1, <4>1
    <3>2. CASE i \in 1..k
      <4>1. h[i] = g[i] /\ h[i - 1] = g[i - 1]
        BY <3>2
      <4> QED
        BY <2>2, <3>2, <4>1
    <3> QED
      BY <3>1, <3>2
  <2> HIDE DEF h
  <2>7. h \in Until(k + 1)
    BY <2>4, <2>5, <2>6
  <2> QED
    BY <2>7
<1> HIDE DEF S
<1>3. len \in S
  BY <1>1, <1>2, InductionOnSet
<1> QED
  BY <1>3 DEF S, IsIteration
-----------------------------------------------------------------------------
(* The rules: whatever the prices they start from, a market has entries of its own *)
(* unit only.                                                                      *)

UnitOf(market) == <<market[2], market[1]>>

UnitsOf(markets) == {UnitOf(m) : m \in markets}

OwnUnits(set, markets) ==
    /\ DOMAIN set \subseteq markets
    /\ \A m \in DOMAIN set : set[m].units \subseteq {UnitOf(m)} /\ set[m].flat \in BOOLEAN

(* The sets of prices of these markets. *)
PriceSets(markets) ==
    {set \in UNION {[D -> [units : SUBSET UnitsOf(markets), flat : BOOLEAN]] : D \in SUBSET markets} :
        \A m \in DOMAIN set : set[m].units \subseteq {UnitOf(m)}}

(* What execute_rule() works on. *)
Environments(markets) == [set : PriceSets(markets), list : SUBSET markets, raised : BOOLEAN]

LEMMA PriceSetType ==
    ASSUME NEW markets, NEW set \in PriceSets(markets)
    PROVE  /\ OwnUnits(set, markets)
           /\ set \in [DOMAIN set -> [units : SUBSET UnitsOf(markets), flat : BOOLEAN]]
<1>1. PICK D \in SUBSET markets : set \in [D -> [units : SUBSET UnitsOf(markets), flat : BOOLEAN]]
  BY DEF PriceSets
<1>2. D = DOMAIN set
  BY <1>1
<1>3. \A m \in DOMAIN set : set[m].units \subseteq {UnitOf(m)}
  BY DEF PriceSets
<1>4. \A m \in DOMAIN set : set[m].flat \in BOOLEAN
  BY <1>1, <1>2
<1> QED
  BY <1>1, <1>2, <1>3, <1>4 DEF OwnUnits

(* A price of its own unit may join a market. *)
LEMMA AddPriceStays ==
    ASSUME NEW markets, NEW set \in PriceSets(markets), NEW m \in markets,
           NEW units \in SUBSET {UnitOf(m)}
    PROVE  Computation!AddPrice(set, m, units) \in PriceSets(markets)
<1> DEFINE D == DOMAIN set \cup {m}
           entry(x) == IF x # m THEN set[x]
                       ELSE Computation!Entries(units \cup (IF m \in DOMAIN set THEN set[m].units ELSE {}), FALSE)
           new == [x \in D |-> entry(x)]
<1>1. /\ DOMAIN set \subseteq markets
      /\ set \in [DOMAIN set -> [units : SUBSET UnitsOf(markets), flat : BOOLEAN]]
      /\ \A x \in DOMAIN set : set[x].units \subseteq {UnitOf(x)} /\ set[x].flat \in BOOLEAN
  BY PriceSetType DEF OwnUnits
<1>2. UnitOf(m) \in UnitsOf(markets)
  BY DEF UnitsOf
<1>3. ASSUME NEW x \in D
      PROVE  entry(x) \in [units : SUBSET UnitsOf(markets), flat : BOOLEAN] /\ entry(x).units \subseteq {UnitOf(x)}
  <2>1. CASE x # m
    BY <1>1, <1>3, <2>1
  <2>2. CASE x = m
    BY <1>1, <1>2, <2>2 DEF Computation!Entries
  <2> QED
    BY <2>1, <2>2
<1> HIDE DEF entry
<1>4. new \in [D -> [units : SUBSET UnitsOf(markets), flat : BOOLEAN]] /\ D \in SUBSET markets
  BY <1>1, <1>3
<1>5. \A x \in DOMAIN new : new[x].units \subseteq {UnitOf(x)}
  BY <1>3
<1>6. new \in PriceSets(markets)
  <2> HIDE DEF new, D
  <2> QED
    BY <1>4, <1>5 DEF PriceSets
<1> QED
  BY <1>6 DEF entry, Computation!AddPrice

(* A rule makes a price of the unit of its market, from prices of theirs. *)
LEMMA RuleMakesUnit ==
    ASSUME NEW markets, NEW set \in PriceSets(markets), NEW r, Computation!IsSimple(r),
           Computation!CanExecute(set, r), r.rule # "publish"
    PROVE  Computation!MadeBy(set, r) \subseteq {UnitOf(r.makes)}
<1>1. \A m \in DOMAIN set : set[m].units \subseteq {UnitOf(m)}
  BY PriceSetType DEF OwnUnits
<1>2. CASE r.rule = "compose"
  <2>1. PICK m1, m2 : r = [rule |-> "compose", reads |-> <<m1, m2>>, makes |-> <<m1[1], m2[2]>>]
    BY <1>2 DEF Computation!IsSimple, Computation!Compose, Computation!Invert, Computation!Copy,
                Computation!Publish
  <2>2. /\ r.reads[1] = m1 /\ r.reads[2] = m2 /\ r.makes = <<m1[1], m2[2]>>
        /\ r.reads = <<m1, m2>>
    BY <2>1
  <2>3. m1 \in DOMAIN set /\ m2 \in DOMAIN set /\ m1[2] = m2[1]
    BY <1>2, <2>2 DEF Computation!CanExecute, Computation!Fits, Computation!Reads,
       Computation!HasPrice
  <2>4. \A u \in set[m1].units, v \in set[m2].units :
           Computation!Times(u, v) = <<m2[2], m1[1]>>
    BY <1>1, <2>3 DEF Computation!Times, UnitOf
  <2>5. Computation!MadeBy(set, r) = {Computation!Times(u, v) : u \in set[m1].units, v \in set[m2].units}
    BY <1>2, <2>2 DEF Computation!MadeBy
  <2> QED
    BY <2>2, <2>4, <2>5 DEF UnitOf
<1>3. CASE r.rule = "invert"
  <2>1. PICK m1 : r = [rule |-> "invert", reads |-> <<m1>>, makes |-> <<m1[2], m1[1]>>]
    BY <1>3 DEF Computation!IsSimple, Computation!Compose, Computation!Invert, Computation!Copy,
                Computation!Publish
  <2>2. r.reads[1] = m1 /\ r.makes = <<m1[2], m1[1]>> /\ r.reads = <<m1>>
    BY <2>1
  <2>3. m1 \in DOMAIN set
    BY <2>2 DEF Computation!CanExecute, Computation!Reads, Computation!HasPrice
  <2>4. \A u \in set[m1].units : Computation!Inverted(u) = <<m1[1], m1[2]>>
    BY <1>1, <2>3 DEF Computation!Inverted, UnitOf
  <2>5. Computation!MadeBy(set, r) = {Computation!Inverted(u) : u \in set[m1].units}
    BY <1>3, <2>2 DEF Computation!MadeBy
  <2> QED
    BY <2>2, <2>4, <2>5 DEF UnitOf
<1>4. CASE r.rule = "copy"
  BY <1>4 DEF Computation!MadeBy, UnitOf
<1> QED
  BY <1>2, <1>3, <1>4 DEF Computation!IsSimple

LEMMA ExecuteStays ==
    ASSUME NEW markets, NEW env \in Environments(markets), NEW r, Computation!IsSimple(r),
           r.makes \in markets
    PROVE  Computation!Execute(env, r) \in Environments(markets)
<1>1. env.set \in PriceSets(markets) /\ env.list \in SUBSET markets /\ env.raised \in BOOLEAN
  BY DEF Environments
<1>2. CASE ~Computation!CanExecute(env.set, r)
  BY <1>2 DEF Computation!Execute, Environments
<1>3. CASE Computation!CanExecute(env.set, r) /\ r.rule = "publish"
  BY <1>1, <1>3 DEF Computation!Execute, Environments
<1>4. CASE Computation!CanExecute(env.set, r) /\ r.rule # "publish"
  <2>1. Computation!MadeBy(env.set, r) \in SUBSET {UnitOf(r.makes)}
    BY <1>1, <1>4, RuleMakesUnit
  <2>2. Computation!AddPrice(env.set, r.makes, Computation!MadeBy(env.set, r)) \in PriceSets(markets)
    BY <1>1, <2>1, AddPriceStays
  <2> QED
    BY <1>4, <2>2 DEF Computation!Execute, Environments
<1> QED
  BY <1>2, <1>3, <1>4

(* What a loop, and then all rules, go through one after the other. *)
IsLoopRun(g, env, body, markets) ==
    /\ g \in [0..Len(body) -> Environments(markets)] /\ g[0] = env
    /\ \A i \in 1..Len(body) : g[i] = Computation!ExecuteUnlessRaised(g[i - 1], body[i])
    /\ g[Len(body)] = Computation!InOrder(Computation!ExecuteUnlessRaised, env, body)

IsRulesRun(g, env, rules, markets) ==
    /\ g \in [0..Len(rules) -> Environments(markets)] /\ g[0] = env
    /\ \A i \in 1..Len(rules) : g[i] = Computation!ExecuteHandled(g[i - 1], rules[i])
    /\ g[Len(rules)] = Computation!InOrder(Computation!ExecuteHandled, env, rules)

LEMMA LoopRuns ==
    ASSUME NEW markets, NEW env \in Environments(markets), NEW body, Computation!IsList(body),
           \A i \in DOMAIN body : Computation!IsSimple(body[i]) /\ body[i].makes \in markets
    PROVE  \E g : IsLoopRun(g, env, body, markets)
<1> DEFINE E == Environments(markets)
           len == Len(body)
           Do(e, i) == Computation!ExecuteUnlessRaised(e, body[i])
           after == CHOOSE g : g = [i \in 0..len |-> IF i = 0 THEN env ELSE Do(g[i - 1], i)]
<1>1. len \in Nat /\ DOMAIN body = 1..len
  BY DEF Computation!IsList
<1>2. ASSUME NEW e \in E, NEW i \in 1..len PROVE Do(e, i) \in E
  BY <1>1, <1>2, ExecuteStays DEF Computation!ExecuteUnlessRaised
<1>3. Computation!InOrder(Computation!ExecuteUnlessRaised, env, body) = after[len]
  BY DEF Computation!InOrder
<1> HIDE DEF E, len, Do, after
<1>4. \E g : g = [i \in 0..len |-> IF i = 0 THEN env ELSE Do(g[i - 1], i)]
  <2> DEFINE move == [i \in 1..len |-> [e \in E |-> Do(e, i)]]
  <2>1. move \in [1..len -> [E -> E]] /\ env \in E
    BY <1>2 DEF E
  <2> HIDE DEF move
  <2>2. PICK g : IsIteration(g, E, env, len, move)
    BY <1>1, <2>1, Iteration
  <2>3. ASSUME NEW i \in 1..len PROVE g[i] = Do(g[i - 1], i)
    <3>1. g[i - 1] \in E
      BY <1>1, <2>2, <2>3 DEF IsIteration
    <3> QED
      BY <2>2, <2>3, <3>1 DEF IsIteration, move
  <2>4. g = [i \in 0..len |-> IF i = 0 THEN env ELSE Do(g[i - 1], i)]
    <3>1. \A i \in 0..len : g[i] = IF i = 0 THEN env ELSE Do(g[i - 1], i)
      BY <1>1, <2>2, <2>3 DEF IsIteration
    <3> QED
      BY <2>2, <3>1 DEF IsIteration
  <2> QED
    BY <2>4
<1>5. after = [i \in 0..len |-> IF i = 0 THEN env ELSE Do(after[i - 1], i)]
  BY <1>4 DEF after
<1> DEFINE S == {k \in Nat : k <= len => after[k] \in E}
<1>6. 0 \in S
  BY <1>1, <1>5 DEF E
<1>7. ASSUME NEW k \in Nat, k \in S PROVE k + 1 \in S
  <2>1. SUFFICES ASSUME k + 1 <= len PROVE after[k + 1] \in E
    OBVIOUS
  <2>2. k + 1 \in 1..len /\ after[k + 1] = Do(after[k], k + 1)
    BY <1>1, <1>5, <2>1
  <2>3. after[k] \in E
    BY <1>1, <1>7, <2>1
  <2> QED
    BY <1>2, <2>2, <2>3
<1> HIDE DEF S
<1>8. \A k \in 0..len : after[k] \in E
  <2>1. \A k \in Nat : k \in S
    BY <1>6, <1>7, InductionOnSet
  <2> QED
    BY <1>1, <2>1 DEF S
<1>9. after \in [0..len -> E] /\ after[0] = env /\ \A i \in 1..len : after[i] = Do(after[i - 1], i)
  <2>1. after \in [0..len -> E]
    <3> DEFINE value(i) == IF i = 0 THEN env ELSE Do(after[i - 1], i)
    <3>1. after = [i \in 0..len |-> value(i)]
      BY <1>5
    <3>2. \A i \in 0..len : value(i) = after[i]
      BY <3>1
    <3> HIDE DEF value
    <3> QED
      BY <1>8, <3>1, <3>2
  <2> QED
    BY <1>1, <1>5, <2>1
<1> QED
  BY <1>3, <1>9 DEF E, len, Do, IsLoopRun

LEMMA LoopStays ==
    ASSUME NEW markets, NEW env \in Environments(markets), NEW body, Computation!IsList(body),
           \A i \in DOMAIN body : Computation!IsSimple(body[i]) /\ body[i].makes \in markets
    PROVE  Computation!InOrder(Computation!ExecuteUnlessRaised, env, body) \in Environments(markets)
<1>1. Len(body) \in Nat
  BY DEF Computation!IsList
<1>2. PICK g : IsLoopRun(g, env, body, markets)
  BY LoopRuns
<1> QED
  BY <1>1, <1>2 DEF IsLoopRun

LEMMA RulesRun ==
    ASSUME NEW markets, NEW env \in Environments(markets), NEW rules, Computation!AreRules(rules),
           Computation!Makes(rules) \subseteq markets
    PROVE  \E g : IsRulesRun(g, env, rules, markets)
<1> DEFINE E == Environments(markets)
           len == Len(rules)
           Do(e, i) == Computation!ExecuteHandled(e, rules[i])
           after == CHOOSE g : g = [i \in 0..len |-> IF i = 0 THEN env ELSE Do(g[i - 1], i)]
<1>1. len \in Nat /\ DOMAIN rules = 1..len
  BY DEF Computation!AreRules, Computation!IsList
<1>2. ASSUME NEW e \in E, NEW i \in 1..len PROVE Do(e, i) \in E
  <2> DEFINE calm == [e EXCEPT !.raised = FALSE]
             r == rules[i]
  <2>1. calm \in E
    BY <1>2 DEF Environments
  <2>2. Computation!IsRule(r) /\ i \in DOMAIN rules
    BY <1>1, <1>2 DEF Computation!AreRules
  <2>3. CASE r.rule = "loop"
    <3>1. Computation!IsList(r.body) /\ \A j \in DOMAIN r.body : Computation!IsSimple(r.body[j])
      BY <2>2, <2>3 DEF Computation!IsRule, Computation!IsSimple
    <3>2. \A j \in DOMAIN r.body : r.body[j].makes \in markets
      BY <2>2, <2>3 DEF Computation!Makes
    <3> HIDE DEF calm, r
    <3>3. Computation!InOrder(Computation!ExecuteUnlessRaised, calm, r.body) \in E
      BY <2>1, <3>1, <3>2, LoopStays
    <3> QED
      BY <2>3, <3>3 DEF calm, r, Computation!ExecuteHandled, Computation!ExecuteRule
  <2>4. CASE r.rule # "loop"
    <3>1. Computation!IsSimple(r) /\ r.makes \in markets
      BY <2>2, <2>4 DEF Computation!IsRule, Computation!Makes
    <3> HIDE DEF calm, r
    <3>2. Computation!Execute(calm, r) \in E
      BY <2>1, <3>1, ExecuteStays
    <3> QED
      BY <2>4, <3>2 DEF calm, r, Computation!ExecuteHandled, Computation!ExecuteRule
  <2> QED
    BY <2>3, <2>4
<1>3. Computation!InOrder(Computation!ExecuteHandled, env, rules) = after[len]
  BY DEF Computation!InOrder
<1> HIDE DEF E, len, Do, after
<1>4. \E g : g = [i \in 0..len |-> IF i = 0 THEN env ELSE Do(g[i - 1], i)]
  <2> DEFINE move == [i \in 1..len |-> [e \in E |-> Do(e, i)]]
  <2>1. move \in [1..len -> [E -> E]] /\ env \in E
    BY <1>2 DEF E
  <2> HIDE DEF move
  <2>2. PICK g : IsIteration(g, E, env, len, move)
    BY <1>1, <2>1, Iteration
  <2>3. ASSUME NEW i \in 1..len PROVE g[i] = Do(g[i - 1], i)
    <3>1. g[i - 1] \in E
      BY <1>1, <2>2, <2>3 DEF IsIteration
    <3> QED
      BY <2>2, <2>3, <3>1 DEF IsIteration, move
  <2>4. g = [i \in 0..len |-> IF i = 0 THEN env ELSE Do(g[i - 1], i)]
    <3>1. \A i \in 0..len : g[i] = IF i = 0 THEN env ELSE Do(g[i - 1], i)
      BY <1>1, <2>2, <2>3 DEF IsIteration
    <3> QED
      BY <2>2, <3>1 DEF IsIteration
  <2> QED
    BY <2>4
<1>5. after = [i \in 0..len |-> IF i = 0 THEN env ELSE Do(after[i - 1], i)]
  BY <1>4 DEF after
<1> DEFINE S == {k \in Nat : k <= len => after[k] \in E}
<1>6. 0 \in S
  BY <1>1, <1>5 DEF E
<1>7. ASSUME NEW k \in Nat, k \in S PROVE k + 1 \in S
  <2>1. SUFFICES ASSUME k + 1 <= len PROVE after[k + 1] \in E
    OBVIOUS
  <2>2. k + 1 \in 1..len /\ after[k + 1] = Do(after[k], k + 1)
    BY <1>1, <1>5, <2>1
  <2>3. after[k] \in E
    BY <1>1, <1>7, <2>1
  <2> QED
    BY <1>2, <2>2, <2>3
<1> HIDE DEF S
<1>8. \A k \in 0..len : after[k] \in E
  <2>1. \A k \in Nat : k \in S
    BY <1>6, <1>7, InductionOnSet
  <2> QED
    BY <1>1, <2>1 DEF S
<1>9. after \in [0..len -> E] /\ after[0] = env /\ \A i \in 1..len : after[i] = Do(after[i - 1], i)
  <2>1. after \in [0..len -> E]
    <3> DEFINE value(i) == IF i = 0 THEN env ELSE Do(after[i - 1], i)
    <3>1. after = [i \in 0..len |-> value(i)]
      BY <1>5
    <3>2. \A i \in 0..len : value(i) = after[i]
      BY <3>1
    <3> HIDE DEF value
    <3> QED
      BY <1>8, <3>1, <3>2
  <2> QED
    BY <1>1, <1>5, <2>1
<1> QED
  BY <1>3, <1>9 DEF E, len, Do, IsRulesRun

LEMMA RulesStay ==
    ASSUME NEW markets, NEW env \in Environments(markets), NEW rules, Computation!AreRules(rules),
           Computation!Makes(rules) \subseteq markets
    PROVE  Computation!InOrder(Computation!ExecuteHandled, env, rules) \in Environments(markets)
<1>1. Len(rules) \in Nat
  BY DEF Computation!AreRules, Computation!IsList
<1>2. PICK g : IsRulesRun(g, env, rules, markets)
  BY RulesRun
<1> QED
  BY <1>1, <1>2 DEF IsRulesRun
-----------------------------------------------------------------------------
(* What a rule adds to the markets that have a price. *)

PricedIn(env) == Computation!Priced(env.set)

Ready(env, r) == Computation!Reads(r) \subseteq PricedIn(env) /\ Computation!Fits(r)

MakesPrice(r, markets) == r.rule # "publish" /\ Computation!Reads(r) \subseteq markets

(* The markets from which nothing more follows by these rules. *)
IsClosed(markets, rules) == \A r \in rules : MakesPrice(r, markets) => r.makes \in markets

LEMMA ReadyExecutes ==
    ASSUME NEW env, NEW r
    PROVE  Computation!CanExecute(env.set, r) <=> Ready(env, r)
  BY DEF Computation!CanExecute, Ready, PricedIn, Computation!Priced, Computation!HasPrice

LEMMA ExecuteEffect ==
    ASSUME NEW markets, NEW env \in Environments(markets), NEW r
    PROVE  LET new == Computation!Execute(env, r)
           IN /\ Ready(env, r) => new.raised = env.raised
              /\ Ready(env, r) /\ r.rule # "publish" => PricedIn(new) = PricedIn(env) \cup {r.makes}
              /\ ~(Ready(env, r) /\ r.rule # "publish") => PricedIn(new) = PricedIn(env)
<1> DEFINE new == Computation!Execute(env, r)
           set == env.set
<1>0. env = [set |-> env.set, list |-> env.list, raised |-> env.raised]
  BY DEF Environments
<1>1. CASE ~Ready(env, r)
  <2>1. new = [env EXCEPT !.raised = TRUE]
    BY <1>1, ReadyExecutes DEF Computation!Execute
  <2>2. new.set = set
    BY <1>0, <2>1
  <2> QED
    BY <1>1, <2>2 DEF PricedIn
<1>2. CASE Ready(env, r) /\ r.rule = "publish"
  <2>1. new = [env EXCEPT !.list = @ \cup {r.makes}]
    BY <1>2, ReadyExecutes DEF Computation!Execute
  <2>2. new.set = set /\ new.raised = env.raised
    BY <1>0, <2>1
  <2> QED
    BY <1>2, <2>2 DEF PricedIn
<1>3. CASE Ready(env, r) /\ r.rule # "publish"
  <2> DEFINE units == Computation!MadeBy(set, r)
             m == r.makes
             after == Computation!AddPrice(set, m, units)
  <2>1. new = [env EXCEPT !.set = after]
    BY <1>3, ReadyExecutes DEF Computation!Execute
  <2>2. new.set = after /\ new.raised = env.raised
    BY <1>0, <2>1
  <2>3. /\ DOMAIN after = DOMAIN set \cup {m} /\ after[m].flat = FALSE
        /\ \A x \in DOMAIN set : x # m => after[x] = set[x]
    <3> HIDE DEF units, m
    <3> QED
      BY DEF Computation!AddPrice, Computation!Entries
  <2> HIDE DEF after, new, m
  <2>4. Computation!Priced(after) = Computation!Priced(set) \cup {m}
    BY <2>3 DEF Computation!Priced, Computation!HasPrice
  <2> QED
    BY <1>3, <2>2, <2>4 DEF PricedIn, new, m
<1> QED
  BY <1>1, <1>2, <1>3

(* Prices are added and never lost, and those of a closed set of markets stay in it. *)
LEMMA ExecuteGrows ==
    ASSUME NEW markets, NEW env \in Environments(markets), NEW r
    PROVE  LET new == Computation!Execute(env, r)
           IN /\ PricedIn(env) \subseteq PricedIn(new)
              /\ \A C : PricedIn(env) \subseteq C /\ IsClosed(C, {r}) => PricedIn(new) \subseteq C
  BY ExecuteEffect DEF Ready, IsClosed, MakesPrice

(* Sets of markets of which each is contained in the next, and of which none leaves *)
(* a set that contains the first.                                                   *)
LEMMA Grow ==
    ASSUME NEW len \in Nat, NEW f, \A i \in 1..len : f[i - 1] \subseteq f[i]
    PROVE  \A i, j \in 0..len : i <= j => f[i] \subseteq f[j]
<1> SUFFICES ASSUME NEW i \in 0..len PROVE \A j \in 0..len : i <= j => f[i] \subseteq f[j]
  OBVIOUS
<1> DEFINE S == {k \in Nat : i + k <= len => f[i] \subseteq f[i + k]}
<1>1. 0 \in S
  OBVIOUS
<1>2. ASSUME NEW k \in Nat, k \in S PROVE k + 1 \in S
  <2>1. SUFFICES ASSUME i + (k + 1) <= len PROVE f[i] \subseteq f[i + (k + 1)]
    OBVIOUS
  <2>2. i + (k + 1) \in 1..len /\ (i + (k + 1)) - 1 = i + k /\ f[i] \subseteq f[i + k]
    BY <1>2, <2>1
  <2> QED
    BY <2>2
<1> HIDE DEF S
<1>3. \A k \in Nat : k \in S
  BY <1>1, <1>2, InductionOnSet
<1>4. ASSUME NEW j \in 0..len, i <= j PROVE f[i] \subseteq f[j]
  <2>1. j - i \in S /\ i + (j - i) = j
    BY <1>3, <1>4
  <2> QED
    BY <2>1 DEF S
<1> QED
  BY <1>4

LEMMA StayWithin ==
    ASSUME NEW len \in Nat, NEW f, NEW C, f[0] \subseteq C,
           \A i \in 1..len : f[i - 1] \subseteq C => f[i] \subseteq C
    PROVE  \A i \in 0..len : f[i] \subseteq C
<1> DEFINE S == {k \in Nat : k <= len => f[k] \subseteq C}
<1>1. 0 \in S
  OBVIOUS
<1>2. ASSUME NEW k \in Nat, k \in S PROVE k + 1 \in S
  <2>1. SUFFICES ASSUME k + 1 <= len PROVE f[k + 1] \subseteq C
    OBVIOUS
  <2>2. k + 1 \in 1..len /\ (k + 1) - 1 = k /\ f[k] \subseteq C
    BY <1>2, <2>1
  <2> QED
    BY <2>2
<1> HIDE DEF S
<1>3. \A k \in Nat : k \in S
  BY <1>1, <1>2, InductionOnSet
<1> QED
  BY <1>3 DEF S

LEMMA LoopEffect ==
    ASSUME NEW markets, NEW env \in Environments(markets), ~env.raised, NEW body,
           Computation!IsList(body),
           \A i \in DOMAIN body : Computation!IsSimple(body[i]) /\ body[i].makes \in markets
    PROVE  LET new == Computation!InOrder(Computation!ExecuteUnlessRaised, env, body)
           IN /\ PricedIn(env) \subseteq PricedIn(new)
              /\ \A C : PricedIn(env) \subseteq C /\ IsClosed(C, {body[j] : j \in DOMAIN body})
                           => PricedIn(new) \subseteq C
              /\ \A j \in DOMAIN body :
                    (\A k \in 1..j : Ready(env, body[k])) /\ body[j].rule # "publish"
                       => body[j].makes \in PricedIn(new)
<1> DEFINE new == Computation!InOrder(Computation!ExecuteUnlessRaised, env, body)
           len == Len(body)
<1>1. len \in Nat /\ DOMAIN body = 1..len
  BY DEF Computation!IsList
<1>0. PICK g : IsLoopRun(g, env, body, markets)
  BY LoopRuns
<1>2. /\ g \in [0..len -> Environments(markets)] /\ g[0] = env
      /\ \A i \in 1..len : g[i] = Computation!ExecuteUnlessRaised(g[i - 1], body[i])
      /\ g[len] = new
  BY <1>0 DEF IsLoopRun
<1> DEFINE f == [i \in 0..len |-> PricedIn(g[i])]
<1> HIDE DEF new, len
<1>3. \A i \in 1..len : i - 1 \in 0..len /\ i \in 0..len /\ g[i - 1] \in Environments(markets)
  BY <1>1, <1>2
<1>4. f[0] = PricedIn(env) /\ f[len] = PricedIn(new)
  BY <1>1, <1>2
<1>5. ASSUME NEW i \in 1..len
      PROVE  /\ f[i - 1] \subseteq f[i]
             /\ \A C : f[i - 1] \subseteq C /\ IsClosed(C, {body[i]}) => f[i] \subseteq C
             /\ Ready(g[i - 1], body[i]) /\ ~g[i - 1].raised =>
                   ~g[i].raised /\ (body[i].rule # "publish" => body[i].makes \in f[i])
  <2>1. f[i - 1] = PricedIn(g[i - 1]) /\ f[i] = PricedIn(g[i])
    BY <1>3
  <2> HIDE DEF f
  <2>2. CASE g[i - 1].raised
    <3>1. g[i] = g[i - 1]
      BY <1>2, <2>2 DEF Computation!ExecuteUnlessRaised
    <3> QED
      BY <2>1, <2>2, <3>1
  <2>3. CASE ~g[i - 1].raised
    <3>1. g[i] = Computation!Execute(g[i - 1], body[i])
      BY <1>2, <2>3 DEF Computation!ExecuteUnlessRaised
    <3> QED
      BY <1>3, <2>1, <2>3, <3>1, ExecuteEffect, ExecuteGrows
  <2> QED
    BY <2>2, <2>3
<1> HIDE DEF f
<1>6. \A i, j \in 0..len : i <= j => f[i] \subseteq f[j]
  BY <1>1, <1>5, Grow
<1>7. PricedIn(env) \subseteq PricedIn(new)
  BY <1>1, <1>4, <1>6
<1>8. ASSUME NEW C, PricedIn(env) \subseteq C, IsClosed(C, {body[j] : j \in DOMAIN body})
      PROVE  PricedIn(new) \subseteq C
  <2>1. \A i \in 1..len : IsClosed(C, {body[i]})
    BY <1>1, <1>8 DEF IsClosed
  <2>2. \A i \in 1..len : f[i - 1] \subseteq C => f[i] \subseteq C
    BY <1>5, <2>1
  <2>3. \A i \in 0..len : f[i] \subseteq C
    BY <1>1, <1>4, <1>8, <2>2, StayWithin
  <2> QED
    BY <1>1, <1>4, <2>3
<1>9. ASSUME NEW j \in DOMAIN body, \A k \in 1..j : Ready(env, body[k]), body[j].rule # "publish"
      PROVE  body[j].makes \in PricedIn(new)
  <2>1. j \in 1..len
    BY <1>1
  <2>2. ASSUME NEW i \in 1..j PROVE Ready(g[i - 1], body[i])
    <3>1. i - 1 \in 0..len /\ 0 <= i - 1 /\ 0 \in 0..len
      BY <1>1, <2>1
    <3>2. PricedIn(env) \subseteq PricedIn(g[i - 1])
      BY <1>4, <1>6, <3>1 DEF f
    <3> QED
      BY <1>9, <3>2 DEF Ready
  <2> DEFINE S == {k \in Nat : k < j => ~g[k].raised}
  <2>3. 0 \in S
    BY <1>2
  <2>4. ASSUME NEW k \in Nat, k \in S PROVE k + 1 \in S
    <3>1. SUFFICES ASSUME k + 1 < j PROVE ~g[k + 1].raised
      OBVIOUS
    <3>2. k + 1 \in 1..j /\ k + 1 \in 1..len /\ (k + 1) - 1 = k /\ ~g[k].raised
      BY <1>1, <2>1, <2>4, <3>1
    <3>3. Ready(g[k], body[k + 1])
      BY <2>2, <3>2
    <3> QED
      BY <1>5, <3>2, <3>3
  <2> HIDE DEF S
  <2>5. j - 1 \in S
    <3>1. j - 1 \in Nat
      BY <2>1
    <3> QED
      BY <2>3, <2>4, <3>1, InductionOnSet
  <2>6. ~g[j - 1].raised /\ Ready(g[j - 1], body[j])
    BY <1>1, <2>1, <2>2, <2>5 DEF S
  <2>7. body[j].makes \in f[j]
    BY <1>5, <1>9, <2>1, <2>6
  <2>8. j \in 0..len /\ len \in 0..len /\ j <= len
    BY <1>1, <2>1
  <2> QED
    BY <1>4, <1>6, <2>7, <2>8
<1> QED
  BY <1>7, <1>8, <1>9 DEF new

(* What a rule of config.yaml does to the markets with a price, its handler included. *)
Applied(env, r, new) ==
    /\ PricedIn(env) \subseteq PricedIn(new)
    /\ \A C : PricedIn(env) \subseteq C /\ IsClosed(C, Computation!Elements(r)) => PricedIn(new) \subseteq C
    /\ r.rule # "loop" /\ r.rule # "publish" /\ Ready(env, r) => r.makes \in PricedIn(new)
    /\ r.rule = "loop" =>
          \A j \in DOMAIN r.body :
             (\A k \in 1..j : Ready(env, r.body[k])) /\ r.body[j].rule # "publish"
                => r.body[j].makes \in PricedIn(new)

LEMMA HandledEffect ==
    ASSUME NEW markets, NEW env \in Environments(markets), NEW r, Computation!IsRule(r),
           \A a \in Computation!Elements(r) : a.makes \in markets
    PROVE  Applied(env, r, Computation!ExecuteHandled(env, r))
<1> DEFINE new == Computation!ExecuteHandled(env, r)
           calm == [env EXCEPT !.raised = FALSE]
<1>1. calm \in Environments(markets) /\ ~calm.raised /\ calm.set = env.set
  BY DEF Environments
<1>2. new = Computation!ExecuteRule(calm, r)
  BY DEF Computation!ExecuteHandled
<1> HIDE DEF new, calm
<1>3. PricedIn(calm) = PricedIn(env) /\ \A a : Ready(calm, a) <=> Ready(env, a)
  BY <1>1 DEF PricedIn, Ready
<1>4. CASE r.rule = "loop"
  <2>1. Computation!IsList(r.body) /\ \A j \in DOMAIN r.body : Computation!IsSimple(r.body[j])
    BY <1>4 DEF Computation!IsRule, Computation!IsSimple
  <2>2. Computation!Elements(r) = {r.body[j] : j \in DOMAIN r.body}
    BY <1>4 DEF Computation!Elements
  <2>3. \A j \in DOMAIN r.body : r.body[j].makes \in markets
    BY <2>2
  <2>4. new = Computation!InOrder(Computation!ExecuteUnlessRaised, calm, r.body)
    BY <1>2, <1>4 DEF Computation!ExecuteRule
  <2>5. /\ PricedIn(calm) \subseteq PricedIn(new)
        /\ \A C : PricedIn(calm) \subseteq C /\ IsClosed(C, {r.body[j] : j \in DOMAIN r.body})
                     => PricedIn(new) \subseteq C
        /\ \A j \in DOMAIN r.body :
              (\A k \in 1..j : Ready(calm, r.body[k])) /\ r.body[j].rule # "publish"
                 => r.body[j].makes \in PricedIn(new)
    BY <1>1, <2>1, <2>3, <2>4, LoopEffect
  <2> QED
    BY <1>3, <1>4, <2>2, <2>5 DEF new, Applied
<1>5. CASE r.rule # "loop"
  <2>1. Computation!Elements(r) = {r}
    BY <1>5 DEF Computation!Elements
  <2>2. new = Computation!Execute(calm, r)
    BY <1>2, <1>5 DEF Computation!ExecuteRule
  <2> QED
    BY <1>1, <1>3, <1>5, <2>1, <2>2, ExecuteEffect, ExecuteGrows DEF new, Applied
<1> QED
  BY <1>4, <1>5

(* The run of all rules: run[i] is what the first i of them have made. *)
IsRun(run, env, rules, markets) ==
    /\ run \in [0..Len(rules) -> Environments(markets)] /\ run[0] = env
    /\ \A i, j \in 0..Len(rules) : i <= j => PricedIn(run[i]) \subseteq PricedIn(run[j])
    /\ \A i \in 1..Len(rules) : Applied(run[i - 1], rules[i], run[i])

LEMMA RulesEffect ==
    ASSUME NEW markets, NEW env \in Environments(markets), NEW rules, Computation!AreRules(rules),
           Computation!Makes(rules) \subseteq markets
    PROVE  \E run : /\ IsRun(run, env, rules, markets)
                    /\ run[Len(rules)] = Computation!InOrder(Computation!ExecuteHandled, env, rules)
<1> DEFINE len == Len(rules)
<1>1. len \in Nat /\ DOMAIN rules = 1..len
  BY DEF Computation!AreRules, Computation!IsList
<1>0. PICK g : IsRulesRun(g, env, rules, markets)
  BY RulesRun
<1>2. /\ g \in [0..len -> Environments(markets)] /\ g[0] = env
      /\ \A i \in 1..len : g[i] = Computation!ExecuteHandled(g[i - 1], rules[i])
      /\ g[len] = Computation!InOrder(Computation!ExecuteHandled, env, rules)
  BY <1>0 DEF IsRulesRun
<1> HIDE DEF len
<1>3. ASSUME NEW i \in 1..len
      PROVE  Applied(g[i - 1], rules[i], g[i])
  <2>1. g[i - 1] \in Environments(markets) /\ i \in DOMAIN rules
    BY <1>1, <1>2
  <2>2. Computation!IsRule(rules[i]) /\ \A a \in Computation!Elements(rules[i]) : a.makes \in markets
    BY <2>1 DEF Computation!AreRules, Computation!Elements, Computation!Makes
  <2> QED
    BY <1>2, <2>1, <2>2, HandledEffect
<1>4. \A i, j \in 0..len : i <= j => PricedIn(g[i]) \subseteq PricedIn(g[j])
  <2> DEFINE f == [i \in 0..len |-> PricedIn(g[i])]
  <2>1. \A i \in 1..len : f[i - 1] \subseteq f[i]
    BY <1>1, <1>3 DEF Applied
  <2>2. \A i \in 0..len : f[i] = PricedIn(g[i])
    OBVIOUS
  <2> HIDE DEF f
  <2>3. \A i, j \in 0..len : i <= j => f[i] \subseteq f[j]
    BY <1>1, <2>1, Grow
  <2> QED
    BY <2>2, <2>3
<1> QED
  BY <1>2, <1>3, <1>4 DEF len, IsRun

(* Whatever the rules, their run adds to the prices nothing that does not follow. *)
LEMMA RunStaysWithin ==
    ASSUME NEW markets, NEW env, NEW rules, Computation!AreRules(rules), NEW run,
           IsRun(run, env, rules, markets), NEW C, PricedIn(env) \subseteq C,
           IsClosed(C, Computation!Simple(rules))
    PROVE  PricedIn(run[Len(rules)]) \subseteq C
<1> DEFINE len == Len(rules)
           f == [i \in 0..len |-> PricedIn(run[i])]
<1>1. len \in Nat /\ DOMAIN rules = 1..len
  BY DEF Computation!AreRules, Computation!IsList
<1>2. \A i \in 1..len : IsClosed(C, Computation!Elements(rules[i]))
  BY <1>1 DEF IsClosed, MakesPrice, Computation!Simple
<1>3. ASSUME NEW i \in 1..len, f[i - 1] \subseteq C PROVE f[i] \subseteq C
  <2>1. f[i - 1] = PricedIn(run[i - 1]) /\ f[i] = PricedIn(run[i])
    BY <1>1
  <2>2. Applied(run[i - 1], rules[i], run[i]) /\ IsClosed(C, Computation!Elements(rules[i]))
    BY <1>2 DEF IsRun
  <2> HIDE DEF f, len
  <2> QED
    BY <1>3, <2>1, <2>2 DEF Applied
<1>4. f[0] \subseteq C /\ f[len] = PricedIn(run[len])
  BY <1>1 DEF IsRun
<1> HIDE DEF f, len
<1>5. \A i \in 0..len : f[i] \subseteq C
  BY <1>1, <1>3, <1>4, StayWithin
<1> QED
  BY <1>1, <1>4, <1>5 DEF len

(* What a rule reads has its price by the time of the rule, or never gets one. *)

(* What a rule reads has its price by the time of the rule, or never gets one. *)
LEMMA ReadInTime ==
    ASSUME NEW markets, NEW env, NEW rules, Computation!AreRules(rules), NEW run,
           IsRun(run, env, rules, markets), Computation!InOrderOfUse(rules),
           NEW i \in 1..Len(rules), NEW a \in Computation!Elements(rules[i])
    PROVE  Computation!Reads(a) \cap PricedIn(run[Len(rules)]) \subseteq PricedIn(run[i - 1])
<1> DEFINE len == Len(rules)
<1>1. len \in Nat /\ DOMAIN rules = 1..len /\ i \in 1..len
  BY DEF Computation!AreRules, Computation!IsList
<1> SUFFICES ASSUME NEW m \in Computation!Reads(a), m \in PricedIn(run[len]), m \notin PricedIn(run[i - 1])
             PROVE  FALSE
  OBVIOUS
<1> DEFINE C == (PricedIn(run[len]) \cup Computation!Makes(rules)) \ {m}
           rest == len - (i - 1)
           f == [k \in 0..rest |-> PricedIn(run[(i - 1) + k])]
<1> HIDE DEF len
<1>2. rest \in Nat /\ i - 1 \in 0..len /\ len \in 0..len
  BY <1>1
<1>3. f[0] = PricedIn(run[i - 1]) /\ f[rest] = PricedIn(run[len])
  BY <1>1
<1>4. f[0] \subseteq C
  <2>1. PricedIn(run[i - 1]) \subseteq PricedIn(run[len])
    BY <1>1, <1>2 DEF IsRun, len
  <2> QED
    BY <1>3, <2>1
<1>5. ASSUME NEW k \in 1..rest, f[k - 1] \subseteq C PROVE f[k] \subseteq C
  <2> DEFINE j == (i - 1) + k
  <2>1. /\ j \in 1..len /\ j >= i /\ f[k] = PricedIn(run[j])
        /\ f[k - 1] = PricedIn(run[j - 1])
    <3>1. k \in 0..rest /\ k - 1 \in 0..rest /\ j \in 1..len /\ j >= i /\ (i - 1) + (k - 1) = j - 1
      BY <1>1, <1>5
    <3>2. f[k - 1] = PricedIn(run[(i - 1) + (k - 1)])
      BY <3>1
    <3> QED
      BY <3>1, <3>2
  <2> HIDE DEF f, j
  <2>2. ASSUME NEW b \in Computation!Elements(rules[j]), MakesPrice(b, C)
        PROVE  b.makes \in C
    <3>1. b.makes \in Computation!Makes(rules)
      BY <1>1, <2>1 DEF Computation!Elements, Computation!Makes
    <3>2. b.makes # m
      <4>1. ~Computation!Uses(a, b)
        BY <1>1, <2>1 DEF Computation!InOrderOfUse
      <4>2. PICK k0 \in DOMAIN a.reads : m = a.reads[k0]
        BY DEF Computation!Reads
      <4> QED
        BY <2>2, <4>1, <4>2 DEF Computation!Uses, MakesPrice
    <3> QED
      BY <3>1, <3>2
  <2>3. Applied(run[j - 1], rules[j], run[j])
    BY <2>1 DEF IsRun, len
  <2> HIDE DEF C
  <2> QED
    BY <1>5, <2>1, <2>2, <2>3 DEF Applied, IsClosed
<1> HIDE DEF f, C, rest
<1>6. f[rest] \subseteq C
  <2>1. \A k \in 0..rest : f[k] \subseteq C
    BY <1>2, <1>4, <1>5, StayWithin
  <2> QED
    BY <1>2, <2>1
<1> QED
  BY <1>3, <1>6 DEF C

LoopMade(rules) ==
    UNION {IF rules[i].rule = "loop"
           THEN {a.makes : a \in {b \in Computation!Elements(rules[i]) : b.rule # "publish"}}
           ELSE {} : i \in DOMAIN rules}

(* A rule that has what it needs in the end had it in time. *)
LEMMA MadeInTime ==
    ASSUME NEW markets, NEW env, NEW rules, Computation!AreRules(rules), NEW run,
           IsRun(run, env, rules, markets), Computation!InOrderOfUse(rules),
           NEW i \in 1..Len(rules), NEW a \in Computation!Elements(rules[i])
    PROVE  /\ Computation!Reads(a) \subseteq PricedIn(run[Len(rules)]) \cup LoopMade(rules)
                => Ready(run[i - 1], a)
           /\ PricedIn(run[i]) \subseteq PricedIn(run[Len(rules)])
<1>1. Len(rules) \in Nat /\ DOMAIN rules = 1..Len(rules)
  BY DEF Computation!AreRules, Computation!IsList
<1>2. Computation!Fits(a)
  BY <1>1 DEF Computation!InOrderOfUse
<1>3. Computation!Reads(a) \cap LoopMade(rules) = {}
  <2>1. SUFFICES ASSUME NEW m \in Computation!Reads(a), m \in LoopMade(rules) PROVE FALSE
    OBVIOUS
  <2>2. PICK j \in DOMAIN rules :
          rules[j].rule = "loop" /\ \E b \in Computation!Elements(rules[j]) : b.rule # "publish" /\ m = b.makes
    BY <2>1 DEF LoopMade
  <2>3. PICK b \in Computation!Elements(rules[j]) : b.rule # "publish" /\ m = b.makes
    BY <2>2
  <2>4. Computation!Uses(a, b)
    BY <2>1, <2>3 DEF Computation!Uses, Computation!Reads
  <2> QED
    BY <1>1, <2>2, <2>3, <2>4 DEF Computation!InOrderOfUse
<1>4. Computation!Reads(a) \cap PricedIn(run[Len(rules)]) \subseteq PricedIn(run[i - 1])
  BY ReadInTime
<1>5. PricedIn(run[i]) \subseteq PricedIn(run[Len(rules)])
  BY <1>1 DEF IsRun
<1> QED
  BY <1>2, <1>3, <1>4, <1>5 DEF Ready

LEMMA LeftToLoops ==
    ASSUME NEW markets, NEW env, NEW rules, Computation!AreRules(rules), NEW run,
           IsRun(run, env, rules, markets), Computation!InOrderOfUse(rules)
    PROVE  IsClosed(PricedIn(run[Len(rules)]) \cup LoopMade(rules), Computation!Simple(rules))
<1> DEFINE C == PricedIn(run[Len(rules)]) \cup LoopMade(rules)
<1> SUFFICES ASSUME NEW a \in Computation!Simple(rules), MakesPrice(a, C) PROVE a.makes \in C
  BY DEF IsClosed
<1>1. DOMAIN rules = 1..Len(rules)
  BY DEF Computation!AreRules, Computation!IsList
<1>2. PICK i \in 1..Len(rules) : a \in Computation!Elements(rules[i]) /\ a.rule # "publish"
  BY <1>1 DEF Computation!Simple
<1>3. CASE rules[i].rule = "loop"
  BY <1>1, <1>2, <1>3 DEF LoopMade
<1>4. CASE rules[i].rule # "loop"
  <2>1. a = rules[i]
    BY <1>2, <1>4 DEF Computation!Elements
  <2>2. Ready(run[i - 1], a) /\ PricedIn(run[i]) \subseteq C
    BY <1>2, MadeInTime DEF MakesPrice
  <2>3. Applied(run[i - 1], rules[i], run[i])
    BY DEF IsRun
  <2> QED
    BY <1>2, <1>4, <2>1, <2>2, <2>3 DEF Applied
<1> QED
  BY <1>3, <1>4

LEMMA NothingToAdd ==
    ASSUME NEW markets, NEW env, NEW rules, Computation!AreRules(rules), NEW run,
           IsRun(run, env, rules, markets), Computation!InOrderOfUse(rules),
           NEW all, all \subseteq PricedIn(run[Len(rules)]) \cup LoopMade(rules)
    PROVE  IsClosed(PricedIn(run[Len(rules)]),
                    Computation!Simple(rules) \ Computation!LeftOut(rules, all))
<1> DEFINE final == PricedIn(run[Len(rules)])
<1> SUFFICES ASSUME NEW a \in Computation!Simple(rules), a \notin Computation!LeftOut(rules, all),
                    MakesPrice(a, final)
             PROVE  a.makes \in final
  BY DEF IsClosed
<1>1. DOMAIN rules = 1..Len(rules)
  BY DEF Computation!AreRules, Computation!IsList
<1>2. PICK i \in 1..Len(rules) : a \in Computation!Elements(rules[i]) /\ a.rule # "publish"
  BY <1>1 DEF Computation!Simple
<1>3. Ready(run[i - 1], a) /\ PricedIn(run[i]) \subseteq final
  BY <1>2, MadeInTime DEF MakesPrice
<1>4. Applied(run[i - 1], rules[i], run[i])
  BY DEF IsRun
<1>5. CASE rules[i].rule = "loop"
  <2> DEFINE body == rules[i].body
  <2>1. PICK j \in DOMAIN body : a = body[j]
    BY <1>2, <1>5 DEF Computation!Elements
  <2>2. DOMAIN body = 1..Len(body) /\ Len(body) \in Nat
    BY <1>1, <1>5 DEF Computation!AreRules, Computation!IsRule, Computation!IsSimple, Computation!IsList
  <2>3. \A k \in 1..(j - 1) : Computation!Reads(body[k]) \subseteq all
    <3>1. SUFFICES ASSUME NEW k \in 1..(j - 1), ~(Computation!Reads(body[k]) \subseteq all) PROVE FALSE
      OBVIOUS
    <3>2. a \in {body[x] : x \in {y \in DOMAIN body :
                    \E z \in 1..(y - 1) : ~(Computation!Reads(body[z]) \subseteq all)}}
      BY <2>1, <3>1
    <3> QED
      BY <1>1, <1>5, <3>2 DEF Computation!LeftOut
  <2>4. \A k \in 1..j : Ready(run[i - 1], body[k])
    <3>1. SUFFICES ASSUME NEW k \in 1..j, k # j PROVE Ready(run[i - 1], body[k])
      BY <1>3, <2>1
    <3>2. k \in 1..(j - 1) /\ k \in DOMAIN body
      BY <2>1, <2>2, <3>1
    <3>3. body[k] \in Computation!Elements(rules[i])
      BY <1>5, <3>2 DEF Computation!Elements
    <3> QED
      BY <2>3, <3>2, <3>3, MadeInTime
  <2> QED
    BY <1>2, <1>3, <1>4, <1>5, <2>1, <2>4 DEF Applied
<1>6. CASE rules[i].rule # "loop"
  <2>1. a = rules[i]
    BY <1>2, <1>6 DEF Computation!Elements
  <2> QED
    BY <1>2, <1>3, <1>4, <1>6, <2>1 DEF Applied
<1> QED
  BY <1>5, <1>6
-----------------------------------------------------------------------------
(* What follows from markets by rules. *)

LEMMA CardinalityHere == \A S : Computation!Cardinality(S) = Cardinality(S)
  BY DEF Computation!Cardinality, Cardinality

IsClosure(f, known, rules) ==
    /\ f[0] = known
    /\ \A i \in 1..Cardinality(rules) : f[i] = f[i - 1] \cup Computation!Derived(f[i - 1], rules)
    /\ Computation!Follows(known, rules) = f[Cardinality(rules)]

LEMMA FollowsRun ==
    ASSUME NEW known, NEW rules, IsFiniteSet(rules)
    PROVE  \E f : IsClosure(f, known, rules)
<1> DEFINE count == Cardinality(rules)
           Do(e) == e \cup Computation!Derived(e, rules)
           closure == CHOOSE f : f = [i \in 0..count |-> IF i = 0 THEN known ELSE Do(f[i - 1])]
           E == SUBSET (known \cup {r.makes : r \in rules})
<1>1. count \in Nat
  BY FS_CardinalityType
<1>2. Computation!Follows(known, rules) = closure[count]
  BY CardinalityHere DEF Computation!Follows
<1>3. \A e \in E : Do(e) \in E
  BY DEF Computation!Derived
<1> HIDE DEF count, Do, closure, E
<1>4. \E f : f = [i \in 0..count |-> IF i = 0 THEN known ELSE Do(f[i - 1])]
  <2> DEFINE move == [i \in 1..count |-> [e \in E |-> Do(e)]]
  <2>1. move \in [1..count -> [E -> E]] /\ known \in E
    BY <1>3 DEF E
  <2> HIDE DEF move
  <2>2. PICK g : IsIteration(g, E, known, count, move)
    BY <1>1, <2>1, Iteration
  <2>3. ASSUME NEW i \in 1..count PROVE g[i] = Do(g[i - 1])
    <3>1. g[i - 1] \in E
      BY <1>1, <2>2, <2>3 DEF IsIteration
    <3> QED
      BY <2>2, <2>3, <3>1 DEF IsIteration, move
  <2>4. g = [i \in 0..count |-> IF i = 0 THEN known ELSE Do(g[i - 1])]
    <3>1. \A i \in 0..count : g[i] = IF i = 0 THEN known ELSE Do(g[i - 1])
      BY <1>1, <2>2, <2>3 DEF IsIteration
    <3> QED
      BY <2>2, <3>1 DEF IsIteration
  <2> QED
    BY <2>4
<1>5. closure = [i \in 0..count |-> IF i = 0 THEN known ELSE Do(closure[i - 1])]
  BY <1>4 DEF closure
<1>6. closure[0] = known /\ \A i \in 1..count : closure[i] = Do(closure[i - 1])
  BY <1>1, <1>5
<1> QED
  BY <1>2, <1>6 DEF count, Do, IsClosure

(* It stays within every set from which nothing more follows, *)
LEMMA FollowsWithin ==
    ASSUME NEW known, NEW rules, IsFiniteSet(rules), \A r \in rules : r.rule # "publish",
           NEW C, known \subseteq C, IsClosed(C, rules)
    PROVE  Computation!Follows(known, rules) \subseteq C
<1> DEFINE count == Cardinality(rules)
<1>1. count \in Nat
  BY FS_CardinalityType
<1>0. PICK f : IsClosure(f, known, rules)
  BY FollowsRun
<1>2. /\ f[0] = known
      /\ \A i \in 1..count : f[i] = f[i - 1] \cup Computation!Derived(f[i - 1], rules)
      /\ Computation!Follows(known, rules) = f[count]
  BY <1>0 DEF IsClosure
<1>3. \A i \in 1..count : f[i - 1] \subseteq C => f[i] \subseteq C
  BY <1>2 DEF Computation!Derived, IsClosed, MakesPrice
<1> HIDE DEF count
<1>4. \A i \in 0..count : f[i] \subseteq C
  BY <1>1, <1>2, <1>3, StayWithin
<1> QED
  BY <1>1, <1>2, <1>4

(* and is one itself: each step makes use of a rule more, or is the last.  *)
LEMMA FollowsClosed ==
    ASSUME NEW known, NEW rules, IsFiniteSet(rules)
    PROVE  known \subseteq Computation!Follows(known, rules)
           /\ IsClosed(Computation!Follows(known, rules), rules)
<1> DEFINE count == Cardinality(rules)
<1>1. count \in Nat
  BY FS_CardinalityType
<1>0. PICK f : IsClosure(f, known, rules)
  BY FollowsRun
<1>2. /\ f[0] = known
      /\ \A i \in 1..count : f[i] = f[i - 1] \cup Computation!Derived(f[i - 1], rules)
      /\ Computation!Follows(known, rules) = f[count]
  BY <1>0 DEF IsClosure
<1> DEFINE used(k) == {r \in rules : r.makes \in f[k]}
           closed(k) == \A r \in rules : Computation!Reads(r) \subseteq f[k] => r.makes \in f[k]
           S == {k \in Nat : k <= count => closed(k) \/ Cardinality(used(k)) >= k}
<1>3. \A k : IsFiniteSet(used(k)) /\ Cardinality(used(k)) \in Nat /\ used(k) \subseteq rules
  <2>1. ASSUME NEW k PROVE IsFiniteSet(used(k)) /\ Cardinality(used(k)) \in Nat
    <3>1. used(k) \in SUBSET rules
      OBVIOUS
    <3> HIDE DEF used
    <3> QED
      BY <3>1, FS_Subset, FS_CardinalityType
  <2> QED
    BY <2>1
<1> HIDE DEF count
<1>4. 0 \in S
  <2> HIDE DEF used, closed
  <2> QED
    BY <1>3
<1>5. ASSUME NEW k \in Nat, k \in S PROVE k + 1 \in S
  <2>1. SUFFICES ASSUME k + 1 <= count PROVE closed(k + 1) \/ Cardinality(used(k + 1)) >= k + 1
    BY DEF S
  <2>2. k + 1 \in 1..count /\ (k + 1) - 1 = k
    BY <1>1, <2>1
  <2>3. f[k + 1] = f[k] \cup Computation!Derived(f[k], rules)
    BY <1>2, <2>2
  <2>4. CASE closed(k)
    <3>1. f[k + 1] = f[k]
      BY <2>3, <2>4 DEF Computation!Derived
    <3> QED
      BY <2>4, <3>1
  <2>5. CASE ~closed(k)
    <3>1. PICK r \in rules : Computation!Reads(r) \subseteq f[k] /\ r.makes \notin f[k]
      BY <2>5
    <3>2. used(k) \cup {r} \subseteq used(k + 1) /\ r \notin used(k)
      BY <2>3, <3>1 DEF Computation!Derived
    <3>3. Cardinality(used(k)) >= k
      <4> HIDE DEF used, closed
      <4> QED
        BY <1>1, <1>5, <2>1, <2>5 DEF S
    <3> HIDE DEF used, closed, S
    <3>4. IsFiniteSet(used(k) \cup {r}) /\ Cardinality(used(k) \cup {r}) = Cardinality(used(k)) + 1
      BY <1>3, <3>2, FS_AddElement
    <3>5. Cardinality(used(k) \cup {r}) <= Cardinality(used(k + 1))
      BY <1>3, <3>2, FS_Subset
    <3> QED
      BY <1>3, <3>3, <3>4, <3>5
  <2> QED
    BY <2>4, <2>5
<1>6. closed(count)
  <2>1. count \in S
    <3> HIDE DEF S
    <3> QED
      BY <1>1, <1>4, <1>5, InductionOnSet
  <2>2. CASE Cardinality(used(count)) >= count
    <3>1. used(count) = rules
      <4>1. used(count) \in SUBSET rules
        BY <1>3
      <4> HIDE DEF used, S
      <4>2. Cardinality(used(count)) <= count /\ (Cardinality(rules) = Cardinality(used(count)) => rules = used(count))
        BY <4>1, FS_Subset DEF count
      <4> QED
        BY <1>1, <1>3, <2>2, <4>2 DEF count
    <3> QED
      BY <3>1
  <2>3. CASE closed(count)
    BY <2>3
  <2> HIDE DEF used, closed
  <2> QED
    BY <1>1, <2>1, <2>2, <2>3 DEF S
<1>7. known \subseteq f[count]
  <2>1. \A i \in 1..count : f[i - 1] \subseteq f[i]
    BY <1>2
  <2>2. \A i, j \in 0..count : i <= j => f[i] \subseteq f[j]
    BY <1>1, <2>1, Grow
  <2> QED
    BY <1>1, <1>2, <2>2
<1> QED
  BY <1>2, <1>6, <1>7 DEF IsClosed, MakesPrice

(* The rules of a list are finitely many. *)
LEMMA ListFinite ==
    ASSUME NEW list, Computation!IsList(list), NEW Image, NEW F \in Surjection(DOMAIN list, Image)
    PROVE  IsFiniteSet(Image)
<1>1. IsFiniteSet(DOMAIN list)
  BY FS_Interval DEF Computation!IsList
<1> QED
  BY <1>1, FS_Surjection

LEMMA SimpleFinite ==
    ASSUME NEW rules, Computation!AreRules(rules)
    PROVE  IsFiniteSet(Computation!Simple(rules)) /\ \A r \in Computation!Simple(rules) : r.rule # "publish"
<1> DEFINE every == {Computation!Elements(rules[i]) : i \in DOMAIN rules}
<1>1. Computation!IsList(rules) /\ \A i \in DOMAIN rules : Computation!IsRule(rules[i])
  BY DEF Computation!AreRules
<1>3. ASSUME NEW i \in DOMAIN rules PROVE IsFiniteSet(Computation!Elements(rules[i]))
  <2> DEFINE r == rules[i]
  <2>1. CASE r.rule = "loop"
    <3> DEFINE F == [j \in DOMAIN r.body |-> r.body[j]]
    <3>1. Computation!IsList(r.body)
      BY <1>1, <2>1 DEF Computation!IsRule, Computation!IsSimple
    <3>2. Computation!Elements(r) = {r.body[j] : j \in DOMAIN r.body}
      BY <2>1 DEF Computation!Elements
    <3>3. F \in Surjection(DOMAIN r.body, Computation!Elements(r))
      BY <3>2 DEF Surjection
    <3> HIDE DEF F, r
    <3>4. IsFiniteSet(Computation!Elements(r))
      BY <3>1, <3>3, ListFinite
    <3> QED
      BY <3>4 DEF r
  <2>2. CASE r.rule # "loop"
    BY <2>2, FS_Singleton DEF Computation!Elements
  <2> QED
    BY <2>1, <2>2
<1>4. IsFiniteSet(every)
  <2> DEFINE F == [i \in DOMAIN rules |-> Computation!Elements(rules[i])]
  <2>1. F \in Surjection(DOMAIN rules, every)
    BY DEF Surjection
  <2> HIDE DEF F, every
  <2> QED
    BY <1>1, <2>1, ListFinite
<1>5. IsFiniteSet(UNION every)
  BY <1>3, <1>4, FS_UNION
<1>6. Computation!Simple(rules) = {r \in UNION every : r.rule # "publish"}
  BY DEF Computation!Simple
<1> HIDE DEF every
<1>7. Computation!Simple(rules) \in SUBSET (UNION every)
  BY <1>6
<1> QED
  BY <1>5, <1>6, <1>7, FS_Subset
-----------------------------------------------------------------------------
(* What the configuration in use says. *)

Clients == Computation!Clients
Known(c) == Computation!PricedMarkets(Configs[config], c)
Found(c) == Computation!FoundPrices(c)

LEMMA InUse ==
    ASSUME config \in DOMAIN Configs
    PROVE  /\ Computation!Chain \in [Clients -> {"bts", "steem"}]
           /\ Computation!HistoryLen \in Nat \ {0} /\ Computation!MaxChecks \in [Clients -> Nat]
           /\ \A c \in Clients : /\ Computation!AreRules(Computation!Rules[c])
                                 /\ Computation!Makes(Computation!Rules[c]) \subseteq Known(c)
                                 /\ DOMAIN Computation!Markets[c] \subseteq Known(c)
                                 /\ \A m \in DOMAIN Computation!Markets[c] : Computation!IsMarket(m)
                                 /\ Computation!Chain[c] = "steem" => "STEEM" \in Computation!BitAssets
  BY ConfigsAssumption DEF Computation!PricesAssumption, Computation!Chain, Clients,
     Computation!Clients, Computation!HistoryLen, Computation!MaxChecks, Computation!Rules,
     Computation!Markets, Computation!BitAssets, Known, Computation!PricedMarkets

(* A market is a pair, one made by a rule too. *)
LEMMA SimpleMakesMarket ==
    ASSUME NEW r, Computation!IsSimple(r)
    PROVE  Computation!IsMarket(r.makes)
  BY DEF Computation!IsSimple, Computation!IsMarket, Computation!Compose, Computation!Invert

LEMMA KnownAreMarkets ==
    ASSUME config \in DOMAIN Configs, NEW c \in Clients
    PROVE  \A m \in Known(c) : Computation!IsMarket(m)
<1> DEFINE rules == Computation!Rules[c]
<1>1. Computation!AreRules(rules) /\ \A m \in DOMAIN Computation!Markets[c] : Computation!IsMarket(m)
  BY InUse
<1>2. ASSUME NEW m \in Computation!Makes(rules) PROVE Computation!IsMarket(m)
  <2>1. PICK i \in DOMAIN rules :
           m \in IF rules[i].rule = "loop" THEN {rules[i].body[j].makes : j \in DOMAIN rules[i].body}
                 ELSE {rules[i].makes}
    BY <1>2 DEF Computation!Makes
  <2> DEFINE r == rules[i]
  <2>2. Computation!IsRule(r)
    BY <1>1 DEF Computation!AreRules
  <2>3. CASE r.rule = "loop"
    <3>1. PICK j \in DOMAIN r.body : m = r.body[j].makes
      BY <2>1, <2>3
    <3>2. Computation!IsSimple(r.body[j])
      BY <2>2, <2>3 DEF Computation!IsRule, Computation!IsSimple
    <3> QED
      BY <3>1, <3>2, SimpleMakesMarket
  <2>4. CASE r.rule # "loop"
    <3>1. m = r.makes /\ Computation!IsSimple(r)
      BY <2>1, <2>2, <2>4 DEF Computation!IsRule
    <3> QED
      BY <3>1, SimpleMakesMarket
  <2> QED
    BY <2>3, <2>4
<1> QED
  BY <1>1, <1>2 DEF Known, Computation!PricedMarkets, Computation!Rules, Computation!Markets

(* The unit in which the prices of an asset are recorded, and those it might be. *)
HistoryUnit(a) ==
    IF a = "STEEM" THEN <<"USD", "STEEM">> ELSE IF a = "ALTCAP" THEN <<"ALTCAP", "BTC">> ELSE <<a, "BTS">>

RecordedUnits(a) == {<<a, "BTS">>, <<"ALTCAP", "BTC">>, <<"USD", "STEEM">>}

LEMMA FoundType ==
    ASSUME config \in DOMAIN Configs, NEW c \in Clients, OwnUnits(result[c], Known(c))
    PROVE  \A a \in DOMAIN Found(c) :
              /\ Found(c)[a] \subseteq RecordedUnits(a)
              /\ Computation!OneBase => Found(c)[a] \subseteq {HistoryUnit(a)}
<1> DEFINE set == result[c]
<1>1. /\ DOMAIN set \subseteq Known(c)
      /\ \A m \in DOMAIN set : set[m].units \subseteq {UnitOf(m)}
      /\ \A m \in DOMAIN set : m = <<m[1], m[2]>>
  BY KnownAreMarkets DEF Computation!IsMarket, OwnUnits
<1>2. CASE Computation!Chain[c] = "bts"
  <2> DEFINE direct == {m[1] : m \in {x \in DOMAIN set : x[2] = "BTS"}}
             altcap == DOMAIN set \cap {<<"ALTCAP", "BTC">>}
             source == [a \in direct \cup {m[1] : m \in altcap} |->
                          IF a = "ALTCAP" /\ altcap # {} THEN <<"ALTCAP", "BTC">> ELSE <<a, "BTS">>]
             found == [a \in DOMAIN source |-> {Computation!Inverted(u) : u \in set[source[a]].units}]
  <2>1. Found(c) = found
    BY <1>2 DEF Found, Computation!FoundPrices, Computation!OfBitShares
  <2>2. Computation!OneBase => /\ <<"ALTCAP", "BTS">> \notin DOMAIN set
                               /\ <<"STEEM", "BTS">> \notin DOMAIN set
    <3>1. Computation!OneBase => Known(c) \cap {<<"ALTCAP", "BTS">>, <<"STEEM", "BTS">>} = {}
      BY <1>2 DEF Computation!OneBase, Known, Computation!Chain, Clients, Computation!Clients
    <3> QED
      BY <1>1, <3>1
  <2>3. ASSUME NEW a \in DOMAIN source
        PROVE  \/ a = "ALTCAP" /\ source[a] = <<"ALTCAP", "BTC">> /\ source[a] \in DOMAIN set
               \/ source[a] = <<a, "BTS">> /\ <<a, "BTS">> \in DOMAIN set
    <3>1. CASE a = "ALTCAP" /\ altcap # {}
      BY <3>1
    <3>2. CASE ~(a = "ALTCAP" /\ altcap # {})
      <4>1. source[a] = <<a, "BTS">>
        BY <3>2
      <4>2. a \in direct
        BY <3>2
      <4>3. PICK m \in DOMAIN set : m[2] = "BTS" /\ m[1] = a
        BY <4>2
      <4>4. m = <<a, "BTS">>
        BY <1>1, <4>3
      <4> QED
        BY <4>1, <4>3, <4>4
    <3> QED
      BY <3>1, <3>2
  <2> HIDE DEF source
  <2>4. ASSUME NEW a \in DOMAIN source
        PROVE  found[a] \subseteq {source[a]} /\ source[a] \in DOMAIN set
    <3>1. source[a] \in DOMAIN set /\ source[a] = <<source[a][1], source[a][2]>>
      BY <1>1, <2>3
    <3>2. \A u \in set[source[a]].units : Computation!Inverted(u) = source[a]
      BY <1>1, <3>1 DEF Computation!Inverted, UnitOf
    <3> QED
      BY <3>1, <3>2
  <2> HIDE DEF found
  <2>5. DOMAIN found = DOMAIN source
    BY DEF found
  <2>6. ASSUME NEW a \in DOMAIN source
        PROVE  /\ source[a] \in RecordedUnits(a)
               /\ Computation!OneBase => source[a] = HistoryUnit(a)
    BY <2>2, <2>3 DEF RecordedUnits, HistoryUnit
  <2> QED
    BY <2>1, <2>4, <2>5, <2>6
<1>3. CASE Computation!Chain[c] # "bts"
  <2> DEFINE found == [a \in IF Computation!HasPrice(set, <<"STEEM", "USD">>) THEN {"STEEM"} ELSE {} |->
                         set[<<"STEEM", "USD">>].units]
  <2>1. Found(c) = found
    BY <1>3 DEF Found, Computation!FoundPrices, Computation!OfSteem
  <2>2. ASSUME NEW a \in DOMAIN found
        PROVE  a = "STEEM" /\ found[a] \subseteq {<<"USD", "STEEM">>}
    <3>1. a = "STEEM" /\ <<"STEEM", "USD">> \in DOMAIN set /\ found[a] = set[<<"STEEM", "USD">>].units
      BY DEF Computation!HasPrice
    <3>2. set[<<"STEEM", "USD">>].units \subseteq {<<"USD", "STEEM">>}
      BY <1>1, <3>1 DEF UnitOf
    <3> QED
      BY <3>1, <3>2
  <2> HIDE DEF found
  <2> QED
    BY <2>1, <2>2 DEF RecordedUnits, HistoryUnit
<1> QED
  BY <1>2, <1>3
-----------------------------------------------------------------------------
(* The invariant of the prices. *)

PerClient(f) == f = [c \in Clients |-> f[c]]

PricesTypes ==
    /\ Computation!TypeOK
    /\ PerClient(checks) /\ PerClient(usable) /\ PerClient(result) /\ PerClient(toPublish)
    /\ PerClient(published)
    /\ \A c \in Clients : OwnUnits(result[c], Known(c))
    /\ history = [a \in Computation!BitAssets |-> history[a]]
    /\ \A a \in Computation!BitAssets : history[a] \in Seq(SUBSET RecordedUnits(a))

(* What a client has found is known to all whose check goes on; what `feeds` holds  *)
(* when a client comes to publish was found since its check began, by it or another. *)
KnownToAll ==
    /\ \A d \in Clients : at[d] = "recorded" =>
          /\ DOMAIN Found(d) \subseteq Computation!BitAssets
          /\ \A c \in Clients : at[c] # "waiting" => DOMAIN Found(d) \subseteq since[c]
    /\ \A c \in Clients :
          /\ at[c] = "publishing" => feeds \subseteq since[c]
          /\ at[c] # "over" => published[c] = {}

PricesIInv == PricesTypes /\ KnownToAll /\ Recent

(* A history holds prices of the unit of its asset. *)
InOneUnit ==
    \A a \in Computation!BitAssets :
        \A i \in 1..Len(history[a]) : history[a][i] \subseteq {HistoryUnit(a)}

(* The configuration does not change. *)
LEMMA ConfigKept ==
    ASSUME config' = config
    PROVE  /\ Clients' = Clients /\ Computation!BitAssets' = Computation!BitAssets
           /\ Computation!Chain' = Computation!Chain /\ Computation!HistoryLen' = Computation!HistoryLen
           /\ Computation!MaxChecks' = Computation!MaxChecks /\ Computation!Markets' = Computation!Markets
           /\ \A c : Known(c)' = Known(c)
  BY DEF Clients, Computation!Clients, Computation!BitAssets, Computation!Chain, Computation!HistoryLen,
         Computation!MaxChecks, Computation!Markets, Known, Computation!PricedMarkets

LEMMA FoundKept ==
    ASSUME config' = config, NEW c, result'[c] = result[c]
    PROVE  Found(c)' = Found(c)
  BY ConfigKept DEF Found, Computation!FoundPrices

LEMMA InitPrices == Computation!Init => PricesIInv
<1> SUFFICES ASSUME Computation!Init PROVE PricesIInv
  OBVIOUS
<1>1. config \in DOMAIN Configs
  BY DEF Computation!Init
<1>2. Computation!MaxChecks \in [Clients -> Nat] /\ Computation!HistoryLen \in Nat
  BY <1>1, InUse
<1>3. \A c \in Clients : result[c] = <<>> /\ DOMAIN result[c] = {} /\ published[c] = {} /\ at[c] = "waiting"
  BY DEF Computation!Init, Clients
<1>4. \A a \in Computation!BitAssets : history[a] = <<>> /\ Len(history[a]) = 0
                                       /\ history[a] \in Seq(SUBSET RecordedUnits(a))
  BY EmptySeq DEF Computation!Init
<1>5. Computation!TypeOK
  BY <1>1, <1>2, <1>3, <1>4 DEF Computation!Init, Computation!TypeOK, Clients
<1>6. PricesTypes
  BY <1>3, <1>4, <1>5 DEF PricesTypes, PerClient, OwnUnits, Computation!Init, Clients
<1>7. KnownToAll
  BY <1>3 DEF KnownToAll
<1>8. Recent
  BY <1>3 DEF Recent, Computation!Recent, Clients
<1> QED
  BY <1>6, <1>7, <1>8 DEF PricesIInv

(* A step that leaves alone what a check has computed, and the histories. *)
LEMMA TypesOfTheRest ==
    ASSUME PricesTypes, UNCHANGED <<config, checks, usable, result, toPublish, history>>,
           at' \in [Clients -> {"waiting", "computed", "recorded", "publishing", "over"}],
           feeds' \subseteq Computation!BitAssets, since' = since,
           PerClient(published)',
           \A c \in Clients : published'[c] \subseteq Computation!BitAssets
    PROVE  PricesTypes'
<1>1. /\ Clients' = Clients /\ Computation!BitAssets' = Computation!BitAssets
      /\ Computation!HistoryLen' = Computation!HistoryLen
      /\ Computation!MaxChecks' = Computation!MaxChecks /\ Computation!Markets' = Computation!Markets
      /\ \A c : Known(c)' = Known(c)
  BY ConfigKept
<1>2. Computation!TypeOK'
  BY <1>1 DEF PricesTypes, Computation!TypeOK, Clients
<1>3. PerClient(checks)' /\ PerClient(usable)' /\ PerClient(result)' /\ PerClient(toPublish)'
  BY <1>1 DEF PricesTypes, PerClient
<1>4. /\ \A c \in Clients' : OwnUnits(result[c], Known(c))'
      /\ (history = [a \in Computation!BitAssets |-> history[a]])'
      /\ \A a \in Computation!BitAssets' : history'[a] \in Seq(SUBSET RecordedUnits(a))
  BY <1>1 DEF PricesTypes, OwnUnits
<1> QED
  BY <1>2, <1>3, <1>4 DEF PricesTypes

LEMMA SetFeedsStep ==
    ASSUME PricesIInv, NEW c \in Clients, Computation!SetFeeds(c)
    PROVE  PricesIInv'
<1>1. /\ PricesTypes /\ KnownToAll /\ Recent /\ Computation!TypeOK
      /\ at \in [Clients -> {"waiting", "computed", "recorded", "publishing", "over"}]
  BY DEF PricesIInv, PricesTypes, Computation!TypeOK, Clients
<1>2. /\ at[c] = "recorded" /\ feeds' = DOMAIN Found(c) /\ at' = [at EXCEPT ![c] = "publishing"]
      /\ UNCHANGED <<config, checks, usable, result, toPublish, history, since, published>>
  BY DEF Computation!SetFeeds, Computation!Goes, Found
<1>3. /\ Clients' = Clients /\ Computation!BitAssets' = Computation!BitAssets
      /\ Computation!Chain' = Computation!Chain /\ \A d \in Clients : Found(d)' = Found(d)
  BY <1>2, ConfigKept, FoundKept
<1>4. DOMAIN Found(c) \subseteq Computation!BitAssets /\ \A d \in Clients : at[d] # "waiting" =>
                                                      DOMAIN Found(c) \subseteq since[d]
  BY <1>1, <1>2 DEF KnownToAll
<1>5. PricesTypes'
  <2>1. at' \in [Clients -> {"waiting", "computed", "recorded", "publishing", "over"}]
    BY <1>1, <1>2
  <2>2. PerClient(published)' /\ \A d \in Clients : published'[d] \subseteq Computation!BitAssets
    BY <1>1, <1>2, <1>3 DEF PricesTypes, PerClient, Computation!TypeOK, Clients
  <2> QED
    BY <1>1, <1>2, <1>4, <2>1, <2>2, TypesOfTheRest
<1>6. KnownToAll'
  BY <1>1, <1>2, <1>3, <1>4 DEF KnownToAll
<1>7. Recent'
  BY <1>1, <1>2, <1>3 DEF Recent, Computation!Recent, Clients
<1> QED
  BY <1>5, <1>6, <1>7 DEF PricesIInv

LEMMA LeaveStep ==
    ASSUME PricesIInv, NEW c \in Clients,
           Computation!RaiseBeforeRecording(c) \/ Computation!PublishNothing(c)
    PROVE  PricesIInv'
<1>1. /\ PricesTypes /\ KnownToAll /\ Recent /\ Computation!TypeOK
      /\ at \in [Clients -> {"waiting", "computed", "recorded", "publishing", "over"}]
  BY DEF PricesIInv, PricesTypes, Computation!TypeOK, Clients
<1>2. /\ at[c] # "waiting" /\ at' = [at EXCEPT ![c] = "over"]
      /\ UNCHANGED <<config, checks, usable, result, toPublish, history, feeds, since, published>>
  BY DEF Computation!RaiseBeforeRecording, Computation!PublishNothing, Computation!Goes
<1>3. /\ Clients' = Clients /\ Computation!BitAssets' = Computation!BitAssets
      /\ Computation!Chain' = Computation!Chain /\ \A d \in Clients : Found(d)' = Found(d)
  BY <1>2, ConfigKept, FoundKept
<1>4. PricesTypes'
  <2>1. at' \in [Clients -> {"waiting", "computed", "recorded", "publishing", "over"}]
    BY <1>1, <1>2
  <2>2. PerClient(published)' /\ \A d \in Clients : published'[d] \subseteq Computation!BitAssets
    BY <1>1, <1>2, <1>3 DEF PricesTypes, PerClient, Computation!TypeOK, Clients
  <2>3. feeds' \subseteq Computation!BitAssets
    BY <1>1, <1>2 DEF Computation!TypeOK
  <2> QED
    BY <1>1, <1>2, <2>1, <2>2, <2>3, TypesOfTheRest
<1>5. KnownToAll'
  BY <1>1, <1>2, <1>3 DEF KnownToAll
<1>6. Recent'
  BY <1>1, <1>2, <1>3 DEF Recent, Computation!Recent, Clients
<1> QED
  BY <1>4, <1>5, <1>6 DEF PricesIInv

(* What is published on BitShares is in `feeds`. *)
LEMMA PublishStep ==
    ASSUME PricesIInv, NEW c \in Clients,
           Computation!PublishBitShares(c) \/ Computation!PublishSteem(c)
    PROVE  PricesIInv'
<1>1. /\ PricesTypes /\ KnownToAll /\ Recent /\ Computation!TypeOK
      /\ at \in [Clients -> {"waiting", "computed", "recorded", "publishing", "over"}]
      /\ published = [d \in Clients |-> published[d]]
  BY DEF PricesIInv, PricesTypes, Computation!TypeOK, Clients, PerClient
<1>2. PICK assets : /\ published' = [published EXCEPT ![c] = assets]
                    /\ \/ Computation!Chain[c] = "bts" /\ assets \subseteq feeds
                       \/ Computation!Chain[c] = "steem" /\ assets = {"STEEM"}
  <2>1. CASE Computation!PublishBitShares(c)
    <3>1. toPublish[c] \subseteq Computation!MedianFeeds /\ Computation!Chain[c] = "bts"
          /\ published' = [published EXCEPT ![c] = {m[1] : m \in toPublish[c]}]
      BY <2>1 DEF Computation!PublishBitShares
    <3>2. {m[1] : m \in toPublish[c]} \subseteq feeds
      BY <3>1 DEF Computation!MedianFeeds
    <3> QED
      BY <3>1, <3>2
  <2>2. CASE Computation!PublishSteem(c)
    BY <2>2 DEF Computation!PublishSteem
  <2> QED
    BY <2>1, <2>2
<1>3. /\ at[c] = "publishing" /\ at' = [at EXCEPT ![c] = "over"]
      /\ UNCHANGED <<config, checks, usable, result, toPublish, history, feeds, since>>
  BY DEF Computation!PublishBitShares, Computation!PublishSteem, Computation!Goes
<1>4. /\ Clients' = Clients /\ Computation!BitAssets' = Computation!BitAssets
      /\ Computation!Chain' = Computation!Chain /\ \A d \in Clients : Found(d)' = Found(d)
  BY <1>3, ConfigKept, FoundKept
<1>5. /\ published'[c] = assets /\ \A d \in Clients : d # c => published'[d] = published[d]
      /\ PerClient(published)'
  BY <1>1, <1>2, <1>4 DEF PerClient
<1>6. PricesTypes'
  <2>1. at' \in [Clients -> {"waiting", "computed", "recorded", "publishing", "over"}]
    BY <1>1, <1>3
  <2>2. feeds' \subseteq Computation!BitAssets
    BY <1>1, <1>3 DEF Computation!TypeOK
  <2>3. assets \subseteq Computation!BitAssets
    <3>1. config \in DOMAIN Configs
      BY <1>1 DEF Computation!TypeOK
    <3>2. Computation!Chain[c] = "steem" => "STEEM" \in Computation!BitAssets
      BY <3>1, InUse
    <3> QED
      BY <1>2, <1>3, <2>2, <3>2
  <2>4. \A d \in Clients : published'[d] \subseteq Computation!BitAssets
    BY <1>1, <1>5, <2>3 DEF Computation!TypeOK, Clients
  <2> QED
    BY <1>1, <1>3, <1>5, <2>1, <2>2, <2>4, TypesOfTheRest
<1>7. KnownToAll'
  BY <1>1, <1>3, <1>4, <1>5 DEF KnownToAll
<1>8. Recent'
  <2>1. feeds \subseteq since[c]
    BY <1>1, <1>3 DEF KnownToAll
  <2> QED
    BY <1>1, <1>2, <1>3, <1>4, <1>5, <2>1 DEF Recent, Computation!Recent, Clients
<1> QED
  BY <1>6, <1>7, <1>8 DEF PricesIInv

(* The providers' prices are of the units of their markets, and the rules keep them so. *)
Fetched(answered, flat) == [m \in answered |-> Computation!Entries({<<m[2], m[1]>>}, m \in flat)]

Computed(c, answered, flat) == Computation!ApplyRules(Fetched(answered, flat), Computation!Rules[c])

(* What the rules start from, and what they are applied in. *)
Start(answered, flat) == [set |-> Fetched(answered, flat), list |-> {}, raised |-> FALSE]

LEMMA StartType ==
    ASSUME config \in DOMAIN Configs, NEW c \in Clients,
           NEW answered \in SUBSET DOMAIN Computation!Markets[c], NEW flat
    PROVE  /\ Start(answered, flat) \in Environments(Known(c))
           /\ PricedIn(Start(answered, flat)) = answered \ flat
<1> DEFINE entry(m) == Computation!Entries({<<m[2], m[1]>>}, m \in flat)
           fetched == [m \in answered |-> entry(m)]
<1>1. answered \subseteq Known(c)
  BY InUse
<1>2. ASSUME NEW m \in answered
      PROVE  /\ entry(m) \in [units : SUBSET UnitsOf(Known(c)), flat : BOOLEAN]
             /\ entry(m).units = {UnitOf(m)} /\ (entry(m).flat <=> m \in flat)
  <2>1. (m \in flat) \in BOOLEAN
    OBVIOUS
  <2> DEFINE f == m \in flat
  <2>2. {<<m[2], m[1]>>} \in SUBSET UnitsOf(Known(c))
    BY <1>1, <1>2 DEF UnitsOf, UnitOf
  <2> HIDE DEF f
  <2>3. f \in BOOLEAN
    BY <2>1 DEF f
  <2>4. /\ Computation!Entries({<<m[2], m[1]>>}, f) \in [units : SUBSET UnitsOf(Known(c)), flat : BOOLEAN]
        /\ Computation!Entries({<<m[2], m[1]>>}, f).units = {UnitOf(m)}
        /\ Computation!Entries({<<m[2], m[1]>>}, f).flat = f
    BY <2>2, <2>3 DEF Computation!Entries, UnitOf
  <2> QED
    BY <2>4 DEF f
<1> HIDE DEF entry
<1>3. fetched \in PriceSets(Known(c))
  <2>1. fetched \in [answered -> [units : SUBSET UnitsOf(Known(c)), flat : BOOLEAN]]
    BY <1>2
  <2>2. \A m \in DOMAIN fetched : fetched[m].units \subseteq {UnitOf(m)}
    BY <1>2
  <2> HIDE DEF fetched
  <2> QED
    BY <1>1, <2>1, <2>2 DEF PriceSets
<1>4. Computation!Priced(fetched) = answered \ flat
  BY <1>2 DEF Computation!Priced, Computation!HasPrice
<1>5. Fetched(answered, flat) = fetched
  BY DEF Fetched, entry
<1> HIDE DEF fetched
<1> QED
  BY <1>3, <1>4, <1>5 DEF Start, Environments, PricedIn

LEMMA ComputedUnits ==
    ASSUME config \in DOMAIN Configs, NEW c \in Clients,
           NEW answered \in SUBSET DOMAIN Computation!Markets[c], NEW flat
    PROVE  OwnUnits(Computed(c, answered, flat).set, Known(c))
<1> DEFINE env == Computed(c, answered, flat)
<1>1. Computation!AreRules(Computation!Rules[c]) /\ Computation!Makes(Computation!Rules[c]) \subseteq Known(c)
  BY InUse
<1>2. env = Computation!InOrder(Computation!ExecuteHandled, Start(answered, flat), Computation!Rules[c])
  BY DEF Computed, Computation!ApplyRules, Start
<1> HIDE DEF env
<1>3. env \in Environments(Known(c))
  BY <1>1, <1>2, StartType, RulesStay
<1> QED
  BY <1>3, PriceSetType DEF Environments, env

Sets(c, answered, flat) ==
    /\ usable' = [usable EXCEPT ![c] = answered \ flat]
    /\ result' = [result EXCEPT ![c] = Computed(c, answered, flat).set]
    /\ toPublish' = [toPublish EXCEPT ![c] = Computed(c, answered, flat).list]

LEMMA ComputeResult ==
    ASSUME NEW c \in Clients, Computation!Compute(c)
    PROVE  \E answered \in SUBSET DOMAIN Computation!Markets[c] : \E flat : Sets(c, answered, flat)
<1>1. PICK answered \in SUBSET DOMAIN Computation!Markets[c] :
        \E flat \in SUBSET {m \in answered : Computation!Markets[c][m] > 1} :
          LET fetched == [m \in answered |-> Computation!Entries({<<m[2], m[1]>>}, m \in flat)]
              env == Computation!ApplyRules(fetched, Computation!Rules[c])
          IN /\ usable' = [usable EXCEPT ![c] = answered \ flat]
             /\ result' = [result EXCEPT ![c] = env.set]
             /\ toPublish' = [toPublish EXCEPT ![c] = env.list]
  BY DEF Computation!Compute
<1>2. PICK flat :
          LET fetched == [m \in answered |-> Computation!Entries({<<m[2], m[1]>>}, m \in flat)]
              env == Computation!ApplyRules(fetched, Computation!Rules[c])
          IN /\ usable' = [usable EXCEPT ![c] = answered \ flat]
             /\ result' = [result EXCEPT ![c] = env.set]
             /\ toPublish' = [toPublish EXCEPT ![c] = env.list]
  BY <1>1
<1> QED
  BY <1>2 DEF Sets, Computed, Fetched

LEMMA ComputeStep ==
    ASSUME PricesIInv, NEW c \in Clients, Computation!Compute(c)
    PROVE  PricesIInv'
<1>1. /\ PricesTypes /\ KnownToAll /\ Recent /\ Computation!TypeOK
      /\ config \in DOMAIN Configs
      /\ at \in [Clients -> {"waiting", "computed", "recorded", "publishing", "over"}]
      /\ since \in [Clients -> SUBSET Computation!BitAssets]
  BY DEF PricesIInv, PricesTypes, Computation!TypeOK, Clients
<1> DEFINE others == {d \in Clients : at[d] = "recorded"}
           before == UNION {DOMAIN Found(d) : d \in others}
<1>2. /\ at[c] = "waiting" /\ checks[c] < Computation!MaxChecks[c]
      /\ checks' = [checks EXCEPT ![c] = @ + 1]
      /\ since' = [since EXCEPT ![c] = before]
      /\ at' = [at EXCEPT ![c] = "computed"]
      /\ UNCHANGED <<config, history, feeds, published>>
  BY DEF Computation!Compute, Computation!Goes, Clients, Found
<1>3. PICK got, set, list :
         /\ got \subseteq DOMAIN Computation!Markets[c] /\ OwnUnits(set, Known(c))
         /\ usable' = [usable EXCEPT ![c] = got]
         /\ result' = [result EXCEPT ![c] = set]
         /\ toPublish' = [toPublish EXCEPT ![c] = list]
  <2>1. PICK answered \in SUBSET DOMAIN Computation!Markets[c] : \E flat : Sets(c, answered, flat)
    BY ComputeResult
  <2>2. PICK flat : Sets(c, answered, flat)
    BY <2>1
  <2> QED
    BY <1>1, <2>2, ComputedUnits DEF Sets
<1>4. /\ Clients' = Clients /\ Computation!BitAssets' = Computation!BitAssets
      /\ Computation!Chain' = Computation!Chain /\ Computation!HistoryLen' = Computation!HistoryLen
      /\ Computation!MaxChecks' = Computation!MaxChecks /\ Computation!Markets' = Computation!Markets
      /\ \A d : Known(d)' = Known(d)
  BY <1>2, ConfigKept
<1>5. /\ PerClient(checks) /\ PerClient(usable) /\ PerClient(result) /\ PerClient(toPublish)
      /\ PerClient(published)
  BY <1>1 DEF PricesTypes
<1>6. /\ result'[c] = set /\ \A d \in Clients : d # c => result'[d] = result[d]
      /\ usable'[c] = got /\ \A d \in Clients : d # c => usable'[d] = usable[d]
      /\ checks'[c] = checks[c] + 1 /\ \A d \in Clients : d # c => checks'[d] = checks[d]
  BY <1>2, <1>3, <1>5 DEF PerClient
<1>7. \A d \in Clients : d # c => Found(d)' = Found(d)
  BY <1>2, <1>6, FoundKept
<1>8. before \subseteq Computation!BitAssets
  BY <1>1 DEF KnownToAll
<1>9. PricesTypes'
  <2>1. /\ at' \in [Clients -> {"waiting", "computed", "recorded", "publishing", "over"}]
        /\ since' \in [Clients -> SUBSET Computation!BitAssets]
    BY <1>1, <1>2, <1>8
  <2>2. \A d \in Clients : checks'[d] \in 0..Computation!MaxChecks[d]
    <3>1. Computation!MaxChecks \in [Clients -> Nat]
      BY <1>1, InUse
    <3>2. \A d \in Clients : checks[d] \in 0..Computation!MaxChecks[d]
      BY <1>1 DEF Computation!TypeOK, Clients
    <3> QED
      BY <1>2, <1>6, <3>1, <3>2
  <2>3. \A d \in Clients : usable'[d] \subseteq DOMAIN Computation!Markets[d]
    BY <1>1, <1>3, <1>6 DEF Computation!TypeOK, Clients
  <2>4. \A d \in Clients : OwnUnits(result'[d], Known(d))
    BY <1>1, <1>3, <1>6 DEF PricesTypes
  <2>5. \A d \in Clients : published'[d] \subseteq Computation!BitAssets
    BY <1>1, <1>2 DEF Computation!TypeOK, Clients
  <2>6. /\ DOMAIN history' = Computation!BitAssets
        /\ \A a \in Computation!BitAssets : Len(history'[a]) <= Computation!HistoryLen
        /\ feeds' \subseteq Computation!BitAssets
    BY <1>1, <1>2 DEF Computation!TypeOK
  <2>7. Computation!TypeOK'
    BY <1>1, <1>2, <1>4, <2>1, <2>2, <2>3, <2>4, <2>5, <2>6 DEF Computation!TypeOK, Clients, OwnUnits
  <2>8. PerClient(checks)' /\ PerClient(usable)' /\ PerClient(result)' /\ PerClient(toPublish)'
        /\ PerClient(published)'
    BY <1>2, <1>3, <1>4, <1>5 DEF PerClient
  <2>9. /\ (history = [a \in Computation!BitAssets |-> history[a]])'
        /\ \A a \in Computation!BitAssets' : history'[a] \in Seq(SUBSET RecordedUnits(a))
    BY <1>1, <1>2, <1>4 DEF PricesTypes
  <2>10. \A d \in Clients' : OwnUnits(result[d], Known(d))'
    BY <1>4, <2>4 DEF OwnUnits
  <2> QED
    BY <2>7, <2>8, <2>9, <2>10 DEF PricesTypes
<1>10. KnownToAll'
  <2>1. \A d \in Clients : at'[d] = "recorded" => d # c /\ at[d] = "recorded" /\ Found(d)' = Found(d)
    BY <1>1, <1>2, <1>7
  <2>2. \A d \in Clients : at[d] = "recorded" => DOMAIN Found(d) \subseteq before
    OBVIOUS
  <2>3. since'[c] = before /\ \A d \in Clients : d # c => since'[d] = since[d] /\ at'[d] = at[d]
    BY <1>1, <1>2
  <2>4. at'[c] = "computed" /\ published' = published /\ feeds' = feeds /\ at[c] = "waiting"
    BY <1>1, <1>2
  <2> HIDE DEF before
  <2> QED
    BY <1>1, <1>4, <2>1, <2>2, <2>3, <2>4 DEF KnownToAll
<1>11. Recent'
  <2>1. published[c] = {}
    BY <1>1, <1>2 DEF KnownToAll
  <2>2. \A d \in Clients : d # c => since'[d] = since[d]
    BY <1>1, <1>2
  <2> QED
    BY <1>1, <1>2, <1>4, <2>1, <2>2 DEF Recent, Computation!Recent, Clients
<1> QED
  BY <1>9, <1>10, <1>11 DEF PricesIInv

(* What a deque keeps when a price joins it. *)
LEMMA NewestStays ==
    ASSUME NEW S, NEW s \in Seq(S), NEW e \in S, config \in DOMAIN Configs,
           Len(s) <= Computation!HistoryLen
    PROVE  LET new == Computation!Newest(Append(s, e))
           IN /\ new \in Seq(S) /\ Len(new) <= Computation!HistoryLen
              /\ \A i \in 1..Len(new) : new[i] = e \/ \E j \in 1..Len(s) : new[i] = s[j]
<1> DEFINE longer == Append(s, e)
<1>1. /\ longer \in Seq(S) /\ Len(longer) = Len(s) + 1
      /\ \A i \in 1..Len(s) : longer[i] = s[i]
      /\ longer[Len(s) + 1] = e /\ Len(s) \in Nat
  BY AppendProperties, LenProperties
<1>2. Computation!HistoryLen \in Nat \ {0}
  BY InUse
<1>3. \A i \in 1..Len(longer) : longer[i] = e \/ \E j \in 1..Len(s) : longer[i] = s[j]
  BY <1>1
<1> HIDE DEF longer
<1>4. CASE Len(longer) > Computation!HistoryLen
  <2>1. /\ Tail(longer) \in Seq(S) /\ Len(Tail(longer)) = Len(longer) - 1
        /\ \A i \in 1..Len(Tail(longer)) : Tail(longer)[i] = longer[i + 1]
    BY <1>1, <1>2, <1>4, HeadTailProperties, EmptySeq
  <2>2. \A i \in 1..Len(Tail(longer)) : i + 1 \in 1..Len(longer)
    BY <1>1, <2>1
  <2> QED
    BY <1>1, <1>2, <1>3, <1>4, <2>1, <2>2 DEF Computation!Newest, longer
<1>5. CASE ~(Len(longer) > Computation!HistoryLen)
  BY <1>1, <1>2, <1>3, <1>5 DEF Computation!Newest, longer
<1> QED
  BY <1>4, <1>5

(* What recording the prices of these assets does. *)
LEMMA Recording ==
    ASSUME NEW c \in Clients, Computation!RecordPrices(c)
    PROVE  \E assets, goal :
              /\ assets \subseteq DOMAIN Found(c) /\ assets \subseteq Computation!BitAssets
              /\ goal = "over" \/ (goal = "recorded" /\ assets = DOMAIN Found(c))
              /\ at' = [at EXCEPT ![c] = goal]
              /\ history' = [a \in Computation!BitAssets |->
                               IF a \in assets THEN Computation!Newest(Append(history[a], Found(c)[a]))
                               ELSE history[a]]
              /\ since' = [d \in Clients |-> since[d] \cup assets]
<1>1. CASE DOMAIN Found(c) \subseteq Computation!BitAssets
  <2>1. Computation!AppendPrices(c, DOMAIN Found(c)) /\ Computation!Goes(c, "recorded")
    BY <1>1 DEF Computation!RecordPrices, Found
  <2> QED
    BY <1>1, <2>1 DEF Computation!AppendPrices, Computation!Goes, Found, Clients
<1>2. CASE ~(DOMAIN Found(c) \subseteq Computation!BitAssets)
  <2>1. PICK assets \in SUBSET (DOMAIN Found(c) \cap Computation!BitAssets) :
           Computation!AppendPrices(c, assets) /\ Computation!Goes(c, "over")
    BY <1>2 DEF Computation!RecordPrices, Found
  <2> QED
    BY <2>1 DEF Computation!AppendPrices, Computation!Goes, Found, Clients
<1> QED
  BY <1>1, <1>2

LEMMA RecordStep ==
    ASSUME PricesIInv, NEW c \in Clients, Computation!RecordPrices(c)
    PROVE  /\ PricesIInv'
           /\ Computation!OneBase /\ InOneUnit => InOneUnit'
<1>1. /\ PricesTypes /\ KnownToAll /\ Recent /\ Computation!TypeOK
      /\ config \in DOMAIN Configs
      /\ at \in [Clients -> {"waiting", "computed", "recorded", "publishing", "over"}]
      /\ since \in [Clients -> SUBSET Computation!BitAssets]
      /\ PerClient(published)
  BY DEF PricesIInv, PricesTypes, Computation!TypeOK, Clients
<1>2. PICK assets, goal :
         /\ assets \subseteq DOMAIN Found(c) /\ assets \subseteq Computation!BitAssets
         /\ goal = "over" \/ (goal = "recorded" /\ assets = DOMAIN Found(c))
         /\ at' = [at EXCEPT ![c] = goal]
         /\ history' = [a \in Computation!BitAssets |->
                          IF a \in assets THEN Computation!Newest(Append(history[a], Found(c)[a]))
                          ELSE history[a]]
         /\ since' = [d \in Clients |-> since[d] \cup assets]
  BY Recording
<1>3. /\ at[c] = "computed"
      /\ UNCHANGED <<config, checks, usable, result, toPublish, feeds, published>>
  BY DEF Computation!RecordPrices
<1>4. /\ Clients' = Clients /\ Computation!BitAssets' = Computation!BitAssets
      /\ Computation!Chain' = Computation!Chain /\ Computation!HistoryLen' = Computation!HistoryLen
      /\ Computation!MaxChecks' = Computation!MaxChecks /\ Computation!Markets' = Computation!Markets
      /\ \A d : Known(d)' = Known(d)
      /\ \A d \in Clients : Found(d)' = Found(d)
  BY <1>3, ConfigKept, FoundKept
<1>5. /\ \A d \in Clients : OwnUnits(result[d], Known(d))
      /\ \A a \in Computation!BitAssets : history[a] \in Seq(SUBSET RecordedUnits(a))
                                          /\ Len(history[a]) <= Computation!HistoryLen
  BY <1>1 DEF PricesTypes, Computation!TypeOK
<1>6. \A a \in assets : /\ Found(c)[a] \in SUBSET RecordedUnits(a)
                        /\ Computation!OneBase => Found(c)[a] \subseteq {HistoryUnit(a)}
  BY <1>1, <1>2, <1>5, FoundType
<1>7. ASSUME NEW a \in Computation!BitAssets
      PROVE  /\ history'[a] \in Seq(SUBSET RecordedUnits(a))
             /\ Len(history'[a]) <= Computation!HistoryLen
             /\ \A i \in 1..Len(history'[a]) :
                   \/ a \in assets /\ history'[a][i] = Found(c)[a]
                   \/ \E j \in 1..Len(history[a]) : history'[a][i] = history[a][j]
  <2>1. CASE a \in assets
    <3>1. history'[a] = Computation!Newest(Append(history[a], Found(c)[a]))
      BY <1>2, <2>1
    <3>2. history[a] \in Seq(SUBSET RecordedUnits(a)) /\ Len(history[a]) <= Computation!HistoryLen
      BY <1>5
    <3>3. Found(c)[a] \in SUBSET RecordedUnits(a)
      BY <1>6, <2>1
    <3> QED
      <4> DEFINE s == history[a]
                 e == Found(c)[a]
                 S == SUBSET RecordedUnits(a)
                 new == Computation!Newest(Append(s, e))
      <4>1. s \in Seq(S) /\ e \in S /\ Len(s) <= Computation!HistoryLen /\ config \in DOMAIN Configs
        BY <1>1, <3>2, <3>3
      <4> HIDE DEF s, e, S
      <4>2. /\ new \in Seq(S) /\ Len(new) <= Computation!HistoryLen
            /\ \A i \in 1..Len(new) : new[i] = e \/ \E j \in 1..Len(s) : new[i] = s[j]
        BY <4>1, NewestStays
      <4> QED
        BY <2>1, <3>1, <4>2 DEF s, e, S
  <2>2. CASE a \notin assets
    BY <1>2, <1>5, <2>2
  <2> QED
    BY <2>1, <2>2
<1>8. PricesTypes'
  <2>1. /\ at' \in [Clients -> {"waiting", "computed", "recorded", "publishing", "over"}]
        /\ since' \in [Clients -> SUBSET Computation!BitAssets]
    BY <1>1, <1>2
  <2>2. \A d \in Clients : /\ checks'[d] \in 0..Computation!MaxChecks[d]
                           /\ usable'[d] \subseteq DOMAIN Computation!Markets[d]
                           /\ published'[d] \subseteq Computation!BitAssets
    BY <1>1, <1>3 DEF Computation!TypeOK, Clients
  <2>3. /\ DOMAIN history' = Computation!BitAssets
        /\ \A a \in Computation!BitAssets : Len(history'[a]) <= Computation!HistoryLen
        /\ feeds' \subseteq Computation!BitAssets
    BY <1>1, <1>2, <1>3, <1>7 DEF Computation!TypeOK
  <2>4. Computation!TypeOK'
    BY <1>1, <1>3, <1>4, <1>5, <2>1, <2>2, <2>3 DEF Computation!TypeOK, Clients, OwnUnits
  <2>5. PerClient(checks)' /\ PerClient(usable)' /\ PerClient(result)' /\ PerClient(toPublish)'
        /\ PerClient(published)'
    BY <1>1, <1>3, <1>4 DEF PricesTypes, PerClient
  <2>6. (history = [a \in Computation!BitAssets |-> history[a]])'
    BY <1>2, <1>4
  <2>7. \A a \in Computation!BitAssets' : history'[a] \in Seq(SUBSET RecordedUnits(a))
    BY <1>4, <1>7
  <2>8. \A d \in Clients' : OwnUnits(result[d], Known(d))'
    BY <1>3, <1>4, <1>5 DEF OwnUnits
  <2> QED
    BY <2>4, <2>5, <2>6, <2>7, <2>8 DEF PricesTypes
<1>9. at'[c] = goal /\ \A d \in Clients : d # c => at'[d] = at[d]
  BY <1>1, <1>2
<1>10. \A d \in Clients : since'[d] = since[d] \cup assets
  BY <1>2
<1>11. KnownToAll'
  BY <1>1, <1>2, <1>3, <1>4, <1>9, <1>10 DEF KnownToAll
<1>12. Recent'
  BY <1>1, <1>3, <1>4, <1>10 DEF Recent, Computation!Recent, Clients
<1>13. Computation!OneBase /\ InOneUnit => InOneUnit'
  <2>1. SUFFICES ASSUME Computation!OneBase, InOneUnit, NEW a \in Computation!BitAssets,
                        NEW i \in 1..Len(history'[a])
                 PROVE  history'[a][i] \subseteq {HistoryUnit(a)}
    BY <1>4 DEF InOneUnit
  <2> QED
    BY <1>6, <1>7, <2>1 DEF InOneUnit
<1> QED
  BY <1>8, <1>11, <1>12, <1>13 DEF PricesIInv

LEMMA EndCheckStep ==
    ASSUME PricesIInv, NEW c \in Clients, Computation!EndCheck(c)
    PROVE  PricesIInv'
<1>1. /\ PricesTypes /\ KnownToAll /\ Recent /\ Computation!TypeOK
      /\ at \in [Clients -> {"waiting", "computed", "recorded", "publishing", "over"}]
      /\ since \in [Clients -> SUBSET Computation!BitAssets]
      /\ PerClient(usable) /\ PerClient(result) /\ PerClient(toPublish) /\ PerClient(published)
  BY DEF PricesIInv, PricesTypes, Computation!TypeOK, Clients
<1>2. /\ at[c] = "over" /\ at' = [at EXCEPT ![c] = "waiting"]
      /\ usable' = [usable EXCEPT ![c] = {}]
      /\ result' = [result EXCEPT ![c] = <<>>]
      /\ toPublish' = [toPublish EXCEPT ![c] = {}]
      /\ since' = [since EXCEPT ![c] = {}]
      /\ published' = [published EXCEPT ![c] = {}]
      /\ UNCHANGED <<config, checks, history, feeds>>
  BY DEF Computation!EndCheck, Computation!Goes
<1>3. /\ Clients' = Clients /\ Computation!BitAssets' = Computation!BitAssets
      /\ Computation!Chain' = Computation!Chain /\ Computation!HistoryLen' = Computation!HistoryLen
      /\ Computation!MaxChecks' = Computation!MaxChecks /\ Computation!Markets' = Computation!Markets
      /\ \A d : Known(d)' = Known(d)
  BY <1>2, ConfigKept
<1>4. /\ result'[c] = <<>> /\ usable'[c] = {} /\ published'[c] = {} /\ since'[c] = {} /\ at'[c] = "waiting"
      /\ \A d \in Clients : d # c => /\ result'[d] = result[d] /\ usable'[d] = usable[d]
                                     /\ published'[d] = published[d] /\ since'[d] = since[d]
                                     /\ at'[d] = at[d]
  BY <1>1, <1>2 DEF PerClient
<1>5. \A d \in Clients : d # c => Found(d)' = Found(d)
  BY <1>2, <1>4, FoundKept
<1>6. PricesTypes'
  <2>1. /\ at' \in [Clients -> {"waiting", "computed", "recorded", "publishing", "over"}]
        /\ since' \in [Clients -> SUBSET Computation!BitAssets]
    BY <1>1, <1>2
  <2>2. \A d \in Clients : OwnUnits(result'[d], Known(d))
    <3>1. OwnUnits(<<>>, Known(c))
      BY DEF OwnUnits
    <3> QED
      BY <1>1, <1>4, <3>1 DEF PricesTypes
  <2>3. \A d \in Clients : /\ checks'[d] \in 0..Computation!MaxChecks[d]
                           /\ usable'[d] \subseteq DOMAIN Computation!Markets[d]
                           /\ published'[d] \subseteq Computation!BitAssets
    BY <1>1, <1>2, <1>4 DEF Computation!TypeOK, Clients
  <2>4. Computation!TypeOK'
    BY <1>1, <1>2, <1>3, <2>1, <2>2, <2>3 DEF Computation!TypeOK, Clients, OwnUnits
  <2>5. PerClient(checks)' /\ PerClient(usable)' /\ PerClient(result)' /\ PerClient(toPublish)'
        /\ PerClient(published)'
    BY <1>1, <1>2, <1>3 DEF PricesTypes, PerClient
  <2>6. /\ (history = [a \in Computation!BitAssets |-> history[a]])'
        /\ \A a \in Computation!BitAssets' : history'[a] \in Seq(SUBSET RecordedUnits(a))
    BY <1>1, <1>2, <1>3 DEF PricesTypes
  <2>7. \A d \in Clients' : OwnUnits(result[d], Known(d))'
    BY <1>3, <2>2 DEF OwnUnits
  <2> QED
    BY <2>4, <2>5, <2>6, <2>7 DEF PricesTypes
<1>7. KnownToAll'
  BY <1>1, <1>2, <1>3, <1>4, <1>5 DEF KnownToAll
<1>8. Recent'
  BY <1>1, <1>3, <1>4 DEF Recent, Computation!Recent, Clients
<1> QED
  BY <1>6, <1>7, <1>8 DEF PricesIInv

LEMMA NextPrices == PricesIInv /\ [Computation!Next]_(Computation!vars) => PricesIInv'
<1> SUFFICES ASSUME PricesIInv, [Computation!Next]_(Computation!vars) PROVE PricesIInv'
  OBVIOUS
<1>1. CASE Computation!Next
  <2>1. PICK c \in Clients :
           \/ Computation!Compute(c) \/ Computation!RecordPrices(c) \/ Computation!RaiseBeforeRecording(c)
           \/ Computation!SetFeeds(c) \/ Computation!PublishBitShares(c) \/ Computation!PublishSteem(c)
           \/ Computation!PublishNothing(c) \/ Computation!EndCheck(c)
    BY <1>1 DEF Computation!Next, Clients
  <2> QED
    BY <2>1, ComputeStep, RecordStep, LeaveStep, SetFeedsStep, PublishStep, EndCheckStep
<1>2. CASE UNCHANGED Computation!vars
  <2>1. UNCHANGED <<config, at, checks, usable, result, toPublish, history, feeds, since, published>>
    BY <1>2 DEF Computation!vars
  <2>2. /\ Clients' = Clients /\ Computation!BitAssets' = Computation!BitAssets
        /\ Computation!Chain' = Computation!Chain /\ \A d \in Clients : Found(d)' = Found(d)
    BY <2>1, ConfigKept, FoundKept
  <2>3. PricesTypes'
    <3>1. PricesTypes /\ Computation!TypeOK
      BY DEF PricesIInv, PricesTypes
    <3>2. /\ at' \in [Clients -> {"waiting", "computed", "recorded", "publishing", "over"}]
          /\ feeds' \subseteq Computation!BitAssets
          /\ \A c \in Clients : published'[c] \subseteq Computation!BitAssets
      BY <2>1, <3>1 DEF Computation!TypeOK, Clients
    <3>3. PerClient(published)'
      BY <2>1, <2>2, <3>1 DEF PricesTypes, PerClient
    <3> QED
      BY <2>1, <3>1, <3>2, <3>3, TypesOfTheRest
  <2>4. KnownToAll'
    BY <2>1, <2>2 DEF PricesIInv, KnownToAll
  <2>5. Recent'
    BY <2>1, <2>2 DEF PricesIInv, Recent, Computation!Recent, Clients
  <2> QED
    BY <2>3, <2>4, <2>5 DEF PricesIInv
<1> QED
  BY <1>1, <1>2

LEMMA SpecPrices == Computation!Spec => []PricesIInv
  BY InitPrices, NextPrices, PTL DEF Computation!Spec

(* The prices have their types, whatever the rules and however many clients: of the *)
(* entries of a market there is a mean or not, a history is no longer than its      *)
(* bound (feeds.py:70), and `feeds` and what is published are assets that have one  *)
(* (feeds.py:243-256).                                                              *)
THEOREM PricesTypeCorrect == Computation!Spec => []PricesTypeOK
<1>1. PricesIInv => PricesTypeOK
  BY DEF PricesIInv, PricesTypes, PricesTypeOK
<1> QED
  BY <1>1, SpecPrices, PTL

(* An asset is published on BitShares only if its price was found since the check   *)
(* began, or in a check of another client not over then, whatever the providers     *)
(* answer, the rules derive and the threads of the clients do (feeds.py:289, 310).  *)
THEOREM PublishesTheRecent == Computation!Spec => []Recent
<1>1. PricesIInv => Recent
  BY DEF PricesIInv
<1> QED
  BY <1>1, SpecPrices, PTL

(* Only recording touches the histories. *)
LEMMA UnitsStay ==
    ASSUME Computation!OneBase
    PROVE  PricesIInv /\ InOneUnit /\ [Computation!Next]_(Computation!vars) => InOneUnit'
<1> SUFFICES ASSUME PricesIInv, InOneUnit, [Computation!Next]_(Computation!vars) PROVE InOneUnit'
  OBVIOUS
<1>1. CASE \E c \in Clients : Computation!RecordPrices(c)
  BY <1>1, RecordStep
<1>2. CASE ~\E c \in Clients : Computation!RecordPrices(c)
  <2>1. UNCHANGED <<config, history>>
    BY <1>2 DEF Computation!Next, Computation!vars, Computation!Compute, Computation!RaiseBeforeRecording,
       Computation!SetFeeds, Computation!PublishBitShares, Computation!PublishSteem,
       Computation!PublishNothing, Computation!EndCheck, Clients
  <2> QED
    BY <2>1, ConfigKept DEF InOneUnit
<1> QED
  BY <1>1, <1>2

(* The history of an asset, which all clients share and of which the median is     *)
(* taken, holds prices of one unit, and none that a rule made of prices that do not *)
(* fit, if no configuration derives ALTCAP or STEEM in BTS (feeds.py:241-244, 310). *)
THEOREM HistoriesInOneUnit ==
    ASSUME Computation!OneBase
    PROVE  Computation!Spec => []OneUnit
<1>1. Computation!Init => InOneUnit
  <2>1. SUFFICES ASSUME Computation!Init PROVE InOneUnit
    OBVIOUS
  <2>2. \A a \in Computation!BitAssets : history[a] = <<>> /\ Len(history[a]) = 0
    BY <2>1, EmptySeq DEF Computation!Init
  <2> QED
    BY <2>2 DEF InOneUnit
<1>2. PricesIInv /\ InOneUnit /\ [Computation!Next]_(Computation!vars) => InOneUnit'
  BY UnitsStay
<1>3. PricesIInv /\ InOneUnit => OneUnit
  <2> SUFFICES ASSUME PricesIInv, InOneUnit, NEW a \in Computation!BitAssets
               PROVE  LET units == UNION {history[a][i] : i \in DOMAIN history[a]}
                      IN Computation!Nonsense \notin units /\ \A u, v \in units : u = v
    BY DEF OneUnit, Computation!OneUnit
  <2> DEFINE units == UNION {history[a][i] : i \in DOMAIN history[a]}
  <2>1. DOMAIN history[a] = 1..Len(history[a])
    BY LenProperties DEF PricesIInv, PricesTypes
  <2>2. units \subseteq {HistoryUnit(a)}
    BY <2>1 DEF InOneUnit
  <2>3. HistoryUnit(a) # Computation!Nonsense
    BY DEF HistoryUnit, Computation!Nonsense
  <2> QED
    BY <2>2, <2>3
<1> QED
  BY <1>1, <1>2, <1>3, SpecPrices, PTL DEF Computation!Spec
-----------------------------------------------------------------------------
(* The markets with a price are those that the prices of the providers imply. *)

OnlyImpliedBy(set, got, rules) ==
    Computation!Priced(set) \subseteq Computation!Follows(got, Computation!Simple(rules))

AllImpliedBy(set, got, rules) ==
    LET all == Computation!Follows(got, Computation!Simple(rules))
    IN Computation!Follows(got, Computation!Simple(rules) \ Computation!LeftOut(rules, all))
          \subseteq Computation!Priced(set)

LEMMA ComputedExactly ==
    ASSUME config \in DOMAIN Configs, NEW c \in Clients,
           NEW answered \in SUBSET DOMAIN Computation!Markets[c], NEW flat
    PROVE  /\ OnlyImpliedBy(Computed(c, answered, flat).set, answered \ flat, Computation!Rules[c])
           /\ Computation!InOrderOfUse(Computation!Rules[c]) =>
                 AllImpliedBy(Computed(c, answered, flat).set, answered \ flat, Computation!Rules[c])
<1> DEFINE rules == Computation!Rules[c]
           start == Start(answered, flat)
           env == Computed(c, answered, flat)
           got == answered \ flat
           simple == Computation!Simple(rules)
           all == Computation!Follows(got, simple)
<1>1. Computation!AreRules(rules) /\ Computation!Makes(rules) \subseteq Known(c)
  BY InUse
<1>2. start \in Environments(Known(c)) /\ PricedIn(start) = got
  BY StartType
<1>3. env = Computation!InOrder(Computation!ExecuteHandled, start, rules)
  BY DEF Computed, Computation!ApplyRules, Start
<1> HIDE DEF rules, start, env, got
<1>4. PICK run : IsRun(run, start, rules, Known(c)) /\ run[Len(rules)] = env
  BY <1>1, <1>2, <1>3, RulesEffect
<1>5. PricedIn(env) = Computation!Priced(env.set)
  BY DEF PricedIn
<1>6. IsFiniteSet(simple) /\ \A r \in simple : r.rule # "publish"
  BY <1>1, SimpleFinite
<1>7. got \subseteq all /\ IsClosed(all, simple)
  BY <1>6, FollowsClosed
<1>8. PricedIn(env) \subseteq all
  BY <1>1, <1>2, <1>4, <1>7, RunStaysWithin
<1>9. ASSUME Computation!InOrderOfUse(rules)
      PROVE  Computation!Follows(got, simple \ Computation!LeftOut(rules, all)) \subseteq PricedIn(env)
  <2> DEFINE rest == simple \ Computation!LeftOut(rules, all)
  <2>1. got \subseteq PricedIn(env)
    <3>1. Len(rules) \in Nat
      BY <1>1 DEF Computation!AreRules, Computation!IsList
    <3> QED
      BY <1>2, <1>4, <3>1 DEF IsRun
  <2>2. IsClosed(PricedIn(env) \cup LoopMade(rules), simple)
    BY <1>1, <1>4, <1>9, LeftToLoops
  <2>3. all \subseteq PricedIn(env) \cup LoopMade(rules)
    BY <1>6, <2>1, <2>2, FollowsWithin
  <2>4. IsClosed(PricedIn(env), rest)
    BY <1>1, <1>4, <1>9, <2>3, NothingToAdd
  <2>5. IsFiniteSet(rest) /\ \A r \in rest : r.rule # "publish"
    <3>1. rest \in SUBSET simple
      OBVIOUS
    <3> HIDE DEF rest, simple
    <3> QED
      BY <1>6, <3>1, FS_Subset
  <2> HIDE DEF rest
  <2>6. Computation!Follows(got, rest) \subseteq PricedIn(env)
    BY <2>1, <2>4, <2>5, FollowsWithin
  <2> QED
    BY <2>6 DEF rest
<1> HIDE DEF all
<1> QED
  BY <1>5, <1>8, <1>9 DEF OnlyImpliedBy, AllImpliedBy, rules, env, got, all

(* A step computes the prices of a client, or leaves alone those of a check. *)
LEMMA ResultsKept ==
    ASSUME PricesIInv, [Computation!Next]_(Computation!vars), NEW c \in Clients, at'[c] # "waiting"
    PROVE  \/ at[c] # "waiting" /\ result'[c] = result[c] /\ usable'[c] = usable[c]
           \/ \E answered \in SUBSET DOMAIN Computation!Markets[c] : \E flat :
                 /\ result'[c] = Computed(c, answered, flat).set
                 /\ usable'[c] = answered \ flat
<1>1. /\ at \in [Clients -> {"waiting", "computed", "recorded", "publishing", "over"}]
      /\ PerClient(usable) /\ PerClient(result)
  BY DEF PricesIInv, PricesTypes, Computation!TypeOK, Clients
<1>2. CASE UNCHANGED Computation!vars
  BY <1>2 DEF Computation!vars
<1>3. CASE Computation!Next
  <2>1. PICK d \in Clients :
           \/ Computation!Compute(d) \/ Computation!RecordPrices(d) \/ Computation!RaiseBeforeRecording(d)
           \/ Computation!SetFeeds(d) \/ Computation!PublishBitShares(d) \/ Computation!PublishSteem(d)
           \/ Computation!PublishNothing(d) \/ Computation!EndCheck(d)
    BY <1>3 DEF Computation!Next, Clients
  <2>2. CASE Computation!Compute(d)
    <3>1. PICK answered \in SUBSET DOMAIN Computation!Markets[d] : \E flat : Sets(d, answered, flat)
      BY <2>2, ComputeResult
    <3>3. PICK flat : Sets(d, answered, flat)
      BY <3>1
    <3>2. at' = [at EXCEPT ![d] = "computed"]
      BY <2>2 DEF Computation!Compute, Computation!Goes
    <3> QED
      BY <1>1, <3>2, <3>3 DEF PerClient, Sets
  <2>3. CASE Computation!EndCheck(d)
    <3>1. /\ at' = [at EXCEPT ![d] = "waiting"]
          /\ usable' = [usable EXCEPT ![d] = {}] /\ result' = [result EXCEPT ![d] = <<>>]
      BY <2>3 DEF Computation!EndCheck, Computation!Goes
    <3> QED
      BY <1>1, <3>1 DEF PerClient
  <2>4. CASE \/ Computation!RecordPrices(d) \/ Computation!RaiseBeforeRecording(d)
             \/ Computation!SetFeeds(d) \/ Computation!PublishBitShares(d) \/ Computation!PublishSteem(d)
             \/ Computation!PublishNothing(d)
    <3>1. UNCHANGED <<usable, result>> /\ at[d] # "waiting"
      BY <2>4 DEF Computation!RecordPrices, Computation!RaiseBeforeRecording, Computation!SetFeeds,
         Computation!PublishBitShares, Computation!PublishSteem, Computation!PublishNothing
    <3>2. \E goal : at' = [at EXCEPT ![d] = goal]
      BY <2>4 DEF Computation!RecordPrices, Computation!RaiseBeforeRecording, Computation!SetFeeds,
         Computation!PublishBitShares, Computation!PublishSteem, Computation!PublishNothing, Computation!Goes
    <3> QED
      BY <1>1, <3>1, <3>2
  <2> QED
    BY <2>1, <2>2, <2>3, <2>4
<1> QED
  BY <1>2, <1>3

LEMMA KeptInUse ==
    ASSUME PricesIInv, [Computation!Next]_(Computation!vars), NEW c \in Clients', at'[c] # "waiting"
    PROVE  /\ config' = config /\ config \in DOMAIN Configs
           /\ c \in Clients /\ Computation!Rules' = Computation!Rules
<1>1. config \in DOMAIN Configs
  BY DEF PricesIInv, PricesTypes, Computation!TypeOK
<1>2. config' = config
  BY DEF Computation!Next, Computation!vars, Computation!Compute, Computation!RecordPrices,
     Computation!RaiseBeforeRecording, Computation!SetFeeds, Computation!PublishBitShares,
     Computation!PublishSteem, Computation!PublishNothing, Computation!EndCheck
<1> QED
  BY <1>1, <1>2, ConfigKept DEF Computation!Rules

(* No market gets a price that the prices of the providers do not imply, whatever the *)
(* rules, their order and those that fail (feeds.py:128-206).                         *)
THEOREM PricesAreImplied == Computation!Spec => []Computation!OnlyImplied
<1>1. Computation!Init => Computation!OnlyImplied
  BY DEF Computation!Init, Computation!OnlyImplied
<1>2. PricesIInv /\ Computation!OnlyImplied /\ [Computation!Next]_(Computation!vars) => Computation!OnlyImplied'
  <2> SUFFICES ASSUME PricesIInv, Computation!OnlyImplied, [Computation!Next]_(Computation!vars),
                      NEW c \in Clients', at'[c] # "waiting"
               PROVE  OnlyImpliedBy(result'[c], usable'[c], Computation!Rules'[c])
    BY DEF Computation!OnlyImplied, Computation!Implied, OnlyImpliedBy, Clients
  <2>1. config' = config /\ config \in DOMAIN Configs /\ c \in Clients /\ Computation!Rules' = Computation!Rules
    BY KeptInUse
  <2>2. CASE at[c] # "waiting" /\ result'[c] = result[c] /\ usable'[c] = usable[c]
    BY <2>1, <2>2 DEF Computation!OnlyImplied, Computation!Implied, OnlyImpliedBy, Clients
  <2>3. CASE \E answered \in SUBSET DOMAIN Computation!Markets[c] : \E flat :
                    /\ result'[c] = Computed(c, answered, flat).set
                    /\ usable'[c] = answered \ flat
    BY <2>1, <2>3, ComputedExactly
  <2> QED
    BY <2>1, <2>2, <2>3, ResultsKept
<1> QED
  BY <1>1, <1>2, SpecPrices, PTL DEF Computation!Spec

(* If a rule reads only what the rules before it made and no loop did, as in the       *)
(* shipped configuration, a market gets a price exactly when the prices of the         *)
(* providers imply one: what fails costs what is derived from it, and what a loop      *)
(* had left to do (feeds.py:177-182, 200-206).                                         *)
THEOREM PricesAreExact ==
    ASSUME Computation!RulesInOrder
    PROVE  Computation!Spec => []PricedExactly
<1> DEFINE Nothing == \A c \in Clients : at[c] # "waiting" =>
                         AllImpliedBy(result[c], usable[c], Computation!Rules[c])
<1>1. Computation!Init => Nothing
  BY DEF Computation!Init, Clients
<1>2. PricesIInv /\ Nothing /\ [Computation!Next]_(Computation!vars) => Nothing'
  <2> SUFFICES ASSUME PricesIInv, Nothing, [Computation!Next]_(Computation!vars),
                      NEW c \in Clients', at'[c] # "waiting"
               PROVE  AllImpliedBy(result'[c], usable'[c], Computation!Rules'[c])
    BY DEF AllImpliedBy
  <2>1. config' = config /\ config \in DOMAIN Configs /\ c \in Clients /\ Computation!Rules' = Computation!Rules
    BY KeptInUse
  <2>2. CASE at[c] # "waiting" /\ result'[c] = result[c] /\ usable'[c] = usable[c]
    BY <2>1, <2>2
  <2>3. CASE \E answered \in SUBSET DOMAIN Computation!Markets[c] : \E flat :
                    /\ result'[c] = Computed(c, answered, flat).set
                    /\ usable'[c] = answered \ flat
    <3>1. Computation!InOrderOfUse(Computation!Rules[c])
      BY <2>1 DEF Computation!RulesInOrder, Computation!Rules, Clients, Computation!Clients
    <3> QED
      BY <2>1, <2>3, <3>1, ComputedExactly
  <2> QED
    BY <2>1, <2>2, <2>3, ResultsKept
<1>3. Nothing /\ Computation!OnlyImplied => PricedExactly
  BY DEF PricedExactly, Computation!PricedExactly, Computation!Implied, AllImpliedBy, Clients
<1> HIDE DEF Nothing
<1> QED
  BY <1>1, <1>2, <1>3, SpecPrices, PricesAreImplied, PTL DEF Computation!Spec
-----------------------------------------------------------------------------
(* A behaviour of Feeds is one of the publication, and one of the prices, whose *)
(* theorems therefore are about it too.                                         *)
THEOREM BothParts == FeedsSpec => Spec /\ Computation!Spec
<1>1. FeedsInit => Init /\ Computation!Init
  BY DEF FeedsInit
<1>2. [FeedsNext]_<<part, vars, pricesVars>> => [Next]_vars /\ [Computation!Next]_(Computation!vars)
  BY DEF FeedsNext, PricesRun, PublicationRuns, pricesVars, Computation!vars
<1> QED
  BY <1>1, <1>2, PTL DEF FeedsSpec, Spec, Computation!Spec
==============================================================================
