------------------------------ MODULE Indexing ------------------------------
(***************************************************************************)
(* The block index of one client and what is told from it: indexing and    *)
(* missed of bts_tools/monitoring, as the monitoring thread calls them,    *)
(* over the database of bts_tools/core.py.  The database lives in memory;  *)
(* it is written when the process exits, and only when the full chain is   *)
(* indexed.  All calls go through the RPC cache of the client, which the   *)
(* threads of the web views drop and fill as well.                         *)
(***************************************************************************)
EXTENDS Integers, Sequences, FiniteSets, FiniteSetsExt

CONSTANT Configs  \* what config.yaml may ask for, each with the bounds it is checked to:
                  \* the monitored witnesses (monitor_witnesses, the nodes with the
                  \* missed plugin), index_full_blockchain, the length of the chain,
                  \* the blocks each witness misses, the restarts of the process, the
                  \* calls of the views

ASSUME IndexingAssumption ==
    \A c \in Configs :
        /\ c = [witnesses |-> c.witnesses, full |-> c.full, maxHead |-> c.maxHead,
                maxMissed |-> c.maxMissed, maxStarts |-> c.maxStarts, maxViews |-> c.maxViews]
        /\ IsFiniteSet(c.witnesses) /\ c.full \in BOOLEAN
        /\ c.maxHead \in Nat /\ c.maxMissed \in Nat /\ c.maxStarts \in Nat
        /\ c.maxViews \in Nat
        /\ "info" \notin c.witnesses

Other == "another witness"

(* What is asked of the client: info(), here for its head_block_num, and get_witness() *)
(* of a witness, for its total_missed.                                                 *)
Info == "info"

VARIABLES
    config,       \* the configuration of this run of the tools
    chain,        \* the blocks: who produced each, and the misses of all by then
    totalMissed,  \* the blocks each witness missed, as the chain counts them
    db,           \* core.db of the client, in memory
    disk,         \* the database file
    saving,       \* what save_db() has read so far
    starts,       \* number of restarts
    pc,           \* where the monitoring thread is
    names,        \* the witnesses in ctx.to_name
    head,         \* head_block_num of this iteration
    cached,       \* the answers in the RPC cache
    view,         \* the answer a view got and has yet to store in the cache
    viewCalls,    \* number of calls of the views
    cachedNone,   \* the RPC cache holds None for the block being indexed
    tries,        \* how often the block was retried
    todo,         \* nodes the missed plugin has yet to look at
    ctxProduced,  \* ctx.total_produced of each node
    asked,        \* history: how often the client was asked for the block
    first,        \* history: the block before the first one indexed
    uncounted,    \* history: blocks indexed that were not looked at
    counted,      \* history: how often each block was counted
    disturbed,    \* history: a view changed the cache in this iteration
    misled        \* history: the witnesses whose streak rests on an old answer

Witnesses == config.witnesses
Full == config.full
MaxHead == config.maxHead
MaxMissed == config.maxMissed
MaxStarts == config.maxStarts
MaxViews == config.maxViews

Questions == Witnesses \cup {Info}
Nothing == -1  \* no answer
Answers == Nat \cup {Nothing}
NoView == [of |-> Info, answer |-> Nothing]

chainVars == <<config, chain, totalMissed>>
diskVars == <<disk, saving, starts>>
blockVars == <<cachedNone, tries, asked>>
viewVars == <<view, viewCalls>>
cacheVars == <<cached, viewVars, disturbed>>
historyVars == <<first, uncounted, counted, misled>>
vars == <<chainVars, db, diskVars, pc, names, head, blockVars, todo, ctxProduced, cacheVars,
          historyVars>>

(* indexing.init_ctx() on an empty database *)
EmptyDb == [last |-> 0,
            produced |-> [w \in Witnesses |-> -1],
            missed |-> [w \in Witnesses |-> -1],
            streak |-> [w \in Witnesses |-> 0]]

NoFile == [written |-> FALSE, db |-> EmptyDb, counted |-> [n \in 1..MaxHead |-> 0],
           uncounted |-> {}]

Counters == [Witnesses -> -1..(MaxHead * (MaxStarts + 1))]
Streaks == [Witnesses -> Int]
Databases == [last : 0..MaxHead, produced : Counters,
              missed : [Witnesses -> -1..MaxMissed], streak : Streaks]

ChainTypes ==
    /\ config \in Configs
    /\ chain \in Seq([by : Witnesses \cup {Other}, missed : [Witnesses -> 0..MaxMissed]])
    /\ Len(chain) <= MaxHead
    /\ totalMissed \in [Witnesses -> 0..MaxMissed]

DatabaseTypes ==
    /\ db \in Databases
    /\ disk \in [written : BOOLEAN, db : Databases, counted : [1..MaxHead -> Nat],
                 uncounted : SUBSET (1..MaxHead)]
    /\ saving \in 0..MaxHead \cup {-1}
    /\ starts \in 0..MaxStarts

ThreadTypes ==
    /\ pc \in {"sleep", "polled", "named", "index", "retry", "advance", "missed"}
    /\ names \subseteq Witnesses
    /\ head \in 0..MaxHead
    /\ cachedNone \in BOOLEAN
    /\ tries \in 0..3
    /\ todo \subseteq Witnesses
    /\ ctxProduced \in Counters
    /\ asked \in 0..4

HistoryTypes ==
    /\ first \in 0..MaxHead
    /\ uncounted \subseteq 1..MaxHead
    /\ counted \in [1..MaxHead -> Nat]
    /\ misled \subseteq Witnesses

CacheTypes ==
    /\ cached \in [Questions -> Answers]
    /\ view \in [of : Questions, answer : Answers]
    /\ viewCalls \in 0..MaxViews
    /\ disturbed \in BOOLEAN

(* No streak of blocks is longer than the count of them. *)
StreaksAreCounted == \A w \in Witnesses : db.streak[w] <= db.produced[w] + 1

TypeOK ==
    /\ ChainTypes /\ DatabaseTypes /\ ThreadTypes /\ HistoryTypes /\ CacheTypes
    /\ StreaksAreCounted

Init ==
    /\ config \in Configs
    /\ chain = <<>>
    /\ totalMissed = [w \in Witnesses |-> 0]
    /\ db = EmptyDb
    /\ disk = NoFile
    /\ saving = -1
    /\ starts = 0
    /\ pc = "sleep"
    /\ names = {}
    /\ head = 0
    /\ cachedNone = FALSE
    /\ tries = 0
    /\ todo = {}
    /\ ctxProduced = [w \in Witnesses |-> 0]
    /\ asked = 0
    /\ first = 0
    /\ uncounted = {}
    /\ counted = [n \in 1..MaxHead |-> 0]
    /\ cached = [q \in Questions |-> Nothing]
    /\ view = NoView
    /\ viewCalls = 0
    /\ disturbed = FALSE
    /\ misled = {}
-----------------------------------------------------------------------------
(* The chain: a witness, or another, produces the next block, or misses one. *)
Produce ==
    /\ Len(chain) < MaxHead
    /\ \E w \in Witnesses \cup {Other} : 
            chain' = Append(chain, [by |-> w, missed |-> totalMissed])
    /\ UNCHANGED <<config, totalMissed, db, diskVars, pc, names, head, blockVars, todo, ctxProduced,
                   cacheVars, historyVars>>

Miss ==
    /\ \E w \in Witnesses :
         /\ totalMissed[w] < MaxMissed
         /\ totalMissed' = [totalMissed EXCEPT ![w] = @ + 1]
    /\ UNCHANGED <<config, chain, db, diskVars, pc, names, head, blockVars, todo, ctxProduced,
                   cacheVars, historyVars>>

(* What the client answers, and what rpc_call() does: the answer in the cache, if any. *)
Answer(q) == IF q = Info THEN Len(chain) ELSE totalMissed[q]
Ask(q) == IF cached[q] = Nothing THEN Answer(q) ELSE cached[q]

(* Mutant: the cache is only dropped where the loop looks at it. *)
BeginIterationKeeps ==
    /\ pc = "sleep"
    /\ cachedNone' = FALSE /\ disturbed' = FALSE
    /\ pc' = "polled" /\ chain # <<>> /\ cached' = [cached EXCEPT ![Info] = Len(chain)]
    /\ UNCHANGED <<chainVars, db, diskVars, names, head, tries, asked, todo, ctxProduced, viewVars,
                   historyVars>>

(* The cache is dropped and the client polled: it is offline, or info() is in the cache *)
(* for is_valid_node().                                                                *)
BeginIteration ==
    /\ pc = "sleep"
    /\ cachedNone' = FALSE /\ disturbed' = FALSE
    /\ \/ /\ pc' = "polled"
          /\ chain # <<>>
          /\ cached' = [q \in Questions |-> IF q = Info THEN Len(chain) ELSE Nothing]
       \/ /\ cached' = [q \in Questions |-> Nothing]
          /\ UNCHANGED pc
    /\ UNCHANGED <<chainVars, db, diskVars, names, head, tries, asked, todo, ctxProduced, viewVars,
                   historyVars>>

(* The head of indexing.monitor(), as long as there are no names: those that the client *)
(* resolves are kept; a call may end the iteration.                                     *)
LookUpNames ==
    /\ pc = "polled"
    /\ names = {}
    /\ names' \in SUBSET Witnesses
    /\ cached' = [q \in Questions |-> IF q \in names' THEN Ask(q) ELSE cached[q]]
    /\ pc' \in {"named", "sleep"}
    /\ UNCHANGED <<chainVars, db, diskVars, head, blockVars, todo, ctxProduced, viewVars, disturbed,
                   historyVars>>

(* get_head_block_num(), from the cache unless a view dropped it: then the call may raise. *)
(* When only new blocks are of interest the index starts with the head block.              *)
BeginIndexing ==
    /\ \/ pc = "named"
       \/ pc = "polled" /\ names # {}
    /\ \/ /\ pc' = "index"
          /\ head' = Ask(Info)
          /\ cached' = [cached EXCEPT ![Info] = head']
          /\ IF ~Full /\ db.last = 0
             THEN db' = [db EXCEPT !.last = head' - 1] /\ first' = head' - 1
             ELSE UNCHANGED <<db, first>>
       \/ /\ cached[Info] = Nothing
          /\ pc' = "sleep"
          /\ UNCHANGED <<head, cached, db, first>>
    /\ UNCHANGED <<chainVars, diskVars, names, blockVars, todo, ctxProduced, viewVars, disturbed,
                   uncounted, counted, misled>>

(* The client was not synced when indexing asked, and is when the missed plugin asks. *)
NotIndexed ==
    /\ pc = "polled"
    /\ pc' = "missed" /\ todo' = Witnesses
    /\ UNCHANGED <<chainVars, db, diskVars, names, head, blockVars, ctxProduced,
                   cacheVars, historyVars>>

(* Mutant: the block is counted for every monitored witness. *)
ResolvesAny(n, w) == chain[n].by \in Witnesses /\ w \in names

(* Which monitored witness the block is counted for. *)
Resolves(n, w) == chain[n].by = w /\ w \in names

(* The client gave the next block: it is counted, or not. *)
Got(n) ==
    /\ pc' = "advance"
    /\ tries' = 0 /\ asked' = 0 /\ cachedNone' = FALSE
    /\ db' = [db EXCEPT !.produced =
                 [w \in Witnesses |-> IF Resolves(n, w) THEN @[w] + 1 ELSE @[w]]]
    /\ IF \E w \in Witnesses : Resolves(n, w)
       THEN counted' = [counted EXCEPT ![n] = @ + 1] /\ UNCHANGED uncounted
       ELSE uncounted' = uncounted \cup {n} /\ UNCHANGED counted

(* The client has no such block; None is an answer that is cached. *)
GotNone ==
    /\ pc' = "retry"
    /\ cachedNone' = TRUE
    /\ UNCHANGED <<db, counted, uncounted>>

GetBlock ==
    /\ pc = "index"
    /\ db.last < head
    /\ \/ Got(db.last + 1)
       \/ GotNone /\ tries' = 0 /\ asked' = 1
       \/ /\ pc' = "sleep"
          /\ UNCHANGED <<db, counted, uncounted, blockVars>>
    /\ UNCHANGED <<chainVars, diskVars, names, head, todo, ctxProduced, cacheVars, first, misled>>

(* Mutant: the loop runs once more. *)
RetryFourTimes ==
    /\ pc = "retry"
    /\ tries <= 3
    /\ \/ /\ ~cachedNone
          /\ Got(db.last + 1)
       \/ /\ GotNone
          /\ tries' = tries + 1
          /\ asked' = IF cachedNone THEN asked ELSE asked + 1
       \/ /\ ~cachedNone
          /\ pc' = "sleep"
          /\ UNCHANGED <<db, counted, uncounted, blockVars>>
    /\ UNCHANGED <<chainVars, diskVars, names, head, todo, ctxProduced, cacheVars, first, misled>>

(* One of the three retries, a second later: the cache answers if it can. *)
Retry ==
    /\ pc = "retry"
    /\ tries < 3
    /\ \/ /\ ~cachedNone
          /\ Got(db.last + 1)
       \/ /\ GotNone
          /\ tries' = tries + 1
          /\ asked' = IF cachedNone THEN asked ELSE asked + 1
       \/ /\ ~cachedNone
          /\ pc' = "sleep"
          /\ UNCHANGED <<db, counted, uncounted, blockVars>>
    /\ UNCHANGED <<chainVars, diskVars, names, head, todo, ctxProduced, cacheVars, first, misled>>

(* The block is given up, unless the head block that the warning quotes has to be *)
(* asked for again and the call raises.                                          *)
GiveUp ==
    /\ pc = "retry"
    /\ tries = 3
    /\ \/ pc' = "advance" /\ uncounted' = uncounted \cup {db.last + 1}
       \/ pc' = "sleep" /\ UNCHANGED uncounted
    /\ UNCHANGED <<chainVars, db, diskVars, names, head, blockVars, todo, ctxProduced, cacheVars,
                   first, counted, misled>>

(* Mutant: the block of the iteration is recorded instead of the current one. *)
AdvanceToHead ==
    /\ pc = "advance"
    /\ pc' = "index"
    /\ db' = [db EXCEPT !.last = head]
    /\ tries' = 0 /\ asked' = 0 /\ cachedNone' = FALSE
    /\ UNCHANGED <<chainVars, diskVars, names, head, todo, ctxProduced, cacheVars, historyVars>>

(* db['last_indexed_block'] = current_block_num *)
Advance ==
    /\ pc = "advance"
    /\ pc' = "index"
    /\ db' = [db EXCEPT !.last = @ + 1]
    /\ tries' = 0 /\ asked' = 0 /\ cachedNone' = FALSE
    /\ UNCHANGED <<chainVars, diskVars, names, head, todo, ctxProduced, cacheVars, historyVars>>

(* The index is complete; the missed plugin is called for each node, unless the *)
(* call of info() in between raises.                                            *)
IndexingDone ==
    /\ pc = "index"
    /\ db.last >= head
    /\ \/ pc' = "missed" /\ todo' = Witnesses
       \/ pc' = "sleep" /\ UNCHANGED todo
    /\ UNCHANGED <<chainVars, db, diskVars, names, head, blockVars, ctxProduced,
                   cacheVars, historyVars>>
-----------------------------------------------------------------------------
BlocksOf(w) == {n \in first + 1..db.last : chain[n].by = w}

(* What a witness had missed by the last of its blocks that was counted. *)
MissedByLast(w) ==
    LET seen == BlocksOf(w) \ uncounted
    IN  IF seen = {} THEN 0 ELSE chain[Max(seen)].missed[w]

(* The total of missed blocks the plugin compares with: the first one it sees is *)
(* taken as it is.                                                               *)
Baseline(w) == IF db.missed[w] < 0 THEN Ask(w) ELSE db.missed[w]
NewlyMissed(w) == Ask(w) > Baseline(w)
NewlyProduced(w) == db.produced[w] > ctxProduced[w]

StreakAfterMiss(w) ==
    IF NewlyMissed(w) THEN Min({db.streak[w], 0}) - 1 ELSE db.streak[w]

(* Mutant: a block produced only ends a streak of missed ones the next time. *)
StreakOneOrTheOther(w) ==
    IF NewlyMissed(w) THEN Min({db.streak[w], 0}) - 1
    ELSE IF NewlyProduced(w) THEN Max({db.streak[w], 0}) + 1 ELSE db.streak[w]

StreakAfter(w) ==
    IF NewlyProduced(w) THEN Max({StreakAfterMiss(w), 0}) + 1 ELSE StreakAfterMiss(w)

(* The answer is older than a block that was counted, or than the answer before. *)
IsOld(w) ==
    \/ Ask(w) < db.missed[w]
    \/ \E n \in BlocksOf(w) \ uncounted : Ask(w) < chain[n].missed[w]

(* missed.monitor() of one node; get_witness() may raise.  An old answer misleads the *)
(* plugin until it sees the next block of the witness together with an answer that is *)
(* not.                                                                               *)
MonitorMissed ==
    /\ pc = "missed"
    /\ \E w \in todo :
         /\ todo' = todo \ {w}
         /\ \/ UNCHANGED <<db, ctxProduced, cached, misled>>
            \/ /\ db' = [db EXCEPT !.missed[w] = Ask(w), !.streak[w] = StreakAfter(w)]
               /\ ctxProduced' = [ctxProduced EXCEPT ![w] = db.produced[w]]
               /\ cached' = [cached EXCEPT ![w] = Ask(w)]
               /\ misled' = (IF NewlyProduced(w) THEN misled \ {w} ELSE misled)
                               \cup {v \in {w} : IsOld(v)}
    /\ UNCHANGED <<chainVars, diskVars, pc, names, head, blockVars, viewVars, disturbed, first,
                   uncounted, counted>>

EndIteration ==
    /\ pc = "missed"
    /\ todo = {}
    /\ pc' = "sleep"
    /\ UNCHANGED <<chainVars, db, diskVars, names, head, blockVars, todo, ctxProduced,
                   cacheVars, historyVars>>

(* A web view drops the cached answers. *)
ViewClearsCache ==
    /\ cachedNone \/ \E q \in Questions : cached[q] # Nothing
    /\ cachedNone' = FALSE
    /\ cached' = [q \in Questions |-> Nothing]
    /\ disturbed' = TRUE
    /\ UNCHANGED <<chainVars, db, diskVars, pc, names, head, tries, asked, todo, ctxProduced,
                   viewVars, historyVars>>

(* A view calls the client for what it does not find in the cache.  One such call at a *)
(* time, and maxViews in all.                                                          *)
ViewAsks ==
    /\ view = NoView
    /\ viewCalls < MaxViews
    /\ chain # <<>>
    /\ \E q \in Questions :
         /\ cached[q] = Nothing
         /\ view' = [of |-> q, answer |-> Answer(q)]
    /\ viewCalls' = viewCalls + 1
    /\ UNCHANGED <<chainVars, db, diskVars, pc, names, head, blockVars, todo, ctxProduced, cached,
                   disturbed, historyVars>>

(* Its answer goes into the cache, whatever was dropped, asked and counted meanwhile. *)
ViewStores ==
    /\ view # NoView
    /\ cached' = [cached EXCEPT ![view.of] = view.answer]
    /\ view' = NoView
    /\ disturbed' = TRUE
    /\ UNCHANGED <<chainVars, db, diskVars, pc, names, head, blockVars, todo, ctxProduced,
                   viewCalls, historyVars>>
-----------------------------------------------------------------------------
(* save_db() at exit dumps the keys in their order, last_indexed_block first, while *)
(* the monitoring thread goes on.                                                   *)
BeginSave ==
    /\ Full
    /\ starts < MaxStarts
    /\ saving = -1
    /\ saving' = db.last
    /\ UNCHANGED <<chainVars, db, disk, starts, pc, names, head, blockVars, todo, ctxProduced,
                   cacheVars, historyVars>>

(* A new process, with what load_db() finds. *)
StartWith(file) ==
    /\ starts' = starts + 1
    /\ saving' = -1
    /\ db' = file.db
    /\ counted' = file.counted
    /\ uncounted' = file.uncounted
    /\ ctxProduced' = [w \in Witnesses |->
                          IF file.written THEN file.db.produced[w] ELSE 0]
    /\ pc' = "sleep"
    /\ names' = {}
    /\ head' = 0
    /\ cachedNone' = FALSE /\ tries' = 0 /\ asked' = 0
    /\ todo' = {}
    /\ first' = 0
    /\ cached' = [q \in Questions |-> Nothing]
    /\ view' = NoView
    /\ disturbed' = FALSE
    /\ misled' = {}
    /\ UNCHANGED <<chainVars, viewCalls>>

(* The rest is dumped, the process ends and is started again. *)
SaveAndRestart ==
    /\ saving >= 0
    /\ disk' = [written |-> TRUE, db |-> [db EXCEPT !.last = saving], counted |-> counted,
                uncounted |-> uncounted]
    /\ StartWith(disk')

(* The process is killed and started again; a file that is being written is still empty. *)
KillAndRestart ==
    /\ starts < MaxStarts
    /\ disk' = IF saving >= 0 THEN NoFile ELSE disk
    /\ StartWith(disk')

Next ==
    \/ Produce \/ Miss
    \/ BeginIteration \/ LookUpNames \/ BeginIndexing \/ NotIndexed
    \/ GetBlock \/ Retry \/ GiveUp \/ Advance \/ IndexingDone
    \/ MonitorMissed \/ EndIteration
    \/ ViewClearsCache \/ ViewAsks \/ ViewStores
    \/ BeginSave \/ SaveAndRestart \/ KillAndRestart

Spec == Init /\ [][Next]_vars
-----------------------------------------------------------------------------
(* total_produced counts every block of the witness behind the start of the index *)
(* once, but for the blocks that were given up or came before the names were      *)
(* known: failed calls, retries and ended iterations lose and repeat nothing      *)
(* (indexing.py:80-106).  A restart may repeat the block that save_db() caught    *)
(* between its count and last_indexed_block.                                      *)
Accounting ==
    pc # "advance" /\ starts = 0 =>
        \A w \in Witnesses : db.produced[w] + 1 = Cardinality(BlocksOf(w) \ uncounted)

(* No block up to last_indexed_block is skipped, also across a restart: what       *)
(* save_db() writes never claims a block that is not in its counts (core.py:149).  *)
NothingSkipped ==
    \A n \in first + 1..db.last : n \in uncounted \/ counted[n] > 0

(* The streak that "last {} missed" quotes never exceeds what the witness missed   *)
(* since its last counted block, once the missed plugin has looked at that block   *)
(* (missed.py:59-72), unless the plugin was misled.  After a restart it may exceed *)
(* it: the plugin compares the blocks with the count that was loaded, not with the *)
(* one it had looked at (missed.py:37).                                            *)
StreakIsTrue ==
    \A w \in Witnesses :
        pc = "sleep" /\ starts = 0 /\ ctxProduced[w] = db.produced[w] /\ w \notin misled
            => -db.streak[w] <= totalMissed[w] - MissedByLast(w)

(* Only the views mislead the missed plugin: in an iteration in which none of them *)
(* dropped the cache or put a late answer into it, what get_witness() returns at   *)
(* missed.py:55, from the cache or not, is no older than the blocks that were just *)
(* counted and than what it returned before (monitor.py:184, indexing.py:62-68,    *)
(* rpcutils.py:231-254).                                                           *)
OnlyViewsMislead == [][misled' \subseteq misled \/ disturbed]_vars

(* "retry 3 times at 1 second interval" (indexing.py:91): a block is given up after *)
(* three retries that asked the client (violated: the None of the first call is in  *)
(* the RPC cache).                                                                  *)
RetriedThrice == pc = "retry" /\ tries = 3 => asked = 4
==============================================================================
