----------------------------- MODULE MonitorLoop -----------------------------
(***************************************************************************)
(* The monitoring thread of one client, monitoring_thread() of             *)
(* bts_tools/monitor.py, with the plugins that watch a binary state and    *)
(* send a notification when it changes: online, seed, network_connections, *)
(* wallet_state, fork, free_disk_space (one context per client) and        *)
(* voted_in (one context per witness name).  One action is one plugin      *)
(* call, two for voted_in, which asks the client for the head block before *)
(* it sends its notice; the web views of the same process may drop the     *)
(* cache of RPC results between any two of them.                           *)
(***************************************************************************)
EXTENDS StableState

CONSTANTS Clients,  \* the clients config.yaml may describe: the plugins that the
                    \* roles ask for (all_monitoring), and the role of nodes[0],
                    \* which stands for the client
          Voters    \* names of the nodes with voted_in, in the order of nodes

ClientTopics == {"online", "connections", "open", "locked", "sync", "disk"}
Names == {Voters[i] : i \in 1..Len(Voters)}
Topics == ClientTopics \cup Names

ASSUME MonitoringAssumption ==
    /\ Clients \subseteq
         [monitoring : SUBSET {"seed", "network_connections", "wallet_state", "fork",
                               "free_disk_space", "voted_in"},
          role : {"witness", "feed_publisher", "seed", "backbone"}]
    /\ Voters \in Seq(Names)
    /\ Names \cap ClientTopics = {}

VARIABLES client,  \* the client the thread was started for
          pc,      \* the plugin the thread calls next, or what it does between them
          voter,   \* position in Voters of the next node voted_in looks at
          info,    \* the entry of info() in the RPC cache
          hung,    \* the thread waits for an answer of the client
          mon,     \* the StableStateMonitor of each topic
          told,    \* history: the last notification sent on each topic
          sent,    \* history: the topics notified by the last step
          back,    \* history: topics not notified since the client came online
          lost     \* history: names whose last change of vote was not notified

vars == <<client, pc, voter, info, hung, mon, told, sent, back, lost>>

Up == [t \in Topics |->
          CASE t = "online" -> "online"
            [] t = "connections" -> "connected"
            [] t = "open" -> "open"
            [] t = "locked" -> "unlocked"
            [] t = "sync" -> "up-to-date"
            [] t = "disk" -> "enough"
            [] OTHER -> "active"]

Down == [t \in Topics |->
          CASE t = "online" -> "offline"
            [] t = "connections" -> "starved"
            [] t = "open" -> "closed"
            [] t = "locked" -> "locked"
            [] t = "sync" -> "stale"
            [] t = "disk" -> "short"
            [] OTHER -> "standby"]

Readings(t) == {Up[t], Down[t]}

(* How often in a row each plugin wants to see a state. *)
Size(t) == IF t \in {"online", "connections", "sync"} THEN 3 ELSE 1

NoInfo == "not cached"
Failed == "exception"
Steps == {"sleep", "online", "indexing", "info", "seed", "network_connections",
          "wallet_state", "fork", "free_disk_space", "voted_in", "head_block"}

TypeOK ==
    /\ client \in Clients
    /\ pc \in Steps
    /\ voter \in 1..(Len(Voters) + 1)
    /\ info \in {NoInfo, Failed, "synced", "behind"}
    /\ hung \in BOOLEAN
    /\ mon = [t \in Topics |-> mon[t]]
    /\ \A t \in Topics : IsMonitor(mon[t], Size(t), Readings(t))
    /\ told = [t \in Topics |-> told[t]]
    /\ \A t \in Topics : told[t] \in Readings(t) \cup {None}
    /\ sent \subseteq Topics
    /\ back \subseteq Topics
    /\ lost \subseteq Names

Init ==
    /\ client \in Clients
    /\ pc = "sleep"
    /\ voter = 1
    /\ info = NoInfo
    /\ hung = FALSE
    /\ mon = [t \in Topics |-> NewMonitor(Size(t))]
    /\ told = [t \in Topics |-> None]
    /\ sent = {}
    /\ back = {}
    /\ lost = {}
-----------------------------------------------------------------------------
(* The client just came online, as the other plugins see it. *)
JustCameOnline == JustChanged(mon["online"])

(* What info() can return or raise: the cached entry, or a new answer. *)
InfoAnswers == IF info = NoInfo THEN {"synced", "behind", Failed} ELSE {info}

(* The plugins leave the monitors next behind and sent notices on topics. *)
Outcome(next, topics, cameOnline) ==
    /\ mon' = next
    /\ sent' = topics
    /\ told' = [t \in Topics |-> IF t \in topics THEN Stable(next[t]) ELSE told[t]]
    /\ back' = (IF cameOnline THEN Topics ELSE back) \ topics
    /\ lost' = lost \ topics
    /\ UNCHANGED client

Silent == Outcome(mon, {}, FALSE)

(* Push v on topic t of the monitors m. *)
PushTo(m, t, v) == [m EXCEPT ![t] = Push(@, v)]

(* The topics among T whose monitor in m just changed: those notified. *)
Changed(m, T) == {t \in T : JustChanged(m[t])}

Goto(step) == pc' = step /\ UNCHANGED voter

(* clear_rpc_cache() at the head of the loop *)
BeginIteration ==
    /\ pc = "sleep"
    /\ info' = NoInfo
    /\ Goto("online")
    /\ Silent

(* online.monitor(): every failure of info() counts as offline. *)
MonitorOnline ==
    /\ pc = "online"
    /\ \E answer \in InfoAnswers :
         LET state == IF answer = Failed THEN "offline" ELSE "online"
             next == PushTo(mon, "online", state)
         IN /\ info' = answer
            /\ Outcome(next, Changed(next, {"online"}),
                       state = "online" /\ JustChanged(next["online"]))
            /\ Goto(IF state = "online" THEN "indexing" ELSE "sleep")

(* The iteration is over: the outer exception handler, or its normal end. *)
EndIteration == Goto("sleep")

(* Mutant: a client that is behind cannot be indexed, and ends the iteration. *)
MonitorIndexingStrict ==
    /\ pc = "indexing"
    /\ \E answer \in InfoAnswers :
         /\ info' = answer
         /\ IF answer = "synced" THEN Goto("info") ELSE EndIteration
    /\ Silent

(* indexing.is_valid_node() and indexing.monitor(), not guarded by a handler of *)
(* their own: any exception they raise ends the iteration.                      *)
MonitorIndexing ==
    /\ pc = "indexing"
    /\ \/ /\ client.role \notin {"witness", "feed_publisher"}
          /\ Goto("info")
          /\ UNCHANGED info
       \/ /\ client.role \in {"witness", "feed_publisher"}
          /\ \E answer \in InfoAnswers :
               /\ info' = answer
               /\ \/ answer = Failed /\ EndIteration
                  \/ answer = "behind" /\ Goto("info")
                  \/ answer = "synced" /\ (Goto("info") \/ EndIteration)
    /\ Silent

(* global_ctx.info = client_node.info() *)
GetInfo ==
    /\ pc = "info"
    /\ \E answer \in InfoAnswers :
         /\ info' = answer
         /\ IF answer = Failed THEN EndIteration ELSE Goto("seed")
    /\ Silent
-----------------------------------------------------------------------------
(* The order of CLIENT_PLUGINS, then the role plugins. *)
After == [seed |-> "network_connections", network_connections |-> "wallet_state",
          wallet_state |-> "fork", fork |-> "free_disk_space",
          free_disk_space |-> "voted_in"]

(* plugin_name in all_monitoring and plugin.is_valid_node(client_node) *)
Runs(p) == p \in client.monitoring /\ (p = "seed" => client.role = "seed")

SkipPlugin ==
    /\ pc \in DOMAIN After
    /\ ~Runs(pc)
    /\ Goto(After[pc])
    /\ Silent
    /\ UNCHANGED info

(* A call of client plugin p; whether it returns or raises, the next one follows. *)
ClientPlugin(p) ==
    /\ pc = p
    /\ Runs(p)
    /\ Goto(After[p])

(* The connection counts are set in the client through the websocket, when it just *)
(* came online; no other plugin looks at them.                                   *)
MonitorSeed ==
    /\ ClientPlugin("seed")
    /\ Silent
    /\ UNCHANGED info

(* network_connections.monitor() and free_disk_space.monitor(): measure, push, *)
(* notify; measuring may raise.                                                *)
Measure(t) ==
    \/ Silent
    \/ \E v \in Readings(t) :
         LET next == PushTo(mon, t, v)
         IN Outcome(next, Changed(next, {t}), FALSE)

MonitorConnections ==
    /\ ClientPlugin("network_connections")
    /\ Measure("connections")
    /\ UNCHANGED info

MonitorDisk ==
    /\ ClientPlugin("free_disk_space")
    /\ Measure("disk")
    /\ UNCHANGED info

(* A client that just came online has a closed and locked wallet. *)
ForcedWallet ==
    IF JustCameOnline THEN PushTo(PushTo(mon, "open", "closed"), "locked", "locked")
                      ELSE mon

(* Mutant: notifications are sent when both calls have returned. *)
MonitorWalletNotifiesLast ==
    /\ ClientPlugin("wallet_state")
    /\ \/ Outcome(ForcedWallet, {}, FALSE)
       \/ \E o \in Readings("open"), l \in Readings("locked") :
            LET opened == PushTo(ForcedWallet, "open", o)
                next == PushTo(opened, "locked", l)
            IN \/ Outcome(opened, {}, FALSE)
               \/ Outcome(next, Changed(next, {"open", "locked"}), FALSE)
    /\ UNCHANGED info

(* is_new() and then is_locked() are asked; either call may raise. *)
MonitorWallet ==
    /\ ClientPlugin("wallet_state")
    /\ \/ Outcome(ForcedWallet, {}, FALSE)
       \/ \E o \in Readings("open") :
            LET opened == PushTo(ForcedWallet, "open", o)
            IN \/ Outcome(opened, Changed(opened, {"open"}), FALSE)
               \/ \E l \in Readings("locked") :
                    LET next == PushTo(opened, "locked", l)
                    IN Outcome(next, Changed(next, {"open", "locked"}), FALSE)
    /\ UNCHANGED info

(* A client that just came online is taken to be behind. *)
ForcedSync ==
    IF JustCameOnline
    THEN PushTo(PushTo(PushTo(mon, "sync", "stale"), "sync", "stale"), "sync", "stale")
    ELSE mon

(* Mutant: the answer is pushed as it is. *)
MonitorForkRaw ==
    /\ ClientPlugin("fork")
    /\ \E answer \in InfoAnswers :
         LET next == PushTo(ForcedSync, "sync", answer)
         IN /\ info' = answer
            /\ Outcome(next, Changed(next, {"sync"}), FALSE)

(* fork.monitor(): is_synced() looks at the age of the head block in info(). *)
MonitorFork ==
    /\ ClientPlugin("fork")
    /\ \E answer \in InfoAnswers :
         LET next == PushTo(ForcedSync, "sync",
                            IF answer = "synced" THEN "up-to-date" ELSE "stale")
         IN /\ info' = answer
            /\ IF answer = Failed
               THEN Outcome(ForcedSync, {}, FALSE)
               ELSE Outcome(next, Changed(next, {"sync"}), FALSE)

(* The node that voted_in looks at. *)
LooksAt(i) ==
    /\ pc = "voted_in"
    /\ voter = i
    /\ "voted_in" \in client.monitoring

(* What is_active() does: info() and the look-ups of the names of the active *)
(* witnesses may raise, and any exception is answered FALSE.                 *)
IsActive(active) ==
    /\ info' \in InfoAnswers
    /\ info' = Failed => ~active

(* voted_in.monitor() up to just_changed(). *)
MonitorVoter ==
    \E i \in 1..Len(Voters), active \in BOOLEAN :
        LET next == PushTo(mon, Voters[i], IF active THEN "active" ELSE "standby")
        IN /\ LooksAt(i)
           /\ IsActive(active)
           /\ Outcome(next, {}, FALSE)
           /\ IF JustChanged(next[Voters[i]])
              THEN pc' = "head_block" /\ UNCHANGED voter
              ELSE voter' = voter + 1 /\ UNCHANGED pc

(* Mutant: the notice is sent again by the next look when it was lost. *)
AnnounceVoteTwice ==
    \E i \in 1..Len(Voters), answer \in InfoAnswers :
        /\ pc = "head_block" /\ voter = i
        /\ info' = answer
        /\ IF answer = Failed
           THEN Silent /\ pc' = "voted_in" /\ voter' = voter + 1
           ELSE /\ Outcome(mon, {Voters[i]}, FALSE)
                /\ UNCHANGED <<pc, voter>>

(* The head block is looked up for the text of the notice, which is lost when *)
(* one of its calls raises: the monitor has already taken the change.         *)
AnnounceVote ==
    \E i \in 1..Len(Voters) :
        /\ pc = "head_block" /\ voter = i
        /\ info' \in InfoAnswers
        /\ \/ /\ lost' = lost \cup {Voters[i]}
              /\ sent' = {}
              /\ UNCHANGED <<client, mon, told, back>>
           \/ info' # Failed /\ Outcome(mon, {Voters[i]}, FALSE)
        /\ pc' = "voted_in"
        /\ voter' = voter + 1

RolesDone ==
    /\ pc = "voted_in"
    /\ voter > Len(Voters) \/ "voted_in" \notin client.monitoring
    /\ pc' = "sleep"
    /\ voter' = 1
    /\ Silent
    /\ UNCHANGED info

(* A web view drops the cached results of the client. *)
ViewClearsCache ==
    /\ info # NoInfo
    /\ info' = NoInfo
    /\ Silent
    /\ UNCHANGED <<pc, voter, hung>>

(* The step at hand sends the client a request that the cache does not answer. *)
AsksClient ==
    \/ pc \in {"online", "info"} /\ info = NoInfo
    \/ pc = "indexing" /\ client.role \in {"witness", "feed_publisher"}
    \/ pc \in {"seed", "network_connections", "wallet_state"} /\ Runs(pc)
    \/ pc = "fork" /\ Runs(pc) /\ info = NoInfo
    \/ \E i \in 1..Len(Voters) : LooksAt(i)
    \/ pc = "head_block"

(* The client accepts the request and does not answer: requests.post() is given no *)
(* timeout, and the thread waits.  The next step of the thread, if there is one, is *)
(* the end of the call, with whatever outcome.                                      *)
Hang ==
    /\ ~hung
    /\ AsksClient
    /\ hung' = TRUE
    /\ Silent
    /\ UNCHANGED <<pc, voter, info>>

Thread ==
    /\ hung' = FALSE
    /\ \/ BeginIteration
       \/ MonitorOnline
       \/ MonitorIndexing
       \/ GetInfo
       \/ SkipPlugin
       \/ MonitorSeed
       \/ MonitorConnections
       \/ MonitorWallet
       \/ MonitorFork
       \/ MonitorDisk
       \/ MonitorVoter
       \/ AnnounceVote
       \/ RolesDone

Next == Thread \/ Hang \/ ViewClearsCache

Spec == Init /\ [][Next]_vars

(* The thread sleeps and loops for ever: it is always scheduled again, unless it waits *)
(* for the client, and nothing makes the client answer.                                *)
FairSpec == Spec /\ WF_vars(~hung /\ Thread)
-----------------------------------------------------------------------------
(* Topics whose monitor only ever sees what was measured. *)
Measured == {"online", "connections", "disk"}

(* Topics whose monitor is forced Down when the client comes online. *)
Forced == {"open", "locked", "sync"}

(* Witnesses for which a change of vote is not notified, or not yet. *)
Unsure == lost \cup {Voters[i] : i \in {j \in 1..Len(Voters) : pc = "head_block" /\ voter = j}}

OnlinePromise ==
    INSTANCE Debounce WITH N <- 3, Values <- {"online", "offline"}, Nothing <- None,
        seen <- LastPushed(mon["online"]), run <- RunLength(mon["online"]),
        believed <- Settled(mon["online"]), report <- JustChanged(mon["online"])

ConnectionsPromise ==
    INSTANCE Debounce WITH N <- 3, Values <- {"connected", "starved"}, Nothing <- None,
        seen <- LastPushed(mon["connections"]), run <- RunLength(mon["connections"]),
        believed <- Settled(mon["connections"]),
        report <- JustChanged(mon["connections"])

(* The user believes what the last notification said.  On a measured topic that   *)
(* is never the opposite of what the plugin currently holds for stable, whatever  *)
(* iterations were cut short by exceptions; on a topic that is forced down, a     *)
(* recovery at least is never kept from a user who was told of the failure; on    *)
(* the vote for a witness it is so unless the notice of the last change was lost  *)
(* (monitor() of online, network_connections, free_disk_space, fork, wallet_state *)
(* consume the change and notify it with no call between; voted_in does not).     *)
ToldTheTruth ==
    /\ \A t \in Measured :
         Stable(mon[t]) # None /\ told[t] # None => told[t] = Stable(mon[t])
    /\ \A t \in Forced :
         Stable(mon[t]) = Up[t] => told[t] # Down[t]
    /\ \A t \in Names :
         Stable(mon[t]) # None /\ told[t] # None /\ told[t] # Stable(mon[t]) => t \in Unsure

(* A notification is never repeated: between two alerts of one kind there is the  *)
(* all-clear.  The all-clears of fork and wallet_state may repeat, but only when  *)
(* the client came online since the last one (fork.py:39, wallet_state.py:52), and*)
(* a vote notice only after the notice of the change before it was lost, even when*)
(* two nodes of one name push to the same monitor (monitor.py:150-152).           *)
NoRepeatedNotice ==
    [][\A t \in sent' :
          told'[t] = told[t] => \/ t \in back \cap Forced /\ told[t] = Up[t]
                               \/ t \in lost]_vars

(* The monitors of the poll and of the connections keep the promise of            *)
(* StableStateMonitor (monitor.py:38-42) over the life of the thread: iterations  *)
(* that were skipped or cut short by an exception never make a state count twice, *)
(* nor is the change of a believed value reported without three equal readings.   *)
OnlineKeepsPromise == OnlinePromise!Spec
ConnectionsKeepPromise == ConnectionsPromise!Spec

(* When the client comes online the fork plugin forces its state to stale "so we  *)
(* get the notification when we're up-to-date" (fork.py:39): when an iteration    *)
(* ends with a chain that is stably up to date, the user was told so since the    *)
(* client came online.                                                            *)
SyncAnnounced ==
    pc = "sleep" /\ "sync" \in back /\ ~JustCameOnline
        => Stable(mon["sync"]) # "up-to-date"

(* Every call that hangs ends at last, with an answer or an error. *)
CallsEnd == []<>~hung

(* A client that was believed online and can never be reached again is reported   *)
(* offline, for good, as long as the calls to it end: refused, reset or answered  *)
(* with an error.  A client that accepts the poll and stays silent is never       *)
(* reported: rpcutils.py:72 has no timeout, as the TODO of rpcutils.py:172        *)
(* suspects.                                                                      *)
OutageIsReported ==
    CallsEnd /\ <>(Settled(mon["online"]) = "online") /\ <>[](info \in {NoInfo, Failed})
        => <>[](told["online"] = "offline")

(* A client that stays online with a chain that stopped is reported out of sync,  *)
(* when the fork plugin held the chain for up to date, the client is not just     *)
(* coming back from an outage and the calls to it end.                            *)
StoppedChainIsReported ==
    CallsEnd =>
        (/\ "fork" \in client.monitoring
         /\ Settled(mon["sync"]) = "up-to-date"
         /\ Stable(mon["online"]) = "online" /\ ~JustCameOnline
         /\ [](info \in {NoInfo, "behind"}))
            ~> (told["sync"] = "stale")
==============================================================================
