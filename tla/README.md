# Verification of bts_tools

bts_tools is a Python program that watches the clients of graphene blockchains
(BitShares, Steem, Muse, PeerPlays): it polls them, indexes their blocks, publishes
price feeds, notifies its operator and shows what it knows on a web page. This
directory holds TLA+ specifications of its own logic, the TLC configurations that check
them on small instances, and proofs checked by TLAPS.

Paths are relative to `src/bts_tools/` unless they start with `docs/`. `PROJECT.json`
lists the components, the runs, the mutants that show that each property can fail, the
source lines of each definition, the hazards and the theorems.

    tlc -workers 2 -config MonitorLoop.cfg MCMonitorLoop.tla     # a run
    tlapm MonitorLoopProofs.tla                                  # the proofs of a module

## 1. Inventory

One process runs a Flask front end, a monitoring thread per client, a websocket thread
per witness client, a timer thread per client with a feed publisher, and, on the
configured chains, a crawler of seed nodes. They share the objects `GrapheneClient`, the
RPC cache, the websocket registries, the database `core.db`, the global `feeds` and one
`BitSharesFeedControl`, all without a lock: the GIL makes single dictionary operations
atomic and nothing else.

| Component | State | Operations | Talks to | What is hard | What makes it correct |
|---|---|---|---|---|---|
| `StableStateMonitor` (`monitor.py:38-68`) | deque of n+1 states, last stable state | `push`, `stable_state`, `just_changed` | every plugin | when to remember the stable value; size of the deque | a change is reported once, exactly at the n-th equal state |
| Monitoring thread (`monitor.py:79-230`, `monitoring/*.py`) | contexts per client and per node name, monitors, `info` | one iteration: drop the cache, poll, index, plugins | RPC cache, websocket, notifications, database | exceptions that end an iteration half way; states forced without a notice; contexts shared by nodes of one name | what the operator was told agrees with the monitors, nothing is told twice, failures are told in the end |
| Indexing and missed blocks (`monitoring/indexing.py`, `missed.py`, `core.py:149-179`) | `last_indexed_block`, `total_produced`, `total_missed`, `streak`; the file | index, retry, save at exit, load | RPC cache, monitoring thread | failures in the loop, cached `None`, kill or exit in the middle | each block counted once for its witness, none skipped, streaks true |
| RPC cache (`rpcutils.py:48-53, 216-261`) | `_rpc_cache[host, port]` | cached call, drop | monitoring threads, views, feed threads | threads between the test, the look-up and the store | a result is not older than the drop; asked once; no spurious failure |
| Websocket client (`graphene.py`) | `_event_loops`, `_monitoring_protocols`, `_ws_rpc_cache`, request ids, futures | connect, log in, call, time out, reconnect | callers in all threads | reconnection and late answers | the caller gets its own answer or fails; ids belong to their connection; it reconnects |
| Feed schedule (`feeds.py:280-345`, `feed_publish.py:142-249`) | `nfeed_checked`, `last_published`, timers | check, decide, publish, set the timer again | providers, RPC | shared counters, drift, boundaries of the rules | published as configured; checks never end |
| Feed publication (`feed_publish.py:252-311`) | transaction builder of the wallet | build, sign, fall back | RPC cache | cached answers to calls with effects; partial failure | what is logged is on the chain; one failing feed does not stop the rest |
| Feed prices (`feeds.py:94-251`, `feed_providers/`) | prices, history, visible feeds, provider caches, a process pool | fetch, combine, median | feed threads | providers that fail; results out of order; global state shared by clients | a price is never made of missing or mixed-up answers |
| Seed node crawler (`seednodes.py`) | results per chain, history of 3, stable status | probe in threads, join with timeout, publish | views | late threads, results of different rounds | a seed is shown online exactly when one of its last three probes found it so; a probe that hangs stops nothing |
| CPU statistics (`monitoring/cpu_ram_usage.py`) | bounded deque of samples | sample, decimate, read | all monitoring threads, views | a time span that is no multiple of the length; iterations that are missed | bounded, ordered by time, spanning the time asked for |
| Backbone (`monitoring/backbone.py`, `prefer_backbone_exclusively.py`, `backbone.py`) | age of connection attempts | reconnect with a rate limit | RPC client | period 0, a loop that an exception ends | nodes are tried again for ever, and not hammered |
| Configuration and processes (`core.py`, `cmdline.py`, `process.py`) | config, database, caches of processes | load, expand roles, run | everything | defaults and merges | every role gets its plugins |
| Front end (`frontend.py`, `views.py`) | main node | render; drop the cache | RPC cache | runs in the middle of an iteration | see RPC cache |
| Notifications (`notification.py`) | none | send by e-mail, Boxcar, Telegram | plugins | failures of a channel | one channel does not stop the others |
| The rest: `deploy.py`, `vps/`, `network_utils.py`, `base58.py`, `privatekey.py`, `slogging.py`, `repl.py`, `wsgi*.py`, `commands/` | none shared | scripts, encodings, look-ups | | | |

The JavaScript under `static/` is vendored.

## 2. The modules

Each definition says in a comment what code it stands for; `map` in `PROJECT.json` gives
the lines.

**`StableState`** – `StableStateMonitor` as operators on a record
`[n, states, last]`: `Push`, `Stable`, `JustChanged`, as in `monitor.py:43-67`. Used by the
two modules below.

**`Debounce`** – the abstract specification: the last value, its run, the believed value,
and whether the last observation changed it. No queue.

**`StableMonitor`** – one monitor to which any value may be pushed; `KeepsPromise` says
that it implements `Debounce` with `run` the length of the run at the end of the queue and
`believed` the value the monitor stands by.

**`MonitorLoop`** (`MCMonitorLoop`) – `monitoring_thread()` with the plugins that watch a
two-valued state. One action is one plugin call, in the order of `CLIENT_PLUGINS`; `pc`
is the plugin called next. A plugin that may raise has the alternative outcome it has in
the code: the handler of its own (`monitor.py:205-209`: the next plugin follows) or the
outer one (`monitor.py:226`: the iteration is over), with everything pushed before the
exception kept. `voted_in` takes two steps, because it calls the client between pushing
the state and notifying. `info` is the cache entry of `info()`, shared by the plugins of
an iteration and dropped by `ViewClearsCache`. A call may be accepted and not be answered
(`Hang`): the thread then waits, and goes on only if the call ends. `told`, `sent`, `back` and `lost` are
history: what the operator was told. The client and the role of `nodes[0]` are chosen in
`Init` from the constant `Clients`.

**`Indexing`** (`MCIndexing`) – the poll that begins an iteration, the look-ups of the names,
the loop of `indexing.py:80-106` step by step (get a block, retry, give up, advance),
`missed.monitor()` per node, the chain as environment, and the database: `BeginSave` writes
the keys in their order while the thread goes on, then the process ends; or it is killed.
What the iteration asks of the client, the head block and the misses of each witness, goes
through the cache (`Ask`), which a view may drop, or fill with an answer it asked for before:
`ViewAsks` and `ViewStores` are two steps, with anything in between. The look-ups of the names
are one step, and one call of a view is on its way at a time. `counted`, `disturbed` (a view
changed the cache in this iteration) and `misled` (the witnesses whose streak rests on an
answer older than what was counted) are history.

**`RpcCache`** (`MCRpcCache`) – `rpc_call()` as the interpreter runs it between thread
switches: test, look up, ask, store. A step that looks up `_rpc_cache[rpc_id]` and then
acts on a dictionary another thread has deleted is as if done before the deletion, so one
step per look-up is enough. What the client answers is its version, or an exception with
the version it was raised at. The rounds are iterations, views or feed checks; those in
`Clearing` drop the cache first.

**`WsClient`** (`MCWsClient`) – `run_monitoring()`, the callbacks of `MonitoringProtocol`
and `ws_rpc_call()`: the thread registers a loop, connects, serves, closes it and drops
protocol and loop one after the other; callers look up the loop and then the protocol,
hand over a callback and wait for a future or give up.

**`FeedSchedule`** (`MCFeedSchedule`) – the timers of `check_feeds()` in discrete time, the
non-atomic increment of `nfeed_checked`, `should_publish()` with its rules (count,
interval, slot, each with the arithmetic of the code: the truncated period, the division
by it, minute 0, the factor 1.1) and `should_publish_steem()`. `IntervalCanBeKept` and
`SlotCanBeKept` say of settings that the code can keep what they ask for.

**`FeedPublish`** (`MCFeedPublish`) – `publish_bts_feed()` for the publishers of one
client: each call to the transaction builder goes through the cache, may be answered by
it, by the wallet, or raise; the fall-back publishes the feeds one at a time.

**`FeedPrices`, `FeedRules`** – how a price comes to be: which providers answer
(`Compute`), the rules of `config.yaml` applied one after the other, each with its handler
(`ApplyRules`), the history all clients share (`RecordPrices`), the global `feeds`
(`SetFeeds`) and the medians that are published. Of a price only its unit is kept, which
tells a price from its inverse and from one in another base. `Follows` is the reference
definition of what the rules imply, without their order; `since` and `usable` are history.
`FeedRules` constructs the rules and says which `config.yaml` may hold (`AreRules`), and which
come in the order in which they use each other, as the shipped ones do (`InOrderOfUse`).

**`Feeds`** (`MCFeeds`) – `FeedPublish` beside an instance of `FeedPrices`: a behaviour is one
of the one or of the other.

**`SeedNodes`** – `monitor_seed_nodes()`: start a probe per seed, wait for them a limited
time, keep the last three rounds, show a status. A probe that was not waited for writes to
the answers of its own round (`LateAnswer`), wherever that is in the history. `lastSeen` is
history.

**`Backbone`** – `reconnect_backbone()`, step by step in the loop over the hosts: the ages
of the last iteration are put aside and built anew, a host whose age comes to the period is
tried, which may raise and end the loop. `quiet`, `excused` and `trouble` are history.

**`CpuStats`** – the deque of samples: `Monitor` records or skips, `Missed` is an iteration
that ended before the plugin. A sample is its age.

**`MCSmallParts`** – one run for `StableMonitor`, `SeedNodes`, `Backbone` and `CpuStats`, which
do not interact: `Init` chooses which of them runs.

**`StableStateProofs`, `SmallPartsProofs`, `MonitorLoopProofs`, `RpcCacheProofs`,
`WsClientProofs`, `IndexingProofs`, `FeedScheduleProofs`, `FeedsProofs`** – proofs.

The modules meet in three places. `MonitorLoop` is built on `StableState`, and its runs check
that two of its monitors implement `Debounce` within the loop. The cache is a module of
its own, and the modules of its users keep only the entries that matter to them:
`info` in `MonitorLoop`, `cached` and `cachedNone` in `Indexing`, `cache` in `FeedPublish`.
These answer a call of their own thread in one step; the windows inside a call are the subject
of `RpcCache`, and `Indexing` has the one that matters to it, between the answer to a view and
its entry in the cache. And
`check_feeds()` is in three modules: `FeedSchedule` decides when, `FeedPrices` what, and
`FeedPublish` whether it arrives. What passes between them is one value, which each of them
leaves open: `FeedPrices` may be told not to publish at any check, `FeedPublish` takes any price.

## 3. The runs

All bounds are constants of the modules or of the MC modules. Deadlock is checked in
`stable_monitor`, the three runs of `MonitorLoop` and `ws_client`; the other models stop when
their bounds are reached. A run of several modules that do not interact
(`MCSmallParts`, `Feeds`) chooses one of them in its initial state.

| Run | States | What it shows |
|---|---|---|
| `stable_monitor` | 443 000 | A monitor of size 3 over three values implements `Debounce`; longer queues and more values add nothing that the proof does not cover. Two seeds, any probe late: `ShownAsSeen`, `RoundsGoOn`. Three hosts, one of them the node itself, periods of 0, 1 and 3 iterations: `RateLimited`, `KeepsTrying`. At most three samples for spans of 0 to 10 iterations, so that spans shorter than the deque, multiples of its length and others occur: `SpanAsAsked`. None of the four needs a bound: behaviours of any length are covered. |
| `monitor_loop` | 534 000 | For a witness with fork, one with voted_in on two nodes of one name, a feed publisher with wallet_state, a seed node with network_connections, and a client with free_disk_space: `ToldTheTruth`, `NoRepeatedNotice`, and the monitors of the poll and the connections implement `Debounce`. The model is finite without a bound: behaviours of any length are covered. |
| `monitor_liveness` | 145 000 | For a witness under weak fairness of the thread, any call of which may hang: as long as calls end, a client that stays away is reported offline, a chain that stays behind is reported stale. |
| `sync_announced` | violation | `SyncAnnounced`, see section 5. |
| `indexing` | 5 290 000 | Two witnesses of which the client may resolve one; three blocks with a miss; two blocks with two misses; two blocks with a miss and a view that calls the client; a full index with two restarts, and with a miss and one restart; views that drop the cache in all of them. `Accounting`, `NothingSkipped`, `StreakIsTrue`, `OnlyViewsMislead`. Two blocks make a gap and an order; the third puts a miss between counted blocks; one late answer of a view is enough to be older than a block; two restarts put one between a save and a load. |
| `index_retry` | violation | `RetriedThrice`, see section 5. |
| `rpc_cache` | 3 230 000 | A monitoring thread with two iterations of two calls, a view of two calls, a feed thread of one call, one cacheable method and one that is not, one change of the client. `Fresh`, `AskedOnce`. |
| `ws_client` | 326 000 | Two connections, a caller that gives up and calls again, a second caller. `RightAnswer`, `OwnGrants`, `HandedToLiveProtocol`, `Reconnects`. Two connections let everything of the first meet the second. |
| `feed_schedule` | 245 000 | Four settings: an interval of two checks with a Steem client beside; a slot late in the hour, of two publishers, met at every phase of the checks and drift, before and after the turn of the hour; everything failing at will; an interval shorter than the checks. `Regular`, `SlotKept`, `ChecksGoOn`. |
| `feed_second` | violation | `Regular` with two witnesses on one client, see section 5. |
| `feed_publish` | 632 000 | Prices, in three configurations: the shape of the shipped rules with a client for BitShares and one for Steem; two clients for BitShares, whose threads share history and `feeds`; an asset that `BIT_ASSETS` does not list. Any provider may fail in any of two checks (one for Steem), and the histories hold two prices, so that they fill and an old price can outlive a failure. `PricedExactly`, `OneUnit`, `Recent`. Publication: one publisher, two assets, two rounds, two prices, any call failing, the cache dropped at any time. `ClaimIsTrue`, `OthersPublished`, `NothingStale`. Two rounds let the answers of the first serve the second. |
| `feed_claim` | violation | `ClaimIsTrue` with two publishers on one wallet, see section 5. |

Some properties carry a condition that excludes what the code is known not to do; section 5
says what happens then. `Accounting` and `StreakIsTrue` are stated for the first process, since
a restart may count a block twice, and `StreakIsTrue` leaves out the witnesses for which a
view left an old answer in the cache, until their next block; `OutageIsReported` and
`StoppedChainIsReported` speak of a client that ends the calls to it (`CallsEnd`); `RateLimited` excuses hosts that lost their age, and
`KeepsTrying` speaks of a time without failing calls; `PricedExactly` does not ask for what a
loop leaves out after a failure; `Recent` accepts the price of another client; `Regular` is
run with one publisher of BitShares and an interval no shorter than the checks, and `SlotKept`
with a minute other than 0 and checks of less than a twentieth of the interval, which
`MCFeedSchedule` states as `SettingsAssumption`; `OthersPublished` for checks with a price for
every asset.

**Fairness.** `MonitorLoop`: `WF_vars(~hung /\ Thread)`. The thread is a loop that sleeps for a
fixed time and the interpreter schedules it again, unless it waits for the client: nothing in
the code ends a call, since `requests.post()` has no timeout (`rpcutils.py:72`). That every
call ends after a time is a condition of the two properties (`CallsEnd`), and without it both
fail; nothing else is assumed of the client, nor of the views, nor of which outcome a call has. `WsClient`: `WF_vars(Thread)`, the thread of
`run_monitoring()`, which blocks only in `run_forever()`, where the model's step is disabled;
no fairness for the witness, the callers or the network. `FeedSchedule`: weak fairness of
time and of the steps of each timer thread (`threading.Timer` starts one when it fires); it
assumes that every request to a provider ends, although `feed_providers/aex.py:45`,
`binance.py:42` and `uphold.py:67` set no timeout and `feeds.py:110` waits for all of them, and
that every request to the wallet ends, which has no timeout either (`rpcutils.py:72`).
`SeedNodes`: weak fairness of the crawler, which only sleeps and joins with a timeout; nothing
of the probes. `Backbone`: weak fairness of the monitoring thread, nothing of the peers; it assumes that the
calls of that thread end, for the same reason.

## 4. What is proved

TLAPS proves the following for every value of the constants that satisfies the modules'
assumptions.

* `StableStateProofs`: lemmas on `Push`, `Stable` and `Settled`: a push keeps a monitor
  well-formed, what the run of a pushed queue is, when it is stable. The queue being a suffix
  of at most n+1 states, its last run, cut at n, is a function of the queue before the push
  and the value (`RunPushed`); so a push is an observation of `Debounce` (`PushObserved`).
* `SmallPartsProofs`, a section for each part of `MCSmallParts`:
  - a monitor: `TypeCorrect`, and `Refinement` (`KeepsPromise`): of any size and over any set
    of values it implements `Debounce`.
  - the crawler: `ShowsWhatWasSeen` (`ShownAsSeen`), for any seeds and statuses. `CrawlerIInv`
    says for every k that a seed was seen within k rounds exactly when one of the last k
    rounds holds the answer "online" (`LastSeenIsTrue`), and that a probe that goes on has
    not answered yet; the lemmas say what a new round does to the places of the others.
  - the reconnection: `Limited` (`RateLimited`), for any hosts and periods. The property is
    about the history `quiet`, the code about ages: `LoopIInv` adds that for a host that is
    not excused the two agree: its age, or the one put aside while the loop has yet to come
    to it, is the time since it was tried (`AgeIsTrue`).
  - the samples: `SpansWhatWasAsked` (`SpanAsAsked`), for any time span and length. Of the
    samples recorded since the deque was full, the one k places from the end is at least k
    ratios old, and by the loop index more (`Spaced`), whatever iterations were missed.

  `PartsTypeCorrect` (`PartsTypeOK`) holds the types of the last three. These theorems are
  about `PartsSpec`, whose behaviours are those of the parts.
* `MonitorLoopProofs`: `TypeCorrect`, `Truthful` (`ToldTheTruth`), `NoRepetition`
  (`NoRepeatedNotice`), `OnlineRefinement` (`OnlineKeepsPromise`) and `ConnectionsRefinement`
  (`ConnectionsKeepPromise`), for all clients, roles, sets of plugins and sequences of voters.
  The first two properties are not inductive: they speak of `Stable`, which goes back to `None` in the
  middle of a change, and of the plugins' forced states. The invariant `IInv` states for
  each topic (`Good`) that the last notice is what the monitor *settled* on, that a forced
  topic may only be down without the operator knowing, that in the iteration that saw the
  client come online no forced topic was notified since (`NotYetForced`), and that a pending
  vote notice stands for a change (`NoticeDue`). The lemmas `Faithful` and `Promised` say
  what one push does to `Good`; the proof then has a step per action of `Next`. The
  refinements add that each queue ends with a run (`PolledRuns`); `PolledPushed` says that
  no step but the plugin's own reaches the monitor, and that this one pushes once.
* `RpcCacheProofs`: `TypeCorrect`, `ServesFresh` (`Fresh`) and `AsksOnce` (`AskedOnce`), for any
  number of threads and methods. `IInv` adds for each thread what is on its way: no entry of
  the cache and no answer about to be stored is older than the thread's last drop allows
  (`FreshFor`); as long as nobody else drops the cache, what the thread asked for is in it or
  about to be (`KeptFor`).
* `WsClientProofs`: `TypeCorrect`, `AnswersAreRight` (`RightAnswer`), `GrantsAreOwn`
  (`OwnGrants`) and `HandedToLive` (`HandedToLiveProtocol`), for any callers, calls and
  connections. `RightAnswer` speaks of what a call came to; what makes it true is on the
  way: `IInv` says that a request on the wire is the one that `request_map` holds under its
  id and carries an API id of this connection (`Pending`), that no future was set to the
  answer to another (`Delivered`), that what is queued is for the protocol the loop serves
  (`HandedOver`), and which registries, links and grants go with each point of the thread
  (`Registered`, `Connected`).
* `IndexingProofs`: `TypeCorrect`, `NothingIsSkipped` (`NothingSkipped`), `AccountsAreRight`
  (`Accounting`), `StreaksAreTrue` (`StreakIsTrue`) and `ItselfNotMisled` (`OnlyViewsMislead`),
  for chains of any length, any witnesses, misses, restarts and calls of views. The properties
  speak of `last_indexed_block`, the code counts a block before it advances: `IInv` is about the block reached (`Reached`), and about the
  file as well (`NoneSkipped`, `Files`), since a restart goes on from it. `Sizes` bounds the
  counters by the chain and the number of starts; `Tally` is `Accounting` within a step, and
  `Looked` relates the streak, the misses at the last counted block and the total the plugin
  saw, for the witnesses that are not misled. That a set of counted blocks has a greatest
  element is carried along, block by block. `CInv` is about the cache: no answer is ahead of the
  client (`NotAhead`), and in an iteration that no view touched every total in the cache is as
  new as each block up to the last that the iteration will count (`Fresh`, `Horizon`). The head
  block is in the cache from the poll on, so the names, looked up after it, cannot be older.
* `FeedScheduleProofs`, for any settings: `TypeCorrect`, from `ScheduleIInv`, which says that a
  check ends within its delay (`OnTime`) and that what was noted is past. `IntervalsAreKept`
  (`Regular`): the property speaks of now, the code of its decisions. `IntervalWatched` says
  that no timer is set for later than a check after the interval has passed, and that a check
  which has decided against publishing was due before that; `NotedIsPublished`, that the
  interval counts from a publication of the witness. The hypothesis is `IntervalCanBeKept`: the
  period is not 0, or every decision raises, and BitShares has one witness, since
  `last_published` is that of whoever published last (`feed_second`). `SlotsAreKept`
  (`SlotKept`), for every slot of every hour, any number of clients and publishers and any
  phase of the checks: `SlotWatched` says for each slot and publisher that it published since,
  or the timer is not set for later than a check after the slot, and no decision against it
  was due after it. `SlotIsSeen` is the arithmetic: whichever hour it is, a slot passed no longer
  ago than the checks can lie apart is one of the three that `should_publish()` looks at, and
  less than 1.1 intervals back. Decisions lie an interval and two delays apart at most, so a tenth
  of the interval is enough for checks of less than a twentieth: the hypothesis
  `SlotCanBeKept`, with a minute that is not 0. Section 5 says what breaks it.
* `FeedsProofs`, the publication: `TypeCorrect`, for any publishers; and for a client with
  one publisher, as in the shipped configuration, `ClaimsAreTrue` (`ClaimIsTrue`),
  `OthersArePublished` (`OthersPublished`) and `NothingIsStale` (`NothingStale`), for any
  assets, prices and number of checks. The hypothesis is needed: `feed_claim` is the
  counterexample with two. `PublicationIInv` says that a good answer in the cache is true of
  the wallet (`CacheIsTrue`: the transaction exists, the operation is in it, the feed was
  published in this round) and how far the publisher has come (`Progress`). `OwnTransaction`
  is what two publishers break: neither the transaction nor its signature comes from the
  cache, and there is nothing in it but the publisher's own operations.
* `FeedsProofs`, the prices, for any configuration, that is, any clients, markets, rules and
  length of the histories: `PricesTypeCorrect` (`PricesTypeOK`), `PublishesTheRecent`
  (`Recent`), and `HistoriesInOneUnit` (`OneUnit`) if no configuration gives an asset two
  bases (`OneBase`): the histories do not tell ALTCAP in BTS from ALTCAP in BTC, and no rule
  of the shipped `config.yaml` makes the first. By induction over the rules, and within a
  rule over the elements of a loop, a market never holds a price of a unit but its own,
  whatever was missing and whichever rules failed (`RulesStay`, on `Environments`). `Recent`
  needs to know what the threads of the others are about to do: what a client found is known
  to all whose check goes on, and so is what `feeds` holds (`KnownToAll`). `BothParts` says
  that a behaviour of `Feeds`, which the run checks, is one that these theorems are about.

  Which markets get a price: `PricesAreImplied` (`OnlyImplied`), for any rules in any order, and
  `PricesAreExact` (`PricedExactly`) for rules in the order of their use (`RulesInOrder`): what a
  rule reads was made by rules before it, and not by a loop. The code runs over the rules
  once, so that a rule placed before the one it needs finds nothing, and what a loop leaves
  out after a failure may be missing from the rules behind; `config.yaml:203-228` is in that order.
  What every execution adds is in `ExecuteEffect`, and `RulesEffect` says what a run of all rules is:
  `FeedSet`s that grow, in each of which a rule was read in time (`ReadInTime`) and after which no
  rule has anything to add (`NothingToAdd`) but what a loop left. `Follows`, the reference, is a
  closure over as many steps as there are rules; that so many are enough (`FollowsClosed`) is the
  pigeonhole principle: each step before the last makes a market of some rule that was not there.

Their assumptions: periods, and the bounds on calls, connections, blocks, misses and restarts,
are natural numbers; the witnesses of a configuration are finitely many and none is called
"info", the word `Indexing` has for the other question; "online" is a
status, and the words for "no status" are none; no caller is named by one of the words that
`WsClient` uses for what is not a call (`Words`); publishers and assets are lists that are not
empty; the rules are some of those `FeedRules` constructs, a market is a pair, a history holds
at least one price, and STEEM has one where there is a client of Steem; the first check of a
client begins within one check interval. TLC evaluates them in
every run, `OneBase` and `RulesInOrder` of the configurations of `MCFeeds`, and the two hypotheses
about settings of those of `feed_schedule`.

Every invariant that a passing run checks is stated by a theorem, as are the refinements and the
action properties. Only model-checked is liveness (`OutageIsReported`, `StoppedChainIsReported`,
`Reconnects`, `ChecksGoOn`, `RoundsGoOn`, `KeepsTrying`), which is out of the prover's reach.

## 5. Where the code and its documentation part ways

Shown by a run:

* `sync_announced`: `monitoring/fork.py:39` forces the state to stale "so we get the
  notification when we're up-to-date". `just_changed()` of the online state holds for one
  iteration, and an exception of indexing or `info()` in that iteration skips the plugin.
* `index_retry`: "retry 3 times at 1 second interval" (`monitoring/indexing.py:91`): the `None`
  of the first call is cached and answers the retries.
* `feed_second`: "publish feeds at fixed time intervals" (`config.yaml:153`): `last_published`
  is one for all witnesses, so the first one to publish takes the interval of the second.
* `feed_claim`: "successfully published feeds" (`feed_publish.py:280`) is logged for the second
  publisher on a wallet although the cache answered its calls to the transaction builder.

Met while modelling, each with a step in the model and no run of its own:

* `monitoring/seed.py:49`: the connection counts of a seed node are raised in the single
  iteration that saw it come online; an exception there loses it.
* `monitoring/voted_in.py:42`: two calls between consuming a change of vote and telling it.
* `rpcutils.py:72`: "check pre-emptively whether the witness client is running to avoid timeouts"
  (`rpcutils.py:171`) does not help with the case named above it, a client stopped in gdb: its
  process is running, it accepts the request, and without a timeout the monitoring thread waits
  for ever. The outage is never reported (`Hang`).
* `monitoring/missed.py:55`: the total of missed blocks comes from the RPC cache. A view that
  asked for it (`views.py:326`) before the iteration dropped the cache may store it after, and
  in the first iteration `indexing.py:62` asks for it before `indexing.py:68` asks for the head
  block again, if a view dropped that in between. The total may then be older than the blocks
  just counted: the miss is told an iteration later, as a streak behind the block that had ended it;
  and if the total known was newer, the misses in between are told twice.
* `rpcutils.py:456`: a look-up that fails is taken for a witness that is voted out.
* `core.py:149`: the database may be saved between the count of a block and its number; the next
  process counts the block again.
* `monitoring/missed.py:37`: after a restart with a full index a streak of misses may run on over
  a block produced, against `missed.py:41-42`.
* `graphene.py:202`: `stop()` while `run_until_complete()` runs is swallowed; the loop then runs for
  ever without a connection.
* `feed_publish.py:207`: with the shipped values (interval 60 s, checks every 600 s) the period is
  0 and every check raises; `core.py:269-272` only logs it.
* `feed_publish.py:224`: "publish every hour at a fixed number of minutes" (`config.yaml:154`), but
  the timer is set again at the end of a check and a slot is looked for 1.1 check intervals
  back. With 600 s between checks, a fetch of more than a minute after a decision just before
  the slot misses it; a request may take 60 s, and six threads serve all of them (`feeds.py:110`).
  `SlotKept` fails in `MCFeedSchedule` with `check = 10`, `delay = 2`, `slot = 23`, `hour = 60`.
* `feed_publish.py:219`: a slot at minute 0 is taken for none.
* `feed_publish.py:203`: "Should publish at least once at launch" compares a counter with 0 after it
  was incremented (`feeds.py:290`).
* `feeds.py:311`: an asset without a price keeps the others from being published.
* `feeds.py:289`: `feeds` is global; with two clients of one chain a publisher may publish a
  price that its own check did not find and the other's did (`Recent` allows for it).
* `feeds.py:319`: Steem publishes the median of the history whatever the check found, so the
  last prices go out again and again while the providers are silent (`PublishSteem`).
* `feeds.py:177-182`: a rule that fails within a loop leaves out the rest of the loop, though
  its other elements have their prices (`LeftOut`).
* `feeds.py:243`: a price for an asset outside `BIT_ASSETS` ends the check after some of the
  others entered the history (`RecordPrices`).
* `feed_providers/__init__.py:119-145`: the count of consecutive failures is one for all markets
  of a provider, so a market that answers resets it for one that fails.
* `monitoring/backbone.py:42`: "rate limiting to avoid hammering the server" is void after an
  iteration in which the list was empty or an earlier host raised: the ages are lost and the
  hosts tried at once (`excused`). With a period of 0 (`monitoring/backbone.py:32`) every
  iteration that finds a host missing raises.
* `backbone.py:55-56`: as long as its own port is unknown the node tries to connect to itself.
* `monitoring/cpu_ram_usage.py:98`: "the time span will be at least the one asked for" holds once
  the samples of the start are gone, not while they are replaced by sparser ones (`sparse`).
* `docs/config_yaml.rst:262-263` and `templates/config/monitoring.yaml:51-52` describe the interval and
  the slot under `feeds.bts`; the code reads `feeds.publish_strategy`.
* `rpcutils.py:233`: a `KeyError` makes `status()` say `'error'`, which the poll counts as offline
  (one reading of the three it needs); it takes another thread that deletes the cache between
  the test and the look-up (`Read`).

## 6. What is not modelled

* The HTTP request of `rpc_call()` and the proxy: I/O; any call may answer or raise.
* The derived queries of `GrapheneClient` (block ages, slots, accounts): functions of answers,
  some remembered for ever.
* The providers' requests and parsing, with their wrappers (`feed_providers/__init__.py:53-145`):
  `FeedPrices` lets any market be without a price. The amounts of prices are floats and are
  left abstract, and with them the means weighted by volume and the medians.
* `load_config()`, which merges and expands one file before any thread starts; `process.py`,
  a cache of one entry per port over what the operating system tells; `run()`: sequential
  code with no state that another thread changes. At `process.py:60` two threads
  may delete the same entry, and the second gets a `KeyError`, which is one of the exceptions
  `MonitorLoop` has.
* What a sample of `cpu_ram_usage.py` holds, and which thread samples the whole machine.
* Delivery of notifications, rendering, logging, deployment, VPS providers, the build
  commands of `cmdline.py`, elliptic-curve arithmetic, base58: I/O, third-party code, or
  encodings over bytes, where unit tests do what a model could.
* `static/`: vendored JavaScript.
* Python's scheduling is any interleaving of the steps; signals and out-of-memory are not
  modelled, but for the kill of the process in `Indexing`.

Five hazards in `PROJECT.json` have no property, with the reason beside each: a failed look-up
taken for a vote (`rpcutils.py:456`), minute 0 (`feed_publish.py:219`), the publication at launch
(`feed_publish.py:203`), the time noted of a publication that failed (`feeds.py:316`), and the
cache deleted under a look-up (`rpcutils.py:233`). The models have these steps; a property against them would state what the code does not do.

## 7. Plan

Done, in this order: `StableState`, `Debounce`, `StableMonitor`; `MonitorLoop`; `Indexing`;
`WsClient`; `FeedSchedule`, `FeedPublish`; `RpcCache`; `FeedPrices`; `SeedNodes`, `Backbone`,
`CpuStats`; the proofs of section 4.

What could still be modelled: the wrappers of the providers (the last value reused on
failure, the count of failures), the expansion of roles in `load_config()`, the queries of
`GrapheneClient` that are remembered for ever.

Next theorems: those that a module for the wrappers of the providers would ask for.
