----------------------------- MODULE FeedPrices -----------------------------
(***************************************************************************)
(* What price of an asset reaches the chain: _fetch_feeds(),               *)
(* _apply_rules() and get_feed_prices() of bts_tools/feeds.py, and the     *)
(* part of check_feeds() that turns the history of prices into what is     *)
(* published.  Every client with a feed publisher runs this on a thread    *)
(* of its own; `feeds` and `price_history` are global and have no lock.    *)
(* Of a price only its unit is kept: <<n, d>> stands for an amount of n    *)
(* for one d.                                                              *)
(***************************************************************************)
EXTENDS Integers, Sequences, FiniteSets, FeedRules

CONSTANT Configs
    (* What config.yaml may say, by name, with the bounds that go with it:      *)
    (*   clients    those with a feed publisher                                  *)
    (*   chain      "bts" or "steem", for each                                   *)
    (*   markets    for each, how many providers are asked for which market      *)
    (*   rules      for each, the rules in order                                 *)
    (*   bitAssets  BIT_ASSETS, those that have a history                        *)
    (*   history    how many prices a median is taken of                         *)
    (*   maxChecks  for each, bound on its checks                                 *)

PricesAssumption ==
    \A name \in DOMAIN Configs :
        LET c == Configs[name]
        IN /\ c.chain \in [c.clients -> {"bts", "steem"}]
           /\ DOMAIN c.markets = c.clients /\ DOMAIN c.rules = c.clients
           /\ \A d \in c.clients : c.markets[d] \in [DOMAIN c.markets[d] -> Nat \ {0}]
           /\ \A d \in c.clients : c.chain[d] = "steem" => "STEEM" \in c.bitAssets
           /\ \A d \in c.clients : \A m \in DOMAIN c.markets[d] : IsMarket(m)
           /\ \A d \in c.clients : AreRules(c.rules[d])
           /\ c.history \in Nat \ {0} /\ c.maxChecks \in [c.clients -> Nat]

(* The markets a client may have a price for. *)
PricedMarkets(c, d) == DOMAIN c.markets[d] \cup Makes(c.rules[d])

(* No asset has its history in two bases: a client of BitShares derives neither *)
(* ALTCAP in BTS nor STEEM in BTS (config.yaml:184-224).                         *)
OneBase ==
    \A name \in DOMAIN Configs :
        LET c == Configs[name]
        IN \A d \in c.clients : c.chain[d] = "bts" =>
              PricedMarkets(c, d) \cap {<<"ALTCAP", "BTS">>, <<"STEEM", "BTS">>} = {}

(* Every client's rules are in the order in which they use each other. *)
RulesInOrder ==
    \A name \in DOMAIN Configs :
        \A d \in Configs[name].clients : InOrderOfUse(Configs[name].rules[d])

VARIABLES
    config,     \* the name of the configuration in use
    at,         \* where check_feeds() of each client is
    checks,     \* how many checks it has begun
    usable,     \* history: the markets it got a price for from the providers
    result,     \* the FeedSet it computes: its markets and their entries
    toPublish,  \* publish_list
    history,    \* price_history: the units of the last prices of each asset
    feeds,      \* the global `feeds`: the assets it has a price for
    since,      \* history: the assets that got a price since its check began, or in a
                \* check that was about to set `feeds` then
    published   \* history: the assets it published in this check

vars == <<config, at, checks, usable, result, toPublish, history, feeds, since, published>>

Clients == Configs[config].clients
Chain == Configs[config].chain
Markets == Configs[config].markets
Rules == Configs[config].rules
BitAssets == Configs[config].bitAssets
HistoryLen == Configs[config].history
MaxChecks == Configs[config].maxChecks

Nonsense == <<"?", "?">>

(* The entries of a market: their units, and whether their mean divides by a *)
(* volume of zero.                                                           *)
Entries(units, flat) == [units |-> units, flat |-> flat]

BaseFor(asset) == IF asset = "ALTCAP" THEN "BTC" ELSE "BTS"  \* get_base_for()

TypeOK ==
    /\ config \in DOMAIN Configs
    /\ at \in [Clients -> {"waiting", "computed", "recorded", "publishing", "over"}]
    /\ \A c \in Clients :
         /\ checks[c] \in 0..MaxChecks[c]
         /\ usable[c] \subseteq DOMAIN Markets[c]
         /\ \A m \in DOMAIN result[c] : result[c][m].flat \in BOOLEAN
         /\ published[c] \subseteq BitAssets
    /\ DOMAIN history = BitAssets
    /\ \A a \in BitAssets : Len(history[a]) <= HistoryLen
    /\ feeds \subseteq BitAssets
    /\ since \in [Clients -> SUBSET BitAssets]

Init ==
    /\ config \in DOMAIN Configs
    /\ at = [c \in Clients |-> "waiting"]
    /\ checks = [c \in Clients |-> 0]
    /\ usable = [c \in Clients |-> {}]
    /\ result = [c \in Clients |-> <<>>]
    /\ toPublish = [c \in Clients |-> {}]
    /\ history = [a \in BitAssets |-> <<>>]
    /\ feeds = {}
    /\ since = [c \in Clients |-> {}]
    /\ published = [c \in Clients |-> {}]
-----------------------------------------------------------------------------
(* FeedSet *)

HasPrice(set, m) == m \in DOMAIN set /\ ~set[m].flat  \* price() returns

(* A derived price joins the entries of its market.  It has no volume, and from *)
(* then on their mean needs none.                                               *)
AddPrice(set, m, units) ==
    [x \in DOMAIN set \cup {m} |->
        IF x # m THEN set[x]
        ELSE Entries(units \cup (IF m \in DOMAIN set THEN set[m].units ELSE {}), FALSE)]

Times(u, v) ==
    IF u[1] = v[2] THEN <<v[1], u[2]>> ELSE IF u[2] = v[1] THEN <<u[1], v[2]>> ELSE Nonsense

Inverted(u) == <<u[2], u[1]>>
-----------------------------------------------------------------------------
(* _apply_rules() *)

Reads(r) == {r.reads[i] : i \in DOMAIN r.reads}

(* execute_rule() has what it needs. *)
CanExecute(set, r) ==
    /\ \A m \in Reads(r) : HasPrice(set, m)
    /\ Fits(r)

MadeBy(set, r) ==
    CASE r.rule = "compose" -> {Times(u, v) : u \in set[r.reads[1]].units, v \in set[r.reads[2]].units}
      [] r.rule = "invert" -> {Inverted(u) : u \in set[r.reads[1]].units}
      [] r.rule = "copy" -> {<<r.makes[2], r.makes[1]>>}

(* execute_rule(), but for loops; an exception leaves the prices as they were. *)
Execute(env, r) ==
    IF ~CanExecute(env.set, r) THEN [env EXCEPT !.raised = TRUE]
    ELSE IF r.rule = "publish" THEN [env EXCEPT !.list = @ \cup {r.makes}]
    ELSE [env EXCEPT !.set = AddPrice(env.set, r.makes, MadeBy(env.set, r))]

(* One rule after the other. *)
InOrder(Do(_, _), env, rules) ==
    LET after[i \in 0..Len(rules)] == IF i = 0 THEN env ELSE Do(after[i - 1], rules[i])
    IN after[Len(rules)]

(* In a loop an exception leaves out the elements that follow. *)
ExecuteUnlessRaised(env, r) == IF env.raised THEN env ELSE Execute(env, r)

ExecuteRule(env, r) ==
    IF r.rule = "loop" THEN InOrder(ExecuteUnlessRaised, env, r.body) ELSE Execute(env, r)

(* Mutant: the handler is around the loop over the rules. *)
ApplyRulesUntilFailure(set, rules) ==
    LET ExecuteUntilFailure(env, r) == IF env.raised THEN env ELSE ExecuteRule(env, r)
    IN InOrder(ExecuteUntilFailure, [set |-> set, list |-> {}, raised |-> FALSE], rules)

(* Each rule has its own handler. *)
ExecuteHandled(env, r) == ExecuteRule([env EXCEPT !.raised = FALSE], r)

ApplyRules(set, rules) == InOrder(ExecuteHandled, [set |-> set, list |-> {}, raised |-> FALSE], rules)
-----------------------------------------------------------------------------
(* get_feed_prices() *)

Goes(c, step) == at' = [at EXCEPT ![c] = step]

(* Mutant: the prices in another base are not filtered out. *)
OfBitSharesInAnyBase(set) ==
    [a \in {m[1] : m \in DOMAIN set} |->
        {Inverted(u) : u \in UNION {set[m].units : m \in {x \in DOMAIN set : x[1] = a}}}]

(* Each entry in BTS gives a price, and so does ALTCAP in BTC. *)
OfBitShares(set) ==
    LET direct == {m[1] : m \in {x \in DOMAIN set : x[2] = "BTS"}}
        altcap == DOMAIN set \cap {<<"ALTCAP", "BTC">>}
        source == [a \in direct \cup {m[1] : m \in altcap} |->
                      IF a = "ALTCAP" /\ altcap # {} THEN <<"ALTCAP", "BTC">> ELSE <<a, "BTS">>]
    IN [a \in DOMAIN source |-> {Inverted(u) : u \in set[source[a]].units}]

OfSteem(set) ==
    [a \in IF HasPrice(set, <<"STEEM", "USD">>) THEN {"STEEM"} ELSE {} |-> set[<<"STEEM", "USD">>].units]

(* The local `feeds`: what there is a price for, and its unit. *)
FoundPrices(c) == IF Chain[c] = "bts" THEN OfBitShares(result[c]) ELSE OfSteem(result[c])

(* The timer fires: the providers that answer are asked, and the rules applied.  *)
(* When several answer for a market, their volumes may all be zero.              *)
Compute(c) ==
    /\ at[c] = "waiting" /\ checks[c] < MaxChecks[c]
    /\ checks' = [checks EXCEPT ![c] = @ + 1]
    /\ since' = [since EXCEPT ![c] = UNION {DOMAIN FoundPrices(d) : d \in {x \in Clients : at[x] = "recorded"}}]
    /\ \E answered \in SUBSET DOMAIN Markets[c] :
         \E flat \in SUBSET {m \in answered : Markets[c][m] > 1} :
           LET fetched == [m \in answered |-> Entries({<<m[2], m[1]>>}, m \in flat)]
               env == ApplyRules(fetched, Rules[c])
           IN /\ usable' = [usable EXCEPT ![c] = answered \ flat]
              /\ result' = [result EXCEPT ![c] = env.set]
              /\ toPublish' = [toPublish EXCEPT ![c] = env.list]
    /\ Goes(c, "computed")
    /\ UNCHANGED <<config, history, feeds, published>>

(* Mutant: a deque without a bound. *)
NewestUnbounded(s) == s

(* What a deque of this length keeps. *)
Newest(s) == IF Len(s) > HistoryLen THEN Tail(s) ELSE s

AppendPrices(c, assets) ==
    /\ history' = [a \in BitAssets |->
                     IF a \in assets THEN Newest(Append(history[a], FoundPrices(c)[a])) ELSE history[a]]
    /\ since' = [d \in Clients |-> since[d] \cup assets]

(* Every price enters the history of its asset.  An asset without one raises, and *)
(* those that come after it are left out.                                         *)
RecordPrices(c) ==
    /\ at[c] = "computed"
    /\ LET priced == DOMAIN FoundPrices(c)
       IN IF priced \subseteq BitAssets
          THEN AppendPrices(c, priced) /\ Goes(c, "recorded")
          ELSE \E before \in SUBSET (priced \cap BitAssets) : AppendPrices(c, before) /\ Goes(c, "over")
    /\ UNCHANGED <<config, checks, usable, result, toPublish, feeds, published>>

(* A price of zero cannot be inverted. *)
RaiseBeforeRecording(c) ==
    /\ at[c] = "computed" /\ DOMAIN result[c] # {}
    /\ Goes(c, "over")
    /\ UNCHANGED <<config, checks, usable, result, toPublish, history, feeds, since, published>>

(* The global `feeds` is replaced. *)
SetFeeds(c) ==
    /\ at[c] = "recorded"
    /\ feeds' = DOMAIN FoundPrices(c)
    /\ Goes(c, "publishing")
    /\ UNCHANGED <<config, checks, usable, result, toPublish, history, since, published>>
-----------------------------------------------------------------------------
(* check_feeds() *)

(* Mutant: the medians of all assets that ever had a price. *)
MedianOfEverything == {<<a, BaseFor(a)>> : a \in {b \in BitAssets : history[b] # <<>>}}

(* median_feeds: the medians of the assets in the global `feeds`. *)
MedianFeeds == {<<a, BaseFor(a)>> : a \in feeds}

(* What is published are the medians of all that should be, or nothing when one *)
(* is missing.                                                                  *)
PublishBitShares(c) ==
    /\ at[c] = "publishing" /\ Chain[c] = "bts"
    /\ toPublish[c] \subseteq MedianFeeds
    /\ published' = [published EXCEPT ![c] = {m[1] : m \in toPublish[c]}]
    /\ Goes(c, "over")
    /\ UNCHANGED <<config, checks, usable, result, toPublish, history, feeds, since>>

(* Steem publishes the median of what is in the history, whatever this check found. *)
PublishSteem(c) ==
    /\ at[c] = "publishing" /\ Chain[c] = "steem"
    /\ history["STEEM"] # <<>>
    /\ published' = [published EXCEPT ![c] = {"STEEM"}]
    /\ Goes(c, "over")
    /\ UNCHANGED <<config, checks, usable, result, toPublish, history, feeds, since>>

(* It is not time to publish, the wallet is not ready, or a look-up raised. *)
PublishNothing(c) ==
    /\ at[c] = "publishing"
    /\ Goes(c, "over")
    /\ UNCHANGED <<config, checks, usable, result, toPublish, history, feeds, since, published>>

(* The timer is set again; the locals of the check are gone. *)
EndCheck(c) ==
    /\ at[c] = "over"
    /\ Goes(c, "waiting")
    /\ usable' = [usable EXCEPT ![c] = {}]
    /\ result' = [result EXCEPT ![c] = <<>>]
    /\ toPublish' = [toPublish EXCEPT ![c] = {}]
    /\ since' = [since EXCEPT ![c] = {}]
    /\ published' = [published EXCEPT ![c] = {}]
    /\ UNCHANGED <<config, checks, history, feeds>>

Next ==
    \E c \in Clients :
        \/ Compute(c) \/ RecordPrices(c) \/ RaiseBeforeRecording(c) \/ SetFeeds(c)
        \/ PublishBitShares(c) \/ PublishSteem(c) \/ PublishNothing(c) \/ EndCheck(c)

Spec == Init /\ [][Next]_vars
-----------------------------------------------------------------------------
(* What the rules mean, whatever their order: the markets that follow from those *)
(* in `known` by any number of applications.                                     *)
Simple(rules) == {r \in UNION {Elements(rules[i]) : i \in DOMAIN rules} : r.rule # "publish"}

Derived(known, rules) == {r.makes : r \in {x \in rules : Reads(x) \subseteq known}}

Follows(known, rules) ==
    LET n == Cardinality(rules)
        closure[i \in 0..n] ==
            IF i = 0 THEN known
            ELSE LET before == closure[i - 1] IN before \cup Derived(before, rules)
    IN closure[n]

(* The elements of a loop that follow one without its prices. *)
LeftOut(rules, priced) ==
    UNION {LET body == rules[i].body
           IN {body[j] : j \in {x \in DOMAIN body : \E k \in 1..(x - 1) : ~(Reads(body[k]) \subseteq priced)}}
           : i \in {x \in DOMAIN rules : rules[x].rule = "loop"}}

Priced(set) == {m \in DOMAIN set : HasPrice(set, m)}

Implied(c) == Follows(usable[c], Simple(Rules[c]))

(* No market gets a price that those of the providers do not imply. *)
OnlyImplied == \A c \in Clients : at[c] # "waiting" => Priced(result[c]) \subseteq Implied(c)

(* A market gets a price exactly when the prices of the providers imply one: a     *)
(* missing answer costs what is derived from it (feeds.py:200-206), and what a     *)
(* loop had left to do after it (feeds.py:177-182).                                *)
PricedExactly ==
    /\ OnlyImplied
    /\ \A c \in Clients : at[c] # "waiting" =>
          Follows(usable[c], Simple(Rules[c]) \ LeftOut(Rules[c], Implied(c))) \subseteq Priced(result[c])

(* The history of an asset, of which a median is taken, holds prices of one unit,  *)
(* whatever rules made them and whichever client's thread (feeds.py:241-244 says   *)
(* the history should not be shared).                                              *)
OneUnit ==
    \A a \in BitAssets :
        LET units == UNION {history[a][i] : i \in DOMAIN history[a]}
        IN Nonsense \notin units /\ \A u, v \in units : u = v

(* What BitShares is told has a price found since the check began, or by another     *)
(* client in a check not over then: the median of an asset that the providers have  *)
(* lost is not published, although its history is still there (feeds.py:310-311).   *)
(* With two clients the price need not be the client's own: the other one's thread  *)
(* may replace `feeds` in between (feeds.py:289).                                   *)
Recent ==
    \A c \in Clients : Chain[c] = "bts" => published[c] \subseteq since[c]
=============================================================================
