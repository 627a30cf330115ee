------------------------------ MODULE MCFeeds -------------------------------
(* Instances of Feeds for TLC. *)
EXTENDS Feeds, MCFeedPublish, FeedRules, TLC

CONSTANTS bts, other, steem

(* The shape of the rules of config.yaml: inversions, a composition of which others *)
(* are made, a loop over currencies, a copy, and markets nothing is derived from.   *)
BitSharesMarkets ==
    <<"BTS", "BTC">> :> 2 @@ <<"BTC", "USD">> :> 1 @@ <<"CNY", "USD">> :> 1 @@ <<"RUB", "USD">> :> 1
    @@ <<"STEEM", "BTC">> :> 1 @@ <<"ALTCAP", "BTC">> :> 1

BitSharesRules ==
    <<Invert(<<"BTS", "BTC">>), Compose(<<"BTS", "BTC">>, <<"BTC", "USD">>), Invert(<<"BTS", "USD">>),
      Loop(<<Compose(<<"CNY", "USD">>, <<"USD", "BTS">>), Compose(<<"RUB", "USD">>, <<"USD", "BTS">>)>>),
      Copy(<<"RUB", "USD">>, <<"RUBLE", "USD">>), Compose(<<"RUBLE", "USD">>, <<"USD", "BTS">>),
      Publish(<<"USD", "BTS">>), Loop(<<Publish(<<"CNY", "BTS">>), Publish(<<"RUB", "BTS">>)>>),
      Publish(<<"RUBLE", "BTS">>), Publish(<<"ALTCAP", "BTC">>)>>

SteemMarkets == <<"STEEM", "BTC">> :> 2 @@ <<"BTC", "USD">> :> 1
SteemRules == <<Compose(<<"STEEM", "BTC">>, <<"BTC", "USD">>), Publish(<<"STEEM", "USD">>)>>

AllAssets == {"USD", "BTC", "CNY", "RUB", "RUBLE", "STEEM", "ALTCAP"}

(* One client for BitShares and one for Steem. *)
Shipped == [clients |-> {bts, steem}, chain |-> bts :> "bts" @@ steem :> "steem",
            markets |-> bts :> BitSharesMarkets @@ steem :> SteemMarkets,
            rules |-> bts :> BitSharesRules @@ steem :> SteemRules,
            bitAssets |-> AllAssets, history |-> 2, maxChecks |-> bts :> 2 @@ steem :> 1]

(* Two clients for BitShares, of which only one is given a price for the yuan. *)
FewMarkets == <<"BTS", "USD">> :> 2 @@ <<"CNY", "USD">> :> 1
FewRules == <<Invert(<<"BTS", "USD">>), Loop(<<Compose(<<"CNY", "USD">>, <<"USD", "BTS">>)>>),
              Publish(<<"USD", "BTS">>), Publish(<<"CNY", "BTS">>)>>

TwoOfOneChain == [clients |-> {bts, other}, chain |-> bts :> "bts" @@ other :> "bts",
                  markets |-> bts :> FewMarkets @@ other :> FewMarkets,
                  rules |-> bts :> FewRules @@ other :> FewRules,
                  bitAssets |-> {"USD", "CNY"}, history |-> 2, maxChecks |-> bts :> 2 @@ other :> 2]

(* A price for an asset that BIT_ASSETS does not list. *)
Unlisted == [TwoOfOneChain EXCEPT !.bitAssets = {"USD"}]

EveryConfig == [shipped |-> Shipped, twoOfOneChain |-> TwoOfOneChain, unlisted |-> Unlisted]

(* The configurations below are such that no asset has two bases. *)
ASSUME BasesAssumption == Computation!OneBase

(* Their rules are in the order in which they use each other. *)
ASSUME OrderAssumption == Computation!RulesInOrder
=============================================================================
