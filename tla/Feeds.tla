------------------------------- MODULE Feeds --------------------------------
(***************************************************************************)
(* The prices and their publication: a behaviour is one of FeedPrices or   *)
(* one of FeedPublish, as check_feeds() of bts_tools/feeds.py runs the one *)
(* and then the other; what passes between them is any price.              *)
(***************************************************************************)
EXTENDS FeedPublish

CONSTANT Configs  \* see FeedPrices

VARIABLES
    part,  \* the one that runs
    config, at, checks, usable, result, toPublish, history, feeds, since, published

pricesVars == <<config, at, checks, usable, result, toPublish, history, feeds, since, published>>

Computation == INSTANCE FeedPrices

ASSUME ConfigsAssumption == Computation!PricesAssumption

FeedsInit ==
    /\ part \in {"prices", "publication"}
    /\ Init /\ Computation!Init
    /\ part = "prices" => price = CHOOSE p \in Prices : TRUE
    /\ part = "publication" => config = CHOOSE c \in DOMAIN Configs : TRUE

PricesRun == part = "prices" /\ Computation!Next /\ UNCHANGED <<part, vars>>
PublicationRuns == part = "publication" /\ Next /\ UNCHANGED <<part, pricesVars>>

FeedsNext == PricesRun \/ PublicationRuns

FeedsSpec == FeedsInit /\ [][FeedsNext]_<<part, vars, pricesVars>>
-----------------------------------------------------------------------------
(* The types of FeedPrices: among them, the length of a history of prices (feeds.py:70). *)
PricesTypeOK == Computation!TypeOK

(* A market gets a price exactly when the providers' prices and the rules imply one, *)
(* but for what a loop leaves out (feeds.py:177-182, 200-206).                       *)
PricedExactly == Computation!PricedExactly

(* A median is taken of prices in one unit (feeds.py:241-244, 310). *)
OneUnit == Computation!OneUnit

(* No asset is published on BitShares without a price since the check began, or of *)
(* a check of another client not over then (feeds.py:289, 310-311).                *)
Recent == Computation!Recent
=============================================================================
