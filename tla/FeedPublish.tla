----------------------------- MODULE FeedPublish -----------------------------
(***************************************************************************)
(* How feeds reach the chain: publish_bts_feed() of                        *)
(* bts_tools/feed_publish.py for the publishers of one client, as          *)
(* check_feeds() of bts_tools/feeds.py calls it.  All feeds go in one      *)
(* transaction, built in the wallet call by call; when that fails they are *)
(* published one by one.  Every call goes through the cache of RPC results *)
(* of bts_tools/rpcutils.py, which the monitoring thread drops.            *)
(***************************************************************************)
EXTENDS Integers, Sequences, FiniteSets

CONSTANTS Publishers,  \* the feed publishers of the client, in order
          Assets,      \* publish_list, in order
          Prices,      \* values a price may have
          MaxRounds    \* bound on the checks that publish

Range1(s) == {s[i] : i \in DOMAIN s}

ASSUME PublishAssumption ==
    /\ Publishers \in Seq(Range1(Publishers)) /\ Publishers # <<>>
    /\ Assets \in Seq(Range1(Assets)) /\ Assets # <<>>
    /\ MaxRounds \in Nat

VARIABLES
    cache,      \* _rpc_cache of the client: the answers to the calls made
    builders,   \* the transactions being built in the wallet, by handle
    broadcast,  \* the operations that reached the chain, with the round they did
    round,      \* number of the current check that publishes
    price,      \* the median price, here the same for all assets
    priced,     \* the assets the current check has a price for
    step,       \* the call publish_bts_feed() makes next
    turn,       \* position in Publishers
    n,          \* position in Assets
    handle,     \* handle of the transaction
    cleared,    \* the monitoring thread dropped the cache since the last round
    claimed,    \* history: operations logged as published, with the round
    refused     \* history: assets that failed on their own in this turn

vars == <<cache, builders, broadcast, round, price, priced, step, turn, n, handle, cleared,
          claimed, refused>>

roundVars == <<round, price, priced, cleared>>

Operation(i) == [by |-> Publishers[turn], asset |-> Assets[i], price |-> price]
Operations == [by : Range1(Publishers), asset : Range1(Assets), price : Prices]
NoOperation == "none"

(* A call as the cache knows it: the name and the arguments. *)
Call(name, h, op) == [name |-> name, handle |-> h, op |-> op]

Ok(result) == [ok |-> TRUE, result |-> result]
Raised == [ok |-> FALSE, result |-> 0]

TypeOK ==
    /\ \A call \in DOMAIN cache : cache[call] \in [ok : BOOLEAN, result : 0..Len(builders)]
    /\ builders \in Seq([ops : SUBSET Operations, paid : SUBSET Operations])
    /\ broadcast \subseteq Operations \X (1..MaxRounds)
    /\ round \in 0..MaxRounds
    /\ price \in Prices
    /\ priced \subseteq Range1(Assets)
    /\ step \in {"idle", "turn", "begin", "add", "fees", "sign", "single"}
    /\ turn \in 1..(Len(Publishers) + 1)
    /\ n \in 1..Len(Assets)
    /\ handle \in 0..Len(builders)
    /\ cleared \in BOOLEAN
    /\ claimed \subseteq Operations \X (1..MaxRounds)
    /\ refused \subseteq Range1(Assets)

Init ==
    /\ cache = <<>>
    /\ builders = <<>>
    /\ broadcast = {}
    /\ round = 0
    /\ price \in Prices
    /\ priced = {}
    /\ step = "idle"
    /\ turn = 1
    /\ n = 1
    /\ handle = 0
    /\ cleared = TRUE
    /\ claimed = {}
    /\ refused = {}
-----------------------------------------------------------------------------
(* Mutant: off by one. *)
PastLastAsset == n > Len(Assets)

LastAsset == n = Len(Assets)

Goto(next) == step' = next /\ n' = 1

(* A check that publishes.  There is an iteration of the monitoring thread, which *)
(* drops the cache, between two of them.                                          *)
BeginRound ==
    /\ step = "idle"
    /\ cleared /\ cleared' = FALSE
    /\ round < MaxRounds /\ round' = round + 1
    /\ price' \in Prices
    /\ priced' \in SUBSET Range1(Assets)
    /\ turn' = 1
    /\ refused' = {}
    /\ Goto("turn")
    /\ UNCHANGED <<cache, builders, broadcast, handle, claimed>>

(* The prices of one publisher are gathered: looking up the median of an asset *)
(* that has no price raises, and nothing is published.                         *)
BeginTurn ==
    /\ step = "turn"
    /\ IF turn > Len(Publishers) THEN Goto("idle") /\ UNCHANGED <<turn, refused>>
       ELSE /\ refused' = {}
            /\ IF priced = Range1(Assets)
               THEN Goto("begin") /\ UNCHANGED turn
               ELSE Goto("turn") /\ turn' = turn + 1
    /\ UNCHANGED <<cache, builders, broadcast, roundVars, handle, claimed>>

EndTurn == Goto("turn") /\ turn' = turn + 1

(* rpc_call(): the cached answer, which may be an exception, or a new one. *)
Answers(call, good) == IF call \in DOMAIN cache THEN {cache[call]} ELSE {good, Raised}

Asked(call) == call \notin DOMAIN cache

Store(call, answer) ==
    cache' = [c \in DOMAIN cache \cup {call} |-> IF c = call THEN answer ELSE cache[c]]

(* begin_builder_transaction() *)
BeginTransaction ==
    /\ step = "begin"
    /\ LET call == Call("begin", 0, NoOperation)
       IN \E answer \in Answers(call, Ok(Len(builders) + 1)) :
            /\ Store(call, answer)
            /\ builders' = IF Asked(call) /\ answer.ok
                           THEN Append(builders, [ops |-> {}, paid |-> {}]) ELSE builders
            /\ IF answer.ok THEN Goto("add") /\ handle' = answer.result
               ELSE Goto("single") /\ UNCHANGED handle
    /\ UNCHANGED <<broadcast, roundVars, turn, claimed, refused>>

(* add_operation_to_builder_transaction() of the next asset; computing its price *)
(* may raise before.                                                             *)
AddOperation ==
    /\ step = "add"
    /\ LET call == Call("add", handle, Operation(n))
       IN \/ Goto("single") /\ UNCHANGED <<cache, builders>>
          \/ \E answer \in Answers(call, Ok(0)) :
               /\ Store(call, answer)
               /\ builders' = IF Asked(call) /\ answer.ok
                              THEN [builders EXCEPT ![handle].ops = @ \cup {Operation(n)}]
                              ELSE builders
               /\ IF ~answer.ok THEN Goto("single")
                  ELSE IF LastAsset THEN Goto("fees")
                  ELSE n' = n + 1 /\ UNCHANGED step
    /\ UNCHANGED <<broadcast, roundVars, turn, handle, claimed, refused>>

(* set_fees_on_builder_transaction() *)
SetFees ==
    /\ step = "fees"
    /\ LET call == Call("fees", handle, NoOperation)
       IN \E answer \in Answers(call, Ok(0)) :
            /\ Store(call, answer)
            /\ builders' = IF Asked(call) /\ answer.ok
                           THEN [builders EXCEPT ![handle].paid = builders[handle].ops]
                           ELSE builders
            /\ Goto(IF answer.ok THEN "sign" ELSE "single")
    /\ UNCHANGED <<broadcast, roundVars, turn, handle, claimed, refused>>

InRound(ops) == ops \X {round}
OwnOperations == {Operation(i) : i \in DOMAIN Assets}

(* sign_builder_transaction(handle, True): the wallet signs and broadcasts; its *)
(* answer may be lost after that.  The chain refuses what has no fee.           *)
Sign ==
    /\ step = "sign"
    /\ LET call == Call("sign", handle, NoOperation)
           tx == builders[handle]
       IN \E answer \in Answers(call, Ok(0)) :
            /\ Asked(call) /\ answer.ok => tx.ops = tx.paid
            /\ Store(call, answer)
            /\ \/ Asked(call) /\ tx.ops = tx.paid /\ broadcast' = broadcast \cup InRound(tx.ops)
               \/ ~(Asked(call) /\ answer.ok) /\ UNCHANGED broadcast
            /\ IF answer.ok
               THEN claimed' = claimed \cup InRound(OwnOperations) /\ EndTurn
               ELSE Goto("single") /\ UNCHANGED <<claimed, turn>>
    /\ UNCHANGED <<builders, roundVars, handle, refused>>

(* Mutant: the first failure ends the loop. *)
PublishSingleUntilFailure ==
    /\ step = "single"
    /\ LET call == Call("publish_asset_feed", 0, Operation(n))
       IN \E answer \in Answers(call, Ok(0)) :
            /\ Store(call, answer)
            /\ IF answer.ok
               THEN /\ broadcast' = broadcast \cup (IF Asked(call) THEN InRound({Operation(n)}) ELSE {})
                    /\ claimed' = claimed \cup InRound({Operation(n)})
                    /\ UNCHANGED refused
               ELSE /\ refused' = refused \cup {Assets[n]}
                    /\ UNCHANGED <<broadcast, claimed>>
            /\ IF LastAsset \/ ~answer.ok THEN EndTurn ELSE n' = n + 1 /\ UNCHANGED <<step, turn>>
    /\ UNCHANGED <<builders, roundVars, handle>>

(* publish_asset_feed() of the next asset, when the transaction failed: each has *)
(* its own exception handler.                                                    *)
PublishSingle ==
    /\ step = "single"
    /\ LET call == Call("publish_asset_feed", 0, Operation(n))
       IN \/ /\ refused' = refused \cup {Assets[n]}
             /\ UNCHANGED <<cache, broadcast, claimed>>
          \/ \E answer \in Answers(call, Ok(0)) :
               /\ Store(call, answer)
               /\ IF answer.ok
                  THEN /\ broadcast' = broadcast \cup
                                           (IF Asked(call) THEN InRound({Operation(n)}) ELSE {})
                       /\ claimed' = claimed \cup InRound({Operation(n)})
                       /\ UNCHANGED refused
                  ELSE /\ refused' = refused \cup {Assets[n]}
                       /\ UNCHANGED <<broadcast, claimed>>
    /\ IF LastAsset THEN EndTurn ELSE n' = n + 1 /\ UNCHANGED <<step, turn>>
    /\ UNCHANGED <<builders, roundVars, handle>>

(* Mutant: the loop of the monitoring thread leaves the cache as it is. *)
KeepCache ==
    /\ cleared' = (step = "idle")
    /\ UNCHANGED <<cache, builders, broadcast, round, price, priced, step, turn, n, handle,
                   claimed, refused>>

(* clear_rpc_cache() by the monitoring thread, or a view, at any time. *)
ClearCache ==
    /\ cache' = <<>>
    /\ cleared' = (step = "idle")
    /\ UNCHANGED <<builders, broadcast, round, price, priced, step, turn, n, handle, claimed,
                   refused>>

Next ==
    \/ BeginRound \/ BeginTurn
    \/ BeginTransaction \/ AddOperation \/ SetFees \/ Sign
    \/ PublishSingle
    \/ ClearCache

Spec == Init /\ [][Next]_vars
-----------------------------------------------------------------------------
(* "successfully published feeds for ..." (feed_publish.py:280, 298): what is    *)
(* logged as published reached the chain in that round.  It does for a client with*)
(* one publisher whose cache is dropped between two rounds, and does not when     *)
(* the wallet serves two: the second finds the calls of the first in the cache.   *)
ClaimIsTrue == claimed \subseteq broadcast

(* What reaches the chain in a round are the operations and prices of that round: *)
(* no transaction of an earlier one is signed again (feed_publish.py:265-279).    *)
NothingStale ==
    [][\A b \in broadcast' \ broadcast :
          b[1] \in OwnOperations /\ b[2] = round]_vars

(* "publish feeds individually to make sure that at least the ones that work can  *)
(* get published" (feed_publish.py:289): when the turn of a publisher is over, a  *)
(* feed that is not on the chain failed on its own.                               *)
Finished(i) == <<[by |-> Publishers[turn - 1], asset |-> Assets[i], price |-> price], round>>
TurnOver == step = "turn" /\ turn > 1

OthersPublished ==
    TurnOver /\ priced = Range1(Assets) =>
        \A i \in DOMAIN Assets : Finished(i) \in broadcast \/ Assets[i] \in refused
=============================================================================
