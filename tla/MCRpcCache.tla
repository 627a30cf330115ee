------------------------------ MODULE MCRpcCache ------------------------------
(* Instances of RpcCache for TLC. *)
EXTENDS RpcCache, TLC

(* The monitoring thread, the thread of a view and one that publishes feeds. *)
CONSTANTS monitor, view, feeds, info, publish

TwiceEach == monitor :> 2 @@ view :> 2 @@ feeds :> 1
TwoAndOne == monitor :> 2 @@ view :> 1 @@ feeds :> 1
===============================================================================
