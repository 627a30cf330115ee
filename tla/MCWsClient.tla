------------------------------ MODULE MCWsClient ------------------------------
(* Instances of WsClient for TLC. *)
EXTENDS WsClient, TLC

CONSTANTS monitor, seed

(* The monitoring thread asks for the connection count, gives up and asks again; *)
(* another thread asks for an object.                                            *)
Mixed == monitor :> "network" @@ seed :> "database"
TwiceAndOnce == monitor :> 2 @@ seed :> 1

(* BitShares knows the id of the database API and asks for the other. *)
BitShares == <<"network">>
===============================================================================
