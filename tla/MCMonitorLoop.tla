---------------------------- MODULE MCMonitorLoop ----------------------------
(* Instances of MonitorLoop for TLC. *)
EXTENDS MonitorLoop

(* Clients that between them run every plugin. *)
Witness == [role |-> "witness", monitoring |-> {"fork"}]
VotedWitness == [role |-> "witness", monitoring |-> {"voted_in"}]
FeedPublisher == [role |-> "feed_publisher", monitoring |-> {"wallet_state"}]
SeedNode == [role |-> "seed", monitoring |-> {"seed", "network_connections"}]
Backbone == [role |-> "backbone", monitoring |-> {"free_disk_space"}]

EveryClient == {Witness, VotedWitness, FeedPublisher, SeedNode, Backbone}
OneWitness == {Witness}

(* A witness node and a node that shares its name, as a witness and its feed *)
(* publisher do: both use one context.                                       *)
SharedName == <<"w1", "w1">>
==============================================================================
