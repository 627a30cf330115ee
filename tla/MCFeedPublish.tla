---------------------------- MODULE MCFeedPublish ----------------------------
(* Instances of FeedPublish for TLC. *)
EXTENDS FeedPublish

CONSTANTS alice, bob, usd, gold

One == <<alice>>
Two == <<alice, bob>>
UsdAndGold == <<usd, gold>>
==============================================================================
