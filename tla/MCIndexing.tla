----------------------------- MODULE MCIndexing -----------------------------
(* Instances of Indexing for TLC. *)
EXTENDS Indexing

CONSTANTS w1, w2

(* Only new blocks, for two witnesses; a longer chain; one on which a view calls the *)
(* client too; the full index over two restarts.                                       *)
NewBlocks(witnesses, length, misses, views) ==
    [witnesses |-> witnesses, full |-> FALSE, maxHead |-> length, maxMissed |-> misses,
     maxStarts |-> 0, maxViews |-> views]
FullIndex(misses, restarts) ==
    [witnesses |-> {w1}, full |-> TRUE, maxHead |-> 2, maxMissed |-> misses,
     maxStarts |-> restarts, maxViews |-> 0]

EveryConfig == {NewBlocks({w1, w2}, 2, 0, 0), NewBlocks({w1}, 3, 1, 0), NewBlocks({w1}, 2, 1, 1),
                NewBlocks({w1}, 2, 2, 0), FullIndex(0, 2), FullIndex(1, 1)}
OneWitness == {NewBlocks({w1}, 2, 1, 0)}
=============================================================================
