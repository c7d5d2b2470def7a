-------------------------- MODULE MCShardConductor --------------------------
\* Model checking of ShardConductor: two models whose shards have the same
\* names, as the splits of two repositories often do.
EXTENDS ShardConductor, TLC

SameNames == [m \in Models |-> Files]

Symmetry == Permutations(Slots) \cup Permutations(Models) \cup Permutations(Files)
=============================================================================
