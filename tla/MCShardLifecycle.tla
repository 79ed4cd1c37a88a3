-------------------------- MODULE MCShardLifecycle --------------------------
(* Small instances of ShardLifecycle for TLC. *)
EXTENDS ShardLifecycle, TLC

CONSTANTS a, b, c, k1, k2, k3, m1, m2, o1, o2, noKey, noRow, noNode

MCScore == [n \in Nodes |-> IF n = a THEN 3 ELSE IF n = b THEN 2 ELSE 1]

\* All shards of one index have the same first byte.
MCPrefixOf == [obj \in Objects |-> obj[2] % Prefixes]

\* Keys are random, and every mover runs the same code.
Symmetry == Permutations(Keys) \cup Permutations(Movers)
=============================================================================
