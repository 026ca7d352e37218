--------------------------- MODULE MCPoolResolver ---------------------------
(* Two pools compete for a channel with room for one lookup.               *)
EXTENDS PoolResolver, TLC

CONSTANTS a1, a2, live, recover

MCSymmetry == Permutations({a1, a2}) \union Permutations({live, recover})
=============================================================================
