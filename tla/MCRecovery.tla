----------------------------- MODULE MCRecovery -----------------------------
(* Three gaps over six slots: the padded range of gap 2 lies within that   *)
(* of gap 1, and gap 3 overlaps it without being covered.  All of them pad *)
(* out to one block; one of gap 3 alone holds two transactions, so that a  *)
(* part of it can be lost; and one near slot 0 lies in the first two.      *)
EXTENDS Recovery, TLC

CONSTANTS r1, r2, a, b, c, d

Symmetry == Permutations({r1, r2}) \union Permutations({a, b})

MCBlocks == {0, 3, 5}
MCTxs == {a, b, c, d}
MCBlockOf == a :> 5 @@ b :> 5 @@ c :> 3 @@ d :> 0
MCFewTxs == {a, b, c}
MCFewBlockOf == a :> 5 @@ b :> 5 @@ c :> 3
MCGapIds == 1 .. 3
MCStartOf == <<0, 1, 3>>
MCEndOf == <<3, 2, 5>>
=============================================================================
