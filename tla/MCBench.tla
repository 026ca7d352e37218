------------------------------ MODULE MCBench -------------------------------
(* A file that is good, one with a broken line, and an empty one, two      *)
(* passes each.  The salt wraps around at the second update.               *)
EXTENDS Bench, Bitwise, TLC

CONSTANTS a, b, broken

MCFiles == {<<a, b>>, <<a, broken, b>>, <<>>}
MCContents == (a :> <<"trade">>) @@ (b :> <<"trade", "trade">>)
MCSigOf == (a :> 0) @@ (b :> 21)
MCXor(m, n) == m ^^ n
MCBody == [u \in Sendable |-> BodyOf(u)]
MCIds == (0 .. Words - 1) \X UNION {DOMAIN Contents[l] : l \in Good}
=============================================================================
