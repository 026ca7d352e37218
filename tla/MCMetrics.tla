------------------------------ MODULE MCMetrics -----------------------------
(* Two edges, with a duration below, on and beyond each.  A run begins     *)
(* with nothing observed, or just before the rank of the 50th, the 95th or *)
(* the 99th percentile moves from one bucket to the next.                  *)
EXTENDS Metrics, TLC

MCEdges == <<1, 3>>
MCEarlier ==
    {[d \in 0 .. 4 |-> 0],
     0 :> 0 @@ 1 :> 2 @@ 2 :> 0 @@ 3 :> 1 @@ 4 :> 0,
     0 :> 19 @@ 1 :> 0 @@ 2 :> 0 @@ 3 :> 1 @@ 4 :> 0,
     0 :> 0 @@ 1 :> 99 @@ 2 :> 0 @@ 3 :> 0 @@ 4 :> 1}
=============================================================================
