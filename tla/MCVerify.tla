------------------------------ MODULE MCVerify ------------------------------
(* Two transactions in a range of two slots, one of two events, one beside *)
(* it on either side, and a made-up event of each kind: of a transaction   *)
(* of the file, and of one that nobody has heard of.  A line of the file   *)
(* is there twice, and one holds no event.                                 *)
EXTENDS Verify, TLC

CONSTANTS a1, a2, b, before, after, fake, ghost, sa, sb, sx, sy, sg, none

MCIds == {a1, a2, b, before, after, fake, ghost}
MCReal == {a1, a2, b, before, after}
MCSigs == {sa, sb, sx, sy, sg, none}
MCSigOf == a1 :> sa @@ a2 :> sa @@ b :> sb @@ before :> sx @@ after :> sy
               @@ fake :> sa @@ ghost :> sg
MCSlotOf == a1 :> 2 @@ a2 :> 2 @@ b :> 3 @@ before :> 1 @@ after :> 4
               @@ fake :> 2 @@ ghost :> 3
MCFile == <<sa, none, sb, sa>>
=============================================================================
