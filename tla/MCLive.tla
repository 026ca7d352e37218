------------------------------- MODULE MCLive -------------------------------
(* A transaction with two events, one of a pool that is created and then   *)
(* traded, one that failed and one with an event, through channels of one. *)
EXTENDS Live, TLC

CONSTANTS u1, u2, u3, e1, e2, e3, e4, none

MCIds == {e1, e2, e3, e4, none}

Ins(kind, id) == [kind |-> kind, id |-> id]

MCBody ==
    (u1 :> <<Ins("trade", e1), Ins("other", none), Ins("trade", e2)>>) @@
    (u2 :> <<Ins("create", none), Ins("trade", e3)>>) @@
    (u3 :> <<Ins("failed", none), Ins("trade", e4)>>)
=============================================================================
