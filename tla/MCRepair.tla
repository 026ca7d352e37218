------------------------------ MODULE MCRepair ------------------------------
(* Two events no run has a row for, one on a pool without wrapped SOL and  *)
(* one whose payload does not read, and three it has: on an inverted pool, *)
(* on a normal one, and one of the curve that lost its trade long ago.     *)
EXTENDS Repair, TLC

CONSTANTS sol, tok, alt, e1, e2, e3, e4, e5

MCIds == {e1, e2, e3, e4, e5}
MCMints == {sol, tok, alt}
MCPools == {1, 2, 3}
MCMintsOf ==
    <<[base |-> tok, quote |-> sol], [base |-> sol, quote |-> tok],
      [base |-> tok, quote |-> alt]>>
Pool(t, p) ==
    [type |-> t, pool |-> p, base |-> 2, quote |-> 1, readable |-> TRUE]
Curve(r) ==
    [type |-> "TradeEvent", mint |-> tok, isBuy |-> TRUE, sol |-> 1,
     token |-> 2, readable |-> r]
MCEventOf ==
    (e1 :> Pool("BuyEvent", 3)) @@ (e2 :> Pool("BuyEvent", 2))
    @@ (e3 :> Pool("SellEvent", 1)) @@ (e4 :> Curve(TRUE))
    @@ (e5 :> Curve(FALSE))
MCSlotOf == (e1 :> 1) @@ (e2 :> 1) @@ (e3 :> 2) @@ (e4 :> 3) @@ (e5 :> 1)
MCLegacy == {e1, e4, e5}
MCStored == {1, 2}
=============================================================================
