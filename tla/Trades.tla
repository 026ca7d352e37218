------------------------------- MODULE Trades -------------------------------
(***************************************************************************)
(* What a decoded event means, and the trade row the program makes of it:  *)
(* when the processors see it (src/processors), and again when repair      *)
(* reads it back from the table events (src/repair.rs).                    *)
(*                                                                         *)
(* A pump.fun event names its mint and the direction.  A PumpSwap event    *)
(* names a pool and the amounts of the pool's base and quote mints; which  *)
(* of the two is wrapped SOL takes the mints of the pool, which never      *)
(* change.  Trader and fee are copied from the payload and left out, and   *)
(* so is the width of the amounts: no amount is computed with.             *)
(***************************************************************************)
EXTENDS Integers

CONSTANTS
    Ids,      \* event identities
    EventOf,  \* the decoded event of an identity
    Mints,    \* token mints
    Wsol,     \* the mint of wrapped SOL
    Pools,    \* addresses of PumpSwap pools
    MintsOf   \* base and quote mint of a pool

(* readable: the stored payload yields the fields again.                   *)
CurveEvents ==
    [type : {"TradeEvent"}, mint : Mints \ {Wsol}, isBuy : BOOLEAN,
     sol : Nat, token : Nat, readable : BOOLEAN]
PoolEvents ==
    [type : {"BuyEvent", "SellEvent"}, pool : Pools,
     base : Nat, quote : Nat, readable : BOOLEAN]
Rows == [mint : Mints \ {Wsol}, isBuy : BOOLEAN, sol : Nat, token : Nat]

ASSUME EventsAssumption == EventOf \in [Ids -> CurveEvents \union PoolEvents]
ASSUME MintsAssumption  ==
    /\ Wsol \in Mints
    /\ MintsOf \in [Pools -> [base : Mints, quote : Mints]]
    /\ \A p \in Pools : MintsOf[p].base # MintsOf[p].quote

----------------------------------------------------------------------------
(* What happened on the chain: the change of the user's holdings.  A buy   *)
(* on a PumpSwap pool acquires the base mint.                              *)

CurveFlow(e) ==
    [m \in {e.mint, Wsol} |->
        IF m = Wsol THEN IF e.isBuy THEN -e.sol ELSE e.sol
                    ELSE IF e.isBuy THEN e.token ELSE -e.token]

PoolFlow(e) ==
    [m \in {MintsOf[e.pool].base, MintsOf[e.pool].quote} |->
        IF m = MintsOf[e.pool].base
        THEN IF e.type = "BuyEvent" THEN e.base ELSE -e.base
        ELSE IF e.type = "BuyEvent" THEN -e.quote ELSE e.quote]

Flow(e) == IF e.type = "TradeEvent" THEN CurveFlow(e) ELSE PoolFlow(e)

(* What a row of the table trades says happened.                           *)
RowFlow(r) ==
    [m \in {r.mint, Wsol} |->
        IF m = Wsol THEN IF r.isBuy THEN -r.sol ELSE r.sol
                    ELSE IF r.isBuy THEN r.token ELSE -r.token]

----------------------------------------------------------------------------
(* Mistakes the properties below tell from the code.                       *)

(* A pool whose quote is not wrapped SOL passes for an inverted one.       *)
OrientAnyPool(p, baseAmount, quoteAmount, acquiringBase) ==
    IF MintsOf[p].quote = Wsol
    THEN {[mint |-> MintsOf[p].base, isBuy |-> acquiringBase,
           sol |-> quoteAmount, token |-> baseAmount]}
    ELSE {[mint |-> MintsOf[p].quote, isBuy |-> ~acquiringBase,
           sol |-> baseAmount, token |-> quoteAmount]}

----------------------------------------------------------------------------
(* The program.  No row is the empty set.                                  *)

(* PoolInfo::orient; a pool without wrapped SOL has no row.                *)
Orient(p, baseAmount, quoteAmount, acquiringBase) ==
    IF MintsOf[p].quote = Wsol
    THEN {[mint |-> MintsOf[p].base, isBuy |-> acquiringBase,
           sol |-> quoteAmount, token |-> baseAmount]}
    ELSE {[mint |-> MintsOf[p].quote, isBuy |-> ~acquiringBase,
           sol |-> baseAmount, token |-> quoteAmount] :
             m \in {MintsOf[p].base} \intersect {Wsol}}

CurveRow(e) ==
    [mint |-> e.mint, isBuy |-> e.isBuy, sol |-> e.sol, token |-> e.token]

(* The row of an event, by who knows the mints of the pools in known.      *)
TradeOf(e, known) ==
    IF e.type = "TradeEvent" THEN {CurveRow(e)}
    ELSE IF e.pool \in known
         THEN Orient(e.pool, e.base, e.quote, e.type = "BuyEvent")
         ELSE {}

(* Repair reads the fields from the stored payload.                        *)
Build(e, known) == IF e.readable THEN TradeOf(e, known) ELSE {}
=============================================================================
