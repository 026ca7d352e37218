----------------------------- MODULE EventRows -----------------------------
(***************************************************************************)
(* The rows the processors hand to the writer, shared by every module that *)
(* stores them.  A PendingWrite carries an event and, when the processor   *)
(* could interpret the event, a trade.  Two rows with the same identity    *)
(* are the same on-chain event seen twice: the primary key of the tables   *)
(* events and trades is that identity (signature, absolute path, ordinal). *)
(*                                                                         *)
(* The payload is left out: nothing in the indexer branches on it.         *)
(***************************************************************************)
EXTENDS Integers, Sequences, Functions

CONSTANTS
    Ids,            \* event identities (src/identity.rs, EventId)
    SlotOf,         \* the slot an event was confirmed in
    SigOf,          \* the signature of the transaction that emitted it
    PendingWrites   \* the rows the processors may produce

(* An identity names one slot and one signature: forks that land a         *)
(* transaction in another slot are outside the program's claims (DESIGN.md,*)
(* "Reorgs are not handled") and outside this model.  Slot 0 is genesis.   *)
ASSUME SlotAssumption == SlotOf \in [Ids -> Nat \ {0}]
ASSUME SigAssumption  == DOMAIN SigOf = Ids
ASSUME RowAssumption  == PendingWrites \subseteq [id : Ids, trade : BOOLEAN]

Signatures == {SigOf[e] : e \in Ids}
Marks == [slot : Nat \ {0}, sig : Signatures]

(* What a checkpoint records of an event.                                  *)
MarkOf(e) == [slot |-> SlotOf[e], sig |-> SigOf[e]]

IdsOf(S)  == {r.id : r \in S}
Traded(S) == {r.id : r \in {q \in S : q.trade}}

(* A database transaction, as what its COMMIT would make visible.          *)
Transactions ==
    [events : SUBSET Ids, trades : SUBSET Ids, marks : SUBSET Marks]

EmptyTx == [events |-> {}, trades |-> {}, marks |-> {}]

(* The rows of S that no other row of S is newer than.                     *)
Newest(S) == {r \in S : \A q \in S : SlotOf[q.id] <= SlotOf[r.id]}

(* t stores exactly the rows S and marks a newest one of them.             *)
Stores(t, S) ==
    /\ t.events = IdsOf(S)
    /\ t.trades = Traded(S)
    /\ \E newest \in Newest(S) : t.marks = {MarkOf(newest.id)}
=============================================================================
