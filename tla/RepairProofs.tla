---------------------------- MODULE RepairProofs ----------------------------
(***************************************************************************)
(* Proofs about Repair, for every set of events and pools, every page and  *)
(* chunk size and every number of repair processes.                        *)
(***************************************************************************)
EXTENDS Repair, FiniteSetTheorems, TLAPS

(* An oriented row says what the event did, and so does a row of the curve.*)
LEMMA OrientTrue ==
    ASSUME NEW e \in PoolEvents,
           NEW row \in Orient(e.pool, e.base, e.quote, e.type = "BuyEvent")
    PROVE  row \in Rows /\ RowFlow(row) = PoolFlow(e)
<1> DEFINE base == MintsOf[e.pool].base
           quote == MintsOf[e.pool].quote
<1>0. /\ e.pool \in Pools /\ e.base \in Nat /\ e.quote \in Nat
      /\ e.type \in {"BuyEvent", "SellEvent"}
    BY DEF PoolEvents
<1>1. base \in Mints /\ quote \in Mints /\ base # quote
    BY <1>0, MintsAssumption
<1>2. CASE quote = Wsol
    <2>1. row = [mint |-> base, isBuy |-> e.type = "BuyEvent",
                 sol |-> e.quote, token |-> e.base]
        BY <1>2 DEF Orient
    <2>2. row \in Rows
        BY <2>1, <1>0, <1>1, <1>2 DEF Rows
    <2>3. RowFlow(row) = [m \in {base, quote} |->
              IF m = base THEN IF e.type = "BuyEvent" THEN e.base ELSE -e.base
              ELSE IF e.type = "BuyEvent" THEN -e.quote ELSE e.quote]
        BY <2>1, <1>0, <1>1, <1>2 DEF RowFlow
    <2> QED BY <2>2, <2>3 DEF PoolFlow
<1>3. CASE quote # Wsol
    <2>1. /\ base = Wsol
          /\ row = [mint |-> quote, isBuy |-> ~(e.type = "BuyEvent"),
                    sol |-> e.base, token |-> e.quote]
        BY <1>3 DEF Orient
    <2>2. row \in Rows
        BY <2>1, <1>0, <1>1, <1>3 DEF Rows
    <2>3. RowFlow(row) = [m \in {base, quote} |->
              IF m = base THEN IF e.type = "BuyEvent" THEN e.base ELSE -e.base
              ELSE IF e.type = "BuyEvent" THEN -e.quote ELSE e.quote]
        BY <2>1, <1>0, <1>1, <1>3 DEF RowFlow
    <2> QED BY <2>2, <2>3 DEF PoolFlow
<1> QED BY <1>2, <1>3

LEMMA CurveTrue ==
    ASSUME NEW e \in CurveEvents
    PROVE  CurveRow(e) \in Rows /\ RowFlow(CurveRow(e)) = CurveFlow(e)
<1>1. /\ e.mint \in Mints \ {Wsol} /\ e.isBuy \in BOOLEAN
      /\ e.sol \in Nat /\ e.token \in Nat
    BY DEF CurveEvents
<1> QED BY <1>1 DEF CurveRow, Rows, RowFlow, CurveFlow

(* Whatever pools the builder of a row knows, the row is true.             *)
LEMMA BuiltTrue ==
    ASSUME NEW id \in Ids, NEW pls, NEW row \in TradeOf(EventOf[id], pls)
    PROVE  row \in Rows /\ RowFlow(row) = Flow(EventOf[id])
<1> DEFINE e == EventOf[id]
<1>1. e \in CurveEvents \union PoolEvents
    BY EventsAssumption
<1>2. CASE e.type = "TradeEvent"
    <2>1. e \in CurveEvents
        BY <1>1, <1>2 DEF PoolEvents
    <2>2. row = CurveRow(e)
        BY <1>2 DEF TradeOf
    <2>3. Flow(e) = CurveFlow(e)
        BY <1>2 DEF Flow
    <2> QED BY <2>1, <2>2, <2>3, CurveTrue
<1>3. CASE e.type # "TradeEvent"
    <2>1. e \in PoolEvents
        BY <1>1, <1>3 DEF CurveEvents
    <2>2. row \in Orient(e.pool, e.base, e.quote, e.type = "BuyEvent")
        BY <1>3 DEF TradeOf
    <2>3. Flow(e) = PoolFlow(e)
        BY <1>3 DEF Flow
    <2> QED BY <2>1, <2>2, <2>3, OrientTrue
<1> QED BY <1>2, <1>3

----------------------------------------------------------------------------
(* Inserts.                                                                *)

Honest(T) ==
    \A t \in T : t \in [id : Ids, row : Rows]
                  /\ RowFlow(t.row) = Flow(EventOf[t.id])

(* What a run inserts for S is honest, and has a row for each event of S   *)
(* it can build.                                                           *)
LEMMA BuiltHonest ==
    ASSUME NEW S \in SUBSET Ids, NEW pls
    PROVE  /\ Honest(BuiltOf(S, pls))
           /\ \A id \in S : Build(EventOf[id], pls) # {} =>
                 \E t \in BuiltOf(S, pls) : t.id = id
<1>1. ASSUME NEW t \in BuiltOf(S, pls)
      PROVE  t \in [id : Ids, row : Rows] /\ RowFlow(t.row) = Flow(EventOf[t.id])
    <2>1. PICK i \in S : t \in [id : {i}, row : Build(EventOf[i], pls)]
        BY DEF BuiltOf
    <2>2. t.id = i /\ t.row \in TradeOf(EventOf[i], pls)
        BY <2>1 DEF Build
    <2>3. t.row \in Rows /\ RowFlow(t.row) = Flow(EventOf[i])
        BY <2>2, BuiltTrue
    <2> QED BY <2>1, <2>2, <2>3
<1>2. ASSUME NEW id \in S, NEW row \in Build(EventOf[id], pls)
      PROVE  \E t \in BuiltOf(S, pls) : t.id = id
    <2>1. [id |-> id, row |-> row] \in BuiltOf(S, pls)
        BY DEF BuiltOf
    <2> QED BY <2>1
<1> QED BY <1>1, <1>2 DEF Honest

(* What a processor stores with an event is honest.                        *)
LEMMA RecordHonest ==
    ASSUME NEW id \in Ids, NEW pls
    PROVE  Honest([id : {id}, row : TradeOf(EventOf[id], pls)])
BY BuiltTrue DEF Honest

(* An insert keeps the table honest and every trade that is there.         *)
LEMMA InsertKeeps ==
    ASSUME NEW new, Honest(trades), Honest(new), Insert(new)
    PROVE  /\ Honest(trades')
           /\ trades \subseteq trades'
           /\ \A t \in new : \E u \in trades' : u.id = t.id
BY DEF Honest, Insert, HasTrade

----------------------------------------------------------------------------
(* The tables.                                                             *)

(* A page that is read is no larger than the limit.                        *)
LEMMA LowestBounded ==
    ASSUME NEW S \in SUBSET Ids, NEW n \in Nat, NEW T \in Lowest(S, n)
    PROVE  T \in SUBSET S /\ Cardinality(T) <= n
<1>1. IsFiniteSet(S)
    BY IdsAssumption, FS_Subset
<1>2. Cardinality(S) \in Nat
    BY <1>1, FS_CardinalityType
<1> QED BY <1>2 DEF Lowest

(* What is left of a page when a run inserts: its trade is there, or it is *)
(* ready, or the run has no row for it.                                    *)
Pending(r) ==
    \A id \in page[r] :
        HasTrade(id) \/ id \in ready[r] \/ Build(EventOf[id], known[r]) = {}

RunInv ==
    \A r \in Repairers :
        /\ pc[r] \in {"write", "done"} => Pending(r)
        /\ pc[r] = "done" => ready[r] = {}

Inv == TypeOK /\ Honest(trades) /\ RunInv

LEMMA InvInit == Init => Inv
<1> SUFFICES ASSUME Init
             PROVE  Inv
    OBVIOUS
<1>1. Cardinality({}) = 0
    BY FS_EmptySet
<1>2. TypeOK
    BY <1>1, TablesAssumption, LimitAssumption DEF Init, TypeOK, Places
<1> QED BY <1>2 DEF Init, Inv, Honest, RunInv

(* Steps that insert or do not touch the trades, and leave what the runs   *)
(* have read alone, keep what is pending.                                  *)
LEMMA PendingKept ==
    ASSUME NEW r \in Repairers, Pending(r), trades \subseteq trades',
           page'[r] = page[r], ready'[r] = ready[r], known'[r] = known[r]
    PROVE  Pending(r)'
BY DEF Pending, HasTrade

(* An insert of S by run r leaves the rest of what was ready pending.      *)
LEMMA PendingInserted ==
    ASSUME NEW r \in Repairers, NEW S \in SUBSET Ids, Pending(r),
           trades \subseteq trades',
           \A t \in BuiltOf(S, known[r]) : \E u \in trades' : u.id = t.id,
           page'[r] = page[r], known'[r] = known[r],
           ready'[r] = ready[r] \ S
    PROVE  Pending(r)'
<1>1. ASSUME NEW id \in page[r], id \in S, Build(EventOf[id], known[r]) # {}
      PROVE  HasTrade(id)'
    <2> DEFINE built == BuiltOf(S, known[r])
    <2>1. \E t \in built : t.id = id
        <3>1. \A i \in S : Build(EventOf[i], known[r]) # {} =>
                  \E t \in built : t.id = i
            BY BuiltHonest
        <3> HIDE DEF built
        <3> QED BY <1>1, <3>1
    <2>2. \A t \in built : \E u \in trades' : u.id = t.id
        OBVIOUS
    <2>3. \E u \in trades' : u.id = id
        <3> HIDE DEF built
        <3> QED BY <2>1, <2>2
    <2> QED BY <2>3 DEF HasTrade
<1>2. ASSUME NEW id \in page[r]
      PROVE  \/ HasTrade(id)'
             \/ id \in ready[r] \ S
             \/ Build(EventOf[id], known[r]) = {}
    <2>1. CASE HasTrade(id)
        BY <2>1 DEF HasTrade
    <2>2. CASE id \in ready[r]
        BY <2>2, <1>1
    <2>3. CASE Build(EventOf[id], known[r]) = {}
        BY <2>3
    <2> QED BY <2>1, <2>2, <2>3 DEF Pending
<1> QED BY <1>2 DEF Pending

LEMMA InvNext == Inv /\ [Next]_vars => Inv'
<1> SUFFICES ASSUME Inv, [Next]_vars
             PROVE  Inv'
    OBVIOUS
<1> USE DEF Inv, tables, process, vars
<1>0. trades \in SUBSET [id : Ids, row : Rows] /\ Honest(trades)
    BY DEF TypeOK
<1>1. ASSUME NEW id \in Ids, NEW cached, Record(id, cached)
      PROVE  Inv'
    <2>1. Honest(trades') /\ trades \subseteq trades'
        BY <1>0, <1>1, RecordHonest, InsertKeeps DEF Record
    <2>2. UNCHANGED <<pools, process, aborts>> /\ events' \in SUBSET Ids
        BY <1>1 DEF Record, TypeOK
    <2>3. TypeOK'
        BY <2>1, <2>2 DEF TypeOK, Honest
    <2>4. RunInv'
        BY <2>1, <2>2, PendingKept DEF RunInv
    <2> QED BY <2>1, <2>3, <2>4
<1>2. ASSUME NEW p \in Pools, SavePool(p)
      PROVE  Inv'
    <2>1. UNCHANGED <<events, trades, process, aborts>> /\ pools' \in SUBSET Pools
        BY <1>2 DEF SavePool, TypeOK
    <2>2. RunInv'
        BY <2>1, PendingKept DEF RunInv
    <2>3. TypeOK'
        BY <2>1 DEF TypeOK
    <2> QED BY <2>1, <2>2, <2>3 DEF Honest
<1>3. ASSUME NEW r \in Repairers, LoadPools(r)
      PROVE  Inv'
    <2>1. /\ known' = [known EXCEPT ![r] = pools]
          /\ page' = [page EXCEPT ![r] = {}]
          /\ pc' = [pc EXCEPT ![r] = "page"]
          /\ UNCHANGED <<events, trades, pools, ready, aborts>>
        BY <1>3 DEF LoadPools
    <2>2. Cardinality({}) = 0
        BY FS_EmptySet
    <2>3. TypeOK'
        BY <2>1, <2>2, LimitAssumption DEF TypeOK, Places
    <2>4. \A q \in Repairers \ {r} : Pending(q) => Pending(q)'
        BY <2>1, PendingKept DEF TypeOK
    <2>5. RunInv'
        BY <2>1, <2>4 DEF RunInv, TypeOK
    <2> QED BY <2>1, <2>3, <2>5 DEF Honest
<1>4. ASSUME NEW r \in Repairers, LoadPage(r)
      PROVE  Inv'
    <2>1. PICK S \in Lowest(Unrepaired, Limit) :
              /\ page' = [page EXCEPT ![r] = S]
              /\ ready' = [ready EXCEPT ![r] = Buildable(S, known[r])]
        BY <1>4 DEF LoadPage
    <2>2. pc' = [pc EXCEPT ![r] = "write"] /\ UNCHANGED <<tables, known, aborts>>
        BY <1>4 DEF LoadPage
    <2>3. Unrepaired \in SUBSET Ids
        BY DEF Unrepaired, TypeOK
    <2>4. S \in SUBSET Ids /\ Cardinality(S) <= Limit
        BY <2>3, LowestBounded, LimitAssumption
    <2>5. Buildable(S, known[r]) \in SUBSET Ids
        BY <2>4 DEF Buildable
    <2>6. TypeOK'
        BY <2>1, <2>2, <2>4, <2>5 DEF TypeOK, Places
    <2>7. page'[r] = S /\ ready'[r] = Buildable(S, known[r])
        BY <2>1 DEF TypeOK
    <2>8. Pending(r)'
        BY <2>2, <2>7 DEF Pending, Buildable
    <2>9. \A q \in Repairers \ {r} : Pending(q) => Pending(q)'
        BY <2>1, <2>2, PendingKept DEF TypeOK
    <2>10. RunInv'
        BY <2>1, <2>2, <2>8, <2>9 DEF RunInv, TypeOK
    <2> QED BY <2>2, <2>6, <2>10 DEF Honest
<1>5. ASSUME NEW r \in Repairers, NEW S \in SUBSET ready[r],
             Insert(BuiltOf(S, known[r])), pc[r] = "write",
             ready' = [ready EXCEPT ![r] = @ \ S],
             \/ pc' = pc
             \/ pc' = [pc EXCEPT ![r] = "done"] /\ S = ready[r],
             UNCHANGED <<events, pools, known, page, aborts>>
      PROVE  Inv'
    <2>1. S \in SUBSET Ids
        BY <1>5 DEF TypeOK
    <2>2. /\ Honest(trades') /\ trades \subseteq trades'
          /\ \A t \in BuiltOf(S, known[r]) : \E u \in trades' : u.id = t.id
        BY <1>0, <1>5, <2>1, BuiltHonest, InsertKeeps
    <2>3. TypeOK'
        BY <1>5, <2>2 DEF TypeOK, Places, Honest
    <2>4. ready'[r] = ready[r] \ S
        BY <1>5 DEF TypeOK
    <2>5. Pending(r)'
        BY <1>5, <2>1, <2>2, <2>4, PendingInserted DEF RunInv
    <2>6. \A q \in Repairers \ {r} : Pending(q) => Pending(q)'
        BY <1>5, <2>2, PendingKept DEF TypeOK
    <2>7. RunInv'
        BY <1>5, <2>4, <2>5, <2>6 DEF RunInv, TypeOK
    <2> QED BY <2>2, <2>3, <2>7
<1>6. ASSUME NEW r \in Repairers, WriteChunk(r)
      PROVE  Inv'
    <2>1. PICK S \in Lowest(ready[r], ChunkSize) :
              Insert(BuiltOf(S, known[r])) /\ ready' = [ready EXCEPT ![r] = @ \ S]
        BY <1>6 DEF WriteChunk
    <2>2. S \in SUBSET ready[r]
        BY <2>1 DEF Lowest
    <2>3. pc[r] = "write" /\ pc' = pc
          /\ UNCHANGED <<events, pools, known, page, aborts>>
        BY <1>6 DEF WriteChunk
    <2> QED BY <2>1, <2>2, <2>3, <1>5
<1>7. ASSUME NEW r \in Repairers, Finish(r)
      PROVE  Inv'
    <2>1. /\ Insert(BuiltOf(ready[r], known[r])) /\ pc[r] = "write"
          /\ ready' = [ready EXCEPT ![r] = @ \ ready[r]]
          /\ pc' = [pc EXCEPT ![r] = "done"]
          /\ UNCHANGED <<events, pools, known, page, aborts>>
        BY <1>7 DEF Finish, TypeOK
    <2> QED BY <2>1, <1>5
<1>8. ASSUME NEW r \in Repairers, Abort(r)
      PROVE  Inv'
    <2>1. /\ pc' = [pc EXCEPT ![r] = "idle"]
          /\ page' = [page EXCEPT ![r] = {}]
          /\ ready' = [ready EXCEPT ![r] = {}]
          /\ aborts' = aborts + 1
          /\ UNCHANGED <<events, pools, known>>
        BY <1>8 DEF Abort
    <2>2. Honest(trades') /\ trades \subseteq trades'
        <3>1. CASE UNCHANGED trades
            BY <3>1 DEF Honest
        <3>2. ASSUME NEW S \in Lowest(ready[r], ChunkSize),
                     Insert(BuiltOf(S, known[r]))
              PROVE  Honest(trades') /\ trades \subseteq trades'
            <4>1. S \in SUBSET Ids
                BY DEF Lowest, TypeOK
            <4> QED BY <1>0, <3>2, <4>1, BuiltHonest, InsertKeeps
        <3> QED BY <1>8, <3>1, <3>2 DEF Abort
    <2>3. Cardinality({}) = 0
        BY FS_EmptySet
    <2>4. TypeOK'
        BY <2>1, <2>2, <2>3, LimitAssumption DEF TypeOK, Places, Honest
    <2>5. \A q \in Repairers \ {r} : Pending(q) => Pending(q)'
        BY <2>1, <2>2, PendingKept DEF TypeOK
    <2>6. RunInv'
        BY <2>1, <2>5 DEF RunInv, TypeOK
    <2> QED BY <2>2, <2>4, <2>6
<1>9. CASE UNCHANGED vars
    <2>1. RunInv'
        BY <1>9, PendingKept DEF RunInv
    <2> QED BY <1>9, <2>1 DEF TypeOK, Honest
<1> QED BY <1>1, <1>2, <1>3, <1>4, <1>6, <1>7, <1>8, <1>9 DEF Next, Run

----------------------------------------------------------------------------
(* The theorems.                                                           *)

LEMMA Inductive == Spec => []Inv
BY InvInit, InvNext, PTL DEF Spec

(* Every variable keeps its type, and a page its limit.                    *)
THEOREM TypeCorrect == Spec => []TypeOK
<1>1. Inv => TypeOK
    BY DEF Inv
<1> QED BY <1>1, Inductive, PTL

(* A trade says what its event did, whoever wrote it: the processors when  *)
(* the event arrived, or any repair run later.                             *)
THEOREM TradesTrue == Spec => []TradesAreTrue
<1>1. Inv => TradesAreTrue
    BY DEF Inv, Honest, TradesAreTrue
<1> QED BY <1>1, Inductive, PTL

(* A run that is over has left nothing of its page unaccounted for.        *)
THEOREM RunsComplete == Spec => []RunIsComplete
<1>1. Inv => RunIsComplete
    BY DEF Inv, RunInv, Pending, RunIsComplete
<1> QED BY <1>1, Inductive, PTL

----------------------------------------------------------------------------
(* Why a run ends, and what it comes to: none of its places is one it could*)
(* not leave, each step leaves less of it, and its page holds something to *)
(* repair unless what cannot be repaired fills it.  RepairedInTheEnd adds  *)
(* the fairness that runs are started and their steps taken.               *)

(* A set of numbers has a least one.                                       *)
LEMMA NatLeast ==
    ASSUME NEW T \in SUBSET Nat, T # {}
    PROVE  \E n \in T : \A m \in T : n <= m
<1> DEFINE Less == OpToRel(<, Nat)
<1>1. IsWellFoundedOn(Less, Nat)
    BY NatLessThanWellFounded
<1>2. \A m, n \in Nat : <<m, n>> \in Less <=> m < n
    BY DEF OpToRel
<1> HIDE DEF Less
<1>3. PICK n \in T : \A m \in T : ~(<<m, n>> \in Less)
    BY ONLY <1>1, T \subseteq Nat, T # {}, WFMin
<1>4. \A m \in T : m \in Nat /\ n \in Nat /\ ~(m < n)
    BY <1>2, <1>3
<1> QED BY <1>4

(* Some events have one with the lowest slot.                              *)
LEMMA FirstExists ==
    ASSUME NEW S \in SUBSET Ids, S # {}
    PROVE  \E i \in S : \A j \in S : SlotOf[i] <= SlotOf[j]
<1> DEFINE slots == {SlotOf[i] : i \in S}
<1>1. slots \in SUBSET Nat /\ slots # {}
    BY TablesAssumption
<1>2. PICK n \in slots : \A m \in slots : n <= m
    <2> HIDE DEF slots
    <2> QED BY <1>1, NatLeast
<1> QED BY <1>2

(* Lowest is what it says: all of the events, or as many as were asked for.*)
LEMMA LowestFacts ==
    ASSUME NEW S \in SUBSET Ids, NEW n \in Nat, NEW T \in SUBSET S
    PROVE  /\ IsFiniteSet(S) /\ IsFiniteSet(T)
           /\ Cardinality(S) \in Nat /\ Cardinality(T) \in Nat
           /\ T \in Lowest(S, n) => T = S \/ Cardinality(T) = n
<1>1. IsFiniteSet(S)
    BY IdsAssumption, FS_Subset
<1>2. IsFiniteSet(T) /\ (Cardinality(S) = Cardinality(T) => S = T)
    BY <1>1, FS_Subset
<1>3. Cardinality(S) \in Nat /\ Cardinality(T) \in Nat
    BY <1>1, <1>2, FS_CardinalityType
<1>4. ASSUME T \in Lowest(S, n)
      PROVE  T = S \/ Cardinality(T) = n
    <2>1. Cardinality(T) = IF Cardinality(S) < n THEN Cardinality(S) ELSE n
        BY <1>4 DEF Lowest
    <2> QED BY <1>2, <1>3, <2>1
<1> QED BY <1>1, <1>2, <1>3, <1>4

(* One more of them, unless it is all already.                             *)
LEMMA OneMore ==
    ASSUME NEW S \in SUBSET Ids, NEW n \in Nat, NEW T \in Lowest(S, n)
    PROVE  Lowest(S, n + 1) # {}
<1>1. /\ T \in SUBSET S
      /\ Cardinality(T) = IF Cardinality(S) < n THEN Cardinality(S) ELSE n
      /\ \A i \in T, j \in S \ T : SlotOf[i] <= SlotOf[j]
    BY DEF Lowest
<1>2. /\ IsFiniteSet(S) /\ IsFiniteSet(T)
      /\ Cardinality(S) \in Nat /\ Cardinality(T) \in Nat
    BY <1>1, LowestFacts
<1>3. CASE Cardinality(S) <= n
    <2>1. Cardinality(T) = Cardinality(S) /\ Cardinality(S) < n + 1
        BY <1>1, <1>2, <1>3
    <2>2. T \in Lowest(S, n + 1)
        BY <1>1, <2>1 DEF Lowest
    <2> QED BY <2>2
<1>4. CASE n < Cardinality(S)
    <2>1. Cardinality(T) = n /\ S \ T # {}
        BY <1>1, <1>2, <1>4
    <2>2. PICK x \in S \ T : \A j \in S \ T : SlotOf[x] <= SlotOf[j]
        <3>1. S \ T \in SUBSET Ids
            OBVIOUS
        <3> QED BY <2>1, <3>1, FirstExists
    <2> DEFINE U == T \union {x}
    <2>3. Cardinality(U) = n + 1
        BY <1>2, <2>1, FS_AddElement
    <2>4. U \in SUBSET S
        BY <1>1
    <2>5. \A i \in U, j \in S \ U : SlotOf[i] <= SlotOf[j]
        BY <1>1, <2>2
    <2>6. ~(Cardinality(S) < n + 1)
        BY <1>2, <1>4
    <2>7. U \in Lowest(S, n + 1)
        <3> HIDE DEF U
        <3> QED BY <2>3, <2>4, <2>5, <2>6 DEF Lowest
    <2> QED BY <2>7
<1> QED BY <1>2, <1>3, <1>4

(* A query with a limit has an answer, whatever the order of equal slots.  *)
LEMMA LowestExists ==
    ASSUME NEW S \in SUBSET Ids, NEW n \in Nat
    PROVE  Lowest(S, n) # {}
<1> DEFINE Wrong == {m \in Nat : Lowest(S, m) = {}}
<1>1. SUFFICES ASSUME n \in Wrong
               PROVE  FALSE
    OBVIOUS
<1>2. PICK m \in Wrong : \A k \in Wrong : m <= k
    <2>1. Wrong \in SUBSET Nat /\ Wrong # {}
        BY <1>1
    <2> HIDE DEF Wrong
    <2> QED BY <2>1, NatLeast
<1>3. m # 0
    <2>1. Cardinality(S) \in Nat
        BY LowestFacts
    <2>2. {} \in Lowest(S, 0)
        BY <2>1, FS_EmptySet DEF Lowest
    <2> QED BY <2>2
<1>4. m - 1 \in Nat /\ Lowest(S, m - 1) # {}
    BY <1>2, <1>3
<1>5. Lowest(S, (m - 1) + 1) # {}
    BY <1>4, OneMore
<1>6. (m - 1) + 1 = m
    OBVIOUS
<1> QED BY <1>5, <1>6

(* Some step is open to a run at each of its places: one of LoadPools,     *)
(* LoadPage, WriteChunk and Finish, whose guards these are.                *)
CanMove(r) ==
    \/ pc[r] \in {"idle", "done"}
    \/ pc[r] = "page" /\ Lowest(Unrepaired, Limit) # {}
    \/ /\ pc[r] = "write"
       /\ \/ Cardinality(ready[r]) < ChunkSize
          \/ Lowest(ready[r], ChunkSize) # {}

(* A repair run is never where it cannot go on, whatever the other         *)
(* processes write to the tables it reads.                                 *)
THEOREM RepairNeverStandsStill == Spec => [](\A r \in Repairers : CanMove(r))
<1>1. ASSUME TypeOK
      PROVE  \A r \in Repairers : CanMove(r)
    <2> SUFFICES ASSUME NEW r \in Repairers
                 PROVE  CanMove(r)
        OBVIOUS
    <2>1. pc[r] \in Places /\ ready[r] \in SUBSET Ids /\ Unrepaired \in SUBSET Ids
        BY <1>1 DEF TypeOK, Unrepaired
    <2>2. Lowest(Unrepaired, Limit) # {} /\ Lowest(ready[r], ChunkSize) # {}
        BY <2>1, LowestExists, LimitAssumption
    <2> QED BY <2>1, <2>2 DEF CanMove, Places
<1> QED BY <1>1, TypeCorrect, PTL

Running == {"page", "write"}

Moves(r) ==
    \/ pc'[r] # pc[r] \/ known'[r] # known[r]
    \/ page'[r] # page[r] \/ ready'[r] # ready[r]

(* A run has read its page, or has inserted a chunk of it.                 *)
Nearer(r) ==
    \/ pc[r] = "page" /\ pc'[r] = "write"
    \/ /\ pc'[r] = pc[r] /\ page'[r] = page[r]
       /\ ready'[r] \subseteq ready[r] /\ ready'[r] # ready[r]

Approach ==
    \A r \in Repairers :
        pc[r] \in Running /\ Moves(r) => pc'[r] \in {"idle", "done"} \/ Nearer(r)

(* What one run does leaves the others where they are.                     *)
LEMMA OthersStay ==
    ASSUME TypeOK, NEW r \in Repairers, NEW q \in Repairers, r # q,
           Run(r) \/ Abort(r)
    PROVE  ~Moves(q)
<1> USE DEF TypeOK, Moves
<1>1. CASE LoadPools(r) \/ LoadPage(r)
    BY <1>1 DEF LoadPools, LoadPage
<1>2. CASE WriteChunk(r) \/ Finish(r) \/ Abort(r)
    BY <1>2 DEF WriteChunk, Finish, Abort
<1> QED BY <1>1, <1>2 DEF Run

(* A step of a run ends it or leaves less of it.                           *)
LEMMA StepApproaches ==
    ASSUME TypeOK, NEW r \in Repairers, pc[r] \in Running, Run(r) \/ Abort(r)
    PROVE  pc'[r] \in {"idle", "done"} \/ Nearer(r)
<1> USE DEF TypeOK, Running
<1>1. ~LoadPools(r)
    BY DEF LoadPools
<1>2. CASE LoadPage(r)
    BY <1>2 DEF LoadPage, Nearer
<1>3. CASE WriteChunk(r)
    <2>1. PICK S \in Lowest(ready[r], ChunkSize) :
              ready' = [ready EXCEPT ![r] = @ \ S]
        BY <1>3 DEF WriteChunk
    <2>2. /\ ready[r] \in SUBSET Ids /\ S \in SUBSET ready[r]
          /\ Cardinality(S) =
                IF Cardinality(ready[r]) < ChunkSize
                THEN Cardinality(ready[r]) ELSE ChunkSize
        BY DEF Lowest
    <2>3. Cardinality(ready[r]) \in Nat /\ Cardinality(ready[r]) >= ChunkSize
        BY <1>3, <2>2, LowestFacts, LimitAssumption DEF WriteChunk
    <2>4. Cardinality(S) # 0
        BY <2>2, <2>3, LimitAssumption
    <2>5. S # {}
        BY <2>4, FS_EmptySet
    <2> QED BY <1>3, <2>1, <2>2, <2>5 DEF WriteChunk, Nearer
<1>4. CASE Finish(r) \/ Abort(r)
    BY <1>4 DEF Finish, Abort
<1> QED BY <1>1, <1>2, <1>3, <1>4 DEF Run

(* Each step of a run ends it or leaves less of it, whatever is stored     *)
(* beside it: the page is read once, and its rows are inserted in chunks   *)
(* that are not empty.                                                     *)
THEOREM RepairApproachesItsEnd == Spec => [][Approach]_vars
<1>1. ASSUME TypeOK, [Next]_vars
      PROVE  [Approach]_vars
    <2> SUFFICES ASSUME NEW r \in Repairers, pc[r] \in Running, Moves(r), Next
                 PROVE  pc'[r] \in {"idle", "done"} \/ Nearer(r)
        BY <1>1 DEF Approach
    <2>1. ~(\E id \in Ids, cached \in {{}, Pools} : Record(id, cached))
        BY DEF Record, process, Moves
    <2>2. ~(\E p \in Pools : SavePool(p))
        BY DEF SavePool, process, Moves
    <2>3. PICK q \in Repairers : Run(q) \/ Abort(q)
        BY <2>1, <2>2 DEF Next
    <2> QED BY <1>1, <2>3, OthersStay, StepApproaches
<1> QED BY <1>1, TypeCorrect, PTL DEF Spec

(* A page read while fewer events than it holds are beyond repair, and some*)
(* other event lacks its trade, has a row to insert.                       *)
Hopeless(r) == {id \in Unrepaired : Build(EventOf[id], known[r]) = {}}

PageIsWorthwhile ==
    \A r \in Repairers :
        /\ pc[r] = "page" /\ pc'[r] = "write"
        /\ Cardinality(Hopeless(r)) < Limit
        /\ Hopeless(r) # Unrepaired
        => ready'[r] # {}

(* "repair writes the missing trade rows once the pool is known": a run has*)
(* something to insert, as long as what cannot be repaired does not fill   *)
(* its page.  This is what RepairedInTheEnd rests on, and why it needs a   *)
(* page larger than the events no run has a row for.                       *)
THEOREM PagesWorthwhile == Spec => [][PageIsWorthwhile]_vars
<1>1. ASSUME TypeOK, [Next]_vars
      PROVE  [PageIsWorthwhile]_vars
    <2> SUFFICES ASSUME NEW r \in Repairers, pc[r] = "page", pc'[r] = "write",
                        Cardinality(Hopeless(r)) < Limit,
                        Hopeless(r) # Unrepaired, Next
                 PROVE  ready'[r] # {}
        BY <1>1 DEF PageIsWorthwhile
    <2>1. LoadPage(r)
        <3>1. ~(\E id \in Ids, cached \in {{}, Pools} : Record(id, cached))
            BY DEF Record, process
        <3>2. ~(\E p \in Pools : SavePool(p))
            BY DEF SavePool, process
        <3>3. PICK q \in Repairers : Run(q) \/ Abort(q)
            BY <3>1, <3>2 DEF Next
        <3>4. q = r
            BY <1>1, <3>3, OthersStay DEF Moves
        <3> QED BY <1>1, <3>3, <3>4 DEF Run, LoadPools, WriteChunk, Finish,
                Abort, TypeOK
    <2>2. PICK S \in Lowest(Unrepaired, Limit) :
              ready' = [ready EXCEPT ![r] = Buildable(S, known[r])]
        BY <2>1 DEF LoadPage
    <2>3. Unrepaired \in SUBSET Ids /\ S \in SUBSET Unrepaired
        BY <1>1 DEF TypeOK, Unrepaired, Lowest
    <2>4. S = Unrepaired \/ Cardinality(S) = Limit
        BY <2>3, LowestFacts, LimitAssumption
    <2>5. ~(S \subseteq Hopeless(r))
        <3>1. CASE S = Unrepaired
            BY <3>1 DEF Hopeless
        <3>2. CASE Cardinality(S) = Limit
            <4>1. Hopeless(r) \in SUBSET Unrepaired
                BY DEF Hopeless
            <4>2. IsFiniteSet(Hopeless(r)) /\ Cardinality(Hopeless(r)) \in Nat
                BY <2>3, <4>1, LowestFacts, LimitAssumption
            <4>3. S \subseteq Hopeless(r) => Cardinality(S) <= Cardinality(Hopeless(r))
                BY <4>2, FS_Subset
            <4>4. Cardinality(S) \in Nat
                BY <2>3, LowestFacts, LimitAssumption
            <4> QED BY <3>2, <4>2, <4>3, <4>4
        <3> QED BY <2>4, <3>1, <3>2
    <2>6. PICK id \in S : id \notin Hopeless(r)
        BY <2>5
    <2>7. id \in Buildable(S, known[r])
        BY <2>3, <2>6 DEF Buildable, Hopeless
    <2>8. ready'[r] = Buildable(S, known[r])
        BY <1>1, <2>2 DEF TypeOK
    <2> QED BY <2>7, <2>8
<1> QED BY <1>1, TypeCorrect, PTL DEF Spec
=============================================================================
