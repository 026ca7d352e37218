--------------------------- MODULE RecoveryProofs ---------------------------
(***************************************************************************)
(* Proofs about Recovery, for every table of gaps, every range of blocks   *)
(* and, where it is not said otherwise, every number of recover processes. *)
(***************************************************************************)
EXTENDS Recovery, WellFoundedInduction, TLAPS

LEMMA TypeInit == Init => TypeOK
BY AttemptAssumption DEF Init, TypeOK, Statuses, Places

LEMMA TypeNext == TypeOK /\ [Next]_vars => TypeOK'
<1> SUFFICES ASSUME TypeOK, [Next]_vars
             PROVE  TypeOK'
    OBVIOUS
<1> USE AttemptAssumption
    DEF TypeOK, Statuses, Places, table, process, history, vars, First,
        Current, Mark
<1>1. ASSUME NEW g \in GapIds, Record(g)
      PROVE  TypeOK'
    BY <1>1 DEF Record
<1>2. ASSUME NEW p \in Recoverers, Start(p)
      PROVE  TypeOK'
    BY <1>2 DEF Start, OpenGaps
<1>3. ASSUME NEW p \in Recoverers, Skip(p)
      PROVE  TypeOK'
    BY <1>3 DEF Skip
<1>4. ASSUME NEW p \in Recoverers, Claim(p)
      PROVE  TypeOK'
    BY <1>4 DEF Claim
<1>5. ASSUME NEW p \in Recoverers, Finish(p) \/ Abandon(p) \/ Kill(p)
      PROVE  TypeOK'
    <2>1. Exit(p) /\ UNCHANGED <<table, history>>
        BY <1>5 DEF Finish, Abandon, Kill
    <2>2. /\ pc' \in [Recoverers -> Places]
          /\ todo' \in [Recoverers -> SUBSET GapIds]
          /\ covered' \in [Recoverers -> SUBSET GapIds]
          /\ slots' \in [Recoverers -> SUBSET Blocks]
        BY <2>1 DEF Exit
    <2>3. /\ attempt' \in [Recoverers -> 1 .. MaxAttempts]
          /\ sent' \in [Recoverers -> SUBSET Txs]
          /\ cancelled' \in [Recoverers -> BOOLEAN]
        BY <2>1 DEF Exit
    <2> QED BY <2>1, <2>2, <2>3
<1>6. ASSUME NEW p \in Recoverers, Close(p)
      PROVE  TypeOK'
    BY <1>6 DEF Close
<1>7. ASSUME NEW p \in Recoverers, List(p)
      PROVE  TypeOK'
    <2>1. PICK g \in First(todo[p]) : tried' = tried \union {g}
        BY <1>7 DEF List
    <2>2. g \in GapIds
        BY <2>1
    <2>3. missed' \in SUBSET Txs
        BY <1>7 DEF List, TxsIn
    <2>4. slots' \in [Recoverers -> SUBSET Blocks]
        BY <1>7 DEF List, AnswersOf, BlocksOf
    <2>5. pc' \in [Recoverers -> Places]
        BY <1>7 DEF List
    <2>6. UNCHANGED <<table, todo, covered, attempt, sent, cancelled>>
        BY <1>7 DEF List
    <2> QED BY <2>1, <2>2, <2>3, <2>4, <2>5, <2>6
<1>8. ASSUME NEW p \in Recoverers, FetchOk(p)
      PROVE  TypeOK'
    <2>1. sent' \in [Recoverers -> SUBSET Txs]
        BY <1>8 DEF FetchOk, AnswersOf, TxsIn
    <2>2. missed' \in SUBSET Txs
        BY <1>8 DEF FetchOk, TxsIn
    <2>3. slots' \in [Recoverers -> SUBSET Blocks]
        BY <1>8 DEF FetchOk
    <2>4. attempt' \in [Recoverers -> 1 .. MaxAttempts]
        BY <1>8 DEF FetchOk
    <2>5. UNCHANGED <<table, pc, todo, covered, cancelled, tried>>
        BY <1>8 DEF FetchOk
    <2> QED BY <2>1, <2>2, <2>3, <2>4, <2>5
<1>9. ASSUME NEW p \in Recoverers, FetchFails(p)
      PROVE  TypeOK'
    BY <1>9 DEF FetchFails, LastAttempt
<1>10. ASSUME NEW p \in Recoverers, FetchGivesUp(p)
       PROVE  TypeOK'
    BY <1>10 DEF FetchGivesUp, TxsIn
<1>11. ASSUME NEW p \in Recoverers, FetchEnds(p) \/ Drained(p)
       PROVE  TypeOK'
    BY <1>11 DEF FetchEnds, Drained, TxsIn
<1>12. ASSUME NEW p \in Recoverers, Interrupt(p)
       PROVE  TypeOK'
    BY <1>12 DEF Interrupt
<1>13. ASSUME NEW p \in Recoverers, Store(p)
       PROVE  TypeOK'
    BY <1>13 DEF Store
<1>14. CASE UNCHANGED vars
    BY <1>14
<1> QED BY <1>1, <1>2, <1>3, <1>4, <1>5, <1>6, <1>7, <1>8, <1>9, <1>10, <1>11,
           <1>12, <1>13, <1>14
        DEF Next, Step, Run, Backfill

(* Every variable keeps its type; a block is never tried more often than   *)
(* RPC_MAX_ATTEMPTS.                                                       *)
THEOREM TypeCorrect == Spec => []TypeOK
BY TypeInit, TypeNext, PTL DEF Spec

----------------------------------------------------------------------------
(* Every transaction of the range at hand is in a block still to be        *)
(* fetched, on its way, or dealt with: written, or gone past.              *)

Dealt == stored \union failed \union missed

ProgressInv ==
    \A p \in Recoverers :
        /\ pc[p] \in {"fetch", "drain", "close"} =>
              \A g \in Current(p) :
                  TxsIn(BlocksOf(g)) \subseteq
                      TxsIn(slots[p]) \union sent[p] \union Dealt
        /\ pc[p] # "fetch" => slots[p] = {}
        /\ pc[p] = "close" => sent[p] = {}
        /\ \A c \in covered[p] : TxsIn(BlocksOf(c)) \subseteq Dealt

AccountedInv == TypeOK /\ ProgressInv /\ ClosedIsAccounted

(* The blocks of a covered range are among those of the range covering it. *)
LEMMA CoveredBlocks ==
    ASSUME NEW g \in GapIds, NEW c \in GapIds,
           From(g) >= From(c), To(g) <= To(c)
    PROVE  BlocksOf(g) \subseteq BlocksOf(c)
<1>1. From(g) \in Nat /\ From(c) \in Nat /\ To(g) \in Nat /\ To(c) \in Nat
    BY GapsAssumption, OverlapAssumption DEF From, To
<1>2. ASSUME NEW b \in Blocks, From(g) <= b, b <= To(g)
      PROVE  From(c) <= b /\ b <= To(c)
    <2>1. b \in Nat
        BY BlocksAssumption
    <2> QED BY <2>1, <1>1, <1>2
<1> QED BY <1>2 DEF BlocksOf

(* The transactions of some blocks, and of those blocks and of others.     *)
LEMMA TxsGrow ==
    ASSUME NEW S, NEW T, S \subseteq T
    PROVE  TxsIn(S) \subseteq TxsIn(T)
BY DEF TxsIn

(* Taking blocks out of a set takes out their transactions, and no others. *)
LEMMA TxsSplit ==
    ASSUME NEW S, NEW T
    PROVE  TxsIn(S) \subseteq TxsIn(S \ T) \union TxsIn(T)
BY DEF TxsIn

LEMMA NoBlocks == TxsIn({}) = {}
BY DEF TxsIn

(* The loop is at one gap.                                                 *)
LEMMA FirstIsUnique ==
    ASSUME NEW S \in SUBSET GapIds, NEW g \in First(S), NEW h \in First(S)
    PROVE  g = h
<1>1. g \in Nat /\ h \in Nat /\ g <= h /\ h <= g
    BY GapsAssumption DEF First
<1> QED BY <1>1

LEMMA AccountedInit == Init => AccountedInv
BY TypeInit DEF Init, AccountedInv, ProgressInv, ClosedIsAccounted

LEMMA AccountedNext ==
    ASSUME AccountedInv, [Next]_vars
    PROVE  AccountedInv'
<1>0. TypeOK'
    BY TypeNext DEF AccountedInv
<1> SUFFICES ProgressInv' /\ ClosedIsAccounted'
    BY <1>0 DEF AccountedInv
<1> USE DEF AccountedInv, TypeOK, ProgressInv, ClosedIsAccounted, Dealt,
        table, process, history, vars, Current, Mark
<1>1. ASSUME NEW g \in GapIds, Record(g)
      PROVE  ProgressInv' /\ ClosedIsAccounted'
    BY <1>1 DEF Record
<1>2. ASSUME NEW p \in Recoverers, Start(p)
      PROVE  ProgressInv' /\ ClosedIsAccounted'
    BY <1>2 DEF Start
<1>3. ASSUME NEW p \in Recoverers, Skip(p)
      PROVE  ProgressInv' /\ ClosedIsAccounted'
    <2>1. PICK g \in First(todo[p]) :
              /\ IsCovered(p, g)
              /\ status' = [status EXCEPT ![g] = "closed"]
              /\ todo' = [todo EXCEPT ![p] = @ \ {g}]
        BY <1>3 DEF Skip
    <2>2. PICK c \in covered[p] : From(g) >= From(c) /\ To(g) <= To(c)
        BY <2>1 DEF IsCovered
    <2>3. g \in GapIds /\ c \in GapIds
        BY <2>1 DEF First
    <2>4. BlocksOf(g) \subseteq BlocksOf(c)
        BY ONLY <2>2, <2>3, CoveredBlocks
    <2>5. TxsIn(BlocksOf(g)) \subseteq Dealt
        BY <2>2, <2>4, TxsGrow
    <2>6. ProgressInv'
        BY <1>3, <2>1 DEF Skip
    <2>7. ClosedIsAccounted'
        BY <1>3, <2>1, <2>5 DEF Skip
    <2> QED BY <2>6, <2>7
<1>4. ASSUME NEW p \in Recoverers, Claim(p)
      PROVE  ProgressInv' /\ ClosedIsAccounted'
    BY <1>4 DEF Claim
<1>5. ASSUME NEW p \in Recoverers, Finish(p)
      PROVE  ProgressInv' /\ ClosedIsAccounted'
    <2>1. Exit(p) /\ UNCHANGED <<table, missed>>
        BY <1>5 DEF Finish
    <2> QED BY <2>1 DEF Exit
<1>6. ASSUME NEW p \in Recoverers, Close(p)
      PROVE  ProgressInv' /\ ClosedIsAccounted'
    <2>1. PICK g \in First(todo[p]) :
              /\ covered' = [covered EXCEPT ![p] = @ \union {g}]
              /\ status' = [status EXCEPT ![g] = "closed"]
              /\ todo' = [todo EXCEPT ![p] = @ \ {g}]
        BY <1>6 DEF Close
    <2>2. /\ pc[p] = "close" /\ pc' = [pc EXCEPT ![p] = "next"]
          /\ UNCHANGED <<stored, failed, missed, slots, sent>>
        BY <1>6 DEF Close
    <2>3. TxsIn(slots[p]) = {}
        BY <2>2, NoBlocks
    <2>4. TxsIn(BlocksOf(g)) \subseteq Dealt
        BY <2>1, <2>2, <2>3
    <2>5. ProgressInv'
        BY <2>1, <2>2, <2>4
    <2>6. ClosedIsAccounted'
        BY <2>1, <2>2, <2>4
    <2> QED BY <2>5, <2>6
<1>7. ASSUME NEW p \in Recoverers, Abandon(p)
      PROVE  ProgressInv' /\ ClosedIsAccounted'
    <2>1. Exit(p) /\ UNCHANGED <<table, missed>>
        BY <1>7 DEF Abandon
    <2> QED BY <2>1 DEF Exit
<1>8. ASSUME NEW p \in Recoverers, List(p)
      PROVE  ProgressInv' /\ ClosedIsAccounted'
    <2>1. PICK g \in First(todo[p]) :
              \/ /\ \E listed \in AnswersOf(BlocksOf(g)) :
                       /\ slots' = [slots EXCEPT ![p] = listed]
                       /\ missed' = missed \union TxsIn(BlocksOf(g) \ listed)
                 /\ pc' = [pc EXCEPT ![p] = "fetch"]
              \/ /\ slots' = slots
                 /\ pc' = [pc EXCEPT ![p] = "drain"]
                 /\ missed' = missed \union TxsIn(BlocksOf(g))
        BY <1>8 DEF List
    <2>2. \A h \in First(todo[p]) : h = g
        BY <2>1, FirstIsUnique
    <2>3. UNCHANGED <<table, todo, covered, sent>> /\ slots[p] = {}
        BY <1>8 DEF List
    <2>4. ASSUME NEW listed \in AnswersOf(BlocksOf(g)),
                 slots' = [slots EXCEPT ![p] = listed],
                 missed' = missed \union TxsIn(BlocksOf(g) \ listed),
                 pc' = [pc EXCEPT ![p] = "fetch"]
          PROVE  ProgressInv' /\ ClosedIsAccounted'
        <3>1. TxsIn(BlocksOf(g)) \subseteq
                  TxsIn(slots'[p]) \union (stored \union failed \union missed')
            BY <2>4, TxsSplit
        <3>2. /\ missed \subseteq missed' /\ pc'[p] = "fetch"
              /\ \A q \in Recoverers : q # p => slots'[q] = slots[q]
              /\ \A q \in Recoverers : q # p => pc'[q] = pc[q]
            BY <2>4
        <3>3. ProgressInv'
            BY <2>2, <2>3, <3>1, <3>2
        <3>4. ClosedIsAccounted'
            BY <2>3, <3>2
        <3> QED BY <3>3, <3>4
    <2>5. CASE missed' = missed \union TxsIn(BlocksOf(g)) /\ slots' = slots
                   /\ pc' = [pc EXCEPT ![p] = "drain"]
        BY <2>2, <2>3, <2>5
    <2> QED BY <2>1, <2>4, <2>5
<1>9. ASSUME NEW p \in Recoverers, FetchOk(p)
      PROVE  ProgressInv' /\ ClosedIsAccounted'
    <2>1. PICK b \in First(slots[p]) :
              \E usable \in AnswersOf(TxsIn({b})) :
                  /\ slots' = [slots EXCEPT ![p] = @ \ {b}]
                  /\ sent' = [sent EXCEPT ![p] = @ \union usable]
                  /\ missed' = missed \union (TxsIn({b}) \ usable)
        BY <1>9 DEF FetchOk
    <2>2. pc[p] = "fetch" /\ UNCHANGED <<table, pc, todo, covered>>
        BY <1>9 DEF FetchOk, MayFetch
    <2>3. TxsIn(slots[p]) \subseteq TxsIn(slots'[p]) \union TxsIn({b})
        BY <2>1, TxsSplit
    <2>4. TxsIn({b}) \union sent[p] \subseteq sent'[p] \union missed'
        BY <2>1
    <2>5. /\ missed \subseteq missed'
          /\ \A q \in Recoverers : q # p => slots'[q] = slots[q]
          /\ \A q \in Recoverers : q # p => sent'[q] = sent[q]
        BY <2>1
    <2> QED BY <2>2, <2>3, <2>4, <2>5
<1>10. ASSUME NEW p \in Recoverers, FetchFails(p)
      PROVE  ProgressInv' /\ ClosedIsAccounted'
    BY <1>10 DEF FetchFails
<1>11. ASSUME NEW p \in Recoverers, FetchGivesUp(p)
      PROVE  ProgressInv' /\ ClosedIsAccounted'
    <2>1. PICK b \in First(slots[p]) :
              /\ slots' = [slots EXCEPT ![p] = @ \ {b}]
              /\ missed' = missed \union TxsIn({b})
        BY <1>11 DEF FetchGivesUp
    <2>2. pc[p] = "fetch" /\ UNCHANGED <<table, pc, todo, covered, sent>>
        BY <1>11 DEF FetchGivesUp, MayFetch
    <2>3. TxsIn(slots[p]) \subseteq TxsIn(slots'[p]) \union missed'
        BY <2>1, TxsSplit
    <2>4. /\ missed \subseteq missed'
          /\ \A q \in Recoverers : q # p => slots'[q] = slots[q]
        BY <2>1
    <2> QED BY <2>2, <2>3, <2>4
<1>12. ASSUME NEW p \in Recoverers, FetchEnds(p)
      PROVE  ProgressInv' /\ ClosedIsAccounted'
    BY <1>12 DEF FetchEnds
<1>13. ASSUME NEW p \in Recoverers, Drained(p)
      PROVE  ProgressInv' /\ ClosedIsAccounted'
    BY <1>13 DEF Drained
<1>14. ASSUME NEW p \in Recoverers, Interrupt(p)
      PROVE  ProgressInv' /\ ClosedIsAccounted'
    BY <1>14 DEF Interrupt
<1>15. ASSUME NEW p \in Recoverers, Store(p)
      PROVE  ProgressInv' /\ ClosedIsAccounted'
    BY <1>15 DEF Store
<1>16. ASSUME NEW p \in Recoverers, Kill(p)
      PROVE  ProgressInv' /\ ClosedIsAccounted'
    <2>1. Exit(p) /\ UNCHANGED <<table, missed>>
        BY <1>16 DEF Kill
    <2> QED BY <2>1 DEF Exit
<1>17. CASE UNCHANGED vars
    BY <1>17
<1> QED BY <1>1, <1>2, <1>3, <1>4, <1>5, <1>6, <1>7, <1>8, <1>9, <1>10, <1>11,
           <1>12, <1>13, <1>14, <1>15, <1>16, <1>17
        DEF Next, Step, Run, Backfill

(* Whatever fails, is refused, lacking, cut off, killed or runs beside: a  *)
(* transaction that a closed gap does not have is one a backfill went past:*)
(* refused or not held by the node, of no use as the node gave it, or cut  *)
(* off by Ctrl+C.                                                          *)
THEOREM ClosedAccounted == Spec => []ClosedIsAccounted
<1>1. AccountedInv /\ [Next]_vars => AccountedInv'
    BY AccountedNext
<1>2. AccountedInv => ClosedIsAccounted
    BY DEF AccountedInv
<1> QED BY <1>1, <1>2, AccountedInit, PTL DEF Spec

(* Nothing is gone past while the node answers in full and nobody          *)
(* interrupts.                                                             *)
CutInv ==
    /\ TypeOK /\ missed = {}
    /\ \A p \in Recoverers : ~cancelled[p]

LEMMA NothingMissed ==
    ASSUME ~RpcMayFail, ~MayLack, ~MayInterrupt, CutInv, [Next]_vars
    PROVE  CutInv'
<1>0. TypeOK'
    BY TypeNext DEF CutInv
<1> USE DEF CutInv, TypeOK, process, history, vars
<1>1. ASSUME NEW p \in Recoverers, Exit(p), UNCHANGED missed
      PROVE  CutInv'
    BY <1>0, <1>1 DEF Exit
<1>2. ASSUME NEW p \in Recoverers, Finish(p) \/ Abandon(p) \/ Kill(p)
      PROVE  CutInv'
    BY <1>1, <1>2 DEF Finish, Abandon, Kill
<1>3. ASSUME NEW p \in Recoverers, List(p) \/ FetchOk(p)
      PROVE  CutInv'
    <2>1. UNCHANGED cancelled
        BY <1>3 DEF List, FetchOk
    <2>2. ASSUME NEW S, NEW part \in AnswersOf(S)
          PROVE  S \ part = {}
        BY FaultAssumption DEF AnswersOf
    <2>3. CASE List(p)
        <3>1. PICK g \in Current(p) : \E listed \in AnswersOf(BlocksOf(g)) :
                  missed' = missed \union TxsIn(BlocksOf(g) \ listed)
            BY <2>3 DEF List
        <3>2. PICK listed \in AnswersOf(BlocksOf(g)) :
                  missed' = missed \union TxsIn(BlocksOf(g) \ listed)
            BY <3>1
        <3>3. BlocksOf(g) \ listed = {}
            BY <2>2
        <3>4. missed' = {}
            BY <3>2, <3>3, NoBlocks
        <3> QED BY <1>0, <2>1, <3>4
    <2>4. CASE FetchOk(p)
        <3>1. PICK b \in First(slots[p]) : \E usable \in AnswersOf(TxsIn({b})) :
                  missed' = missed \union (TxsIn({b}) \ usable)
            BY <2>4 DEF FetchOk
        <3>2. PICK usable \in AnswersOf(TxsIn({b})) :
                  missed' = missed \union (TxsIn({b}) \ usable)
            BY <3>1
        <3>3. TxsIn({b}) \ usable = {}
            BY <2>2
        <3>4. missed' = {}
            BY <3>2, <3>3
        <3> QED BY <1>0, <2>1, <3>4
    <2> QED BY <1>3, <2>3, <2>4
<1>4. ASSUME NEW p \in Recoverers,
             \/ Start(p) \/ Skip(p) \/ Claim(p) \/ Close(p) \/ Drained(p)
             \/ Store(p)
      PROVE  CutInv'
    BY <1>0, <1>4 DEF Start, Skip, Claim, Close, Drained, Store
<1>5. ASSUME NEW p \in Recoverers, FetchEnds(p)
      PROVE  CutInv'
    BY <1>0, <1>5 DEF FetchEnds, MayFetch, TxsIn
<1>6. ASSUME NEW p \in Recoverers
      PROVE  ~FetchFails(p) /\ ~FetchGivesUp(p) /\ ~Interrupt(p)
    BY DEF FetchFails, FetchGivesUp, Interrupt
<1>7. CASE UNCHANGED vars \/ \E g \in GapIds : Record(g)
    BY <1>0, <1>7 DEF Record
<1> QED BY <1>2, <1>3, <1>4, <1>5, <1>6, <1>7 DEF Next, Step, Run, Backfill

(* While the node answers in full, with blocks and transactions the code   *)
(* can use, and nobody interrupts, a closed gap has been recovered,        *)
(* whatever fails in the database, is killed or runs beside.               *)
THEOREM ClosedRecovered ==
    ASSUME ~RpcMayFail, ~MayLack, ~MayInterrupt
    PROVE  Spec => []ClosedIsRecovered
<1>1. Init => CutInv
    BY TypeInit DEF Init, CutInv
<1>2. CutInv /\ [Next]_vars => CutInv'
    BY NothingMissed
<1>3. CutInv /\ ClosedIsAccounted => ClosedIsRecovered
    BY DEF CutInv, ClosedIsAccounted, ClosedIsRecovered
<1> QED BY <1>1, <1>2, <1>3, ClosedAccounted, PTL DEF Spec

----------------------------------------------------------------------------
(* A gap that was tried does not look untried.                             *)

Begun == {"recovering", "closed"}

TriedInv ==
    /\ TypeOK
    /\ \A g \in tried : status[g] \in Begun
    /\ \A p \in Recoverers :
          pc[p] = "list" => \A g \in Current(p) : status[g] \in Begun

LEMMA TriedNext == TriedInv /\ [Next]_vars => TriedInv'
<1> SUFFICES ASSUME TriedInv, [Next]_vars
             PROVE  TriedInv'
    OBVIOUS
<1>0. TypeOK'
    BY TypeNext DEF TriedInv
<1> USE <1>0 DEF TriedInv, TypeOK, Begun, table, process, history, vars,
        Current, Mark
<1>1. ASSUME NEW g \in GapIds, Record(g)
      PROVE  TriedInv'
    BY <1>1 DEF Record
<1>2. ASSUME NEW p \in Recoverers, Skip(p) \/ Close(p)
      PROVE  TriedInv'
    <2>1. PICK g \in First(todo[p]) :
              /\ status' = [status EXCEPT ![g] = "closed"]
              /\ todo' = [todo EXCEPT ![p] = @ \ {g}]
        BY <1>2 DEF Skip, Close
    <2>2. g \in GapIds
        BY <2>1 DEF First
    <2>3. \A h \in GapIds : status[h] \in Begun => status'[h] \in Begun
        BY <2>1, <2>2
    <2>4. UNCHANGED tried
        BY <1>2 DEF Skip, Close
    <2>5. \A q \in Recoverers :
              pc'[q] = "list" => pc[q] = "list" /\ q # p
        BY <1>2 DEF Skip, Close
    <2>6. \A q \in Recoverers : q # p => todo'[q] = todo[q]
        BY <2>1
    <2>7. ASSUME NEW q \in Recoverers, pc'[q] = "list",
                 NEW h \in First(todo'[q])
          PROVE  status'[h] \in Begun
        <3>1. todo'[q] = todo[q] /\ pc[q] = "list"
            BY <2>5, <2>6, <2>7
        <3>2. h \in First(todo[q]) /\ h \in GapIds
            BY <3>1, <2>7 DEF First
        <3> QED BY <3>1, <3>2, <2>3
    <2> QED BY <2>3, <2>4, <2>7
<1>3. ASSUME NEW p \in Recoverers, Claim(p)
      PROVE  TriedInv'
    <2>1. PICK g \in First(todo[p]) :
              status' = [status EXCEPT ![g] = "recovering"]
        BY <1>3 DEF Claim
    <2>2. \A h \in First(todo[p]) : h = g
        BY <2>1, FirstIsUnique
    <2> QED BY <1>3, <2>1, <2>2 DEF Claim
<1>4. ASSUME NEW p \in Recoverers, List(p)
      PROVE  TriedInv'
    BY <1>4 DEF List
<1>5. ASSUME NEW p \in Recoverers, Start(p)
      PROVE  TriedInv'
    BY <1>5 DEF Start
<1>6. ASSUME NEW p \in Recoverers, Exit(p), UNCHANGED <<table, tried>>
      PROVE  TriedInv'
    BY <1>6 DEF Exit
<1>7. ASSUME NEW p \in Recoverers, Finish(p) \/ Abandon(p) \/ Kill(p)
      PROVE  TriedInv'
    BY <1>7, <1>6 DEF Finish, Abandon, Kill
<1>8. ASSUME NEW p \in Recoverers,
             \/ FetchOk(p) \/ FetchFails(p) \/ FetchGivesUp(p)
             \/ FetchEnds(p) \/ Drained(p)
             \/ Interrupt(p) \/ Store(p)
      PROVE  UNCHANGED <<status, todo, tried>> /\ \A q \in Recoverers :
                 pc'[q] = "list" => pc[q] = "list"
    BY <1>8 DEF FetchOk, FetchFails, FetchGivesUp, FetchEnds, Drained,
        Interrupt, Store
<1>9. CASE UNCHANGED vars
    BY <1>9
<1> QED BY <1>1, <1>2, <1>3, <1>4, <1>5, <1>7, <1>8, <1>9
        DEF Next, Step, Run, Backfill

(* A gap whose backfill has started is never open again, whatever fails or *)
(* is killed: a crash leaves it visibly stuck.                             *)
THEOREM StuckVisible == Spec => []StuckIsVisible
<1>1. Init => TriedInv
    BY TypeInit DEF Init, TriedInv
<1>2. TriedInv => StuckIsVisible
    BY DEF TriedInv, Begun, StuckIsVisible
<1> QED BY <1>1, <1>2, TriedNext, PTL DEF Spec

----------------------------------------------------------------------------
(* With one recover process at a time a gap only moves forward.            *)

TodoInv ==
    /\ TypeOK
    /\ \A p \in Recoverers :
          \A g \in todo[p] : status[g] \in {"open", "recovering"}

LEMMA TodoNext ==
    ASSUME \A p, q \in Recoverers : p = q, TodoInv, [Next]_vars
    PROVE  TodoInv' /\ \A g \in GapIds : Rank(status[g]) <= Rank(status'[g])
<1>0. TypeOK'
    BY TypeNext DEF TodoInv
<1> DEFINE Forward == \A g \in GapIds : Rank(status[g]) <= Rank(status'[g])
<1> USE <1>0 DEF TodoInv, TypeOK, Statuses, table, process, vars, Current,
        Mark, Rank
<1>1. ASSUME NEW g \in GapIds, Record(g)
      PROVE  TodoInv' /\ Forward
    BY <1>1 DEF Record
<1>2. ASSUME NEW p \in Recoverers, Skip(p) \/ Close(p)
      PROVE  TodoInv' /\ Forward
    <2>1. PICK g \in First(todo[p]) :
              /\ status' = [status EXCEPT ![g] = "closed"]
              /\ todo' = [todo EXCEPT ![p] = @ \ {g}]
        BY <1>2 DEF Skip, Close
    <2>2. g \in GapIds
        BY <2>1 DEF First
    <2> QED BY <2>1, <2>2
<1>3. ASSUME NEW p \in Recoverers, Claim(p)
      PROVE  TodoInv' /\ Forward
    <2>1. PICK g \in First(todo[p]) :
              status' = [status EXCEPT ![g] = "recovering"]
        BY <1>3 DEF Claim
    <2>2. g \in todo[p] /\ UNCHANGED todo
        BY <1>3, <2>1 DEF Claim, First
    <2> QED BY <2>1, <2>2
<1>4. ASSUME NEW p \in Recoverers, Start(p)
      PROVE  TodoInv' /\ Forward
    BY <1>4 DEF Start, OpenGaps
<1>5. ASSUME NEW p \in Recoverers, Exit(p), UNCHANGED table
      PROVE  TodoInv' /\ Forward
    BY <1>5 DEF Exit
<1>6. ASSUME NEW p \in Recoverers, Finish(p) \/ Abandon(p) \/ Kill(p)
      PROVE  TodoInv' /\ Forward
    BY <1>6, <1>5 DEF Finish, Abandon, Kill
<1>7. ASSUME UNCHANGED <<status, todo>>
      PROVE  TodoInv' /\ Forward
    BY <1>7
<1>8. ASSUME NEW p \in Recoverers,
             Backfill(p) \/ Interrupt(p) \/ Store(p)
      PROVE  UNCHANGED <<status, todo>>
    BY <1>8 DEF Backfill, List, FetchOk, FetchFails, FetchGivesUp, FetchEnds,
        Drained, Interrupt, Store
<1>9. CASE UNCHANGED vars
    BY <1>9, <1>7
<1> QED BY <1>1, <1>2, <1>3, <1>4, <1>6, <1>7, <1>8, <1>9
        DEF Next, Step, Run

(* While one process recovers, a gap moves open, recovering, closed and    *)
(* never back (mark_gap itself does not look at the status it replaces).   *)
THEOREM NeverReopens ==
    ASSUME \A p, q \in Recoverers : p = q
    PROVE  Spec => GapNeverReopens
<1>1. Init => TodoInv
    BY TypeInit DEF Init, TodoInv
<1>2. TodoInv /\ [Next]_vars =>
          TodoInv' /\ \A g \in GapIds : Rank(status[g]) <= Rank(status'[g])
    BY TodoNext
<1> QED BY <1>1, <1>2, PTL DEF Spec, GapNeverReopens

----------------------------------------------------------------------------
(* Why a run ends: each of its steps brings it nearer to its end, and none *)
(* of its places is one it could not leave.  RecoverTerminates adds the    *)
(* fairness that such a step is taken.                                     *)

Left(place) ==
    CASE place = "next" -> 4 [] place = "list" -> 3 [] place = "fetch" -> 2
      [] place = "drain" -> 1 [] place = "close" -> 0 [] OTHER -> 0

Shrinks(S, T) == T \subseteq S /\ T # S

(* What is left of a run, the most significant first: the gaps, the places *)
(* of the pipeline of a gap, its blocks, the attempts at a block, what is  *)
(* not written yet, and the one Ctrl+C that cancels a pipeline.            *)
Nearer(p) ==
    \/ Shrinks(todo[p], todo'[p])
    \/ /\ todo'[p] = todo[p]
       /\ \/ Left(pc'[p]) < Left(pc[p])
          \/ /\ pc'[p] = pc[p]
             /\ \/ Shrinks(slots[p], slots'[p])
                \/ /\ slots'[p] = slots[p]
                   /\ \/ attempt[p] < attempt'[p]
                      \/ /\ attempt'[p] = attempt[p]
                         /\ \/ Shrinks(sent[p], sent'[p])
                            \/ /\ sent'[p] = sent[p]
                               /\ ~cancelled[p] /\ cancelled'[p]

Moves(p) ==
    \/ pc'[p] # pc[p] \/ todo'[p] # todo[p] \/ covered'[p] # covered[p]
    \/ slots'[p] # slots[p] \/ attempt'[p] # attempt[p]
    \/ sent'[p] # sent[p] \/ cancelled'[p] # cancelled[p]

Approach ==
    \A p \in Recoverers :
        pc[p] # "idle" /\ Moves(p) => pc'[p] = "idle" \/ Nearer(p)

(* What one process does leaves the others where they are.                 *)
LEMMA OthersStay ==
    ASSUME TypeOK, NEW p \in Recoverers, NEW q \in Recoverers, p # q,
           Step(p)
    PROVE  ~Moves(q)
<1> USE DEF TypeOK, Moves
<1>1. CASE Start(p) \/ Skip(p) \/ Claim(p) \/ Close(p)
    BY <1>1 DEF Start, Skip, Claim, Close
<1>2. CASE Finish(p) \/ Abandon(p) \/ Kill(p)
    BY <1>2 DEF Finish, Abandon, Kill, Exit
<1>3. CASE List(p) \/ FetchOk(p) \/ FetchFails(p) \/ FetchGivesUp(p)
    BY <1>3 DEF List, FetchOk, FetchFails, FetchGivesUp
<1>4. CASE FetchEnds(p) \/ Drained(p) \/ Store(p) \/ Interrupt(p)
    BY <1>4 DEF FetchEnds, Drained, Store, Interrupt
<1> QED BY <1>1, <1>2, <1>3, <1>4 DEF Step, Run, Backfill

LEMMA StepApproaches ==
    ASSUME TypeOK, NEW p \in Recoverers, pc[p] # "idle",
           Step(p)
    PROVE  pc'[p] = "idle" \/ Nearer(p)
<1> USE DEF TypeOK, Nearer, Shrinks
<1>1. ~Start(p)
    BY DEF Start
<1>2. CASE Finish(p) \/ Abandon(p) \/ Kill(p)
    BY <1>2 DEF Finish, Abandon, Kill, Exit
<1>3. CASE Skip(p) \/ Close(p)
    <2>1. PICK g \in First(todo[p]) : todo' = [todo EXCEPT ![p] = @ \ {g}]
        BY <1>3 DEF Skip, Close, Current
    <2> QED BY <2>1 DEF First
<1>4. CASE Claim(p)
    BY <1>4 DEF Claim, Left
<1>5. CASE List(p)
    <2>1. pc[p] = "list" /\ pc'[p] \in {"fetch", "drain"} /\ todo'[p] = todo[p]
        BY <1>5 DEF List
    <2> QED BY <2>1 DEF Left
<1>6. CASE FetchOk(p) \/ FetchGivesUp(p)
    <2>1. PICK b \in First(slots[p]) : slots' = [slots EXCEPT ![p] = @ \ {b}]
        BY <1>6 DEF FetchOk, FetchGivesUp
    <2> QED BY <1>6, <2>1 DEF FetchOk, FetchGivesUp, First
<1>7. CASE FetchFails(p)
    BY <1>7, AttemptAssumption DEF FetchFails
<1>8. CASE FetchEnds(p) \/ Drained(p)
    BY <1>8 DEF FetchEnds, Drained, Left
<1>9. CASE Store(p)
    <2>1. PICK batch \in (SUBSET sent[p]) \ {{}} :
              sent' = [sent EXCEPT ![p] = @ \ batch]
        BY <1>9 DEF Store
    <2> QED BY <1>9, <2>1 DEF Store
<1>10. CASE Interrupt(p)
    BY <1>10 DEF Interrupt
<1> QED BY <1>1, <1>2, <1>3, <1>4, <1>5, <1>6, <1>7, <1>8, <1>9, <1>10
       DEF Step, Run, Backfill

(* No step of a recover run takes it back: it ends the run, or it leaves   *)
(* less of it, however often the node refuses and whatever other           *)
(* processes do.  All of it is finite, and the attempts are bounded.       *)
THEOREM RunsApproachTheirEnd == Spec => [][Approach]_vars
<1>1. ASSUME TypeOK, [Next]_vars PROVE [Approach]_vars
    <2> SUFFICES ASSUME NEW p \in Recoverers, pc[p] # "idle", Moves(p), Next
                 PROVE  pc'[p] = "idle" \/ Nearer(p)
        BY <1>1 DEF Approach
    <2>1. ~(\E g \in GapIds : Record(g))
        BY DEF Record, process, Moves
    <2>2. PICK q \in Recoverers : Step(q)
        BY <2>1 DEF Next
    <2> QED BY <1>1, <2>2, OthersStay, StepApproaches
<1> QED BY <1>1, TypeCorrect, PTL DEF Spec

(* Some step is open to a run that is not over, without a failure or the   *)
(* operator: one of Skip, Claim, Finish, List, FetchOk, FetchEnds, Store,  *)
(* Drained and Close, whose guards these are.                              *)
CanMove(p) ==
    \/ pc[p] = "next" /\ (todo[p] = {} \/ Current(p) # {})
    \/ pc[p] \in {"list", "close"} /\ Current(p) # {}
    \/ pc[p] = "fetch" /\ MayFetch(p) /\ First(slots[p]) # {}
    \/ pc[p] = "fetch" /\ (slots[p] = {} \/ ~MayFetch(p))
    \/ pc[p] = "drain"

AtGap == {"list", "fetch", "drain", "close"}
GapInv == \A p \in Recoverers : pc[p] \in AtGap => todo[p] # {}

LEMMA FirstExists ==
    ASSUME NEW S \in SUBSET Nat, S # {}
    PROVE  First(S) # {}
<1> DEFINE Less == OpToRel(<, Nat)
<1>1. IsWellFoundedOn(Less, Nat)
    BY NatLessThanWellFounded
<1>2. \A x, y \in Nat : <<x, y>> \in Less <=> x < y
    BY DEF OpToRel
<1> HIDE DEF Less
<1>3. PICK x \in S : \A y \in S : ~(<<y, x>> \in Less)
    BY ONLY <1>1, S \subseteq Nat, S # {}, WFMin
<1>4. \A y \in S : x \in Nat /\ y \in Nat /\ ~(y < x)
    BY <1>2, <1>3
<1>5. x \in First(S)
    BY <1>4 DEF First
<1> QED BY <1>5

LEMMA GapStep == TypeOK /\ GapInv /\ [Next]_vars => GapInv'
<1> SUFFICES ASSUME TypeOK, GapInv, [Next]_vars
             PROVE  GapInv'
    OBVIOUS
<1> USE DEF TypeOK, GapInv, AtGap
<1>1. ASSUME NEW q \in Recoverers, ~Moves(q), pc'[q] \in AtGap
      PROVE  todo'[q] # {}
    BY <1>1 DEF Moves
<1>2. ASSUME NEW p \in Recoverers,
             Step(p),
             pc'[p] \in AtGap
      PROVE  todo'[p] # {}
    <2>1. CASE Start(p) \/ Skip(p) \/ Close(p)
        BY <1>2, <2>1 DEF Start, Skip, Close
    <2>2. CASE Finish(p) \/ Abandon(p) \/ Kill(p)
        BY <1>2, <2>2 DEF Finish, Abandon, Kill, Exit
    <2>3. CASE Claim(p)
        BY <2>3 DEF Claim, Current, First
    <2>4. CASE Backfill(p) \/ Store(p) \/ Interrupt(p)
        BY <1>2, <2>4 DEF Backfill, List, FetchOk, FetchFails, FetchGivesUp,
            FetchEnds, Drained, Store, Interrupt
    <2> QED BY <1>2, <2>1, <2>2, <2>3, <2>4 DEF Step, Run
<1>3. CASE UNCHANGED vars \/ \E g \in GapIds : Record(g)
    BY <1>3 DEF Record, vars, process
<1>4. ASSUME NEW p \in Recoverers,
             Step(p)
      PROVE  GapInv'
    BY <1>1, <1>2, <1>4, OthersStay
<1> QED BY <1>3, <1>4 DEF Next

(* A recover run is never where it cannot go on: the gap it is at is one   *)
(* of those it read, and there is a first one of them to go on with.       *)
THEOREM RunsNeverStandStill ==
    Spec => [](\A p \in Recoverers : pc[p] # "idle" => CanMove(p))
<1>1. Init => GapInv
    BY DEF Init, GapInv, AtGap
<1>2. ASSUME TypeOK, GapInv
      PROVE  \A p \in Recoverers : pc[p] # "idle" => CanMove(p)
    <2> SUFFICES ASSUME NEW p \in Recoverers, pc[p] # "idle"
                 PROVE  CanMove(p)
        OBVIOUS
    <2>1. todo[p] \in SUBSET Nat /\ slots[p] \in SUBSET Nat
        BY <1>2, GapsAssumption, BlocksAssumption DEF TypeOK
    <2>2. todo[p] = {} \/ Current(p) # {}
        BY <2>1, FirstExists DEF Current
    <2>3. slots[p] = {} \/ First(slots[p]) # {}
        BY <2>1, FirstExists
    <2>4. pc[p] \in {"next", "list", "fetch", "drain", "close"}
        BY <1>2 DEF TypeOK, Places
    <2> QED BY <1>2, <2>2, <2>3, <2>4 DEF GapInv, AtGap, CanMove
<1> QED BY <1>1, <1>2, GapStep, TypeCorrect, PTL DEF Spec
=============================================================================
