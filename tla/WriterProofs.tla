---------------------------- MODULE WriterProofs ----------------------------
(***************************************************************************)
(* Proofs about Writer, for every set of writers and rows and every size   *)
(* of the channel and of the batch.                                        *)
(***************************************************************************)
EXTENDS Writer, SequenceTheorems, WellFoundedInduction, TLAPS

(* A channel or a Vec of S holds members of S.                             *)
LEMMA RangeType ==
    ASSUME NEW S, NEW s \in Seq(S)
    PROVE  Range(s) \in SUBSET S
BY RangeOfSeq

(* An empty one holds nothing.                                             *)
LEMMA RangeEmpty == Range(<<>>) = {}
BY DEF Range

(* A push adds the pushed item.                                            *)
LEMMA RangeAppend ==
    ASSUME NEW S, NEW s \in Seq(S), NEW e \in S
    PROVE  Range(Append(s, e)) = Range(s) \union {e}
<1> DEFINE t == Append(s, e)
<1>1. /\ DOMAIN t = DOMAIN s \union {Len(s) + 1}
      /\ \A i \in DOMAIN s : t[i] = s[i]
      /\ t[Len(s) + 1] = e
    OBVIOUS
<1> HIDE DEF t
<1> QED BY <1>1 DEF Range

(* Taking the head of a channel leaves its other items.                    *)
LEMMA RangeTail ==
    ASSUME NEW S, NEW s \in Seq(S), s # <<>>
    PROVE  /\ Head(s) \in S
           /\ Tail(s) \in Seq(S)
           /\ Range(s) = Range(Tail(s)) \union {Head(s)}
<1> DEFINE t == Tail(s)
<1>1. Head(s) \in S /\ t \in Seq(S)
    OBVIOUS
<1>2. /\ 1 \in DOMAIN s /\ s[1] = Head(s)
      /\ \A i \in DOMAIN t : i + 1 \in DOMAIN s /\ s[i + 1] = t[i]
      /\ \A i \in DOMAIN s : i # 1 => i - 1 \in DOMAIN t /\ t[i - 1] = s[i]
    OBVIOUS
<1> HIDE DEF t
<1>3. Range(s) \subseteq Range(t) \union {Head(s)}
    BY <1>2 DEF Range
<1>4. Range(t) \union {Head(s)} \subseteq Range(s)
    BY <1>2 DEF Range
<1> QED BY <1>1, <1>3, <1>4 DEF t

----------------------------------------------------------------------------
(* What the loop maintains about its own variables.                        *)

LoopInv ==
    \A w \in Writers :
        /\ pc[w] = "select" => Len(batch[w]) < BatchSize /\ ~breaking[w]
        /\ pc[w] \in Flushing \union Parking => batch[w] # <<>>
        /\ pc[w] \in Over => queue[w] = <<>> /\ batch[w] = <<>>
        /\ pc[w] \in Over \/ breaking[w] => ~open[w] /\ queue[w] = <<>>

Inv1 == TypeOK /\ LoopInv

(* Rows of the right type yield identities and marks of the right type.    *)
LEMMA RowsTyped ==
    ASSUME NEW S \in SUBSET PendingWrites
    PROVE  /\ IdsOf(S) \in SUBSET Ids
           /\ Traded(S) \in SUBSET IdsOf(S)
           /\ \A r \in S : MarkOf(r.id) \in Marks
BY RowAssumption, SlotAssumption DEF IdsOf, Traded, MarkOf, Marks, Signatures

(* What a task holds, and what it stages of it, has the right type.        *)
LEMMA HeldTyped ==
    ASSUME TypeOK, NEW w \in Writers
    PROVE  /\ Range(queue[w]) \in SUBSET PendingWrites
           /\ Range(batch[w]) \in SUBSET PendingWrites
           /\ IdsOf(Range(queue[w]) \union Range(batch[w])) \in SUBSET Ids
           /\ IdsOf(Range(batch[w])) \in SUBSET Ids
           /\ Traded(Range(batch[w])) \in SUBSET Ids
<1>1. queue[w] \in Seq(PendingWrites) /\ batch[w] \in Seq(PendingWrites)
    BY DEF TypeOK
<1>2. /\ Range(queue[w]) \in SUBSET PendingWrites
      /\ Range(batch[w]) \in SUBSET PendingWrites
    BY <1>1, RangeType
<1>3. Range(queue[w]) \union Range(batch[w]) \in SUBSET PendingWrites
    BY <1>2
<1>4. /\ IdsOf(Range(batch[w])) \in SUBSET Ids
      /\ Traded(Range(batch[w])) \in SUBSET Ids
    BY <1>2, RowsTyped
<1>5. IdsOf(Range(queue[w]) \union Range(batch[w])) \in SUBSET Ids
    BY <1>3, RowsTyped
<1> QED BY <1>2, <1>4, <1>5

LEMMA TxTyped ==
    /\ EmptyTx \in Transactions
    /\ \A t \in Transactions :
          /\ t.events \in SUBSET Ids
          /\ t.trades \in SUBSET Ids
          /\ t.marks \in SUBSET Marks
          /\ \A S \in SUBSET Ids : [t EXCEPT !.events = S] \in Transactions
          /\ \A S \in SUBSET Ids : [t EXCEPT !.trades = S] \in Transactions
          /\ \A m \in Marks : [t EXCEPT !.marks = {m}] \in Transactions
BY DEF Transactions, EmptyTx

LEMMA Inv1Init == Init => Inv1
BY QueueAssumption, BatchAssumption
   DEF Init, Inv1, TypeOK, LoopInv, Places, Flushing, Parking, Over,
       Transactions, EmptyTx

LEMMA Inv1Next == Inv1 /\ [Next]_vars => Inv1'
<1> SUFFICES ASSUME Inv1, [Next]_vars
             PROVE  Inv1'
    OBVIOUS
<1> USE QueueAssumption, BatchAssumption
    DEF Inv1, TypeOK, LoopInv, Places, Flushing, Parking, Over, vars, memory,
        database, tables, history
<1>1. ASSUME NEW w \in Writers, Spawn(w)
      PROVE  Inv1'
    BY <1>1 DEF Spawn
<1>2. ASSUME NEW w \in Writers, CloseSenders(w)
      PROVE  Inv1'
    BY <1>2 DEF CloseSenders
<1>3. ASSUME NEW w \in Writers, Crash(w)
      PROVE  Inv1'
    <2>1. IdsOf(Range(queue[w]) \union Range(batch[w])) \in SUBSET Ids
        BY HeldTyped
    <2>2. IdsOf(Range(batch[w])) \in SUBSET Ids
        BY HeldTyped
    <2>3. deadLetters' \in SUBSET Ids /\ lost' \in SUBSET Ids
        BY <1>3, <2>1, <2>2 DEF Crash, MayPark
    <2>4. tx' \in [Writers -> Transactions] /\ orphans' \in SUBSET Transactions
        BY <1>3, TxTyped DEF Crash
    <2>5. /\ crashes' = crashes + 1
          /\ open' = [open EXCEPT ![w] = FALSE]
          /\ queue' = [queue EXCEPT ![w] = <<>>]
          /\ batch' = [batch EXCEPT ![w] = <<>>]
          /\ pc' = [pc EXCEPT ![w] = "down"]
          /\ breaking' = [breaking EXCEPT ![w] = FALSE]
          /\ committedSlot' = [committedSlot EXCEPT ![w] = 0]
          /\ UNCHANGED <<tables, accepted, sends>>
        BY <1>3 DEF Crash
    <2> QED BY <2>3, <2>4, <2>5
<1>4. ASSUME NEW w \in Writers, Recv(w)
      PROVE  Inv1'
    BY <1>4 DEF Recv
<1>5. ASSUME NEW w \in Writers, RecvNone(w)
      PROVE  Inv1'
    BY <1>5 DEF RecvNone
<1>6. ASSUME NEW w \in Writers, Tick(w)
      PROVE  Inv1'
    BY <1>6 DEF Tick
<1>7. ASSUME NEW w \in Writers, Begin(w)
      PROVE  Inv1'
    BY <1>7 DEF Begin
<1>8. ASSUME NEW w \in Writers, WriteEvents(w)
      PROVE  Inv1'
    <2>1. IdsOf(Range(batch[w])) \in SUBSET Ids
        BY HeldTyped
    <2>2. tx' \in [Writers -> Transactions]
        BY <1>8, <2>1, TxTyped DEF WriteEvents
    <2> QED BY <1>8, <2>2 DEF WriteEvents
<1>9. ASSUME NEW w \in Writers, WriteTrades(w)
      PROVE  Inv1'
    <2>1. Traded(Range(batch[w])) \in SUBSET Ids
        BY HeldTyped
    <2>2. tx' \in [Writers -> Transactions]
        BY <1>9, <2>1, TxTyped DEF WriteTrades
    <2> QED BY <1>9, <2>2 DEF WriteTrades
<1>10. ASSUME NEW w \in Writers, WriteCheckpoint(w)
      PROVE  Inv1'
    <2>1. PICK i \in DOMAIN batch[w] :
              tx' = [tx EXCEPT ![w].marks = {MarkOf(batch[w][i].id)}]
        BY <1>10 DEF WriteCheckpoint
    <2>2. batch[w][i] \in Range(batch[w])
        BY DEF Range
    <2>3. MarkOf(batch[w][i].id) \in Marks
        BY <2>2, HeldTyped, RowsTyped
    <2>4. tx' \in [Writers -> Transactions]
        BY <2>1, <2>3, TxTyped
    <2> QED BY <1>10, <2>4 DEF WriteCheckpoint
<1>11. ASSUME NEW w \in Writers, Commit(w)
      PROVE  Inv1'
    <2>1. tx[w] \in Transactions
        OBVIOUS
    <2>2. /\ events' \in SUBSET Ids /\ trades' \in SUBSET Ids
          /\ checkpoint' \in SUBSET Marks
        BY <1>11, <2>1, TxTyped DEF Commit, Apply
    <2> QED BY <1>11, <2>2 DEF Commit
<1>12. ASSUME NEW w \in Writers, FlushOk(w)
      PROVE  Inv1'
    <2>1. \A m \in tx[w].marks : m.slot \in Nat
        BY DEF Transactions, Marks
    <2>2. committedSlot' \in [Writers -> Nat]
        BY <1>12, <2>1 DEF FlushOk, Larger
    <2>3. tx' \in [Writers -> Transactions]
        BY <1>12, TxTyped DEF FlushOk
    <2> QED BY <1>12, <2>2, <2>3 DEF FlushOk, Return
<1>13. ASSUME NEW w \in Writers, FlushFails(w)
      PROVE  Inv1'
    <2>1. tx' \in [Writers -> Transactions] /\ orphans' \in SUBSET Transactions
        BY <1>13, TxTyped DEF FlushFails
    <2> QED BY <1>13, <2>1 DEF FlushFails
<1>14. ASSUME NEW w \in Writers, ParkBegins(w)
      PROVE  Inv1'
    BY <1>14 DEF ParkBegins
<1>15. ASSUME NEW w \in Writers, Parked(w)
      PROVE  Inv1'
    <2>1. IdsOf(Range(batch[w])) \in SUBSET Ids
        BY HeldTyped
    <2> QED BY <1>15, <2>1 DEF Parked, Return
<1>16. ASSUME NEW w \in Writers, ParkFails(w)
      PROVE  Inv1'
    <2>1. IdsOf(Range(batch[w])) \in SUBSET Ids
        BY HeldTyped
    <2>2. deadLetters' \in SUBSET Ids /\ lost' \in SUBSET Ids
        BY <1>16, <2>1 DEF ParkFails, MayPark
    <2>3. /\ batch[w] # <<>> /\ pc[w] \in Parking
          /\ batch' = [batch EXCEPT ![w] = <<>>]
          /\ pc' = [pc EXCEPT ![w] = IF breaking[w] THEN "stopped"
                                                   ELSE "select"]
          /\ UNCHANGED <<open, queue, breaking, tx, committedSlot, tables,
                         orphans, accepted, sends, crashes>>
        BY <1>16 DEF ParkFails, Return
    <2> QED BY <2>2, <2>3
<1>17. ASSUME NEW w \in Writers, NEW row \in PendingWrites, Send(w, row)
      PROVE  Inv1'
    BY <1>17 DEF Send
<1>18. ASSUME NEW t \in orphans, OrphanCommits(t) \/ OrphanAborts(t)
      PROVE  Inv1'
    BY <1>18 DEF OrphanCommits, OrphanAborts, Apply, Transactions
<1>19. CASE UNCHANGED vars
    BY <1>19
<1> QED BY <1>1, <1>2, <1>3, <1>4, <1>5, <1>6, <1>7, <1>8, <1>9, <1>10, <1>11, <1>12, <1>13, <1>14, <1>15, <1>16, <1>17, <1>18, <1>19
       DEF Next, Loop, Flush

----------------------------------------------------------------------------
(* What an open transaction has staged, and that rows come from accepted.  *)

HeldInv ==
    \A w \in Writers :
        Range(queue[w]) \subseteq accepted /\ Range(batch[w]) \subseteq accepted

TxInv ==
    \A w \in Writers :
        /\ pc[w] \notin {"trades", "checkpoint", "commit", "ack"} =>
              tx[w].events = {}
        /\ pc[w] \in {"trades", "checkpoint", "commit", "ack"} =>
              tx[w].events = IdsOf(Range(batch[w]))
        /\ pc[w] \in {"checkpoint", "commit", "ack"} =>
              tx[w].trades = Traded(Range(batch[w]))
        /\ pc[w] \in {"commit", "ack"} => Stores(tx[w], Range(batch[w]))
        /\ pc[w] = "ack" => tx[w].events \subseteq events

OrphanInv == \A t \in orphans : \E S \in SUBSET accepted : Stores(t, S)

Inv2 == HeldInv /\ TxInv /\ OrphanInv

(* The row max_by_key picks is a newest one.                               *)
LEMMA MaxByKeyIsNewest ==
    ASSUME NEW s, NEW i \in DOMAIN s, IsMaxByKey(s, i)
    PROVE  s[i] \in Newest(Range(s))
BY DEF IsMaxByKey, Newest, Range

LEMMA Inv2Init == Init => Inv2
BY RangeEmpty
   DEF Init, Inv2, HeldInv, TxInv, OrphanInv, EmptyTx

LEMMA Inv2Next == Inv1 /\ Inv1' /\ Inv2 /\ [Next]_vars => Inv2'
<1> SUFFICES ASSUME Inv1, Inv1', Inv2, [Next]_vars
             PROVE  Inv2'
    OBVIOUS
<1> USE DEF Inv1, TypeOK, Inv2, HeldInv, TxInv, OrphanInv, vars, memory,
        database, tables, history
<1>1. ASSUME NEW w \in Writers, Spawn(w)
      PROVE  Inv2'
    BY <1>1 DEF Spawn, Over
<1>2. ASSUME NEW w \in Writers, CloseSenders(w)
      PROVE  Inv2'
    BY <1>2 DEF CloseSenders
<1>3. ASSUME NEW w \in Writers, Crash(w)
      PROVE  Inv2'
    <2>1. HeldInv'
        BY <1>3, RangeEmpty DEF Crash
    <2>2. TxInv'
        BY <1>3 DEF Crash, EmptyTx
    <2>3. OrphanInv'
        BY <1>3 DEF Crash
    <2> QED BY <2>1, <2>2, <2>3
<1>4. ASSUME NEW w \in Writers, Recv(w)
      PROVE  Inv2'
    <2>1. /\ batch[w] \in Seq(PendingWrites)
          /\ Head(queue[w]) \in PendingWrites
          /\ Range(queue[w]) = Range(Tail(queue[w])) \union {Head(queue[w])}
        BY <1>4, RangeTail DEF Recv
    <2>2. Range(Append(batch[w], Head(queue[w])))
              = Range(batch[w]) \union {Head(queue[w])}
        BY ONLY <2>1, RangeAppend
    <2>3. HeldInv'
        BY <1>4, <2>1, <2>2 DEF Recv
    <2>4. TxInv'
        BY <1>4 DEF Recv
    <2>5. OrphanInv'
        BY <1>4 DEF Recv
    <2> QED BY <2>3, <2>4, <2>5
<1>5. ASSUME NEW w \in Writers, RecvNone(w)
      PROVE  Inv2'
    BY <1>5 DEF RecvNone
<1>6. ASSUME NEW w \in Writers, Tick(w)
      PROVE  Inv2'
    BY <1>6 DEF Tick
<1>7. ASSUME NEW w \in Writers, Begin(w)
      PROVE  Inv2'
    BY <1>7 DEF Begin
<1>8. ASSUME NEW w \in Writers, WriteEvents(w)
      PROVE  Inv2'
    <2>1. tx'[w].events = IdsOf(Range(batch[w]))
        BY <1>8 DEF WriteEvents, Transactions
    <2>2. TxInv'
        BY <1>8, <2>1 DEF WriteEvents
    <2> QED BY <1>8, <2>2 DEF WriteEvents
<1>9. ASSUME NEW w \in Writers, WriteTrades(w)
      PROVE  Inv2'
    <2>1. /\ tx'[w].trades = Traded(Range(batch[w]))
          /\ tx'[w].events = tx[w].events
        BY <1>9 DEF WriteTrades, Transactions
    <2>2. TxInv'
        BY <1>9, <2>1 DEF WriteTrades
    <2> QED BY <1>9, <2>2 DEF WriteTrades
<1>10. ASSUME NEW w \in Writers, WriteCheckpoint(w)
      PROVE  Inv2'
    <2>1. PICK i \in DOMAIN batch[w] :
              /\ IsMaxByKey(batch[w], i)
              /\ tx' = [tx EXCEPT ![w].marks = {MarkOf(batch[w][i].id)}]
        BY <1>10 DEF WriteCheckpoint
    <2>2. batch[w][i] \in Newest(Range(batch[w]))
        BY <2>1, MaxByKeyIsNewest
    <2>3. /\ tx'[w].events = tx[w].events /\ tx'[w].trades = tx[w].trades
          /\ tx'[w].marks = {MarkOf(batch[w][i].id)}
        BY <2>1, TxTyped DEF Transactions
    <2>4. Stores(tx'[w], Range(batch[w]))
        BY <1>10, <2>2, <2>3 DEF WriteCheckpoint, Stores
    <2>5. TxInv'
        BY <1>10, <2>1, <2>3, <2>4 DEF WriteCheckpoint
    <2> QED BY <1>10, <2>5 DEF WriteCheckpoint
<1>11. ASSUME NEW w \in Writers, Commit(w)
      PROVE  Inv2'
    <2>1. tx[w].events \subseteq events' /\ events \subseteq events'
        BY <1>11 DEF Commit, Apply
    <2>2. TxInv'
        BY <1>11, <2>1 DEF Commit
    <2> QED BY <1>11, <2>2 DEF Commit
<1>12. ASSUME NEW w \in Writers, FlushOk(w)
      PROVE  Inv2'
    <2>1. HeldInv'
        BY <1>12, RangeEmpty DEF FlushOk, Return
    <2>2. TxInv'
        BY <1>12 DEF FlushOk, Return, EmptyTx
    <2> QED BY <1>12, <2>1, <2>2 DEF FlushOk
<1>13. ASSUME NEW w \in Writers, FlushFails(w)
      PROVE  Inv2'
    <2>1. TxInv'
        BY <1>13 DEF FlushFails, EmptyTx
    <2>2. OrphanInv'
        BY <1>13 DEF FlushFails
    <2> QED BY <1>13, <2>1, <2>2 DEF FlushFails
<1>14. ASSUME NEW w \in Writers, ParkBegins(w)
      PROVE  Inv2'
    BY <1>14 DEF ParkBegins
<1>15. ASSUME NEW w \in Writers, Parked(w)
      PROVE  Inv2'
    <2>1. HeldInv'
        BY <1>15, RangeEmpty DEF Parked, Return
    <2>2. TxInv'
        BY <1>15 DEF Parked, Return, Parking
    <2> QED BY <1>15, <2>1, <2>2 DEF Parked
<1>16. ASSUME NEW w \in Writers, ParkFails(w)
      PROVE  Inv2'
    <2>1. HeldInv'
        BY <1>16, RangeEmpty DEF ParkFails, Return
    <2>2. TxInv'
        BY <1>16 DEF ParkFails, Return, Parking
    <2> QED BY <1>16, <2>1, <2>2 DEF ParkFails
<1>17. ASSUME NEW w \in Writers, NEW row \in PendingWrites, Send(w, row)
      PROVE  Inv2'
    <2>1. Range(Append(queue[w], row)) = Range(queue[w]) \union {row}
        BY RangeAppend
    <2>2. HeldInv'
        BY <1>17, <2>1 DEF Send
    <2>3. TxInv' /\ OrphanInv'
        BY <1>17 DEF Send
    <2> QED BY <2>2, <2>3
<1>18. ASSUME NEW t \in orphans, OrphanCommits(t) \/ OrphanAborts(t)
      PROVE  Inv2'
    BY <1>18 DEF OrphanCommits, OrphanAborts, Apply
<1>19. CASE UNCHANGED vars
    BY <1>19
<1> QED BY <1>1, <1>2, <1>3, <1>4, <1>5, <1>6, <1>7, <1>8, <1>9, <1>10, <1>11, <1>12, <1>13, <1>14, <1>15, <1>16, <1>17, <1>18, <1>19
       DEF Next, Loop, Flush

(* Every reachable state satisfies both.                                   *)
LEMMA Inductive == Spec => [](Inv1 /\ Inv2)
<1>1. Init => Inv1 /\ Inv2
    BY Inv1Init, Inv2Init
<1>2. Inv1 /\ Inv2 /\ [Next]_vars => (Inv1 /\ Inv2)'
    BY Inv1Next, Inv2Next
<1> QED BY <1>1, <1>2, PTL DEF Spec

(* Every variable keeps its type: in particular the channel never holds    *)
(* more than its capacity and the batch never more than BATCH_SIZE rows.   *)
THEOREM TypeCorrect == Spec => []TypeOK
BY Inductive, PTL DEF Inv1

(* A task that has left its loop has nothing in its channel or its batch:  *)
(* the shutdown that awaits it loses no row (spawn_writer).                *)
THEOREM Drained == Spec => []DrainedBeforeStop
<1>1. Inv1 => DrainedBeforeStop
    BY DEF Inv1, LoopInv, DrainedBeforeStop, Over
<1> QED BY <1>1, Inductive, PTL

----------------------------------------------------------------------------
(* Refinement: a step of the writer is a step of the atomic store.         *)

LEMMA StoreInitially == Init => Store!StoreInit
BY DEF Init, Store!StoreInit

(* Applying a transaction that stores accepted rows stores them as a unit. *)
LEMMA ApplyStoresUnit ==
    ASSUME NEW t, NEW S \in SUBSET accepted, Stores(t, S), Apply(t),
           UNCHANGED accepted
    PROVE  Store!StoreUnit
<1>1. PICK newest \in Newest(S) : t.marks = {MarkOf(newest.id)}
    BY DEF Stores
<1>2. /\ events' = events \union IdsOf(S)
      /\ trades' = trades \union Traded(S)
      /\ checkpoint' = {MarkOf(newest.id)}
    BY <1>1 DEF Stores, Apply
<1> QED BY <1>2 DEF Store!StoreUnit, Store!Newest, Store!IdsOf, Store!Traded,
           Store!MarkOf, Newest, IdsOf, Traded, MarkOf

LEMMA StepIsStoreStep ==
    Inv2 /\ [Next]_vars => [Store!StoreNext]_(Store!storeVars)
<1> SUFFICES ASSUME Inv2, [Next]_vars
             PROVE  Store!StoreNext \/ UNCHANGED Store!storeVars
    OBVIOUS
<1> USE DEF Store!StoreNext, Store!storeVars
<1>1. ASSUME NEW w \in Writers, Commit(w)
      PROVE  Store!StoreUnit
    <2>1. /\ Stores(tx[w], Range(batch[w]))
          /\ Range(batch[w]) \in SUBSET accepted
        BY <1>1 DEF Commit, Inv2, TxInv, HeldInv
    <2>2. Apply(tx[w]) /\ UNCHANGED accepted
        BY <1>1 DEF Commit, history
    <2> QED BY <2>1, <2>2, ApplyStoresUnit
<1>2. ASSUME NEW t \in orphans, OrphanCommits(t)
      PROVE  Store!StoreUnit
    <2>1. PICK S \in SUBSET accepted : Stores(t, S)
        BY DEF Inv2, OrphanInv
    <2>2. Apply(t) /\ UNCHANGED accepted
        BY <1>2 DEF OrphanCommits, history
    <2> QED BY <2>1, <2>2, ApplyStoresUnit
<1>3. ASSUME NEW w \in Writers, NEW row \in PendingWrites, Send(w, row)
      PROVE  Store!Accept(row)
    BY <1>3 DEF Send, database, Store!Accept
<1>4. ASSUME NEW w \in Writers,
             \/ Spawn(w) \/ CloseSenders(w) \/ Crash(w) \/ Loop(w)
             \/ Flush(w) /\ ~Commit(w)
      PROVE  UNCHANGED Store!storeVars
    BY <1>4 DEF Spawn, CloseSenders, Crash, Loop, Recv, RecvNone, Tick, Flush,
        Begin, WriteEvents, WriteTrades, WriteCheckpoint, FlushOk, FlushFails,
        ParkBegins, Parked, ParkFails, database, tables, history
<1>5. ASSUME NEW t \in orphans, OrphanAborts(t)
      PROVE  UNCHANGED Store!storeVars
    BY <1>5 DEF OrphanAborts, tables, history
<1>6. CASE UNCHANGED vars
    BY <1>6 DEF vars, database, history
<1> QED BY <1>1, <1>2, <1>3, <1>4, <1>5, <1>6 DEF Next, Flush

(* The write path implements the atomic store: whatever fails, times out or*)
(* is killed, the tables change only by whole units of accepted rows, each *)
(* with the checkpoint of its newest row.                                  *)
THEOREM ImplementsStore == Spec => StoreSpec
<1>1. Init => Store!StoreInit
    BY StoreInitially
<1>2. Inv2 /\ [Next]_vars => [Store!StoreNext]_(Store!storeVars)
    BY StepIsStoreStep
<1> QED BY <1>1, <1>2, Inductive, PTL DEF Spec, StoreSpec, Store!StoreSpec

----------------------------------------------------------------------------
(* What follows for the tables: units keep the checkpoint and the trades   *)
(* honest.                                                                 *)

CheckpointIsStored == \A m \in checkpoint : \E e \in events : m = MarkOf(e)

LEMMA UnitKeepsTables ==
    ASSUME Store!StoreUnit, CheckpointIsStored, TradesMatchEvents
    PROVE  CheckpointIsStored' /\ TradesMatchEvents'
<1>1. PICK S \in SUBSET accepted : \E newest \in Newest(S) :
          /\ events' = events \union IdsOf(S)
          /\ trades' = trades \union Traded(S)
          /\ checkpoint' = {MarkOf(newest.id)}
          /\ UNCHANGED accepted
    BY DEF Store!StoreUnit, Store!Newest, Store!IdsOf, Store!Traded,
       Store!MarkOf, Newest, IdsOf, Traded, MarkOf
<1>2. \A newest \in Newest(S) : newest.id \in IdsOf(S)
    BY DEF Newest, IdsOf
<1>3. CheckpointIsStored'
    BY <1>1, <1>2 DEF CheckpointIsStored, MarkOf
<1>4. ASSUME NEW e \in events' \ trades'
      PROVE  \E r \in accepted' : r.id = e /\ ~r.trade
    BY <1>1 DEF TradesMatchEvents, IdsOf, Traded
<1>5. ASSUME NEW e \in trades'
      PROVE  e \in events' /\ \E r \in accepted' : r.id = e /\ r.trade
    BY <1>1 DEF TradesMatchEvents, IdsOf, Traded
<1> QED BY <1>3, <1>4, <1>5 DEF TradesMatchEvents

LEMMA StoreStepKeepsTables ==
    ASSUME [Store!StoreNext]_(Store!storeVars), CheckpointIsStored,
           TradesMatchEvents
    PROVE  /\ CheckpointIsStored' /\ TradesMatchEvents'
           /\ events \subseteq events'
<1>1. CASE Store!StoreUnit
    BY <1>1, UnitKeepsTables DEF Store!StoreUnit
<1>2. ASSUME NEW r, Store!Accept(r)
      PROVE  /\ CheckpointIsStored' /\ TradesMatchEvents'
             /\ events \subseteq events'
    BY <1>2 DEF Store!Accept, CheckpointIsStored, TradesMatchEvents, MarkOf
<1>3. CASE UNCHANGED Store!storeVars
    BY <1>3 DEF Store!storeVars, CheckpointIsStored, TradesMatchEvents, MarkOf
<1> QED BY <1>1, <1>2, <1>3 DEF Store!StoreNext

(* The gauge moves only to a slot of the transaction whose COMMIT was      *)
(* answered.                                                               *)
GaugeIsStored ==
    \A w \in Writers :
        committedSlot[w] # 0 => \E e \in events : SlotOf[e] = committedSlot[w]

LEMMA GaugeNext ==
    ASSUME Inv1, Inv2, GaugeIsStored, events \subseteq events', [Next]_vars
    PROVE  GaugeIsStored'
<1> USE DEF Inv1, TypeOK
<1>1. ASSUME NEW w \in Writers, FlushOk(w)
      PROVE  GaugeIsStored'
    <2>1. Stores(tx[w], Range(batch[w])) /\ tx[w].events \subseteq events
        BY <1>1 DEF FlushOk, Inv2, TxInv
    <2>2. PICK newest \in Newest(Range(batch[w])) :
              tx[w].marks = {MarkOf(newest.id)}
        BY <2>1 DEF Stores
    <2>3. newest.id \in events
        BY <2>1, <2>2 DEF Stores, Newest, IdsOf
    <2>4. PICK m \in tx[w].marks :
              committedSlot' = [committedSlot EXCEPT ![w] = Larger(@, m.slot)]
        BY <1>1 DEF FlushOk
    <2>5. m.slot = SlotOf[newest.id]
        BY <2>2 DEF MarkOf
    <2>6. UNCHANGED events
        BY <1>1 DEF FlushOk, database
    <2> QED BY <2>3, <2>4, <2>5, <2>6 DEF GaugeIsStored, Larger
<1>2. ASSUME NEW w \in Writers, Spawn(w) \/ Crash(w)
      PROVE  GaugeIsStored'
    BY <1>2 DEF Spawn, Crash, GaugeIsStored
<1>3. CASE UNCHANGED committedSlot
    BY <1>3 DEF GaugeIsStored
<1>4. ASSUME NEW w \in Writers,
             \/ CloseSenders(w) \/ Loop(w) \/ (Flush(w) /\ ~FlushOk(w))
             \/ \E row \in PendingWrites : Send(w, row)
      PROVE  UNCHANGED committedSlot
    BY <1>4 DEF CloseSenders, Loop, Recv, RecvNone, Tick, Flush, Begin,
        WriteEvents, WriteTrades, WriteCheckpoint, Commit, FlushFails,
        ParkBegins, Parked, ParkFails, Send
<1>5. ASSUME NEW t \in orphans, OrphanCommits(t) \/ OrphanAborts(t)
      PROVE  UNCHANGED committedSlot
    BY <1>5 DEF OrphanCommits, OrphanAborts, memory
<1>6. CASE UNCHANGED vars
    BY <1>6, <1>3 DEF vars, memory
<1> QED BY <1>1, <1>2, <1>3, <1>4, <1>5, <1>6 DEF Next, Flush

Inv3 == CheckpointIsStored /\ TradesMatchEvents /\ GaugeIsStored

LEMMA StoredInductive == Spec => []Inv3
<1>1. Init => Inv3
    BY DEF Init, Inv3, CheckpointIsStored, TradesMatchEvents, GaugeIsStored
<1>2. Inv1 /\ Inv2 /\ Inv3 /\ [Next]_vars => Inv3'
    <2> SUFFICES ASSUME Inv1, Inv2, Inv3, [Next]_vars
                 PROVE  Inv3'
        OBVIOUS
    <2>1. [Store!StoreNext]_(Store!storeVars)
        BY StepIsStoreStep
    <2>2. /\ CheckpointIsStored' /\ TradesMatchEvents'
          /\ events \subseteq events'
        BY <2>1, StoreStepKeepsTables DEF Inv3
    <2>3. GaugeIsStored'
        BY <2>2, GaugeNext DEF Inv3
    <2> QED BY <2>2, <2>3 DEF Inv3
<1> QED BY <1>1, <1>2, Inductive, PTL DEF Spec

(* The checkpoint and the gauge of every process name stored events.       *)
THEOREM ProgressStored == Spec => []ProgressIsStored
<1>1. Inv3 => ProgressIsStored
    BY DEF Inv3, CheckpointIsStored, GaugeIsStored, ProgressIsStored
<1> QED BY <1>1, StoredInductive, PTL

(* No flush that fails, times out or is killed separates an event from the *)
(* trade that came with it.                                                *)
THEOREM TradesMatch == Spec => []TradesMatchEvents
BY StoredInductive, PTL DEF Inv3

----------------------------------------------------------------------------
(* No row leaves memory unaccounted for.                                   *)

(* A row stays accounted for while the tables grow and its holder keeps it.*)
LEMMA HeldKeepsAccounted ==
    ASSUME Accounted, UNCHANGED accepted,
           Settled \subseteq Settled',
           \A w \in Writers, r \in PendingWrites :
               r \in Held(w) => r \in Held(w)' \/ r.id \in Settled',
           TypeOK
    PROVE  Accounted'
<1> SUFFICES ASSUME NEW r \in accepted
             PROVE  r.id \in Settled' \/ \E w \in Writers : r \in Held(w)'
    BY DEF Accounted
<1>1. r \in PendingWrites
    BY DEF TypeOK
<1> QED BY <1>1 DEF Accounted

(* So does a row that is accepted, once it is held.                        *)
LEMMA AcceptKeepsAccounted ==
    ASSUME Accounted, Settled' = Settled,
           NEW w \in Writers, NEW row, accepted' = accepted \union {row},
           row \in Held(w)',
           \A v \in Writers : Held(v) \subseteq Held(v)'
    PROVE  Accounted'
<1> SUFFICES ASSUME NEW r \in accepted'
             PROVE  r.id \in Settled' \/ \E v \in Writers : r \in Held(v)'
    BY DEF Accounted
<1>1. CASE r = row
    BY <1>1
<1>2. CASE r \in accepted
    BY <1>2 DEF Accounted
<1> QED BY <1>1, <1>2

LEMMA AccountedNext ==
    ASSUME Inv1, Inv2, Accounted, [Next]_vars
    PROVE  Accounted'
<1> USE DEF Inv1, TypeOK, Settled, Held, history, database, tables
<1>1. ASSUME NEW w \in Writers, Recv(w)
      PROVE  Accounted'
    <2>1. /\ batch[w] \in Seq(PendingWrites)
          /\ Head(queue[w]) \in PendingWrites
          /\ Range(queue[w]) = Range(Tail(queue[w])) \union {Head(queue[w])}
        BY <1>1, RangeTail DEF Recv
    <2>2. Range(Append(batch[w], Head(queue[w])))
              = Range(batch[w]) \union {Head(queue[w])}
        BY ONLY <2>1, RangeAppend
    <2>3. \A v \in Writers : Held(v)' = Held(v)
        BY <1>1, <2>1, <2>2 DEF Recv
    <2>4. UNCHANGED <<accepted, Settled>>
        BY <1>1 DEF Recv
    <2> QED BY <2>3, <2>4 DEF Accounted
<1>2. ASSUME NEW w \in Writers, FlushOk(w)
      PROVE  Accounted'
    <2>1. IdsOf(Range(batch[w])) \subseteq events
        BY <1>2 DEF FlushOk, Inv2, TxInv
    <2>2. \A r \in Range(batch[w]) : r.id \in events
        BY <2>1 DEF IdsOf
    <2>3. \A v \in Writers, r \in PendingWrites :
              r \in Held(v) => r \in Held(v)' \/ r.id \in Settled'
        BY <1>2, <2>2 DEF FlushOk, Return
    <2>4. UNCHANGED <<accepted, Settled>>
        BY <1>2 DEF FlushOk
    <2> QED BY <2>3, <2>4, HeldKeepsAccounted
<1>3. ASSUME NEW w \in Writers, Parked(w)
      PROVE  Accounted'
    <2>1. \A r \in Range(batch[w]) : r.id \in deadLetters'
        BY <1>3 DEF Parked, IdsOf
    <2>2. \A v \in Writers, r \in PendingWrites :
              r \in Held(v) => r \in Held(v)' \/ r.id \in Settled'
        BY <1>3, <2>1 DEF Parked, Return
    <2>3. UNCHANGED accepted /\ Settled \subseteq Settled'
        BY <1>3 DEF Parked
    <2> QED BY <2>2, <2>3, HeldKeepsAccounted
<1>4. ASSUME NEW w \in Writers, ParkFails(w)
      PROVE  Accounted'
    <2>1. \A r \in Range(batch[w]) : r.id \in lost'
        BY <1>4 DEF ParkFails, IdsOf
    <2>2. \A v \in Writers, r \in PendingWrites :
              r \in Held(v) => r \in Held(v)' \/ r.id \in Settled'
        BY <1>4, <2>1 DEF ParkFails, Return
    <2>3. UNCHANGED accepted /\ Settled \subseteq Settled'
        BY <1>4 DEF ParkFails, MayPark
    <2> QED BY <2>2, <2>3, HeldKeepsAccounted
<1>5. ASSUME NEW w \in Writers, Crash(w)
      PROVE  Accounted'
    <2>1. \A r \in Held(w) : r.id \in lost'
        BY <1>5 DEF Crash, IdsOf
    <2>2. \A v \in Writers, r \in PendingWrites :
              r \in Held(v) => r \in Held(v)' \/ r.id \in Settled'
        BY <1>5, <2>1 DEF Crash
    <2>3. UNCHANGED accepted /\ Settled \subseteq Settled'
        BY <1>5 DEF Crash, MayPark
    <2> QED BY <2>2, <2>3, HeldKeepsAccounted
<1>6. ASSUME NEW w \in Writers, NEW row \in PendingWrites, Send(w, row)
      PROVE  Accounted'
    <2>1. Range(Append(queue[w], row)) = Range(queue[w]) \union {row}
        BY RangeAppend
    <2>2. /\ row \in Held(w)'
          /\ \A v \in Writers : Held(v) \subseteq Held(v)'
        BY <1>6, <2>1 DEF Send
    <2>3. UNCHANGED Settled /\ accepted' = accepted \union {row}
        BY <1>6 DEF Send
    <2> QED BY <2>2, <2>3, AcceptKeepsAccounted
<1>7. ASSUME UNCHANGED <<queue, batch, accepted, deadLetters, lost>>,
             events \subseteq events'
      PROVE  Accounted'
    BY <1>7 DEF Accounted
<1>8. ASSUME NEW w \in Writers, Commit(w) \/ FlushFails(w)
      PROVE  Accounted'
    BY <1>8, <1>7 DEF Commit, FlushFails, Apply
<1>9. ASSUME NEW t \in orphans, OrphanCommits(t) \/ OrphanAborts(t)
      PROVE  Accounted'
    BY <1>9, <1>7 DEF OrphanCommits, OrphanAborts, Apply, memory
<1>10. ASSUME NEW w \in Writers,
              \/ Spawn(w) \/ CloseSenders(w) \/ RecvNone(w) \/ Tick(w)
              \/ Begin(w) \/ WriteEvents(w) \/ WriteTrades(w)
              \/ WriteCheckpoint(w) \/ ParkBegins(w)
       PROVE  Accounted'
    BY <1>10, <1>7 DEF Spawn, CloseSenders, RecvNone, Tick, Begin, WriteEvents,
        WriteTrades, WriteCheckpoint, ParkBegins
<1>11. CASE UNCHANGED vars
    BY <1>11, <1>7 DEF vars, memory
<1> QED BY <1>1, <1>2, <1>3, <1>4, <1>5, <1>6, <1>8, <1>9, <1>10, <1>11
       DEF Next, Loop, Flush

(* Every row the channel has taken is in memory, stored, parked, or went   *)
(* with a killed process or a failed park.                                 *)
THEOREM RowsAccounted == Spec => []Accounted
<1>1. Init => Accounted
    BY DEF Init, Accounted
<1>2. Inv1 /\ Inv2 /\ Accounted /\ [Next]_vars => Accounted'
    BY AccountedNext
<1> QED BY <1>1, <1>2, Inductive, PTL DEF Spec

----------------------------------------------------------------------------
(* Why a task ends once the last handle is dropped, and a flush ends at    *)
(* all: each step leaves less to do, and none of the places is one the     *)
(* task could not leave.  ShutdownCompletes and EveryRowSettles add the    *)
(* fairness that such a step is taken.                                     *)

(* A set of numbers has a least one.                                       *)
LEMMA NatLeast ==
    ASSUME NEW T \in SUBSET Nat, T # {}
    PROVE  \E n \in T : \A m \in T : n <= m
<1> DEFINE Less == OpToRel(<, Nat)
<1>1. IsWellFoundedOn(Less, Nat)
    BY NatLessThanWellFounded
<1>2. \A m, n \in Nat : <<m, n>> \in Less <=> m < n
    BY DEF OpToRel
<1> HIDE DEF Less
<1>3. PICK n \in T : \A m \in T : ~(<<m, n>> \in Less)
    BY ONLY <1>1, T \subseteq Nat, T # {}, WFMin
<1>4. \A m \in T : m \in Nat /\ n \in Nat /\ ~(m < n)
    BY <1>2, <1>3
<1> QED BY <1>4

(* Some numbers have a last largest one: the least prefix without one would*)
(* be one number longer than a prefix that has one.                        *)
LEMMA LastLargest ==
    ASSUME NEW last \in Nat \ {0}, NEW f \in [1 .. last -> Nat]
    PROVE  \E i \in 1 .. last :
              /\ \A j \in 1 .. last : f[j] <= f[i]
              /\ \A j \in 1 .. last : f[j] = f[i] => j <= i
<1> DEFINE Best(i, n) ==
              /\ \A j \in 1 .. n : f[j] <= f[i]
              /\ \A j \in 1 .. n : f[j] = f[i] => j <= i
           Wrong == {n \in 1 .. last : ~ \E i \in 1 .. n : Best(i, n)}
<1>1. SUFFICES ASSUME ~ \E i \in 1 .. last : Best(i, last)
               PROVE  FALSE
    OBVIOUS
<1>2. last \in Wrong /\ Wrong \in SUBSET Nat
    <2> HIDE DEF Best
    <2> QED BY <1>1
<1>3. PICK n \in Wrong : \A m \in Wrong : n <= m
    <2> HIDE DEF Wrong
    <2> QED BY <1>2, NatLeast
<1>4. \A m \in 1 .. last : m < n => \E i \in 1 .. m : Best(i, m)
    <2> HIDE DEF Best
    <2> QED BY <1>3
<1>5. n \in 1 .. last /\ ~ \E i \in 1 .. n : Best(i, n)
    OBVIOUS
<1>6. n # 1
    <2>1. Best(1, 1)
        OBVIOUS
    <2> QED BY <1>5, <2>1
<1>7. n - 1 \in 1 .. last /\ n - 1 < n
    BY <1>5, <1>6
<1>8. PICK i \in 1 .. n - 1 : Best(i, n - 1)
    <2> HIDE DEF Best
    <2> QED BY <1>4, <1>7
<1>9. i \in 1 .. n /\ n \in 1 .. n /\ i < n
    BY <1>5
<1>10. \A j \in 1 .. n : f[j] \in Nat /\ (j \in 1 .. n - 1 \/ j = n)
    BY <1>5
<1>11. CASE f[n] < f[i]
    <2>1. Best(i, n)
        BY <1>8, <1>9, <1>10, <1>11
    <2> QED BY <1>5, <1>9, <2>1
<1>12. CASE f[i] <= f[n]
    <2>1. Best(n, n)
        BY <1>8, <1>9, <1>10, <1>12
    <2> QED BY <1>5, <1>9, <2>1
<1> QED BY <1>9, <1>10, <1>11, <1>12

(* A batch has a newest row, and max_by_key finds it: the last of them.    *)
LEMMA NewestExists ==
    ASSUME NEW s \in Seq(PendingWrites), s # <<>>
    PROVE  \E i \in DOMAIN s : IsMaxByKey(s, i)
<1> DEFINE f == [j \in 1 .. Len(s) |-> SlotOf[s[j].id]]
<1>1. /\ Len(s) \in Nat \ {0} /\ DOMAIN s = 1 .. Len(s)
      /\ \A j \in 1 .. Len(s) : s[j] \in PendingWrites
    OBVIOUS
<1>2. f \in [1 .. Len(s) -> Nat]
    BY <1>1, RowAssumption, SlotAssumption
<1>3. PICK i \in 1 .. Len(s) :
          /\ \A j \in 1 .. Len(s) : f[j] <= f[i]
          /\ \A j \in 1 .. Len(s) : f[j] = f[i] => j <= i
    <2> HIDE DEF f
    <2> QED BY <1>1, <1>2, LastLargest
<1> QED BY <1>1, <1>3 DEF IsMaxByKey

(* Some step is open to a task that is in its loop or in a flush, without  *)
(* a failure and without a new row: one of Recv, RecvNone, Tick, Begin,    *)
(* WriteEvents, WriteTrades, WriteCheckpoint, Commit, FlushOk, ParkBegins  *)
(* and Parked, whose guards these are.                                     *)
CanMove(w) ==
    \/ pc[w] \in {"begin", "events", "commit", "park", "insert"}
    \/ pc[w] = "select" /\ (queue[w] # <<>> \/ batch[w] # <<>> \/ ~open[w])
    \/ /\ pc[w] = "trades"
       /\ Traded(Range(batch[w])) \subseteq events \union tx[w].events
    \/ pc[w] = "checkpoint" /\ \E i \in DOMAIN batch[w] : IsMaxByKey(batch[w], i)
    \/ pc[w] = "ack" /\ tx[w].marks # {}

(* The stream is quiet, and all that came has been flushed.                *)
WaitsForRows(w) ==
    pc[w] = "select" /\ open[w] /\ queue[w] = <<>> /\ batch[w] = <<>>

(* A task that has not left its loop can go on, or waits for rows and has  *)
(* none: the foreign key never refuses the trades of a batch, and a batch  *)
(* always has a row for the checkpoint and the gauge.                      *)
THEOREM WriterNeverStandsStill ==
    Spec => [](\A w \in Writers :
                  pc[w] \in Over \/ WaitsForRows(w) \/ CanMove(w))
<1>1. ASSUME Inv1, Inv2
      PROVE  \A w \in Writers :
                pc[w] \in Over \/ WaitsForRows(w) \/ CanMove(w)
    <2> SUFFICES ASSUME NEW w \in Writers
                 PROVE  pc[w] \in Over \/ WaitsForRows(w) \/ CanMove(w)
        OBVIOUS
    <2>1. /\ pc[w] \in Places /\ open[w] \in BOOLEAN
          /\ batch[w] \in Seq(PendingWrites)
        BY <1>1 DEF Inv1, TypeOK
    <2>2. CASE pc[w] = "select"
        BY <2>2 DEF WaitsForRows, CanMove
    <2>3. CASE pc[w] = "trades"
        <3>1. tx[w].events = IdsOf(Range(batch[w]))
            BY <1>1, <2>3 DEF Inv2, TxInv
        <3>2. Range(batch[w]) \in SUBSET PendingWrites
            BY <2>1, RangeType
        <3>3. Traded(Range(batch[w])) \subseteq IdsOf(Range(batch[w]))
            BY <3>2, RowsTyped
        <3> QED BY <2>3, <3>1, <3>3 DEF CanMove
    <2>4. CASE pc[w] = "checkpoint"
        <3>1. batch[w] # <<>>
            BY <1>1, <2>4 DEF Inv1, LoopInv, Flushing
        <3>2. \E i \in DOMAIN batch[w] : IsMaxByKey(batch[w], i)
            BY <2>1, <3>1, NewestExists
        <3> QED BY <2>4, <3>2 DEF CanMove
    <2>5. CASE pc[w] = "ack"
        <3>1. Stores(tx[w], Range(batch[w]))
            BY <1>1, <2>5 DEF Inv2, TxInv
        <3>2. tx[w].marks # {}
            BY <3>1 DEF Stores
        <3> QED BY <2>5, <3>2 DEF CanMove
    <2>6. CASE pc[w] \in {"begin", "events", "commit", "park", "insert"} \union Over
        BY <2>6 DEF CanMove
    <2> QED BY <2>1, <2>2, <2>3, <2>4, <2>5, <2>6
           DEF Places, Flushing, Parking, Over
<1> QED BY <1>1, Inductive, PTL

(* What is left, the most significant first: the rows in the channel, the  *)
(* answer None that ends the loop, the rows of the batch, and the places   *)
(* of a flush.                                                             *)
Left(place) ==
    CASE place = "select" -> 9 [] place = "begin" -> 8 [] place = "events" -> 7
      [] place = "trades" -> 6 [] place = "checkpoint" -> 5
      [] place = "commit" -> 4 [] place = "ack" -> 3 [] place = "park" -> 2
      [] place = "insert" -> 1 [] OTHER -> 0

FlushNearer(w) ==
    \/ Len(batch'[w]) < Len(batch[w])
    \/ batch'[w] = batch[w] /\ Left(pc'[w]) < Left(pc[w])

Nearer(w) ==
    \/ Len(queue'[w]) < Len(queue[w])
    \/ /\ queue'[w] = queue[w]
       /\ \/ ~breaking[w] /\ breaking'[w]
          \/ breaking'[w] = breaking[w] /\ FlushNearer(w)

Moves(w) ==
    \/ open'[w] # open[w] \/ queue'[w] # queue[w] \/ batch'[w] # batch[w]
    \/ pc'[w] # pc[w] \/ breaking'[w] # breaking[w] \/ tx'[w] # tx[w]

Closing ==
    \A w \in Writers :
        ~open[w] /\ pc[w] \notin Over /\ Moves(w) =>
            ~open'[w] /\ (pc'[w] \in Over \/ Nearer(w))

FlushProceeds ==
    \A w \in Writers :
        /\ pc[w] \in Flushing \union Parking
        /\ pc'[w] # pc[w] \/ batch'[w] # batch[w]
        => pc'[w] = "down" \/ FlushNearer(w)

(* What one task does, or the handles of its process, leaves the others.   *)
Task(w) ==
    \/ Spawn(w) \/ CloseSenders(w) \/ Crash(w)
    \/ \E row \in PendingWrites : Send(w, row)
    \/ Loop(w) \/ Flush(w)

LEMMA OthersStay ==
    ASSUME TypeOK, NEW w \in Writers, NEW v \in Writers, v # w, Task(w)
    PROVE  ~Moves(v)
<1> USE DEF TypeOK, Moves
<1>1. CASE Spawn(w) \/ CloseSenders(w) \/ Crash(w)
    BY <1>1 DEF Spawn, CloseSenders, Crash
<1>2. CASE \E row \in PendingWrites : Send(w, row)
    BY <1>2 DEF Send
<1>3. CASE Loop(w)
    BY <1>3 DEF Loop, Recv, RecvNone, Tick
<1>4. CASE Begin(w) \/ WriteEvents(w) \/ WriteTrades(w) \/ Commit(w)
    BY <1>4 DEF Begin, WriteEvents, WriteTrades, Commit
<1>5. CASE WriteCheckpoint(w)
    BY <1>5 DEF WriteCheckpoint
<1>6. CASE FlushOk(w) \/ FlushFails(w) \/ ParkBegins(w)
    BY <1>6 DEF FlushOk, FlushFails, ParkBegins, Return
<1>7. CASE Parked(w) \/ ParkFails(w)
    BY <1>7 DEF Parked, ParkFails, Return
<1> QED BY <1>1, <1>2, <1>3, <1>4, <1>5, <1>6, <1>7 DEF Task, Flush

(* A step of a flush ends it or leaves less of it.                         *)
LEMMA FlushStep ==
    ASSUME Inv1, NEW w \in Writers, Flush(w)
    PROVE  /\ FlushNearer(w)
           /\ UNCHANGED <<open[w], queue[w], breaking[w]>>
<1>1. UNCHANGED <<open, queue, breaking>>
    BY DEF Flush, Begin, WriteEvents, WriteTrades, WriteCheckpoint, Commit,
        FlushOk, FlushFails, ParkBegins, Parked, ParkFails
<1>2. pc \in [Writers -> Places] /\ batch \in [Writers -> Seq(PendingWrites)]
    BY DEF Inv1, TypeOK
<1>3. CASE Begin(w) \/ WriteEvents(w) \/ WriteTrades(w) \/ Commit(w)
    BY <1>2, <1>3 DEF Begin, WriteEvents, WriteTrades, Commit, FlushNearer, Left
<1>4. CASE WriteCheckpoint(w) \/ ParkBegins(w)
    BY <1>2, <1>4 DEF WriteCheckpoint, ParkBegins, FlushNearer, Left
<1>5. CASE FlushFails(w)
    BY <1>2, <1>5 DEF FlushFails, Flushing, FlushNearer, Left
<1>6. CASE FlushOk(w) \/ Parked(w) \/ ParkFails(w)
    <2>1. Return(w) /\ pc[w] \in Flushing \union Parking
        BY <1>6 DEF FlushOk, Parked, ParkFails, Flushing, Parking
    <2>2. batch'[w] = <<>> /\ batch[w] # <<>> /\ batch[w] \in Seq(PendingWrites)
        BY <1>2, <2>1 DEF Return, Inv1, LoopInv
    <2>3. Len(batch'[w]) < Len(batch[w])
        BY <2>2
    <2> QED BY <1>1, <2>3 DEF FlushNearer
<1> QED BY <1>1, <1>3, <1>4, <1>5, <1>6 DEF Flush

(* A step of a task that is to end ends it or leaves less to do.           *)
LEMMA ClosingStep ==
    ASSUME Inv1, NEW w \in Writers, ~open[w], pc[w] \notin Over, Task(w)
    PROVE  ~open'[w] /\ (pc'[w] \in Over \/ Nearer(w))
<1>1. /\ open \in [Writers -> BOOLEAN] /\ pc \in [Writers -> Places]
      /\ queue \in [Writers -> Seq(PendingWrites)]
      /\ breaking \in [Writers -> BOOLEAN]
    BY DEF Inv1, TypeOK
<1>2. ~Spawn(w) /\ ~CloseSenders(w) /\ ~(\E row \in PendingWrites : Send(w, row))
    BY DEF Spawn, CloseSenders, Send
<1>3. CASE Crash(w)
    BY <1>1, <1>3 DEF Crash, Over
<1>4. CASE Recv(w)
    BY <1>1, <1>4 DEF Recv, Nearer
<1>5. CASE RecvNone(w)
    <2>1. ~breaking[w]
        BY <1>5 DEF RecvNone, Inv1, LoopInv
    <2> QED BY <1>1, <1>5, <2>1 DEF RecvNone, Nearer
<1>6. CASE Tick(w)
    BY <1>1, <1>6 DEF Tick, Nearer, FlushNearer, Left
<1>7. CASE Flush(w)
    BY <1>7, FlushStep DEF Nearer
<1> QED BY <1>2, <1>3, <1>4, <1>5, <1>6, <1>7 DEF Task, Loop

(* Once the last handle of a writer is dropped, each step of its task ends *)
(* it or leaves less to do: no row comes any more, rows go from the channel*)
(* to the batch, the loop breaks once, and a flush goes one way.           *)
THEOREM ClosingApproachesItsEnd == Spec => [][Closing]_vars
<1>1. ASSUME Inv1, [Next]_vars
      PROVE  [Closing]_vars
    <2> SUFFICES ASSUME NEW w \in Writers, ~open[w], pc[w] \notin Over,
                        Moves(w), Next
                 PROVE  ~open'[w] /\ (pc'[w] \in Over \/ Nearer(w))
        BY <1>1 DEF Closing
    <2>1. ASSUME NEW t \in orphans, OrphanCommits(t) \/ OrphanAborts(t)
          PROVE  FALSE
        BY <2>1 DEF OrphanCommits, OrphanAborts, memory, Moves
    <2>2. PICK v \in Writers : Task(v)
        BY <2>1 DEF Next, Task
    <2>3. v = w
        BY <1>1, <2>2, OthersStay DEF Inv1
    <2> QED BY <1>1, <2>2, <2>3, ClosingStep
<1> QED BY <1>1, Inductive, PTL DEF Spec

(* A flush that has begun goes one way, to an empty batch, whatever fails  *)
(* in it and however many rows arrive meanwhile: a kill alone interrupts   *)
(* it.                                                                     *)
THEOREM FlushApproachesItsEnd == Spec => [][FlushProceeds]_vars
<1>1. ASSUME Inv1, [Next]_vars
      PROVE  [FlushProceeds]_vars
    <2> SUFFICES ASSUME NEW w \in Writers, pc[w] \in Flushing \union Parking,
                        pc'[w] # pc[w] \/ batch'[w] # batch[w], Next
                 PROVE  pc'[w] = "down" \/ FlushNearer(w)
        BY <1>1 DEF FlushProceeds
    <2>1. ASSUME NEW t \in orphans, OrphanCommits(t) \/ OrphanAborts(t)
          PROVE  FALSE
        BY <2>1 DEF OrphanCommits, OrphanAborts, memory
    <2>2. PICK v \in Writers : Task(v)
        BY <2>1 DEF Next, Task
    <2>3. v = w
        BY <1>1, <2>2, OthersStay DEF Inv1, Moves
    <2>4. ~Spawn(w) /\ ~CloseSenders(w) /\ ~Loop(w)
          /\ ~(\E row \in PendingWrites : Send(w, row))
        BY DEF Spawn, CloseSenders, Send, Loop, Recv, RecvNone, Tick,
            Flushing, Parking, Over
    <2>5. CASE Crash(w)
        BY <1>1, <2>5 DEF Crash, Inv1, TypeOK
    <2>6. CASE Flush(w)
        BY <1>1, <2>6, FlushStep
    <2> QED BY <2>2, <2>3, <2>4, <2>5, <2>6 DEF Task
<1> QED BY <1>1, Inductive, PTL DEF Spec
=============================================================================
