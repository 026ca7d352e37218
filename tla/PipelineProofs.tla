--------------------------- MODULE PipelineProofs ---------------------------
(***************************************************************************)
(* Theorems about module Pipeline behind any data source, about module     *)
(* Live, which puts the Yellowstone client there, and about module Bench,  *)
(* which puts a paced replay there: for any updates, files and signatures, *)
(* any number of passes, and channels and batches of any size.             *)
(***************************************************************************)
EXTENDS Live, Bench, FiniteSetTheorems, SequenceTheorems, TLAPS

(* A channel of S holds members of S.                                      *)
LEMMA RangeType ==
    ASSUME NEW S, NEW s \in Seq(S)
    PROVE  Range(s) \in SUBSET S
BY RangeOfSeq

(* An empty channel holds nothing.                                         *)
LEMMA RangeEmpty == Range(<<>>) = {}
BY DEF Range

(* A push adds the pushed item.                                            *)
LEMMA RangeAppend ==
    ASSUME NEW S, NEW s \in Seq(S), NEW e \in S
    PROVE  Range(Append(s, e)) = Range(s) \union {e}
<1> DEFINE t == Append(s, e)
<1>1. /\ DOMAIN t = DOMAIN s \union {Len(s) + 1}
      /\ \A i \in DOMAIN s : t[i] = s[i]
      /\ t[Len(s) + 1] = e
    OBVIOUS
<1> HIDE DEF t
<1> QED BY <1>1 DEF Range

(* Taking the head of a channel leaves its other items.                    *)
LEMMA RangeTail ==
    ASSUME NEW S, NEW s \in Seq(S), s # <<>>
    PROVE  /\ Head(s) \in S
           /\ Tail(s) \in Seq(S)
           /\ Range(s) = Range(Tail(s)) \union {Head(s)}
<1> DEFINE t == Tail(s)
<1>1. Head(s) \in S /\ t \in Seq(S)
    OBVIOUS
<1>2. /\ 1 \in DOMAIN s /\ s[1] = Head(s)
      /\ \A i \in DOMAIN t : i + 1 \in DOMAIN s /\ s[i + 1] = t[i]
      /\ \A i \in DOMAIN s : i # 1 => i - 1 \in DOMAIN t /\ t[i - 1] = s[i]
    OBVIOUS
<1> HIDE DEF t
<1>3. Range(s) \subseteq Range(t) \union {Head(s)}
    BY <1>2 DEF Range
<1>4. Range(t) \union {Head(s)} \subseteq Range(s)
    BY <1>2 DEF Range
<1> QED BY <1>1, <1>3, <1>4 DEF t

(* The row of a trade is a row of its update, and of no other.             *)
LEMMA TradeRowFacts ==
    ASSUME NEW u \in Updates, NEW r \in TradeRows(u)
    PROVE  r \in Rows /\ r[1] = u /\ Instruction(r).kind = "trade"
BY DEF TradeRows, Rows, RowsOf

(* What Receive takes up: every row of the update.                         *)
LEMMA InOrderFacts ==
    ASSUME NEW u \in Updates
    PROVE  InOrder(u) \in Seq(Rows) /\ Range(InOrder(u)) = RowsOf(u)
<1>1. Body[u] \in Seq([kind : Kinds, id : Ids])
    BY BodyAssumption
<1>2. Len(Body[u]) \in Nat /\ DOMAIN Body[u] = 1 .. Len(Body[u])
    BY <1>1
<1>3. \A k \in DOMAIN Body[u] : <<u, k>> \in Rows
    BY DEF Rows, RowsOf
<1>4. InOrder(u) \in Seq(Rows)
    BY <1>2, <1>3 DEF InOrder
<1>5. Range(InOrder(u)) = RowsOf(u)
    BY DEF InOrder, RowsOf, Range
<1> QED BY <1>4, <1>5

(* An item of a sequence.                                                  *)
LEMMA ItemType ==
    ASSUME NEW S, NEW s \in Seq(S), NEW k \in DOMAIN s
    PROVE  s[k] \in S
OBVIOUS

(* The instruction of a row.                                               *)
LEMMA RowType ==
    ASSUME NEW r \in Rows
    PROVE  Instruction(r) \in [kind : Kinds, id : Ids]
<1>1. PICK u \in Updates : r \in RowsOf(u)
    BY DEF Rows
<1>2. PICK k \in DOMAIN Body[u] : r = <<u, k>>
    BY <1>1 DEF RowsOf
<1>3. Body[u] \in Seq([kind : Kinds, id : Ids])
    BY BodyAssumption
<1>4. Body[u][k] \in [kind : Kinds, id : Ids]
    BY <1>3, ItemType
<1>5. r[1] = u /\ r[2] = k
    BY <1>2
<1> QED BY <1>4, <1>5 DEF Instruction

LEMMA IdentitiesType ==
    ASSUME NEW S \in SUBSET Rows
    PROVE  Identities(S) \in SUBSET Ids
BY RowType DEF Identities

----------------------------------------------------------------------------
(* One step of the pipeline, with an update or the end of whatever source  *)
(* there is.                                                               *)
PipelineStep ==
    \/ PipelineNext
    \/ SourceEnds
    \/ \E u \in Updates : Offer(u)

LEMMA TypeInit == PipelineInit => PipelineTypeOK
<1>1. /\ <<>> \in Seq(Updates) /\ <<>> \in Seq(Rows)
      /\ Len(<<>>) = 0 /\ 0 <= ChannelCap /\ 0 <= WriteCap
    BY CapAssumption
<1> QED BY <1>1 DEF PipelineInit, PipelineTypeOK, Stages

LEMMA TypeSource ==
    ASSUME PipelineTypeOK, SourceEnds \/ \E u \in Updates : Offer(u)
    PROVE  PipelineTypeOK'
<1>1. ASSUME NEW u \in Updates, Offer(u)
      PROVE  PipelineTypeOK'
    <2>1. updates' \in Seq(Updates) /\ Len(updates') <= ChannelCap
              /\ taken' \in Seq(Updates)
        BY <1>1, CapAssumption DEF Offer, PipelineTypeOK
    <2>2. /\ UNCHANGED <<receiving, ended, cancelled, stage, hand, decoded>>
          /\ UNCHANGED writerVars
        BY <1>1 DEF Offer
    <2> QED BY <2>1, <2>2 DEF PipelineTypeOK, writerVars
<1>2. CASE SourceEnds
    BY <1>2 DEF SourceEnds, PipelineTypeOK, writerVars
<1> QED BY <1>1, <1>2

LEMMA TypeProcessor ==
    ASSUME PipelineTypeOK, Processor
    PROVE  PipelineTypeOK'
<1> USE DEF PipelineTypeOK, writerVars, Stages
<1>1. CASE Receive
    <2>1. Head(updates) \in Updates /\ Tail(updates) \in Seq(Updates)
              /\ Len(Tail(updates)) <= ChannelCap
        BY <1>1, CapAssumption DEF Receive
    <2> QED BY <1>1, <2>1, InOrderFacts DEF Receive
<1>2. CASE Skip
    BY <1>2 DEF Skip
<1>3. CASE Decode
    <2>1. Head(hand) \in Rows
        BY <1>3 DEF Decode
    <2> QED BY <1>3, <2>1 DEF Decode
<1>4. CASE Send
    <2>1. /\ Head(hand) \in Rows /\ Tail(hand) \in Seq(Rows)
          /\ Len(writes') <= WriteCap /\ writes' \in Seq(Rows)
        BY <1>4, CapAssumption DEF Send
    <2> QED BY <1>4, <2>1 DEF Send
<1>5. CASE SavePool
    BY <1>5 DEF SavePool
<1>6. CASE PoolSaved
    BY <1>6 DEF PoolSaved
<1> QED BY <1>1, <1>2, <1>3, <1>4, <1>5, <1>6 DEF Processor

LEMMA TypeWriter ==
    ASSUME PipelineTypeOK, WriterTask
    PROVE  PipelineTypeOK'
<1> USE DEF PipelineTypeOK, carbonVars
<1>1. CASE WriterTakes
    <2>1. /\ Head(writes) \in Rows /\ Tail(writes) \in Seq(Rows)
          /\ Len(Tail(writes)) <= WriteCap
        BY <1>1, CapAssumption DEF WriterTakes
    <2> QED BY <1>1, <2>1 DEF WriterTakes
<1>2. CASE FlushOk
    BY <1>2, IdentitiesType DEF FlushOk
<1>3. CASE FlushFails
    BY <1>3, IdentitiesType DEF FlushFails
<1>4. CASE WriterStops
    BY <1>4 DEF WriterStops
<1> QED BY <1>1, <1>2, <1>3, <1>4 DEF WriterTask

LEMMA TypeEnd ==
    ASSUME PipelineTypeOK, Interrupt \/ Ending \/ RunFails
    PROVE  PipelineTypeOK'
<1> USE DEF PipelineTypeOK, writerVars, Stages
<1>1. <<>> \in Seq(Updates) /\ Len(<<>>) = 0 /\ 0 <= ChannelCap
    BY CapAssumption
<1>2. CASE Interrupt
    BY <1>2 DEF Interrupt
<1>3. CASE Close
    BY <1>3 DEF Close
<1>4. CASE Return
    BY <1>4 DEF Return
<1>5. CASE RunFails
    BY <1>1, <1>5 DEF RunFails
<1> QED BY <1>2, <1>3, <1>4, <1>5 DEF Ending

LEMMA TypeStep ==
    PipelineTypeOK /\ [PipelineStep]_pipelineVars => PipelineTypeOK'
<1> SUFFICES ASSUME PipelineTypeOK, [PipelineStep]_pipelineVars
             PROVE  PipelineTypeOK'
    OBVIOUS
<1>1. CASE UNCHANGED pipelineVars
    BY <1>1 DEF pipelineVars, carbonVars, writerVars, PipelineTypeOK
<1> QED BY <1>1, TypeSource, TypeProcessor, TypeWriter, TypeEnd
        DEF PipelineStep, PipelineNext

----------------------------------------------------------------------------
(* Where the parts are in the stages of a run and of its end.              *)
StageInv ==
    /\ stage = "saving" => Instruction(Head(hand)).kind = "create"
    /\ ~handles => stage \in {"closing", "returned", "error"}
    /\ stage \in {"closing", "returned"} =>
          updates = <<>> /\ hand = <<>> /\ ~receiving
    /\ writer = "over" => ~handles /\ writes = <<>> /\ batch = {}
    /\ stage = "returned" => writer = "over"

LEMMA StageInit == PipelineInit => StageInv
BY DEF PipelineInit, StageInv

LEMMA StageStep ==
    PipelineTypeOK /\ StageInv /\ [PipelineStep]_pipelineVars => StageInv'
<1> SUFFICES ASSUME PipelineTypeOK, StageInv, [PipelineStep]_pipelineVars
             PROVE  StageInv'
    OBVIOUS
<1> USE DEF StageInv
<1>1. CASE UNCHANGED pipelineVars
    BY <1>1 DEF pipelineVars, carbonVars, writerVars
<1>2. ASSUME NEW u \in Updates, Offer(u)
      PROVE  StageInv'
    BY <1>2 DEF Offer, writerVars
<1>3. CASE SourceEnds
    BY <1>3 DEF SourceEnds, writerVars
<1>4. CASE Interrupt \/ Receive \/ Skip \/ Decode \/ SavePool \/ PoolSaved
    BY <1>4 DEF Interrupt, Receive, Skip, Decode, SavePool, PoolSaved,
                writerVars
<1>5. CASE Send
    BY <1>5 DEF Send
<1>6. CASE WriterTask
    BY <1>6 DEF WriterTask, WriterTakes, FlushOk, FlushFails, WriterStops,
                carbonVars
<1>7. CASE Ending \/ RunFails
    BY <1>7 DEF Ending, Close, Return, RunFails, writerVars
<1> QED BY <1>1, <1>2, <1>3, <1>4, <1>5, <1>6, <1>7
        DEF PipelineStep, PipelineNext, Processor

----------------------------------------------------------------------------
(* A row that waits behind Carbon's channel, or is settled, does so after  *)
(* any step, unless pipeline.run fails.                                    *)
Kept(r) == Waiting(r) \/ Settled(r) \/ stage = "error"

LEMMA ProcessorKeeps ==
    ASSUME PipelineTypeOK, StageInv, Processor,
           NEW u \in Updates, NEW r \in TradeRows(u), Kept(r)
    PROVE  Kept(r)'
<1>0. r \in Rows /\ r[1] = u /\ Instruction(r).kind = "trade"
    BY TradeRowFacts
<1>1. hand \in Seq(Rows) /\ updates \in Seq(Updates) /\ writes \in Seq(Rows)
    BY DEF PipelineTypeOK
<1>2. UNCHANGED <<batch, events, flushed, failed>>
    BY DEF Processor, Receive, Skip, Decode, Send, SavePool, PoolSaved,
           writerVars
<1>3. CASE Receive
    <2>1. Head(updates) \in Updates
              /\ Range(updates) = Range(updates') \union {Head(updates)}
        BY <1>1, <1>3, RangeTail DEF Receive
    <2>2. Range(hand') = RowsOf(Head(updates)) /\ Range(hand) = {}
        BY <1>3, <2>1, InOrderFacts, RangeEmpty DEF Receive
    <2>3. r[1] \in Range(updates) =>
              r[1] \in Range(updates') \/ r \in Range(hand')
        BY <1>0, <2>1, <2>2 DEF TradeRows
    <2> QED BY <1>2, <1>3, <2>2, <2>3
            DEF Receive, Kept, Waiting, Settled, writerVars
<1>4. CASE Skip \/ PoolSaved
    <2>1. hand # <<>> /\ hand' = Tail(hand)
        BY <1>4 DEF Skip, PoolSaved, PipelineTypeOK
    <2>2. Range(hand) = Range(hand') \union {Head(hand)}
        BY <1>1, <2>1, RangeTail
    <2>3. Head(hand) # r
        BY <1>0, <1>4 DEF Skip, PoolSaved, StageInv
    <2> QED BY <1>2, <1>4, <2>2, <2>3
            DEF Skip, PoolSaved, Kept, Waiting, Settled, writerVars
<1>5. CASE Send
    <2>1. hand # <<>>
        BY <1>5 DEF Send, PipelineTypeOK
    <2>2. Head(hand) \in Rows /\ Range(hand) = Range(hand') \union {Head(hand)}
        BY <1>1, <1>5, <2>1, RangeTail DEF Send
    <2>3. Range(writes') = Range(writes) \union {Head(hand)}
        BY <1>1, <1>5, <2>2, RangeAppend DEF Send
    <2> QED BY <1>2, <1>5, <2>2, <2>3 DEF Send, Kept, Waiting, Settled
<1>6. CASE Decode \/ SavePool
    BY <1>2, <1>6 DEF Decode, SavePool, Kept, Waiting, Settled, writerVars
<1> QED BY <1>3, <1>4, <1>5, <1>6 DEF Processor

LEMMA WriterKeeps ==
    ASSUME PipelineTypeOK, WriterTask,
           NEW u \in Updates, NEW r \in TradeRows(u), Kept(r)
    PROVE  Kept(r)'
<1>1. UNCHANGED <<updates, hand, stage>>
    BY DEF WriterTask, WriterTakes, FlushOk, FlushFails, WriterStops,
           carbonVars
<1>2. CASE WriterTakes
    <2>1. Range(writes) = Range(writes') \union {Head(writes)}
        BY <1>2, RangeTail DEF WriterTakes, PipelineTypeOK
    <2> QED BY <1>1, <1>2, <2>1 DEF WriterTakes, Kept, Waiting, Settled
<1>3. CASE FlushOk
    BY <1>1, <1>3 DEF FlushOk, Kept, Waiting, Settled, Identities
<1>4. CASE FlushFails
    BY <1>1, <1>4 DEF FlushFails, Kept, Waiting, Settled
<1>5. CASE WriterStops
    BY <1>1, <1>5 DEF WriterStops, Kept, Waiting, Settled
<1> QED BY <1>2, <1>3, <1>4, <1>5 DEF WriterTask

LEMMA RestKeeps ==
    ASSUME PipelineTypeOK,
           \/ \E v \in Updates : Offer(v)
           \/ SourceEnds \/ Interrupt \/ Ending \/ RunFails
           \/ UNCHANGED pipelineVars,
           NEW u \in Updates, NEW r \in TradeRows(u), Kept(r)
    PROVE  Kept(r)'
<1>1. ASSUME NEW v \in Updates, Offer(v)
      PROVE  Kept(r)'
    <2>1. Range(updates') = Range(updates) \union {v}
        BY <1>1, RangeAppend DEF Offer, PipelineTypeOK
    <2> QED BY <1>1, <2>1 DEF Offer, Kept, Waiting, Settled, writerVars
<1>2. CASE SourceEnds \/ Interrupt \/ Ending
    BY <1>2 DEF SourceEnds, Interrupt, Ending, Close, Return, Kept, Waiting,
                Settled, writerVars
<1>3. CASE RunFails
    BY <1>3 DEF RunFails, Kept
<1>4. CASE UNCHANGED pipelineVars
    BY <1>4 DEF Kept, Waiting, Settled, pipelineVars, carbonVars, writerVars
<1> QED BY <1>1, <1>2, <1>3, <1>4

LEMMA StepKeeps ==
    ASSUME PipelineTypeOK, StageInv, [PipelineStep]_pipelineVars,
           NEW u \in Updates, NEW r \in TradeRows(u), Kept(r)
    PROVE  Kept(r)'
BY ProcessorKeeps, WriterKeeps, RestKeeps DEF PipelineStep, PipelineNext

(* Only a send into Carbon's channel makes an update a taken one.          *)
LEMMA TakenStep ==
    ASSUME PipelineTypeOK, [PipelineStep]_pipelineVars,
           NEW u \in Range(taken')
    PROVE  u \in Updates /\ (u \in Range(taken) \/ u \in Range(updates'))
<1>1. taken \in Seq(Updates) /\ updates \in Seq(Updates)
    BY DEF PipelineTypeOK
<1>2. ASSUME NEW v \in Updates, Offer(v)
      PROVE  u \in Updates /\ (u \in Range(taken) \/ u \in Range(updates'))
    <2>1. Range(taken') = Range(taken) \union {v}
              /\ Range(updates') = Range(updates) \union {v}
        BY <1>1, <1>2, RangeAppend DEF Offer
    <2> QED BY <1>1, <2>1, RangeType
<1>3. ASSUME taken' = taken
      PROVE  u \in Updates /\ u \in Range(taken)
    BY <1>1, <1>3, RangeType
<1>4. (\E v \in Updates : Offer(v)) \/ taken' = taken
    BY DEF PipelineStep, pipelineVars, carbonVars, SourceEnds, PipelineNext,
           Interrupt, Processor, Receive, Skip, Decode, Send, SavePool,
           PoolSaved, WriterTask, WriterTakes, FlushOk, FlushFails,
           WriterStops, Ending, Close, Return, RunFails
<1> QED BY <1>2, <1>3, <1>4

PipelineInv == PipelineTypeOK /\ StageInv /\ EventsAccounted

LEMMA PipelineInvInit == PipelineInit => PipelineInv
<1>1. ASSUME PipelineInit
      PROVE  EventsAccounted
    BY <1>1, RangeEmpty DEF PipelineInit, EventsAccounted
<1> QED BY <1>1, TypeInit, StageInit DEF PipelineInv

LEMMA PipelineInvStep ==
    PipelineInv /\ [PipelineStep]_pipelineVars => PipelineInv'
<1> SUFFICES ASSUME PipelineInv, [PipelineStep]_pipelineVars
             PROVE  EventsAccounted'
    BY TypeStep, StageStep DEF PipelineInv
<1> SUFFICES ASSUME NEW u \in Range(taken'), NEW r \in TradeRows(u)
             PROVE  Kept(r)'
    BY DEF EventsAccounted, Kept
<1>1. u \in Updates /\ (u \in Range(taken) \/ u \in Range(updates'))
    BY TakenStep DEF PipelineInv
<1>2. CASE u \in Range(taken)
    <2>1. Kept(r)
        BY <1>2 DEF PipelineInv, EventsAccounted, Kept
    <2> QED BY <1>1, <2>1, StepKeeps DEF PipelineInv
<1>3. CASE u \in Range(updates')
    BY <1>1, <1>3, TradeRowFacts DEF Kept, Waiting
<1> QED BY <1>1, <1>2, <1>3

(* A run that has returned holds nothing any more, so what it took is      *)
(* settled.                                                                *)
LEMMA ReturnedSettled == PipelineInv => StopLosesNothing
BY RangeEmpty
   DEF PipelineInv, StageInv, EventsAccounted, StopLosesNothing, Waiting

----------------------------------------------------------------------------
(* Why a run ends: each step brings it nearer to its end, and it is never  *)
(* where it could not go on.  TakenSettles, InterruptEnds and BenchEnds    *)
(* add the fairness that such a step is taken.                             *)

StageLeft(s) ==
    CASE s = "run" -> 3 [] s \in {"saving", "sending"} -> 2
      [] s = "closing" -> 1 [] OTHER -> 0

(* What is left of a run whose source offers nothing more, from Carbon's   *)
(* channel to the table, and the one Ctrl+C.                               *)
PipelineNearer ==
    \/ Len(updates') < Len(updates)
    \/ /\ updates' = updates
       /\ \/ Len(hand') < Len(hand)
          \/ /\ hand' = hand
             /\ \/ StageLeft(stage') < StageLeft(stage)
                \/ /\ stage' = stage
                   /\ \/ Len(writes') < Len(writes)
                      \/ /\ writes' = writes
                         /\ \/ batch # {} /\ batch' = {}
                            \/ /\ batch' = batch
                               /\ \/ writer = "running" /\ writer' = "over"
                                  \/ /\ writer' = writer
                                     /\ ~cancelled /\ cancelled'

LEMMA PipelineApproaches == PipelineTypeOK /\ PipelineNext => PipelineNearer
<1> SUFFICES ASSUME PipelineTypeOK, PipelineNext
             PROVE  PipelineNearer
    OBVIOUS
<1> USE DEF PipelineNearer, StageLeft, PipelineTypeOK, carbonVars, writerVars
<1>1. CASE Interrupt
    BY <1>1 DEF Interrupt
<1>2. CASE Receive
    BY <1>2 DEF Receive
<1>3. CASE Skip \/ Send \/ PoolSaved
    <2>1. hand # <<>> /\ hand' = Tail(hand) /\ updates' = updates
        BY <1>3 DEF Skip, Send, PoolSaved
    <2> QED BY <2>1
<1>4. CASE Decode \/ SavePool
    BY <1>4 DEF Decode, SavePool
<1>5. CASE WriterTakes
    BY <1>5 DEF WriterTakes
<1>6. CASE FlushOk \/ FlushFails
    BY <1>6 DEF FlushOk, FlushFails
<1>7. CASE WriterStops
    BY <1>7 DEF WriterStops
<1>8. CASE Ending
    BY <1>8 DEF Ending, Close, Return
<1>9. CASE RunFails
    <2>1. updates = <<>> \/ Len(updates) > 0
        OBVIOUS
    <2>2. Len(<<>>) = 0
        OBVIOUS
    <2> QED BY <1>9, <2>1, <2>2 DEF RunFails
<1> QED BY <1>1, <1>2, <1>3, <1>4, <1>5, <1>6, <1>7, <1>8, <1>9
       DEF PipelineNext, Processor, WriterTask

LEMMA InsideEnds == PipelineNext => ended' = ended
BY DEF PipelineNext, Interrupt, Processor, Receive, Skip, Decode, Send,
       SavePool, PoolSaved, WriterTask, WriterTakes, FlushOk, FlushFails,
       WriterStops, Ending, Close, Return, RunFails, carbonVars

(* Some step is open, without the operator and a failing pipeline.run: one *)
(* of the processors, of the writer task or of the end, whose guards these *)
(* are.                                                                    *)
PipelineCanMove ==
    \/ stage = "run" /\ (hand # <<>> \/ updates # <<>> \/ ended)
    \/ stage = "saving"
    \/ stage = "sending" /\ Len(writes) < WriteCap
    \/ stage = "closing" /\ writer = "over"
    \/ batch # {}
    \/ writes # <<>> /\ Cardinality(batch) < BatchCap
    \/ writer = "running" /\ ~handles /\ writes = <<>> /\ batch = {}

(* Carbon waits for the data source.                                       *)
Awaits == stage = "run" /\ hand = <<>> /\ updates = <<>> /\ ~ended

(* The handle is gone by the time the writer is awaited, and the receiver  *)
(* with a pipeline.run that fails.                                         *)
HandleInv ==
    /\ stage = "closing" => ~handles
    /\ stage = "error" => ~receiving

LEMMA HandleStep == HandleInv /\ [PipelineStep]_pipelineVars => HandleInv'
<1> SUFFICES ASSUME HandleInv, [PipelineStep]_pipelineVars
             PROVE  HandleInv'
    OBVIOUS
<1> USE DEF HandleInv, pipelineVars, carbonVars, writerVars
<1>1. CASE Ending \/ RunFails
    BY <1>1 DEF Ending, Close, Return, RunFails
<1>2. CASE Processor
    BY <1>2 DEF Processor, Receive, Skip, Decode, Send, SavePool, PoolSaved
<1>3. CASE WriterTask \/ Interrupt
    BY <1>3 DEF WriterTask, WriterTakes, FlushOk, FlushFails, WriterStops,
                Interrupt
<1>4. CASE SourceEnds \/ (\E u \in Updates : Offer(u)) \/ UNCHANGED pipelineVars
    BY <1>4 DEF SourceEnds, Offer
<1> QED BY <1>1, <1>2, <1>3, <1>4 DEF PipelineStep, PipelineNext

(* Nothing in the chain of waits waits for itself: a full channel of the   *)
(* writer has a task that takes or flushes behind it.                      *)
LEMMA PipelineMoves ==
    ASSUME PipelineTypeOK, StageInv, HandleInv
    PROVE  stage \in {"returned", "error"} \/ Awaits \/ PipelineCanMove
<1>1. batch = {} => Cardinality(batch) < BatchCap
    BY FS_EmptySet, CapAssumption
<1>2. CASE stage = "sending" /\ ~(Len(writes) < WriteCap)
    <2>1. writes # <<>>
        BY <1>2, CapAssumption
    <2> QED BY <1>1, <2>1 DEF PipelineCanMove
<1>3. CASE stage = "closing" /\ writer # "over"
    BY <1>1, <1>3 DEF PipelineCanMove, HandleInv, PipelineTypeOK
<1>4. CASE stage \in {"run", "saving"}
    BY <1>4 DEF Awaits, PipelineCanMove
<1> QED BY <1>2, <1>3, <1>4 DEF PipelineTypeOK, Stages, PipelineCanMove

----------------------------------------------------------------------------
(* The live command.                                                       *)

LEMMA LiveStep == [LiveNext]_liveVars => [PipelineStep]_pipelineVars
<1>1. ASSUME NEW u \in Updates, Arrive(u) \/ Discard(u)
      PROVE  [PipelineStep]_pipelineVars
    BY <1>1 DEF Arrive, Discard, PipelineStep
<1> QED BY <1>1 DEF LiveNext, ClientStops, LiveInside, LiveOver, PipelineStep,
                    liveVars

LiveInv == LiveTypeOK /\ PipelineInv

LEMMA LiveInvInit == LiveInit => LiveInv
BY PipelineInvInit DEF LiveInit, LiveInv, LiveTypeOK, PipelineInv

LEMMA LiveInvStep == LiveInv /\ [LiveNext]_liveVars => LiveInv'
<1> SUFFICES ASSUME LiveInv, [LiveNext]_liveVars
             PROVE  PipelineInv' /\ (coming \in SUBSET Updates
                                        /\ discarded \in SUBSET Updates)'
    BY DEF LiveInv, LiveTypeOK, PipelineInv
<1>1. PipelineInv'
    BY LiveStep, PipelineInvStep DEF LiveInv
<1>2. (coming \in SUBSET Updates /\ discarded \in SUBSET Updates)'
    BY DEF LiveInv, LiveTypeOK, LiveNext, Arrive, Discard, ClientStops,
           LiveInside, LiveOver, liveVars
<1> QED BY <1>1, <1>2

LEMMA AlwaysLiveInv == LiveSpec => []LiveInv
BY LiveInvInit, LiveInvStep, PTL DEF LiveSpec

(* Every variable keeps its type, and each channel its bound.              *)
THEOREM TypeCorrect == LiveSpec => []LiveTypeOK
<1>1. LiveInv => LiveTypeOK
    BY DEF LiveInv
<1> QED BY <1>1, AlwaysLiveInv, PTL

(* What Carbon's channel took is in the program, stored, or given up.      *)
THEOREM Accounted == LiveSpec => []EventsAccounted
<1>1. LiveInv => EventsAccounted
    BY DEF LiveInv, PipelineInv
<1> QED BY <1>1, AlwaysLiveInv, PTL

(* A run that has returned has settled what it took.                       *)
THEOREM StopLoses == LiveSpec => []StopLosesNothing
<1>1. LiveInv => StopLosesNothing
    BY ReturnedSettled DEF LiveInv
<1> QED BY <1>1, AlwaysLiveInv, PTL

(* No step takes the live command back: an update less is to come, or the  *)
(* client ends, or less is left behind it.                                 *)
LiveNearer ==
    \/ coming' \subseteq coming /\ coming' # coming
    \/ /\ coming' = coming
       /\ \/ ~ended /\ ended'
          \/ ended' = ended /\ PipelineNearer

THEOREM LiveApproachesItsEnd == LiveSpec => [][LiveNearer]_liveVars
<1>1. ASSUME LiveInv, [LiveNext]_liveVars
      PROVE  [LiveNearer]_liveVars
    <2>1. ASSUME NEW u \in Updates, Arrive(u) \/ Discard(u)
          PROVE  LiveNearer
        BY <2>1 DEF Arrive, Discard, LiveNearer
    <2>2. CASE ClientStops
        BY <2>2 DEF ClientStops, SourceEnds, LiveNearer
    <2>3. CASE LiveInside
        <3>1. PipelineNearer
            BY <1>1, <2>3, PipelineApproaches
               DEF LiveInv, LiveTypeOK, LiveInside
        <3>2. ended' = ended
            BY <2>3, InsideEnds DEF LiveInside
        <3> QED BY <2>3, <3>1, <3>2 DEF LiveInside, LiveNearer
    <2> QED BY <1>1, <2>1, <2>2, <2>3 DEF LiveNext, LiveOver
<1> QED BY <1>1, AlwaysLiveInv, PTL DEF LiveSpec

(* While the live command runs a step is open to it, or it waits for the   *)
(* node and for nothing else; once Ctrl+C is noticed it does not wait.     *)
THEOREM LiveNeverStandsStill ==
    LiveSpec => [](stage \notin {"returned", "error"} =>
                      \/ PipelineCanMove
                      \/ cancelled /\ ~ended
                      \/ Awaits /\ ~cancelled)
<1>1. LiveInit => HandleInv
    BY DEF LiveInit, PipelineInit, HandleInv
<1>2. HandleInv /\ [LiveNext]_liveVars => HandleInv'
    BY LiveStep, HandleStep
<1>3. LiveInv /\ HandleInv =>
          (stage \notin {"returned", "error"} =>
              \/ PipelineCanMove
              \/ cancelled /\ ~ended
              \/ Awaits /\ ~cancelled)
    BY PipelineMoves DEF LiveInv, PipelineInv, Awaits
<1> QED BY <1>1, <1>2, <1>3, AlwaysLiveInv, PTL DEF LiveSpec

----------------------------------------------------------------------------
(* The benchmark.  Its script: the wanted lines in front of line j of pass *)
(* i.                                                                      *)
Before(f, i, j) ==
    {p \in Wanted(f) : p[1] < i \/ (p[1] = i /\ p[2] < j)}

LEMMA WantedFacts ==
    ASSUME NEW f \in Seq(Lines)
    PROVE  /\ IsFiniteSet(Wanted(f))
           /\ Cardinality(Wanted(f)) \in Nat
           /\ Cardinality(Wanted(f)) <= Len(f) * Repeat
<1>1. Repeat \in Nat /\ Len(f) \in Nat
    BY BenchAssumption
<1>2. ASSUME NEW n \in Nat
      PROVE  IsFiniteSet(1 .. n) /\ Cardinality(1 .. n) = n
    <2>1. /\ IsFiniteSet(1 .. n)
          /\ Cardinality(1 .. n) = IF 1 > n THEN 0 ELSE n - 1 + 1
        BY FS_Interval
    <2> QED BY <2>1
<1>3. /\ IsFiniteSet((1 .. Repeat) \X (1 .. Len(f)))
      /\ Cardinality((1 .. Repeat) \X (1 .. Len(f))) = Repeat * Len(f)
    <2>1. /\ IsFiniteSet(1 .. Repeat) /\ Cardinality(1 .. Repeat) = Repeat
          /\ IsFiniteSet(1 .. Len(f)) /\ Cardinality(1 .. Len(f)) = Len(f)
        BY <1>1, <1>2
    <2> DEFINE S == 1 .. Repeat
               T == 1 .. Len(f)
    <2>2. /\ IsFiniteSet(S) /\ Cardinality(S) = Repeat
          /\ IsFiniteSet(T) /\ Cardinality(T) = Len(f)
        BY <2>1
    <2>3. /\ IsFiniteSet(S \X T)
          /\ Cardinality(S \X T) = Cardinality(S) * Cardinality(T)
        <3> HIDE DEF S, T
        <3> QED BY <2>2, FS_Product
    <2> QED BY <2>2, <2>3
<1>4. Wanted(f) \in SUBSET ((1 .. Repeat) \X (1 .. Len(f)))
    BY DEF Wanted
<1>5. /\ IsFiniteSet(Wanted(f))
      /\ Cardinality(Wanted(f)) <= Repeat * Len(f)
    BY <1>3, <1>4, FS_Subset
<1>6. Cardinality(Wanted(f)) \in Nat
    BY <1>5, FS_CardinalityType
<1> QED BY <1>1, <1>5, <1>6

LEMMA BeforeFacts ==
    ASSUME NEW f \in Seq(Lines), NEW i, NEW j
    PROVE  /\ Before(f, i, j) \in SUBSET Wanted(f)
           /\ IsFiniteSet(Before(f, i, j))
           /\ Cardinality(Before(f, i, j)) \in Nat
           /\ Cardinality(Before(f, i, j)) <= Cardinality(Wanted(f))
<1>1. Before(f, i, j) \in SUBSET Wanted(f)
    BY DEF Before
<1>2. /\ IsFiniteSet(Before(f, i, j))
      /\ Cardinality(Before(f, i, j)) <= Cardinality(Wanted(f))
    BY <1>1, WantedFacts, FS_Subset
<1> QED BY <1>1, <1>2, FS_CardinalityType

(* Two places are not as far into the script as each other.                *)
LEMMA PlacesDiffer ==
    ASSUME NEW f \in Seq(Lines), NEW p \in Wanted(f), NEW q \in Wanted(f),
           Cardinality(UpTo(f, p)) = Cardinality(UpTo(f, q))
    PROVE  p = q
<1>1. /\ p = <<p[1], p[2]>> /\ p[1] \in Nat /\ p[2] \in Nat
      /\ q = <<q[1], q[2]>> /\ q[1] \in Nat /\ q[2] \in Nat
    BY DEF Wanted
<1>2. UpTo(f, p) \subseteq UpTo(f, q) \/ UpTo(f, q) \subseteq UpTo(f, p)
    <2>1. \A r \in Wanted(f) : r[1] \in Nat /\ r[2] \in Nat
        BY DEF Wanted
    <2> QED BY <1>1, <2>1 DEF UpTo
<1>3. IsFiniteSet(UpTo(f, p)) /\ IsFiniteSet(UpTo(f, q))
    BY WantedFacts, FS_Subset DEF UpTo
<1>4. UpTo(f, p) = UpTo(f, q)
    BY <1>2, <1>3, FS_Subset
<1>5. p \in UpTo(f, q) /\ q \in UpTo(f, p)
    BY <1>1, <1>4 DEF UpTo
<1>6. p[1] = q[1] /\ p[2] = q[2]
    BY <1>1, <1>5 DEF UpTo
<1> QED BY <1>1, <1>6

(* The next wanted line is the next item of the script.                    *)
LEMMA ScriptAt ==
    ASSUME NEW f \in Seq(Lines), NEW i, NEW j, <<i, j>> \in Wanted(f)
    PROVE  /\ Cardinality(Before(f, i, j + 1)) =
                  Cardinality(Before(f, i, j)) + 1
           /\ Cardinality(Before(f, i, j)) + 1 <= Cardinality(Wanted(f))
           /\ Script(f)[Cardinality(Before(f, i, j)) + 1] = f[j]
<1> DEFINE p == <<i, j>>
           k == Cardinality(Before(f, i, j)) + 1
<1>1. i \in Nat /\ j \in Nat /\ p[1] = i /\ p[2] = j
    BY DEF Wanted
<1>2. \A r \in Wanted(f) : r = <<r[1], r[2]>> /\ r[1] \in Nat /\ r[2] \in Nat
    BY DEF Wanted
<1>3. Before(f, i, j + 1) = Before(f, i, j) \union {p} /\ p \notin Before(f, i, j)
    BY <1>1, <1>2 DEF Before
<1>4. Cardinality(Before(f, i, j + 1)) = k
    BY <1>3, BeforeFacts, FS_AddElement
<1>5. k \in 1 .. Cardinality(Wanted(f))
    BY <1>4, BeforeFacts, WantedFacts
<1>6. UpTo(f, p) = Before(f, i, j + 1)
    BY <1>1, <1>2 DEF UpTo, Before
<1>7. p \in Wanted(f) /\ Cardinality(UpTo(f, p)) = k
    BY <1>4, <1>6
<1>8. p = CHOOSE q \in Wanted(f) : Cardinality(UpTo(f, q)) = k
    BY <1>7, PlacesDiffer
<1>9. Script(f)[k] = f[p[2]]
    BY <1>5, <1>8 DEF Script
<1> QED BY <1>1, <1>4, <1>5, <1>9

(* What is not good, and the end of a pass, is not part of it.             *)
LEMMA SkipAt ==
    ASSUME NEW f \in Seq(Lines), NEW i \in Nat, NEW j \in 1 .. Len(f),
           f[j] \notin Good
    PROVE  Before(f, i, j + 1) = Before(f, i, j)
<1>1. \A r \in Wanted(f) : r[1] \in Nat /\ r[2] \in Nat /\ f[r[2]] \in Good
    BY DEF Wanted
<1> QED BY <1>1 DEF Before

LEMMA PassAt ==
    ASSUME NEW f \in Seq(Lines), NEW i \in Nat
    PROVE  Before(f, i, Len(f) + 1) = Before(f, i + 1, 1)
<1>1. \A r \in Wanted(f) : r[1] \in Nat /\ r[2] \in 1 .. Len(f)
    BY DEF Wanted
<1> QED BY <1>1 DEF Before

LEMMA EndsOf ==
    ASSUME NEW f \in Seq(Lines)
    PROVE  Before(f, 1, 1) = {} /\ Before(f, Repeat + 1, 1) = Wanted(f)
<1>1. \A r \in Wanted(f) : r[1] \in 1 .. Repeat /\ r[2] \in 1 .. Len(f)
    BY DEF Wanted
<1>2. Repeat \in Nat /\ Len(f) \in Nat
    BY BenchAssumption
<1> QED BY <1>1, <1>2 DEF Before

----------------------------------------------------------------------------
(* Where the replay and the forwarder are in the script.  What the reader  *)
(* has gone past is delivered, or on its way in the two places for one     *)
(* update, unless the forwarder has dropped it and gone.                   *)
At == IF reader \in {"line", "send"} THEN line ELSE 1
Gone == Before(file, pass + 1, At)
OnItsWay == Len(taken) + Len(carried) + Len(inner)

SourceInv ==
    /\ file \in Files
    /\ Len(carried) <= 1
    /\ reader # "ended" => pass < Repeat
    /\ Len(taken) <= Cardinality(Wanted(file))
    /\ \A k \in 1 .. Len(taken) : taken[k] = <<Script(file)[k], k - 1>>
    /\ forwarder # "done" =>
          /\ OnItsWay <= Cardinality(Wanted(file))
          /\ carried # <<>> => carried[1] = Script(file)[Len(taken) + 1]
          /\ inner # <<>> =>
                inner[1] = Script(file)[Len(taken) + Len(carried) + 1]
          /\ reader # "ended" \/ pass = Repeat => OnItsWay = Cardinality(Gone)

(* Why either future of the source is over.                                *)
EndInv ==
    /\ ~innerOpen => forwarder = "done"
    /\ reader = "ended" =>
          cancelled \/ unreadable \/ ~innerOpen \/ pass = Repeat
    /\ forwarder = "done" =>
          \/ cancelled \/ unreadable \/ ~receiving
          \/ Len(taken) = Cardinality(Wanted(file))

(* What the forwarder sends is an update of the bound.                     *)
LEMMA ForwardedOffer ==
    ASSUME TypeOK, SourceInv, Forwarded
    PROVE  /\ <<carried[1], Len(taken)>> \in Updates
           /\ Offer(<<carried[1], Len(taken)>>)
<1>1. /\ file \in Seq(Lines) /\ Len(file) * Repeat <= MaxSent
      /\ MaxSent \in Nat /\ Len(file) * Repeat \in Nat
    BY BenchAssumption DEF SourceInv
<1>2. carried # <<>> /\ carried \in Seq(Good) /\ Len(taken) \in Nat
      /\ Len(inner) \in Nat /\ forwarder # "done"
    BY DEF Forwarded, TypeOK, PipelineTypeOK, R!ReplayTypeOK
<1>3. Len(carried) \in Nat \ {0} /\ carried[1] \in Good
    BY <1>2
<1>4. Len(taken) < Cardinality(Wanted(file))
    BY <1>1, <1>2, <1>3, WantedFacts DEF SourceInv, OnItsWay
<1>5. Len(taken) \in 0 .. MaxSent - 1
    BY <1>1, <1>2, <1>4, WantedFacts
<1> QED BY <1>3, <1>5, SentAssumption DEF Forwarded, Updates, Sendable

(* A step of the benchmark is one of the pipeline, or none of its own.     *)
LEMMA BenchStep ==
    ASSUME TypeOK, SourceInv, [Next]_vars
    PROVE  [PipelineStep]_pipelineVars
<1>1. CASE Forwarded
    BY <1>1, ForwardedOffer DEF PipelineStep
<1>2. CASE Forwarder /\ ~Forwarded
    BY <1>2 DEF Forwarder, ForwarderReceives, ForwarderStops, Paced, Refused,
                ForwarderEnds
<1>3. CASE Producer \/ SourceReturns \/ Inside \/ Judge \/ Over
    BY <1>3 DEF Producer, SourceReturns, Inside, Judge, Over, PipelineStep,
                vars
<1>4. CASE UNCHANGED vars
    BY <1>4 DEF vars
<1> QED BY <1>1, <1>2, <1>3, <1>4 DEF Next, Forwarder

----------------------------------------------------------------------------
(* What a step leaves alone.                                               *)
LEMMA ProducerFrame ==
    ASSUME Producer
    PROVE  /\ UNCHANGED <<pipelineVars, forwarderVars, verdict>>
           /\ UNCHANGED <<file, innerOpen>>
BY DEF Producer, R!Read, R!Stops, R!Opens, R!ReadFails, R!SkipLine,
       R!ReadLine, R!SendLine, R!SendRefused, R!PassEnds

LEMMA ForwarderFrame ==
    ASSUME Forwarder
    PROVE  /\ UNCHANGED <<file, pass, line, reader, skipped, unreadable>>
           /\ UNCHANGED <<ended, cancelled, receiving, verdict, stage, hand,
                          decoded>>
           /\ UNCHANGED writerVars
BY DEF Forwarder, ForwarderReceives, ForwarderStops, Paced, Forwarded,
       Refused, ForwarderEnds, Offer, replayVars, pipelineVars, carbonVars

LEMMA ReplayTypeStep ==
    ASSUME TypeOK, SourceInv, Producer
    PROVE  TypeOK'
<1> USE DEF R!ReplayTypeOK, R!ReaderPlaces
<1>1. UNCHANGED <<pipelineVars, forwarderVars, verdict, file, innerOpen>>
    BY ProducerFrame
<1>2. R!ReplayTypeOK /\ R!Read /\ Repeat \in Nat \ {0}
    BY BenchAssumption DEF Producer, TypeOK
<1>3. cancelled' = cancelled
    BY <1>1 DEF pipelineVars, carbonVars
<1>4. R!ReplayTypeOK'
    <2>1. CASE R!Stops \/ R!ReadFails \/ R!SendRefused
        BY <1>1, <1>2, <1>3, <2>1 DEF R!Stops, R!ReadFails, R!SendRefused
    <2>2. CASE R!Opens
        BY <1>1, <1>2, <1>3, <2>2 DEF R!Opens
    <2>3. CASE R!SkipLine
        BY <1>1, <1>2, <1>3, <2>3 DEF R!SkipLine
    <2>4. CASE R!ReadLine
        BY <1>1, <1>2, <1>3, <2>4 DEF R!ReadLine
    <2>5. CASE R!SendLine
        BY <1>1, <1>2, <1>3, <2>5 DEF R!SendLine
    <2>6. CASE R!PassEnds
        BY <1>1, <1>2, <1>3, <2>6 DEF R!PassEnds, R!LastPass, SourceInv
    <2> QED BY <1>2, <2>1, <2>2, <2>3, <2>4, <2>5, <2>6 DEF R!Read
<1>5. PipelineTypeOK'
    <2>1. PipelineTypeOK
        BY DEF TypeOK
    <2> QED BY <1>1, <2>1, TypeStep
<1> QED BY <1>1, <1>4, <1>5 DEF TypeOK, forwarderVars

LEMMA ForwarderTypeStep ==
    ASSUME TypeOK, SourceInv, Forwarder
    PROVE  TypeOK'
<1>1. PipelineTypeOK'
    <2>1. [PipelineStep]_pipelineVars
        BY BenchStep DEF Next
    <2> QED BY <2>1, TypeStep DEF TypeOK
<1>2. UNCHANGED <<file, pass, line, reader, skipped, unreadable, cancelled,
                  verdict>>
    BY ForwarderFrame
<1>3. /\ inner' \in Seq(Good) /\ Len(inner') <= 1 /\ innerOpen' \in BOOLEAN
      /\ carried' \in Seq(Good)
      /\ forwarder' \in {"recv", "sleep", "send", "done"}
      /\ (forwarder' \in {"sleep", "send"}) <=> carried' # <<>>
    <2> USE DEF TypeOK, R!ReplayTypeOK
    <2>1. CASE ForwarderReceives
        <3>1. /\ Head(inner) \in Good /\ Tail(inner) \in Seq(Good)
              /\ Len(Tail(inner)) <= 1
            BY <2>1 DEF ForwarderReceives
        <3>2. <<Head(inner)>> \in Seq(Good) /\ <<Head(inner)>> # <<>>
            BY <3>1
        <3> QED BY <2>1, <3>1, <3>2 DEF ForwarderReceives
    <2>2. CASE ForwarderStops
        <3>1. innerOpen' \in BOOLEAN
            BY <2>2 DEF ForwarderStops
        <3> QED BY <2>2, <3>1 DEF ForwarderStops
    <2>3. CASE Paced
        BY <2>3 DEF Paced, replayVars
    <2>4. CASE Forwarded
        <3>1. <<>> \in Seq(Good)
            OBVIOUS
        <3> QED BY <2>4, <3>1 DEF Forwarded, replayVars
    <2>5. CASE Refused
        <3>1. innerOpen' \in BOOLEAN
            BY <2>5 DEF Refused
        <3>2. <<>> \in Seq(Good)
            OBVIOUS
        <3> QED BY <2>5, <3>1, <3>2 DEF Refused
    <2>6. CASE ForwarderEnds
        BY <2>6 DEF ForwarderEnds, replayVars
    <2> QED BY <2>1, <2>2, <2>3, <2>4, <2>5, <2>6 DEF Forwarder
<1> QED BY <1>1, <1>2, <1>3 DEF TypeOK, R!ReplayTypeOK

LEMMA BenchTypeStep == TypeOK /\ SourceInv /\ [Next]_vars => TypeOK'
<1> SUFFICES ASSUME TypeOK, SourceInv, [Next]_vars
             PROVE  TypeOK'
    OBVIOUS
<1>1. CASE SourceReturns \/ Inside \/ Judge \/ Over \/ UNCHANGED vars
    <2>1. UNCHANGED <<replayVars, forwarderVars>> /\ cancelled' \in BOOLEAN
              /\ verdict' \in {"none", "keeps_up", "behind"}
              /\ PipelineTypeOK'
        <3>1. PipelineTypeOK'
            BY BenchStep, TypeStep DEF TypeOK
        <3>2. UNCHANGED <<replayVars, forwarderVars>>
            BY <1>1 DEF SourceReturns, Inside, Judge, Over, vars
        <3>3. verdict' \in {"none", "keeps_up", "behind"}
            BY <1>1 DEF SourceReturns, Inside, Judge, Over, vars, TypeOK
        <3> QED BY <3>1, <3>2, <3>3 DEF PipelineTypeOK
    <2> QED BY <2>1 DEF TypeOK, R!ReplayTypeOK, replayVars, forwarderVars
<1> QED BY <1>1, ReplayTypeStep, ForwarderTypeStep DEF Next

LEMMA BenchTypeInit == Init => TypeOK /\ SourceInv /\ EndInv
<1> SUFFICES ASSUME Init
             PROVE  TypeOK /\ SourceInv /\ EndInv
    OBVIOUS
<1>1. file \in Files /\ file \in Seq(Lines) /\ Repeat \in Nat \ {0}
    BY BenchAssumption DEF Init, R!ReplayInit
<1>2. PipelineTypeOK
    BY TypeInit DEF Init
<1>3. <<>> \in Seq(Good) /\ Len(<<>>) = 0
    OBVIOUS
<1>4. TypeOK
    <2>1. innerOpen \in BOOLEAN /\ unreadable \in BOOLEAN /\ cancelled \in BOOLEAN
        BY DEF Init, PipelineInit, R!ReplayInit
    <2>2. R!ReplayTypeOK
        BY <1>1, <1>3, <2>1
           DEF Init, R!ReplayInit, R!ReplayTypeOK, R!ReaderPlaces
    <2> QED BY <1>2, <1>3, <2>2 DEF Init, TypeOK
<1>5. Cardinality(Gone) = 0
    <2>1. Gone = {}
        BY <1>1, EndsOf DEF Gone, At, Init, R!ReplayInit
    <2> QED BY <2>1, FS_EmptySet
<1>6. SourceInv
    BY <1>1, <1>3, <1>5, WantedFacts
       DEF Init, PipelineInit, R!ReplayInit, SourceInv, OnItsWay
<1>7. EndInv
    BY DEF Init, R!ReplayInit, EndInv
<1> QED BY <1>4, <1>6, <1>7

----------------------------------------------------------------------------
LEMMA ProducerSourceStep ==
    ASSUME TypeOK, SourceInv, Producer
    PROVE  SourceInv'
<1> USE DEF R!ReaderPlaces
<1>1. /\ UNCHANGED <<taken, carried, forwarder, file>> /\ TypeOK
      /\ R!ReplayTypeOK
    BY ProducerFrame DEF pipelineVars, carbonVars, forwarderVars, TypeOK
<1>2. /\ file \in Seq(Lines) /\ pass \in Nat /\ line \in 1 .. Len(file) + 1
      /\ Len(file) \in Nat /\ Repeat \in Nat \ {0}
      /\ Len(inner) \in Nat /\ Len(carried) \in Nat /\ Len(taken) \in Nat
    BY BenchAssumption DEF TypeOK, R!ReplayTypeOK, PipelineTypeOK
<1>3. CASE R!Stops \/ R!ReadFails \/ R!SendRefused
    <2>1. reader # "ended" /\ reader' = "ended" /\ UNCHANGED <<pass, inner>>
        BY <1>3 DEF R!Stops, R!ReadFails, R!SendRefused
    <2> QED BY <1>1, <1>2, <2>1 DEF SourceInv, OnItsWay
<1>4. CASE R!Opens \/ R!ReadLine \/ R!SkipLine \/ R!PassEnds
    <2>1. /\ reader # "ended" /\ inner' = inner
          /\ pass' \in Nat /\ (reader' # "ended" => pass' < Repeat)
        BY <1>2, <1>4
           DEF R!Opens, R!ReadLine, R!SkipLine, R!PassEnds, R!LastPass,
               SourceInv
    <2>2. Gone' = Gone
        <3>1. CASE R!Opens \/ R!ReadLine
            <4>1. At' = At /\ pass' = pass
                BY <3>1 DEF R!Opens, R!ReadLine, At
            <4> QED BY <1>1, <4>1 DEF Gone
        <3>2. CASE R!SkipLine
            <4>1. /\ At = line /\ At' = line + 1 /\ pass' = pass
                  /\ line \in 1 .. Len(file) /\ file[line] \notin Good
                BY <1>2, <3>2 DEF R!SkipLine, At
            <4> QED BY <1>1, <1>2, <4>1, SkipAt DEF Gone
        <3>3. CASE R!PassEnds
            <4>1. At = Len(file) + 1 /\ At' = 1 /\ pass' = pass + 1
                BY <1>2, <3>3 DEF R!PassEnds, At
            <4> QED BY <1>1, <1>2, <4>1, PassAt DEF Gone
        <3> QED BY <1>4, <3>1, <3>2, <3>3
    <2> QED BY <1>1, <1>2, <2>1, <2>2 DEF SourceInv, OnItsWay
<1>5. CASE R!SendLine
    <2>1. /\ inner = <<>> /\ inner' = <<file[line]>> /\ Len(inner) = 0
          /\ Len(inner') = 1 /\ inner'[1] = file[line]
        <3>1. inner \in Seq(Good) /\ Len(inner) < 1 /\ file[line] \in Good
            BY <1>1, <1>5 DEF R!SendLine, R!ReplayTypeOK
        <3>2. inner = <<>> /\ Len(inner) = 0
            BY <3>1
        <3>3. inner' = <<file[line]>>
            BY <1>5, <3>1, <3>2 DEF R!SendLine
        <3> QED BY <3>2, <3>3
    <2>2. /\ reader = "send" /\ reader' = "line" /\ pass' = pass
          /\ At = line /\ At' = line + 1
        BY <1>5 DEF R!SendLine, At
    <2>3. line <= Len(file) /\ file[line] \in Good /\ pass < Repeat
        BY <1>1, <2>2 DEF R!ReplayTypeOK, SourceInv
    <2>4. <<pass + 1, line>> \in Wanted(file)
        BY <1>2, <2>3 DEF Wanted
    <2>5. /\ Cardinality(Gone') = Cardinality(Gone) + 1
          /\ Cardinality(Gone) + 1 <= Cardinality(Wanted(file))
          /\ Script(file)[Cardinality(Gone) + 1] = file[line]
        BY <1>1, <1>2, <2>2, <2>4, ScriptAt DEF Gone
    <2> QED BY <1>1, <1>2, <2>1, <2>2, <2>3, <2>5 DEF SourceInv, OnItsWay
<1> QED BY <1>3, <1>4, <1>5 DEF Producer, R!Read

(* A place for one update, which is not empty.                             *)
LEMMA PlaceOfOne ==
    ASSUME NEW S, NEW s \in Seq(S), Len(s) <= 1, s # <<>>
    PROVE  Len(s) = 1 /\ Head(s) = s[1] /\ Tail(s) = <<>>
<1>1. Len(s) \in Nat \ {0}
    BY EmptySeq, Zenon
<1>2. Len(s) = 1
    BY <1>1
<1>3. Tail(s) = <<>>
    <2>1. Tail(s) \in Seq(S) /\ Len(Tail(s)) = 0
        BY <1>2, HeadTailProperties
    <2>2. Tail(s) # <<>> => Len(Tail(s)) \in Nat \ {0}
        BY <2>1, EmptySeq, Zenon
    <2> QED BY <2>1, <2>2
<1>4. Head(s) = s[1]
    BY <1>2
<1> QED BY <1>2, <1>3, <1>4

LEMMA ForwarderSourceStep ==
    ASSUME TypeOK, SourceInv, Forwarder
    PROVE  SourceInv'
<1>1. /\ UNCHANGED <<file, pass, line, reader>>
      /\ file' \in Files /\ Gone' = Gone
      /\ reader' # "ended" => pass' < Repeat
    BY ForwarderFrame DEF SourceInv, Gone, At
<1>2. /\ inner \in Seq(Good) /\ Len(inner) \in Nat /\ Len(inner) <= 1
      /\ carried \in Seq(Good) /\ Len(carried) \in Nat /\ Len(carried) <= 1
      /\ taken \in Seq(Updates) /\ Len(taken) \in Nat
      /\ Len(<<>>) = 0
    BY DEF TypeOK, R!ReplayTypeOK, PipelineTypeOK, SourceInv
<1>3. CASE ForwarderReceives
    <2>1. /\ carried = <<>> /\ Len(carried) = 0 /\ taken' = taken
          /\ forwarder # "done"
        BY <1>3 DEF ForwarderReceives, TypeOK, pipelineVars, carbonVars
    <2>2. /\ Len(inner) = 1 /\ Head(inner) = inner[1] /\ inner # <<>>
          /\ Len(inner') = 0 /\ inner' = <<>>
        BY <1>2, <1>3 DEF ForwarderReceives
    <2>3. Len(carried') = 1 /\ carried'[1] = inner[1]
        BY <1>3, <2>2 DEF ForwarderReceives
    <2> QED BY <1>1, <1>2, <2>1, <2>2, <2>3 DEF SourceInv, OnItsWay
<1>4. CASE Paced
    BY <1>1, <1>4
       DEF Paced, SourceInv, OnItsWay, replayVars, pipelineVars, carbonVars
<1>5. CASE Forwarded
    <2>1. /\ <<carried[1], Len(taken)>> \in Updates
          /\ taken' = Append(taken, <<carried[1], Len(taken)>>)
          /\ inner' = inner /\ carried' = <<>> /\ forwarder # "done"
          /\ Len(carried) = 1 /\ carried # <<>> /\ Len(carried') = 0
        <3>1. /\ <<carried[1], Len(taken)>> \in Updates
              /\ taken' = Append(taken, <<carried[1], Len(taken)>>)
            BY <1>5, ForwardedOffer DEF Offer
        <3>2. inner' = inner /\ carried' = <<>> /\ forwarder = "send"
            BY <1>5 DEF Forwarded, replayVars
        <3>3. carried # <<>>
            BY <3>2 DEF TypeOK
        <3>4. Len(carried) = 1
            BY <1>2, <3>3, PlaceOfOne
        <3> QED BY <1>2, <3>1, <3>2, <3>3, <3>4
    <2>2. /\ Len(taken') = Len(taken) + 1
          /\ taken'[Len(taken) + 1] = <<carried[1], Len(taken)>>
          /\ \A k \in 1 .. Len(taken) : taken'[k] = taken[k]
        BY <1>2, <2>1
    <2>3. \A k \in 1 .. Len(taken') : taken'[k] = <<Script(file)[k], k - 1>>
        BY <1>2, <2>1, <2>2 DEF SourceInv
    <2>4. Len(taken') <= Cardinality(Wanted(file))
        BY <1>2, <2>1, <2>2, WantedFacts DEF SourceInv, OnItsWay, TypeOK,
            R!ReplayTypeOK
    <2>5. OnItsWay' = OnItsWay
        BY <1>2, <2>1, <2>2 DEF OnItsWay
    <2> QED BY <1>1, <1>2, <2>1, <2>2, <2>3, <2>4, <2>5 DEF SourceInv
<1>6. CASE ForwarderStops \/ Refused \/ ForwarderEnds
    <2>1. /\ forwarder' = "done" /\ taken' = taken
          /\ carried' = carried \/ carried' = <<>>
        BY <1>6 DEF ForwarderStops, Refused, ForwarderEnds, pipelineVars,
            carbonVars
    <2>2. Len(carried') <= 1
        BY <1>2, <2>1
    <2> QED BY <1>1, <2>1, <2>2 DEF SourceInv
<1> QED BY <1>3, <1>4, <1>5, <1>6 DEF Forwarder

(* What does not belong to the source takes nothing.                       *)
LEMMA RestTakesNothing ==
    ASSUME SourceReturns \/ Inside \/ Judge \/ Over \/ UNCHANGED vars
    PROVE  taken' = taken
BY DEF SourceReturns, SourceEnds, Inside, PipelineNext, Interrupt, Processor,
       Receive, Skip, Decode, Send, SavePool, PoolSaved, WriterTask,
       WriterTakes, FlushOk, FlushFails, WriterStops, Ending, Close, Return,
       RunFails, Judge, Over, vars, pipelineVars, carbonVars

LEMMA SourceStep == TypeOK /\ SourceInv /\ [Next]_vars => SourceInv'
<1> SUFFICES ASSUME TypeOK, SourceInv, [Next]_vars,
                    SourceReturns \/ Inside \/ Judge \/ Over \/ UNCHANGED vars
             PROVE  SourceInv'
    BY ProducerSourceStep, ForwarderSourceStep DEF Next
<1>1. UNCHANGED <<file, inner, pass, line, reader, forwarder, carried>>
    BY DEF SourceReturns, Inside, Judge, Over, vars, replayVars, forwarderVars
<1>2. taken' = taken
    BY RestTakesNothing
<1> QED BY <1>1, <1>2 DEF SourceInv, OnItsWay, Gone, At

(* What is cut short stays so.                                             *)
LEMMA CutStays ==
    ASSUME TypeOK, [Next]_vars
    PROVE  /\ cancelled => cancelled'
           /\ unreadable => unreadable'
           /\ receiving' => receiving
<1>1. CASE Producer
    BY <1>1 DEF Producer, R!Read, R!Stops, R!Opens, R!ReadFails, R!SkipLine,
                R!ReadLine, R!SendLine, R!SendRefused, R!PassEnds,
                pipelineVars, carbonVars
<1>2. CASE Forwarder
    BY <1>2, ForwarderFrame
<1>3. CASE SourceReturns \/ Judge \/ Over \/ UNCHANGED vars
    BY <1>3 DEF SourceReturns, SourceEnds, Judge, Over, vars, pipelineVars,
                carbonVars, replayVars
<1>4. CASE Inside
    BY <1>4 DEF Inside, PipelineNext, Interrupt, Processor, Receive, Skip,
                Decode, Send, SavePool, PoolSaved, WriterTask, WriterTakes,
                FlushOk, FlushFails, WriterStops, Ending, Close, Return,
                RunFails, carbonVars, replayVars
<1> QED BY <1>1, <1>2, <1>3, <1>4 DEF Next

LEMMA EndStep ==
    TypeOK /\ SourceInv /\ EndInv /\ [Next]_vars => EndInv'
<1> SUFFICES ASSUME TypeOK, SourceInv, EndInv, [Next]_vars
             PROVE  EndInv'
    OBVIOUS
<1> USE DEF EndInv
<1>1. CASE Producer
    <2>1. UNCHANGED <<innerOpen, forwarder, cancelled, receiving, taken, file>>
        BY <1>1, ProducerFrame DEF pipelineVars, carbonVars, forwarderVars
    <2>2. reader' = "ended" =>
              cancelled \/ unreadable' \/ ~innerOpen \/ pass' = Repeat
        <3>1. pass \in Nat /\ Repeat \in Nat /\ (reader # "ended" => pass < Repeat)
            BY BenchAssumption DEF TypeOK, R!ReplayTypeOK, SourceInv
        <3> QED BY <1>1, <3>1
                DEF Producer, R!Read, R!Stops, R!Opens, R!ReadFails,
                    R!SkipLine, R!ReadLine, R!SendLine, R!SendRefused,
                    R!PassEnds, R!LastPass
    <2> QED BY <2>1, <2>2, CutStays
<1>2. CASE ForwarderReceives \/ Paced \/ Forwarded
    <2>1. UNCHANGED <<innerOpen, reader, pass, unreadable, cancelled>>
              /\ forwarder # "done" /\ forwarder' # "done"
        BY <1>2 DEF ForwarderReceives, Paced, Forwarded, Offer, replayVars,
                    pipelineVars, carbonVars
    <2> QED BY <2>1
<1>3. CASE ForwarderStops \/ Refused
    BY <1>3 DEF ForwarderStops, Refused, pipelineVars, carbonVars
<1>4. CASE ForwarderEnds
    <2>1. /\ UNCHANGED <<innerOpen, reader, pass, unreadable, cancelled,
                         receiving, taken, file>>
          /\ forwarder = "recv" /\ reader = "ended" /\ inner = <<>>
          /\ carried = <<>>
        BY <1>4 DEF ForwarderEnds, replayVars, pipelineVars, carbonVars, TypeOK
    <2>2. CASE pass = Repeat
        <3>1. Gone = Wanted(file)
            BY <2>1, <2>2, EndsOf DEF Gone, At, TypeOK, R!ReplayTypeOK
        <3>2. Len(inner) = 0 /\ Len(carried) = 0 /\ Len(taken) \in Nat
            BY <2>1 DEF TypeOK, PipelineTypeOK
        <3>3. Len(taken) = Cardinality(Wanted(file))
            BY <2>1, <2>2, <3>1, <3>2 DEF SourceInv, OnItsWay
        <3> QED BY <2>1, <2>2, <3>3
    <2>3. CASE pass # Repeat
        BY <2>1, <2>3
    <2> QED BY <2>2, <2>3
<1>5. CASE SourceReturns \/ Inside \/ Judge \/ Over \/ UNCHANGED vars
    <2>1. UNCHANGED <<file, innerOpen, pass, reader, unreadable, forwarder>>
        BY <1>5 DEF SourceReturns, Inside, Judge, Over, vars, replayVars,
                    forwarderVars
    <2>2. taken' = taken
        BY <1>5, RestTakesNothing
    <2> QED BY <2>1, <2>2, CutStays
<1> QED BY <1>1, <1>2, <1>3, <1>4, <1>5 DEF Next, Forwarder

BenchInv == TypeOK /\ SourceInv /\ EndInv

LEMMA BenchInvAlways == Spec => []BenchInv
<1>1. Init => BenchInv
    BY BenchTypeInit DEF BenchInv
<1>2. BenchInv /\ [Next]_vars => BenchInv'
    BY BenchTypeStep, SourceStep, EndStep DEF BenchInv
<1> QED BY <1>1, <1>2, PTL DEF Spec

(* Every variable keeps its type, each channel its bound, and the number   *)
(* of updates sent the bound the signatures are made for.                  *)
THEOREM BenchTypeCorrect == Spec => []TypeOK
<1>1. BenchInv => TypeOK
    BY DEF BenchInv
<1> QED BY <1>1, BenchInvAlways, PTL

----------------------------------------------------------------------------
(* The source in front of the pipeline is a waiting one.                   *)
Delivered == [i \in DOMAIN taken |-> taken[i][1]]
IsCut == cancelled \/ unreadable \/ ~receiving

LEMMA PrefixOf ==
    ASSUME NEW f, NEW t \in Seq(Updates),
           \A k \in 1 .. Len(t) : t[k] = <<Script(f)[k], k - 1>>
    PROVE  [i \in DOMAIN t |-> t[i][1]] = [k \in 1 .. Len(t) |-> Script(f)[k]]
<1>1. DOMAIN t = 1 .. Len(t)
    OBVIOUS
<1>2. \A k \in 1 .. Len(t) : t[k][1] = Script(f)[k]
    OBVIOUS
<1> QED BY <1>1, <1>2

LEMMA DeliveredFacts ==
    ASSUME TypeOK, SourceInv
    PROVE  /\ Len(taken) \in Nat /\ DOMAIN taken = 1 .. Len(taken)
           /\ Delivered = [k \in 1 .. Len(taken) |-> Script(file)[k]]
           /\ Len(Delivered) = Len(taken)
           /\ Script(file) = [k \in 1 .. Cardinality(Wanted(file)) |->
                                 Script(file)[k]]
           /\ Len(Script(file)) = Cardinality(Wanted(file))
<1>1. /\ taken \in Seq(Updates) /\ file \in Seq(Lines)
      /\ Len(taken) \in Nat /\ DOMAIN taken = 1 .. Len(taken)
      /\ Cardinality(Wanted(file)) \in Nat
    BY WantedFacts DEF TypeOK, PipelineTypeOK, R!ReplayTypeOK
<1>2. Delivered = [k \in 1 .. Len(taken) |-> Script(file)[k]]
    BY <1>1, PrefixOf DEF Delivered, SourceInv
<1>3. Script(file) = [k \in 1 .. Cardinality(Wanted(file)) |->
                         Script(file)[k]]
    BY DEF Script
<1>4. \A n \in Nat : Len([k \in 1 .. n |-> Script(file)[k]]) = n
    OBVIOUS
<1>5. Len(Delivered) = Len(taken)
    BY <1>1, <1>2, <1>4
<1>6. Len(Script(file)) = Cardinality(Wanted(file))
    BY <1>1, <1>3, <1>4
<1> QED BY <1>1, <1>2, <1>3, <1>5, <1>6

LEMMA DeliverStep ==
    ASSUME TypeOK, SourceInv, TypeOK', SourceInv', Forwarded
    PROVE  Source!Deliver
<1> DEFINE Items == {Script(file)[k] : k \in Nat}
           n == Len(taken)
           next == Script(file)[n + 1]
<1>1. /\ ~ended /\ ended' = ended /\ file' = file
      /\ UNCHANGED <<cancelled, unreadable, receiving>>
      /\ taken' = Append(taken, <<carried[1], n>>)
    BY ForwarderFrame DEF Forwarded, Forwarder, Offer
<1>2. /\ n \in Nat /\ Len(taken') = n + 1
      /\ n + 1 <= Cardinality(Wanted(file))
    <2>1. taken \in Seq(Updates) /\ <<carried[1], n>> \in Updates
        BY ForwardedOffer DEF TypeOK, PipelineTypeOK
    <2>2. n \in Nat /\ Len(taken') = n + 1
        BY <1>1, <2>1
    <2> QED BY <1>1, <2>2 DEF SourceInv
<1>3. /\ Delivered = [k \in 1 .. n |-> Script(file)[k]]
      /\ Len(Delivered) = n
      /\ Len(Script(file)) = Cardinality(Wanted(file))
    BY DeliveredFacts
<1>4. Delivered' = [k \in 1 .. n + 1 |-> Script(file)[k]]
    <2>1. /\ taken' \in Seq(Updates)
          /\ \A k \in 1 .. Len(taken') : taken'[k] = <<Script(file)[k], k - 1>>
        BY <1>1 DEF TypeOK, PipelineTypeOK, SourceInv
    <2>2. Delivered' = [k \in 1 .. Len(taken') |-> Script(file)[k]]
        BY <2>1, PrefixOf DEF Delivered
    <2> QED BY <1>2, <2>2
<1>5. Delivered' = Append(Delivered, next)
    <2>1. Delivered \in Seq(Items) /\ next \in Items
        BY <1>2, <1>3
    <2>2. /\ Append(Delivered, next) \in Seq(Items)
          /\ Len(Append(Delivered, next)) = n + 1
          /\ \A k \in 1 .. n : Append(Delivered, next)[k] = Delivered[k]
          /\ Append(Delivered, next)[n + 1] = next
        BY <1>3, <2>1, AppendProperties
    <2>3. Delivered' \in Seq(Items) /\ Len(Delivered') = n + 1
        BY <1>2, <1>4
    <2>4. \A k \in 1 .. n + 1 : Delivered'[k] = Append(Delivered, next)[k]
        BY <1>2, <1>3, <1>4, <2>2
    <2> QED BY <2>2, <2>3, <2>4, SeqEqual
<1>6. Len(Delivered) < Len(Script(file))
    BY <1>2, <1>3, WantedFacts DEF TypeOK, R!ReplayTypeOK
<1> QED BY <1>1, <1>3, <1>5, <1>6 DEF Source!Deliver, Delivered

LEMMA ReturnStep ==
    ASSUME BenchInv, SourceReturns
    PROVE  Source!Return
<1>1. /\ ~ended /\ ended' = TRUE /\ forwarder = "done"
      /\ UNCHANGED <<file, taken, cancelled, unreadable, receiving>>
    BY DEF SourceReturns, SourceEnds, replayVars
<1>2. IsCut \/ Delivered = Script(file)
    <2>1. IsCut \/ Len(taken) = Cardinality(Wanted(file))
        BY <1>1 DEF BenchInv, EndInv, IsCut
    <2> QED BY <2>1, DeliveredFacts DEF BenchInv
<1> QED BY <1>1, <1>2 DEF Source!Return, IsCut, Delivered

(* Any other step delivers nothing and does not return, and if it changes  *)
(* anything of the source, it cuts it short.                               *)
LEMMA OtherStep ==
    ASSUME TypeOK, [Next]_vars, UNCHANGED <<file, taken, ended>>
    PROVE  Source!Cut \/ UNCHANGED Source!sourceVars
<1>1. IsCut' = IsCut \/ (~IsCut /\ IsCut' = TRUE)
    BY CutStays DEF IsCut
<1> QED BY <1>1 DEF Source!Cut, Source!sourceVars, IsCut

(* Only the send of the forwarder and the return of both futures touch     *)
(* what is delivered and whether the source is over.                       *)
LEMMA DeliveringSteps ==
    ASSUME TypeOK, SourceInv, [Next]_vars
    PROVE  Forwarded \/ SourceReturns \/ UNCHANGED <<file, taken, ended>>
<1>1. CASE Producer
    BY <1>1, ProducerFrame DEF pipelineVars, carbonVars
<1>2. CASE Forwarder
    BY <1>2 DEF Forwarder, ForwarderReceives, ForwarderStops, Paced, Refused,
                ForwarderEnds, replayVars, pipelineVars, carbonVars
<1>3. CASE Inside
    <2>1. UNCHANGED <<taken, ended>>
        BY <1>3 DEF Inside, PipelineNext, Interrupt, Processor, Receive, Skip,
                    Decode, Send, SavePool, PoolSaved, WriterTask, WriterTakes,
                    FlushOk, FlushFails, WriterStops, Ending, Close, Return,
                    RunFails, carbonVars
    <2> QED BY <1>3, <2>1 DEF Inside, replayVars
<1>4. CASE Judge \/ Over \/ UNCHANGED vars
    BY <1>4 DEF Judge, Over, vars, replayVars, pipelineVars, carbonVars
<1> QED BY <1>1, <1>2, <1>3, <1>4 DEF Next

(* The source delivers the script in order, none of it twice and none left *)
(* out, and returns after the last, unless it is cut short.                *)
THEOREM ReplayIsWaitingSource == Spec => SourceSpec
<1>1. Init => Source!SourceInit
    <2> SUFFICES ASSUME Init
                 PROVE  Source!SourceInit
        OBVIOUS
    <2>1. Delivered = <<>>
        <3>1. taken = <<>>
            BY DEF Init, PipelineInit
        <3> QED BY <3>1 DEF Delivered
    <2>2. (IsCut) = FALSE /\ ended = FALSE
        BY DEF Init, PipelineInit, R!ReplayInit, IsCut
    <2> QED BY <2>1, <2>2 DEF Source!SourceInit, Delivered, IsCut
<1>2. BenchInv /\ BenchInv' /\ [Next]_vars =>
          [Source!Deliver \/ Source!Cut \/ Source!Return]_(Source!sourceVars)
    BY DeliveringSteps, DeliverStep, ReturnStep, OtherStep DEF BenchInv
<1> QED BY <1>1, <1>2, BenchInvAlways, PTL
        DEF Spec, SourceSpec, Source!SourceSpec

----------------------------------------------------------------------------
(* The signatures of a run: no two updates get the same one.               *)
LEMMA SameRemainder ==
    ASSUME NEW a \in Nat, NEW b \in Nat, NEW w \in Nat \ {0},
           a % w = b % w, a - b < w, b - a < w
    PROVE  a = b
<1> DEFINE q == a \div w
           p == b \div w
<1>1. /\ q \in Int /\ p \in Int
      /\ a = w * q + (a % w) /\ b = w * p + (b % w)
    OBVIOUS
<1>2. a - b = w * (q - p)
    BY <1>1
<1>3. \A d \in Int : d >= 1 => w * d >= w
    OBVIOUS
<1>4. ~(q - p >= 1) /\ ~(p - q >= 1)
    <2>1. b - a = w * (p - q)
        BY <1>1
    <2> QED BY <1>1, <1>2, <1>3, <2>1
<1>5. q = p
    BY <1>1, <1>4
<1> QED BY <1>1, <1>5

LEMMA XorCancels ==
    ASSUME NEW s \in 0 .. Words - 1,
           NEW a \in 0 .. Words - 1, NEW b \in 0 .. Words - 1,
           XorBits(s, a) = XorBits(s, b)
    PROVE  a = b
<1>1. XorBits(s, XorBits(s, a)) = a /\ XorBits(s, XorBits(s, b)) = b
    BY XorAssumption
<1> QED BY <1>1

LEMMA SignaturesDiffer ==
    ASSUME NEW k \in Good, NEW m \in 0 .. MaxSent - 1,
           NEW l \in Good, NEW n \in 0 .. MaxSent - 1,
           UniqueSig(k, m) = UniqueSig(l, n)
    PROVE  k = l /\ m = n
<1>1. /\ Words \in Nat \ {0} /\ MaxSent \in Nat /\ MaxSent <= Words
      /\ Salt \in Nat /\ SigOf[k] \in 0 .. Words - 1
    BY BenchAssumption, SignatureAssumption
<1>2. (Salt + m) % Words \in Masks /\ (Salt + n) % Words \in Masks
    BY DEF Masks
<1>3. k = l
    BY <1>2, SignatureAssumption DEF UniqueSig
<1>4. /\ m \in Nat /\ n \in Nat /\ m - n < Words /\ n - m < Words
    BY <1>1
<1>5. /\ Salt + m \in Nat /\ (Salt + m) % Words \in 0 .. Words - 1
      /\ Salt + n \in Nat /\ (Salt + n) % Words \in 0 .. Words - 1
    BY <1>1, <1>4
<1>6. (Salt + m) % Words = (Salt + n) % Words
    BY <1>1, <1>3, <1>5, XorCancels DEF UniqueSig
<1>7. (Salt + m) - (Salt + n) < Words /\ (Salt + n) - (Salt + m) < Words
    BY <1>1, <1>4
<1>8. Salt + m = Salt + n
    BY <1>1, <1>5, <1>6, <1>7, SameRemainder
<1>9. m = n
    BY <1>1, <1>4, <1>8
<1> QED BY <1>3, <1>9

LEMMA RowsDiffer ==
    ASSUME NEW r \in Rows, NEW q \in Rows,
           Instruction(r).id = Instruction(q).id
    PROVE  r = q
<1>1. PICK u \in Updates : \E k \in DOMAIN Body[u] : r = <<u, k>>
    BY DEF Rows, RowsOf
<1>2. PICK v \in Updates : \E k \in DOMAIN Body[v] : q = <<v, k>>
    BY DEF Rows, RowsOf
<1> DEFINE i == r[2]
           j == q[2]
<1>3. /\ i \in DOMAIN Body[u] /\ r = <<u, i>>
      /\ j \in DOMAIN Body[v] /\ q = <<v, j>>
    BY <1>1, <1>2
<1>4. /\ Updates = Sendable
      /\ Body[u] = BodyOf(u) /\ Body[v] = BodyOf(v)
    BY SentAssumption DEF Updates
<1>5. /\ Instruction(r).id = <<UniqueSig(u[1], u[2]), i>>
      /\ Instruction(q).id = <<UniqueSig(v[1], v[2]), j>>
    BY <1>3, <1>4 DEF Instruction, BodyOf
<1>6. i = j /\ UniqueSig(u[1], u[2]) = UniqueSig(v[1], v[2])
    <2>1. <<UniqueSig(u[1], u[2]), i>> = <<UniqueSig(v[1], v[2]), j>>
        BY <1>5, Zenon
    <2> QED BY <2>1
<1>7. /\ u = <<u[1], u[2]>> /\ u[1] \in Good /\ u[2] \in 0 .. MaxSent - 1
      /\ v = <<v[1], v[2]>> /\ v[1] \in Good /\ v[2] \in 0 .. MaxSent - 1
    BY <1>4 DEF Sendable
<1>8. u[1] = v[1] /\ u[2] = v[2]
    BY <1>6, <1>7, SignaturesDiffer
<1> QED BY <1>3, <1>6, <1>7, <1>8

LEMMA AsManyRows ==
    ASSUME NEW S \in SUBSET Rows, IsFiniteSet(S)
    PROVE  Cardinality(Identities(S)) = Cardinality(S)
<1> DEFINE f == [r \in S |-> Instruction(r).id]
<1>1. f \in Surjection(S, Identities(S))
    BY DEF Surjection, Identities
<1>2. f \in Injection(S, Identities(S))
    BY RowsDiffer DEF Injection, IsInjective, Identities
<1> QED BY <1>1, <1>2, FS_Surjection

----------------------------------------------------------------------------
(* Every row that was counted is with the processor, in the channel, with  *)
(* the writer, or settled; and while no batch was given up the table is    *)
(* what was flushed.                                                       *)
AtHand == IF stage = "sending" THEN {Head(hand)} ELSE {}
PlacedInv ==
    /\ IsFiniteSet(decoded)
    /\ decoded =
          Range(writes) \union batch \union flushed \union failed \union AtHand
    /\ failed = {} => events = Identities(flushed)

LEMMA PlacedInit == PipelineInit => PlacedInv
BY RangeEmpty, FS_EmptySet DEF PipelineInit, PlacedInv, AtHand, Identities

LEMMA PlacedWriter ==
    ASSUME PipelineTypeOK, PlacedInv, WriterTask
    PROVE  PlacedInv'
<1> USE DEF PlacedInv, AtHand
<1>1. UNCHANGED <<stage, hand, decoded>>
    BY DEF WriterTask, WriterTakes, FlushOk, FlushFails, WriterStops,
           carbonVars
<1>2. CASE WriterTakes
    <2>1. Range(writes) = Range(writes') \union {Head(writes)}
        BY <1>2, RangeTail DEF WriterTakes, PipelineTypeOK
    <2> QED BY <1>1, <1>2, <2>1 DEF WriterTakes
<1>3. CASE FlushOk
    <2>1. Identities(flushed \union batch) =
              Identities(flushed) \union Identities(batch)
        BY DEF Identities
    <2> QED BY <1>1, <1>3, <2>1 DEF FlushOk
<1>4. CASE FlushFails
    BY <1>1, <1>4 DEF FlushFails
<1>5. CASE WriterStops
    BY <1>1, <1>5 DEF WriterStops
<1> QED BY <1>2, <1>3, <1>4, <1>5 DEF WriterTask

LEMMA PlacedStep ==
    PipelineTypeOK /\ PlacedInv /\ [PipelineStep]_pipelineVars => PlacedInv'
<1> SUFFICES ASSUME PipelineTypeOK, PlacedInv, [PipelineStep]_pipelineVars
             PROVE  PlacedInv'
    OBVIOUS
<1> USE DEF PlacedInv, AtHand
<1>1. CASE \/ Interrupt \/ Receive \/ Skip \/ SavePool \/ PoolSaved
           \/ Ending \/ RunFails
    BY <1>1 DEF Interrupt, Receive, Skip, SavePool, PoolSaved, Ending, Close,
                Return, RunFails, writerVars
<1>2. CASE Decode
    <2>1. IsFiniteSet(decoded')
        BY <1>2, FS_AddElement DEF Decode
    <2> QED BY <1>2, <2>1 DEF Decode, writerVars
<1>3. CASE Send
    <2>1. Head(hand) \in Rows
        BY <1>3 DEF Send, PipelineTypeOK
    <2>2. Range(writes') = Range(writes) \union {Head(hand)}
        BY <1>3, <2>1, RangeAppend DEF Send, PipelineTypeOK
    <2> QED BY <1>3, <2>2 DEF Send
<1>4. CASE SourceEnds \/ (\E u \in Updates : Offer(u)) \/ UNCHANGED pipelineVars
    BY <1>4 DEF SourceEnds, Offer, pipelineVars, carbonVars, writerVars
<1> QED BY <1>1, <1>2, <1>3, <1>4, PlacedWriter
        DEF PipelineStep, PipelineNext, Processor

(* A run that is said to keep up is over, and was when it was judged.      *)
VerdictInv ==
    verdict = "keeps_up" =>
        /\ stage = "returned" /\ failed = {}
        /\ Cardinality(decoded) = EventsPerPass * Repeat

LEMMA ReturnedStays ==
    ASSUME PipelineTypeOK, StageInv, [PipelineStep]_pipelineVars,
           stage = "returned"
    PROVE  UNCHANGED <<stage, failed, decoded>>
<1>1. hand = <<>> /\ writes = <<>> /\ batch = {}
    BY DEF StageInv
<1>2. CASE UNCHANGED pipelineVars
    BY <1>2 DEF pipelineVars, carbonVars, writerVars
<1>3. CASE SourceEnds \/ \E u \in Updates : Offer(u)
    BY <1>3 DEF SourceEnds, Offer, writerVars
<1>4. CASE WriterTask
    BY <1>1, <1>4 DEF WriterTask, WriterTakes, FlushOk, FlushFails,
                      WriterStops, carbonVars
<1>5. ~(Interrupt \/ Processor \/ Ending \/ RunFails)
    BY DEF Interrupt, Processor, Receive, Skip, Decode, Send, SavePool,
           PoolSaved, Ending, Close, Return, RunFails
<1> QED BY <1>2, <1>3, <1>4, <1>5 DEF PipelineStep, PipelineNext

LEMMA VerdictStep ==
    ASSUME TypeOK, SourceInv, StageInv, VerdictInv, [Next]_vars
    PROVE  VerdictInv'
<1>1. CASE Judge
    BY <1>1 DEF Judge, CountersAgree, VerdictInv, pipelineVars, carbonVars,
                writerVars
<1>2. CASE ~Judge
    <2>1. verdict' = verdict
        BY <1>2, ForwarderFrame, ProducerFrame
           DEF Next, SourceReturns, Inside, Over, vars
    <2>2. verdict = "keeps_up" => UNCHANGED <<stage, failed, decoded>>
        BY BenchStep, ReturnedStays DEF VerdictInv, TypeOK
    <2> QED BY <2>1, <2>2 DEF VerdictInv
<1> QED BY <1>1, <1>2

RunInv == BenchInv /\ PipelineInv /\ PlacedInv /\ VerdictInv

LEMMA RunInvAlways == Spec => []RunInv
<1>1. Init => RunInv
    <2>1. Init => VerdictInv
        BY DEF Init, VerdictInv
    <2> QED BY <2>1, BenchTypeInit, PipelineInvInit, PlacedInit
            DEF Init, RunInv, BenchInv
<1>2. RunInv /\ [Next]_vars => RunInv'
    <2> SUFFICES ASSUME RunInv, [Next]_vars
                 PROVE  RunInv'
        OBVIOUS
    <2>1. BenchInv'
        BY BenchTypeStep, SourceStep, EndStep DEF RunInv, BenchInv
    <2>2. [PipelineStep]_pipelineVars
        BY BenchStep DEF RunInv, BenchInv
    <2>3. PipelineInv' /\ PlacedInv'
        BY <2>2, PipelineInvStep, PlacedStep DEF RunInv, PipelineInv
    <2>4. VerdictInv'
        BY VerdictStep DEF RunInv, BenchInv, PipelineInv
    <2> QED BY <2>1, <2>3, <2>4 DEF RunInv
<1> QED BY <1>1, <1>2, PTL DEF Spec

(* A run that is said to keep up has a row of its own in the table for     *)
(* each event of each pass: nothing was given up, everything that was      *)
(* counted is flushed, and no two transactions share a signature.          *)
THEOREM HonestVerdict == Spec => []VerdictIsHonest
<1>1. RunInv => VerdictIsHonest
    <2> SUFFICES ASSUME RunInv, verdict = "keeps_up"
                 PROVE  Cardinality(events) = EventsPerPass * Repeat
        BY DEF VerdictIsHonest
    <2>1. /\ stage = "returned" /\ failed = {}
          /\ Cardinality(decoded) = EventsPerPass * Repeat
        BY DEF RunInv, VerdictInv
    <2>2. writes = <<>> /\ batch = {}
        BY <2>1 DEF RunInv, PipelineInv, StageInv
    <2>3. decoded = flushed /\ events = Identities(decoded)
        BY <2>1, <2>2, RangeEmpty DEF RunInv, PlacedInv, AtHand
    <2>4. decoded \in SUBSET Rows /\ IsFiniteSet(decoded)
        BY DEF RunInv, PipelineInv, PipelineTypeOK, PlacedInv
    <2> QED BY <2>1, <2>3, <2>4, AsManyRows
<1> QED BY <1>1, RunInvAlways, PTL

(* The benchmark's stop loses as little as the live command's.             *)
THEOREM BenchLosesNothing == Spec => []StopLosesNothing
<1>1. RunInv => StopLosesNothing
    BY ReturnedSettled DEF RunInv
<1> QED BY <1>1, RunInvAlways, PTL
----------------------------------------------------------------------------
(* Why the benchmark ends, although its two futures wait for each other.   *)

ReaderNearer ==
    /\ reader # "ended"
    /\ \/ reader' = "ended"
       \/ pass < pass'
       \/ /\ pass' = pass
          /\ \/ reader = "pass" /\ reader' # "pass"
             \/ /\ reader # "pass" /\ reader' # "pass"
                /\ \/ line < line'
                   \/ line' = line /\ reader = "line" /\ reader' = "send"

ForwarderLeft(f) ==
    CASE f = "sleep" -> 3 [] f = "send" -> 2 [] f = "recv" -> 1 [] OTHER -> 0

(* What is left of a run: the script the reader has to go through, what is *)
(* between it and Carbon, the pipeline, and the verdict.                   *)
BenchNearer ==
    \/ ReaderNearer
    \/ /\ UNCHANGED <<reader, pass, line>>
       /\ \/ Len(inner') < Len(inner)
          \/ /\ inner' = inner
             /\ \/ ForwarderLeft(forwarder') < ForwarderLeft(forwarder)
                \/ /\ forwarder' = forwarder
                   /\ \/ ~ended /\ ended'
                      \/ /\ ended' = ended
                         /\ \/ PipelineNearer
                            \/ /\ UNCHANGED pipelineVars
                               /\ verdict = "none" /\ verdict' # "none"

(* No step takes a benchmark back.  The passes and the lines of a pass are *)
(* bounded, so the steps of a run are.                                     *)
THEOREM BenchApproachesItsEnd == Spec => [][BenchNearer]_vars
<1>1. ASSUME BenchInv, [Next]_vars
      PROVE  [BenchNearer]_vars
    <2>1. CASE Producer
        <3>1. R!Read /\ pass \in Nat /\ line \in Nat
            BY <1>1, <2>1 DEF Producer, BenchInv, TypeOK, R!ReplayTypeOK
        <3>2. ReaderNearer
            BY <3>1 DEF ReaderNearer, R!Read, R!Stops, R!Opens, R!ReadFails,
                R!SkipLine, R!ReadLine, R!SendLine, R!SendRefused, R!PassEnds
        <3> QED BY <3>2 DEF BenchNearer
    <2>2. CASE Forwarder
        <3>1. UNCHANGED <<reader, pass, line>>
            BY <2>2, ForwarderFrame
        <3>2. CASE ForwarderReceives \/ ForwarderStops
            <4>1. inner # <<>> /\ inner' = Tail(inner) /\ inner \in Seq(Good)
                BY <1>1, <3>2 DEF ForwarderReceives, ForwarderStops, BenchInv,
                    TypeOK, R!ReplayTypeOK
            <4>2. Len(inner') < Len(inner)
                BY <4>1
            <4> QED BY <3>1, <4>2 DEF BenchNearer
        <3>3. CASE Paced \/ Forwarded \/ Refused \/ ForwarderEnds
            <4>1. inner' = inner
                      /\ ForwarderLeft(forwarder') < ForwarderLeft(forwarder)
                BY <3>3 DEF Paced, Forwarded, Refused, ForwarderEnds,
                    replayVars, ForwarderLeft
            <4> QED BY <3>1, <4>1 DEF BenchNearer
        <3> QED BY <2>2, <3>2, <3>3 DEF Forwarder
    <2>3. CASE SourceReturns
        BY <2>3 DEF SourceReturns, SourceEnds, replayVars, forwarderVars,
                    BenchNearer
    <2>4. CASE Inside
        <3>1. PipelineNearer
            BY <1>1, <2>4, PipelineApproaches DEF Inside, BenchInv, TypeOK
        <3>2. ended' = ended
            BY <2>4, InsideEnds DEF Inside
        <3> QED BY <2>4, <3>1, <3>2
                DEF Inside, BenchNearer, replayVars, forwarderVars
    <2>5. CASE Judge
        BY <2>5 DEF Judge, BenchNearer, pipelineVars, carbonVars, replayVars,
                    forwarderVars
    <2> QED BY <1>1, <2>1, <2>2, <2>3, <2>4, <2>5 DEF Next, Over
<1> QED BY <1>1, BenchInvAlways, PTL DEF Spec

(* Some step is open, without an error, the operator and a failing         *)
(* pipeline.run: these are the guards of the pipeline, the producer, the   *)
(* forwarder, the join and the verdict.                                    *)
BenchCanMove ==
    \/ PipelineCanMove
    \/ reader \in {"pass", "line"}
    \/ reader = "send" /\ (~innerOpen \/ inner = <<>>)
    \/ forwarder = "recv" /\ (inner # <<>> \/ reader = "ended")
    \/ forwarder = "sleep"
    \/ forwarder = "send" /\ (~receiving \/ (~ended /\ Len(updates) < ChannelCap))
    \/ forwarder = "done" /\ reader = "ended" /\ ~ended
    \/ stage = "returned" /\ verdict = "none"

BenchOver == ended /\ (stage = "error" \/ verdict # "none")

(* A forwarder that is over has closed its channel, or had its end.        *)
JoinInv ==
    /\ forwarder = "done" => ~innerOpen \/ reader = "ended"
    /\ HandleInv

LEMMA JoinStep == BenchInv /\ JoinInv /\ [Next]_vars => JoinInv'
<1> SUFFICES ASSUME BenchInv, JoinInv, [Next]_vars
             PROVE  JoinInv'
    OBVIOUS
<1>1. HandleInv'
    BY BenchStep, HandleStep DEF BenchInv, JoinInv
<1>2. (forwarder = "done" => ~innerOpen \/ reader = "ended")'
    <2> USE DEF JoinInv
    <2>1. CASE Producer
        <3>1. UNCHANGED <<forwarder, innerOpen>>
            BY <2>1, ProducerFrame DEF forwarderVars
        <3>2. reader = "ended" => FALSE
            BY <2>1 DEF Producer, R!Read, R!Stops, R!Opens, R!ReadFails,
                R!SkipLine, R!ReadLine, R!SendLine, R!SendRefused, R!PassEnds
        <3> QED BY <3>1, <3>2
    <2>2. CASE Forwarder
        <3>1. CASE ForwarderStops \/ Refused
            BY <3>1 DEF ForwarderStops, Refused
        <3>2. CASE ForwarderEnds
            BY <2>2, <3>2, ForwarderFrame DEF ForwarderEnds
        <3>3. CASE ForwarderReceives \/ Paced \/ Forwarded
            BY <3>3 DEF ForwarderReceives, Paced, Forwarded
        <3> QED BY <2>2, <3>1, <3>2, <3>3 DEF Forwarder
    <2>3. CASE SourceReturns \/ Inside \/ Judge \/ Over \/ UNCHANGED vars
        BY <2>3 DEF SourceReturns, Inside, Judge, Over, vars, replayVars,
                    forwarderVars
    <2> QED BY <2>1, <2>2, <2>3 DEF Next
<1> QED BY <1>1, <1>2 DEF JoinInv

(* A benchmark that is not over is never where nothing can move: a         *)
(* producer that waits for room has a forwarder that takes, or that has    *)
(* closed the channel, a forwarder that waits for room has a pipeline that *)
(* takes, or that has refused, and behind both the source returns.         *)
THEOREM BenchNeverStandsStill == Spec => [](~BenchOver => BenchCanMove)
<1>1. Init => JoinInv
    BY DEF Init, PipelineInit, JoinInv, HandleInv
<1>2. ASSUME RunInv, JoinInv, ~BenchOver
      PROVE  BenchCanMove
    <2> SUFFICES ASSUME ~BenchCanMove
                 PROVE  FALSE
        OBVIOUS
    <2>1. /\ reader \in {"pass", "line", "send", "ended"}
          /\ forwarder \in {"recv", "sleep", "send", "done"}
        BY <1>2 DEF RunInv, BenchInv, TypeOK, R!ReplayTypeOK, R!ReaderPlaces
    <2>2. stage \in {"returned", "error"} \/ Awaits
        BY <1>2, PipelineMoves
           DEF RunInv, PipelineInv, JoinInv, BenchCanMove
    <2>3. ~ended
        BY <1>2, <2>2 DEF BenchOver, BenchCanMove, Awaits
    <2>4. receiving => Len(updates) < ChannelCap
        BY <1>2, <2>2, CapAssumption
           DEF RunInv, PipelineInv, StageInv, JoinInv, HandleInv, Awaits
    <2>5. forwarder \in {"recv", "done"}
        BY <2>1, <2>3, <2>4 DEF BenchCanMove
    <2>6. reader # "ended"
        BY <2>3, <2>5 DEF BenchCanMove
    <2>7. innerOpen /\ inner # <<>>
        BY <2>1, <2>6 DEF BenchCanMove
    <2> QED BY <1>2, <2>5, <2>6, <2>7 DEF JoinInv, BenchCanMove
<1> QED BY <1>1, <1>2, JoinStep, RunInvAlways, BenchInvAlways, PTL DEF Spec
=============================================================================
