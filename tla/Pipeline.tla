------------------------------ MODULE Pipeline ------------------------------
(***************************************************************************)
(* What run_pipeline assembles (src/pipeline.rs): Carbon's channel of      *)
(* updates, the two processors that handle one instruction at a time       *)
(* (src/processors), the channel of the writer behind them, and the order  *)
(* in which a stop takes them down.                                        *)
(*                                                                         *)
(* The data source is left open: Offer is what a source does to put an     *)
(* update into Carbon's channel, and modules Live and Bench compose it     *)
(* with a source that discards and one that waits.  The writer task is the *)
(* promise of module Writer: the rows of a batch settle together, stored   *)
(* or given up.  Carbon itself is not in the repository; its part here is  *)
(* what the program relies on.                                             *)
(***************************************************************************)
EXTENDS Integers, Sequences, FiniteSets, Functions

CONSTANTS
    Ids,         \* event identities
    Body,        \* the instructions of an update, in order
    ChannelCap,  \* PIPELINE_QUEUE_SIZE
    WriteCap,    \* WRITE_QUEUE_SIZE
    BatchCap     \* BATCH_SIZE

Updates == DOMAIN Body

(* An instruction of a failed transaction, one without an event the        *)
(* program stores, one with a trade, and the creation of a pool.           *)
Kinds == {"failed", "other", "trade", "create"}

ASSUME BodyAssumption ==
    \A u \in Updates : Body[u] \in Seq([kind : Kinds, id : Ids])
ASSUME CapAssumption ==
    /\ ChannelCap \in Nat \ {0} /\ WriteCap \in Nat \ {0}
    /\ BatchCap \in Nat \ {0}

VARIABLES
    updates,    \* Carbon's channel
    receiving,  \* Carbon holds the receiver of it
    ended,      \* the data source has returned and dropped its sender
    cancelled,  \* the token of the data source
    stage,      \* where run_pipeline is
    hand,       \* the rows of the update at hand still to be processed
    handles,    \* a handle of the writer is alive
    writes,     \* the channel of the writer
    batch,      \* rows the task has taken and not settled
    writer,     \* the writer task
    events,     \* the table: identities
    decoded,    \* rows counted in EVENTS_DECODED and noted in the EventLog
    flushed,    \* rows observed in RECEIVE_TO_COMMITTED
    failed,     \* rows of batches that were given up
    taken       \* history: the updates Carbon's channel took, in order

carbonVars == <<updates, receiving, ended, cancelled, stage, hand, decoded,
                taken>>
writerVars == <<handles, writes, batch, writer, events, flushed, failed>>
pipelineVars == <<carbonVars, writerVars>>

(* A row is one instruction of one update; equal identities are one row of *)
(* the table.                                                              *)
RowsOf(u) == {<<u, k>> : k \in DOMAIN Body[u]}
Rows == UNION {RowsOf(u) : u \in Updates}
Instruction(r) == Body[r[1]][r[2]]
TradeRows(u) == {r \in RowsOf(u) : Instruction(r).kind = "trade"}
Identities(S) == {Instruction(r).id : r \in S}
InOrder(u) == [k \in DOMAIN Body[u] |-> <<u, k>>]

(* "saving" awaits the statement of PoolResolver::insert, "sending" awaits *)
(* room in the channel of the writer, "closing" awaits the writer task.    *)
Stages == {"run", "saving", "sending", "closing", "returned", "error"}

PipelineInit ==
    /\ updates = <<>> /\ receiving = TRUE
    /\ ended = FALSE /\ cancelled = FALSE
    /\ stage = "run" /\ hand = <<>>
    /\ handles = TRUE /\ writes = <<>> /\ batch = {} /\ writer = "running"
    /\ events = {} /\ decoded = {} /\ flushed = {} /\ failed = {}
    /\ taken = <<>>

----------------------------------------------------------------------------
(* Mistakes the properties of the compositions tell from the code.         *)

(* The handle lives on while the writer is awaited: drop(pipeline) comes   *)
(* after the await.                                                        *)
CloseLate ==
    /\ stage = "run" /\ hand = <<>>
    /\ updates = <<>> /\ ended
    /\ stage' = "closing"
    /\ receiving' = FALSE
    /\ UNCHANGED <<updates, ended, cancelled, hand, decoded, taken, writerVars>>

(* The end of the source ends the pipeline, and what is pending goes.      *)
CloseUndrained ==
    /\ stage = "run" /\ hand = <<>>
    /\ ended
    /\ updates' = <<>>
    /\ stage' = "closing"
    /\ receiving' = FALSE
    /\ handles' = FALSE
    /\ UNCHANGED <<ended, cancelled, hand, decoded, taken, writes, batch,
                   writer, events, flushed, failed>>

(* The writer task is not awaited.                                         *)
ReturnAtOnce ==
    /\ stage = "closing"
    /\ stage' = "returned"
    /\ UNCHANGED <<updates, receiving, ended, cancelled, hand, decoded, taken,
                   writerVars>>

(* try_send to the writer: a row that finds the channel full is dropped.   *)
SendOrDrop ==
    /\ stage = "sending"
    /\ writes' =
          IF Len(writes) < WriteCap THEN Append(writes, Head(hand)) ELSE writes
    /\ hand' = Tail(hand)
    /\ stage' = "run"
    /\ UNCHANGED <<updates, receiving, ended, cancelled, decoded, taken,
                   handles, batch, writer, events, flushed, failed>>

(* The processor sends without waiting for room.                           *)
SendPastFull ==
    /\ stage = "sending"
    /\ writes' = Append(writes, Head(hand))
    /\ hand' = Tail(hand)
    /\ stage' = "run"
    /\ UNCHANGED <<updates, receiving, ended, cancelled, decoded, taken,
                   handles, batch, writer, events, flushed, failed>>

----------------------------------------------------------------------------
(* Carbon.                                                                 *)

(* A send into Carbon's channel that completes.                            *)
Offer(u) ==
    /\ receiving /\ ~ended
    /\ Len(updates) < ChannelCap
    /\ updates' = Append(updates, u)
    /\ taken' = Append(taken, u)
    /\ UNCHANGED <<receiving, ended, cancelled, stage, hand, decoded,
                   writerVars>>

SourceEnds ==
    /\ ~ended
    /\ ended' = TRUE
    /\ UNCHANGED <<updates, receiving, cancelled, stage, hand, decoded, taken,
                   writerVars>>

(* Ctrl+C, which Carbon notices between two updates.  It cancels the data  *)
(* source and goes on with what is pending.                                *)
Interrupt ==
    /\ stage = "run" /\ hand = <<>>
    /\ ~cancelled
    /\ cancelled' = TRUE
    /\ UNCHANGED <<updates, receiving, ended, stage, hand, decoded, taken,
                   writerVars>>

Receive ==
    /\ stage = "run" /\ hand = <<>>
    /\ updates # <<>>
    /\ hand' = InOrder(Head(updates))
    /\ updates' = Tail(updates)
    /\ UNCHANGED <<receiving, ended, cancelled, stage, decoded, taken,
                   writerVars>>

----------------------------------------------------------------------------
(* The processors.                                                         *)

(* A failed transaction, or an instruction without an event to store.      *)
Skip ==
    /\ stage = "run" /\ hand # <<>>
    /\ Instruction(Head(hand)).kind \in {"failed", "other"}
    /\ hand' = Tail(hand)
    /\ UNCHANGED <<updates, receiving, ended, cancelled, stage, decoded, taken,
                   writerVars>>

(* The event is counted and noted before it is handed over.                *)
Decode ==
    /\ stage = "run" /\ hand # <<>>
    /\ Instruction(Head(hand)).kind = "trade"
    /\ decoded' = decoded \union {Head(hand)}
    /\ stage' = "sending"
    /\ UNCHANGED <<updates, receiving, ended, cancelled, hand, taken,
                   writerVars>>

(* Writer::send awaits room.  The task holds its receiver until the last   *)
(* handle is dropped, so the send does not fail.                           *)
Send ==
    /\ stage = "sending"
    /\ Len(writes) < WriteCap
    /\ writes' = Append(writes, Head(hand))
    /\ hand' = Tail(hand)
    /\ stage' = "run"
    /\ UNCHANGED <<updates, receiving, ended, cancelled, decoded, taken,
                   handles, batch, writer, events, flushed, failed>>

SavePool ==
    /\ stage = "run" /\ hand # <<>>
    /\ Instruction(Head(hand)).kind = "create"
    /\ stage' = "saving"
    /\ UNCHANGED <<updates, receiving, ended, cancelled, hand, decoded, taken,
                   writerVars>>

(* The statement ends, well or badly: an error is counted and forgotten.   *)
PoolSaved ==
    /\ stage = "saving"
    /\ hand' = Tail(hand)
    /\ stage' = "run"
    /\ UNCHANGED <<updates, receiving, ended, cancelled, decoded, taken,
                   writerVars>>

----------------------------------------------------------------------------
(* The writer task.                                                        *)

WriterTakes ==
    /\ writes # <<>>
    /\ Cardinality(batch) < BatchCap
    /\ batch' = batch \union {Head(writes)}
    /\ writes' = Tail(writes)
    /\ UNCHANGED <<carbonVars, handles, writer, events, flushed, failed>>

FlushOk ==
    /\ batch # {}
    /\ events' = events \union Identities(batch)
    /\ flushed' = flushed \union batch
    /\ batch' = {}
    /\ UNCHANGED <<carbonVars, handles, writes, writer, failed>>

(* The batch is parked, or lost and reported; a COMMIT the client did not  *)
(* wait for may have stored it all the same.                               *)
FlushFails ==
    /\ batch # {}
    /\ failed' = failed \union batch
    /\ \/ UNCHANGED events
       \/ events' = events \union Identities(batch)
    /\ batch' = {}
    /\ UNCHANGED <<carbonVars, handles, writes, writer, flushed>>

WriterStops ==
    /\ writer = "running"
    /\ ~handles /\ writes = <<>> /\ batch = {}
    /\ writer' = "over"
    /\ UNCHANGED <<carbonVars, handles, writes, batch, events, flushed,
                   failed>>

----------------------------------------------------------------------------
(* The end of run_pipeline.                                                *)

(* The source is over and its updates are processed: pipeline.run returns, *)
(* and drop(pipeline) drops the processors with their handles.             *)
Close ==
    /\ stage = "run" /\ hand = <<>>
    /\ updates = <<>> /\ ended
    /\ stage' = "closing"
    /\ receiving' = FALSE
    /\ handles' = FALSE
    /\ UNCHANGED <<updates, ended, cancelled, hand, decoded, taken, writes,
                   batch, writer, events, flushed, failed>>

Return ==
    /\ stage = "closing"
    /\ writer = "over"
    /\ stage' = "returned"
    /\ UNCHANGED <<updates, receiving, ended, cancelled, hand, decoded, taken,
                   writerVars>>

(* pipeline.run fails: the ? returns at once, and Carbon's receiver goes.  *)
RunFails ==
    /\ stage = "run" /\ hand = <<>>
    /\ stage' = "error"
    /\ receiving' = FALSE
    /\ handles' = FALSE
    /\ updates' = <<>>
    /\ UNCHANGED <<ended, cancelled, hand, decoded, taken, writes, batch,
                   writer, events, flushed, failed>>

----------------------------------------------------------------------------
Processor == Receive \/ Skip \/ Decode \/ Send \/ SavePool \/ PoolSaved
WriterTask == WriterTakes \/ FlushOk \/ FlushFails \/ WriterStops
Ending == Close \/ Return

PipelineNext == Interrupt \/ Processor \/ WriterTask \/ Ending \/ RunFails

(* Statements and flushes end, well or badly, and tokio polls what is      *)
(* ready.  The operator and a failing pipeline.run owe nothing.            *)
PipelineFairness ==
    /\ WF_pipelineVars(Processor)
    /\ WF_pipelineVars(WriterTakes)
    /\ WF_pipelineVars(FlushOk \/ FlushFails)
    /\ WF_pipelineVars(WriterStops)
    /\ WF_pipelineVars(Ending)

PipelineTypeOK ==
    /\ updates \in Seq(Updates) /\ Len(updates) <= ChannelCap
    /\ receiving \in BOOLEAN /\ ended \in BOOLEAN /\ cancelled \in BOOLEAN
    /\ stage \in Stages
    /\ hand \in Seq(Rows)
    /\ stage \in {"saving", "sending"} => hand # <<>>
    /\ handles \in BOOLEAN
    /\ writes \in Seq(Rows) /\ Len(writes) <= WriteCap
    /\ batch \in SUBSET Rows
    /\ writer \in {"running", "over"}
    /\ events \in SUBSET Ids
    /\ decoded \in SUBSET Rows /\ flushed \in SUBSET Rows
    /\ failed \in SUBSET Rows
    /\ taken \in Seq(Updates)

(* Where a row of a trade can be between Carbon's channel and the table.   *)
Waiting(r) ==
    \/ r[1] \in Range(updates)
    \/ r \in Range(hand)
    \/ r \in Range(writes)
    \/ r \in batch

Settled(r) ==
    \/ r \in flushed /\ Instruction(r).id \in events
    \/ r \in failed
=============================================================================
