------------------------------- MODULE Writer -------------------------------
(***************************************************************************)
(* The write path: the bounded channel in front of the writer task, the    *)
(* task's select loop, and flush with its transaction and its dead         *)
(* letters (src/writer.rs, and the statements of src/db.rs it executes).   *)
(*                                                                         *)
(* Several processes may write to one database (live beside recover or     *)
(* backfill), so everything in memory is indexed by a writer.  One action  *)
(* is one step between two awaits.  A COMMIT is two steps, because the     *)
(* server may apply it after the client has stopped waiting for it.  Row   *)
(* locks are left out: they delay a statement and never change what it     *)
(* stores.                                                                 *)
(***************************************************************************)
EXTENDS EventRows

CONSTANTS
    Writers,     \* the processes that write to the database
    QueueSize,   \* capacity of the channel
    BatchSize,   \* rows that trigger a flush
    MaxSends,    \* bound of the model: rows sent in a behaviour
    MaxCrashes   \* bound of the model: processes killed in a behaviour

ASSUME QueueAssumption  == QueueSize \in Nat \ {0}
ASSUME BatchAssumption  == BatchSize \in Nat \ {0}
ASSUME BoundsAssumption == MaxSends \in Nat /\ MaxCrashes \in Nat

VARIABLES
    open,           \* some clone of the Writer handle is alive
    queue,          \* rows in the channel
    batch,          \* rows the task has taken and not yet cleared
    pc,             \* where the task is
    breaking,       \* the loop breaks when the current flush returns
    tx,             \* what the open transaction has staged
    committedSlot,  \* the gauge COMMITTED_SLOT of the process
    events, trades, checkpoint,   \* the tables
    deadLetters,    \* identities that have a dead letter
    orphans,        \* transactions whose COMMIT was sent and not awaited
    accepted,       \* history: rows the channel has taken
    lost,           \* history: rows a kill or a failed park dropped
    sends, crashes  \* history: how often, for the bounds

memory   == <<open, queue, batch, pc, breaking, tx, committedSlot>>
database == <<events, trades, checkpoint, deadLetters, orphans>>
tables   == <<events, trades, checkpoint>>
history  == <<accepted, lost, sends, crashes>>
vars     == <<memory, database, history>>

(* "select" awaits the channel or the tick, the next five await a          *)
(* statement of the transaction, "ack" awaits the answer to an applied     *)
(* COMMIT, "park" a connection and "insert" the insert of dead letters.    *)
Flushing == {"begin", "events", "trades", "checkpoint", "commit", "ack"}
Parking  == {"park", "insert"}
Over     == {"stopped", "down"}
Places   == {"select"} \union Flushing \union Parking \union Over

Larger(a, b) == IF a >= b THEN a ELSE b

Init ==
    /\ open = [w \in Writers |-> FALSE]
    /\ queue = [w \in Writers |-> <<>>]
    /\ batch = [w \in Writers |-> <<>>]
    /\ pc = [w \in Writers |-> "down"]
    /\ breaking = [w \in Writers |-> FALSE]
    /\ tx = [w \in Writers |-> EmptyTx]
    /\ committedSlot = [w \in Writers |-> 0]
    /\ events = {} /\ trades = {} /\ checkpoint = {}
    /\ deadLetters = {} /\ orphans = {}
    /\ accepted = {} /\ lost = {}
    /\ sends = 0 /\ crashes = 0

----------------------------------------------------------------------------
(* Mistakes the properties below tell from the code.                       *)

(* An unbounded channel: nothing holds the sender back.                    *)
SendUnbounded(w, row) ==
    /\ sends < MaxSends
    /\ open[w]
    /\ queue' = [queue EXCEPT ![w] = Append(@, row)]
    /\ accepted' = accepted \union {row}
    /\ sends' = sends + 1
    /\ UNCHANGED <<open, batch, pc, breaking, tx, committedSlot, database,
                   lost, crashes>>

(* None breaks without the last flush.                                     *)
RecvNoneUnflushed(w) ==
    /\ pc[w] = "select"
    /\ ~open[w]
    /\ queue[w] = <<>>
    /\ pc' = [pc EXCEPT ![w] = "stopped"]
    /\ UNCHANGED <<open, queue, batch, breaking, tx, committedSlot, database,
                   history>>

(* None flushes without the break.                                         *)
RecvNoneLoops(w) ==
    /\ pc[w] = "select"
    /\ ~open[w]
    /\ queue[w] = <<>>
    /\ pc' = [pc EXCEPT ![w] = IF batch[w] = <<>> THEN @ ELSE "begin"]
    /\ UNCHANGED <<open, queue, batch, breaking, tx, committedSlot, database,
                   history>>

(* No interval: only a full batch is flushed.                              *)
TickWhenFull(w) ==
    /\ pc[w] = "select"
    /\ Len(batch[w]) >= BatchSize
    /\ pc' = [pc EXCEPT ![w] = "begin"]
    /\ UNCHANGED <<open, queue, batch, breaking, tx, committedSlot, database,
                   history>>

(* write_events executed on the pool and not on the transaction.           *)
WriteEventsOnPool(w) ==
    /\ pc[w] = "events"
    /\ events' = events \union IdsOf(Range(batch[w]))
    /\ pc' = [pc EXCEPT ![w] = "trades"]
    /\ UNCHANGED <<open, queue, batch, breaking, tx, committedSlot, trades,
                   checkpoint, deadLetters, orphans, history>>

(* write_checkpoint executed on the pool and not on the transaction.       *)
WriteCheckpointOnPool(w) ==
    /\ pc[w] = "checkpoint"
    /\ \E i \in DOMAIN batch[w] : checkpoint' = {MarkOf(batch[w][i].id)}
    /\ pc' = [pc EXCEPT ![w] = "commit"]
    /\ UNCHANGED <<open, queue, batch, breaking, tx, committedSlot, events,
                   trades, deadLetters, orphans, history>>

(* The checkpoint taken from the last row and not from the newest.         *)
IsLast(seq, i) == i = Len(seq)

(* A failed batch is logged and cleared, as before there were dead letters.*)
FlushFailsUnparked(w) ==
    /\ pc[w] \in Flushing
    /\ batch' = [batch EXCEPT ![w] = <<>>]
    /\ pc' = [pc EXCEPT ![w] = IF breaking[w] THEN "stopped" ELSE "select"]
    /\ tx' = [tx EXCEPT ![w] = EmptyTx]
    /\ UNCHANGED <<open, queue, breaking, committedSlot, database, history>>

----------------------------------------------------------------------------
(* The handle and the channel.                                             *)

(* run_pipeline starts a task.  The gauge is a static of the process: a    *)
(* second pipeline of one process (recover) keeps it.                      *)
Spawn(w) ==
    /\ pc[w] \in Over
    /\ open' = [open EXCEPT ![w] = TRUE]
    /\ pc' = [pc EXCEPT ![w] = "select"]
    /\ breaking' = [breaking EXCEPT ![w] = FALSE]
    /\ \/ /\ pc[w] = "stopped"
          /\ UNCHANGED committedSlot
       \/ committedSlot' = [committedSlot EXCEPT ![w] = 0]
    /\ UNCHANGED <<queue, batch, tx, database, history>>

(* A processor's send completes once the channel has room; until then the  *)
(* processor waits, which is this action being disabled.                   *)
Send(w, row) ==
    /\ sends < MaxSends
    /\ open[w]
    /\ Len(queue[w]) < QueueSize
    /\ queue' = [queue EXCEPT ![w] = Append(@, row)]
    /\ accepted' = accepted \union {row}
    /\ sends' = sends + 1
    /\ UNCHANGED <<open, batch, pc, breaking, tx, committedSlot, database,
                   lost, crashes>>

(* The pipeline is over and the last handle is dropped.                    *)
CloseSenders(w) ==
    /\ open[w]
    /\ open' = [open EXCEPT ![w] = FALSE]
    /\ UNCHANGED <<queue, batch, pc, breaking, tx, committedSlot, database,
                   history>>

----------------------------------------------------------------------------
(* The select loop.                                                        *)

Recv(w) ==
    /\ pc[w] = "select"
    /\ queue[w] # <<>>
    /\ batch' = [batch EXCEPT ![w] = Append(@, Head(queue[w]))]
    /\ queue' = [queue EXCEPT ![w] = Tail(@)]
    /\ pc' = [pc EXCEPT ![w] =
                 IF Len(batch[w]) + 1 >= BatchSize THEN "begin" ELSE @]
    /\ UNCHANGED <<open, breaking, tx, committedSlot, database, history>>

(* recv returns None: no handle is left and the channel is empty.  The     *)
(* task flushes, which an empty batch skips, and leaves the loop.          *)
RecvNone(w) ==
    /\ pc[w] = "select"
    /\ ~open[w]
    /\ queue[w] = <<>>
    /\ pc' = [pc EXCEPT ![w] = IF batch[w] = <<>> THEN "stopped" ELSE "begin"]
    /\ breaking' = [breaking EXCEPT ![w] = TRUE]
    /\ UNCHANGED <<open, queue, batch, tx, committedSlot, database, history>>

(* The interval fires.  With an empty batch flush returns at once.         *)
Tick(w) ==
    /\ pc[w] = "select"
    /\ batch[w] # <<>>
    /\ pc' = [pc EXCEPT ![w] = "begin"]
    /\ UNCHANGED <<open, queue, batch, breaking, tx, committedSlot, database,
                   history>>

----------------------------------------------------------------------------
(* write_batch: one transaction, one statement at a time.                  *)

Begin(w) ==
    /\ pc[w] = "begin"
    /\ pc' = [pc EXCEPT ![w] = "events"]
    /\ UNCHANGED <<open, queue, batch, breaking, tx, committedSlot, database,
                   history>>

(* ON CONFLICT DO NOTHING: staging an identity that is stored adds nothing.*)
WriteEvents(w) ==
    /\ pc[w] = "events"
    /\ tx' = [tx EXCEPT ![w].events = IdsOf(Range(batch[w]))]
    /\ pc' = [pc EXCEPT ![w] = "trades"]
    /\ UNCHANGED <<open, queue, batch, breaking, committedSlot, database,
                   history>>

(* The foreign key of trades: without its event the statement is refused.  *)
WriteTrades(w) ==
    /\ pc[w] = "trades"
    /\ Traded(Range(batch[w])) \subseteq events \union tx[w].events
    /\ tx' = [tx EXCEPT ![w].trades = Traded(Range(batch[w]))]
    /\ pc' = [pc EXCEPT ![w] = "checkpoint"]
    /\ UNCHANGED <<open, queue, batch, breaking, committedSlot, database,
                   history>>

(* max_by_key returns the last of several maxima.                          *)
IsMaxByKey(seq, i) ==
    /\ \A j \in DOMAIN seq : SlotOf[seq[j].id] <= SlotOf[seq[i].id]
    /\ \A j \in DOMAIN seq :
          SlotOf[seq[j].id] = SlotOf[seq[i].id] => j <= i

WriteCheckpoint(w) ==
    /\ pc[w] = "checkpoint"
    /\ \E i \in DOMAIN batch[w] :
          /\ IsMaxByKey(batch[w], i)
          /\ tx' = [tx EXCEPT ![w].marks = {MarkOf(batch[w][i].id)}]
    /\ pc' = [pc EXCEPT ![w] = "commit"]
    /\ UNCHANGED <<open, queue, batch, breaking, committedSlot, database,
                   history>>

(* What the server makes visible at a COMMIT.  The checkpoint is one row,  *)
(* overwritten.                                                            *)
Apply(t) ==
    /\ events' = events \union t.events
    /\ trades' = trades \union t.trades
    /\ checkpoint' = IF t.marks = {} THEN checkpoint ELSE t.marks

Commit(w) ==
    /\ pc[w] = "commit"
    /\ Apply(tx[w])
    /\ pc' = [pc EXCEPT ![w] = "ack"]
    /\ UNCHANGED <<open, queue, batch, breaking, tx, committedSlot,
                   deadLetters, orphans, history>>

----------------------------------------------------------------------------
(* The three ways flush ends.                                              *)

(* Every way ends in batch.clear() and a return to the loop.               *)
Return(w) ==
    /\ batch' = [batch EXCEPT ![w] = <<>>]
    /\ pc' = [pc EXCEPT ![w] = IF breaking[w] THEN "stopped" ELSE "select"]

(* The answer arrives in time.  set_committed_slot is a fetch_max.         *)
FlushOk(w) ==
    /\ pc[w] = "ack"
    /\ \E m \in tx[w].marks :
          committedSlot' =
              [committedSlot EXCEPT ![w] = Larger(@, m.slot)]
    /\ tx' = [tx EXCEPT ![w] = EmptyTx]
    /\ Return(w)
    /\ UNCHANGED <<open, queue, breaking, database, history>>

(* A statement fails, or FLUSH_TIMEOUT elapses at any await.  Dropping the *)
(* transaction rolls it back, unless its COMMIT is with the server, which  *)
(* may still apply it.                                                     *)
FlushFails(w) ==
    /\ pc[w] \in Flushing
    /\ pc' = [pc EXCEPT ![w] = "park"]
    /\ orphans' =
          IF pc[w] = "commit" THEN orphans \union {tx[w]} ELSE orphans
    /\ tx' = [tx EXCEPT ![w] = EmptyTx]
    /\ UNCHANGED <<open, queue, batch, breaking, committedSlot, tables,
                   deadLetters, history>>

(* write_dead_letters has its connection.  sqlx bounds that wait, so it    *)
(* ends, here or in ParkFails.                                             *)
ParkBegins(w) ==
    /\ pc[w] = "park"
    /\ pc' = [pc EXCEPT ![w] = "insert"]
    /\ UNCHANGED <<open, queue, batch, breaking, tx, committedSlot, database,
                   history>>

Parked(w) ==
    /\ pc[w] = "insert"
    /\ deadLetters' = deadLetters \union IdsOf(Range(batch[w]))
    /\ Return(w)
    /\ UNCHANGED <<open, queue, breaking, tx, committedSlot, tables, orphans,
                   history>>

(* The rows may be parked all the same when only the answer was lost.  The *)
(* task reports the failure and clears the batch.                          *)
MayPark(w) ==
    \/ UNCHANGED deadLetters
    \/ /\ pc[w] = "insert"
       /\ deadLetters' = deadLetters \union IdsOf(Range(batch[w]))

ParkFails(w) ==
    /\ pc[w] \in Parking
    /\ MayPark(w)
    /\ lost' = lost \union IdsOf(Range(batch[w]))
    /\ Return(w)
    /\ UNCHANGED <<open, queue, breaking, tx, committedSlot, tables, orphans,
                   accepted, sends, crashes>>

----------------------------------------------------------------------------
(* The environment.                                                        *)

(* The server finishes a transaction nobody waits for.                     *)
OrphanCommits(t) ==
    /\ t \in orphans
    /\ Apply(t)
    /\ orphans' = orphans \ {t}
    /\ UNCHANGED <<memory, deadLetters, history>>

OrphanAborts(t) ==
    /\ t \in orphans
    /\ orphans' = orphans \ {t}
    /\ UNCHANGED <<memory, tables, deadLetters, history>>

(* The process is killed.  What it held in memory is gone, the gauge with  *)
(* it; a statement that is with the server may still take effect.          *)
Crash(w) ==
    /\ crashes < MaxCrashes
    /\ pc[w] # "down"
    /\ crashes' = crashes + 1
    /\ open' = [open EXCEPT ![w] = FALSE]
    /\ queue' = [queue EXCEPT ![w] = <<>>]
    /\ batch' = [batch EXCEPT ![w] = <<>>]
    /\ pc' = [pc EXCEPT ![w] = "down"]
    /\ breaking' = [breaking EXCEPT ![w] = FALSE]
    /\ tx' = [tx EXCEPT ![w] = EmptyTx]
    /\ committedSlot' = [committedSlot EXCEPT ![w] = 0]
    /\ orphans' =
          IF pc[w] = "commit" THEN orphans \union {tx[w]} ELSE orphans
    /\ MayPark(w)
    /\ lost' = lost \union IdsOf(Range(queue[w]) \union Range(batch[w]))
    /\ UNCHANGED <<tables, accepted, sends>>

----------------------------------------------------------------------------
Flush(w) ==
    \/ Begin(w) \/ WriteEvents(w) \/ WriteTrades(w) \/ WriteCheckpoint(w)
    \/ Commit(w) \/ FlushOk(w) \/ FlushFails(w)
    \/ ParkBegins(w) \/ Parked(w) \/ ParkFails(w)

Loop(w) == Recv(w) \/ RecvNone(w) \/ Tick(w)

Next ==
    \/ \E w \in Writers :
          \/ Spawn(w) \/ CloseSenders(w) \/ Crash(w)
          \/ \E row \in PendingWrites : Send(w, row)
          \/ Loop(w) \/ Flush(w)
    \/ \E t \in orphans : OrphanCommits(t) \/ OrphanAborts(t)

Spec == Init /\ [][Next]_vars

(* tokio polls a ready task and its timers: the loop takes what the        *)
(* channel has, the interval fires, FLUSH_TIMEOUT elapses and the pool     *)
(* gives up on a connection, whatever the database does.                   *)
TaskFairness(w) ==
    /\ WF_vars(Recv(w))
    /\ WF_vars(RecvNone(w))
    /\ WF_vars(Tick(w))
    /\ WF_vars(FlushFails(w))
    /\ WF_vars(pc[w] = "park" /\ (ParkBegins(w) \/ ParkFails(w)))

(* The database answers the insert of dead letters, well or badly.         *)
ParkAnswers(w) == pc[w] = "insert" /\ (Parked(w) \/ ParkFails(w))

FairSpec ==
    /\ Spec
    /\ \A w \in Writers : TaskFairness(w) /\ WF_vars(ParkAnswers(w))

----------------------------------------------------------------------------
(* Properties.                                                             *)

TypeOK ==
    /\ open \in [Writers -> BOOLEAN]
    /\ queue \in [Writers -> Seq(PendingWrites)]
    /\ batch \in [Writers -> Seq(PendingWrites)]
    /\ \A w \in Writers :
          Len(queue[w]) <= QueueSize /\ Len(batch[w]) <= BatchSize
    /\ pc \in [Writers -> Places]
    /\ breaking \in [Writers -> BOOLEAN]
    /\ tx \in [Writers -> Transactions]
    /\ committedSlot \in [Writers -> Nat]
    /\ events \in SUBSET Ids /\ trades \in SUBSET Ids
    /\ checkpoint \in SUBSET Marks
    /\ deadLetters \in SUBSET Ids /\ orphans \in SUBSET Transactions
    /\ accepted \in SUBSET PendingWrites /\ lost \in SUBSET Ids
    /\ sends \in Nat /\ crashes \in Nat

(* Rows a writer still holds.                                              *)
Held(w) == Range(queue[w]) \union Range(batch[w])

Settled == events \union deadLetters \union lost

(* A row the channel has taken is never silently gone: it is in memory, in *)
(* the database, parked, or it went with a killed process or a failed park *)
(* (the two losses DESIGN.md admits).                                      *)
Accounted ==
    \A r \in accepted :
        r.id \in Settled \/ \E w \in Writers : r \in Held(w)

(* Progress is never shown for rows that are not stored: the checkpoint    *)
(* and the gauge of every process name a stored event, whatever failed or  *)
(* was killed between the statements of a flush (README.md: the checkpoint *)
(* marker can never advance beyond what has been written).                 *)
ProgressIsStored ==
    /\ \A m \in checkpoint : \E e \in events : m = MarkOf(e)
    /\ \A w \in Writers :
          committedSlot[w] # 0 =>
              \E e \in events : SlotOf[e] = committedSlot[w]

(* An event is stored without its trade only because a row came without    *)
(* one, never because a flush was cut in half; and no trade is stored      *)
(* without its event.                                                      *)
TradesMatchEvents ==
    /\ \A e \in events \ trades :
          \E r \in accepted : r.id = e /\ ~r.trade
    /\ \A e \in trades :
          e \in events /\ \E r \in accepted : r.id = e /\ r.trade

(* A task that has left its loop leaves nothing behind in its channel or   *)
(* its batch, so a shutdown that waits for it loses no row.                *)
DrainedBeforeStop ==
    \A w \in Writers :
        pc[w] = "stopped" => ~open[w] /\ queue[w] = <<>> /\ batch[w] = <<>>

(* The writer implements the atomic store.                                 *)
Store == INSTANCE AtomicStore WITH
    accepted <- accepted, events <- events, trades <- trades,
    checkpoint <- checkpoint
StoreSpec == Store!StoreSpec

(* Every row the channel takes is eventually stored, parked or reported    *)
(* lost: a quiet stream does not leave a partial batch in memory.          *)
EveryRowSettles ==
    \A r \in PendingWrites : r \in accepted ~> r.id \in Settled

(* Once the last handle is dropped the task ends, so the shutdown that     *)
(* awaits it does.                                                         *)
ShutdownCompletes ==
    \A w \in Writers : ~open[w] ~> pc[w] \in Over
=============================================================================
