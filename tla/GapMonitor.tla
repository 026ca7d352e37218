----------------------------- MODULE GapMonitor -----------------------------
(***************************************************************************)
(* How the live process notices slots it never saw (src/gaps.rs): the      *)
(* watermark both processors share, the bounded channel of reports, and    *)
(* the recorder that writes them to stream_gaps.  Carbon's Yellowstone     *)
(* client reports its own disconnections into the same channel.            *)
(*                                                                         *)
(* Carbon calls the processors one instruction at a time, so a check of a  *)
(* slot is one step; the recorder runs beside them.  Slots may arrive in   *)
(* any order.                                                              *)
(***************************************************************************)
EXTENDS Integers, Sequences, Functions

CONSTANTS
    Slots,       \* slots whose transactions the stream may deliver
    Tolerance,   \* SLOT_GAP_TOLERANCE
    QueueCap,    \* GAP_QUEUE_SIZE
    DbMayFail,   \* the insert of a gap fails
    MaxOutages,  \* bound of the model: reports by Carbon
    MaxRuns      \* bound of the model: starts of the process

(* Slot 0 is the genesis block; 0 in the watermark means no slot yet.      *)
ASSUME SlotsAssumption     == Slots \subseteq Nat \ {0}
ASSUME ToleranceAssumption == Tolerance \in Nat
ASSUME MonitorAssumption   ==
    /\ QueueCap \in Nat \ {0} /\ DbMayFail \in BOOLEAN
    /\ MaxOutages \in Nat /\ MaxRuns \in Nat

VARIABLES
    up,         \* the live process runs
    watermark,  \* the slot counter of the run
    queue,      \* reports sent and not received
    hand,       \* the report the recorder is writing, if any
    table,      \* rows of stream_gaps
    seen,       \* history: slots checked in this run
    first,      \* history: the first of them
    claims,     \* history: reports of the watermark in this run
    written,    \* history: reports whose insert succeeded
    lost,       \* history: reports that found no room, failed, or were dropped
    outages,    \* history: for the bound
    runs        \* history: for the bound

channel == <<queue, hand>>
history == <<seen, first, claims>>
bounds  == <<outages, runs>>
vars    == <<up, watermark, channel, table, history, written, lost, bounds>>

Detectors == {"watermark", "yellowstone-grpc"}
Reports   == [start : Slots, end : Slots, by : Detectors]

Report(a, b, d) == [start |-> a, end |-> b, by |-> d]

Larger(a, b) == IF a >= b THEN a ELSE b

Init ==
    /\ up = FALSE /\ watermark = 0
    /\ queue = <<>> /\ hand = {} /\ table = {}
    /\ seen = {} /\ first = 0 /\ claims = {}
    /\ written = {} /\ lost = {}
    /\ outages = 0 /\ runs = 0

----------------------------------------------------------------------------
(* Mistakes the properties below tell from the code.                       *)

(* The counter is stored, not advanced with fetch_max.                     *)
StoreSlot(s) == watermark' = s

(* One slot more than the tolerance passes.                                *)
JumpsPast(s) == watermark # 0 /\ s > watermark + Tolerance + 1

(* The sender does not look at the capacity of the channel.                *)
TrySendUnbounded(r) == queue' = Append(queue, r) /\ UNCHANGED lost

(* A report whose insert failed goes back into the channel.                *)
RecordFailsRequeues ==
    /\ up
    /\ DbMayFail
    /\ Len(queue) < QueueCap
    /\ \E r \in hand : queue' = Append(queue, r)
    /\ hand' = {}
    /\ UNCHANGED <<up, watermark, table, history, written, lost, bounds>>

----------------------------------------------------------------------------
(* check_slot.                                                             *)

Advance(s) == watermark' = Larger(watermark, s)

Jumps(s) == watermark # 0 /\ s > watermark + Tolerance

TrySend(r) ==
    \/ Len(queue) < QueueCap /\ queue' = Append(queue, r) /\ UNCHANGED lost
    \/ Len(queue) >= QueueCap /\ lost' = lost \union {r} /\ UNCHANGED queue

(* The watermark has moved when the report is sent, whether or not there   *)
(* is room for it.                                                         *)
CheckSlot(s) ==
    /\ up
    /\ Advance(s)
    /\ seen' = seen \union {s}
    /\ first' = IF seen = {} THEN s ELSE first
    /\ LET r == Report(watermark, s, "watermark")
       IN  \/ Jumps(s) /\ TrySend(r) /\ claims' = claims \union {r}
           \/ ~Jumps(s) /\ UNCHANGED <<queue, lost, claims>>
    /\ UNCHANGED <<up, hand, table, written, bounds>>

(* After an outage Carbon reports the last slot it had and the next it got.*)
CarbonReports(s) ==
    /\ up
    /\ outages < MaxOutages
    /\ watermark # 0 /\ s > watermark
    /\ outages' = outages + 1
    /\ TrySend(Report(watermark, s, "yellowstone-grpc"))
    /\ UNCHANGED <<up, watermark, hand, table, history, written, runs>>

----------------------------------------------------------------------------
(* spawn_gap_recorder.                                                     *)

(* ON CONFLICT (start_slot, end_slot) DO NOTHING.                          *)
Insert(r) ==
    table' = IF \E q \in table : q.start = r.start /\ q.end = r.end
             THEN table
             ELSE table \union {r}

RecorderReceives ==
    /\ up
    /\ hand = {} /\ queue # <<>>
    /\ hand' = {Head(queue)}
    /\ queue' = Tail(queue)
    /\ UNCHANGED <<up, watermark, table, history, written, lost, bounds>>

Record ==
    /\ up
    /\ \E r \in hand : Insert(r)
    /\ hand' = {}
    /\ written' = written \union hand
    /\ UNCHANGED <<up, watermark, queue, history, lost, bounds>>

(* The error is printed and the recorder goes on; the row may be there,    *)
(* when only the answer of the database was lost.                          *)
RecordFails ==
    /\ up
    /\ DbMayFail
    /\ \E r \in hand : Insert(r) \/ UNCHANGED table
    /\ hand' = {}
    /\ lost' = lost \union hand
    /\ UNCHANGED <<up, watermark, queue, history, written, bounds>>

----------------------------------------------------------------------------
(* Commands::Live in main, and run_pipeline: a new counter for each run.   *)

Start ==
    /\ ~up
    /\ runs < MaxRuns
    /\ up' = TRUE
    /\ runs' = runs + 1
    /\ watermark' = 0
    /\ seen' = {} /\ first' = 0 /\ claims' = {}
    /\ UNCHANGED <<channel, table, written, lost, outages>>

(* Killed, or stopped: nothing awaits the recorder, so what the channel    *)
(* holds goes with the process.  An insert under way may still be applied. *)
Stop ==
    /\ up
    /\ up' = FALSE
    /\ UNCHANGED table \/ \E r \in hand : Insert(r)
    /\ lost' = lost \union hand \union Range(queue)
    /\ queue' = <<>> /\ hand' = {}
    /\ UNCHANGED <<watermark, history, written, bounds>>

----------------------------------------------------------------------------
Recorder == RecorderReceives \/ Record \/ RecordFails

Next ==
    \/ \E s \in Slots : CheckSlot(s) \/ CarbonReports(s)
    \/ Recorder
    \/ Start \/ Stop

Spec == Init /\ [][Next]_vars

(* The runtime polls the recorder, and an insert ends well or badly.       *)
FairSpec == Spec /\ WF_vars(Recorder)

----------------------------------------------------------------------------
(* Properties.                                                             *)

TypeOK ==
    /\ up \in BOOLEAN
    /\ watermark \in Slots \union {0}
    /\ queue \in Seq(Reports) /\ Len(queue) <= QueueCap
    /\ hand \in SUBSET Reports /\ \A r, q \in hand : r = q
    /\ table \in SUBSET Reports
    /\ seen \in SUBSET Slots /\ first \in Slots \union {0}
    /\ claims \in SUBSET Reports
    /\ written \in SUBSET Reports /\ lost \in SUBSET Reports
    /\ outages \in Nat /\ runs \in Nat

(* Nothing longer than the tolerance is passed over in silence: a stretch  *)
(* of slots of this run with none seen inside lies in a range that is in   *)
(* the table or on its way there, or whose report was lost.  The slots may *)
(* have arrived in any order, late ones included, and Carbon may have      *)
(* recorded the range first.                                               *)
HolesAreReported ==
    \A a, b \in Slots :
        /\ seen # {}
        /\ first <= a /\ b <= watermark /\ b > a + Tolerance
        /\ \A s \in seen : s <= a \/ b <= s
        => \E r \in table \union Range(queue) \union hand \union lost :
              r.start <= a /\ b <= r.end

(* "Whichever processor reaches a gap first claims it while the second     *)
(* sees nothing": no slot lies in two ranges the watermark reported in a   *)
(* run, although slots arrive out of order.                                *)
ClaimedOnce ==
    \A r, q \in claims : r = q \/ r.end <= q.start \/ q.end <= r.start

(* A report in the channel is written, or lost and known to be, even when  *)
(* the insert of another fails.                                            *)
ReportsSettle ==
    \A r \in {q \in Reports : q.start < q.end} :
        r \in Range(queue) \union hand ~> r \in written \union lost
=============================================================================
