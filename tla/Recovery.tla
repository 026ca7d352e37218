------------------------------ MODULE Recovery ------------------------------
(***************************************************************************)
(* The recover command over the table stream_gaps (src/recover.rs), and    *)
(* the block backfill it runs for each gap (src/datasources/backfill.rs).  *)
(*                                                                         *)
(* A transaction stands for the events it holds.  The write path behind    *)
(* the backfill is the promise of the modules Pipeline and Writer: what it *)
(* is sent is stored, or it fails and is reported.  Nothing keeps two      *)
(* operators from running recover at once, and the live process may record *)
(* gaps meanwhile.                                                         *)
(***************************************************************************)
EXTENDS Integers

CONSTANTS
    Blocks,       \* the slots that produced a block
    Txs,          \* the transactions of the chain that hold events
    BlockOf,      \* the block of a transaction
    GapIds,       \* gap_id, in the order of insertion
    StartOf, EndOf,   \* the slots a gap was recorded with
    Overlap,      \* GAP_OVERLAP_SLOTS
    MaxAttempts,  \* RPC_MAX_ATTEMPTS
    Recoverers,   \* processes that run recover
    RpcMayFail,   \* the node refuses a request
    MayLack,      \* its answers lack blocks, or transactions one can use
    MayInterrupt, \* the operator presses Ctrl+C
    DbMayFail     \* a statement, a batch or the pipeline itself fails

ASSUME BlocksAssumption  == Blocks \subseteq Nat /\ BlockOf \in [Txs -> Blocks]
ASSUME GapsAssumption    ==
    /\ GapIds \subseteq Nat
    /\ StartOf \in [GapIds -> Nat] /\ EndOf \in [GapIds -> Nat]
ASSUME OverlapAssumption == Overlap \in Nat
ASSUME AttemptAssumption == MaxAttempts \in Nat \ {0}
ASSUME FaultAssumption   ==
    /\ RpcMayFail \in BOOLEAN /\ MayLack \in BOOLEAN
    /\ MayInterrupt \in BOOLEAN /\ DbMayFail \in BOOLEAN

VARIABLES
    status,     \* column status of a gap, "absent" before its row exists
    stored,     \* transactions whose events are in the database
    failed,     \* those of a batch the writer gave up, parked or reported
    pc,         \* where a recover process is
    todo,       \* the open gaps it read and is not done with
    covered,    \* gaps whose padded range it has been through
    slots,      \* slots of the current range still to fetch
    attempt,    \* which attempt at the first of them is next
    sent,       \* transactions handed to the pipeline and not yet written
    cancelled,  \* the token of the current pipeline is cancelled
    tried,      \* history: gaps whose backfill has started
    missed      \* history: transactions of a range a run has gone past

table   == <<status, stored, failed>>
process == <<pc, todo, covered, slots, attempt, sent, cancelled>>
history == <<tried, missed>>
vars    == <<table, process, history>>

Statuses == {"absent", "open", "recovering", "closed"}
Places   == {"idle", "next", "list", "fetch", "drain", "close"}

Init ==
    /\ status = [g \in GapIds |-> "absent"]
    /\ stored = {} /\ failed = {}
    /\ pc = [p \in Recoverers |-> "idle"]
    /\ todo = [p \in Recoverers |-> {}]
    /\ covered = [p \in Recoverers |-> {}]
    /\ slots = [p \in Recoverers |-> {}]
    /\ attempt = [p \in Recoverers |-> 1]
    /\ sent = [p \in Recoverers |-> {}]
    /\ cancelled = [p \in Recoverers |-> FALSE]
    /\ tried = {} /\ missed = {}

----------------------------------------------------------------------------
(* Mistakes the properties below tell from the code.                       *)

(* A range that only overlaps one already fetched passes for covered.      *)
TouchesCovered(p, g) ==
    \E c \in covered[p] :
        StartOf[g] <= EndOf[c] + Overlap /\ StartOf[c] <= EndOf[g] + Overlap

(* Every gap is read, not only the open ones.                              *)
AllGaps == {g \in GapIds : status[g] # "absent"}

(* The gap stays open until it is closed.                                  *)
MarkNotRecovering(g, s) ==
    status' = [status EXCEPT ![g] = IF s = "recovering" THEN @ ELSE s]

(* The loop gives up one attempt too late.                                 *)
LastAttemptPassed(p) == attempt[p] > MaxAttempts

(* After the last attempt the same block is tried again.                   *)
FetchStartsOver(p) ==
    /\ pc[p] = "fetch"
    /\ slots[p] # {}
    /\ attempt[p] >= MaxAttempts
    /\ attempt' = [attempt EXCEPT ![p] = 1]
    /\ UNCHANGED <<table, pc, todo, covered, slots, sent, cancelled, history>>

----------------------------------------------------------------------------
(* The table and the padded range of a gap.                                *)

OpenGaps == {g \in GapIds : status[g] = "open"}

Mark(g, s) == status' = [status EXCEPT ![g] = s]

(* saturating_sub                                                          *)
From(g) == IF StartOf[g] >= Overlap THEN StartOf[g] - Overlap ELSE 0
To(g)   == EndOf[g] + Overlap

BlocksOf(g) == {b \in Blocks : From(g) <= b /\ b <= To(g)}
TxsIn(S)    == {t \in Txs : BlockOf[t] \in S}

(* What an answer of the node may hold of what there is.                   *)
AnswersOf(whole) == {part \in SUBSET whole : MayLack \/ part = whole}

IsCovered(p, g) ==
    \E c \in covered[p] : From(g) >= From(c) /\ To(g) <= To(c)

First(S) == {s \in S : \A t \in S : s <= t}

(* A detector's row arrives from the live process.                         *)
Record(g) ==
    /\ status[g] = "absent"
    /\ \A h \in GapIds : h < g => status[h] # "absent"
    /\ Mark(g, "open")
    /\ UNCHANGED <<stored, failed, process, history>>

----------------------------------------------------------------------------
(* run_recover.                                                            *)

Start(p) ==
    /\ pc[p] = "idle"
    /\ todo' = [todo EXCEPT ![p] = OpenGaps]
    /\ pc' = [pc EXCEPT ![p] = "next"]
    /\ UNCHANGED <<table, covered, slots, attempt, sent, cancelled, history>>

(* The gap the loop is at: the gaps were read in the order of gap_id.      *)
Current(p) == First(todo[p])

(* The gap lies within a range this run has been through.                  *)
Skip(p) ==
    /\ pc[p] = "next"
    /\ \E g \in Current(p) :
          /\ IsCovered(p, g)
          /\ Mark(g, "closed")
          /\ todo' = [todo EXCEPT ![p] = @ \ {g}]
    /\ UNCHANGED <<stored, failed, pc, covered, slots, attempt, sent,
                   cancelled, history>>

(* The gap is marked before the work starts, in a pipeline of its own.     *)
Claim(p) ==
    /\ pc[p] = "next"
    /\ \E g \in Current(p) : ~IsCovered(p, g) /\ Mark(g, "recovering")
    /\ pc' = [pc EXCEPT ![p] = "list"]
    /\ UNCHANGED <<stored, failed, todo, covered, slots, attempt, sent,
                   cancelled, history>>

(* run_pipeline has returned, with nothing to say what it fetched.         *)
Close(p) ==
    /\ pc[p] = "close"
    /\ \E g \in Current(p) :
          /\ covered' = [covered EXCEPT ![p] = @ \union {g}]
          /\ Mark(g, "closed")
          /\ todo' = [todo EXCEPT ![p] = @ \ {g}]
    /\ pc' = [pc EXCEPT ![p] = "next"]
    /\ UNCHANGED <<stored, failed, slots, attempt, sent, cancelled, history>>

(* The process exits, and what it held is gone.                            *)
Exit(p) ==
    /\ pc' = [pc EXCEPT ![p] = "idle"]
    /\ todo' = [todo EXCEPT ![p] = {}]
    /\ covered' = [covered EXCEPT ![p] = {}]
    /\ slots' = [slots EXCEPT ![p] = {}]
    /\ attempt' = [attempt EXCEPT ![p] = 1]
    /\ sent' = [sent EXCEPT ![p] = {}]
    /\ cancelled' = [cancelled EXCEPT ![p] = FALSE]

Finish(p) ==
    /\ pc[p] = "next"
    /\ todo[p] = {}
    /\ Exit(p)
    /\ UNCHANGED <<table, history>>

(* An error of mark_gap, of priming the pool cache or of pipeline.run ends *)
(* the run, and the writer is not awaited.                                 *)
Abandon(p) ==
    /\ DbMayFail
    /\ pc[p] # "idle"
    /\ Exit(p)
    /\ UNCHANGED <<table, history>>

Kill(p) ==
    /\ pc[p] # "idle"
    /\ Exit(p)
    /\ UNCHANGED <<table, history>>

----------------------------------------------------------------------------
(* BackfillDatasource::consume, inside a pipeline of its own.              *)

(* getBlocks answers with the blocks of the range that the node has, and   *)
(* Carbon logs the error of a data source and goes on to its end.          *)
List(p) ==
    /\ pc[p] = "list"
    /\ \E g \in Current(p) :
          /\ tried' = tried \union {g}
          /\ \/ \E listed \in AnswersOf(BlocksOf(g)) :
                   /\ slots' = [slots EXCEPT ![p] = listed]
                   /\ pc' = [pc EXCEPT ![p] = "fetch"]
                   /\ missed' = missed \union TxsIn(BlocksOf(g) \ listed)
             \/ /\ RpcMayFail
                /\ pc' = [pc EXCEPT ![p] = "drain"]
                /\ missed' = missed \union TxsIn(BlocksOf(g))
                /\ UNCHANGED slots
    /\ UNCHANGED <<table, todo, covered, attempt, sent, cancelled>>

(* The token is looked at before each block, not between the attempts.     *)
MayFetch(p) == pc[p] = "fetch" /\ (attempt[p] > 1 \/ ~cancelled[p])

LastAttempt(p) == attempt[p] >= MaxAttempts

(* What the block holds is handed on, but for a transaction that does not  *)
(* decode, has no metadata, or none that can be converted, or no signature:*)
(* these, and a block that comes without its transactions, are passed over *)
(* without a word.                                                         *)
FetchOk(p) ==
    /\ MayFetch(p)
    /\ \E s \in First(slots[p]) : \E usable \in AnswersOf(TxsIn({s})) :
          /\ slots' = [slots EXCEPT ![p] = @ \ {s}]
          /\ sent' = [sent EXCEPT ![p] = @ \union usable]
          /\ missed' = missed \union (TxsIn({s}) \ usable)
    /\ attempt' = [attempt EXCEPT ![p] = 1]
    /\ UNCHANGED <<table, pc, todo, covered, cancelled, tried>>

FetchFails(p) ==
    /\ RpcMayFail
    /\ MayFetch(p)
    /\ slots[p] # {}
    /\ ~LastAttempt(p)
    /\ attempt' = [attempt EXCEPT ![p] = @ + 1]
    /\ UNCHANGED <<table, pc, todo, covered, slots, sent, cancelled,
                   history>>

(* After the last attempt the loop goes on with the next block.            *)
FetchGivesUp(p) ==
    /\ RpcMayFail
    /\ MayFetch(p)
    /\ LastAttempt(p)
    /\ \E s \in First(slots[p]) :
          /\ slots' = [slots EXCEPT ![p] = @ \ {s}]
          /\ missed' = missed \union TxsIn({s})
    /\ attempt' = [attempt EXCEPT ![p] = 1]
    /\ UNCHANGED <<table, pc, todo, covered, sent, cancelled, tried>>

(* No block is left, or the token is cancelled.  Nothing reads it after    *)
(* this, and the next pipeline has one of its own.                         *)
FetchEnds(p) ==
    /\ pc[p] = "fetch"
    /\ slots[p] = {} \/ ~MayFetch(p)
    /\ missed' = missed \union TxsIn(slots[p])
    /\ slots' = [slots EXCEPT ![p] = {}]
    /\ pc' = [pc EXCEPT ![p] = "drain"]
    /\ cancelled' = [cancelled EXCEPT ![p] = FALSE]
    /\ UNCHANGED <<table, todo, covered, attempt, sent, tried>>

(* Ctrl+C: Carbon cancels the data source and processes what is pending.   *)
(* While the blocks are listed nothing looks at the token: a Ctrl+C of that*)
(* time is seen where one before the first block is.                       *)
Interrupt(p) ==
    /\ MayInterrupt
    /\ pc[p] = "fetch"
    /\ ~cancelled[p]
    /\ cancelled' = [cancelled EXCEPT ![p] = TRUE]
    /\ UNCHANGED <<table, pc, todo, covered, slots, attempt, sent, history>>

----------------------------------------------------------------------------
(* The write path, and the end of the pipeline.                            *)

(* A batch holds what has reached the writer by then.                      *)
Store(p) ==
    /\ \E batch \in (SUBSET sent[p]) \ {{}} :
          /\ \/ stored' = stored \union batch /\ UNCHANGED failed
             \/ DbMayFail /\ failed' = failed \union batch /\ UNCHANGED stored
          /\ sent' = [sent EXCEPT ![p] = @ \ batch]
    /\ UNCHANGED <<status, pc, todo, covered, slots, attempt, cancelled,
                   history>>

(* run_pipeline awaits the writer, which has drained by then.              *)
Drained(p) ==
    /\ pc[p] = "drain"
    /\ sent[p] = {}
    /\ pc' = [pc EXCEPT ![p] = "close"]
    /\ UNCHANGED <<table, todo, covered, slots, attempt, sent, cancelled,
                   history>>

----------------------------------------------------------------------------
Run(p) == Skip(p) \/ Claim(p) \/ Finish(p) \/ Close(p)

Backfill(p) ==
    \/ List(p) \/ FetchOk(p) \/ FetchFails(p) \/ FetchGivesUp(p)
    \/ FetchEnds(p) \/ Drained(p)

Step(p) ==
    \/ Start(p) \/ Run(p) \/ Backfill(p) \/ Store(p) \/ Interrupt(p)
    \/ Abandon(p) \/ Kill(p)

Next ==
    \/ \E g \in GapIds : Record(g)
    \/ \E p \in Recoverers : Step(p)

Spec == Init /\ [][Next]_vars

(* A command that runs keeps running: every await of it ends, the node and *)
(* the database answer well or badly, and the writer keeps draining.       *)
FairSpec ==
    /\ Spec
    /\ \A p \in Recoverers :
          WF_vars(Run(p)) /\ WF_vars(Backfill(p)) /\ WF_vars(Store(p))

----------------------------------------------------------------------------
(* Properties.                                                             *)

TypeOK ==
    /\ status \in [GapIds -> Statuses]
    /\ stored \in SUBSET Txs /\ failed \in SUBSET Txs
    /\ pc \in [Recoverers -> Places]
    /\ todo \in [Recoverers -> SUBSET GapIds]
    /\ covered \in [Recoverers -> SUBSET GapIds]
    /\ slots \in [Recoverers -> SUBSET Blocks]
    /\ attempt \in [Recoverers -> 1 .. MaxAttempts]
    /\ sent \in [Recoverers -> SUBSET Txs]
    /\ cancelled \in [Recoverers -> BOOLEAN]
    /\ tried \in SUBSET GapIds /\ missed \in SUBSET Txs

(* A closed gap is accounted for: each transaction of its padded range is  *)
(* in the database, in a batch whose failure was parked or reported, or one*)
(* a backfill went past: the node refused its block or the listing, had not*)
(* the block or gave it without what the code can use, or Ctrl+C cut it    *)
(* off.  No other hole is left behind a closed gap: not by a range that    *)
(* passes for covered, a kill, an error, or another recover run.           *)
ClosedIsAccounted ==
    \A g \in GapIds :
        status[g] = "closed" =>
            TxsIn(BlocksOf(g)) \subseteq stored \union failed \union missed

(* A closed gap has been recovered: each transaction of its padded range is*)
(* in the database, or in a batch whose failure was parked or reported,    *)
(* even when the gap was closed without a fetch of its own because another *)
(* range covered it, and whatever kills and other recover runs intervened. *)
ClosedIsRecovered ==
    \A g \in GapIds :
        status[g] = "closed" =>
            TxsIn(BlocksOf(g)) \subseteq stored \union failed

(* "A crash leaves it visibly stuck rather than looking untried": a gap    *)
(* whose backfill has started is never open again.                         *)
StuckIsVisible == \A g \in tried : status[g] # "open"

(* "A gap moves open, then recovering, then closed": never backwards.      *)
Rank(s) ==
    CASE s = "absent" -> 0 [] s = "open" -> 1 [] s = "recovering" -> 2
      [] s = "closed" -> 3

GapNeverReopens ==
    [][\A g \in GapIds : Rank(status[g]) <= Rank(status'[g])]_vars

(* A recover run ends, however often the node refuses a block.             *)
RecoverTerminates == \A p \in Recoverers : pc[p] # "idle" ~> pc[p] = "idle"
=============================================================================
