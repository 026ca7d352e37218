---------------------------- MODULE AtomicStore ----------------------------
(***************************************************************************)
(* What the write path promises the rest of the indexer, with no batch     *)
(* loop, no statements and no failures: rows are accepted, and the         *)
(* database changes only by storing some accepted rows as one unit, their  *)
(* events, the trades they carry and a checkpoint that names a newest row  *)
(* of the same unit.  Module Writer implements it.                         *)
(***************************************************************************)
EXTENDS EventRows

VARIABLES
    accepted,    \* rows the writer's channel has taken
    events,      \* identities stored in table events
    trades,      \* identities stored in table trades
    checkpoint   \* the row of ingestion_checkpoints, if there is one

storeVars == <<accepted, events, trades, checkpoint>>

StoreInit ==
    /\ accepted = {}
    /\ events = {}
    /\ trades = {}
    /\ checkpoint = {}

Accept(r) ==
    /\ accepted' = accepted \union {r}
    /\ UNCHANGED <<events, trades, checkpoint>>

(* The rows of a unit may be in the database already: they were recorded   *)
(* live and come back from a replay or a backfill.                         *)
StoreUnit ==
    \E S \in SUBSET accepted : \E newest \in Newest(S) :
        /\ events' = events \union IdsOf(S)
        /\ trades' = trades \union Traded(S)
        /\ checkpoint' = {MarkOf(newest.id)}
        /\ UNCHANGED accepted

StoreNext ==
    \/ \E r \in PendingWrites : Accept(r)
    \/ StoreUnit

StoreSpec == StoreInit /\ [][StoreNext]_storeVars
=============================================================================
