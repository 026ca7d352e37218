------------------------------- MODULE Repair -------------------------------
(***************************************************************************)
(* The repair command (src/repair.rs, and load_unrepaired, load_pools and  *)
(* write_repaired of src/db.rs) beside the processes that store events,    *)
(* trades and pools.                                                       *)
(*                                                                         *)
(* A run reads the pools, then the first LIMIT events that have no trade,  *)
(* in the order of their slots, and inserts the trades it can build, some  *)
(* at a time.  The writers are what module Writer promises: an event and   *)
(* the trade that came with it appear together.                            *)
(***************************************************************************)
EXTENDS Trades, FiniteSets

CONSTANTS
    SlotOf,     \* slot of an event
    Legacy,     \* events stored without a trade by an earlier version
    Stored,     \* pools in the table from the start
    Repairers,  \* processes that run repair
    Limit,      \* --limit, the rows read in a run
    ChunkSize,  \* rows inserted at a time
    MaxAborts   \* bound of the model: runs killed or failed

ASSUME TablesAssumption ==
    SlotOf \in [Ids -> Nat] /\ Legacy \subseteq Ids /\ Stored \subseteq Pools
ASSUME IdsAssumption == IsFiniteSet(Ids)
ASSUME LimitAssumption ==
    Limit \in Nat /\ ChunkSize \in Nat \ {0} /\ MaxAborts \in Nat

VARIABLES
    events, trades, pools,  \* the tables
    pc,      \* where a repair process is
    known,   \* the pools it read
    page,    \* the events it read
    ready,   \* those it has a row for and has not inserted
    aborts   \* history: for the bound

tables  == <<events, trades, pools>>
process == <<pc, known, page, ready>>
vars    == <<tables, process, aborts>>

Places == {"idle", "page", "write", "done"}

Init ==
    /\ events = Legacy /\ trades = {} /\ pools = Stored
    /\ pc = [r \in Repairers |-> "idle"]
    /\ known = [r \in Repairers |-> {}]
    /\ page = [r \in Repairers |-> {}]
    /\ ready = [r \in Repairers |-> {}]
    /\ aborts = 0

HasTrade(id) == \E t \in trades : t.id = id

(* The n members of S with the lowest slots; equal slots come in any order.*)
Lowest(S, n) ==
    {T \in SUBSET S :
        /\ Cardinality(T) = (IF Cardinality(S) < n THEN Cardinality(S) ELSE n)
        /\ \A i \in T, j \in S \ T : SlotOf[i] <= SlotOf[j]}

Buildable(S, pls) == {id \in S : Build(EventOf[id], pls) # {}}

----------------------------------------------------------------------------
(* Mistakes the properties below tell from the code.                       *)

(* The rows left over when the loop ends are not inserted.                 *)
FinishForgets(r) ==
    /\ pc[r] = "write"
    /\ Cardinality(ready[r]) < ChunkSize
    /\ ready' = [ready EXCEPT ![r] = {}]
    /\ pc' = [pc EXCEPT ![r] = "done"]
    /\ UNCHANGED <<tables, known, page, aborts>>

(* Every event is read, not only those without a trade.                    *)
EveryEvent == events

(* The page is not limited.                                                *)
LoadPageWhole(r) ==
    /\ pc[r] = "page"
    /\ page' = [page EXCEPT ![r] = {id \in events : ~HasTrade(id)}]
    /\ ready' = [ready EXCEPT ![r] = Buildable(page'[r], known[r])]
    /\ pc' = [pc EXCEPT ![r] = "write"]
    /\ UNCHANGED <<tables, known, aborts>>

----------------------------------------------------------------------------
(* The processes that write.                                               *)

(* INSERT ... ON CONFLICT DO NOTHING into trades.                          *)
Insert(new) == trades' = trades \union {t \in new : ~HasTrade(t.id)}

(* The live process, a backfill or a replay stores an event, with the pool *)
(* of the event in its cache or without.  It may lack a pool the table has,*)
(* and the event may be stored without its trade already.                  *)
Record(id, cached) ==
    /\ events' = events \union {id}
    /\ Insert([id : {id}, row : TradeOf(EventOf[id], cached)])
    /\ UNCHANGED <<pools, process, aborts>>

SavePool(p) ==
    /\ pools' = pools \union {p}
    /\ UNCHANGED <<events, trades, process, aborts>>

----------------------------------------------------------------------------
(* run_repair.                                                             *)

LoadPools(r) ==
    /\ pc[r] \in {"idle", "done"}
    /\ known' = [known EXCEPT ![r] = pools]
    /\ page' = [page EXCEPT ![r] = {}]
    /\ pc' = [pc EXCEPT ![r] = "page"]
    /\ UNCHANGED <<tables, ready, aborts>>

Unrepaired == {id \in events : ~HasTrade(id)}

(* Which events of the page get a row is settled here: nothing the loop    *)
(* looks at changes any more.                                              *)
LoadPage(r) ==
    /\ pc[r] = "page"
    /\ \E S \in Lowest(Unrepaired, Limit) :
          /\ page' = [page EXCEPT ![r] = S]
          /\ ready' = [ready EXCEPT ![r] = Buildable(S, known[r])]
    /\ pc' = [pc EXCEPT ![r] = "write"]
    /\ UNCHANGED <<tables, known, aborts>>

BuiltOf(S, pls) == UNION {[id : {i}, row : Build(EventOf[i], pls)] : i \in S}

(* The loop has gathered a chunk.                                          *)
WriteChunk(r) ==
    /\ pc[r] = "write"
    /\ Cardinality(ready[r]) >= ChunkSize
    /\ \E S \in Lowest(ready[r], ChunkSize) :
          /\ Insert(BuiltOf(S, known[r]))
          /\ ready' = [ready EXCEPT ![r] = @ \ S]
    /\ UNCHANGED <<events, pools, pc, known, page, aborts>>

(* The loop is over, and what is left is inserted.                         *)
Finish(r) ==
    /\ pc[r] = "write"
    /\ Cardinality(ready[r]) < ChunkSize
    /\ Insert(BuiltOf(ready[r], known[r]))
    /\ ready' = [ready EXCEPT ![r] = {}]
    /\ pc' = [pc EXCEPT ![r] = "done"]
    /\ UNCHANGED <<events, pools, known, page, aborts>>

(* A statement fails and ends the run, or the process is killed; the       *)
(* statement it was at may have been applied.                              *)
Abort(r) ==
    /\ aborts < MaxAborts
    /\ pc[r] \in {"page", "write"}
    /\ aborts' = aborts + 1
    /\ \/ UNCHANGED trades
       \/ \E S \in Lowest(ready[r], ChunkSize) : Insert(BuiltOf(S, known[r]))
    /\ pc' = [pc EXCEPT ![r] = "idle"]
    /\ page' = [page EXCEPT ![r] = {}]
    /\ ready' = [ready EXCEPT ![r] = {}]
    /\ UNCHANGED <<events, pools, known>>

----------------------------------------------------------------------------
Run(r) == LoadPools(r) \/ LoadPage(r) \/ WriteChunk(r) \/ Finish(r)

Next ==
    \/ \E id \in Ids, cached \in {{}, Pools} : Record(id, cached)
    \/ \E p \in Pools : SavePool(p)
    \/ \E r \in Repairers : Run(r) \/ Abort(r)

Spec == Init /\ [][Next]_vars

(* The operator runs repair again and again, and its statements end.       *)
FairSpec == Spec /\ \A r \in Repairers : WF_vars(Run(r))

----------------------------------------------------------------------------
(* Properties.                                                             *)

TypeOK ==
    /\ events \in SUBSET Ids
    /\ trades \in SUBSET [id : Ids, row : Rows]
    /\ pools \in SUBSET Pools
    /\ pc \in [Repairers -> Places]
    /\ known \in [Repairers -> SUBSET Pools]
    /\ page \in [Repairers -> SUBSET Ids]
    /\ ready \in [Repairers -> SUBSET Ids]
    /\ \A r \in Repairers : Cardinality(page[r]) <= Limit
    /\ aborts \in Nat

(* A trade, whoever wrote it and whenever, says what its event did: which  *)
(* mint the user got and which the user gave, and how much of each, on     *)
(* pools with wrapped SOL on either side.                                  *)
TradesAreTrue == \A t \in trades : RowFlow(t.row) = Flow(EventOf[t.id])

(* "Nothing unaccounted for": when a run is over, each event of its page   *)
(* has its trade, or the run had no row for it (pool unknown when the pools*)
(* were read, no wrapped SOL, payload unreadable), whatever was written    *)
(* beside it.                                                              *)
RunIsComplete ==
    \A r \in Repairers : pc[r] = "done" =>
        \A id \in page[r] : HasTrade(id) \/ Build(EventOf[id], known[r]) = {}

(* "repair writes the missing trade rows once the pool is known", if the   *)
(* events no run has a row for do not fill the page.                       *)
RepairedInTheEnd ==
    \A id \in Ids :
        id \in events /\ Build(EventOf[id], pools) # {} ~> HasTrade(id)
=============================================================================
