---------------------------- MODULE PoolResolver ----------------------------
(***************************************************************************)
(* The pool cache of a process (src/pools.rs) and the part of the PumpSwap *)
(* processor that uses it (src/processors/pumpswap.rs).  A trade reads the *)
(* cache and, on a miss, asks a worker task through a bounded channel; the *)
(* worker asks the node and fills the cache, without the decimals of the   *)
(* mints, which the account of a pool does not hold.  A CreatePoolEvent    *)
(* fills the cache from the stream, decimals included.  Both save to the   *)
(* table pools, which several processes share and prime their caches from. *)
(*                                                                         *)
(* The mints of a pool never change, so an entry is what it knows: nothing *)
(* ("absent"), the mints, or the mints and their decimals ("full").        *)
(***************************************************************************)
EXTENDS Integers, Sequences, Functions

CONSTANTS
    Pools,        \* addresses of PumpSwap pools
    Procs,        \* processes that run a pipeline on the database
    QueueCap,     \* POOL_LOOKUP_QUEUE_SIZE
    RpcMayFail,   \* the node does not answer, or not with a pool
    DbMayFail     \* a statement on the table pools fails

ASSUME ResolverAssumption ==
    /\ QueueCap \in Nat \ {0}
    /\ RpcMayFail \in BOOLEAN /\ DbMayFail \in BOOLEAN

VARIABLES
    stored,     \* the table pools
    up,         \* the process runs its pipeline
    cache,      \* the pool cache
    requested,  \* the pools asked for, and whether POOL_RETRY_AFTER passed
    queue,      \* lookups sent and not received
    worker,     \* where the worker task is
    asked,      \* the pool it is at
    saving      \* pools whose creation the processor is saving

process == <<up, cache, requested, queue, worker, asked, saving>>
vars    == <<stored, process>>

Knowledge == {"absent", "mints", "full"}
Requests  == {"never", "fresh", "stale"}
Tasks     == {"idle", "asking", "saving"}

Nothing == [q \in Pools |-> "absent"]

Init ==
    /\ stored = Nothing
    /\ up = [p \in Procs |-> FALSE]
    /\ cache = [p \in Procs |-> Nothing]
    /\ requested = [p \in Procs |-> [q \in Pools |-> "never"]]
    /\ queue = [p \in Procs |-> <<>>]
    /\ worker = [p \in Procs |-> "idle"]
    /\ asked = [p \in Procs |-> {}]
    /\ saving = [p \in Procs |-> {}]

----------------------------------------------------------------------------
(* Mistakes the properties below tell from the code.                       *)

(* The row is replaced: decimals = EXCLUDED.decimals.                      *)
UpsertReplaces(q, k) == stored' = [stored EXCEPT ![q] = k]

(* A pool is asked for once.                                               *)
MayRequestOnce(p, q) == requested[p][q] = "never"

(* The sender does not look at the capacity of the channel.                *)
RequestUnbounded(p, q) == queue' = [queue EXCEPT ![p] = Append(@, q)]

(* A pool that is cached already is not saved again.                       *)
CreateUnlessCached(p, q) ==
    /\ up[p] /\ saving[p] = {}
    /\ cache' = [cache EXCEPT ![p][q] = "full"]
    /\ saving' = [saving EXCEPT ![p] = IF cache[p][q] = "absent" THEN {q} ELSE {}]
    /\ UNCHANGED <<stored, up, requested, queue, worker, asked>>

----------------------------------------------------------------------------
(* The table.                                                              *)

(* ON CONFLICT (pool) DO UPDATE keeps the decimals that are there.         *)
Upsert(q, k) ==
    stored' = [stored EXCEPT ![q] = IF @ = "full" THEN @ ELSE k]

(* The statement succeeds, fails, or succeeds and its answer is lost; the  *)
(* program counts an error and goes on alike.                              *)
Save(q, k) == Upsert(q, k) \/ (DbMayFail /\ UNCHANGED stored)

----------------------------------------------------------------------------
(* spawn_pool_resolver and prime, from run_pipeline.                       *)

Start(p) ==
    /\ ~up[p]
    /\ up' = [up EXCEPT ![p] = TRUE]
    /\ cache' = [cache EXCEPT ![p] = stored]
    /\ UNCHANGED <<stored, requested, queue, worker, asked, saving>>

(* The process ends or is killed, and a statement it sent may be applied.  *)
Stop(p) ==
    /\ up[p]
    /\ \/ UNCHANGED stored
       \/ \E q \in saving[p] : Upsert(q, "full")
       \/ worker[p] = "saving" /\ \E q \in asked[p] : Upsert(q, "mints")
    /\ up' = [up EXCEPT ![p] = FALSE]
    /\ cache' = [cache EXCEPT ![p] = Nothing]
    /\ requested' = [requested EXCEPT ![p] = [q \in Pools |-> "never"]]
    /\ queue' = [queue EXCEPT ![p] = <<>>]
    /\ worker' = [worker EXCEPT ![p] = "idle"]
    /\ asked' = [asked EXCEPT ![p] = {}]
    /\ saving' = [saving EXCEPT ![p] = {}]

----------------------------------------------------------------------------
(* PumpSwapEventProcessor.  Carbon calls it one instruction at a time, and *)
(* it awaits the save of a pool it saw created.                            *)

Free(p) == up[p] /\ saving[p] = {}

MayRequest(p, q) == requested[p][q] # "fresh"

Request(p, q) ==
    queue' = IF Len(queue[p]) < QueueCap
             THEN [queue EXCEPT ![p] = Append(@, q)]
             ELSE queue

(* resolve, on a miss: the pool counts as asked for from now on, whether   *)
(* or not the channel takes the lookup.  A hit changes nothing.            *)
Trade(p, q) ==
    /\ Free(p)
    /\ cache[p][q] = "absent"
    /\ MayRequest(p, q)
    /\ requested' = [requested EXCEPT ![p][q] = "fresh"]
    /\ Request(p, q)
    /\ UNCHANGED <<stored, up, cache, worker, asked, saving>>

(* POOL_RETRY_AFTER passes.                                                *)
Expire(p, q) ==
    /\ requested[p][q] = "fresh"
    /\ requested' = [requested EXCEPT ![p][q] = "stale"]
    /\ UNCHANGED <<stored, up, cache, queue, worker, asked, saving>>

(* A CreatePoolEvent: insert writes the cache, then saves.                 *)
Create(p, q) ==
    /\ Free(p)
    /\ cache' = [cache EXCEPT ![p][q] = "full"]
    /\ saving' = [saving EXCEPT ![p] = {q}]
    /\ UNCHANGED <<stored, up, requested, queue, worker, asked>>

CreateSaved(p) ==
    /\ \E q \in saving[p] : Save(q, "full")
    /\ saving' = [saving EXCEPT ![p] = {}]
    /\ UNCHANGED <<up, cache, requested, queue, worker, asked>>

----------------------------------------------------------------------------
(* The worker task.                                                        *)

(* What is cached by now is not asked for.                                 *)
Take(p) ==
    /\ worker[p] = "idle"
    /\ queue[p] # <<>>
    /\ queue' = [queue EXCEPT ![p] = Tail(@)]
    /\ LET q == Head(queue[p])
       IN  \/ /\ cache[p][q] = "absent"
              /\ worker' = [worker EXCEPT ![p] = "asking"]
              /\ asked' = [asked EXCEPT ![p] = {q}]
           \/ /\ cache[p][q] # "absent"
              /\ UNCHANGED <<worker, asked>>
    /\ UNCHANGED <<stored, up, cache, requested, saving>>

(* The entry is written over whatever the cache holds by now.              *)
Answer(p) ==
    /\ worker[p] = "asking"
    /\ \E q \in asked[p] : cache' = [cache EXCEPT ![p][q] = "mints"]
    /\ worker' = [worker EXCEPT ![p] = "saving"]
    /\ UNCHANGED <<stored, up, requested, queue, asked, saving>>

AnswerFails(p) ==
    /\ worker[p] = "asking"
    /\ RpcMayFail
    /\ worker' = [worker EXCEPT ![p] = "idle"]
    /\ asked' = [asked EXCEPT ![p] = {}]
    /\ UNCHANGED <<stored, up, cache, requested, queue, saving>>

AnswerSaved(p) ==
    /\ worker[p] = "saving"
    /\ \E q \in asked[p] : Save(q, "mints")
    /\ worker' = [worker EXCEPT ![p] = "idle"]
    /\ asked' = [asked EXCEPT ![p] = {}]
    /\ UNCHANGED <<up, cache, requested, queue, saving>>

----------------------------------------------------------------------------
Lookup(p) == Take(p) \/ Answer(p) \/ AnswerFails(p)
Saved(p)  == CreateSaved(p) \/ AnswerSaved(p)

Next ==
    \E p \in Procs :
        \/ Start(p) \/ Stop(p)
        \/ Lookup(p) \/ Saved(p)
        \/ \E q \in Pools : Trade(p, q) \/ Create(p, q) \/ Expire(p, q)

Spec == Init /\ [][Next]_vars

(* The worker is polled and its requests end, time passes, and each pool   *)
(* keeps trading: "the pool trades again within seconds", and its trades   *)
(* reach the processor in turn, among the creations of other pools.        *)
LookupFairness(p) ==
    /\ WF_vars(Lookup(p))
    /\ \A q \in Pools : SF_vars(Trade(p, q)) /\ WF_vars(Expire(p, q))

(* Statements end as well.  The pool of connections bounds the wait for a  *)
(* connection; nothing in the program bounds the statement.                *)
StatementsEnd(p) == WF_vars(CreateSaved(p)) /\ WF_vars(AnswerSaved(p))

FairSpec == Spec /\ \A p \in Procs : LookupFairness(p) /\ StatementsEnd(p)

----------------------------------------------------------------------------
(* Properties.                                                             *)

TypeOK ==
    /\ stored \in [Pools -> Knowledge]
    /\ up \in [Procs -> BOOLEAN]
    /\ cache \in [Procs -> [Pools -> Knowledge]]
    /\ requested \in [Procs -> [Pools -> Requests]]
    /\ queue \in [Procs -> Seq(Pools)]
    /\ \A p \in Procs : Len(queue[p]) <= QueueCap
    /\ worker \in [Procs -> Tasks]
    /\ asked \in [Procs -> SUBSET Pools]
    /\ saving \in [Procs -> SUBSET Pools]
    /\ \A p \in Procs :
          /\ \A q, r \in asked[p] : q = r
          /\ \A q, r \in saving[p] : q = r

Rank(k) == CASE k = "absent" -> 0 [] k = "mints" -> 1 [] k = "full" -> 2

(* The table never forgets: a save that knows only the mints, and comes    *)
(* after one that knew the decimals, from this task, from another process  *)
(* or from one that has ended since, leaves the decimals.                  *)
StoredNeverForgets ==
    [][\A q \in Pools : Rank(stored[q]) <= Rank(stored'[q])]_vars

(* What a process has cached is in the table or being saved: as long as    *)
(* no statement fails, a restart primes with all that was known, whichever *)
(* of the processor and the worker cached it, and in whatever order.       *)
CachedIsSaved ==
    \A p \in Procs, q \in Pools :
        \/ Rank(cache[p][q]) <= Rank(stored[q])
        \/ q \in saving[p]
        \/ worker[p] = "saving" /\ q \in asked[p]

(* A pool that was asked for gets resolved, although the channel drops     *)
(* lookups when it is full, if the process stays up and the node answers.  *)
RequestedResolves ==
    \A p \in Procs, q \in Pools :
        requested[p][q] # "never" ~> cache[p][q] # "absent" \/ ~up[p]
=============================================================================
