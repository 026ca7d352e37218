------------------------ MODULE PoolResolverProofs ------------------------
(***************************************************************************)
(* Proofs about PoolResolver, for every set of pools and of processes and  *)
(* every size of the channel.                                              *)
(***************************************************************************)
EXTENDS PoolResolver, TLAPS

LEMMA TypeInit == Init => TypeOK
<1>1. <<>> \in Seq(Pools) /\ Len(<<>>) = 0 /\ 0 <= QueueCap
    BY ResolverAssumption
<1>2. ASSUME Init
      PROVE  /\ queue \in [Procs -> Seq(Pools)]
             /\ \A p \in Procs : Len(queue[p]) <= QueueCap
    BY <1>1, <1>2 DEF Init
<1>3. ASSUME Init
      PROVE  /\ stored \in [Pools -> Knowledge]
             /\ up \in [Procs -> BOOLEAN]
             /\ cache \in [Procs -> [Pools -> Knowledge]]
             /\ requested \in [Procs -> [Pools -> Requests]]
             /\ worker \in [Procs -> Tasks]
    BY <1>3 DEF Init, Nothing, Knowledge, Requests, Tasks
<1>4. ASSUME Init
      PROVE  /\ asked \in [Procs -> SUBSET Pools]
             /\ saving \in [Procs -> SUBSET Pools]
             /\ \A p \in Procs :
                   /\ \A q, r \in asked[p] : q = r
                   /\ \A q, r \in saving[p] : q = r
    BY <1>4 DEF Init
<1> QED BY <1>2, <1>3, <1>4 DEF TypeOK

(* An upsert keeps the type of the table and what the table knows, and     *)
(* leaves at least what it was given.                                      *)
LEMMA Upserted ==
    ASSUME NEW q \in Pools, NEW k \in Knowledge,
           stored \in [Pools -> Knowledge], Upsert(q, k), k # "absent"
    PROVE  /\ stored' \in [Pools -> Knowledge]
           /\ \A r \in Pools : Rank(stored[r]) <= Rank(stored'[r])
           /\ Rank(k) <= Rank(stored'[q])
BY DEF Upsert, Knowledge, Rank

(* No step makes the table forget.                                         *)
StoredKept ==
    /\ stored' \in [Pools -> Knowledge]
    /\ \A q \in Pools : Rank(stored[q]) <= Rank(stored'[q])

LEMMA StoredStep ==
    ASSUME TypeOK, [Next]_vars
    PROVE  StoredKept
<1>1. stored \in [Pools -> Knowledge]
    BY DEF TypeOK
<1>2. ASSUME UNCHANGED stored
      PROVE  StoredKept
    BY <1>1, <1>2 DEF StoredKept, Knowledge, Rank
<1>3. ASSUME NEW q \in Pools, NEW k \in {"mints", "full"}, Upsert(q, k)
      PROVE  StoredKept
    BY <1>1, <1>3, Upserted DEF StoredKept, Knowledge
<1>4. ASSUME NEW p \in Procs, Stop(p)
      PROVE  StoredKept
    <2>1. asked[p] \subseteq Pools /\ saving[p] \subseteq Pools
        BY DEF TypeOK
    <2> QED BY <1>2, <1>3, <1>4, <2>1 DEF Stop
<1>5. ASSUME NEW p \in Procs, Saved(p)
      PROVE  StoredKept
    <2>1. asked[p] \subseteq Pools /\ saving[p] \subseteq Pools
        BY DEF TypeOK
    <2> QED BY <1>2, <1>3, <1>5, <2>1 DEF Saved, CreateSaved, AnswerSaved, Save
<1>6. ASSUME NEW p \in Procs, NEW q \in Pools,
             Trade(p, q) \/ Create(p, q) \/ Expire(p, q)
      PROVE  StoredKept
    BY <1>6, <1>2 DEF Trade, Create, Expire
<1>7. ASSUME NEW p \in Procs, Start(p) \/ Lookup(p)
      PROVE  StoredKept
    BY <1>7, <1>2 DEF Start, Lookup, Take, Answer, AnswerFails
<1>8. CASE UNCHANGED vars
    BY <1>8, <1>2 DEF vars
<1> QED BY <1>4, <1>5, <1>6, <1>7, <1>8 DEF Next

LEMMA TypeNext == TypeOK /\ [Next]_vars => TypeOK'
<1> SUFFICES ASSUME TypeOK, [Next]_vars
             PROVE  TypeOK'
    OBVIOUS
<1>0. stored' \in [Pools -> Knowledge]
    BY StoredStep DEF StoredKept
<1> USE <1>0
<1>1. ASSUME NEW p \in Procs, Start(p)
      PROVE  TypeOK'
    BY <1>1 DEF Start, TypeOK
<1>2. ASSUME NEW p \in Procs, Stop(p)
      PROVE  TypeOK'
    <2>1. <<>> \in Seq(Pools) /\ Len(<<>>) = 0 /\ 0 <= QueueCap
        BY ResolverAssumption
    <2>2. Nothing \in [Pools -> Knowledge]
        BY DEF Nothing, Knowledge
    <2>3. [q \in Pools |-> "never"] \in [Pools -> Requests]
        BY DEF Requests
    <2>4. /\ queue' = [queue EXCEPT ![p] = <<>>]
          /\ cache' = [cache EXCEPT ![p] = Nothing]
          /\ requested' = [requested EXCEPT ![p] = [q \in Pools |-> "never"]]
        BY <1>2 DEF Stop
    <2>5. /\ queue' \in [Procs -> Seq(Pools)]
          /\ \A r \in Procs : Len(queue'[r]) <= QueueCap
        BY <2>1, <2>4 DEF TypeOK
    <2>6. /\ cache' \in [Procs -> [Pools -> Knowledge]]
          /\ requested' \in [Procs -> [Pools -> Requests]]
        BY <2>2, <2>3, <2>4 DEF TypeOK
    <2>7. /\ up' = [up EXCEPT ![p] = FALSE]
          /\ worker' = [worker EXCEPT ![p] = "idle"]
          /\ asked' = [asked EXCEPT ![p] = {}]
          /\ saving' = [saving EXCEPT ![p] = {}]
        BY <1>2 DEF Stop
    <2> QED BY <2>5, <2>6, <2>7 DEF TypeOK, Tasks
<1>3. ASSUME NEW p \in Procs, NEW q \in Pools, Trade(p, q)
      PROVE  TypeOK'
    <2>1. requested' \in [Procs -> [Pools -> Requests]]
        BY <1>3 DEF Trade, TypeOK, Requests
    <2>2. CASE Len(queue[p]) < QueueCap
        <3>1. queue' = [queue EXCEPT ![p] = Append(@, q)]
            BY <1>3, <2>2 DEF Trade, Request
        <3>2. /\ Append(queue[p], q) \in Seq(Pools)
              /\ Len(Append(queue[p], q)) <= QueueCap
            BY <2>2, ResolverAssumption DEF TypeOK
        <3>3. /\ queue' \in [Procs -> Seq(Pools)]
              /\ \A r \in Procs : Len(queue'[r]) <= QueueCap
            BY <3>1, <3>2 DEF TypeOK
        <3> QED BY <1>3, <2>1, <3>3 DEF Trade, TypeOK
    <2>3. CASE ~(Len(queue[p]) < QueueCap)
        BY <1>3, <2>1, <2>3 DEF Trade, Request, TypeOK
    <2> QED BY <2>2, <2>3
<1>4. ASSUME NEW p \in Procs, NEW q \in Pools, Expire(p, q)
      PROVE  TypeOK'
    BY <1>4 DEF Expire, TypeOK, Requests
<1>5. ASSUME NEW p \in Procs, NEW q \in Pools, Create(p, q)
      PROVE  TypeOK'
    <2>1. cache' \in [Procs -> [Pools -> Knowledge]]
        BY <1>5 DEF Create, TypeOK, Knowledge
    <2> QED BY <1>5, <2>1 DEF Create, TypeOK
<1>6. ASSUME NEW p \in Procs, Saved(p)
      PROVE  TypeOK'
    <2>1. CASE CreateSaved(p)
        BY <2>1 DEF CreateSaved, TypeOK
    <2>2. CASE AnswerSaved(p)
        BY <2>2 DEF AnswerSaved, TypeOK, Tasks
    <2> QED BY <1>6, <2>1, <2>2 DEF Saved
<1>7. ASSUME NEW p \in Procs, Take(p)
      PROVE  TypeOK'
    <2> DEFINE q == Head(queue[p])
    <2>1. /\ q \in Pools
          /\ Tail(queue[p]) \in Seq(Pools) /\ Len(Tail(queue[p])) <= QueueCap
        BY <1>7, ResolverAssumption DEF Take, TypeOK
    <2>2. /\ queue' \in [Procs -> Seq(Pools)]
          /\ \A r \in Procs : Len(queue'[r]) <= QueueCap
        BY <1>7, <2>1 DEF Take, TypeOK
    <2> HIDE DEF q
    <2>3. CASE /\ worker' = [worker EXCEPT ![p] = "asking"]
               /\ asked' = [asked EXCEPT ![p] = {q}]
        BY <1>7, <2>1, <2>2, <2>3 DEF Take, TypeOK, Tasks
    <2>4. CASE UNCHANGED <<worker, asked>>
        BY <1>7, <2>2, <2>4 DEF Take, TypeOK
    <2> QED BY <1>7, <2>3, <2>4 DEF Take, q
<1>8. ASSUME NEW p \in Procs, Answer(p)
      PROVE  TypeOK'
    <2>1. cache' \in [Procs -> [Pools -> Knowledge]]
        BY <1>8 DEF Answer, TypeOK, Knowledge
    <2> QED BY <1>8, <2>1 DEF Answer, TypeOK, Tasks
<1>9. ASSUME NEW p \in Procs, AnswerFails(p)
      PROVE  TypeOK'
    BY <1>9 DEF AnswerFails, TypeOK, Tasks
<1>10. CASE UNCHANGED vars
    BY <1>10 DEF vars, process, TypeOK
<1> QED BY <1>1, <1>2, <1>3, <1>4, <1>5, <1>6, <1>7, <1>8, <1>9, <1>10
        DEF Next, Lookup

(* Every variable keeps its type, and the channel its bound.               *)
THEOREM TypeCorrect == Spec => []TypeOK
BY TypeInit, TypeNext, PTL DEF Spec

(* The table never forgets what any process knew of a pool.                *)
THEOREM NeverForgets == Spec => StoredNeverForgets
<1>1. TypeOK /\ [Next]_vars
          => [\A q \in Pools : Rank(stored[q]) <= Rank(stored'[q])]_vars
    BY StoredStep DEF StoredKept
<1> QED BY <1>1, TypeCorrect, PTL DEF Spec, StoredNeverForgets

----------------------------------------------------------------------------
(* A cached entry that the table does not hold yet is being saved, by the  *)
(* task that cached it; what the worker is saving is no more than mints.   *)

Caching(p, q) ==
    \/ Rank(cache[p][q]) <= Rank(stored[q])
    \/ q \in saving[p]
    \/ worker[p] = "saving" /\ q \in asked[p] /\ cache[p][q] = "mints"

SavedInv == TypeOK /\ \A p \in Procs, q \in Pools : Caching(p, q)

LEMMA SavedNext ==
    ASSUME ~DbMayFail, SavedInv, [Next]_vars
    PROVE  SavedInv'
<1>0. TypeOK' /\ StoredKept
    BY TypeNext, StoredStep DEF SavedInv
<1> USE <1>0 DEF SavedInv
(* Only the entries a step changes need an argument: the table only grows. *)
<1>1. ASSUME NEW p \in Procs, NEW q \in Pools,
             \/ Rank(cache'[p][q]) <= Rank(stored[q])
             \/ cache'[p][q] = cache[p][q]
                   /\ Rank(cache[p][q]) <= Rank(stored[q])
      PROVE  Caching(p, q)'
    <2>1. /\ Rank(stored[q]) <= Rank(stored'[q])
          /\ stored[q] \in Knowledge /\ stored'[q] \in Knowledge
          /\ cache'[p][q] \in Knowledge
        BY DEF StoredKept, TypeOK
    <2>2. Rank(cache'[p][q]) <= Rank(stored'[q])
        BY <1>1, <2>1 DEF Knowledge, Rank
    <2> QED BY <2>2 DEF Caching
<1>2. ASSUME NEW p \in Procs, NEW q \in Pools,
             cache'[p][q] = cache[p][q],
             q \in saving[p] => q \in saving'[p],
             worker[p] = "saving" /\ q \in asked[p]
                 => worker'[p] = "saving" /\ q \in asked'[p]
      PROVE  Caching(p, q)'
    BY <1>1, <1>2 DEF Caching
<1>3. ASSUME NEW p \in Procs,
             \A r \in Procs \ {p} :
                 /\ cache'[r] = cache[r] /\ saving'[r] = saving[r]
                 /\ worker'[r] = worker[r] /\ asked'[r] = asked[r],
             \A q \in Pools : Caching(p, q)'
      PROVE  SavedInv'
    BY <1>2, <1>3
<1>4. ASSUME NEW p \in Procs, Start(p)
      PROVE  SavedInv'
    <2>1. cache'[p] = stored
        BY <1>4 DEF Start, TypeOK
    <2>2. \A q \in Pools : Rank(stored[q]) <= Rank(stored[q])
        BY DEF TypeOK, Knowledge, Rank
    <2> QED BY <1>4, <1>1, <1>3, <2>1, <2>2 DEF Start, TypeOK
<1>5. ASSUME NEW p \in Procs, Stop(p)
      PROVE  SavedInv'
    <2>1. \A q \in Pools : cache'[p][q] = "absent"
        BY <1>5 DEF Stop, TypeOK, Nothing
    <2>2. \A q \in Pools : Rank(cache'[p][q]) <= Rank(stored[q])
        BY <2>1 DEF TypeOK, Knowledge, Rank
    <2>3. \A q \in Pools : Caching(p, q)'
        BY <1>1, <2>2
    <2>4. \A r \in Procs \ {p} :
              /\ cache'[r] = cache[r] /\ saving'[r] = saving[r]
              /\ worker'[r] = worker[r] /\ asked'[r] = asked[r]
        BY <1>5 DEF Stop, TypeOK
    <2> QED BY <1>3, <2>3, <2>4
<1>6. ASSUME NEW p \in Procs, NEW q \in Pools, Trade(p, q) \/ Expire(p, q)
      PROVE  SavedInv'
    BY <1>6, <1>2 DEF Trade, Expire
<1>7. ASSUME NEW p \in Procs, NEW q \in Pools, Create(p, q)
      PROVE  SavedInv'
    <2>1. /\ saving[p] = {} /\ saving' = [saving EXCEPT ![p] = {q}]
          /\ cache' = [cache EXCEPT ![p][q] = "full"]
          /\ UNCHANGED <<stored, worker, asked>>
        BY <1>7 DEF Create, Free
    <2>2. Caching(p, q)'
        BY <2>1 DEF Caching, TypeOK
    <2>3. ASSUME NEW r \in Pools \ {q}
          PROVE  Caching(p, r)'
        <3>1. cache'[p][r] = cache[p][r] /\ (r \in saving[p] => r \in saving'[p])
            BY <2>1 DEF TypeOK
        <3> QED BY <2>1, <3>1, <1>2
    <2>4. \A r \in Procs \ {p} :
              /\ cache'[r] = cache[r] /\ saving'[r] = saving[r]
              /\ worker'[r] = worker[r] /\ asked'[r] = asked[r]
        BY <2>1 DEF TypeOK
    <2> QED BY <2>2, <2>3, <2>4, <1>3
<1>8. ASSUME NEW p \in Procs, CreateSaved(p)
      PROVE  SavedInv'
    <2>1. PICK q \in saving[p] : Upsert(q, "full")
        BY <1>8 DEF CreateSaved, Save
    <2>2. /\ q \in Pools /\ saving[p] = {q}
          /\ saving' = [saving EXCEPT ![p] = {}]
          /\ UNCHANGED <<cache, worker, asked>>
        BY <1>8 DEF CreateSaved, TypeOK
    <2>3. Rank("full") <= Rank(stored'[q])
        BY <2>1, <2>2, Upserted DEF TypeOK, Knowledge
    <2>4. Caching(p, q)'
        BY <2>2, <2>3 DEF Caching, TypeOK, Knowledge, Rank
    <2>5. ASSUME NEW r \in Pools \ {q}
          PROVE  Caching(p, r)'
        BY <2>2, <1>2
    <2>6. \A r \in Procs \ {p} :
              /\ cache'[r] = cache[r] /\ saving'[r] = saving[r]
              /\ worker'[r] = worker[r] /\ asked'[r] = asked[r]
        BY <2>2 DEF TypeOK
    <2> QED BY <2>4, <2>5, <2>6, <1>3
<1>9. ASSUME NEW p \in Procs, Take(p)
      PROVE  SavedInv'
    <2>1. /\ worker[p] = "idle" /\ UNCHANGED <<cache, saving>>
          /\ \A r \in Procs \ {p} :
                /\ worker'[r] = worker[r] /\ asked'[r] = asked[r]
        BY <1>9 DEF Take, TypeOK
    <2> QED BY <2>1, <1>2, <1>3
<1>10. ASSUME NEW p \in Procs, Answer(p)
      PROVE  SavedInv'
    <2>1. PICK q \in asked[p] : cache' = [cache EXCEPT ![p][q] = "mints"]
        BY <1>10 DEF Answer
    <2>2. /\ worker[p] = "asking"
          /\ worker' = [worker EXCEPT ![p] = "saving"]
          /\ UNCHANGED <<asked, saving>>
        BY <1>10 DEF Answer
    <2>3. Caching(p, q)'
        BY <2>1, <2>2 DEF Caching, TypeOK
    <2>4. ASSUME NEW r \in Pools \ {q}
          PROVE  Caching(p, r)'
        <3>1. cache'[p][r] = cache[p][r]
            BY <2>1 DEF TypeOK
        <3> QED BY <2>2, <3>1, <1>2
    <2>5. \A r \in Procs \ {p} :
              /\ cache'[r] = cache[r] /\ saving'[r] = saving[r]
              /\ worker'[r] = worker[r] /\ asked'[r] = asked[r]
        BY <2>1, <2>2 DEF TypeOK
    <2> QED BY <2>3, <2>4, <2>5, <1>3
<1>11. ASSUME NEW p \in Procs, AnswerFails(p)
      PROVE  SavedInv'
    <2>1. /\ worker[p] = "asking" /\ UNCHANGED <<cache, saving>>
          /\ \A r \in Procs \ {p} :
                /\ worker'[r] = worker[r] /\ asked'[r] = asked[r]
        BY <1>11 DEF AnswerFails, TypeOK
    <2> QED BY <2>1, <1>2, <1>3
<1>12. ASSUME NEW p \in Procs, AnswerSaved(p)
      PROVE  SavedInv'
    <2>1. PICK q \in asked[p] : Upsert(q, "mints")
        BY <1>12 DEF AnswerSaved, Save
    <2>2. /\ q \in Pools /\ asked[p] = {q}
          /\ UNCHANGED <<cache, saving>>
          /\ \A r \in Procs \ {p} :
                /\ worker'[r] = worker[r] /\ asked'[r] = asked[r]
        BY <1>12 DEF AnswerSaved, TypeOK
    <2>3. Rank("mints") <= Rank(stored'[q])
        BY <2>1, <2>2, Upserted DEF TypeOK, Knowledge
    <2>4. Caching(p, q)'
        <3>1. CASE cache[p][q] = "mints"
            BY <2>2, <2>3, <3>1 DEF Caching
        <3>2. CASE cache[p][q] # "mints"
            BY <2>2, <3>2, <1>1 DEF Caching
        <3> QED BY <3>1, <3>2
    <2>5. ASSUME NEW r \in Pools \ {q}
          PROVE  Caching(p, r)'
        BY <2>2, <1>2
    <2> QED BY <2>2, <2>4, <2>5, <1>3
<1>13. CASE UNCHANGED vars
    BY <1>13, <1>2 DEF vars, process
<1> QED BY <1>4, <1>5, <1>6, <1>7, <1>8, <1>9, <1>10, <1>11, <1>12, <1>13
        DEF Next, Lookup, Saved

(* While no statement fails, everything cached is in the table or being    *)
(* saved, so a restart primes with all that was known.                     *)
THEOREM CacheSaved ==
    ASSUME ~DbMayFail
    PROVE  Spec => []CachedIsSaved
<1>1. Init => SavedInv
    <2>1. ASSUME Init, NEW p \in Procs, NEW q \in Pools
          PROVE  Caching(p, q)
        BY <2>1 DEF Init, Nothing, Caching, Rank
    <2> QED BY <2>1, TypeInit DEF SavedInv
<1>2. SavedInv /\ [Next]_vars => SavedInv'
    BY SavedNext
<1>3. SavedInv => CachedIsSaved
    BY DEF SavedInv, Caching, CachedIsSaved
<1> QED BY <1>1, <1>2, <1>3, PTL DEF Spec

----------------------------------------------------------------------------
(* What becomes of a lookup the channel took.  RequestedResolves adds the  *)
(* fairness that the worker is polled and that a pool keeps trading.       *)

Asking(p) == {q \in asked[p] : worker[p] = "asking"}
Pending(p) == Range(queue[p]) \union Asking(p)
Known(p) == {q \in Pools : cache[p][q] # "absent"}

WorkerInv == \A p \in Procs : worker[p] # "idle" => asked[p] # {}

(* A step is open to the worker, without a failure: one of Take, Answer and*)
(* AnswerSaved, whose guards these are.                                    *)
WorkerCanMove(p) ==
    \/ worker[p] = "idle" /\ queue[p] # <<>>
    \/ worker[p] \in {"asking", "saving"} /\ asked[p] # {}

(* A worker that is not idle has a pool.                                   *)
LEMMA WorkerNext == TypeOK /\ WorkerInv /\ [Next]_vars => WorkerInv'
<1> SUFFICES ASSUME TypeOK, WorkerInv, [Next]_vars,
                    NEW r \in Procs, worker'[r] # "idle"
             PROVE  asked'[r] # {}
    BY DEF WorkerInv
<1>1. worker \in [Procs -> Tasks] /\ asked \in [Procs -> SUBSET Pools]
    BY DEF TypeOK
<1>2. ASSUME worker'[r] = worker[r], asked'[r] = asked[r]
      PROVE  asked'[r] # {}
    BY <1>2 DEF WorkerInv
<1>3. ASSUME NEW p \in Procs, Start(p) \/ Stop(p)
      PROVE  asked'[r] # {}
    <2>1. CASE Start(p)
        BY <1>2, <2>1 DEF Start
    <2>2. CASE Stop(p)
        <3>1. /\ worker' = [worker EXCEPT ![p] = "idle"]
              /\ asked' = [asked EXCEPT ![p] = {}]
            BY <2>2 DEF Stop
        <3> QED BY <1>1, <1>2, <3>1
    <2> QED BY <1>3, <2>1, <2>2
<1>4. ASSUME NEW p \in Procs, Take(p)
      PROVE  asked'[r] # {}
    <2>1. CASE UNCHANGED <<worker, asked>>
        BY <1>2, <2>1
    <2>2. CASE /\ worker' = [worker EXCEPT ![p] = "asking"]
               /\ asked' = [asked EXCEPT ![p] = {Head(queue[p])}]
        BY <1>1, <1>2, <2>2
    <2> QED BY <1>4, <2>1, <2>2 DEF Take
<1>5. ASSUME NEW p \in Procs, Answer(p)
      PROVE  asked'[r] # {}
    <2>1. /\ worker[p] = "asking" /\ asked' = asked
          /\ worker' = [worker EXCEPT ![p] = "saving"]
        BY <1>5 DEF Answer
    <2> QED BY <1>1, <1>2, <2>1 DEF WorkerInv
<1>6. ASSUME NEW p \in Procs, AnswerFails(p) \/ AnswerSaved(p)
      PROVE  asked'[r] # {}
    <2>1. /\ worker' = [worker EXCEPT ![p] = "idle"]
          /\ asked' = [asked EXCEPT ![p] = {}]
        BY <1>6 DEF AnswerFails, AnswerSaved
    <2> QED BY <1>1, <1>2, <2>1
<1>7. ASSUME NEW p \in Procs, CreateSaved(p)
      PROVE  asked'[r] # {}
    BY <1>2, <1>7 DEF CreateSaved
<1>8. ASSUME NEW p \in Procs, NEW q \in Pools,
             Trade(p, q) \/ Create(p, q) \/ Expire(p, q)
      PROVE  asked'[r] # {}
    BY <1>2, <1>8 DEF Trade, Create, Expire
<1>9. CASE UNCHANGED vars
    BY <1>2, <1>9 DEF vars, process
<1> QED BY <1>3, <1>4, <1>5, <1>6, <1>7, <1>8, <1>9
       DEF Next, Lookup, Saved

(* The worker is never where it cannot go on while a lookup waits for it:  *)
(* it always knows which pool it is at.                                    *)
THEOREM WorkerNeverStandsStill ==
    Spec => [](\A p \in Procs :
                  Pending(p) # {} \/ worker[p] # "idle" => WorkerCanMove(p))
<1>1. Init => WorkerInv
    BY DEF Init, WorkerInv
<1>2. ASSUME TypeOK, WorkerInv
      PROVE  \A p \in Procs :
                 Pending(p) # {} \/ worker[p] # "idle" => WorkerCanMove(p)
    <2> SUFFICES ASSUME NEW p \in Procs, Pending(p) # {} \/ worker[p] # "idle"
                 PROVE  WorkerCanMove(p)
        OBVIOUS
    <2>1. worker[p] \in Tasks
        BY <1>2 DEF TypeOK
    <2>2. CASE worker[p] = "idle"
        <3>1. Range(queue[p]) # {}
            BY <2>2 DEF Pending, Asking
        <3>2. queue[p] # <<>>
            BY <3>1 DEF Range
        <3> QED BY <2>2, <3>2 DEF WorkerCanMove
    <2>3. CASE worker[p] \in {"asking", "saving"}
        BY <1>2, <2>3 DEF WorkerInv, WorkerCanMove
    <2> QED BY <2>1, <2>2, <2>3 DEF Tasks
<1> QED BY <1>1, <1>2, WorkerNext, TypeCorrect, PTL DEF Spec

(* A push and a take, as far as the members of the channel go.             *)
LEMMA RangeAppend ==
    ASSUME NEW S, NEW s \in Seq(S), NEW e \in S
    PROVE  Range(s) \subseteq Range(Append(s, e))
<1> DEFINE t == Append(s, e)
<1>1. \A i \in DOMAIN s : i \in DOMAIN t /\ t[i] = s[i]
    OBVIOUS
<1> HIDE DEF t
<1> QED BY <1>1 DEF Range

LEMMA RangeTail ==
    ASSUME NEW S, NEW s \in Seq(S), s # <<>>
    PROVE  Range(s) \subseteq Range(Tail(s)) \union {Head(s)}
<1> DEFINE t == Tail(s)
<1>1. /\ s[1] = Head(s)
      /\ \A i \in DOMAIN s : i # 1 => i - 1 \in DOMAIN t /\ t[i - 1] = s[i]
    OBVIOUS
<1> HIDE DEF t
<1>2. Range(s) \subseteq Range(t) \union {Head(s)}
    BY <1>1 DEF Range
<1> QED BY <1>2 DEF t

(* While a process is up, a lookup its channel took is with the worker or  *)
(* on its way there until the pool is known or the node fails; and what is *)
(* known stays known.                                                      *)
LookupKept(p) ==
    up[p] /\ up'[p] =>
        \/ Pending(p) \union Known(p) \subseteq Pending(p)' \union Known(p)'
        \/ AnswerFails(p)

(* No step, of whichever process, loses a lookup or what is known.         *)
LEMMA LookupStep ==
    ASSUME TypeOK, NEW p \in Procs, [Next]_vars
    PROVE  LookupKept(p)
<1> USE DEF TypeOK
<1>1. ASSUME UNCHANGED <<queue[p], worker[p], asked[p], cache[p]>>
      PROVE  LookupKept(p)
    <2>1. Asking(p)' = Asking(p) /\ Known(p)' = Known(p)
        BY <1>1 DEF Asking, Known
    <2>2. Pending(p)' = Pending(p)
        BY <1>1, <2>1 DEF Pending
    <2> QED BY <2>1, <2>2 DEF LookupKept
<1>2. CASE Start(p)
    BY <1>2 DEF Start, LookupKept
<1>3. CASE Stop(p) \/ AnswerFails(p)
    BY <1>3 DEF Stop, LookupKept
<1>4. CASE Take(p)
    <2>1. /\ queue[p] \in Seq(Pools) /\ queue[p] # <<>> /\ worker[p] = "idle"
          /\ queue'[p] = Tail(queue[p]) /\ cache' = cache
        BY <1>4 DEF Take
    <2>2. Range(queue[p]) \subseteq Range(queue'[p]) \union {Head(queue[p])}
        BY <2>1, RangeTail
    <2>3. Head(queue[p]) \in Pools
        BY <2>1
    <2>4. Head(queue[p]) \in Asking(p)' \union Known(p)'
        <3>1. CASE cache[p][Head(queue[p])] = "absent"
            BY <1>4, <3>1 DEF Take, Asking
        <3>2. CASE cache[p][Head(queue[p])] # "absent"
            BY <2>1, <2>3, <3>2 DEF Known
        <3> QED BY <3>1, <3>2
    <2>5. Asking(p) = {} /\ Known(p)' = Known(p)
        BY <2>1 DEF Asking, Known
    <2> QED BY <2>2, <2>4, <2>5 DEF LookupKept, Pending
<1>5. CASE Answer(p)
    <2>1. PICK q \in asked[p] : cache' = [cache EXCEPT ![p][q] = "mints"]
        BY <1>5 DEF Answer
    <2>2. queue' = queue /\ q \in Pools /\ asked[p] = {q}
        BY <1>5, <2>1 DEF Answer
    <2>3. Known(p) \union {q} \subseteq Known(p)'
        BY <2>1, <2>2 DEF Known
    <2> QED BY <2>2, <2>3 DEF LookupKept, Pending, Asking
<1>6. CASE Saved(p)
    <2>1. queue' = queue /\ cache' = cache
        BY <1>6 DEF Saved, CreateSaved, AnswerSaved
    <2>2. Asking(p) \subseteq Asking(p)'
        BY <1>6 DEF Saved, CreateSaved, AnswerSaved, Asking
    <2> QED BY <2>1, <2>2 DEF LookupKept, Pending, Known
<1>7. ASSUME NEW q \in Pools, Trade(p, q)
      PROVE  LookupKept(p)
    <2>1. UNCHANGED <<cache, worker, asked>> /\ queue[p] \in Seq(Pools)
        BY <1>7 DEF Trade
    <2>2. queue'[p] = queue[p] \/ queue'[p] = Append(queue[p], q)
        BY <1>7 DEF Trade, Request
    <2>3. Range(queue[p]) \subseteq Range(queue'[p])
        BY <2>1, <2>2, RangeAppend
    <2> QED BY <2>1, <2>3 DEF LookupKept, Pending, Known, Asking
<1>8. ASSUME NEW q \in Pools, Create(p, q)
      PROVE  LookupKept(p)
    <2>1. UNCHANGED <<queue, worker, asked>>
        BY <1>8 DEF Create
    <2>2. Known(p) \subseteq Known(p)'
        BY <1>8 DEF Create, Known
    <2> QED BY <2>1, <2>2 DEF LookupKept, Pending, Asking
<1>9. ASSUME NEW q \in Pools, Expire(p, q)
      PROVE  LookupKept(p)
    BY <1>1, <1>9 DEF Expire
<1>10. ASSUME NEW r \in Procs, r # p,
              \/ Start(r) \/ Stop(r) \/ Lookup(r) \/ Saved(r)
              \/ \E q \in Pools : Trade(r, q) \/ Create(r, q) \/ Expire(r, q)
       PROVE  LookupKept(p)
    <2>1. CASE Start(r) \/ Stop(r)
        BY <1>1, <1>10, <2>1 DEF Start, Stop
    <2>2. CASE Lookup(r)
        BY <1>1, <1>10, <2>2 DEF Lookup, Take, Answer, AnswerFails
    <2>3. CASE Saved(r)
        BY <1>1, <2>3, <1>10 DEF Saved, CreateSaved, AnswerSaved
    <2>4. CASE \E q \in Pools : Trade(r, q) \/ Create(r, q) \/ Expire(r, q)
        BY <1>1, <1>10, <2>4 DEF Trade, Request, Create, Expire
    <2> QED BY <1>10, <2>1, <2>2, <2>3, <2>4
<1>11. CASE UNCHANGED vars
    BY <1>1, <1>11 DEF vars, process
<1> QED BY <1>2, <1>3, <1>4, <1>5, <1>6, <1>7, <1>8, <1>9, <1>10, <1>11
       DEF Next, Lookup

(* A lookup the channel has taken is not forgotten, and no answer makes a  *)
(* pool unknown again: what is lost is lost to the full channel, before it,*)
(* or to the node.                                                         *)
THEOREM LookupsKept == Spec => [][\A p \in Procs : LookupKept(p)]_vars
<1>1. TypeOK /\ [Next]_vars => [\A p \in Procs : LookupKept(p)]_vars
    BY LookupStep
<1> QED BY <1>1, TypeCorrect, PTL DEF Spec
=============================================================================
