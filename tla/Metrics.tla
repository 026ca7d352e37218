------------------------------ MODULE Metrics -------------------------------
(***************************************************************************)
(* The gauges and the histogram of src/metrics.rs, and who reads them: the *)
(* exporter while they are written to (render), the benchmark once the     *)
(* pipeline is over (summary).                                             *)
(*                                                                         *)
(* Every access is a relaxed atomic of its own.  An observation is two     *)
(* additions, a scrape is a load per cell, and no order between two cells  *)
(* is promised: additions and loads come in any order.  Each histogram has *)
(* one observer, the processor or the writer task.  Times are numbers, and *)
(* the unit is left out.                                                   *)
(***************************************************************************)
EXTENDS Integers, Sequences, Functions

CONSTANTS
    Slots,        \* slots of the stream, positive
    Edges,        \* BUCKET_EDGES_US
    Longest,      \* bound of the model: the longest duration, in the last bucket
    Earlier,      \* what a run may have observed already
    MaxObserved   \* bound of the model: observations after that

ASSUME MetricsAssumption ==
    /\ Slots \subseteq Nat \ {0}
    /\ Edges \in Seq(Nat) /\ Edges # <<>>
    /\ \A i, j \in DOMAIN Edges : i < j => Edges[i] < Edges[j]
    /\ Longest \in Nat /\ \A i \in DOMAIN Edges : Edges[i] < Longest
    /\ Earlier \subseteq [0 .. Longest -> Nat]
    /\ MaxObserved \in Nat

VARIABLES
    seen,       \* slots of the rows that went to the writer
    head,       \* HEAD_SLOT
    committed,  \* COMMITTED_SLOT
    buckets,    \* Histogram.buckets
    sum,        \* Histogram.sum_us
    observed,   \* history: how often each duration was observed, begun or done
    pending,    \* the addition that is left of the observation at hand
    room,       \* bound: observations still to come
    reading,    \* the cells the read at hand is about
    loaded,     \* what it has loaded of them
    before      \* history: what was true when that read began

gaugeVars == <<seen, head, committed>>
histogramVars == <<buckets, sum, observed, pending, room>>
scrapeVars == <<reading, loaded, before>>
vars == <<gaugeVars, histogramVars, scrapeVars>>

Overflow == Len(Edges)
Buckets == 0 .. Overflow
Edge(i) == Edges[i + 1]
Durations == 0 .. Longest

Larger(a, b) == IF a >= b THEN a ELSE b

----------------------------------------------------------------------------
(* Mistakes the properties below tell from the code.                       *)

(* us < edge: what is exactly on an edge belongs to the bucket above.      *)
BucketBelow(d) ==
    CHOOSE i \in Buckets :
        /\ i = Overflow \/ d < Edge(i)
        /\ \A j \in 0 .. i - 1 : d >= Edge(j)

(* The rank of a percentile is rounded down.                               *)
RankDown(count, percent) == (count * percent) \div 100

(* The gauge is stored, not raised.                                        *)
StoreCommitted(s) ==
    /\ s \in seen
    /\ committed' = s
    /\ UNCHANGED <<seen, head, histogramVars, scrapeVars>>

----------------------------------------------------------------------------
(* The first bucket whose edge is not exceeded, or the last one.           *)
BucketOf(d) ==
    CHOOSE i \in Buckets :
        /\ i = Overflow \/ d <= Edge(i)
        /\ \A j \in 0 .. i - 1 : d > Edge(j)

(* running += value, over the cells from 0 to last.                        *)
Running(cells, last) ==
    LET running[i \in 0 .. last] ==
            IF i = 0 THEN cells[0] ELSE running[i - 1] + cells[i]
    IN  running

(* Of counts, a number for each duration: how many are at most so long,    *)
(* how many there are, how many belong to a bucket, how long they took.    *)
AtMost(counts) == Running(counts, Longest)
Total(counts) == AtMost(counts)[Longest]
Upper(i) == IF i = Overflow THEN Longest ELSE Edge(i)
InBucket(counts, i) ==
    AtMost(counts)[Upper(i)] - IF i = 0 THEN 0 ELSE AtMost(counts)[Upper(i - 1)]
TimeOf(counts) ==
    Running([d \in Durations |-> d * counts[d]], Longest)[Longest]

(* ceil(count * percentile) as f64 computes it for 0.50, 0.95 and 0.99.    *)
Rank(count, percent) == (count * percent + 99) \div 100

(* percentile_upper_ms: the edge of the bucket that holds the rank.  None  *)
(* is <<>>: nothing was observed, or the rank is beyond the last edge.     *)
PercentileUpper(cells, percent) ==
    LET running == Running(cells, Overflow)
        count == running[Overflow]
        Reaches(i) == running[i] >= Rank(count, percent)
        at == CHOOSE i \in Buckets :
                  Reaches(i) /\ \A j \in 0 .. i - 1 : ~Reaches(j)
    IN  IF count = 0 \/ at = Overflow THEN <<>> ELSE <<Edge(at)>>

(* The cells commit_lag_slots and histogram load.                          *)
Gauges == {<<"head", 0>>, <<"committed", 0>>}
Histogram == {<<"bucket", i>> : i \in Buckets} \union {<<"sum", 0>>}

(* The observations that are over; the one at hand is not.                 *)
Done ==
    IF pending = <<>> THEN observed
    ELSE [observed EXCEPT ![pending[2]] = @ - 1]

Init ==
    /\ seen = {} /\ head = 0 /\ committed = 0
    /\ observed \in Earlier
    /\ buckets = [i \in Buckets |-> InBucket(observed, i)]
    /\ sum = TimeOf(observed)
    /\ pending = <<>> /\ room = MaxObserved
    /\ reading = Gauges /\ loaded = <<>>
    /\ before = [head |-> 0, committed |-> 0, counts |-> observed]

----------------------------------------------------------------------------
(* The gauges.                                                             *)

(* set_head_slot, from check_slot: before the row goes to the writer.      *)
SetHead(s) ==
    /\ head' = Larger(head, s)
    /\ seen' = seen \union {s}
    /\ UNCHANGED <<committed, histogramVars, scrapeVars>>

(* set_committed_slot, after a batch whose newest row has this slot.       *)
SetCommitted(s) ==
    /\ s \in seen
    /\ committed' = Larger(committed, s)
    /\ UNCHANGED <<seen, head, histogramVars, scrapeVars>>

----------------------------------------------------------------------------
(* Histogram::observe.                                                     *)

AddToBucket(d) == buckets' = [buckets EXCEPT ![BucketOf(d)] = @ + 1]
AddToSum(d) == sum' = sum + d

Observe(d) ==
    /\ pending = <<>>
    /\ room > 0
    /\ room' = room - 1
    /\ observed' = [observed EXCEPT ![d] = @ + 1]
    /\ \/ AddToBucket(d) /\ pending' = <<"sum", d>> /\ UNCHANGED sum
       \/ AddToSum(d) /\ pending' = <<"bucket", d>> /\ UNCHANGED buckets
    /\ UNCHANGED <<gaugeVars, scrapeVars>>

Observed ==
    /\ pending # <<>>
    /\ IF pending[1] = "sum"
       THEN AddToSum(pending[2]) /\ UNCHANGED buckets
       ELSE AddToBucket(pending[2]) /\ UNCHANGED sum
    /\ pending' = <<>>
    /\ UNCHANGED <<gaugeVars, observed, room, scrapeVars>>

----------------------------------------------------------------------------
(* render: commit_lag_slots and histogram.                                 *)

ValueOf(c) ==
    CASE c[1] = "head" -> head
      [] c[1] = "committed" -> committed
      [] c[1] = "sum" -> sum
      [] c[1] = "bucket" -> buckets[c[2]]

ReadOver == DOMAIN loaded = reading

(* A read begins with the load of some cell.  A scrape makes one of each   *)
(* kind, and each property is about the cells of one.                      *)
BeginRead(cells) ==
    /\ loaded = <<>> \/ ReadOver
    /\ reading' = cells
    /\ \E c \in cells : loaded' = [x \in {c} |-> ValueOf(x)]
    /\ before' = [head |-> head, committed |-> committed, counts |-> Done]
    /\ UNCHANGED <<gaugeVars, histogramVars>>

Load ==
    /\ loaded # <<>>
    /\ \E c \in reading \ DOMAIN loaded :
          loaded' = [x \in DOMAIN loaded \union {c} |->
                        IF x = c THEN ValueOf(x) ELSE loaded[x]]
    /\ UNCHANGED <<gaugeVars, histogramVars, reading, before>>

(* commit_lag_slots of what was loaded: 0 before the first commit.         *)
Lag(h, c) == IF c = 0 THEN 0 ELSE Larger(h - c, 0)

(* The running counts that are printed for the edges, and for "+Inf".      *)
Printed == Running([i \in Buckets |-> loaded[<<"bucket", i>>]], Overflow)

----------------------------------------------------------------------------
Next ==
    \/ \E s \in Slots : SetHead(s) \/ SetCommitted(s)
    \/ \E d \in Durations : Observe(d)
    \/ Observed
    \/ BeginRead(Gauges) \/ BeginRead(Histogram)
    \/ Load

Spec == Init /\ [][Next]_vars

----------------------------------------------------------------------------
(* Properties.                                                             *)

(* What is committed never overtakes the head, and however its two loads   *)
(* fall between the writes, the lag that is shown is one the gauges        *)
(* justify: at least what is left of the head the read began with, and at  *)
(* most how far the head has come beyond the commit it began with.  Before *)
(* the first commit it is 0, whatever the head is.                         *)
LagIsBracketed ==
    /\ committed <= head
    /\ reading = Gauges /\ ReadOver /\ before.committed # 0 =>
           LET lag == Lag(loaded[<<"head", 0>>], loaded[<<"committed", 0>>])
           IN  /\ lag >= before.head - committed
               /\ lag <= head - before.committed

(* No observation is counted in part, twice or on the wrong side of an     *)
(* edge: each running count, and the sum, lies between the observations    *)
(* that were over when the read began and those begun by its end.          *)
ScrapeIsBracketed ==
    reading = Histogram /\ ReadOver =>
        /\ \A i \in Buckets :
              Printed[i] \in AtMost(before.counts)[Upper(i)]
                                .. AtMost(observed)[Upper(i)]
        /\ loaded[<<"sum", 0>>] \in TimeOf(before.counts) .. TimeOf(observed)

(* Once the observer is done, a percentile is the least edge that at least *)
(* so many of a hundred observations do not exceed, and None when there is *)
(* no such edge.  The verdict of a benchmark prints it as an upper bound.  *)
PercentilesAreRanks ==
    pending = <<>> =>
        \A percent \in {50, 95, 99} :
            LET Covers(e) ==
                    AtMost(observed)[e] * 100 >= percent * Total(observed)
                edges == {e \in Range(Edges) : Covers(e)}
            IN  PercentileUpper(buckets, percent) =
                    IF Total(observed) = 0 \/ edges = {} THEN <<>>
                    ELSE <<CHOOSE e \in edges : \A f \in edges : e <= f>>
=============================================================================
