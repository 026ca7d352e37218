---------------------------- MODULE MetricsProofs ---------------------------
(***************************************************************************)
(* Proofs about Metrics: what a reader of the gauges and of the histogram  *)
(* is shown, for any edges, any slots and any number of observations.      *)
(*                                                                         *)
(* A running count is a recursive function.  What it computes is proved    *)
(* cell by cell, by induction in the form NatSetInd states it: over a set  *)
(* of numbers, as no prover here takes a predicate for a parameter.  Three *)
(* facts carry the rest: one more observation adds one to the running      *)
(* counts from its duration on and to the cell of its bucket (Observing),  *)
(* smaller cells have smaller running counts (RunningMonotone), and the    *)
(* running count of the cells of some counts is the number of those at     *)
(* most as long as the edge (Telescope).                                   *)
(***************************************************************************)
EXTENDS Metrics, WellFoundedInduction, TLAPS

----------------------------------------------------------------------------
(* Induction.                                                              *)

Less == OpToRel(<, Nat)

LEMMA LessWF == IsWellFoundedOn(Less, Nat)
BY NatLessThanWellFounded DEF Less

LEMMA LessFacts == \A x, y \in Nat : <<x, y>> \in Less <=> x < y
BY DEF Less, OpToRel

LEMMA NatLeast ==
    ASSUME NEW T \in SUBSET Nat, T # {}
    PROVE  \E x \in T : \A y \in T : x <= y
<1>1. T \subseteq Nat
    OBVIOUS
<1>2. PICK x \in T : \A y \in T : ~ (<<y, x>> \in Less)
    BY ONLY <1>1, T # {}, LessWF, WFMin
<1>3. \A y \in T : x \in Nat /\ y \in Nat /\ ~(y < x)
    BY <1>1, <1>2, LessFacts
<1> QED BY <1>3

LEMMA NatSetInd ==
    ASSUME NEW T, 0 \in T, \A n \in Nat : n \in T => n + 1 \in T
    PROVE  Nat \subseteq T
<1> SUFFICES ASSUME Nat \ T # {} PROVE FALSE
    OBVIOUS
<1>1. PICK x \in Nat \ T : \A y \in Nat \ T : x <= y
    BY NatLeast
<1>2. x # 0 /\ x - 1 \in Nat /\ x - 1 \in T
    BY <1>1
<1> QED BY <1>1, <1>2

(* The same over 0 .. last, for what is said of the places of a function.  *)
LEMMA UpToInd ==
    ASSUME NEW last \in Nat, NEW T, 0 \in T,
           \A i \in 1 .. last : i - 1 \in T => i \in T
    PROVE  0 .. last \subseteq T
<1> DEFINE S == {n \in Nat : n <= last => n \in T}
<1>1. 0 \in S
    OBVIOUS
<1>2. ASSUME NEW n \in Nat, n \in S PROVE n + 1 \in S
    BY <1>2
<1>3. Nat \subseteq S
    <2> HIDE DEF S
    <2> QED BY <1>1, <1>2, NatSetInd
<1> QED BY <1>3

----------------------------------------------------------------------------
(* Running counts.                                                         *)

(* What the loop computes: each cell is added to what was reached before.  *)
IsRunning(r, cells, last) ==
    r = [i \in 0 .. last |->
            IF i = 0 THEN cells[0] ELSE r[i - 1] + cells[i]]

LEMMA RunningExists ==
    ASSUME NEW cells
    PROVE  \A n \in Nat : \E r : IsRunning(r, cells, n)
<1> DEFINE T == {n \in Nat : \E r : IsRunning(r, cells, n)}
<1>1. 0 \in T
    <2> DEFINE r == [i \in 0 .. 0 |-> cells[0]]
    <2>1. IsRunning(r, cells, 0)
        BY DEF IsRunning
    <2> QED BY <2>1
<1>2. ASSUME NEW n \in Nat, n \in T PROVE n + 1 \in T
    <2>1. PICK r : IsRunning(r, cells, n)
        BY <1>2
    <2> DEFINE q == [i \in 0 .. n + 1 |->
                        IF i = n + 1 THEN r[n] + cells[n + 1] ELSE r[i]]
               w == [i \in 0 .. n + 1 |->
                        IF i = 0 THEN cells[0] ELSE q[i - 1] + cells[i]]
    <2>2. ASSUME NEW i \in 0 .. n + 1 PROVE q[i] = w[i]
        <3>1. CASE i = n + 1
            BY <3>1
        <3>2. CASE i # n + 1
            BY <2>1, <3>2 DEF IsRunning
        <3> QED BY <3>1, <3>2
    <2>3. q = w
        BY <2>2
    <2>4. IsRunning(q, cells, n + 1)
        BY <2>3 DEF IsRunning
    <2> QED BY <2>4
<1>3. Nat \subseteq T
    <2> HIDE DEF T
    <2> QED BY <1>1, <1>2, NatSetInd
<1> QED BY <1>3

LEMMA RunningRuns ==
    ASSUME NEW cells, NEW last \in Nat
    PROVE  IsRunning(Running(cells, last), cells, last)
<1>1. Running(cells, last) = CHOOSE r : IsRunning(r, cells, last)
    BY DEF Running, IsRunning
<1> QED BY <1>1, RunningExists

LEMMA RunningFacts ==
    ASSUME NEW last \in Nat, NEW cells \in [0 .. last -> Int]
    PROVE  /\ Running(cells, last) \in [0 .. last -> Int]
           /\ Running(cells, last)[0] = cells[0]
           /\ \A i \in 1 .. last :
                 Running(cells, last)[i] = Running(cells, last)[i - 1] + cells[i]
<1> DEFINE r == Running(cells, last)
           T == {i \in 0 .. last : r[i] \in Int}
<1>1. /\ r = [i \in 0 .. last |->
                 IF i = 0 THEN cells[0] ELSE r[i - 1] + cells[i]]
      /\ DOMAIN r = 0 .. last
    BY RunningRuns DEF IsRunning
<1> HIDE DEF r
<1>2. r[0] = cells[0] /\ \A i \in 1 .. last : r[i] = r[i - 1] + cells[i]
    BY <1>1
<1>3. 0 \in T /\ \A i \in 1 .. last : i - 1 \in T => i \in T
    BY <1>2
<1>4. 0 .. last \subseteq T
    <2> HIDE DEF T
    <2> QED BY <1>3, UpToInd
<1>5. r \in [0 .. last -> Int]
    BY <1>1, <1>4
<1> QED BY <1>2, <1>5 DEF r

(* Cells of natural numbers run to natural numbers.                        *)
LEMMA RunningNat ==
    ASSUME NEW last \in Nat, NEW cells \in [0 .. last -> Nat]
    PROVE  Running(cells, last) \in [0 .. last -> Nat]
<1> DEFINE r == Running(cells, last)
           T == {i \in 0 .. last : r[i] \in Nat}
<1>1. cells \in [0 .. last -> Int]
    OBVIOUS
<1>2. /\ r \in [0 .. last -> Int] /\ r[0] = cells[0]
      /\ \A i \in 1 .. last : r[i] = r[i - 1] + cells[i]
    BY <1>1, RunningFacts
<1> HIDE DEF r
<1>3. 0 \in T /\ \A i \in 1 .. last : i - 1 \in T => i \in T
    BY <1>2
<1>4. 0 .. last \subseteq T
    <2> HIDE DEF T
    <2> QED BY <1>3, UpToInd
<1> QED BY <1>2, <1>4 DEF r

(* What is added to a cell is added to every running count from there on.  *)
LEMMA RunningAdd ==
    ASSUME NEW last \in Nat, NEW cells \in [0 .. last -> Int],
           NEW b \in 0 .. last, NEW k \in Int
    PROVE  \A i \in 0 .. last :
               Running([cells EXCEPT ![b] = @ + k], last)[i]
               = Running(cells, last)[i] + IF b <= i THEN k ELSE 0
<1> DEFINE more == [cells EXCEPT ![b] = @ + k]
           r == Running(cells, last)
           q == Running(more, last)
           T == {i \in 0 .. last : q[i] = r[i] + IF b <= i THEN k ELSE 0}
<1>1. /\ more \in [0 .. last -> Int]
      /\ \A i \in 0 .. last : more[i] = cells[i] + IF i = b THEN k ELSE 0
    OBVIOUS
<1> HIDE DEF more
<1>2. /\ r \in [0 .. last -> Int] /\ r[0] = cells[0]
      /\ \A i \in 1 .. last : r[i] = r[i - 1] + cells[i]
    BY RunningFacts
<1>3. /\ q \in [0 .. last -> Int] /\ q[0] = more[0]
      /\ \A i \in 1 .. last : q[i] = q[i - 1] + more[i]
    BY <1>1, RunningFacts
<1> HIDE DEF r, q
<1>4. 0 \in T
    BY <1>1, <1>2, <1>3
<1>5. ASSUME NEW i \in 1 .. last, i - 1 \in T PROVE i \in T
    <2> DEFINE j == i - 1
    <2>1. j \in 0 .. last /\ i \in 0 .. last /\ j < i /\ (b <= j <=> b < i)
        OBVIOUS
    <2>2. q[i] = q[j] + more[i] /\ r[i] = r[j] + cells[i]
        BY <1>2, <1>3
    <2>3. q[j] = r[j] + IF b <= j THEN k ELSE 0
        BY <1>5
    <2>4. /\ more[i] = cells[i] + IF i = b THEN k ELSE 0
          /\ r[j] \in Int /\ cells[i] \in Int
        BY <1>1, <1>2, <2>1
    <2>5. q[i] = r[i] + IF b <= i THEN k ELSE 0
        <3> HIDE DEF j
        <3> QED BY <2>1, <2>2, <2>3, <2>4
    <2> QED BY <2>1, <2>5
<1>6. 0 .. last \subseteq T
    <2> HIDE DEF T
    <2> QED BY <1>4, <1>5, UpToInd
<1> QED BY <1>6 DEF r, q, more

(* Smaller cells have smaller running counts.                              *)
LEMMA RunningMonotone ==
    ASSUME NEW last \in Nat, NEW cells \in [0 .. last -> Int],
           NEW more \in [0 .. last -> Int],
           \A i \in 0 .. last : cells[i] <= more[i]
    PROVE  \A i \in 0 .. last :
               Running(cells, last)[i] <= Running(more, last)[i]
<1> DEFINE r == Running(cells, last)
           q == Running(more, last)
           T == {i \in 0 .. last : r[i] <= q[i]}
<1>1. /\ r \in [0 .. last -> Int] /\ r[0] = cells[0]
      /\ \A i \in 1 .. last : r[i] = r[i - 1] + cells[i]
    BY RunningFacts
<1>2. /\ q \in [0 .. last -> Int] /\ q[0] = more[0]
      /\ \A i \in 1 .. last : q[i] = q[i - 1] + more[i]
    BY RunningFacts
<1> HIDE DEF r, q
<1>3. 0 \in T
    BY <1>1, <1>2
<1>4. ASSUME NEW i \in 1 .. last, i - 1 \in T PROVE i \in T
    <2>1. /\ q[i] = q[i - 1] + more[i] /\ r[i] = r[i - 1] + cells[i]
          /\ i \in 0 .. last /\ i - 1 \in 0 .. last
          /\ r[i - 1] <= q[i - 1] /\ cells[i] <= more[i]
        BY <1>1, <1>2, <1>4
    <2>2. /\ q[i - 1] \in Int /\ r[i - 1] \in Int
          /\ cells[i] \in Int /\ more[i] \in Int
        BY <1>1, <1>2, <2>1
    <2> QED BY <2>1, <2>2
<1>5. 0 .. last \subseteq T
    <2> HIDE DEF T
    <2> QED BY <1>3, <1>4, UpToInd
<1> QED BY <1>5 DEF r, q

----------------------------------------------------------------------------
(* Edges, buckets and durations.                                           *)

LEMMA EdgeFacts ==
    /\ Overflow \in Nat /\ Overflow > 0 /\ Longest \in Nat
    /\ \A i \in 0 .. Overflow - 1 : Edge(i) \in Nat /\ Edge(i) < Longest
    /\ \A i, j \in 0 .. Overflow - 1 : i < j => Edge(i) < Edge(j)
    /\ \A e : e \in Range(Edges) <=> \E i \in 0 .. Overflow - 1 : e = Edge(i)
<1>1. /\ Overflow = Len(Edges) /\ Len(Edges) \in Nat /\ Len(Edges) > 0
      /\ DOMAIN Edges = 1 .. Len(Edges) /\ Longest \in Nat
      /\ \A k \in 1 .. Len(Edges) : Edges[k] \in Nat /\ Edges[k] < Longest
    BY MetricsAssumption DEF Overflow
<1>2. \A i \in 0 .. Overflow - 1 : i + 1 \in DOMAIN Edges
    BY <1>1
<1>3. \A i, j \in 0 .. Overflow - 1 : i < j => Edge(i) < Edge(j)
    <2> SUFFICES ASSUME NEW i \in 0 .. Overflow - 1,
                        NEW j \in 0 .. Overflow - 1, i < j
                 PROVE  Edges[i + 1] < Edges[j + 1]
        BY DEF Edge
    <2>1. i + 1 \in DOMAIN Edges /\ j + 1 \in DOMAIN Edges /\ i + 1 < j + 1
        BY <1>1
    <2> QED BY <2>1, MetricsAssumption
<1>4. \A k \in DOMAIN Edges :
          k - 1 \in 0 .. Overflow - 1 /\ Edges[k] = Edge(k - 1)
    BY <1>1 DEF Edge
<1> QED BY <1>1, <1>2, <1>3, <1>4 DEF Edge, Range

LEMMA UpperFacts ==
    /\ \A i \in Buckets : Upper(i) \in Durations
    /\ \A i, j \in Buckets : i < j => Upper(i) < Upper(j)
    /\ Upper(Overflow) = Longest
BY EdgeFacts DEF Upper, Buckets, Durations

(* A duration belongs to the bucket whose edge is the first it does not    *)
(* exceed: it is at most the edge of that bucket and of those above, and   *)
(* beyond the edges below.                                                 *)
LEMMA BucketFacts ==
    ASSUME NEW d \in Durations
    PROVE  /\ BucketOf(d) \in Buckets
           /\ \A i \in Buckets : d <= Upper(i) <=> BucketOf(d) <= i
<1> DEFINE T == {i \in Buckets : i = Overflow \/ d <= Edge(i)}
           Is(i) == /\ i = Overflow \/ d <= Edge(i)
                    /\ \A j \in 0 .. i - 1 : d > Edge(j)
<1>1. T \in SUBSET Nat /\ Overflow \in T
    BY EdgeFacts DEF Buckets
<1>2. PICK x \in T : \A y \in T : x <= y
    <2> HIDE DEF T
    <2> QED BY <1>1, NatLeast
<1>3. x \in Buckets /\ Is(x)
    <2>1. \A j \in 0 .. x - 1 : j \in Buckets /\ j # Overflow /\ ~(j \in T)
        BY <1>2, EdgeFacts DEF Buckets
    <2>2. \A j \in 0 .. x - 1 : Edge(j) \in Nat
        BY <1>2, EdgeFacts DEF Buckets
    <2> QED BY <1>2, <2>1, <2>2 DEF Durations
<1>4. BucketOf(d) \in Buckets /\ Is(BucketOf(d))
    <2> HIDE DEF Is
    <2>1. BucketOf(d) = CHOOSE i \in Buckets : Is(i)
        BY DEF BucketOf, Is
    <2> QED BY <1>3, <2>1
<1> DEFINE b == BucketOf(d)
<1> HIDE DEF b
<1>5. b \in Buckets /\ Is(b)
    BY <1>4 DEF b
<1>6. ASSUME NEW i \in Buckets PROVE d <= Upper(i) <=> b <= i
    <2>1. d <= Upper(b)
        BY <1>5, EdgeFacts DEF Upper, Durations, Buckets
    <2>2. CASE b <= i
        BY <1>5, <2>1, <2>2, UpperFacts, EdgeFacts DEF Buckets, Durations
    <2>3. CASE i < b
        <3>1. i \in 0 .. b - 1 /\ i # Overflow /\ i \in 0 .. Overflow - 1
            BY <1>5, <2>3, EdgeFacts DEF Buckets
        <3>2. d > Edge(i) /\ Upper(i) = Edge(i)
            BY <1>5, <3>1 DEF Upper
        <3> QED BY <2>3, <3>1, <3>2, <1>5, EdgeFacts DEF Buckets, Durations
    <2> QED BY <1>5, <2>2, <2>3, EdgeFacts DEF Buckets
<1> QED BY <1>5, <1>6 DEF b

----------------------------------------------------------------------------
(* Counts: a number for each duration.                                     *)

Counts == [Durations -> Nat]

LEMMA CountFacts ==
    ASSUME NEW counts \in Counts
    PROVE  /\ AtMost(counts) \in [Durations -> Nat]
           /\ Total(counts) \in Nat
           /\ \A i \in Buckets : InBucket(counts, i) \in Int
           /\ InBucket(counts, 0) = AtMost(counts)[Upper(0)]
           /\ \A i \in 1 .. Overflow :
                 InBucket(counts, i)
                 = AtMost(counts)[Upper(i)] - AtMost(counts)[Upper(i - 1)]
<1>1. AtMost(counts) \in [Durations -> Nat]
    BY RunningNat, EdgeFacts DEF Counts, Durations, AtMost
<1>2. /\ Total(counts) \in Nat
      /\ \A i \in Buckets : AtMost(counts)[Upper(i)] \in Nat
    BY <1>1, UpperFacts, EdgeFacts DEF Total, Durations
<1>3. \A i \in Buckets : i = 0 \/ i - 1 \in Buckets
    BY EdgeFacts DEF Buckets
<1>4. \A i \in 1 .. Overflow : i # 0 /\ i \in Buckets
    BY EdgeFacts DEF Buckets
<1>5. \A i \in Buckets : InBucket(counts, i) \in Int
    BY <1>2, <1>3 DEF InBucket
<1>6. 0 \in Buckets /\ InBucket(counts, 0) = AtMost(counts)[Upper(0)]
    BY <1>2, EdgeFacts DEF InBucket, Buckets
<1> QED BY <1>1, <1>2, <1>4, <1>5, <1>6 DEF InBucket

LEMMA TimeFacts ==
    ASSUME NEW counts \in Counts
    PROVE  /\ [d \in Durations |-> d * counts[d]] \in [Durations -> Int]
           /\ TimeOf(counts) \in Int
<1>1. ASSUME NEW d \in Durations PROVE d * counts[d] \in Int
    BY EdgeFacts DEF Counts, Durations
<1>2. [d \in Durations |-> d * counts[d]] \in [Durations -> Int]
    BY <1>1
<1> QED BY <1>2, RunningFacts, EdgeFacts DEF TimeOf, Durations

(* The cells of some counts run to the counts at most as long as the edge. *)
LEMMA Telescope ==
    ASSUME NEW counts \in Counts
    PROVE  \A i \in Buckets :
               Running([j \in Buckets |-> InBucket(counts, j)], Overflow)[i]
               = AtMost(counts)[Upper(i)]
<1> DEFINE cells == [j \in Buckets |-> InBucket(counts, j)]
           r == Running(cells, Overflow)
           T == {i \in Buckets : r[i] = AtMost(counts)[Upper(i)]}
<1>1. /\ cells \in [0 .. Overflow -> Int] /\ Buckets = 0 .. Overflow
      /\ cells[0] = AtMost(counts)[Upper(0)]
      /\ \A i \in 1 .. Overflow :
            cells[i] = AtMost(counts)[Upper(i)] - AtMost(counts)[Upper(i - 1)]
    BY CountFacts, EdgeFacts DEF Buckets
<1> HIDE DEF cells
<1>2. /\ r[0] = cells[0]
      /\ \A i \in 1 .. Overflow : r[i] = r[i - 1] + cells[i]
    BY <1>1, RunningFacts, EdgeFacts
<1> HIDE DEF r
<1>3. \A i \in Buckets : AtMost(counts)[Upper(i)] \in Int
    BY CountFacts, UpperFacts
<1>4. 0 \in T
    BY <1>1, <1>2, EdgeFacts
<1>5. ASSUME NEW i \in 1 .. Overflow, i - 1 \in T PROVE i \in T
    <2>1. i \in Buckets /\ i - 1 \in Buckets
        BY <1>1, EdgeFacts
    <2>2. r[i - 1] = AtMost(counts)[Upper(i - 1)]
        BY <1>5
    <2> QED BY <1>1, <1>2, <1>3, <2>1, <2>2
<1>6. 0 .. Overflow \subseteq T
    <2> HIDE DEF T
    <2> QED BY <1>4, <1>5, UpToInd, EdgeFacts
<1> QED BY <1>1, <1>6 DEF r, cells

(* One more observation of d: one more among all that are at least d, one  *)
(* more in the bucket of d and in no other, and d more of time.            *)
LEMMA Observing ==
    ASSUME NEW counts \in Counts, NEW d \in Durations
    PROVE  LET more == [counts EXCEPT ![d] = @ + 1]
           IN  /\ more \in Counts
               /\ \A i \in Buckets :
                     InBucket(more, i)
                     = InBucket(counts, i) + IF i = BucketOf(d) THEN 1 ELSE 0
               /\ TimeOf(more) = TimeOf(counts) + d
<1> DEFINE more == [counts EXCEPT ![d] = @ + 1]
           spent(c) == [x \in Durations |-> x * c[x]]
<1>1. more \in Counts
    BY DEF Counts
<1>2. \A x \in Durations :
          AtMost(more)[x] = AtMost(counts)[x] + IF d <= x THEN 1 ELSE 0
    <2>1. /\ counts \in [0 .. Longest -> Int] /\ d \in 0 .. Longest
          /\ Longest \in Nat /\ 1 \in Int
        BY EdgeFacts DEF Counts, Durations
    <2>2. \A x \in 0 .. Longest :
              Running(more, Longest)[x]
              = Running(counts, Longest)[x] + IF d <= x THEN 1 ELSE 0
        BY ONLY <2>1, RunningAdd
    <2> QED BY <2>2 DEF AtMost, Durations
<1>3. \A i \in Buckets :
          AtMost(more)[Upper(i)]
          = AtMost(counts)[Upper(i)] + IF BucketOf(d) <= i THEN 1 ELSE 0
    <2>1. \A i \in Buckets : Upper(i) \in Durations
                             /\ (d <= Upper(i) <=> BucketOf(d) <= i)
        BY BucketFacts, UpperFacts
    <2> HIDE DEF more
    <2> QED BY <1>2, <2>1
<1>4. TimeOf(more) = TimeOf(counts) + d
    <2>1. \A x \in Durations : counts[x] \in Nat /\ x \in Nat
        BY EdgeFacts DEF Counts, Durations
    <2>2. d * (counts[d] + 1) = d * counts[d] + d
        BY <2>1
    <2>3. DOMAIN counts = Durations
        BY DEF Counts
    <2>4. spent(more) = [spent(counts) EXCEPT ![d] = @ + d]
        BY <2>2, <2>3
    <2>5. spent(counts) \in [0 .. Longest -> Int]
        BY TimeFacts DEF Durations
    <2>6. d \in 0 .. Longest /\ d \in Int /\ Longest \in 0 .. Longest
          /\ d <= Longest /\ Longest \in Nat
        BY EdgeFacts DEF Durations
    <2> HIDE DEF spent, more
    <2>7. \A x \in 0 .. Longest :
              Running([spent(counts) EXCEPT ![d] = @ + d], Longest)[x]
              = Running(spent(counts), Longest)[x] + IF d <= x THEN d ELSE 0
        BY ONLY <2>5, <2>6, RunningAdd
    <2>8. Running(spent(more), Longest)[Longest]
          = Running(spent(counts), Longest)[Longest] + d
        BY <2>4, <2>6, <2>7
    <2> QED BY <2>8 DEF TimeOf, spent
<1> HIDE DEF more
<1>5. ASSUME NEW i \in Buckets
      PROVE  InBucket(more, i)
             = InBucket(counts, i) + IF i = BucketOf(d) THEN 1 ELSE 0
    <2>1. BucketOf(d) \in Nat /\ i \in Nat
          /\ (i = 0 \/ (i \in 1 .. Overflow /\ i - 1 \in Buckets))
        BY BucketFacts, EdgeFacts DEF Buckets
    <2>2. \A j \in Buckets : AtMost(counts)[Upper(j)] \in Nat
        BY CountFacts, UpperFacts
    <2>3. CASE i = 0
        BY <1>1, <1>3, <2>1, <2>2, <2>3, CountFacts
    <2>4. CASE i \in 1 .. Overflow /\ i - 1 \in Buckets
        <3> DEFINE a == AtMost(counts)
                   c == AtMost(more)
        <3>1. /\ InBucket(more, i) = c[Upper(i)] - c[Upper(i - 1)]
              /\ InBucket(counts, i) = a[Upper(i)] - a[Upper(i - 1)]
            BY <1>1, <2>4, CountFacts
        <3>2. /\ c[Upper(i)] = a[Upper(i)] + IF BucketOf(d) <= i THEN 1 ELSE 0
              /\ c[Upper(i - 1)]
                 = a[Upper(i - 1)] + IF BucketOf(d) <= i - 1 THEN 1 ELSE 0
              /\ a[Upper(i)] \in Nat /\ a[Upper(i - 1)] \in Nat
            BY <1>3, <2>2, <2>4
        <3> HIDE DEF a, c
        <3> QED BY <2>1, <3>1, <3>2
    <2> QED BY <2>1, <2>3, <2>4
<1> QED BY <1>1, <1>4, <1>5 DEF more

----------------------------------------------------------------------------
(* The inductive invariant.                                                *)

(* Every gauge has a value it has had since the read at hand began.        *)
GaugeInv ==
    /\ head \in Nat /\ committed \in Nat /\ committed <= head
    /\ \A s \in seen : s \in Nat /\ s <= head
    /\ before.head \in Nat /\ before.head <= head
    /\ before.committed \in Nat /\ before.committed <= committed

GaugesRead ==
    reading = Gauges =>
        /\ <<"head", 0>> \in DOMAIN loaded
           => loaded[<<"head", 0>>] \in before.head .. head
        /\ <<"committed", 0>> \in DOMAIN loaded
           => loaded[<<"committed", 0>>] \in before.committed .. committed

(* What the observation at hand has still to add.                          *)
Owed(i) ==
    IF pending # <<>> /\ pending[1] = "bucket" /\ BucketOf(pending[2]) = i
    THEN 1 ELSE 0
OwedTime == IF pending # <<>> /\ pending[1] = "sum" THEN pending[2] ELSE 0

(* The cells hold what was observed, but for the addition that is left;    *)
(* they have not lost anything since the read at hand began.               *)
CellInv ==
    /\ observed \in Counts
    /\ pending # <<>>
       => (/\ pending \in {"sum", "bucket"} \X Durations
           /\ observed[pending[2]] > 0)
    /\ buckets \in [Buckets -> Int] /\ sum \in Int
    /\ \A i \in Buckets : buckets[i] = InBucket(observed, i) - Owed(i)
    /\ sum = TimeOf(observed) - OwedTime

BeforeInv ==
    /\ before.counts \in Counts
    /\ \A i \in Buckets : InBucket(before.counts, i) <= buckets[i]
    /\ TimeOf(before.counts) <= sum

CellsRead ==
    reading = Histogram =>
        /\ \A i \in Buckets :
              <<"bucket", i>> \in DOMAIN loaded
              => loaded[<<"bucket", i>>]
                 \in InBucket(before.counts, i) .. InBucket(observed, i)
        /\ <<"sum", 0>> \in DOMAIN loaded
           => loaded[<<"sum", 0>>]
              \in TimeOf(before.counts) .. TimeOf(observed)

MetricsInv ==
    GaugeInv /\ GaugesRead /\ CellInv /\ BeforeInv /\ CellsRead

LEMMA GaugeInit == Init => GaugeInv /\ GaugesRead
BY DEF Init, GaugeInv, GaugesRead

LEMMA GaugeStep == GaugeInv /\ [Next]_vars => GaugeInv'
<1> SUFFICES ASSUME GaugeInv, [Next]_vars
             PROVE  GaugeInv'
    OBVIOUS
<1> USE DEF GaugeInv, gaugeVars
<1>1. ASSUME NEW s \in Slots, SetHead(s) PROVE GaugeInv'
    <2>1. s \in Nat
        BY MetricsAssumption
    <2>2. head' \in Nat /\ head <= head' /\ s <= head'
        BY <1>1, <2>1 DEF SetHead, Larger
    <2> QED BY <1>1, <2>1, <2>2 DEF SetHead, scrapeVars
<1>2. ASSUME NEW s \in Slots, SetCommitted(s) PROVE GaugeInv'
    <2>1. s \in Nat /\ s <= head
        BY <1>2 DEF SetCommitted
    <2>2. committed' \in Nat /\ committed <= committed' /\ committed' <= head
        BY <1>2, <2>1 DEF SetCommitted, Larger
    <2>3. head' = head /\ seen' = seen /\ before' = before
        BY <1>2 DEF SetCommitted, scrapeVars
    <2> QED BY <2>2, <2>3
<1>3. CASE (\E d \in Durations : Observe(d)) \/ Observed
    BY <1>3 DEF Observe, Observed, scrapeVars
<1>4. CASE BeginRead(Gauges) \/ BeginRead(Histogram)
    BY <1>4 DEF BeginRead
<1>5. CASE Load
    BY <1>5 DEF Load
<1>6. CASE UNCHANGED vars
    BY <1>6 DEF vars, scrapeVars
<1> QED BY <1>1, <1>2, <1>3, <1>4, <1>5, <1>6 DEF Next

LEMMA GaugeValues ==
    /\ ValueOf(<<"head", 0>>) = head
    /\ ValueOf(<<"committed", 0>>) = committed
    /\ ValueOf(<<"sum", 0>>) = sum
    /\ \A i : ValueOf(<<"bucket", i>>) = buckets[i]
BY DEF ValueOf

LEMMA GaugesReadStep ==
    GaugeInv /\ GaugesRead /\ [Next]_vars => GaugesRead'
<1> SUFFICES ASSUME GaugeInv, GaugesRead, [Next]_vars, reading' = Gauges
             PROVE  GaugesRead'
    BY DEF GaugesRead
<1>1. CASE UNCHANGED scrapeVars /\ head <= head' /\ committed <= committed'
           /\ head' \in Nat /\ committed' \in Nat
    BY <1>1 DEF GaugesRead, GaugeInv, scrapeVars
<1>2. ASSUME NEW s \in Slots, SetHead(s) \/ SetCommitted(s)
      PROVE  GaugesRead'
    <2>1. s \in Nat
        BY MetricsAssumption
    <2> QED BY <1>1, <1>2, <2>1
           DEF SetHead, SetCommitted, Larger, GaugeInv
<1>3. CASE (\E d \in Durations : Observe(d)) \/ Observed \/ UNCHANGED vars
    BY <1>1, <1>3 DEF Observe, Observed, vars, gaugeVars, GaugeInv
<1>4. ASSUME NEW cells, BeginRead(cells)
      PROVE  GaugesRead'
    <2>1. PICK c \in cells : loaded' = [x \in {c} |-> ValueOf(x)]
        BY <1>4 DEF BeginRead
    <2>2. /\ before'.head = head /\ before'.committed = committed
          /\ head' = head /\ committed' = committed
        BY <1>4 DEF BeginRead, gaugeVars
    <2>3. DOMAIN loaded' = {c} /\ loaded'[c] = ValueOf(c)
        BY <2>1
    <2> QED BY <2>2, <2>3, GaugeValues DEF GaugesRead, GaugeInv
<1>5. CASE Load
    <2>1. PICK c \in reading \ DOMAIN loaded :
              loaded' = [x \in DOMAIN loaded \union {c} |->
                            IF x = c THEN ValueOf(x) ELSE loaded[x]]
        BY <1>5 DEF Load
    <2>2. /\ before' = before /\ reading = Gauges
          /\ head' = head /\ committed' = committed
        BY <1>5 DEF Load, gaugeVars
    <2>3. /\ DOMAIN loaded' = DOMAIN loaded \union {c}
          /\ loaded'[c] = ValueOf(c)
          /\ \A x \in DOMAIN loaded : loaded'[x] = loaded[x]
        BY <2>1
    <2> QED BY <2>2, <2>3, GaugeValues DEF GaugesRead, GaugeInv
<1> QED BY <1>2, <1>3, <1>4, <1>5 DEF Next

(* What the gauges show of a read that is over is between what was true    *)
(* when it began and when it ended.                                        *)
LEMMA GaugesBracket == GaugeInv /\ GaugesRead => LagIsBracketed
<1> SUFFICES ASSUME GaugeInv, GaugesRead, reading = Gauges, ReadOver,
                    before.committed # 0
             PROVE  LET lag == Lag(loaded[<<"head", 0>>],
                                   loaded[<<"committed", 0>>])
                    IN  /\ lag >= before.head - committed
                        /\ lag <= head - before.committed
    BY DEF LagIsBracketed, GaugeInv
<1>1. /\ loaded[<<"head", 0>>] \in before.head .. head
      /\ loaded[<<"committed", 0>>] \in before.committed .. committed
    BY DEF ReadOver, Gauges, GaugesRead
<1> QED BY <1>1 DEF GaugeInv, Lag, Larger

----------------------------------------------------------------------------
(* The histogram.                                                          *)

LEMMA Adding ==
    ASSUME NEW d \in Durations, buckets \in [Buckets -> Int], AddToBucket(d)
    PROVE  /\ buckets' \in [Buckets -> Int]
           /\ \A i \in Buckets :
                 buckets'[i] = buckets[i] + IF i = BucketOf(d) THEN 1 ELSE 0
BY BucketFacts DEF AddToBucket

LEMMA CellInit == Init => CellInv /\ BeforeInv /\ CellsRead
<1> SUFFICES ASSUME Init
             PROVE  CellInv /\ BeforeInv /\ CellsRead
    OBVIOUS
<1>1. /\ observed \in Counts /\ before.counts = observed /\ pending = <<>>
      /\ buckets = [i \in Buckets |-> InBucket(observed, i)]
      /\ sum = TimeOf(observed) /\ DOMAIN loaded = {}
    BY MetricsAssumption DEF Init, Counts, Durations
<1>2. /\ \A i \in Buckets : InBucket(observed, i) \in Int
      /\ TimeOf(observed) \in Int
    BY <1>1, CountFacts, TimeFacts
<1>3. /\ \A i \in Buckets : Owed(i) = 0
      /\ OwedTime = 0
    BY <1>1 DEF Owed, OwedTime
<1> QED BY <1>1, <1>2, <1>3 DEF CellInv, BeforeInv, CellsRead

(* An observation begins: the history has it, one of the two cells too,    *)
(* and the other addition is owed.                                         *)
LEMMA CellObserve ==
    ASSUME CellInv, NEW d \in Durations, Observe(d)
    PROVE  CellInv'
<1>1. /\ observed \in Counts /\ pending = <<>>
      /\ observed' = [observed EXCEPT ![d] = @ + 1]
      /\ buckets \in [Buckets -> Int] /\ sum \in Int /\ d \in Int
    BY EdgeFacts DEF Observe, CellInv, Durations
<1>2. /\ observed' \in Counts
      /\ \A i \in Buckets :
            InBucket(observed', i)
            = InBucket(observed, i) + IF i = BucketOf(d) THEN 1 ELSE 0
      /\ TimeOf(observed') = TimeOf(observed) + d
    BY <1>1, Observing
<1>3. observed'[d] > 0
    BY <1>1 DEF Counts
<1>4. /\ \A i \in Buckets : buckets[i] = InBucket(observed, i)
      /\ sum = TimeOf(observed)
    BY <1>1, CountFacts, TimeFacts DEF CellInv, Owed, OwedTime
<1>5. \A i \in Buckets : InBucket(observed, i) \in Int
    BY <1>1, CountFacts
<1>6. CASE AddToBucket(d) /\ pending' = <<"sum", d>> /\ sum' = sum
    <2>1. /\ buckets' \in [Buckets -> Int]
          /\ \A i \in Buckets : buckets'[i] = InBucket(observed', i)
        BY <1>1, <1>2, <1>4, <1>5, <1>6, Adding
    <2>2. (\A i \in Buckets : Owed(i)' = 0) /\ OwedTime' = d
        BY <1>6 DEF Owed, OwedTime
    <2>3. \A i \in Buckets : InBucket(observed', i) \in Int
        BY <1>2, CountFacts
    <2>4. sum' = TimeOf(observed') - d
        BY <1>1, <1>2, <1>4, <1>6
    <2>5. \A i \in Buckets :
              buckets'[i] = InBucket(observed', i) - Owed(i)'
        BY <2>1, <2>2, <2>3
    <2> QED BY <1>1, <1>2, <1>3, <1>6, <2>1, <2>2, <2>4, <2>5 DEF CellInv
<1>7. CASE AddToSum(d) /\ pending' = <<"bucket", d>> /\ buckets' = buckets
    <2>1. \A i \in Buckets :
              Owed(i)' = IF i = BucketOf(d) THEN 1 ELSE 0
        BY <1>7 DEF Owed
    <2>2. OwedTime' = 0
        BY <1>7 DEF OwedTime
    <2>3. sum' = TimeOf(observed') - 0 /\ sum' \in Int
        BY <1>1, <1>2, <1>4, <1>7 DEF AddToSum
    <2>4. \A i \in Buckets :
              buckets'[i] = InBucket(observed', i) - Owed(i)'
        BY <1>2, <1>4, <1>5, <1>7, <2>1
    <2> QED BY <1>1, <1>2, <1>3, <1>7, <2>2, <2>3, <2>4 DEF CellInv
<1> QED BY <1>6, <1>7 DEF Observe

(* Its second addition pays what is owed.                                  *)
LEMMA CellObserved ==
    ASSUME CellInv, Observed
    PROVE  CellInv'
<1> DEFINE d == pending[2]
<1>1. /\ observed \in Counts /\ observed' = observed /\ pending' = <<>>
      /\ pending # <<>> /\ d \in Durations /\ d \in Int
      /\ pending[1] = "sum" \/ pending[1] = "bucket"
      /\ buckets \in [Buckets -> Int] /\ sum \in Int
    BY EdgeFacts DEF Observed, CellInv, Durations
<1>2. (\A i \in Buckets : Owed(i)' = 0) /\ OwedTime' = 0
    BY <1>1 DEF Owed, OwedTime
<1>3. \A i \in Buckets : InBucket(observed, i) \in Int
    BY <1>1, CountFacts
<1>4. TimeOf(observed) \in Int
    BY <1>1, TimeFacts
<1>5. CASE pending[1] = "sum"
    <2>1. buckets' = buckets /\ sum' = sum + d
        BY <1>5 DEF Observed, AddToSum
    <2>2. (\A i \in Buckets : Owed(i) = 0) /\ OwedTime = d
        BY <1>1, <1>5 DEF Owed, OwedTime
    <2>3. \A i \in Buckets : buckets'[i] = InBucket(observed', i) - Owed(i)'
        BY <1>1, <1>2, <1>3, <2>1, <2>2 DEF CellInv
    <2>4. sum' = TimeOf(observed') - OwedTime' /\ sum' \in Int
        BY <1>1, <1>2, <1>4, <2>1, <2>2 DEF CellInv
    <2> QED BY <1>1, <2>1, <2>3, <2>4 DEF CellInv
<1>6. CASE pending[1] = "bucket"
    <2>1. AddToBucket(d) /\ sum' = sum
        BY <1>6 DEF Observed
    <2>2. /\ \A i \in Buckets : Owed(i) = IF i = BucketOf(d) THEN 1 ELSE 0
          /\ OwedTime = 0
        BY <1>1, <1>6 DEF Owed, OwedTime
    <2>3. /\ buckets' \in [Buckets -> Int]
          /\ \A i \in Buckets :
                buckets'[i] = buckets[i] + IF i = BucketOf(d) THEN 1 ELSE 0
        BY <1>1, <2>1, Adding
    <2>4. \A i \in Buckets : buckets[i] = InBucket(observed, i) - Owed(i)
        BY DEF CellInv
    <2>5. \A i \in Buckets : buckets'[i] = InBucket(observed', i) - Owed(i)'
        BY <1>1, <1>2, <1>3, <2>2, <2>3, <2>4
    <2>6. sum' = TimeOf(observed') - OwedTime'
        BY <1>1, <1>2, <1>4, <2>1, <2>2 DEF CellInv
    <2> QED BY <1>1, <2>1, <2>3, <2>5, <2>6 DEF CellInv
<1> QED BY <1>1, <1>5, <1>6

LEMMA CellStep == CellInv /\ [Next]_vars => CellInv'
<1> SUFFICES ASSUME CellInv, [Next]_vars
             PROVE  CellInv'
    OBVIOUS
<1>1. ASSUME NEW d \in Durations, Observe(d) PROVE CellInv'
    BY <1>1, CellObserve
<1>2. CASE Observed
    BY <1>2, CellObserved
<1>3. CASE UNCHANGED histogramVars
    BY <1>3 DEF histogramVars, CellInv, Owed, OwedTime
<1>4. ASSUME NEW s \in Slots, SetHead(s) \/ SetCommitted(s)
      PROVE  UNCHANGED histogramVars
    BY <1>4 DEF SetHead, SetCommitted, histogramVars
<1>5. BeginRead(Gauges) \/ BeginRead(Histogram) \/ Load \/ UNCHANGED vars
      => UNCHANGED histogramVars
    BY DEF BeginRead, Load, vars, histogramVars
<1> QED BY <1>1, <1>2, <1>3, <1>4, <1>5 DEF Next

(* What is in the cells, and what they may hold, only grows.               *)
LEMMA CellGrowth ==
    ASSUME CellInv, [Next]_vars
    PROVE  /\ \A i \in Buckets : /\ buckets[i] <= buckets'[i]
                                 /\ buckets[i] \in Int /\ buckets'[i] \in Int
                                 /\ InBucket(observed, i) \in Int
                                 /\ InBucket(observed', i) \in Int
                                 /\ InBucket(observed, i)
                                    <= InBucket(observed', i)
           /\ sum \in Int /\ sum' \in Int /\ sum <= sum'
           /\ TimeOf(observed) \in Int /\ TimeOf(observed') \in Int
           /\ TimeOf(observed) <= TimeOf(observed')
<1>1. /\ buckets \in [Buckets -> Int] /\ sum \in Int
      /\ observed \in Counts
    BY DEF CellInv
<1>2. /\ \A i \in Buckets : InBucket(observed, i) \in Int
      /\ TimeOf(observed) \in Int
    BY <1>1, CountFacts, TimeFacts
<1>3. CASE UNCHANGED histogramVars
    BY <1>1, <1>2, <1>3 DEF histogramVars
<1>4. ASSUME NEW d \in Durations, AddToBucket(d)
      PROVE  \A i \in Buckets : buckets[i] <= buckets'[i] /\ buckets'[i] \in Int
    BY <1>1, <1>4, Adding
<1>5. ASSUME NEW d \in Durations, AddToSum(d)
      PROVE  sum <= sum' /\ sum' \in Int
    BY <1>1, <1>5, EdgeFacts DEF AddToSum, Durations
<1>6. ASSUME NEW d \in Durations, Observe(d)
      PROVE  /\ \A i \in Buckets :
                    /\ InBucket(observed', i) \in Int
                    /\ InBucket(observed, i) <= InBucket(observed', i)
             /\ TimeOf(observed') \in Int
             /\ TimeOf(observed) <= TimeOf(observed')
    <2>1. observed' = [observed EXCEPT ![d] = @ + 1] /\ d \in Nat
        BY <1>6, EdgeFacts DEF Observe, Durations
    <2>2. /\ observed' \in Counts
          /\ \A i \in Buckets :
                InBucket(observed', i)
                = InBucket(observed, i) + IF i = BucketOf(d) THEN 1 ELSE 0
          /\ TimeOf(observed') = TimeOf(observed) + d
        BY <1>1, <2>1, Observing
    <2>3. /\ \A i \in Buckets : InBucket(observed', i) \in Int
          /\ TimeOf(observed') \in Int
        BY <2>2, CountFacts, TimeFacts
    <2>4. \A i \in Buckets : InBucket(observed, i) <= InBucket(observed', i)
        BY <1>2, <2>2, <2>3
    <2>5. TimeOf(observed) <= TimeOf(observed')
        BY <1>2, <2>1, <2>2
    <2> QED BY <2>3, <2>4, <2>5
<1>7. ASSUME NEW d \in Durations, Observe(d)
      PROVE  /\ \A i \in Buckets :
                    buckets[i] <= buckets'[i] /\ buckets'[i] \in Int
             /\ sum <= sum' /\ sum' \in Int
    BY <1>1, <1>4, <1>5, <1>7 DEF Observe
<1>8. CASE Observed
    <2>1. pending[2] \in Durations /\ observed' = observed
        BY <1>8 DEF Observed, CellInv
    <2> QED BY <1>1, <1>2, <1>4, <1>5, <1>8, <2>1 DEF Observed
<1>9. ASSUME NEW s \in Slots, SetHead(s) \/ SetCommitted(s)
      PROVE  UNCHANGED histogramVars
    BY <1>9 DEF SetHead, SetCommitted, histogramVars
<1>10. BeginRead(Gauges) \/ BeginRead(Histogram) \/ Load \/ UNCHANGED vars
       => UNCHANGED histogramVars
    BY DEF BeginRead, Load, vars, histogramVars
<1> QED BY <1>1, <1>2, <1>3, <1>6, <1>7, <1>8, <1>9, <1>10 DEF Next

(* The observations that are over are in the cells in full.                *)
LEMMA DoneFacts ==
    ASSUME CellInv
    PROVE  /\ Done \in Counts
           /\ \A i \in Buckets : InBucket(Done, i) <= buckets[i]
           /\ TimeOf(Done) <= sum
<1>1. /\ buckets \in [Buckets -> Int] /\ sum \in Int /\ observed \in Counts
      /\ \A i \in Buckets : buckets[i] = InBucket(observed, i) - Owed(i)
      /\ sum = TimeOf(observed) - OwedTime
    BY DEF CellInv
<1>2. CASE pending = <<>>
    <2>1. Done = observed /\ OwedTime = 0 /\ \A i \in Buckets : Owed(i) = 0
        BY <1>2 DEF Done, Owed, OwedTime
    <2>2. /\ \A i \in Buckets : InBucket(observed, i) \in Int
          /\ TimeOf(observed) \in Int
        BY <1>1, CountFacts, TimeFacts
    <2> QED BY <1>1, <2>1, <2>2
<1>3. CASE pending # <<>>
    <2> DEFINE d == pending[2]
    <2>1. /\ d \in Durations /\ d \in Nat /\ observed[d] > 0
          /\ Done = [observed EXCEPT ![d] = @ - 1]
        BY <1>3, EdgeFacts DEF CellInv, Done, Durations
    <2> HIDE DEF d
    <2>2. /\ DOMAIN Done = Durations /\ DOMAIN observed = Durations
          /\ Done[d] = observed[d] - 1 /\ Done[d] \in Nat
          /\ \A x \in Durations \ {d} : Done[x] = observed[x]
          /\ \A x \in Durations : observed[x] \in Nat
        BY <1>1, <2>1 DEF Counts
    <2> DEFINE again == [Done EXCEPT ![d] = @ + 1]
    <2>3. Done \in Counts
        <3>1. \A x \in Durations : Done[x] \in Nat
            BY <2>2
        <3>2. Done = [x \in Durations |-> Done[x]]
            BY <2>1, <2>2
        <3> QED BY <3>1, <3>2 DEF Counts
    <2>4. observed = again
        <3>1. again \in Counts
            BY <2>1, <2>3 DEF Counts
        <3>2. \A x \in Durations : again[x] = observed[x]
            BY <2>1, <2>2
        <3> QED BY <1>1, <3>1, <3>2 DEF Counts
    <2>5. /\ \A i \in Buckets :
                InBucket(again, i)
                = InBucket(Done, i) + IF i = BucketOf(d) THEN 1 ELSE 0
          /\ TimeOf(again) = TimeOf(Done) + d
        BY <2>1, <2>3, Observing
    <2> HIDE DEF again
    <2>6. /\ \A i \in Buckets : InBucket(Done, i) \in Int
          /\ TimeOf(Done) \in Int
        BY <2>3, CountFacts, TimeFacts
    <2>7. \A i \in Buckets :
              Owed(i) = 0 \/ (Owed(i) = 1 /\ i = BucketOf(d))
        BY DEF Owed, d
    <2>8. OwedTime = 0 \/ OwedTime = d
        BY DEF OwedTime, d
    <2>9. \A i \in Buckets : InBucket(Done, i) <= buckets[i]
        BY <1>1, <2>4, <2>5, <2>6, <2>7
    <2>10. TimeOf(Done) <= sum
        BY <1>1, <2>1, <2>4, <2>5, <2>6, <2>8
    <2> QED BY <2>3, <2>9, <2>10
<1> QED BY <1>2, <1>3

LEMMA BeforeStep == CellInv /\ BeforeInv /\ [Next]_vars => BeforeInv'
<1> SUFFICES ASSUME CellInv, BeforeInv, [Next]_vars
             PROVE  BeforeInv'
    OBVIOUS
<1>1. CASE before' = before
    <2>1. /\ \A i \in Buckets : InBucket(before.counts, i) \in Int
          /\ TimeOf(before.counts) \in Int
        BY CountFacts, TimeFacts DEF BeforeInv
    <2>2. /\ \A i \in Buckets : InBucket(before.counts, i) <= buckets'[i]
          /\ TimeOf(before.counts) <= sum'
        BY <2>1, CellGrowth DEF BeforeInv
    <2> QED BY <1>1, <2>2 DEF BeforeInv
<1>2. ASSUME NEW cells, BeginRead(cells)
      PROVE  BeforeInv'
    <2>1. before'.counts = Done /\ buckets' = buckets /\ sum' = sum
        BY <1>2 DEF BeginRead, histogramVars
    <2> QED BY <2>1, DoneFacts DEF BeforeInv
<1>3. \A s \in Slots : SetHead(s) \/ SetCommitted(s) => before' = before
    BY DEF SetHead, SetCommitted, scrapeVars
<1>4. \A d \in Durations : Observe(d) => before' = before
    BY DEF Observe, scrapeVars
<1>5. Observed \/ Load \/ UNCHANGED vars => before' = before
    BY DEF Observed, Load, vars, scrapeVars
<1> QED BY <1>1, <1>2, <1>3, <1>4, <1>5 DEF Next

LEMMA CellValues ==
    ASSUME CellInv, BeforeInv
    PROVE  /\ \A i \in Buckets :
                 buckets[i] \in InBucket(before.counts, i)
                                   .. InBucket(observed, i)
           /\ sum \in TimeOf(before.counts) .. TimeOf(observed)
<1>1. /\ buckets \in [Buckets -> Int] /\ sum \in Int
      /\ \A i \in Buckets : buckets[i] = InBucket(observed, i) - Owed(i)
      /\ sum = TimeOf(observed) - OwedTime
      /\ observed \in Counts /\ before.counts \in Counts
    BY DEF CellInv, BeforeInv
<1>2. /\ \A i \in Buckets : /\ InBucket(observed, i) \in Int
                            /\ InBucket(before.counts, i) \in Int
                            /\ InBucket(before.counts, i) <= buckets[i]
      /\ TimeOf(observed) \in Int /\ TimeOf(before.counts) \in Int
      /\ TimeOf(before.counts) <= sum
    BY <1>1, CountFacts, TimeFacts DEF BeforeInv
<1>3. \A i \in Buckets : Owed(i) \in {0, 1}
    BY DEF Owed
<1>4. OwedTime \in Nat
    BY EdgeFacts DEF OwedTime, CellInv, Durations
<1>5. \A i \in Buckets : buckets[i] <= InBucket(observed, i)
    BY <1>1, <1>2, <1>3
<1>6. sum <= TimeOf(observed)
    BY <1>1, <1>2, <1>4
<1> QED BY <1>1, <1>2, <1>5, <1>6

LEMMA CellsReadStep ==
    CellInv /\ BeforeInv /\ CellsRead /\ [Next]_vars => CellsRead'
<1> SUFFICES ASSUME CellInv, BeforeInv, CellsRead, [Next]_vars,
                    reading' = Histogram
             PROVE  CellsRead'
    BY DEF CellsRead
<1>1. CASE UNCHANGED scrapeVars
    <2>1. /\ reading = Histogram /\ loaded' = loaded
          /\ before'.counts = before.counts
        BY <1>1 DEF scrapeVars
    <2>2. /\ \A i \in Buckets : InBucket(before.counts, i) \in Int
          /\ TimeOf(before.counts) \in Int
        BY CountFacts, TimeFacts DEF BeforeInv
    <2>3. \A i \in Buckets :
              <<"bucket", i>> \in DOMAIN loaded
              => loaded[<<"bucket", i>>]
                 \in InBucket(before.counts, i) .. InBucket(observed', i)
        BY <2>1, <2>2, CellGrowth DEF CellsRead
    <2>4. <<"sum", 0>> \in DOMAIN loaded
          => loaded[<<"sum", 0>>] \in TimeOf(before.counts) .. TimeOf(observed')
        BY <2>1, <2>2, CellGrowth DEF CellsRead
    <2> QED BY <2>1, <2>3, <2>4 DEF CellsRead
<1>2. ASSUME NEW cells, BeginRead(cells)
      PROVE  CellsRead'
    <2>1. /\ \A i \in Buckets :
                buckets'[i] \in InBucket(before'.counts, i)
                                   .. InBucket(observed', i)
          /\ sum' \in TimeOf(before'.counts) .. TimeOf(observed')
        <3>1. /\ before'.counts = Done /\ buckets' = buckets /\ sum' = sum
              /\ observed' = observed /\ pending' = pending
            BY <1>2 DEF BeginRead, histogramVars
        <3>2. /\ \A i \in Buckets : InBucket(Done, i) \in Int
              /\ TimeOf(Done) \in Int
            BY DoneFacts, CountFacts, TimeFacts
        <3> QED BY <3>1, <3>2, DoneFacts, CellValues
    <2>2. PICK c \in cells : loaded' = [x \in {c} |-> ValueOf(x)]
        BY <1>2 DEF BeginRead
    <2>3. DOMAIN loaded' = {c} /\ loaded'[c] = ValueOf(c)
        BY <2>2
    <2>4. buckets' = buckets /\ sum' = sum
        BY <1>2 DEF BeginRead, histogramVars
    <2> QED BY <2>1, <2>3, <2>4, GaugeValues DEF CellsRead
<1>3. CASE Load
    <2>1. PICK c \in reading \ DOMAIN loaded :
              loaded' = [x \in DOMAIN loaded \union {c} |->
                            IF x = c THEN ValueOf(x) ELSE loaded[x]]
        BY <1>3 DEF Load
    <2>2. /\ before' = before /\ reading = Histogram
          /\ observed' = observed
        BY <1>3 DEF Load, histogramVars
    <2>3. /\ DOMAIN loaded' = DOMAIN loaded \union {c}
          /\ loaded'[c] = ValueOf(c)
          /\ \A x \in DOMAIN loaded : loaded'[x] = loaded[x]
        BY <2>1
    <2> QED BY <2>2, <2>3, CellValues, GaugeValues DEF CellsRead
<1>4. \A s \in Slots : SetHead(s) \/ SetCommitted(s) => UNCHANGED scrapeVars
    BY DEF SetHead, SetCommitted
<1>5. \A d \in Durations : Observe(d) => UNCHANGED scrapeVars
    BY DEF Observe
<1>6. Observed \/ UNCHANGED vars => UNCHANGED scrapeVars
    BY DEF Observed, vars
<1> QED BY <1>1, <1>2, <1>3, <1>4, <1>5, <1>6 DEF Next

----------------------------------------------------------------------------
(* What follows for a read that is over.                                   *)

LEMMA CellsBracket ==
    CellInv /\ BeforeInv /\ CellsRead => ScrapeIsBracketed
<1> SUFFICES ASSUME CellInv, BeforeInv, CellsRead,
                    reading = Histogram, ReadOver
             PROVE  /\ \A i \in Buckets :
                          Printed[i] \in AtMost(before.counts)[Upper(i)]
                                            .. AtMost(observed)[Upper(i)]
                    /\ loaded[<<"sum", 0>>]
                       \in TimeOf(before.counts) .. TimeOf(observed)
    BY DEF ScrapeIsBracketed
<1> DEFINE low == [i \in Buckets |-> InBucket(before.counts, i)]
           high == [i \in Buckets |-> InBucket(observed, i)]
           shown == [i \in Buckets |-> loaded[<<"bucket", i>>]]
<1>1. /\ before.counts \in Counts /\ observed \in Counts
      /\ Overflow \in Nat /\ Buckets = 0 .. Overflow
    BY EdgeFacts DEF CellInv, BeforeInv, Buckets
<1>2. /\ \A i \in Buckets : <<"bucket", i>> \in DOMAIN loaded
      /\ <<"sum", 0>> \in DOMAIN loaded
    BY DEF ReadOver, Histogram
<1>3. \A i \in Buckets : /\ InBucket(before.counts, i) \in Int
                         /\ InBucket(observed, i) \in Int
    BY <1>1, CountFacts
<1>4. \A i \in Buckets :
          loaded[<<"bucket", i>>]
          \in InBucket(before.counts, i) .. InBucket(observed, i)
    BY <1>2 DEF CellsRead
<1>5. /\ low \in [0 .. Overflow -> Int] /\ high \in [0 .. Overflow -> Int]
      /\ shown \in [0 .. Overflow -> Int]
      /\ \A i \in 0 .. Overflow : low[i] <= shown[i]
      /\ \A i \in 0 .. Overflow : shown[i] <= high[i]
    BY <1>1, <1>3, <1>4
<1>6. /\ \A i \in Buckets :
            Running(low, Overflow)[i] = AtMost(before.counts)[Upper(i)]
      /\ \A i \in Buckets :
            Running(high, Overflow)[i] = AtMost(observed)[Upper(i)]
    BY <1>1, Telescope
<1>7. Printed = Running(shown, Overflow)
    BY DEF Printed
<1> HIDE DEF low, high, shown
<1>8. /\ Running(low, Overflow) \in [0 .. Overflow -> Int]
      /\ Running(high, Overflow) \in [0 .. Overflow -> Int]
      /\ Running(shown, Overflow) \in [0 .. Overflow -> Int]
    BY ONLY <1>1, <1>5, RunningFacts
<1>9. \A i \in 0 .. Overflow :
          Running(low, Overflow)[i] <= Running(shown, Overflow)[i]
    BY ONLY <1>1, <1>5, RunningMonotone
<1>10. \A i \in 0 .. Overflow :
          Running(shown, Overflow)[i] <= Running(high, Overflow)[i]
    BY ONLY <1>1, <1>5, RunningMonotone
<1>11. \A i \in Buckets :
           Printed[i] \in AtMost(before.counts)[Upper(i)]
                             .. AtMost(observed)[Upper(i)]
    BY <1>1, <1>6, <1>7, <1>8, <1>9, <1>10
<1> QED BY <1>2, <1>11 DEF CellsRead

(* The cells, once the observer is done, run to the observations.          *)
LEMMA CellsAtRest ==
    ASSUME CellInv, pending = <<>>
    PROVE  \A i \in Buckets :
               Running(buckets, Overflow)[i] = AtMost(observed)[Upper(i)]
<1>1. \A i \in Buckets : InBucket(observed, i) \in Int /\ Owed(i) = 0
    BY CountFacts DEF CellInv, Owed
<1>2. buckets = [i \in Buckets |-> InBucket(observed, i)]
    BY <1>1 DEF CellInv
<1> QED BY <1>2, Telescope DEF CellInv

(* n reaches the rank of a percentile of count exactly when it is so many  *)
(* of a hundred, and count itself does.                                    *)
LEMMA RankFacts ==
    ASSUME NEW count \in Nat, NEW percent \in {50, 95, 99}
    PROVE  /\ \A n \in Nat :
                 n >= Rank(count, percent) <=> n * 100 >= percent * count
           /\ count >= Rank(count, percent)
<1>1. CASE percent = 50
    BY <1>1 DEF Rank
<1>2. CASE percent = 95
    BY <1>2 DEF Rank
<1>3. CASE percent = 99
    BY <1>3 DEF Rank
<1> QED BY <1>1, <1>2, <1>3

LEMMA PercentileIsRank ==
    ASSUME CellInv, pending = <<>>, NEW percent \in {50, 95, 99}
    PROVE  LET Covers(e) ==
                   AtMost(observed)[e] * 100 >= percent * Total(observed)
               edges == {e \in Range(Edges) : Covers(e)}
           IN  PercentileUpper(buckets, percent) =
                   IF Total(observed) = 0 \/ edges = {} THEN <<>>
                   ELSE <<CHOOSE e \in edges : \A f \in edges : e <= f>>
<1> DEFINE count == Total(observed)
           Covers(e) == AtMost(observed)[e] * 100 >= percent * count
           edges == {e \in Range(Edges) : Covers(e)}
           running == Running(buckets, Overflow)
           Reaches(i) == running[i] >= Rank(count, percent)
           First(i) == Reaches(i) /\ \A j \in 0 .. i - 1 : ~Reaches(j)
           at == CHOOSE i \in Buckets : First(i)
<1>1. /\ count \in Nat /\ AtMost(observed) \in [Durations -> Nat]
      /\ Overflow \in Nat /\ Buckets = 0 .. Overflow
    BY CountFacts, EdgeFacts DEF CellInv, Buckets
<1>2. \A i \in Buckets : running[i] = AtMost(observed)[Upper(i)]
    BY CellsAtRest
<1>3. running[Overflow] = count
    BY <1>1, <1>2, UpperFacts DEF Total
<1>4. PercentileUpper(buckets, percent)
      = IF count = 0 \/ at = Overflow THEN <<>> ELSE <<Edge(at)>>
    BY <1>3 DEF PercentileUpper
<1>5. \A i \in Buckets : Reaches(i) <=> Covers(Upper(i))
    <2>1. \A i \in Buckets : AtMost(observed)[Upper(i)] \in Nat
        BY <1>1, UpperFacts
    <2>2. \A n \in Nat : n >= Rank(count, percent) <=> n * 100 >= percent * count
        BY <1>1, RankFacts
    <2> HIDE DEF count, running
    <2> QED BY <1>2, <2>1, <2>2
<1>6. at \in Buckets /\ First(at)
    <2> DEFINE T == {i \in Buckets : Reaches(i)}
    <2>1. T \in SUBSET Nat /\ Overflow \in T
        BY <1>1, <1>3, RankFacts
    <2>2. PICK x \in T : \A y \in T : x <= y
        <3> HIDE DEF T
        <3> QED BY <2>1, NatLeast
    <2> HIDE DEF Reaches
    <2>3. x \in Buckets /\ First(x)
        <3>1. \A j \in 0 .. x - 1 : j \in Buckets /\ ~(x <= j)
            BY <1>1, <2>2
        <3> QED BY <2>2, <3>1
    <2> HIDE DEF First
    <2> QED BY <2>3
<1> HIDE DEF at, running, count
<1>7. \A e : e \in edges <=> \E i \in Buckets \ {Overflow} :
                                 e = Edge(i) /\ Reaches(i)
    <2>1. \A i \in Buckets \ {Overflow} :
              i \in 0 .. Overflow - 1 /\ Upper(i) = Edge(i)
        BY <1>1 DEF Upper
    <2>2. \A i \in 0 .. Overflow - 1 : i \in Buckets \ {Overflow}
        BY <1>1
    <2> HIDE DEF Reaches, Covers
    <2> QED BY <1>5, <2>1, <2>2, EdgeFacts
<1> HIDE DEF Reaches, edges
<1>8. CASE at = Overflow
    <2>1. \A i \in Buckets \ {Overflow} : i \in 0 .. at - 1
        BY <1>1, <1>8
    <2>2. edges = {}
        BY <1>6, <1>7, <2>1
    <2> QED BY <1>4, <1>8, <2>2 DEF edges, count
<1>9. CASE at # Overflow
    <2>1. Edge(at) \in edges /\ Edge(at) \in Nat
        BY <1>1, <1>6, <1>7, <1>9, EdgeFacts
    <2>2. ASSUME NEW f \in edges PROVE f \in Nat /\ Edge(at) <= f
        <3>1. PICK i \in Buckets \ {Overflow} : f = Edge(i) /\ Reaches(i)
            BY <1>7
        <3>2. i \in 0 .. Overflow - 1 /\ at \in 0 .. Overflow - 1
            BY <1>1, <1>6, <1>9
        <3>3. at <= i
            BY <1>1, <1>6, <3>1, <3>2
        <3> QED BY <3>1, <3>2, <3>3, EdgeFacts
    <2>3. (CHOOSE e \in edges : \A f \in edges : e <= f) = Edge(at)
        BY <2>1, <2>2
    <2> QED BY <1>4, <1>9, <2>1, <2>3 DEF edges, count
<1> QED BY <1>8, <1>9

----------------------------------------------------------------------------
LEMMA MetricsInvInit == Init => MetricsInv
BY GaugeInit, CellInit DEF MetricsInv

LEMMA MetricsInvNext == MetricsInv /\ [Next]_vars => MetricsInv'
BY GaugeStep, GaugesReadStep, CellStep, BeforeStep, CellsReadStep
   DEF MetricsInv

THEOREM MetricsInvariant == Spec => []MetricsInv
BY MetricsInvInit, MetricsInvNext, PTL DEF Spec

(* The lag that a scrape or a report shows is one the gauges justify,      *)
(* however its loads fall between the writes (commit_lag_slots).           *)
THEOREM LagBracketed == Spec => []LagIsBracketed
<1>1. MetricsInv => LagIsBracketed
    BY GaugesBracket DEF MetricsInv
<1> QED BY <1>1, MetricsInvariant, PTL

(* The running counts and the sum of a scrape lie between the observations *)
(* that were over when it began and those begun by its end (histogram).    *)
THEOREM ScrapeBracketed == Spec => []ScrapeIsBracketed
<1>1. MetricsInv => ScrapeIsBracketed
    BY CellsBracket DEF MetricsInv
<1> QED BY <1>1, MetricsInvariant, PTL

(* A percentile of a histogram nobody writes to is the least edge that     *)
(* holds its rank, and None beyond the last (percentile_upper_ms).         *)
THEOREM PercentilesRank == Spec => []PercentilesAreRanks
<1>1. MetricsInv => PercentilesAreRanks
    BY PercentileIsRank DEF MetricsInv, PercentilesAreRanks
<1> QED BY <1>1, MetricsInvariant, PTL
=============================================================================
