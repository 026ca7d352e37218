------------------------- MODULE GapMonitorProofs -------------------------
(***************************************************************************)
(* Proofs about GapMonitor, for every set of slots, every tolerance and    *)
(* every size of the channel.                                              *)
(***************************************************************************)
EXTENDS GapMonitor, SequenceTheorems, TLAPS

(* A channel of S holds members of S.                                      *)
LEMMA RangeType ==
    ASSUME NEW S, NEW s \in Seq(S)
    PROVE  Range(s) \in SUBSET S
BY RangeOfSeq

(* A push adds the pushed item.                                            *)
LEMMA RangeAppend ==
    ASSUME NEW S, NEW s \in Seq(S), NEW e \in S
    PROVE  Range(Append(s, e)) = Range(s) \union {e}
<1> DEFINE t == Append(s, e)
<1>1. /\ DOMAIN t = DOMAIN s \union {Len(s) + 1}
      /\ \A i \in DOMAIN s : t[i] = s[i]
      /\ t[Len(s) + 1] = e
    OBVIOUS
<1> HIDE DEF t
<1> QED BY <1>1 DEF Range

(* Taking the head of a channel leaves its other items.                    *)
LEMMA RangeTail ==
    ASSUME NEW S, NEW s \in Seq(S), s # <<>>
    PROVE  /\ Head(s) \in S
           /\ Tail(s) \in Seq(S)
           /\ Range(s) = Range(Tail(s)) \union {Head(s)}
<1> DEFINE t == Tail(s)
<1>1. Head(s) \in S /\ t \in Seq(S)
    OBVIOUS
<1>2. /\ 1 \in DOMAIN s /\ s[1] = Head(s)
      /\ \A i \in DOMAIN t : i + 1 \in DOMAIN s /\ s[i + 1] = t[i]
      /\ \A i \in DOMAIN s : i # 1 => i - 1 \in DOMAIN t /\ t[i - 1] = s[i]
    OBVIOUS
<1> HIDE DEF t
<1>3. Range(s) \subseteq Range(t) \union {Head(s)}
    BY <1>2 DEF Range
<1>4. Range(t) \union {Head(s)} \subseteq Range(s)
    BY <1>2 DEF Range
<1> QED BY <1>1, <1>3, <1>4 DEF t

(* A report that is sent is in the channel, or counted as lost.            *)
LEMMA Sent ==
    ASSUME NEW r \in Reports, TypeOK, TrySend(r)
    PROVE  /\ queue' \in Seq(Reports) /\ Len(queue') <= QueueCap
           /\ lost' \in SUBSET Reports
           /\ Range(queue') \union lost' = Range(queue) \union lost \union {r}
<1>1. queue \in Seq(Reports) /\ lost \in SUBSET Reports /\ Len(queue) \in Nat
    BY DEF TypeOK
<1>2. CASE Len(queue) < QueueCap /\ queue' = Append(queue, r) /\ lost' = lost
    <2>1. Range(queue') = Range(queue) \union {r}
        BY ONLY <1>1, <1>2, RangeAppend
    <2>2. queue' \in Seq(Reports) /\ Len(queue') = Len(queue) + 1
        BY <1>1, <1>2
    <2> QED BY <1>1, <1>2, <2>1, <2>2, MonitorAssumption
<1>3. CASE lost' = lost \union {r} /\ queue' = queue
    BY <1>1, <1>3 DEF TypeOK
<1> QED BY <1>2, <1>3 DEF TrySend

(* An insert keeps every row and leaves a row with the range inserted.     *)
LEMMA Inserted ==
    ASSUME NEW r \in Reports, table \in SUBSET Reports, Insert(r)
    PROVE  /\ table' \in SUBSET Reports
           /\ table \subseteq table'
           /\ \E q \in table' : q.start = r.start /\ q.end = r.end
BY DEF Insert

----------------------------------------------------------------------------
LEMMA TypeInit == Init => TypeOK
<1>1. <<>> \in Seq(Reports) /\ Len(<<>>) = 0 /\ 0 <= QueueCap
    BY MonitorAssumption
<1>2. ASSUME Init
      PROVE  queue \in Seq(Reports) /\ Len(queue) <= QueueCap
    BY <1>1, <1>2 DEF Init
<1>3. ASSUME Init
      PROVE  /\ up \in BOOLEAN
             /\ watermark \in Slots \union {0} /\ first \in Slots \union {0}
             /\ outages \in Nat /\ runs \in Nat
    BY <1>3 DEF Init
<1>4. ASSUME Init
      PROVE  /\ hand \in SUBSET Reports /\ \A r, q \in hand : r = q
             /\ table \in SUBSET Reports /\ claims \in SUBSET Reports
             /\ seen \in SUBSET Slots
             /\ written \in SUBSET Reports /\ lost \in SUBSET Reports
    BY <1>4 DEF Init
<1> QED BY <1>2, <1>3, <1>4 DEF TypeOK

LEMMA TypeNext == TypeOK /\ [Next]_vars => TypeOK'
<1> SUFFICES ASSUME TypeOK, [Next]_vars
             PROVE  TypeOK'
    OBVIOUS
<1> USE DEF channel, history, bounds, vars
<1>1. ASSUME NEW s \in Slots, CheckSlot(s)
      PROVE  TypeOK'
    <2>1. /\ watermark' \in Slots \union {0}
          /\ seen' \in SUBSET Slots /\ first' \in Slots \union {0}
        BY <1>1 DEF CheckSlot, Advance, Larger, TypeOK
    <2> DEFINE r == Report(watermark, s, "watermark")
    <2>2. CASE Jumps(s) /\ TrySend(r) /\ claims' = claims \union {r}
        <3>1. r \in Reports
            BY <2>2 DEF Jumps, Report, Reports, Detectors, TypeOK
        <3>2. /\ queue' \in Seq(Reports) /\ Len(queue') <= QueueCap
              /\ lost' \in SUBSET Reports
            BY <2>2, <3>1, Sent
        <3> HIDE DEF r
        <3> QED BY <1>1, <2>1, <2>2, <3>1, <3>2 DEF CheckSlot, TypeOK
    <2>3. CASE UNCHANGED <<queue, lost, claims>>
        BY <1>1, <2>1, <2>3 DEF CheckSlot, TypeOK
    <2> QED BY <1>1, <2>2, <2>3 DEF CheckSlot
<1>2. ASSUME NEW s \in Slots, CarbonReports(s)
      PROVE  TypeOK'
    <2> DEFINE r == Report(watermark, s, "yellowstone-grpc")
    <2>1. r \in Reports
        BY <1>2 DEF CarbonReports, Report, Reports, Detectors, TypeOK
    <2>2. /\ queue' \in Seq(Reports) /\ Len(queue') <= QueueCap
          /\ lost' \in SUBSET Reports
        BY <1>2, <2>1, Sent DEF CarbonReports
    <2> QED BY <1>2, <2>2 DEF CarbonReports, TypeOK
<1>3. CASE RecorderReceives
    <2>1. /\ Head(queue) \in Reports
          /\ Tail(queue) \in Seq(Reports) /\ Len(Tail(queue)) <= Len(queue)
        BY <1>3 DEF RecorderReceives, TypeOK
    <2> QED BY <1>3, <2>1, MonitorAssumption DEF RecorderReceives, TypeOK
<1>4. CASE Record
    <2>1. table' \in SUBSET Reports
        BY <1>4, Inserted DEF Record, TypeOK
    <2> QED BY <1>4, <2>1 DEF Record, TypeOK
<1>5. CASE RecordFails
    <2>1. table' \in SUBSET Reports
        BY <1>5, Inserted DEF RecordFails, TypeOK
    <2> QED BY <1>5, <2>1 DEF RecordFails, TypeOK
<1>6. CASE Start
    BY <1>6 DEF Start, TypeOK
<1>7. CASE Stop
    <2>1. table' \in SUBSET Reports
        BY <1>7, Inserted DEF Stop, TypeOK
    <2>2. Range(queue) \in SUBSET Reports
        BY RangeType DEF TypeOK
    <2>3. <<>> \in Seq(Reports) /\ Len(<<>>) = 0 /\ 0 <= QueueCap
        BY MonitorAssumption
    <2> QED BY <1>7, <2>1, <2>2, <2>3 DEF Stop, TypeOK
<1>8. CASE UNCHANGED vars
    BY <1>8 DEF TypeOK
<1> QED BY <1>1, <1>2, <1>3, <1>4, <1>5, <1>6, <1>7, <1>8 DEF Next, Recorder

(* Every variable keeps its type, and the channel its bound.               *)
THEOREM TypeCorrect == Spec => []TypeOK
BY TypeInit, TypeNext, PTL DEF Spec

----------------------------------------------------------------------------
(* A range that was reported stays reported.                               *)

Reported == table \union Range(queue) \union hand \union lost

Kept == \A r \in Reported : \E q \in Reported' : q.start = r.start /\ q.end = r.end

LEMMA ReportsKept ==
    ASSUME TypeOK, [Next]_vars
    PROVE  Kept
<1> USE DEF channel, history, bounds, vars, Kept, Reported
<1>1. ASSUME NEW s \in Slots, CheckSlot(s)
      PROVE  Kept
    <2> DEFINE r == Report(watermark, s, "watermark")
    <2>1. CASE Jumps(s) /\ TrySend(r)
        <3>1. r \in Reports
            BY <2>1 DEF Jumps, Report, Reports, Detectors, TypeOK
        <3>2. Range(queue') \union lost' = Range(queue) \union lost \union {r}
            BY <2>1, <3>1, Sent
        <3> QED BY <1>1, <3>2 DEF CheckSlot
    <2>2. CASE UNCHANGED <<queue, lost>>
        BY <1>1, <2>2 DEF CheckSlot
    <2> QED BY <1>1, <2>1, <2>2 DEF CheckSlot
<1>2. ASSUME NEW s \in Slots, CarbonReports(s)
      PROVE  Kept
    <2> DEFINE r == Report(watermark, s, "yellowstone-grpc")
    <2>1. r \in Reports
        BY <1>2 DEF CarbonReports, Report, Reports, Detectors, TypeOK
    <2>2. Range(queue') \union lost' = Range(queue) \union lost \union {r}
        BY <1>2, <2>1, Sent DEF CarbonReports
    <2> QED BY <1>2, <2>2 DEF CarbonReports
<1>3. CASE RecorderReceives
    <2>1. Range(queue) = Range(queue') \union hand'
        BY <1>3, RangeTail DEF RecorderReceives, TypeOK
    <2> QED BY <1>3, <2>1 DEF RecorderReceives
<1>4. CASE Record
    <2>1. PICK r \in hand : Insert(r)
        BY <1>4 DEF Record
    <2>2. /\ r \in Reports /\ hand = {r}
          /\ table \subseteq table'
          /\ \E q \in table' : q.start = r.start /\ q.end = r.end
        BY <2>1, Inserted DEF TypeOK
    <2> QED BY <1>4, <2>2 DEF Record
<1>5. CASE RecordFails
    <2>1. table \subseteq table'
        BY <1>5, Inserted DEF RecordFails, TypeOK
    <2> QED BY <1>5, <2>1 DEF RecordFails
<1>6. CASE Start
    BY <1>6 DEF Start
<1>7. CASE Stop
    <2>1. table \subseteq table'
        BY <1>7, Inserted DEF Stop, TypeOK
    <2> QED BY <1>7, <2>1 DEF Stop
<1>8. CASE UNCHANGED vars
    BY <1>8
<1> QED BY <1>1, <1>2, <1>3, <1>4, <1>5, <1>6, <1>7, <1>8 DEF Next, Recorder

----------------------------------------------------------------------------
(* The watermark is the largest slot seen in the run, so a slot beyond it  *)
(* ends the only stretch that the watermark had not been over yet.         *)

Quiet(a, b) == \A s \in seen : s <= a \/ b <= s

WatermarkInv ==
    /\ TypeOK
    /\ seen = {} => watermark = 0 /\ claims = {}
    /\ seen # {} => watermark \in seen
    /\ \A s \in seen : s <= watermark
    /\ HolesAreReported
    /\ \A r \in claims : r.end <= watermark
    /\ ClaimedOnce

LEMMA WatermarkInit == Init => WatermarkInv
BY TypeInit DEF Init, WatermarkInv, HolesAreReported, ClaimedOnce

(* A check of a slot keeps the watermark, and reports what it jumps over.  *)
LEMMA CheckKeeps ==
    ASSUME WatermarkInv, NEW s \in Slots, CheckSlot(s), TypeOK', Kept
    PROVE  WatermarkInv'
<1> DEFINE r == Report(watermark, s, "watermark")
<1>1. /\ watermark \in Nat /\ s \in Nat \ {0} /\ Slots \subseteq Nat
      /\ Tolerance \in Nat /\ first \in Nat /\ first' \in Nat
    BY SlotsAssumption, ToleranceAssumption DEF WatermarkInv, TypeOK
<1>2. /\ watermark' = IF watermark >= s THEN watermark ELSE s
      /\ seen' = seen \union {s}
      /\ first' = IF seen = {} THEN s ELSE first
    BY DEF CheckSlot, Advance, Larger
<1>3. /\ seen' # {} /\ watermark' \in seen'
      /\ \A t \in seen' : t <= watermark'
    <2>1. seen \subseteq Nat
        BY <1>1 DEF WatermarkInv, TypeOK
    <2> QED BY <1>1, <1>2, <2>1 DEF WatermarkInv
<1>4. Jumps(s) => r \in Reported' /\ r.start = watermark /\ r.end = s
    <2>1. SUFFICES ASSUME Jumps(s)
                   PROVE  r \in Reported'
        BY DEF Report
    <2>2. r \in Reports
        BY <2>1 DEF Jumps, Report, Reports, Detectors, WatermarkInv, TypeOK
    <2>3. TrySend(r)
        BY <2>1 DEF CheckSlot
    <2> QED BY <2>2, <2>3, Sent DEF Reported, WatermarkInv
<1>5. HolesAreReported'
    <2> SUFFICES ASSUME NEW a \in Slots, NEW b \in Slots,
                        first' <= a, b <= watermark', b > a + Tolerance,
                        \A t \in seen' : t <= a \/ b <= t
                 PROVE  \E q \in Reported' : q.start <= a /\ b <= q.end
        BY DEF HolesAreReported, Reported
    <2>1. CASE seen = {}
        BY <1>1, <1>2, <2>1 DEF WatermarkInv
    <2>2. CASE seen # {} /\ b <= watermark
        <3>1. PICK q \in Reported : q.start <= a /\ b <= q.end
            BY <1>2, <2>2 DEF WatermarkInv, HolesAreReported, Reported
        <3>2. PICK k \in Reported' : k.start = q.start /\ k.end = q.end
            BY DEF Kept
        <3> QED BY <3>1, <3>2
    <2>3. CASE seen # {} /\ ~(b <= watermark)
        <3>1. watermark <= a /\ watermark' = s /\ b <= s
            BY <1>1, <1>2, <2>3 DEF WatermarkInv
        <3>2. watermark # 0
            BY <2>3, SlotsAssumption DEF WatermarkInv, TypeOK
        <3>3. Jumps(s)
            BY <1>1, <3>1, <3>2 DEF Jumps
        <3> QED BY <1>4, <3>1, <3>3
    <2> QED BY <2>1, <2>2, <2>3
<1>6. (\A q \in claims : q.end <= watermark)' /\ ClaimedOnce'
    <2>1. claims \subseteq Reports
        BY DEF WatermarkInv, TypeOK
    <2>2. \A q \in claims : q.start \in Nat /\ q.end \in Nat
        BY <1>1, <2>1 DEF Reports
    <2>3. CASE Jumps(s) /\ claims' = claims \union {r}
        <3>1. s > watermark /\ watermark' = s
            BY <1>1, <1>2, <2>3 DEF Jumps
        <3>2. \A q \in claims : q.end <= r.start /\ q.end <= s
            BY <1>1, <2>2, <2>3, <3>1, <1>4 DEF WatermarkInv
        <3>3. r.end = s
            BY DEF Report
        <3> HIDE DEF r
        <3> QED BY <1>1, <2>3, <3>1, <3>2, <3>3 DEF WatermarkInv, ClaimedOnce
    <2>4. CASE claims' = claims
        <3>1. watermark <= watermark'
            BY <1>1, <1>2
        <3>2. watermark' \in Nat
            BY <1>1, <1>2
        <3> HIDE DEF r
        <3>3. \A q \in claims : q.end <= watermark'
            BY <1>1, <2>2, <3>1, <3>2 DEF WatermarkInv
        <3>4. ClaimedOnce'
            BY <2>4 DEF WatermarkInv, ClaimedOnce
        <3> QED BY <2>4, <3>3, <3>4
    <2> QED BY <2>3, <2>4 DEF CheckSlot
<1> QED BY <1>3, <1>5, <1>6 DEF WatermarkInv

LEMMA WatermarkNext == WatermarkInv /\ [Next]_vars => WatermarkInv'
<1> SUFFICES ASSUME WatermarkInv, [Next]_vars
             PROVE  WatermarkInv'
    OBVIOUS
<1>1. TypeOK' /\ Kept
    BY TypeNext, ReportsKept DEF WatermarkInv
<1>2. ASSUME UNCHANGED <<watermark, seen, first, claims>>
      PROVE  WatermarkInv'
    <2>1. HolesAreReported'
        <3> SUFFICES ASSUME NEW a \in Slots, NEW b \in Slots,
                            seen # {},
                            first <= a, b <= watermark, b > a + Tolerance,
                            \A t \in seen : t <= a \/ b <= t
                     PROVE  \E q \in Reported' : q.start <= a /\ b <= q.end
            BY <1>2 DEF HolesAreReported, Reported
        <3>1. PICK q \in Reported : q.start <= a /\ b <= q.end
            BY DEF WatermarkInv, HolesAreReported, Reported
        <3>2. PICK k \in Reported' : k.start = q.start /\ k.end = q.end
            BY <1>1 DEF Kept
        <3> QED BY <3>1, <3>2
    <2> QED BY <1>1, <1>2, <2>1 DEF WatermarkInv, ClaimedOnce
<1>3. ASSUME NEW s \in Slots, CheckSlot(s)
      PROVE  WatermarkInv'
    BY <1>1, <1>3, CheckKeeps
<1>4. CASE Start
    BY <1>1, <1>4 DEF Start, WatermarkInv, HolesAreReported, ClaimedOnce
<1>5. ASSUME NEW s \in Slots, CarbonReports(s)
      PROVE  WatermarkInv'
    BY <1>5, <1>2 DEF CarbonReports, history
<1>6. CASE Recorder
    BY <1>6, <1>2 DEF Recorder, RecorderReceives, Record, RecordFails, history
<1>7. CASE Stop
    BY <1>7, <1>2 DEF Stop, history
<1>8. CASE UNCHANGED vars
    BY <1>8, <1>2 DEF vars, history
<1> QED BY <1>3, <1>4, <1>5, <1>6, <1>7, <1>8 DEF Next

(* Nothing longer than the tolerance is passed over in silence, in         *)
(* whatever order the slots arrive.                                        *)
THEOREM HolesReported == Spec => []HolesAreReported
<1>1. WatermarkInv => HolesAreReported
    BY DEF WatermarkInv
<1> QED BY <1>1, WatermarkInit, WatermarkNext, PTL DEF Spec

(* No slot lies in two ranges the watermark reported in a run.             *)
THEOREM ClaimedByOne == Spec => []ClaimedOnce
<1>1. WatermarkInv => ClaimedOnce
    BY DEF WatermarkInv
<1> QED BY <1>1, WatermarkInit, WatermarkNext, PTL DEF Spec

----------------------------------------------------------------------------
(* What becomes of a report.  ReportsSettle adds the fairness that the     *)
(* recorder is polled and that an insert ends.                             *)

Covered(r) == \E q \in table : q.start = r.start /\ q.end = r.end

WrittenInv == TypeOK /\ \A r \in written : Covered(r)

(* The rows of the table stay, so what is covered stays covered.           *)
LEMMA WrittenNext == WrittenInv /\ [Next]_vars => WrittenInv'
<1> SUFFICES ASSUME WrittenInv, [Next]_vars
             PROVE  \A r \in written' : Covered(r)'
    BY TypeNext DEF WrittenInv
<1>0. TypeOK /\ \A r \in written : Covered(r)
    BY DEF WrittenInv
<1>1. ASSUME table \subseteq table', written' = written
      PROVE  \A r \in written' : Covered(r)'
    BY <1>0, <1>1 DEF Covered
<1>2. CASE Record
    <2>1. PICK r \in hand : Insert(r)
        BY <1>2 DEF Record
    <2>2. /\ r \in Reports /\ hand = {r} /\ table \in SUBSET Reports
          /\ written' = written \union {r}
        BY <1>0, <1>2, <2>1 DEF Record, TypeOK
    <2>3. table \subseteq table' /\ Covered(r)'
        BY <2>1, <2>2, Inserted DEF Covered
    <2>4. \A q \in written : Covered(q)'
        BY <1>0, <2>3 DEF Covered
    <2> QED BY <2>2, <2>3, <2>4
<1>3. CASE RecordFails
    <2>1. table \subseteq table'
        BY <1>0, <1>3, Inserted DEF RecordFails, TypeOK
    <2> QED BY <1>1, <1>3, <2>1 DEF RecordFails
<1>4. CASE Stop
    <2>1. table \subseteq table'
        BY <1>0, <1>4, Inserted DEF Stop, TypeOK
    <2> QED BY <1>1, <1>4, <2>1 DEF Stop
<1>5. CASE RecorderReceives \/ Start
    BY <1>1, <1>5 DEF RecorderReceives, Start, channel
<1>6. CASE \E s \in Slots : CheckSlot(s) \/ CarbonReports(s)
    BY <1>1, <1>6 DEF CheckSlot, CarbonReports
<1>7. CASE UNCHANGED vars
    BY <1>1, <1>7 DEF vars
<1> QED BY <1>2, <1>3, <1>4, <1>5, <1>6, <1>7 DEF Next, Recorder

(* The range of a report that counts as written is in the table for good,  *)
(* although the insert does nothing when the other detector was first, and *)
(* whatever inserts fail.                                                  *)
THEOREM WrittenIsRecorded ==
    Spec => [](\A r \in written : \E q \in table :
                   q.start = r.start /\ q.end = r.end)
<1>1. Init => WrittenInv
    BY TypeInit DEF Init, WrittenInv
<1>2. WrittenInv =>
          \A r \in written : \E q \in table : q.start = r.start /\ q.end = r.end
    BY DEF WrittenInv, Covered
<1> QED BY <1>1, <1>2, WrittenNext, PTL DEF Spec

(* A report in the channel keeps its place or moves up by one, until the   *)
(* recorder takes it; it is lost only with the process.  What the recorder *)
(* holds is written or lost.                                               *)
ReportsProceed ==
    /\ \A r \in hand : r \in hand' \union written' \union lost'
    /\ \A n \in DOMAIN queue :
          \/ n \in DOMAIN queue' /\ queue'[n] = queue[n]
          \/ n - 1 \in DOMAIN queue' /\ queue'[n - 1] = queue[n]
          \/ queue[n] \in hand'
          \/ ~up' /\ queue[n] \in lost'

(* A report that is sent comes behind the others, or is not taken.         *)
LEMMA SendProceeds ==
    ASSUME NEW r \in Reports, TypeOK, TrySend(r), hand' = hand
    PROVE  ReportsProceed
<1>1. queue \in Seq(Reports)
    BY DEF TypeOK
<1>2. CASE queue' = Append(queue, r)
    <2>1. \A n \in DOMAIN queue : n \in DOMAIN queue' /\ queue'[n] = queue[n]
        BY <1>1, <1>2
    <2> QED BY <2>1 DEF ReportsProceed
<1>3. CASE queue' = queue
    BY <1>3 DEF ReportsProceed
<1> QED BY <1>2, <1>3 DEF TrySend

(* No report overtakes another or goes missing between the detectors and   *)
(* the table: new ones come behind, those that find no room are counted,   *)
(* and one that fails holds up none.                                       *)
THEOREM ReportsAdvance == Spec => [][ReportsProceed]_vars
<1>1. ASSUME TypeOK, [Next]_vars
      PROVE  [ReportsProceed]_vars
    <2> SUFFICES ASSUME Next
                 PROVE  ReportsProceed
        BY <1>1
    <2>1. ASSUME queue' = queue, hand \subseteq hand' \union written' \union lost'
          PROVE  ReportsProceed
        BY <2>1 DEF ReportsProceed
    <2>2. ASSUME NEW s \in Slots, CheckSlot(s)
          PROVE  ReportsProceed
        <3> DEFINE r == Report(watermark, s, "watermark")
        <3>1. CASE Jumps(s) /\ TrySend(r)
            <4>1. r \in Reports
                BY <1>1, <3>1 DEF Jumps, Report, Reports, Detectors, TypeOK
            <4> HIDE DEF r
            <4> QED BY <1>1, <2>2, <3>1, <4>1, SendProceeds DEF CheckSlot
        <3>2. CASE UNCHANGED <<queue, lost>>
            BY <2>1, <2>2, <3>2 DEF CheckSlot
        <3> QED BY <2>2, <3>1, <3>2 DEF CheckSlot
    <2>3. ASSUME NEW s \in Slots, CarbonReports(s)
          PROVE  ReportsProceed
        <3> DEFINE r == Report(watermark, s, "yellowstone-grpc")
        <3>1. r \in Reports
            BY <1>1, <2>3 DEF CarbonReports, Report, Reports, Detectors, TypeOK
        <3>2. TrySend(r) /\ hand' = hand
            BY <2>3 DEF CarbonReports
        <3> HIDE DEF r
        <3> QED BY <1>1, <3>1, <3>2, SendProceeds
    <2>4. CASE RecorderReceives
        <3>1. queue \in Seq(Reports) /\ queue # <<>>
            BY <1>1, <2>4 DEF RecorderReceives, TypeOK
        <3>2. /\ hand = {} /\ hand' = {Head(queue)} /\ queue' = Tail(queue)
            BY <2>4 DEF RecorderReceives
        <3>3. \A n \in DOMAIN queue :
                  \/ queue[n] = Head(queue)
                  \/ n - 1 \in DOMAIN queue' /\ queue'[n - 1] = queue[n]
            BY <3>1, <3>2
        <3> QED BY <3>2, <3>3 DEF ReportsProceed
    <2>5. CASE Record \/ RecordFails
        BY <2>1, <2>5 DEF Record, RecordFails
    <2>6. CASE Start
        BY <2>1, <2>6 DEF Start, channel
    <2>7. CASE Stop
        <3>1. \A n \in DOMAIN queue : queue[n] \in Range(queue)
            BY DEF Range
        <3>2. /\ ~up' /\ hand \subseteq lost' /\ Range(queue) \subseteq lost'
            BY <2>7 DEF Stop
        <3> QED BY <3>1, <3>2 DEF ReportsProceed
    <2> QED BY <2>2, <2>3, <2>4, <2>5, <2>6, <2>7 DEF Next, Recorder
<1> QED BY <1>1, TypeCorrect, PTL DEF Spec

(* A step of the recorder is open, one of RecorderReceives and Record,     *)
(* whose guards these are: the process is up.                              *)
RecorderCanMove == up /\ (hand # {} \/ queue # <<>>)

DownInv == ~up => queue = <<>> /\ hand = {}

(* As long as a report is in the channel or being written, the recorder can*)
(* go on: no report is left behind by a process that is down.              *)
THEOREM RecorderNeverStandsStill ==
    Spec => [](queue # <<>> \/ hand # {} => RecorderCanMove)
<1>1. Init => DownInv
    BY DEF Init, DownInv
<1>2. DownInv /\ [Next]_vars => DownInv'
    BY DEF DownInv, Next, CheckSlot, CarbonReports, Recorder, RecorderReceives,
        Record, RecordFails, Start, Stop, channel, vars
<1>3. DownInv /\ (queue # <<>> \/ hand # {}) => RecorderCanMove
    BY DEF DownInv, RecorderCanMove
<1> QED BY <1>1, <1>2, <1>3, PTL DEF Spec
=============================================================================
