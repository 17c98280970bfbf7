------------------------- MODULE TsSegmenterProofs -------------------------
(***************************************************************************)
(* For every duration, window length and set of faults, whatever the clock *)
(* does and however often the program is started again: the state of the   *)
(* segmenter is well typed, and what an up-to-date index lists can be      *)
(* played.  The second part is about the window: the index lists exactly   *)
(* that, files are neither forgotten nor deleted early and, when nothing   *)
(* fails, what clients see is the sliding playlist that HlsPlaylist        *)
(* describes.  The third bounds how many files there are.                  *)
(***************************************************************************)
EXTENDS MCTsSegmenter, TLAPS, SequenceTheorems, FiniteSetTheorems

CastoffEntry == [segment : SegmentNo, expires : Int]

(* Only segments before the window wait for their deletion. *)
CastoffsBeforeWindow ==
  \A i \in DOMAIN m_castoff : m_castoff[i].segment < m_firstsegment

(* None waits before the first segment is opened. *)
NoneCastOffYet == m_prev_segment_time < 0 => m_castoff = <<>>

WindowOrder == m_firstsegment <= m_lastsegment

Intact(file) == /\ file.key
                /\ file.ordered
                /\ file.to - file.from <= Limit

(* The closed segments of the window, all but the newest. *)
ClosedIntact ==
  m_prev_segment_time >= 0 =>
    \A s \in m_firstsegment..(m_lastsegment - 1) :
      /\ disk[s].state = "complete"
      /\ Intact(disk[s])
      /\ s + 1 < m_lastsegment => disk[s].to < disk[s + 1].from

(* The newest segment, which is being written. *)
OpenIntact ==
  running /\ m_prev_segment_time >= 0 =>
    /\ m_tsfile = m_lastsegment
    /\ Intact(disk[m_lastsegment])
    /\ disk[m_lastsegment].from = m_prev_segment_time
    /\ disk[m_lastsegment].from <= disk[m_lastsegment].to
    /\ disk[m_lastsegment].to <= m_lastts
    /\ m_firstsegment < m_lastsegment =>
         disk[m_lastsegment - 1].to < disk[m_lastsegment].from

(* An up-to-date index lists the closed segments of the window. *)
IndexFollowsWindow ==
  fresh => \/ index = NoIndex
           \/ /\ m_prev_segment_time >= 0
              /\ index.first = m_firstsegment
              /\ index.last = m_lastsegment - 1

(* The inductive invariant. *)
IInv ==
  /\ TypeOK
  /\ CastoffsBeforeWindow
  /\ NoneCastOffYet
  /\ WindowOrder
  /\ ClosedIntact
  /\ OpenIntact
  /\ IndexFollowsWindow

-----------------------------------------------------------------------------
LEMMA ConstantTypes ==
  /\ Segments \in Nat /\ Segments > 0
  /\ Limit \in Nat /\ Retention \in Int
  /\ MaxSegment \in Nat
  /\ 0 \in SegmentNo
  /\ SegmentNo \subseteq Nat
  /\ \A s \in SegmentNo : s < MaxSegment => s + 1 \in SegmentNo
BY DurationAssumption, SegmentsAssumption, BoundsAssumption
   DEF Limit, Retention, SegmentNo

(* addframe() stamps a frame later than the one before it. *)
LEMMA PtsLater ==
  ASSUME m_lastts \in Int, now \in Int
  PROVE  Pts \in Int /\ Pts > m_lastts
<1>1. Rescale(now) \in Int
  BY DEF Rescale
<1>2. PtsStep = 750
  BY DEF PtsStep, Rescale
<1>3. QED
  BY <1>1, <1>2 DEF Pts

(* The sweep of outdated segments drops a prefix of the castoffs. *)
LEMMA RemainingCastoffs ==
  ASSUME NEW n \in 0..Len(m_castoff), m_castoff \in Seq(CastoffEntry)
  PROVE  /\ Remaining(n) \in Seq(CastoffEntry)
         /\ \A i \in DOMAIN Remaining(n) :
              /\ i + n \in DOMAIN m_castoff
              /\ Remaining(n)[i] = m_castoff[i + n]
BY SubSeqProperties DEF Remaining

(* It leaves the segments of the window alone. *)
LEMMA SweptKeepsWindow ==
  ASSUME IInv, NEW n \in 0..Len(m_castoff), NEW stuck
  PROVE  /\ Swept(n, stuck) \in [SegmentNo -> File]
         /\ \A s \in SegmentNo :
              s >= m_firstsegment => Swept(n, stuck)[s] = disk[s]
<1>1. Absent \in File
  BY DEF Absent, File
<1>2. \A s \in SegmentNo : s >= m_firstsegment => s \notin Expired(n)
  <2>1. m_castoff \in Seq(CastoffEntry) /\ m_firstsegment \in SegmentNo
    BY DEF IInv, TypeOK, CastoffEntry
  <2>2. SUFFICES ASSUME NEW i \in 1..n
                 PROVE  /\ m_castoff[i].segment \in Nat
                        /\ m_castoff[i].segment < m_firstsegment
    BY <2>1, ConstantTypes DEF Expired
  <2>3. i \in DOMAIN m_castoff
    BY <2>1
  <2>4. m_castoff[i] \in CastoffEntry
    BY <2>1, <2>3, ElementOfSeq
  <2>5. QED
    BY <2>3, <2>4, ConstantTypes DEF CastoffEntry, IInv, CastoffsBeforeWindow
<1>3. QED
  BY <1>1, <1>2 DEF Swept, IInv, TypeOK

LEMMA CastoffsAfterSweep ==
  ASSUME IInv, NEW n \in 0..Len(m_castoff)
  PROVE  /\ Remaining(n) \in Seq(CastoffEntry)
         /\ m_prev_segment_time < 0 => Remaining(n) = <<>>
         /\ \A i \in DOMAIN Remaining(n) :
              Remaining(n)[i].segment < m_firstsegment
<1>1. m_castoff \in Seq(CastoffEntry)
  BY DEF IInv, TypeOK, CastoffEntry
<1>2. m_prev_segment_time < 0 => Remaining(n) = <<>>
  <2>1. SUFFICES ASSUME m_castoff = <<>> PROVE Remaining(n) = <<>>
    BY DEF IInv, NoneCastOffYet
  <2>2. n = 0
    BY <2>1
  <2>3. QED
    BY <2>1, <2>2, SubSeqEmpty DEF Remaining
<1>3. QED
  BY <1>1, <1>2, RemainingCastoffs DEF IInv, CastoffsBeforeWindow

(* The window after a rollover, and the castoffs it leaves behind. *)
LEMMA CastoffsAfterRollover ==
  ASSUME IInv, NEW n \in 0..Len(m_castoff)
  PROVE  /\ NextFirst \in SegmentNo
         /\ m_firstsegment <= NextFirst
         /\ NextFirst <= m_lastsegment
         /\ CastoffAfter(n) \in Seq(CastoffEntry)
         /\ \A i \in DOMAIN CastoffAfter(n) :
              CastoffAfter(n)[i].segment < NextFirst
<1> DEFINE rest == Remaining(n)
<1>1. /\ m_firstsegment \in SegmentNo /\ m_lastsegment \in SegmentNo
      /\ now \in Int /\ m_firstsegment <= m_lastsegment
  BY DEF IInv, TypeOK, WindowOrder
<1>2. /\ rest \in Seq(CastoffEntry)
      /\ \A i \in DOMAIN rest : rest[i].segment < m_firstsegment
  BY CastoffsAfterSweep
<1>3. CASE WindowFull
  <2>1. /\ NextFirst = m_firstsegment + 1
        /\ NextFirst <= m_lastsegment
        /\ NextFirst \in SegmentNo
    BY <1>1, <1>3, ConstantTypes DEF NextFirst, WindowFull, SegmentNo
  <2>2. CastOffSegment \in CastoffEntry /\ CastOffSegment.segment = m_firstsegment
    BY <1>1, ConstantTypes DEF CastOffSegment, CastoffEntry
  <2>3. CastoffAfter(n) = Append(rest, CastOffSegment)
    BY <1>3 DEF CastoffAfter
  <2>4. /\ Append(rest, CastOffSegment) \in Seq(CastoffEntry)
        /\ \A i \in DOMAIN Append(rest, CastOffSegment) :
             Append(rest, CastOffSegment)[i] =
               IF i \in DOMAIN rest THEN rest[i] ELSE CastOffSegment
    <3> HIDE DEF rest
    <3>1. QED
      BY <1>2, <2>2, AppendProperties
  <2>5. \A i \in DOMAIN CastoffAfter(n) : CastoffAfter(n)[i].segment < NextFirst
    <3> HIDE DEF rest
    <3>1. TAKE i \in DOMAIN CastoffAfter(n)
    <3>2. CASE i \in DOMAIN rest
      <4>1. rest[i] \in CastoffEntry
        BY <1>2, <3>2, ElementOfSeq
      <4>2. QED
        BY <1>1, <1>2, <2>1, <2>3, <2>4, <3>2, <4>1 DEF CastoffEntry, SegmentNo
    <3>3. CASE i \notin DOMAIN rest
      BY <1>1, <2>1, <2>2, <2>3, <2>4, <3>3 DEF SegmentNo
    <3>4. QED
      BY <3>2, <3>3
  <2>6. QED
    BY <1>1, <2>1, <2>3, <2>4, <2>5 DEF SegmentNo
<1>4. CASE ~WindowFull
  BY <1>1, <1>2, <1>4 DEF NextFirst, CastoffAfter, SegmentNo
<1>5. QED
  BY <1>3, <1>4

-----------------------------------------------------------------------------
LEMMA InitIInv == Init => IInv
<1> SUFFICES ASSUME Init PROVE IInv
  OBVIOUS
<1>1. TypeOK
  BY ConstantTypes DEF Init, TypeOK, NoFile, NoIndex, StartClock, Absent, File
<1>2. CastoffsBeforeWindow /\ NoneCastOffYet /\ WindowOrder
  BY DEF Init, CastoffsBeforeWindow, NoneCastOffYet, WindowOrder
<1>3. ClosedIntact /\ OpenIntact /\ IndexFollowsWindow
  BY DEF Init, ClosedIntact, OpenIntact, IndexFollowsWindow
<1>4. QED
  BY <1>1, <1>2, <1>3 DEF IInv

(* Dropping a frame changes nothing of the window. *)
LEMMA DropStep ==
  ASSUME IInv, NEW n \in 0..Len(m_castoff), NEW stuck, Arrives(n, stuck),
         m_castoff' = Remaining(n), disk' = Swept(n, stuck),
         UNCHANGED <<running, m_firstsegment, m_lastsegment,
                     m_prev_segment_time, m_tsfile, torn, index, now,
                     restarts, fresh, delisted>>
  PROVE  IInv'
<1>1. Pts \in Int /\ Pts > m_lastts /\ m_lastts \in Int
  BY PtsLater DEF IInv, TypeOK
<1>2. /\ disk' \in [SegmentNo -> File]
      /\ \A s \in SegmentNo : s >= m_firstsegment => disk'[s] = disk[s]
  BY SweptKeepsWindow
<1>3. /\ m_castoff' \in Seq(CastoffEntry)
      /\ m_prev_segment_time < 0 => m_castoff' = <<>>
      /\ \A i \in DOMAIN m_castoff' : m_castoff'[i].segment < m_firstsegment
  BY CastoffsAfterSweep
<1>4. TypeOK'
  BY <1>1, <1>2, <1>3 DEF Arrives, IInv, TypeOK, CastoffEntry
<1>5. CastoffsBeforeWindow' /\ NoneCastOffYet' /\ WindowOrder'
  BY <1>3 DEF IInv, CastoffsBeforeWindow, NoneCastOffYet, WindowOrder
<1>6. m_firstsegment \in SegmentNo /\ m_lastsegment \in SegmentNo
  BY DEF IInv, TypeOK
<1>7. ClosedIntact'
  <2>1. \A s \in m_firstsegment..(m_lastsegment - 1) :
           /\ s \in SegmentNo
           /\ disk'[s] = disk[s]
           /\ s + 1 < m_lastsegment => disk'[s + 1] = disk[s + 1]
    BY <1>2, <1>6, BoundsAssumption DEF SegmentNo
  <2>2. QED
    BY <2>1 DEF IInv, ClosedIntact, Intact
<1>8. OpenIntact'
  <2>1. disk'[m_lastsegment] = disk[m_lastsegment]
    BY <1>2, <1>6, ConstantTypes DEF IInv, WindowOrder
  <2>2. m_firstsegment < m_lastsegment =>
          disk'[m_lastsegment - 1] = disk[m_lastsegment - 1]
    BY <1>2, <1>6, BoundsAssumption DEF SegmentNo
  <2>3. disk[m_lastsegment].to \in Int
    BY <1>6 DEF IInv, TypeOK, File
  <2>4. m_lastts' = Pts
    BY DEF Arrives
  <2>5. QED
    BY <1>1, <2>1, <2>2, <2>3, <2>4 DEF IInv, OpenIntact, Intact
<1>9. IndexFollowsWindow'
  BY DEF IInv, IndexFollowsWindow
<1>10. QED
  BY <1>4, <1>5, <1>7, <1>8, <1>9 DEF IInv

LEMMA FirstSegmentStep ==
  ASSUME IInv, NEW n \in 0..Len(m_castoff), NEW stuck, NEW key \in BOOLEAN,
         FirstSegment(n, stuck, key)
  PROVE  IInv'
<1>1. Pts \in Int /\ Pts > m_lastts
  BY PtsLater DEF IInv, TypeOK
<1>2. key = TRUE /\ m_prev_segment_time < 0
  BY DEF FirstSegment, StartsStream
<1>3. Started(key) \in File
  BY <1>1 DEF Started, File
<1>4. disk' \in [SegmentNo -> File] /\ disk'[0] = Started(key)
  BY <1>3, SweptKeepsWindow, ConstantTypes DEF FirstSegment
<1>5. m_castoff' = <<>>
  BY <1>2, CastoffsAfterSweep DEF FirstSegment
<1>6. TypeOK'
  <2>1. torn' \subseteq SegmentNo
    BY ConstantTypes DEF FirstSegment, Lacking, IInv, TypeOK
  <2>2. QED
    BY <1>1, <1>4, <1>5, <2>1, ConstantTypes, EmptySeq
       DEF FirstSegment, Arrives, IInv, TypeOK
<1>7. CastoffsBeforeWindow' /\ NoneCastOffYet' /\ WindowOrder'
  BY <1>5 DEF FirstSegment, CastoffsBeforeWindow, NoneCastOffYet, WindowOrder
<1>8. ClosedIntact'
  BY DEF FirstSegment, ClosedIntact
<1>9. OpenIntact'
  BY <1>1, <1>2, <1>4, ConstantTypes
     DEF FirstSegment, Arrives, OpenIntact, Intact, Started
<1>10. IndexFollowsWindow'
  BY <1>2 DEF IInv, TypeOK, IndexFollowsWindow, FirstSegment
<1>11. QED
  BY <1>6, <1>7, <1>8, <1>9, <1>10 DEF IInv

LEMMA FirstSegmentAbortsStep ==
  ASSUME IInv, NEW n \in 0..Len(m_castoff), NEW stuck,
         FirstSegmentAborts(n, stuck)
  PROVE  IInv'
<1>1. Pts \in Int
  BY PtsLater DEF IInv, TypeOK
<1>2. m_castoff' = <<>>
  BY CastoffsAfterSweep DEF FirstSegmentAborts
<1>3. disk' \in [SegmentNo -> File]
  BY SweptKeepsWindow DEF FirstSegmentAborts
<1>4. TypeOK'
  BY <1>1, <1>2, <1>3, ConstantTypes, EmptySeq
     DEF FirstSegmentAborts, Arrives, IInv, TypeOK
<1>5. CastoffsBeforeWindow' /\ NoneCastOffYet' /\ WindowOrder'
  BY <1>2
     DEF FirstSegmentAborts, CastoffsBeforeWindow, NoneCastOffYet, WindowOrder
<1>6. ClosedIntact' /\ OpenIntact'
  BY DEF FirstSegmentAborts, ClosedIntact, OpenIntact
<1>7. IndexFollowsWindow'
  BY DEF IInv, TypeOK, IndexFollowsWindow, FirstSegmentAborts
<1>8. QED
  BY <1>4, <1>5, <1>6, <1>7 DEF IInv

LEMMA WrittenFile ==
  ASSUME NEW file \in File, file.key, file.ordered, Pts \in Int, file.to < Pts
  PROVE  /\ Written(file) \in File
         /\ Written(file).to = Pts
         /\ Written(file).from = file.from
         /\ Written(file).key /\ Written(file).ordered
<1>1. (file.ordered /\ file.to < Pts) = TRUE
  BY Zenon
<1>2. file.ordered = TRUE /\ file.key = TRUE
  BY Zenon DEF File
<1>3. Written(file) = [file EXCEPT !.to = Pts, !.ordered = TRUE]
  BY <1>1, Zenon DEF Written
<1>4. QED
  BY <1>2, <1>3 DEF File

(* A written frame keeps the open segment intact. *)
LEMMA WriteInsideStep ==
  ASSUME IInv, NEW n \in 0..Len(m_castoff), NEW stuck, NEW tie \in BOOLEAN,
         WriteInside(n, stuck, tie)
  PROVE  IInv'
<1> DEFINE open == disk[m_lastsegment]
<1>1. Pts \in Int /\ Pts > m_lastts /\ m_lastts' = Pts
  BY PtsLater DEF IInv, TypeOK, WriteInside, Arrives
<1>2. /\ running /\ m_prev_segment_time >= 0
      /\ m_tsfile = m_lastsegment
      /\ m_firstsegment \in SegmentNo /\ m_lastsegment \in SegmentNo
      /\ m_prev_segment_time \in Int /\ m_lastts \in Int
      /\ m_firstsegment <= m_lastsegment
  BY DEF WriteInside, Arrives, IInv, TypeOK, OpenIntact, WindowOrder
<1>3. /\ open \in File
      /\ Intact(open)
      /\ open.from = m_prev_segment_time
      /\ open.to <= m_lastts
  BY <1>2 DEF IInv, TypeOK, OpenIntact
<1>4. Swept(n, stuck) \in [SegmentNo -> File]
      /\ \A s \in SegmentNo :
           s >= m_firstsegment => Swept(n, stuck)[s] = disk[s]
  BY SweptKeepsWindow
<1>5. Swept(n, stuck)[m_lastsegment] = open
  BY <1>2, <1>4
<1>6. /\ Written(open) \in File
      /\ Written(open).to = Pts
      /\ Written(open).from = open.from
      /\ Written(open).key /\ Written(open).ordered
  <2>1. /\ open \in File /\ open.key /\ open.ordered
        /\ Pts \in Int /\ open.to < Pts
    BY <1>1, <1>2, <1>3 DEF File, Intact
  <2> HIDE DEF open
  <2>2. QED
    BY <2>1, WrittenFile
<1>7. Pts - m_prev_segment_time <= Limit
  BY <1>1, <1>2, ConstantTypes DEF WriteInside, Exceeds, Elapsed
<1>8. /\ disk' \in [SegmentNo -> File]
      /\ disk'[m_lastsegment] = Written(open)
      /\ \A s \in SegmentNo :
           s >= m_firstsegment /\ s # m_lastsegment => disk'[s] = disk[s]
  BY <1>2, <1>4, <1>5, <1>6 DEF WriteInside
<1>9. /\ m_castoff' \in Seq(CastoffEntry)
      /\ \A i \in DOMAIN m_castoff' : m_castoff'[i].segment < m_firstsegment
  BY CastoffsAfterSweep DEF WriteInside
<1>10. TypeOK'
  <2>1. m_tsfile \in SegmentNo
    BY <1>2
  <2>2. torn' \subseteq SegmentNo
    BY <2>1 DEF WriteInside, Lacking, IInv, TypeOK
  <2>3. QED
    BY <1>1, <1>8, <1>9, <2>2 DEF WriteInside, IInv, TypeOK, CastoffEntry
<1>11. CastoffsBeforeWindow' /\ NoneCastOffYet' /\ WindowOrder'
  BY <1>2, <1>9
     DEF WriteInside, CastoffsBeforeWindow, NoneCastOffYet, WindowOrder
<1>12. ClosedIntact'
  <2>1. \A s \in m_firstsegment..(m_lastsegment - 1) :
           /\ s \in SegmentNo
           /\ disk'[s] = disk[s]
           /\ s + 1 < m_lastsegment => disk'[s + 1] = disk[s + 1]
    BY <1>2, <1>8, BoundsAssumption DEF SegmentNo
  <2>2. QED
    BY <1>2, <2>1 DEF IInv, ClosedIntact, Intact, WriteInside
<1>13. OpenIntact'
  <2>1. m_firstsegment < m_lastsegment =>
          /\ disk'[m_lastsegment - 1] = disk[m_lastsegment - 1]
          /\ disk[m_lastsegment - 1].to < open.from
    BY <1>2, <1>8, BoundsAssumption DEF SegmentNo, IInv, OpenIntact
  <2>2. UNCHANGED <<running, m_tsfile, m_firstsegment, m_lastsegment,
                    m_prev_segment_time>>
    BY DEF WriteInside
  <2>3. Intact(disk'[m_lastsegment])
    BY <1>3, <1>6, <1>7, <1>8 DEF Intact
  <2>4. m_prev_segment_time <= Pts
    <3>1. open.from <= open.to /\ open.to \in Int
      BY <1>2, <1>3 DEF IInv, OpenIntact, File
    <3>2. QED
      BY <1>1, <1>2, <1>3, <3>1
  <2> HIDE DEF open
  <2>5. QED
    BY <1>1, <1>2, <1>3, <1>6, <1>8, <2>1, <2>2, <2>3, <2>4
       DEF OpenIntact, Intact
<1>14. IndexFollowsWindow'
  BY DEF IInv, IndexFollowsWindow, WriteInside
<1>15. QED
  BY <1>10, <1>11, <1>12, <1>13, <1>14 DEF IInv

(* What closing the open segment leaves on disk: the whole window, from its *)
(* first segment to the one just closed, is intact and in order.            *)
LEMMA ClosedWindow ==
  ASSUME IInv, NEW n \in 0..Len(m_castoff), NEW stuck,
         running, m_prev_segment_time >= 0
  PROVE  /\ Closed(Swept(n, stuck)) \in [SegmentNo -> File]
         /\ \A s \in m_firstsegment..m_lastsegment :
              /\ s \in SegmentNo
              /\ Closed(Swept(n, stuck))[s].state = "complete"
              /\ Intact(Closed(Swept(n, stuck))[s])
              /\ s < m_lastsegment =>
                   Closed(Swept(n, stuck))[s].to
                     < Closed(Swept(n, stuck))[s + 1].from
         /\ Closed(Swept(n, stuck))[m_lastsegment].to <= m_lastts
<1> DEFINE swept  == Swept(n, stuck)
           closed == Closed(swept)
<1>1. /\ swept \in [SegmentNo -> File]
      /\ \A s \in SegmentNo : s >= m_firstsegment => swept[s] = disk[s]
  BY SweptKeepsWindow
<1>2. /\ m_firstsegment \in SegmentNo /\ m_lastsegment \in SegmentNo
      /\ m_firstsegment <= m_lastsegment
      /\ m_tsfile = m_lastsegment
  BY DEF IInv, TypeOK, WindowOrder, OpenIntact
<1>3. /\ closed \in [SegmentNo -> File]
      /\ \A s \in SegmentNo :
           closed[s] = IF s = m_lastsegment
                       THEN [swept[s] EXCEPT !.state = "complete"]
                       ELSE swept[s]
  <2> HIDE DEF swept
  <2>1. [swept[m_lastsegment] EXCEPT !.state = "complete"] \in File
    BY <1>1, <1>2 DEF File
  <2>2. QED
    BY <1>1, <1>2, <2>1 DEF Closed
<1>4. \A s \in m_firstsegment..m_lastsegment :
         /\ s \in SegmentNo
         /\ disk[s] \in File
         /\ Intact(disk[s])
         /\ s < m_lastsegment => /\ disk[s].state = "complete"
                                 /\ s + 1 \in SegmentNo
                                 /\ disk[s].to < disk[s + 1].from
         /\ disk[m_lastsegment].to <= m_lastts
  <2>1. TAKE s \in m_firstsegment..m_lastsegment
  <2>2. s \in SegmentNo /\ (s < m_lastsegment => s + 1 \in SegmentNo)
    BY <1>2, BoundsAssumption DEF SegmentNo
  <2>3. CASE s = m_lastsegment
    BY <1>2, <2>2, <2>3 DEF IInv, TypeOK, OpenIntact
  <2>4. CASE s < m_lastsegment
    <3>1. s \in m_firstsegment..(m_lastsegment - 1)
      BY <1>2, <2>2, <2>4, BoundsAssumption DEF SegmentNo
    <3>2. /\ disk[s].state = "complete"
          /\ Intact(disk[s])
          /\ s + 1 < m_lastsegment => disk[s].to < disk[s + 1].from
      BY <3>1 DEF IInv, ClosedIntact
    <3>3. s + 1 = m_lastsegment => disk[s].to < disk[s + 1].from
      <4>1. SUFFICES ASSUME s + 1 = m_lastsegment
                     PROVE  disk[s].to < disk[s + 1].from
        OBVIOUS
      <4>2. s = m_lastsegment - 1 /\ m_firstsegment < m_lastsegment
        BY <1>2, <2>2, <4>1, BoundsAssumption DEF SegmentNo
      <4>3. QED
        BY <4>1, <4>2 DEF IInv, OpenIntact
    <3>4. disk[m_lastsegment].to <= m_lastts
      BY DEF IInv, OpenIntact
    <3>5. disk[s] \in File
      BY <2>2 DEF IInv, TypeOK
    <3>6. s + 1 < m_lastsegment \/ s + 1 = m_lastsegment
      BY <1>2, <2>2, <2>4, BoundsAssumption DEF SegmentNo
    <3>7. QED
      BY <2>2, <3>2, <3>3, <3>4, <3>5, <3>6
  <2>5. QED
    BY <1>2, <2>2, <2>3, <2>4, BoundsAssumption DEF SegmentNo
<1>5. \A s \in m_firstsegment..m_lastsegment :
         /\ s \in SegmentNo
         /\ closed[s].state = "complete"
         /\ closed[s].key = disk[s].key
         /\ closed[s].ordered = disk[s].ordered
         /\ closed[s].from = disk[s].from
         /\ closed[s].to = disk[s].to
  <2> HIDE DEF swept, closed
  <2>1. TAKE s \in m_firstsegment..m_lastsegment
  <2>2. swept[s] = disk[s] /\ s >= m_firstsegment
    BY <1>1, <1>2, <1>4, BoundsAssumption DEF SegmentNo
  <2>3. CASE s = m_lastsegment
    BY <1>3, <1>4, <2>2, <2>3 DEF File
  <2>4. CASE s # m_lastsegment
    <3>1. s < m_lastsegment
      BY <1>2, <2>4, BoundsAssumption DEF SegmentNo
    <3>2. QED
      BY <1>3, <1>4, <2>2, <2>4, <3>1
  <2>5. QED
    BY <2>3, <2>4
<1>6. \A s \in m_firstsegment..m_lastsegment :
         s < m_lastsegment => s + 1 \in m_firstsegment..m_lastsegment
  BY <1>2, BoundsAssumption DEF SegmentNo
<1>7. m_lastsegment \in m_firstsegment..m_lastsegment
  BY <1>2, BoundsAssumption DEF SegmentNo
<1>8. QED
  <2> HIDE DEF swept, closed
  <2>1. closed \in [SegmentNo -> File] /\ closed[m_lastsegment].to <= m_lastts
    BY <1>3, <1>4, <1>5, <1>7
  <2>2. \A s \in m_firstsegment..m_lastsegment :
           /\ s \in SegmentNo
           /\ closed[s].state = "complete"
           /\ Intact(closed[s])
           /\ s < m_lastsegment => closed[s].to < closed[s + 1].from
    BY <1>4, <1>5, <1>6 DEF Intact
  <2>3. QED
    BY <2>1, <2>2 DEF closed, swept

LEMMA IndexAfterUpdate ==
  ASSUME IInv, NEW outcome, UpdateIndex(outcome)
  PROVE  /\ index' \in [first : Nat, last : Int]
         /\ fresh' \in BOOLEAN
         /\ delisted' \in [SegmentNo -> Int]
         /\ fresh' => /\ index'.first = NextFirst
                      /\ index'.last = m_lastsegment
<1>1. /\ index \in [first : Nat, last : Int] /\ now \in Int
      /\ delisted \in [SegmentNo -> Int]
      /\ m_firstsegment \in Nat /\ m_lastsegment \in Nat
  BY ConstantTypes DEF IInv, TypeOK
<1>2. NewIndex \in [first : Nat, last : Int]
  BY <1>1 DEF NewIndex, NextFirst
<1>3. NoIndex \in [first : Nat, last : Int]
  BY DEF NoIndex
<1>4. outcome \in {"ok", "kept", "lost"}
  BY DEF UpdateIndex
<1>5. index' \in {NewIndex, index, NoIndex}
  BY <1>4 DEF UpdateIndex
<1>6. fresh' => index' = NewIndex
  BY DEF UpdateIndex
<1>7. fresh' \in BOOLEAN
  BY DEF UpdateIndex
<1>8. delisted' \in [SegmentNo -> Int]
  BY <1>1 DEF UpdateIndex
<1>9. QED
  BY <1>1, <1>2, <1>3, <1>5, <1>6, <1>7, <1>8 DEF NewIndex

LEMMA RolloverStep ==
  ASSUME IInv, NEW n \in 0..Len(m_castoff), NEW stuck, NEW tie \in BOOLEAN,
         NEW key \in BOOLEAN, NEW outcome,
         Rollover(n, stuck, tie, key, outcome)
  PROVE  IInv'
<1> DEFINE closed == Closed(Swept(n, stuck))
           new    == m_lastsegment + 1
<1>1. Pts \in Int /\ Pts > m_lastts /\ m_lastts' = Pts
  BY PtsLater DEF IInv, TypeOK, Rollover, Arrives
<1>2. /\ running /\ key = TRUE /\ m_prev_segment_time >= 0
      /\ m_prev_segment_time \in Int /\ m_lastts \in Int
      /\ m_firstsegment \in Nat /\ m_lastsegment \in Nat
      /\ new \in SegmentNo /\ new \in Nat
  BY ConstantTypes, BoundsAssumption
     DEF Rollover, Arrives, IInv, TypeOK, SegmentNo
<1>3. /\ closed \in [SegmentNo -> File]
      /\ \A s \in m_firstsegment..m_lastsegment :
           /\ s \in SegmentNo
           /\ closed[s].state = "complete"
           /\ Intact(closed[s])
           /\ s < m_lastsegment => closed[s].to < closed[s + 1].from
      /\ closed[m_lastsegment].to <= m_lastts
  BY <1>2, ClosedWindow
<1>4. /\ NextFirst \in SegmentNo
      /\ m_firstsegment <= NextFirst
      /\ NextFirst <= m_lastsegment
      /\ CastoffAfter(n) \in Seq(CastoffEntry)
      /\ \A i \in DOMAIN CastoffAfter(n) :
           CastoffAfter(n)[i].segment < NextFirst
  BY CastoffsAfterRollover
<1>5. NextFirst \in Nat
  BY <1>4, ConstantTypes
<1>6. Started(key) \in File
  BY <1>1 DEF Started, File
<1>7. /\ disk' \in [SegmentNo -> File]
      /\ disk'[new] = Started(key)
      /\ \A s \in SegmentNo : s # new => disk'[s] = closed[s]
  <2>1. disk' = [closed EXCEPT ![new] = Started(key)]
    BY DEF Rollover
  <2> HIDE DEF closed, new
  <2>2. QED
    BY <1>2, <1>3, <1>6, <2>1
<1>8. /\ m_firstsegment' = NextFirst /\ m_lastsegment' = new
      /\ m_castoff' = CastoffAfter(n) /\ m_tsfile' = new
      /\ m_prev_segment_time' = Pts
      /\ UNCHANGED <<running, now, restarts>>
  BY DEF Rollover
<1>9. /\ index' \in [first : Nat, last : Int]
      /\ fresh' \in BOOLEAN
      /\ delisted' \in [SegmentNo -> Int]
      /\ fresh' => /\ index'.first = NextFirst
                   /\ index'.last = m_lastsegment
  BY IndexAfterUpdate DEF Rollover
<1>10. Pts >= 0
  <2>1. /\ disk[m_lastsegment] \in File
        /\ disk[m_lastsegment].from = m_prev_segment_time
        /\ disk[m_lastsegment].from <= disk[m_lastsegment].to
        /\ disk[m_lastsegment].to <= m_lastts
    BY <1>2 DEF IInv, TypeOK, OpenIntact
  <2>2. QED
    BY <1>1, <1>2, <2>1 DEF File
<1>11. TypeOK'
  <2>1. torn' \subseteq SegmentNo
    BY <1>2 DEF Rollover, Lacking, IInv, TypeOK, OpenIntact
  <2> HIDE DEF closed, new
  <2>2. QED
    BY <1>1, <1>2, <1>4, <1>7, <1>8, <1>9, <2>1 DEF IInv, TypeOK, CastoffEntry
<1>12. CastoffsBeforeWindow' /\ NoneCastOffYet' /\ WindowOrder'
  <2> HIDE DEF closed
  <2>1. QED
    BY <1>1, <1>2, <1>4, <1>5, <1>8, <1>10
       DEF CastoffsBeforeWindow, NoneCastOffYet, WindowOrder
<1>13. \A s \in NextFirst..m_lastsegment :
          /\ s \in m_firstsegment..m_lastsegment
          /\ s # new
          /\ s + 1 < new => s < m_lastsegment /\ s + 1 # new
                            /\ s + 1 \in m_firstsegment..m_lastsegment
  BY <1>2, <1>4, <1>5
<1>14. \A s \in NextFirst..m_lastsegment :
          /\ disk'[s] = closed[s]
          /\ s + 1 < new => disk'[s + 1] = closed[s + 1]
  <2> HIDE DEF closed, new
  <2>1. QED
    BY <1>3, <1>7, <1>13
<1>15. ClosedIntact'
  <2>1. m_lastsegment' - 1 = m_lastsegment
    BY <1>2, <1>8
  <2> HIDE DEF closed, new
  <2>2. \A s \in NextFirst..m_lastsegment :
          /\ disk'[s].state = "complete"
          /\ Intact(disk'[s])
          /\ s + 1 < new => disk'[s].to < disk'[s + 1].from
    BY <1>3, <1>13, <1>14
  <2>3. QED
    BY <1>8, <2>1, <2>2 DEF ClosedIntact, Intact
<1>16. OpenIntact'
  <2>1. /\ Started(key).key /\ Started(key).ordered
        /\ Started(key).from = Pts /\ Started(key).to = Pts
    BY <1>2 DEF Started
  <2>2. Intact(disk'[new])
    BY <1>1, <1>7, <2>1, ConstantTypes DEF Intact
  <2>3. disk'[new - 1].to < disk'[new].from
    <3>1. m_lastsegment \in NextFirst..m_lastsegment /\ new - 1 = m_lastsegment
      BY <1>2, <1>4, <1>5
    <3>2. closed[m_lastsegment] \in File
      BY <1>3, <1>13, <3>1
    <3> HIDE DEF closed, new
    <3>3. QED
      BY <1>1, <1>2, <1>3, <1>7, <1>14, <2>1, <3>1, <3>2 DEF File
  <2> HIDE DEF closed, new
  <2>4. QED
    BY <1>1, <1>7, <1>8, <2>1, <2>2, <2>3 DEF OpenIntact, Intact
<1>17. IndexFollowsWindow'
  BY <1>1, <1>2, <1>8, <1>9, <1>10 DEF IndexFollowsWindow
<1>18. QED
  BY <1>11, <1>12, <1>15, <1>16, <1>17 DEF IInv

LEMMA RolloverAbortsStep ==
  ASSUME IInv, NEW n \in 0..Len(m_castoff), NEW stuck, NEW tie \in BOOLEAN,
         NEW outcome, RolloverAborts(n, stuck, tie, outcome)
  PROVE  IInv'
<1> DEFINE closed == Closed(Swept(n, stuck))
           new    == m_lastsegment + 1
<1>1. Pts \in Int /\ m_lastts' = Pts
  BY PtsLater DEF IInv, TypeOK, RolloverAborts, Arrives
<1>2. /\ running /\ m_prev_segment_time >= 0
      /\ m_firstsegment \in Nat /\ m_lastsegment \in Nat
      /\ new \in SegmentNo /\ new \in Nat
  BY ConstantTypes, BoundsAssumption
     DEF RolloverAborts, Arrives, IInv, TypeOK, SegmentNo
<1>3. /\ closed \in [SegmentNo -> File]
      /\ \A s \in m_firstsegment..m_lastsegment :
           /\ s \in SegmentNo
           /\ closed[s].state = "complete"
           /\ Intact(closed[s])
           /\ s < m_lastsegment => closed[s].to < closed[s + 1].from
  BY <1>2, ClosedWindow
<1>4. /\ NextFirst \in SegmentNo
      /\ m_firstsegment <= NextFirst
      /\ NextFirst <= m_lastsegment
      /\ CastoffAfter(n) \in Seq(CastoffEntry)
      /\ \A i \in DOMAIN CastoffAfter(n) :
           CastoffAfter(n)[i].segment < NextFirst
  BY CastoffsAfterRollover
<1>5. NextFirst \in Nat
  BY <1>4, ConstantTypes
<1>6. /\ m_firstsegment' = NextFirst /\ m_lastsegment' = new
      /\ m_castoff' = CastoffAfter(n) /\ m_tsfile' = NoFile
      /\ disk' = closed /\ running' = FALSE
      /\ UNCHANGED <<m_prev_segment_time, now, restarts>>
  BY DEF RolloverAborts
<1>7. /\ index' \in [first : Nat, last : Int]
      /\ fresh' \in BOOLEAN
      /\ delisted' \in [SegmentNo -> Int]
      /\ fresh' => /\ index'.first = NextFirst
                   /\ index'.last = m_lastsegment
  BY IndexAfterUpdate DEF RolloverAborts
<1>8. TypeOK'
  <2>1. torn' \subseteq SegmentNo
    BY <1>2 DEF RolloverAborts, Lacking, IInv, TypeOK, OpenIntact
  <2> HIDE DEF closed, new
  <2>2. QED
    BY <1>1, <1>2, <1>3, <1>4, <1>6, <1>7, <2>1
       DEF IInv, TypeOK, CastoffEntry
<1>9. CastoffsBeforeWindow' /\ NoneCastOffYet' /\ WindowOrder'
  <2> HIDE DEF closed
  <2>1. m_prev_segment_time \in Int
    BY DEF IInv, TypeOK
  <2>2. QED
    BY <1>2, <1>4, <1>5, <1>6, <2>1
       DEF CastoffsBeforeWindow, NoneCastOffYet, WindowOrder
<1>10. ClosedIntact'
  <2>1. m_lastsegment' - 1 = m_lastsegment
    BY <1>2, <1>6
  <2>2. \A s \in NextFirst..m_lastsegment :
          /\ s \in m_firstsegment..m_lastsegment
          /\ s + 1 < new => s < m_lastsegment
    BY <1>2, <1>4, <1>5
  <2> HIDE DEF closed, new
  <2>3. QED
    BY <1>3, <1>6, <2>1, <2>2 DEF ClosedIntact, Intact
<1>11. OpenIntact'
  BY <1>6 DEF OpenIntact
<1>12. IndexFollowsWindow'
  BY <1>2, <1>6, <1>7 DEF IndexFollowsWindow
<1>13. QED
  BY <1>8, <1>9, <1>10, <1>11, <1>12 DEF IInv

LEMMA TearStep == IInv /\ Tear => IInv'
<1> SUFFICES ASSUME IInv, Tear PROVE IInv'
  OBVIOUS
<1>1. m_castoff' = <<>> /\ <<>> \in Seq(CastoffEntry)
  BY EmptySeq DEF Tear
<1>2. TypeOK'
  BY <1>1 DEF Tear, IInv, TypeOK, CastoffEntry
<1>3. CastoffsBeforeWindow' /\ NoneCastOffYet' /\ WindowOrder'
  BY <1>1 DEF Tear, IInv, CastoffsBeforeWindow, NoneCastOffYet, WindowOrder
<1>4. ClosedIntact' /\ OpenIntact' /\ IndexFollowsWindow'
  BY DEF Tear, IInv, ClosedIntact, OpenIntact, IndexFollowsWindow, Intact
<1>5. QED
  BY <1>2, <1>3, <1>4 DEF IInv

LEMMA RestartStep == IInv /\ Restart => IInv'
<1> SUFFICES ASSUME IInv, Restart PROVE IInv'
  OBVIOUS
<1>1. m_castoff' = <<>> /\ <<>> \in Seq(CastoffEntry)
  BY EmptySeq DEF Restart
<1>2. TypeOK'
  <2>1. /\ m_firstsegment' \in SegmentNo /\ m_lastsegment' \in SegmentNo
        /\ m_tsfile' \in SegmentNo \cup {NoFile}
    BY ConstantTypes DEF Restart
  <2>2. /\ restarts' \in Nat
        /\ m_prev_segment_time' \in Int /\ m_lastts' \in Int
    BY DEF Restart, IInv, TypeOK
  <2>3. running' \in BOOLEAN /\ fresh' \in BOOLEAN
    BY DEF Restart
  <2>4. UNCHANGED <<disk, torn, index, now, delisted>>
    BY DEF Restart
  <2>5. QED
    BY <1>1, <2>1, <2>2, <2>3, <2>4 DEF IInv, TypeOK, CastoffEntry
<1>3. CastoffsBeforeWindow' /\ NoneCastOffYet' /\ WindowOrder'
  BY <1>1 DEF Restart, CastoffsBeforeWindow, NoneCastOffYet, WindowOrder
<1>4. ClosedIntact' /\ OpenIntact' /\ IndexFollowsWindow'
  BY DEF Restart, ClosedIntact, OpenIntact, IndexFollowsWindow
<1>5. QED
  BY <1>2, <1>3, <1>4 DEF IInv

LEMMA TickStep == IInv /\ Tick => IInv'
<1> SUFFICES ASSUME IInv, Tick PROVE IInv'
  OBVIOUS
<1>1. now' \in Int
  BY DEF Tick
<1>2. QED
  BY <1>1 DEF Tick, memory, IInv, TypeOK, CastoffsBeforeWindow, NoneCastOffYet,
              WindowOrder, ClosedIntact, OpenIntact, IndexFollowsWindow, Intact

LEMMA AddFrameStep == IInv /\ AddFrame => IInv'
<1> SUFFICES ASSUME IInv, AddFrame PROVE IInv'
  OBVIOUS
<1>1. PICK n \in 0..Len(m_castoff), tie \in BOOLEAN, key \in BOOLEAN :
        \E stuck \in SUBSET Expired(n) :
          \/ ~key /\ DropLeading(n, stuck)
          \/ FirstSegment(n, stuck, key)
          \/ key /\ FirstSegmentAborts(n, stuck)
          \/ WriteInside(n, stuck, tie)
          \/ ~key /\ DropOverrun(n, stuck, tie)
          \/ \E outcome \in {"ok", "kept", "lost"} :
               \/ Rollover(n, stuck, tie, key, outcome)
               \/ key /\ RolloverAborts(n, stuck, tie, outcome)
  BY DEF AddFrame
<1>2. PICK stuck \in SUBSET Expired(n) :
          \/ DropLeading(n, stuck)
          \/ FirstSegment(n, stuck, key)
          \/ FirstSegmentAborts(n, stuck)
          \/ WriteInside(n, stuck, tie)
          \/ DropOverrun(n, stuck, tie)
          \/ \E outcome \in {"ok", "kept", "lost"} :
               \/ Rollover(n, stuck, tie, key, outcome)
               \/ RolloverAborts(n, stuck, tie, outcome)
  BY <1>1
<1>3. CASE DropLeading(n, stuck)
  BY <1>3, DropStep DEF DropLeading
<1>4. CASE FirstSegment(n, stuck, key)
  BY <1>4, FirstSegmentStep
<1>5. CASE FirstSegmentAborts(n, stuck)
  BY <1>5, FirstSegmentAbortsStep
<1>6. CASE WriteInside(n, stuck, tie)
  BY <1>6, WriteInsideStep
<1>7. CASE DropOverrun(n, stuck, tie)
  BY <1>7, DropStep DEF DropOverrun
<1>8. CASE \E outcome \in {"ok", "kept", "lost"} :
              Rollover(n, stuck, tie, key, outcome)
  BY <1>8, RolloverStep
<1>9. CASE \E outcome \in {"ok", "kept", "lost"} :
              RolloverAborts(n, stuck, tie, outcome)
  BY <1>9, RolloverAbortsStep
<1>10. QED
  BY <1>2, <1>3, <1>4, <1>5, <1>6, <1>7, <1>8, <1>9

(* No step of the program or of its environment breaks the invariant. *)
THEOREM IInvInvariant == Spec => []IInv
<1>1. IInv /\ [Next]_vars => IInv'
  <2> SUFFICES ASSUME IInv, [Next]_vars PROVE IInv'
    OBVIOUS
  <2>1. CASE AddFrame
    BY <2>1, AddFrameStep
  <2>2. CASE Tear
    BY <2>2, TearStep
  <2>3. CASE Restart
    BY <2>3, RestartStep
  <2>4. CASE Tick
    BY <2>4, TickStep
  <2>5. CASE UNCHANGED vars
    BY <2>5 DEF vars, memory, IInv, TypeOK, CastoffsBeforeWindow,
                NoneCastOffYet, WindowOrder, ClosedIntact, OpenIntact,
                IndexFollowsWindow, Intact
  <2>6. QED
    BY <2>1, <2>2, <2>3, <2>4, <2>5 DEF Next
<1>2. QED
  BY <1>1, InitIInv, PTL DEF Spec

(* Every reachable state is well typed: in particular segment numbers stay *)
(* within the bound and only numbered segments wait for deletion.          *)
THEOREM TypeCorrect == Spec => []TypeOK
<1>1. IInv => TypeOK
  BY DEF IInv
<1>2. QED
  BY <1>1, IInvInvariant, PTL

LEMMA IInvImpliesPlayable == IInv => ListedPlayable
<1> SUFFICES ASSUME IInv, fresh, NEW s \in Listed
             PROVE  /\ s \in SegmentNo
                    /\ disk[s].state = "complete"
                    /\ Intact(disk[s])
                    /\ s + 1 \in Listed => disk[s].to < disk[s + 1].from
  BY DEF ListedPlayable, Intact
<1>1. /\ m_firstsegment \in SegmentNo /\ m_lastsegment \in SegmentNo
      /\ m_firstsegment \in Nat /\ m_lastsegment \in Nat
  BY ConstantTypes DEF IInv, TypeOK
<1>2. /\ m_prev_segment_time >= 0
      /\ s \in m_firstsegment..(m_lastsegment - 1)
      /\ s + 1 \in Listed => s + 1 < m_lastsegment
  <2>1. index # NoIndex
    BY DEF Listed, NoIndex
  <2>2. QED
    BY <1>1, <2>1 DEF IInv, IndexFollowsWindow, Listed
<1>3. s \in SegmentNo
  BY <1>1, <1>2, BoundsAssumption DEF SegmentNo
<1>4. QED
  BY <1>2, <1>3 DEF IInv, ClosedIntact

(* An up-to-date index lists only segments that are closed, start with a key *)
(* frame, hold increasing time stamps within the target duration and follow  *)
(* one another, whatever fails and whenever.                                 *)
THEOREM ListedPlayableInvariant == Spec => []ListedPlayable
<1>1. QED
  BY IInvInvariant, IInvImpliesPlayable, PTL

-----------------------------------------------------------------------------
(* The files a client can fetch. *)
Present(files) == {s \in SegmentNo : files[s].state # "absent"}

(* The open segment has a file. *)
OpenOnDisk ==
  running /\ m_prev_segment_time >= 0 => disk[m_lastsegment].state # "absent"

(* In the first run, the window has Segments closed segments and the open    *)
(* one, or all there are, and an up-to-date index lists the closed ones.     *)
FirstRun ==
  restarts = 0 =>
    /\ m_firstsegment = IF m_lastsegment > Segments
                        THEN m_lastsegment - Segments ELSE 0
    /\ m_prev_segment_time < 0 => m_lastsegment = 0
    /\ fresh => index.first = m_firstsegment /\ index.last = m_lastsegment - 1

(* Each file belongs to the window or waits for its deletion. *)
Remembered ==
  "remove" \notin Faults /\ restarts = 0 /\ running =>
    OnDisk \subseteq Window \cup Castoffs

(* What waits for its deletion has left the index, and does so from then on. *)
Waits ==
  Faults \cap {"kept", "lost"} = {} =>
    /\ m_lastsegment > 0 =>
         index.first = m_firstsegment /\ index.last = m_lastsegment - 1
    /\ \A i \in DOMAIN m_castoff :
         /\ m_castoff[i].segment < index.first
         /\ m_castoff[i].expires = delisted[m_castoff[i].segment] + Retention

(* There are no files before the first segment. *)
Nothing == restarts = 0 /\ m_prev_segment_time < 0 => OnDisk = {}

(* Frames are stamped with positive times. *)
Stamped == m_lastts >= 0

WInv == Stamped /\ OpenOnDisk /\ FirstRun /\ Remembered /\ Waits /\ Nothing

-----------------------------------------------------------------------------
(* What a call of addframe() does, as far as these are concerned. *)
Sweeps(n, stuck) ==
  /\ running
  /\ n \in 0..Len(m_castoff)
  /\ Outdated(n)
  /\ "remove" \notin Faults => stuck = {}
  /\ m_lastts' = Pts
  /\ UNCHANGED <<now, restarts>>

Kept(n, stuck) == OnDisk \ (Expired(n) \ stuck)

Keeps(n, stuck) ==
  /\ Sweeps(n, stuck)
  /\ OnDisk' = Kept(n, stuck)
  /\ m_castoff' = Remaining(n)
  /\ OpenOnDisk'
  /\ UNCHANGED <<running, m_firstsegment, m_lastsegment, m_prev_segment_time,
                 index, fresh, delisted>>

Begins(n, stuck) ==
  /\ Sweeps(n, stuck)
  /\ m_prev_segment_time < 0 /\ m_prev_segment_time' \in Nat
  /\ OnDisk' = Kept(n, stuck) \cup {0}
  /\ m_castoff' = Remaining(n)
  /\ m_firstsegment' = 0 /\ m_lastsegment' = 0
  /\ OpenOnDisk'
  /\ UNCHANGED <<running, index, fresh, delisted>>

BeginAborts(n, stuck) ==
  /\ Sweeps(n, stuck)
  /\ "open" \in Faults
  /\ m_prev_segment_time < 0
  /\ OnDisk' = Kept(n, stuck)
  /\ m_castoff' = Remaining(n)
  /\ m_firstsegment' = 0 /\ m_lastsegment' = 0
  /\ running' = FALSE
  /\ UNCHANGED <<m_prev_segment_time, index, fresh, delisted>>

Slides(n, stuck) ==
  /\ Sweeps(n, stuck)
  /\ m_prev_segment_time >= 0 /\ m_prev_segment_time' \in Nat
  /\ m_castoff' = CastoffAfter(n)
  /\ m_firstsegment' = NextFirst /\ m_lastsegment' = m_lastsegment + 1
  /\ \E outcome \in {"ok", "kept", "lost"} : UpdateIndex(outcome)

Rolls(n, stuck) ==
  /\ Slides(n, stuck)
  /\ m_prev_segment_time' = Pts
  /\ Elapsed >= Limit
  /\ Pts <= Rescale(now) + MaxAhead
  /\ m_lastsegment + 1 \in SegmentNo
  /\ OnDisk' = Kept(n, stuck) \cup {m_lastsegment + 1}
  /\ OpenOnDisk'
  /\ UNCHANGED running

RollAborts(n, stuck) ==
  /\ Slides(n, stuck)
  /\ "open" \in Faults
  /\ OnDisk' = Kept(n, stuck)
  /\ running' = FALSE

(* What the sweep leaves. *)
LEMMA SweptFiles ==
  ASSUME IInv, NEW n \in 0..Len(m_castoff), NEW stuck
  PROVE  Present(Swept(n, stuck)) = Kept(n, stuck)
<1>1. Absent.state = "absent"
  BY DEF Absent
<1> QED
  BY <1>1 DEF Present, Swept, Kept, OnDisk

(* Writing to a file, or closing it, does not take it away or bring it. *)
LEMMA ChangedFile ==
  ASSUME NEW files \in [SegmentNo -> File], NEW s \in SegmentNo, NEW file,
         file.state # "absent"
  PROVE  /\ Present([files EXCEPT ![s] = file]) = Present(files) \cup {s}
         /\ [files EXCEPT ![s] = file][s].state # "absent"
  BY DEF Present

(* The window is not swept. *)
LEMMA WindowStays ==
  ASSUME IInv, OpenOnDisk, NEW n \in 0..Len(m_castoff), NEW stuck, running,
         m_prev_segment_time >= 0
  PROVE  /\ m_lastsegment \in SegmentNo
         /\ m_tsfile = m_lastsegment
         /\ Swept(n, stuck) \in [SegmentNo -> File]
         /\ Swept(n, stuck)[m_lastsegment] = disk[m_lastsegment]
         /\ disk[m_lastsegment] \in File
         /\ disk[m_lastsegment].state # "absent"
         /\ m_lastsegment \in Present(Swept(n, stuck))
<1>1. /\ m_lastsegment \in SegmentNo /\ m_lastsegment >= m_firstsegment
      /\ m_tsfile = m_lastsegment /\ disk[m_lastsegment] \in File
  BY ConstantTypes DEF IInv, TypeOK, WindowOrder, OpenIntact, SegmentNo
<1>2. /\ Swept(n, stuck) \in [SegmentNo -> File]
      /\ Swept(n, stuck)[m_lastsegment] = disk[m_lastsegment]
  BY <1>1, SweptKeepsWindow
<1> QED
  BY <1>1, <1>2 DEF OpenOnDisk, Present

LEMMA KeepsCase ==
  ASSUME IInv, OpenOnDisk, NEW n \in 0..Len(m_castoff),
         NEW stuck \in SUBSET Expired(n), NEW tie \in BOOLEAN,
         \/ DropLeading(n, stuck)
         \/ WriteInside(n, stuck, tie)
         \/ DropOverrun(n, stuck, tie)
  PROVE  Keeps(n, stuck)
<1>1. CASE DropLeading(n, stuck)
  <2>1. OnDisk' = Kept(n, stuck)
    BY <1>1, SweptFiles DEF DropLeading, Present, OnDisk
  <2>2. OpenOnDisk'
    BY <1>1 DEF DropLeading, OpenOnDisk, IInv, TypeOK
  <2> QED
    BY <1>1, <2>1, <2>2 DEF DropLeading, Arrives, Keeps, Sweeps
<1>2. CASE DropOverrun(n, stuck, tie)
  <2>0. running /\ m_prev_segment_time >= 0
    BY <1>2 DEF DropOverrun, Arrives
  <2>1. OnDisk' = Kept(n, stuck)
    BY <1>2, SweptFiles DEF DropOverrun, Present, OnDisk
  <2>2. OpenOnDisk'
    BY <1>2, <2>0, WindowStays DEF DropOverrun, OpenOnDisk
  <2> QED
    BY <1>2, <2>1, <2>2 DEF DropOverrun, Arrives, Keeps, Sweeps
<1>3. CASE WriteInside(n, stuck, tie)
  <2> DEFINE files == Swept(n, stuck)
             file == Written(disk[m_lastsegment])
  <2>0. running /\ m_prev_segment_time >= 0
    BY <1>3 DEF WriteInside, Arrives
  <2>1. /\ m_lastsegment \in SegmentNo /\ m_tsfile = m_lastsegment
        /\ files \in [SegmentNo -> File]
        /\ files[m_lastsegment] = disk[m_lastsegment]
        /\ disk[m_lastsegment] \in File
        /\ disk[m_lastsegment].state # "absent"
        /\ m_lastsegment \in Present(files)
    BY <2>0, WindowStays
  <2>2. file.state # "absent"
    BY <2>1 DEF Written, File
  <2>3. disk' = [files EXCEPT ![m_lastsegment] = file]
    BY <1>3, <2>1 DEF WriteInside
  <2> HIDE DEF files, file
  <2>4. /\ Present(disk') = Present(files) \cup {m_lastsegment}
        /\ disk'[m_lastsegment].state # "absent"
    BY <2>1, <2>2, <2>3, ChangedFile
  <2>5. Present(disk') = Present(files)
    BY <2>1, <2>4
  <2>6. OnDisk' = Kept(n, stuck)
    BY <2>5, SweptFiles DEF Present, OnDisk, files
  <2>7. OpenOnDisk'
    BY <1>3, <2>4 DEF WriteInside, OpenOnDisk
  <2> QED
    BY <1>3, <2>6, <2>7 DEF WriteInside, Arrives, Keeps, Sweeps
<1> QED
  BY <1>1, <1>2, <1>3

(* Time stamps stay positive. *)
LEMMA PtsPositive ==
  ASSUME IInv, Stamped
  PROVE  Pts \in Nat
<1>1. Pts \in Int /\ Pts > m_lastts /\ m_lastts \in Int
  BY PtsLater DEF IInv, TypeOK
<1> QED
  BY <1>1 DEF Stamped

LEMMA BeginsCase ==
  ASSUME IInv, Stamped, NEW n \in 0..Len(m_castoff), NEW stuck \in SUBSET Expired(n),
         NEW key \in BOOLEAN, FirstSegment(n, stuck, key)
  PROVE  Begins(n, stuck)
<1> DEFINE files == Swept(n, stuck)
           file == Started(key)
<1>1. 0 \in SegmentNo /\ files \in [SegmentNo -> File]
  BY SweptKeepsWindow, ConstantTypes
<1>2. file.state # "absent"
  BY DEF Started
<1>3. disk' = [files EXCEPT ![0] = file]
  BY DEF FirstSegment
<1> HIDE DEF files, file
<1>4. Present(disk') = Present(files) \cup {0} /\ disk'[0].state # "absent"
  BY <1>1, <1>2, <1>3, ChangedFile
<1>5. OnDisk' = Kept(n, stuck) \cup {0}
  BY <1>4, SweptFiles DEF Present, OnDisk, files
<1>6. OpenOnDisk'
  BY <1>4 DEF FirstSegment, OpenOnDisk
<1>7. Pts \in Nat
  BY PtsPositive
<1> QED
  BY <1>5, <1>6, <1>7 DEF FirstSegment, StartsStream, Arrives, Begins, Sweeps

LEMMA BeginAbortsCase ==
  ASSUME IInv, NEW n \in 0..Len(m_castoff), NEW stuck \in SUBSET Expired(n),
         FirstSegmentAborts(n, stuck)
  PROVE  BeginAborts(n, stuck)
<1>1. OnDisk' = Kept(n, stuck)
  BY SweptFiles DEF FirstSegmentAborts, Present, OnDisk
<1> QED
  BY <1>1 DEF FirstSegmentAborts, Arrives, BeginAborts, Sweeps

(* Closing the open segment does not change which files there are. *)
LEMMA ClosedFiles ==
  ASSUME IInv, OpenOnDisk, NEW n \in 0..Len(m_castoff), NEW stuck, running,
         m_prev_segment_time >= 0
  PROVE  /\ Closed(Swept(n, stuck)) \in [SegmentNo -> File]
         /\ Present(Closed(Swept(n, stuck))) = Kept(n, stuck)
<1> DEFINE files == Swept(n, stuck)
           file == [files[m_lastsegment] EXCEPT !.state = "complete"]
<1>1. /\ m_lastsegment \in SegmentNo /\ m_tsfile = m_lastsegment
      /\ files \in [SegmentNo -> File]
      /\ files[m_lastsegment] \in File
      /\ m_lastsegment \in Present(files)
  BY WindowStays
<1>2. file.state # "absent" /\ file \in File
  BY <1>1 DEF File
<1>3. Closed(files) = [files EXCEPT ![m_lastsegment] = file]
  BY <1>1 DEF Closed
<1> HIDE DEF files, file
<1>4. Present(Closed(files)) = Present(files) \cup {m_lastsegment}
  BY <1>1, <1>2, <1>3, ChangedFile
<1>5. Closed(files) \in [SegmentNo -> File]
  BY <1>1, <1>2, <1>3
<1>6. Present(Closed(files)) = Present(files)
  BY <1>1, <1>4
<1> QED
  BY <1>5, <1>6, SweptFiles DEF files

LEMMA RollsCase ==
  ASSUME IInv, Stamped, OpenOnDisk, NEW n \in 0..Len(m_castoff),
         NEW stuck \in SUBSET Expired(n), NEW tie \in BOOLEAN, NEW key \in BOOLEAN,
         NEW outcome \in {"ok", "kept", "lost"},
         Rollover(n, stuck, tie, key, outcome)
  PROVE  Rolls(n, stuck)
<1> DEFINE files == Closed(Swept(n, stuck))
           file == Started(key)
           new == m_lastsegment + 1
<1>0. running /\ m_prev_segment_time >= 0 /\ m_lastsegment < MaxSegment
      /\ Arrives(n, stuck)
  BY DEF Rollover, Arrives
<1>1. files \in [SegmentNo -> File] /\ Present(files) = Kept(n, stuck)
  BY <1>0, ClosedFiles
<1>2. new \in SegmentNo
  BY <1>0, ConstantTypes DEF IInv, TypeOK
<1>3. file.state # "absent"
  BY DEF Started
<1>4. disk' = [files EXCEPT ![new] = file]
  BY DEF Rollover
<1>5. /\ m_castoff' = CastoffAfter(n) /\ m_firstsegment' = NextFirst
      /\ m_lastsegment' = new /\ m_prev_segment_time' = Pts
      /\ UpdateIndex(outcome)
      /\ UNCHANGED <<running, now, restarts>>
  BY DEF Rollover
<1> HIDE DEF files, file, new
<1>6. Present(disk') = Present(files) \cup {new} /\ disk'[new].state # "absent"
  BY <1>1, <1>2, <1>3, <1>4, ChangedFile
<1>7. OnDisk' = Kept(n, stuck) \cup {new}
  BY <1>1, <1>6 DEF Present, OnDisk
<1>8. OpenOnDisk'
  BY <1>5, <1>6 DEF OpenOnDisk
<1>9. Pts \in Nat
  BY PtsPositive
<1>10. Sweeps(n, stuck)
  BY <1>0, <1>5 DEF Arrives, Sweeps
<1>11. Elapsed >= Limit /\ Pts <= Rescale(now) + MaxAhead
  <2>1. Elapsed \in Int
    BY <1>9 DEF Elapsed, IInv, TypeOK
  <2> QED
    BY <1>0, <2>1, ConstantTypes DEF Rollover, Exceeds, Arrives
<1> QED
  BY <1>0, <1>2, <1>5, <1>7, <1>8, <1>9, <1>10, <1>11 DEF Rolls, Slides, new

LEMMA RollAbortsCase ==
  ASSUME IInv, OpenOnDisk, NEW n \in 0..Len(m_castoff),
         NEW stuck \in SUBSET Expired(n), NEW tie \in BOOLEAN,
         NEW outcome \in {"ok", "kept", "lost"},
         RolloverAborts(n, stuck, tie, outcome)
  PROVE  RollAborts(n, stuck)
<1>0. running /\ m_prev_segment_time >= 0
  BY DEF RolloverAborts, Arrives
<1>1. Present(disk') = Kept(n, stuck)
  BY <1>0, ClosedFiles DEF RolloverAborts
<1>2. OnDisk' = Kept(n, stuck)
  BY <1>1 DEF Present, OnDisk
<1>3. m_prev_segment_time \in Nat
  BY <1>0 DEF IInv, TypeOK
<1> QED
  BY <1>2, <1>3 DEF RolloverAborts, Arrives, RollAborts, Slides, Sweeps

(* Every call is one of these. *)
LEMMA AddFrameCases ==
  ASSUME IInv, Stamped, OpenOnDisk, AddFrame
  PROVE  \E n \in 0..Len(m_castoff) : \E stuck \in SUBSET Expired(n) :
           \/ Keeps(n, stuck)
           \/ Begins(n, stuck)
           \/ BeginAborts(n, stuck)
           \/ Rolls(n, stuck)
           \/ RollAborts(n, stuck)
<1>1. PICK n \in 0..Len(m_castoff), tie \in BOOLEAN, key \in BOOLEAN :
        \E stuck \in SUBSET Expired(n) :
          \/ ~key /\ DropLeading(n, stuck)
          \/ FirstSegment(n, stuck, key)
          \/ key /\ FirstSegmentAborts(n, stuck)
          \/ WriteInside(n, stuck, tie)
          \/ ~key /\ DropOverrun(n, stuck, tie)
          \/ \E outcome \in {"ok", "kept", "lost"} :
               \/ Rollover(n, stuck, tie, key, outcome)
               \/ key /\ RolloverAborts(n, stuck, tie, outcome)
  BY DEF AddFrame
<1>2. PICK stuck \in SUBSET Expired(n) :
          \/ DropLeading(n, stuck)
          \/ FirstSegment(n, stuck, key)
          \/ FirstSegmentAborts(n, stuck)
          \/ WriteInside(n, stuck, tie)
          \/ DropOverrun(n, stuck, tie)
          \/ \E outcome \in {"ok", "kept", "lost"} :
               \/ Rollover(n, stuck, tie, key, outcome)
               \/ RolloverAborts(n, stuck, tie, outcome)
  BY <1>1
<1>3. CASE \/ DropLeading(n, stuck)
           \/ WriteInside(n, stuck, tie)
           \/ DropOverrun(n, stuck, tie)
  <2>1. Keeps(n, stuck)
    BY <1>3, KeepsCase
  <2> QED
    BY <2>1
<1>4. CASE FirstSegment(n, stuck, key)
  <2>1. Begins(n, stuck)
    BY <1>4, BeginsCase
  <2> QED
    BY <2>1
<1>5. CASE FirstSegmentAborts(n, stuck)
  <2>1. BeginAborts(n, stuck)
    BY <1>5, BeginAbortsCase
  <2> QED
    BY <2>1
<1>6. CASE \E outcome \in {"ok", "kept", "lost"} :
              Rollover(n, stuck, tie, key, outcome)
  <2>1. Rolls(n, stuck)
    BY <1>6, RollsCase
  <2> QED
    BY <2>1
<1>7. CASE \E outcome \in {"ok", "kept", "lost"} :
              RolloverAborts(n, stuck, tie, outcome)
  <2>1. RollAborts(n, stuck)
    BY <1>7, RollAbortsCase
  <2> QED
    BY <2>1
<1> QED
  BY <1>2, <1>3, <1>4, <1>5, <1>6, <1>7

-----------------------------------------------------------------------------
(* The window slides by at most one, and only when it has all its segments. *)
LEMMA NextFirstRange ==
  ASSUME IInv
  PROVE  /\ m_firstsegment \in Nat /\ m_lastsegment \in Nat
         /\ m_firstsegment <= m_lastsegment /\ Segments \in Nat \ {0}
         /\ NextFirst = IF m_lastsegment - m_firstsegment + 1 > Segments
                        THEN m_firstsegment + 1 ELSE m_firstsegment
  BY ConstantTypes, SegmentsAssumption
     DEF IInv, TypeOK, WindowOrder, NextFirst, WindowFull

LEMMA FirstRunStep ==
  ASSUME IInv, FirstRun, NEW n, NEW stuck,
         \/ Keeps(n, stuck) \/ Begins(n, stuck) \/ BeginAborts(n, stuck)
         \/ Rolls(n, stuck) \/ RollAborts(n, stuck)
  PROVE  FirstRun'
<1>1. CASE Keeps(n, stuck)
  BY <1>1 DEF FirstRun, Keeps, Sweeps
<1>2. CASE Begins(n, stuck)
  BY <1>2, SegmentsAssumption DEF FirstRun, Begins, Sweeps
<1>3. CASE BeginAborts(n, stuck)
  BY <1>3, SegmentsAssumption DEF FirstRun, BeginAborts, Sweeps
<1>4. CASE Rolls(n, stuck) \/ RollAborts(n, stuck)
  <2>1. /\ m_prev_segment_time' \in Nat
        /\ m_firstsegment' = NextFirst /\ m_lastsegment' = m_lastsegment + 1
        /\ restarts' = restarts
    BY <1>4 DEF Rolls, RollAborts, Slides, Sweeps
  <2>2. fresh' => index'.first = NextFirst /\ index'.last = m_lastsegment
    BY <1>4, IndexAfterUpdate DEF Rolls, RollAborts, Slides
  <2>3. restarts = 0 => m_firstsegment' = IF m_lastsegment' > Segments
                                          THEN m_lastsegment' - Segments ELSE 0
    BY <2>1, NextFirstRange DEF FirstRun
  <2> QED
    BY <2>1, <2>2, <2>3, NextFirstRange DEF FirstRun
<1> QED
  BY <1>1, <1>2, <1>3, <1>4

(* What is swept is not in the window, and what is not swept still waits. *)
LEMMA SweepRemembers ==
  ASSUME IInv, NEW n \in 0..Len(m_castoff), OnDisk \subseteq Window \cup Castoffs
  PROVE  Kept(n, {}) \subseteq
           Window \cup {Remaining(n)[i].segment : i \in DOMAIN Remaining(n)}
<1>1. m_castoff \in Seq(CastoffEntry) /\ Len(m_castoff) \in Nat
  BY LenProperties DEF IInv, TypeOK, CastoffEntry
<1>2. /\ DOMAIN Remaining(n) = 1..(Len(m_castoff) - n)
      /\ \A i \in 1..(Len(m_castoff) - n) : Remaining(n)[i] = m_castoff[n + i]
  <2>1. /\ Remaining(n) \in Seq(CastoffEntry)
        /\ \A i \in DOMAIN Remaining(n) :
             /\ i + n \in DOMAIN m_castoff
             /\ Remaining(n)[i] = m_castoff[i + n]
    BY <1>1, RemainingCastoffs
  <2>2. Len(Remaining(n)) = Len(m_castoff) - n
    BY <1>1, SubSeqProperties, ElementOfSeq DEF Remaining
  <2> HIDE DEF Remaining
  <2>3. DOMAIN Remaining(n) = 1..(Len(m_castoff) - n)
    BY <2>1, <2>2, LenProperties
  <2>4. \A i \in 1..(Len(m_castoff) - n) : i + n = n + i
    BY <1>1
  <2> QED
    BY <2>1, <2>3, <2>4
<1>3. SUFFICES ASSUME NEW s \in OnDisk, s \notin Expired(n), s \notin Window
               PROVE  s \in {Remaining(n)[i].segment : i \in DOMAIN Remaining(n)}
  BY DEF Kept
<1>4. PICK i \in 1..Len(m_castoff) : s = m_castoff[i].segment
  BY <1>1, <1>3, LenProperties DEF Castoffs
<1>5. i \notin 1..n
  BY <1>3, <1>4 DEF Expired
<1>6. i - n \in 1..(Len(m_castoff) - n) /\ n + (i - n) = i
  BY <1>1, <1>4, <1>5
<1> QED
  BY <1>2, <1>4, <1>6

LEMMA RememberedStep ==
  ASSUME IInv, FirstRun, Remembered, NEW n \in 0..Len(m_castoff), NEW stuck,
         \/ Keeps(n, stuck) \/ Begins(n, stuck) \/ BeginAborts(n, stuck)
         \/ Rolls(n, stuck) \/ RollAborts(n, stuck)
  PROVE  Remembered'
<1> SUFFICES ASSUME "remove" \notin Faults, restarts' = 0, running'
             PROVE  OnDisk' \subseteq Window' \cup Castoffs'
  BY DEF Remembered
<1> DEFINE rest == Remaining(n)
           waiting == {rest[i].segment : i \in DOMAIN rest}
<1>1. restarts = 0 /\ running /\ stuck = {}
  BY DEF Keeps, Begins, BeginAborts, Rolls, RollAborts, Slides, Sweeps
<1>2. OnDisk \subseteq Window \cup Castoffs
  BY <1>1 DEF Remembered
<1>3. Kept(n, stuck) \subseteq Window \cup waiting
  BY <1>1, <1>2, SweepRemembers
<1>4. CASE Keeps(n, stuck)
  BY <1>3, <1>4 DEF Keeps, Window, Castoffs
<1>5. CASE Begins(n, stuck)
  <2>1. m_firstsegment = 0 /\ m_lastsegment = 0
    BY <1>1, <1>5, SegmentsAssumption DEF Begins, FirstRun
  <2>2. Window' = 0..0 /\ Window = 0..0 /\ Castoffs' = waiting
    BY <1>5, <2>1 DEF Begins, Window, Castoffs
  <2>3. 0 \in 0..0
    OBVIOUS
  <2> HIDE DEF waiting
  <2> QED
    BY <1>3, <1>5, <2>2, <2>3 DEF Begins
<1>6. CASE Rolls(n, stuck)
  <2>1. /\ m_firstsegment' = NextFirst /\ m_lastsegment' = m_lastsegment + 1
        /\ OnDisk' = Kept(n, stuck) \cup {m_lastsegment + 1}
        /\ m_castoff' = CastoffAfter(n)
    BY <1>6 DEF Rolls, Slides
  <2>2. CASE WindowFull
    <3>1. NextFirst = m_firstsegment + 1 /\ NextFirst <= m_lastsegment
      BY <2>2, NextFirstRange, SegmentsAssumption DEF WindowFull
    <3>2. Castoffs' = waiting \cup {m_firstsegment}
      <4>1. rest \in Seq(CastoffEntry) /\ CastOffSegment \in CastoffEntry
        <5>1. m_firstsegment \in SegmentNo /\ now \in Int /\ Retention \in Int
          BY ConstantTypes DEF IInv, TypeOK
        <5>2. CastOffSegment \in CastoffEntry
          BY <5>1 DEF CastOffSegment, CastoffEntry
        <5> QED
          BY <5>2, CastoffsAfterSweep
      <4>2. m_castoff' = Append(rest, CastOffSegment)
        BY <2>1, <2>2 DEF CastoffAfter
      <4> HIDE DEF rest
      <4>3. /\ DOMAIN m_castoff' = DOMAIN rest \cup {Len(rest) + 1}
            /\ \A i \in DOMAIN rest : m_castoff'[i] = rest[i]
            /\ m_castoff'[Len(rest) + 1] = CastOffSegment
        BY <4>1, <4>2, AppendProperties, LenProperties
      <4> QED
        BY <4>3 DEF Castoffs, CastOffSegment
    <3>3. Window \subseteq Window' \cup {m_firstsegment}
      BY <2>1, <3>1, NextFirstRange DEF Window
    <3>4. m_lastsegment + 1 \in Window'
      BY <2>1, <3>1, NextFirstRange DEF Window
    <3> HIDE DEF waiting
    <3> QED
      BY <1>3, <2>1, <3>2, <3>3, <3>4
  <2>3. CASE ~WindowFull
    <3>1. NextFirst = m_firstsegment
      BY <2>3, NextFirstRange DEF WindowFull
    <3>2. Castoffs' = waiting
      BY <2>1, <2>3 DEF Castoffs, CastoffAfter
    <3>3. Window \subseteq Window' /\ m_lastsegment + 1 \in Window'
      BY <2>1, <3>1, NextFirstRange DEF Window
    <3> HIDE DEF waiting
    <3> QED
      BY <1>3, <2>1, <3>2, <3>3
  <2> QED
    BY <2>2, <2>3
<1> QED
  BY <1>4, <1>5, <1>6 DEF BeginAborts, RollAborts

(* A segment that leaves the window has been in the index up to now. *)
LEMMA WaitsStep ==
  ASSUME IInv, Waits, NEW n \in 0..Len(m_castoff), NEW stuck,
         \/ Keeps(n, stuck) \/ Begins(n, stuck) \/ BeginAborts(n, stuck)
         \/ Rolls(n, stuck) \/ RollAborts(n, stuck)
  PROVE  Waits'
<1> SUFFICES ASSUME Faults \cap {"kept", "lost"} = {}
             PROVE  Waits'
  BY DEF Waits
<1> DEFINE rest == Remaining(n)
<1>1. /\ m_lastsegment > 0 =>
           index.first = m_firstsegment /\ index.last = m_lastsegment - 1
      /\ \A i \in DOMAIN m_castoff :
           /\ m_castoff[i].segment < index.first
           /\ m_castoff[i].expires = delisted[m_castoff[i].segment] + Retention
  BY DEF Waits
<1>2. /\ rest \in Seq(CastoffEntry)
      /\ \A i \in DOMAIN rest :
           /\ rest[i].segment < m_firstsegment
           /\ rest[i].segment < index.first
           /\ rest[i].expires = delisted[rest[i].segment] + Retention
  <2>1. m_castoff \in Seq(CastoffEntry)
    BY DEF IInv, TypeOK, CastoffEntry
  <2> QED
    BY <1>1, <2>1, RemainingCastoffs, CastoffsAfterSweep
<1> HIDE DEF rest
<1>3. CASE Keeps(n, stuck)
  BY <1>1, <1>2, <1>3 DEF Waits, Keeps, rest
<1>4. CASE Begins(n, stuck) \/ BeginAborts(n, stuck)
  BY <1>2, <1>4 DEF Waits, Begins, BeginAborts, rest
<1>5. CASE Rolls(n, stuck) \/ RollAborts(n, stuck)
  <2>1. /\ m_firstsegment' = NextFirst /\ m_lastsegment' = m_lastsegment + 1
        /\ m_castoff' = CastoffAfter(n) /\ now' = now
    BY <1>5 DEF Rolls, RollAborts, Slides, Sweeps
  <2>2. /\ index' = NewIndex
        /\ delisted' = [s \in SegmentNo |->
                          IF s \in (index.first..index.last)
                                   \ (index'.first..index'.last)
                          THEN now ELSE delisted[s]]
    BY <1>5 DEF Rolls, RollAborts, Slides, UpdateIndex
  <2>3. index'.first = NextFirst /\ index'.last = m_lastsegment
    BY <2>2 DEF NewIndex
  <2>4. /\ m_firstsegment \in Nat /\ m_lastsegment \in Nat /\ NextFirst \in Nat
        /\ m_firstsegment <= NextFirst /\ m_firstsegment \in SegmentNo
        /\ index.first \in Nat /\ index.last \in Int
    BY NextFirstRange DEF IInv, TypeOK
  <2>5. \A i \in DOMAIN rest : /\ rest[i].segment \in SegmentNo
                               /\ rest[i].segment \in Nat
    <3>1. \A i \in DOMAIN rest : rest[i] \in CastoffEntry
      BY <1>2, ElementOfSeq, LenProperties
    <3> QED
      BY <3>1, ConstantTypes DEF CastoffEntry
  <2>6. \A i \in DOMAIN rest :
          /\ rest[i].segment < NextFirst
          /\ rest[i].expires = delisted'[rest[i].segment] + Retention
    <3> SUFFICES ASSUME NEW i \in DOMAIN rest
                 PROVE  /\ rest[i].segment < NextFirst
                        /\ rest[i].expires = delisted'[rest[i].segment] + Retention
      OBVIOUS
    <3>1. rest[i].segment \in SegmentNo /\ rest[i].segment \in Nat
      BY <2>5
    <3>2. rest[i].segment < m_firstsegment /\ rest[i].segment < index.first
      BY <1>2
    <3>3. rest[i].segment \notin index.first..index.last
      BY <2>4, <3>1, <3>2
    <3>4. delisted'[rest[i].segment] = delisted[rest[i].segment]
      BY <2>2, <3>1, <3>3
    <3> QED
      BY <1>2, <2>4, <3>1, <3>2, <3>4
  <2>7. CASE WindowFull
    <3>1. NextFirst = m_firstsegment + 1 /\ NextFirst <= m_lastsegment
      BY <2>7, NextFirstRange, SegmentsAssumption DEF WindowFull
    <3>2. m_firstsegment \in (index.first..index.last) \ (index'.first..index'.last)
      BY <1>1, <2>3, <2>4, <3>1
    <3>3. delisted'[m_firstsegment] = now
      BY <2>2, <2>4, <3>2
    <3>4. /\ CastOffSegment.segment = m_firstsegment
          /\ CastOffSegment.expires = now + Retention
          /\ CastOffSegment \in CastoffEntry
      BY <2>4, ConstantTypes DEF CastOffSegment, CastoffEntry, IInv, TypeOK
    <3>5. m_castoff' = Append(rest, CastOffSegment)
      BY <2>1, <2>7 DEF CastoffAfter, rest
    <3>6. \A i \in DOMAIN m_castoff' :
            m_castoff'[i] = IF i \in DOMAIN rest THEN rest[i] ELSE CastOffSegment
      BY <1>2, <3>4, <3>5, AppendProperties
    <3>7. \A i \in DOMAIN m_castoff' :
            /\ m_castoff'[i].segment < NextFirst
            /\ m_castoff'[i].expires = delisted'[m_castoff'[i].segment] + Retention
      BY <2>4, <2>6, <3>1, <3>3, <3>4, <3>6
    <3> QED
      BY <2>1, <2>3, <2>4, <3>7 DEF Waits, Retention
  <2>8. CASE ~WindowFull
    <3>1. m_castoff' = rest
      BY <2>1, <2>8 DEF CastoffAfter, rest
    <3> QED
      BY <2>1, <2>3, <2>4, <2>6, <3>1 DEF Waits, Retention
  <2> QED
    BY <2>7, <2>8
<1> QED
  BY <1>3, <1>4, <1>5

LEMMA NothingStep ==
  ASSUME IInv, Nothing, NEW n, NEW stuck,
         \/ Keeps(n, stuck) \/ Begins(n, stuck) \/ BeginAborts(n, stuck)
         \/ Rolls(n, stuck) \/ RollAborts(n, stuck)
  PROVE  Nothing'
<1>1. CASE Keeps(n, stuck)
  BY <1>1 DEF Nothing, Keeps, Sweeps, Kept
<1>2. CASE BeginAborts(n, stuck)
  BY <1>2 DEF Nothing, BeginAborts, Sweeps, Kept
<1>3. CASE Begins(n, stuck)
  BY <1>3 DEF Nothing, Begins, Sweeps
<1>4. CASE Rolls(n, stuck) \/ RollAborts(n, stuck)
  BY <1>4 DEF Nothing, Rolls, RollAborts, Slides
<1> QED
  BY <1>1, <1>2, <1>3, <1>4

-----------------------------------------------------------------------------
LEMMA InitWInv == Init => WInv
<1> SUFFICES ASSUME Init PROVE WInv
  OBVIOUS
<1>1. OpenOnDisk /\ Stamped
  BY DEF Init, OpenOnDisk, Stamped
<1>2. FirstRun
  BY SegmentsAssumption DEF Init, FirstRun, NoIndex
<1>3. Remembered
  BY DEF Init, Remembered, OnDisk, Absent
<1>4. Waits /\ Nothing
  BY DEF Init, Waits, Nothing, OnDisk, Absent
<1> QED
  BY <1>1, <1>2, <1>3, <1>4 DEF WInv

LEMMA NextWInv ==
  ASSUME IInv, WInv, [Next]_vars
  PROVE  WInv'
<1> USE DEF WInv
<1>1. CASE AddFrame
  <2>1. PICK n \in 0..Len(m_castoff) : \E stuck \in SUBSET Expired(n) :
          \/ Keeps(n, stuck)
          \/ Begins(n, stuck)
          \/ BeginAborts(n, stuck)
          \/ Rolls(n, stuck)
          \/ RollAborts(n, stuck)
    BY <1>1, AddFrameCases
  <2>1a. PICK stuck \in SUBSET Expired(n) :
          \/ Keeps(n, stuck)
          \/ Begins(n, stuck)
          \/ BeginAborts(n, stuck)
          \/ Rolls(n, stuck)
          \/ RollAborts(n, stuck)
    BY <2>1
  <2>2. OpenOnDisk' /\ Stamped'
    BY <2>1a, PtsPositive DEF Keeps, Begins, BeginAborts, Rolls, RollAborts, Slides, Sweeps,
                               OpenOnDisk, Stamped
  <2>3. FirstRun' /\ Remembered' /\ Waits'
    BY <2>1a, FirstRunStep, RememberedStep, WaitsStep
  <2>4. Nothing'
    BY <2>1a, NothingStep
  <2> QED
    BY <2>2, <2>3, <2>4
<1>2. CASE Tear
  BY <1>2 DEF Tear, Stamped, OpenOnDisk, FirstRun, Remembered, Waits, Nothing, OnDisk
<1>3. CASE Restart
  <2>1. restarts' # 0
    BY <1>3 DEF Restart, IInv, TypeOK
  <2> QED
    BY <1>3, <2>1 DEF Restart, Stamped, OpenOnDisk, FirstRun, Remembered, Waits, Nothing
<1>4. CASE Tick \/ UNCHANGED vars
  BY <1>4 DEF Tick, vars, memory, Stamped, OpenOnDisk, FirstRun, Remembered, Waits,
              Nothing, OnDisk, Window, Castoffs
<1> QED
  BY <1>1, <1>2, <1>3, <1>4 DEF Next

(* These hold of every reachable state. *)
THEOREM WInvInvariant == Spec => []WInv
  BY InitWInv, NextWInv, IInvInvariant, PTL DEF Spec

(* In the first run an up-to-date index lists exactly the newest Segments    *)
(* closed segments, or all there are, whatever the clock does.               *)
THEOREM WindowExactInvariant == Spec => []WindowExact
<1>1. WInv => WindowExact
  BY DEF WInv, FirstRun, WindowExact
<1> QED
  BY <1>1, WInvInvariant, PTL

(* Where ::remove works, every file of the first run is in the window or     *)
(* waits for its deletion, as long as the program lives.                     *)
THEOREM NoOrphansInvariant ==
  ASSUME "remove" \notin Faults
  PROVE  Spec => []NoOrphans
<1>1. WInv => NoOrphans
  BY DEF WInv, Remembered, NoOrphans
<1> QED
  BY <1>1, WInvInvariant, PTL

(* Where the index can be replaced, check_outdated_segments() deletes a       *)
(* segment no earlier than three target durations after it left the index,    *)
(* and nothing deletes one that is listed.                                    *)
THEOREM RetainedAlways ==
  ASSUME Faults \cap {"kept", "lost"} = {}
  PROVE  Spec => Retained
<1> DEFINE Goes(s) == s \notin Listed' /\ now - delisted[s] >= 3 * Duration * 1000000
<1>1. IInv /\ WInv /\ [Next]_vars => [\A s \in OnDisk \ OnDisk' : Goes(s)]_vars
  <2> SUFFICES ASSUME IInv, WInv, Next, NEW s \in OnDisk, s \notin OnDisk'
               PROVE  Goes(s)
    OBVIOUS
  <2>1. CASE AddFrame
    <3>1. PICK n \in 0..Len(m_castoff) : \E stuck \in SUBSET Expired(n) :
            \/ Keeps(n, stuck)
            \/ Begins(n, stuck)
            \/ BeginAborts(n, stuck)
            \/ Rolls(n, stuck)
            \/ RollAborts(n, stuck)
      BY <2>1, AddFrameCases DEF WInv
    <3>1a. PICK stuck \in SUBSET Expired(n) :
            \/ Keeps(n, stuck)
            \/ Begins(n, stuck)
            \/ BeginAborts(n, stuck)
            \/ Rolls(n, stuck)
            \/ RollAborts(n, stuck)
      BY <3>1
    <3>2. s \in Expired(n) /\ Outdated(n)
      BY <3>1a DEF Keeps, Begins, BeginAborts, Rolls, RollAborts, Slides, Sweeps, Kept
    <3>3. PICK i \in 1..n : s = m_castoff[i].segment /\ m_castoff[i].expires <= now
      BY <3>2 DEF Expired, Outdated
    <3>4. /\ i \in DOMAIN m_castoff
          /\ m_castoff[i] \in CastoffEntry
      <4>1. m_castoff \in Seq(CastoffEntry) /\ i \in 1..Len(m_castoff)
        BY <3>3 DEF IInv, TypeOK, CastoffEntry
      <4> QED
        BY <4>1, ElementOfSeq
    <3>5. /\ s < index.first /\ s < m_firstsegment
          /\ m_castoff[i].expires = delisted[s] + Retention
      BY <3>3, <3>4 DEF WInv, Waits, IInv, CastoffsBeforeWindow
    <3>6. s \in Nat /\ delisted[s] \in Int /\ now \in Int /\ index.first \in Nat
      BY <3>3, <3>4, ConstantTypes DEF CastoffEntry, IInv, TypeOK
    <3>7. now - delisted[s] >= 3 * Duration * 1000000
      <4>1. delisted[s] + Duration * 3 * 1000000 <= now
        BY <3>3, <3>5 DEF Retention
      <4>2. Duration \in Nat
        BY DurationAssumption
      <4> QED
        BY <3>6, <4>1, <4>2
    <3>8. s \notin Listed'
      <4>1. CASE UNCHANGED index
        BY <3>5, <3>6, <4>1 DEF Listed
      <4>2. CASE index' = NewIndex
        BY <3>5, <3>6, <4>2, NextFirstRange DEF Listed, NewIndex
      <4> QED
        BY <3>1a, <4>1, <4>2
           DEF Keeps, Begins, BeginAborts, Rolls, RollAborts, Slides, UpdateIndex
    <3> QED
      BY <3>7, <3>8
  <2>2. CASE Tear \/ Restart \/ Tick
    BY <2>2 DEF Tear, Restart, Tick, OnDisk
  <2> QED
    BY <2>1, <2>2 DEF Next
<1>2. Spec => [][\A s \in OnDisk \ OnDisk' : Goes(s)]_vars
  BY <1>1, IInvInvariant, WInvInvariant, PTL DEF Spec
<1> QED
  BY <1>2 DEF Retained

-----------------------------------------------------------------------------
(* How many files there are.  Each segment lasted at least its duration on   *)
(* the time stamps, so the castoffs in the queue expire at least that far    *)
(* apart, counted back from the start of the open segment.                   *)
Spacing(k) == k * Limit

Spaced ==
  running => \A i \in DOMAIN m_castoff :
    m_prev_segment_time >=
      (Rescale(m_castoff[i].expires) - 3 * Limit) + Spacing(Len(m_castoff) - i)

(* So only a few wait at a time. *)
FewWait == running => Len(m_castoff) <= MaxCastoffs

SInv == Spaced /\ FewWait

(* The bound on the files of a program that lives. *)
BoundedAlive == running => StorageBounded

LEMMA SpacingFacts ==
  /\ Spacing(0) = 0
  /\ \A k \in Int : Spacing(k) \in Int /\ Spacing(k + 1) = Spacing(k) + Limit
<1>1. Limit \in Int
  BY ConstantTypes
<1> HIDE DEF Limit
<1>2. \A k \in Int : k * Limit \in Int /\ (k + 1) * Limit = (k * Limit) + Limit
  BY <1>1
<1>3. 0 * Limit = 0
  BY <1>1
<1> QED
  BY <1>2, <1>3 DEF Spacing

LEMMA LimitPositive == Limit \in Nat \ {0} /\ Retention \in Nat \ {0}
  BY DurationAssumption DEF Limit, Retention

(* The retention of three durations is as long in ticks as in microseconds. *)
LEMMA RescaleFacts ==
  ASSUME NEW us \in Int
  PROVE  /\ Rescale(us) \in Int
         /\ Rescale(us + Retention) - 3 * Limit = Rescale(us)
         /\ \A later \in Int : us <= later => Rescale(us) <= Rescale(later)
<1>1. Duration \in Int
  BY DurationAssumption
<1>2. Rescale(us) \in Int
  BY DEF Rescale
<1>3. (us + Retention) * 9 + 50 = (us * 9 + 50) + 100 * (270000 * Duration)
  BY <1>1 DEF Retention
<1>4. \A a, b \in Int : (a + 100 * b) \div 100 = (a \div 100) + b
  OBVIOUS
<1>5. Rescale(us + Retention) = Rescale(us) + 270000 * Duration
  <2>1. us * 9 + 50 \in Int /\ 270000 * Duration \in Int
    BY <1>1
  <2> QED
    BY <1>3, <1>4, <2>1 DEF Rescale
<1>6. \A later \in Int : us <= later => Rescale(us) <= Rescale(later)
  BY DEF Rescale
<1> QED
  BY <1>1, <1>2, <1>5, <1>6 DEF Limit

(* The castoffs fit between the expiry of the oldest and the last time stamp. *)
LEMMA SpacingBound ==
  ASSUME NEW m \in Nat, Spacing(m - 1) <= 3 * Limit + MaxAhead
  PROVE  m <= MaxCastoffs
<1> DEFINE q == MaxAhead \div Limit
<1>1. Limit \in Nat \ {0} /\ MaxAhead \in Nat
  BY LimitPositive, BoundsAssumption
<1>2. \A L \in Nat \ {0}, a \in Nat :
         a \div L \in Nat /\ a < ((a \div L) + 1) * L
  OBVIOUS
<1>3. q \in Nat /\ MaxAhead < (q + 1) * Limit
  BY <1>1, <1>2
<1> HIDE DEF q
<1>4. \A L \in Nat \ {0}, r, k \in Int :
         k * L < ((r + 1) * L) + 3 * L => k < r + 4
  <2> SUFFICES ASSUME NEW L \in Nat \ {0}, NEW r \in Int, NEW k \in Int, k >= r + 4
               PROVE  k * L >= ((r + 1) * L) + 3 * L
    OBVIOUS
  <2>1. (k - (r + 4)) * L >= 0
    BY SMT
  <2>2. (k - (r + 4)) * L = (k * L) - (((r + 1) * L) + 3 * L)
    BY SMT
  <2>3. /\ k * L \in Int
        /\ ((r + 1) * L) + 3 * L \in Int
    BY SMT
  <2> QED
    BY <2>1, <2>2, <2>3
<1>5. (m - 1) * Limit < ((q + 1) * Limit) + 3 * Limit
  <2>1. (m - 1) * Limit \in Int /\ (q + 1) * Limit \in Int
    BY <1>1, <1>3
  <2> HIDE DEF Limit
  <2> QED
    BY <1>1, <1>3, <2>1 DEF Spacing
<1>6. m - 1 < q + 4
  BY <1>1, <1>3, <1>4, <1>5
<1> QED
  BY <1>3, <1>6 DEF MaxCastoffs, q

(* The queue after a sweep, and after a rollover. *)
LEMMA RestOfQueue ==
  ASSUME IInv, NEW n \in 0..Len(m_castoff)
  PROVE  /\ Remaining(n) \in Seq(CastoffEntry)
         /\ Len(m_castoff) \in Nat
         /\ Len(Remaining(n)) = Len(m_castoff) - n
         /\ \A i \in 1..Len(Remaining(n)) :
              /\ i + n \in DOMAIN m_castoff
              /\ Remaining(n)[i] = m_castoff[i + n]
              /\ Remaining(n)[i].expires \in Int
<1>1. m_castoff \in Seq(CastoffEntry) /\ Len(m_castoff) \in Nat
  BY LenProperties DEF IInv, TypeOK, CastoffEntry
<1>2. /\ Remaining(n) \in Seq(CastoffEntry)
      /\ \A i \in DOMAIN Remaining(n) :
           /\ i + n \in DOMAIN m_castoff
           /\ Remaining(n)[i] = m_castoff[i + n]
  BY <1>1, RemainingCastoffs
<1>3. Len(Remaining(n)) = Len(m_castoff) - n
  BY <1>1, SubSeqProperties, ElementOfSeq DEF Remaining
<1> HIDE DEF Remaining
<1>4. DOMAIN Remaining(n) = 1..Len(Remaining(n))
  BY <1>2, LenProperties
<1>5. \A i \in 1..Len(Remaining(n)) : Remaining(n)[i].expires \in Int
  <2> TAKE i \in 1..Len(Remaining(n))
  <2>1. Remaining(n)[i] \in CastoffEntry
    BY <1>2, ElementOfSeq
  <2> QED
    BY <2>1 DEF CastoffEntry
<1> QED
  BY <1>1, <1>2, <1>3, <1>4, <1>5

LEMMA QueueAfterRollover ==
  ASSUME IInv, NEW n \in 0..Len(m_castoff), WindowFull
  PROVE  /\ CastoffAfter(n) \in Seq(CastoffEntry)
         /\ Len(CastoffAfter(n)) = Len(Remaining(n)) + 1
         /\ \A i \in 1..Len(Remaining(n)) : CastoffAfter(n)[i] = Remaining(n)[i]
         /\ CastoffAfter(n)[Len(Remaining(n)) + 1].expires = now + Retention
<1> DEFINE rest == Remaining(n)
<1>1. CastOffSegment \in CastoffEntry /\ CastOffSegment.expires = now + Retention
  <2>1. m_firstsegment \in SegmentNo /\ now \in Int /\ Retention \in Int
    BY ConstantTypes DEF IInv, TypeOK
  <2> QED
    BY <2>1 DEF CastOffSegment, CastoffEntry
<1>2. CastoffAfter(n) = Append(rest, CastOffSegment)
  BY DEF CastoffAfter
<1>3. rest \in Seq(CastoffEntry)
  BY RestOfQueue
<1> HIDE DEF rest
<1>4. /\ Append(rest, CastOffSegment) \in Seq(CastoffEntry)
      /\ Len(Append(rest, CastOffSegment)) = Len(rest) + 1
      /\ \A i \in 1..Len(rest) : Append(rest, CastOffSegment)[i] = rest[i]
      /\ Append(rest, CastOffSegment)[Len(rest) + 1] = CastOffSegment
  BY <1>1, <1>3, AppendProperties
<1> QED
  BY <1>1, <1>2, <1>4 DEF rest

(* Sweeping takes from the front; a rollover comes a duration after the last. *)
LEMMA SpacedStep ==
  ASSUME IInv, Spaced, NEW n \in 0..Len(m_castoff), NEW stuck,
         \/ Keeps(n, stuck) \/ Begins(n, stuck) \/ BeginAborts(n, stuck)
         \/ Rolls(n, stuck) \/ RollAborts(n, stuck)
  PROVE  Spaced'
<1> DEFINE rest == Remaining(n)
<1> SUFFICES ASSUME running', NEW i \in DOMAIN m_castoff'
             PROVE  m_prev_segment_time' >=
                      (Rescale(m_castoff'[i].expires) - 3 * Limit)
                        + Spacing(Len(m_castoff') - i)
  BY DEF Spaced, Limit, Rescale, Spacing
<1>1. running /\ m_prev_segment_time \in Int /\ now \in Int
  BY DEF Keeps, Begins, BeginAborts, Rolls, RollAborts, Slides, Sweeps, IInv, TypeOK
<1>2. /\ rest \in Seq(CastoffEntry) /\ DOMAIN rest = 1..Len(rest) /\ Len(rest) \in Nat
      /\ Len(m_castoff) \in Nat /\ n \in Nat
      /\ Len(rest) = Len(m_castoff) - n
  BY RestOfQueue, LenProperties
<1>3. \A j \in 1..Len(rest) :
         /\ Spacing(Len(rest) - j) \in Int
         /\ Rescale(rest[j].expires) \in Int
         /\ m_prev_segment_time >=
              (Rescale(rest[j].expires) - 3 * Limit) + Spacing(Len(rest) - j)
  <2> TAKE j \in 1..Len(rest)
  <2>1. /\ j + n \in DOMAIN m_castoff
        /\ rest[j] = m_castoff[j + n]
        /\ rest[j].expires \in Int
    BY RestOfQueue
  <2>2. Len(m_castoff) - (j + n) = Len(rest) - j
    BY <1>2
  <2>3. m_prev_segment_time >=
          (Rescale(m_castoff[j + n].expires) - 3 * Limit)
             + Spacing(Len(m_castoff) - (j + n))
    BY <1>1, <2>1 DEF Spaced
  <2>4. Spacing(Len(rest) - j) \in Int
    BY <1>2, SpacingFacts
  <2>5. Rescale(rest[j].expires) \in Int
    BY <2>1, RescaleFacts
  <2> QED
    BY <2>1, <2>2, <2>3, <2>4, <2>5
<1> HIDE DEF rest
<1>4. CASE Keeps(n, stuck)
  BY <1>2, <1>3, <1>4 DEF Keeps, rest
<1>5. CASE Begins(n, stuck)
  <2>1. m_castoff' = <<>>
    BY <1>5, CastoffsAfterSweep DEF Begins
  <2> QED
    BY <2>1
<1>6. CASE Rolls(n, stuck)
  <2>1. /\ m_castoff' = CastoffAfter(n) /\ m_prev_segment_time' = Pts
        /\ Elapsed >= Limit
    BY <1>6 DEF Rolls, Slides
  <2>2. Pts \in Int /\ Pts >= m_prev_segment_time + Limit
    <3>1. Pts \in Int
      BY PtsLater DEF IInv, TypeOK
    <3> QED
      BY <1>1, <2>1, <3>1, LimitPositive DEF Elapsed
  <2>3. Limit \in Nat
    BY LimitPositive
  <2>4. CASE WindowFull
    <3>1. /\ Len(m_castoff') = Len(rest) + 1
          /\ \A j \in 1..Len(rest) : m_castoff'[j] = rest[j]
          /\ m_castoff'[Len(rest) + 1].expires = now + Retention
          /\ i \in 1..(Len(rest) + 1)
      <4>1. /\ CastoffAfter(n) \in Seq(CastoffEntry)
            /\ Len(CastoffAfter(n)) = Len(Remaining(n)) + 1
            /\ \A j \in 1..Len(Remaining(n)) : CastoffAfter(n)[j] = Remaining(n)[j]
            /\ CastoffAfter(n)[Len(Remaining(n)) + 1].expires = now + Retention
        BY <2>4, QueueAfterRollover
      <4>2. DOMAIN m_castoff' = 1..Len(m_castoff')
        BY <2>1, <4>1, LenProperties
      <4> QED
        BY <2>1, <4>1, <4>2 DEF rest
    <3>2. CASE i \in 1..Len(rest)
      <4>1. Len(m_castoff') - i = (Len(rest) - i) + 1
        BY <1>2, <3>1, <3>2
      <4>2. Spacing(Len(m_castoff') - i) = Spacing(Len(rest) - i) + Limit
        BY <1>2, <3>2, <4>1, SpacingFacts
      <4>3. m_castoff'[i] = rest[i]
        BY <3>1, <3>2
      <4>4. /\ Spacing(Len(rest) - i) \in Int
            /\ Rescale(rest[i].expires) \in Int
            /\ m_prev_segment_time >=
                 (Rescale(rest[i].expires) - 3 * Limit) + Spacing(Len(rest) - i)
        BY <1>3, <3>2
      <4>5. \A r, p, q, k, L \in Int :
              /\ p >= (r - 3 * L) + k
              /\ q >= p + L
              => q >= (r - 3 * L) + (k + L)
        OBVIOUS
      <4> HIDE DEF Limit
      <4>6. Pts >= (Rescale(rest[i].expires) - 3 * Limit)
                     + (Spacing(Len(rest) - i) + Limit)
        BY <1>1, <2>2, <2>3, <4>4, <4>5
      <4> QED
        BY <2>1, <4>2, <4>3, <4>6
    <3>3. CASE i = Len(rest) + 1
      <4>1. Spacing(Len(m_castoff') - i) = 0
        BY <1>2, <3>1, <3>3, SpacingFacts
      <4>2. Rescale(m_castoff'[i].expires) - 3 * Limit = Rescale(now)
        BY <1>1, <3>1, <3>3, RescaleFacts
      <4>3. Pts >= Rescale(now)
        <5>1. Rescale(now) \in Int /\ PtsStep \in Nat /\ m_lastts \in Int
          BY <1>1, RescaleFacts DEF PtsStep, Rescale, IInv, TypeOK
        <5> QED
          BY <5>1 DEF Pts
      <4>4. Rescale(now) \in Int
        BY <1>1, RescaleFacts
      <4> HIDE DEF Limit
      <4> QED
        BY <2>1, <2>2, <4>1, <4>2, <4>3, <4>4
    <3> QED
      BY <1>2, <3>1, <3>2, <3>3
  <2>5. CASE ~WindowFull
    <3>1. m_castoff' = rest
      BY <2>1, <2>5 DEF CastoffAfter, rest
    <3> HIDE DEF Limit
    <3> QED
      BY <1>1, <1>2, <1>3, <2>1, <2>2, <2>3, <3>1
  <2> QED
    BY <2>4, <2>5
<1> QED
  BY <1>4, <1>5, <1>6 DEF BeginAborts, RollAborts

(* After a rollover the oldest castoff has not expired: the sweep came first. *)
LEMMA FewWaitStep ==
  ASSUME IInv, FewWait, Spaced', NEW n \in 0..Len(m_castoff), NEW stuck,
         \/ Keeps(n, stuck) \/ Begins(n, stuck) \/ BeginAborts(n, stuck)
         \/ Rolls(n, stuck) \/ RollAborts(n, stuck)
  PROVE  FewWait'
<1> DEFINE rest == Remaining(n)
<1> SUFFICES ASSUME running'
             PROVE  Len(m_castoff') <= MaxCastoffs
  BY DEF FewWait, MaxCastoffs, Limit
<1>1. running /\ now' = now /\ now \in Int /\ Outdated(n)
  BY DEF Keeps, Begins, BeginAborts, Rolls, RollAborts, Slides, Sweeps, IInv, TypeOK
<1>2. /\ rest \in Seq(CastoffEntry) /\ Len(rest) \in Nat
      /\ Len(m_castoff) \in Nat /\ n \in Nat
      /\ Len(rest) = Len(m_castoff) - n
  BY RestOfQueue, LenProperties
<1>3. Len(rest) <= MaxCastoffs
  <2>1. Len(m_castoff) <= MaxCastoffs /\ MaxCastoffs \in Int
    <3>1. \A L \in Nat \ {0}, a \in Nat : a \div L \in Int
      OBVIOUS
    <3>2. MaxCastoffs \in Int
      BY <3>1, LimitPositive, BoundsAssumption DEF MaxCastoffs
    <3> QED
      BY <1>1, <3>2 DEF FewWait
  <2> HIDE DEF rest
  <2> QED
    BY <1>2, <2>1
<1>4. CASE Keeps(n, stuck) \/ Begins(n, stuck)
  BY <1>3, <1>4 DEF Keeps, Begins
<1>5. CASE Rolls(n, stuck)
  <2>1. /\ m_castoff' = CastoffAfter(n) /\ m_prev_segment_time' = Pts
        /\ Pts <= Rescale(now) + MaxAhead
    BY <1>5 DEF Rolls, Slides
  <2>2. CASE ~WindowFull
    BY <1>3, <2>1, <2>2 DEF CastoffAfter
  <2>3. CASE WindowFull
    <3>1. /\ CastoffAfter(n) \in Seq(CastoffEntry)
          /\ Len(CastoffAfter(n)) = Len(rest) + 1
          /\ \A j \in 1..Len(rest) : CastoffAfter(n)[j] = rest[j]
          /\ CastoffAfter(n)[Len(rest) + 1].expires = now + Retention
      BY <2>3, QueueAfterRollover
    <3>2. 1 \in DOMAIN m_castoff'
      <4>1. m_castoff' \in Seq(CastoffEntry) /\ Len(m_castoff') = Len(rest) + 1
        BY <2>1, <3>1
      <4> HIDE DEF rest
      <4> QED
        BY <1>2, <4>1, LenProperties
    <3>3. m_castoff'[1].expires \in Int /\ m_castoff'[1].expires > now
      <4>1. CASE Len(rest) = 0
        <5> HIDE DEF rest
        <5> QED
          BY <1>1, <2>1, <3>1, <4>1, LimitPositive
      <4>2. CASE Len(rest) > 0
        <5>1. 1 \in 1..Len(rest) /\ n < Len(m_castoff)
          BY <1>2, <4>2
        <5>2. rest[1] = m_castoff[1 + n] /\ rest[1].expires \in Int
          BY <5>1, RestOfQueue
        <5>3. m_castoff[n + 1].expires > now
          BY <1>1, <5>1 DEF Outdated
        <5>4. n + 1 = 1 + n
          BY <1>2
        <5> HIDE DEF rest
        <5> QED
          BY <2>1, <3>1, <5>1, <5>2, <5>3, <5>4
      <4> QED
        BY <1>2, <4>1, <4>2
    <3>4. m_prev_segment_time' >=
            (Rescale(m_castoff'[1].expires) - 3 * Limit)
               + Spacing(Len(m_castoff') - 1)
      <4>1. Spaced' = (running' => \A i \in DOMAIN m_castoff' :
              m_prev_segment_time' >=
                (Rescale(m_castoff'[i].expires) - 3 * Limit)
                   + Spacing(Len(m_castoff') - i))
        BY DEF Spaced, Limit, Rescale, Spacing
      <4> QED
        BY <3>2, <4>1
    <3>5. /\ Rescale(now) <= Rescale(m_castoff'[1].expires)
          /\ Rescale(now) \in Int /\ Rescale(m_castoff'[1].expires) \in Int
      <4>1. PICK e : e = m_castoff'[1].expires
        OBVIOUS
      <4>2. e \in Int /\ now <= e
        BY <1>1, <3>3, <4>1
      <4>3. Rescale(now) \in Int /\ Rescale(e) \in Int /\ Rescale(now) <= Rescale(e)
        BY <1>1, <4>2, RescaleFacts
      <4>4. Rescale(m_castoff'[1].expires) = Rescale(e)
        BY <4>1
      <4> QED
        BY <4>3, <4>4
    <3>6. Len(m_castoff') \in Nat
      BY <2>1, <3>1, <1>2
    <3>7. Spacing(Len(m_castoff') - 1) \in Int
      BY <3>6, SpacingFacts
    <3>8. Spacing(Len(m_castoff') - 1) <= 3 * Limit + MaxAhead
      <4>1. Pts \in Int /\ Limit \in Nat /\ MaxAhead \in Nat
        BY PtsLater, LimitPositive, BoundsAssumption DEF IInv, TypeOK
      <4> HIDE DEF Limit
      <4> QED
        BY <2>1, <3>4, <3>5, <3>7, <4>1
    <3> QED
      BY <3>6, <3>8, SpacingBound
  <2> QED
    BY <2>2, <2>3
<1> QED
  BY <1>4, <1>5 DEF BeginAborts, RollAborts

(* The segments in the queue are no more than its entries. *)
LEMMA CastoffsFinite ==
  ASSUME IInv
  PROVE  IsFiniteSet(Castoffs) /\ Cardinality(Castoffs) <= Len(m_castoff)
<1> DEFINE entries == 1..Len(m_castoff)
           f == [i \in entries |-> m_castoff[i].segment]
<1>1. Len(m_castoff) \in Nat /\ DOMAIN m_castoff = entries
  BY LenProperties DEF IInv, TypeOK
<1>2. f \in Surjection(entries, Castoffs)
  BY <1>1 DEF Surjection, Castoffs
<1>3. IsFiniteSet(entries) /\ Cardinality(entries) = Len(m_castoff)
  <2>1. /\ IsFiniteSet(1..Len(m_castoff))
        /\ Cardinality(1..Len(m_castoff)) =
             IF 1 > Len(m_castoff) THEN 0 ELSE (Len(m_castoff) - 1) + 1
    BY <1>1, FS_Interval
  <2> QED
    BY <1>1, <2>1
<1> HIDE DEF entries, f
<1> QED
  BY <1>2, <1>3, FS_Surjection

(* The window of the first run with its open segment. *)
LEMMA WindowFinite ==
  ASSUME IInv, FirstRun, restarts = 0
  PROVE  IsFiniteSet(Window) /\ Cardinality(Window) <= Segments + 1
<1>1. m_firstsegment \in Nat /\ m_lastsegment \in Nat /\ Segments \in Nat
  BY NextFirstRange
<1>2. /\ IsFiniteSet(m_firstsegment..m_lastsegment)
      /\ Cardinality(m_firstsegment..m_lastsegment) =
           IF m_firstsegment > m_lastsegment THEN 0
           ELSE (m_lastsegment - m_firstsegment) + 1
  BY <1>1, FS_Interval
<1>3. m_lastsegment - m_firstsegment <= Segments
  BY <1>1 DEF FirstRun
<1> QED
  BY <1>1, <1>2, <1>3 DEF Window

(* What is remembered while the program lives is bounded. *)
LEMMA RememberedIsBounded ==
  ASSUME IInv, FirstRun, Remembered, FewWait, "remove" \notin Faults
  PROVE  BoundedAlive
<1> SUFFICES ASSUME running, restarts = 0
             PROVE  Cardinality(OnDisk) <= (Segments + 1) + MaxCastoffs
  BY DEF BoundedAlive, StorageBounded
<1>1. /\ IsFiniteSet(Castoffs) /\ Cardinality(Castoffs) <= Len(m_castoff)
      /\ IsFiniteSet(Window) /\ Cardinality(Window) <= Segments + 1
  BY CastoffsFinite, WindowFinite
<1>2. OnDisk \in SUBSET (Window \cup Castoffs)
  BY DEF Remembered
<1>3. /\ IsFiniteSet(Window \cup Castoffs)
      /\ Cardinality(Window \cup Castoffs) =
           Cardinality(Window) + Cardinality(Castoffs)
              - Cardinality(Window \cap Castoffs)
  BY <1>1, FS_Union
<1>4. /\ IsFiniteSet(OnDisk)
      /\ Cardinality(OnDisk) <= Cardinality(Window \cup Castoffs)
  BY <1>2, <1>3, FS_Subset
<1>5. IsFiniteSet(Window \cap Castoffs)
  BY <1>1, FS_Intersection
<1>6. /\ Cardinality(Window) \in Nat /\ Cardinality(Castoffs) \in Nat
      /\ Cardinality(Window \cap Castoffs) \in Nat
      /\ Cardinality(OnDisk) \in Nat
  BY <1>1, <1>4, <1>5, FS_CardinalityType
<1>7. Len(m_castoff) <= MaxCastoffs /\ MaxCastoffs \in Int /\ Len(m_castoff) \in Nat
  <2>1. \A L \in Nat \ {0}, a \in Nat : a \div L \in Int
    OBVIOUS
  <2>2. MaxCastoffs \in Int
    BY <2>1, LimitPositive, BoundsAssumption DEF MaxCastoffs
  <2>3. Len(m_castoff) \in Nat
    BY LenProperties DEF IInv, TypeOK
  <2> QED
    BY <2>2, <2>3 DEF FewWait
<1>8. Segments \in Nat
  BY SegmentsAssumption
<1> QED
  BY <1>1, <1>3, <1>4, <1>6, <1>7, <1>8

(* The program leaves no more behind when it aborts. *)
LEMMA FewerFiles ==
  ASSUME StorageBounded, OnDisk' \subseteq OnDisk, restarts' = restarts
  PROVE  StorageBounded'
<1> SUFFICES ASSUME restarts = 0
             PROVE  Cardinality(OnDisk') <= (Segments + 1) + MaxCastoffs
  BY DEF StorageBounded, MaxCastoffs, Limit
<1>1. IsFiniteSet(OnDisk)
  <2>1. IsFiniteSet(SegmentNo)
    BY BoundsAssumption, FS_Interval DEF SegmentNo
  <2>2. OnDisk \in SUBSET SegmentNo
    BY DEF OnDisk
  <2> QED
    BY <2>1, <2>2, FS_Subset
<1>2. /\ IsFiniteSet(OnDisk') /\ Cardinality(OnDisk') <= Cardinality(OnDisk)
  <2>1. OnDisk' \in SUBSET OnDisk
    OBVIOUS
  <2> QED
    BY <1>1, <2>1, FS_Subset
<1>3. Cardinality(OnDisk) \in Nat /\ Cardinality(OnDisk') \in Nat
  BY <1>1, <1>2, FS_CardinalityType
<1>4. (Segments + 1) + MaxCastoffs \in Int
  <2>1. \A L \in Nat \ {0}, a \in Nat : a \div L \in Int
    OBVIOUS
  <2> QED
    BY <2>1, LimitPositive, BoundsAssumption, SegmentsAssumption DEF MaxCastoffs
<1> QED
  BY <1>2, <1>3, <1>4 DEF StorageBounded

LEMMA InitSInv == Init => SInv
<1> SUFFICES ASSUME Init PROVE SInv
  OBVIOUS
<1>1. Spaced
  BY DEF Init, Spaced
<1>2. FewWait
  <2>1. \A L \in Nat \ {0}, a \in Nat : a \div L \in Nat
    OBVIOUS
  <2>2. MaxCastoffs \in Nat
    BY <2>1, LimitPositive, BoundsAssumption DEF MaxCastoffs
  <2> QED
    BY <2>2 DEF Init, FewWait
<1> QED
  BY <1>1, <1>2 DEF SInv

LEMMA NextSInv ==
  ASSUME IInv, WInv, SInv, [Next]_vars
  PROVE  SInv'
<1>1. CASE AddFrame
  <2>1. PICK n \in 0..Len(m_castoff) : \E stuck \in SUBSET Expired(n) :
          \/ Keeps(n, stuck)
          \/ Begins(n, stuck)
          \/ BeginAborts(n, stuck)
          \/ Rolls(n, stuck)
          \/ RollAborts(n, stuck)
    BY <1>1, AddFrameCases DEF WInv
  <2>2. PICK stuck \in SUBSET Expired(n) :
          \/ Keeps(n, stuck)
          \/ Begins(n, stuck)
          \/ BeginAborts(n, stuck)
          \/ Rolls(n, stuck)
          \/ RollAborts(n, stuck)
    BY <2>1
  <2>3. Spaced'
    BY <2>2, SpacedStep DEF SInv
  <2>4. FewWait'
    BY <2>2, <2>3, FewWaitStep DEF SInv
  <2> QED
    BY <2>3, <2>4 DEF SInv
<1>2. CASE Tear
  BY <1>2 DEF Tear, SInv, Spaced, FewWait
<1>3. CASE Restart
  <2>1. m_castoff' = <<>>
    BY <1>3 DEF Restart
  <2>2. Spaced'
    BY <2>1 DEF Spaced
  <2>3. FewWait'
    <3>1. \A L \in Nat \ {0}, a \in Nat : a \div L \in Nat
      OBVIOUS
    <3>2. MaxCastoffs \in Nat
      BY <3>1, LimitPositive, BoundsAssumption DEF MaxCastoffs
    <3> QED
      BY <2>1, <3>2 DEF FewWait, MaxCastoffs, Limit
  <2> QED
    BY <2>2, <2>3 DEF SInv
<1>4. CASE Tick \/ UNCHANGED vars
  <2>1. UNCHANGED <<running, m_castoff, m_prev_segment_time>>
    BY <1>4 DEF Tick, vars, memory
  <2> QED
    BY <2>1 DEF SInv, Spaced, FewWait, MaxCastoffs, Limit, Rescale, Spacing
<1> QED
  BY <1>1, <1>2, <1>3, <1>4 DEF Next

(* The castoffs are spaced, and so few, in every reachable state of every    *)
(* configuration: the queue of check_outdated_segments() is bounded.         *)
THEOREM SInvInvariant == Spec => []SInv
  BY InitSInv, NextSInv, IInvInvariant, WInvInvariant, PTL DEF Spec

(* A step keeps the bound, if the program that lives on does. *)
LEMMA NextStorageBounded ==
  ASSUME IInv, WInv, StorageBounded, BoundedAlive', [Next]_vars
  PROVE  StorageBounded'
<1>1. CASE running'
  BY <1>1 DEF BoundedAlive
<1>2. CASE ~running'
  <2>1. CASE AddFrame
    <3>1. PICK n \in 0..Len(m_castoff) : \E stuck \in SUBSET Expired(n) :
            \/ Keeps(n, stuck)
            \/ Begins(n, stuck)
            \/ BeginAborts(n, stuck)
            \/ Rolls(n, stuck)
            \/ RollAborts(n, stuck)
      BY <2>1, AddFrameCases DEF WInv
    <3>2. PICK stuck \in SUBSET Expired(n) :
            \/ Keeps(n, stuck)
            \/ Begins(n, stuck)
            \/ BeginAborts(n, stuck)
            \/ Rolls(n, stuck)
            \/ RollAborts(n, stuck)
      BY <3>1
    <3>3. OnDisk' = Kept(n, stuck) /\ restarts' = restarts
      BY <1>2, <3>2
         DEF Keeps, Begins, BeginAborts, Rolls, RollAborts, Slides, Sweeps
    <3>4. OnDisk' \subseteq OnDisk
      BY <3>3 DEF Kept
    <3> QED
      BY <3>3, <3>4, FewerFiles
  <2>2. CASE Tear \/ Tick \/ UNCHANGED vars
    <3>1. UNCHANGED <<OnDisk, restarts>>
      BY <2>2 DEF Tear, Tick, vars, memory, OnDisk
    <3> QED
      BY <3>1, FewerFiles
  <2>3. CASE Restart
    BY <1>2, <2>3 DEF Restart
  <2> QED
    BY <2>1, <2>2, <2>3 DEF Next
<1> QED
  BY <1>1, <1>2

(* Where ::remove works, the disk holds at most the window, the open segment  *)
(* and four castoffs (more only as far as time stamps run ahead of the        *)
(* clock), wherever the clock goes and even after the program aborts.         *)
THEOREM StorageBoundedInvariant ==
  ASSUME "remove" \notin Faults
  PROVE  Spec => []StorageBounded
<1>1. IInv /\ WInv /\ SInv => BoundedAlive
  BY RememberedIsBounded DEF WInv, SInv
<1>2. Spec => []BoundedAlive
  BY <1>1, IInvInvariant, WInvInvariant, SInvInvariant, PTL
<1>3. Init /\ BoundedAlive => StorageBounded
  BY DEF Init, BoundedAlive
<1>4. IInv /\ WInv /\ StorageBounded /\ BoundedAlive' /\ [Next]_vars
        => StorageBounded'
  BY NextStorageBounded
<1> QED
  BY <1>2, <1>3, <1>4, IInvInvariant, WInvInvariant, PTL DEF Spec

-----------------------------------------------------------------------------
(* Without failures and restarts. *)
NoFailures == Faults = {} /\ MaxRestarts = 0
Alone == NoFailures => restarts = 0 /\ fresh

(* What HlsPlaylist says of the published list and of the files follows from *)
(* the code: each call of addframe() is a step of the playlist or none.      *)
THEOREM Implementation ==
  ASSUME NoFailures
  PROVE  Spec => ImplementsPlaylist
<1>1. Init => Playlist!Init
  BY DEF Init, Playlist!Init, NoIndex, OnDisk, Absent
<1>2. Init => Alone
  BY DEF Init, Alone
<1>3. Alone /\ [Next]_vars => Alone'
  <2> SUFFICES ASSUME Alone, [Next]_vars, NoFailures
               PROVE  restarts' = 0 /\ fresh'
    BY DEF Alone
  <2>0. restarts = 0 /\ fresh /\ Faults = {} /\ MaxRestarts = 0
    BY DEF Alone, NoFailures
  <2>1. CASE AddFrame
    <3>1. UNCHANGED restarts
      BY <2>1 DEF AddFrame, DropLeading, FirstSegment, FirstSegmentAborts,
                  WriteInside, DropOverrun, Rollover, RolloverAborts
    <3>2. \/ UNCHANGED fresh
          \/ \E outcome \in {"ok", "kept", "lost"} : UpdateIndex(outcome)
      BY <2>1 DEF AddFrame, DropLeading, FirstSegment, FirstSegmentAborts,
                  WriteInside, DropOverrun, Rollover, RolloverAborts
    <3>3. CASE \E outcome \in {"ok", "kept", "lost"} : UpdateIndex(outcome)
      <4>1. PICK outcome : UpdateIndex(outcome)
        BY <3>3
      <4>2. /\ outcome \in {"ok"} \cup (Faults \cap {"kept", "lost"})
            /\ fresh' = (outcome = "ok")
        BY <4>1 DEF UpdateIndex
      <4>3. outcome = "ok"
        BY <2>0, <4>2
      <4> QED
        BY <2>0, <3>1, <4>2, <4>3
    <3> QED
      BY <2>0, <3>1, <3>2, <3>3
  <2>2. CASE Tear \/ Tick \/ UNCHANGED vars
    <3>1. UNCHANGED <<restarts, fresh>>
      BY <2>2 DEF Tear, Tick, vars, memory
    <3> QED
      BY <2>0, <3>1
  <2>3. CASE Restart
    BY <2>0, <2>3 DEF Restart
  <2> QED
    BY <2>1, <2>2, <2>3 DEF Next
<1>4. IInv /\ WInv /\ Alone /\ [Next]_vars => [Playlist!Next]_(Playlist!vars)
  <2> SUFFICES ASSUME IInv, WInv, Alone, [Next]_vars
               PROVE  Playlist!Next \/ UNCHANGED Playlist!vars
    OBVIOUS
  <2>0. restarts = 0 /\ fresh /\ Faults = {} /\ MaxRestarts = 0
    BY DEF Alone, NoFailures
  <2>1. /\ index.first = m_firstsegment /\ index.last = m_lastsegment - 1
        /\ m_prev_segment_time < 0 => m_lastsegment = 0 /\ m_firstsegment = 0
    BY <2>0, SegmentsAssumption DEF WInv, FirstRun
  <2>2. CASE AddFrame
    <3>1. PICK n \in 0..Len(m_castoff) : \E stuck \in SUBSET Expired(n) :
            \/ Keeps(n, stuck)
            \/ Begins(n, stuck)
            \/ BeginAborts(n, stuck)
            \/ Rolls(n, stuck)
            \/ RollAborts(n, stuck)
      BY <2>2, AddFrameCases DEF WInv
    <3>1a. PICK stuck \in SUBSET Expired(n) :
            \/ Keeps(n, stuck)
            \/ Begins(n, stuck)
            \/ BeginAborts(n, stuck)
            \/ Rolls(n, stuck)
            \/ RollAborts(n, stuck)
      BY <3>1
    <3> DEFINE gone == OnDisk \cap (Expired(n) \ stuck)
    <3>2. /\ Kept(n, stuck) = OnDisk \ gone
          /\ gone \in SUBSET {s \in OnDisk : s < index.first}
      <4>1. ASSUME NEW s \in Expired(n)
            PROVE  s < m_firstsegment
        <5>1. PICK i \in 1..n : s = m_castoff[i].segment
          BY <4>1 DEF Expired
        <5>2. i \in DOMAIN m_castoff
          BY <5>1 DEF IInv, TypeOK
        <5> QED
          BY <5>1, <5>2 DEF IInv, CastoffsBeforeWindow
      <4> QED
        BY <2>1, <4>1 DEF Kept
    <3> HIDE DEF gone
    <3>3. CASE Keeps(n, stuck)
      <4>1. OnDisk' = OnDisk \ gone /\ UNCHANGED index
        BY <3>2, <3>3 DEF Keeps
      <4> QED
        BY <3>2, <4>1 DEF Playlist!Next, Playlist!Collect
    <3>4. CASE Begins(n, stuck)
      <4>1. /\ m_prev_segment_time < 0 /\ running
            /\ OnDisk' = Kept(n, stuck) \cup {0} /\ UNCHANGED index
        BY <3>4 DEF Begins, Sweeps
      <4>2. CASE OnDisk = {}
        BY <4>1, <4>2 DEF Kept, Playlist!Next, Playlist!Begin
      <4>3. CASE OnDisk # {}
        BY <2>0, <4>1, <4>3 DEF WInv, Nothing
      <4> QED
        BY <4>2, <4>3
    <3>5. CASE Rolls(n, stuck)
      <4>1. /\ OnDisk' = (OnDisk \ gone) \cup {m_lastsegment + 1}
            /\ index' = NewIndex
            /\ running /\ m_prev_segment_time >= 0
        BY <2>0, <3>2, <3>5 DEF Rolls, Slides, Sweeps, UpdateIndex
      <4>2. index.last + 1 = m_lastsegment /\ m_lastsegment \in OnDisk
        BY <2>1, <4>1, NextFirstRange DEF WInv, OpenOnDisk, OnDisk, IInv, TypeOK
      <4>3. /\ index'.last = index.last + 1
            /\ index'.first = IF index'.last - index.first + 1 > Segments
                              THEN index.first + 1 ELSE index.first
        BY <2>1, <4>1, NextFirstRange DEF NewIndex
      <4>4. OnDisk' = (OnDisk \ gone) \cup {index'.last + 1}
        BY <4>1 DEF NewIndex
      <4>5. Playlist!Publish
        BY <3>2, <4>2, <4>3, <4>4 DEF Playlist!Publish
      <4> QED
        BY <4>5 DEF Playlist!Next
    <3> QED
      BY <2>0, <3>1a, <3>3, <3>4, <3>5 DEF BeginAborts, RollAborts
  <2>3. CASE Tear \/ Tick \/ UNCHANGED vars
    BY <2>3 DEF Tear, Tick, vars, memory, OnDisk, Playlist!vars
  <2>4. CASE Restart
    BY <2>0, <2>4 DEF Restart
  <2> QED
    BY <2>2, <2>3, <2>4 DEF Next
<1> QED
  BY <1>1, <1>2, <1>3, <1>4, IInvInvariant, WInvInvariant, PTL
     DEF Spec, ImplementsPlaylist, Playlist!Spec
=============================================================================
