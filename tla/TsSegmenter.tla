---------------------------- MODULE TsSegmenter ----------------------------
(***************************************************************************)
(* The HLS segmenter (src/TsSegmenter.cpp): every frame handed to          *)
(* addframe() is written to the open segment file, closes it and opens the *)
(* next one, or is dropped.  Closing a segment slides the window of        *)
(* published segments, schedules the segment that left it for deletion and *)
(* rewrites the index file.                                                *)
(*                                                                         *)
(* Times have the units of the code: `now' is av_gettime() in              *)
(* microseconds, time stamps are ticks of the 90 kHz clock.  A segment     *)
(* file is the record of what a client needs to know of it: whether it is  *)
(* closed, whether it starts with a key frame, its first and last time     *)
(* stamps, and whether the stamps in it strictly increase.  One call of    *)
(* addframe() reads the clock once.                                        *)
(*                                                                         *)
(* A definition whose name ends in _Bug is a mutated form of the one after *)
(* it: a plausible mistake that the properties have to notice.             *)
(***************************************************************************)
EXTENDS Integers, Sequences, FiniteSets

CONSTANTS
  Duration,     \* m_duration, in seconds
  Segments,     \* m_segments, the length of the published window
  ClockSteps,   \* what the wall clock may move by between two calls, in us
  MaxClock,     \* bound on the wall clock
  MaxAhead,     \* bound on how far time stamps run ahead of the clock
  MaxSegment,   \* bound on segment numbers
  MaxRestarts,  \* bound on the number of times the program is started again
  Faults        \* which of the environment's failures may happen

(* m_duration * 3 * 1000000 is an int expression: from 716 s on it overflows. *)
ASSUME DurationAssumption == Duration \in 1..715
ASSUME SegmentsAssumption == Segments \in Nat \ {0}
ASSUME BoundsAssumption == /\ ClockSteps \subseteq Int
                           /\ MaxClock \in Nat
                           /\ MaxAhead \in Nat
                           /\ MaxSegment \in Nat
                           /\ MaxRestarts \in Nat
ASSUME FaultsAssumption ==
  Faults \subseteq {"kept", "lost", "open", "remove", "write", "close"}

VARIABLES
  running,              \* the segmenter exists and has not aborted
  m_firstsegment,
  m_lastsegment,
  m_prev_segment_time,  \* start of the open segment, -1 before the first one
  m_lastts,
  m_castoff,            \* segments that left the window, with their expiry
  m_tsfile,             \* the segment whose file is open, or NoFile
  disk,                 \* the segment files, with what was to be written
  torn,                 \* the segments whose file lacks some of that
  index,                \* what the index file lists, or NoIndex
  now,                  \* av_gettime()
  restarts,
  fresh,                \* history: the last update of the index succeeded
  delisted              \* history: when a segment last left the index

memory == <<running, m_firstsegment, m_lastsegment, m_prev_segment_time,
            m_lastts, m_castoff, m_tsfile>>
vars == <<memory, disk, torn, index, now, restarts, fresh, delisted>>

-----------------------------------------------------------------------------
SegmentNo == 0..MaxSegment
NoFile    == -1
NoIndex   == [first |-> 0, last |-> -1]
Absent    == [state |-> "absent", key |-> FALSE, from |-> 0, to |-> 0,
              ordered |-> TRUE]
File      == [state : {"absent", "partial", "complete"}, key : BOOLEAN,
              from : Int, to : Int, ordered : BOOLEAN]

Limit == Duration * 90000

(* av_rescale_q from microseconds to 90 kHz ticks, rounding to nearest. *)
Rescale(us) == (us * 9 + 50) \div 100

(* The step a repeated time stamp is moved forward by: 1000000 / 120 us. *)
PtsStep == Rescale(1000000 \div 120)

StartClock == 1000000

(* The time stamp addframe() gives a frame: the wall clock, unless that does *)
(* not move past the previous one.                                           *)
Pts_Bug == Rescale(now)
Pts == IF Rescale(now) <= m_lastts THEN m_lastts + PtsStep ELSE Rescale(now)

Elapsed == Pts - m_prev_segment_time

(* The code compares quotients of doubles: whether a segment of exactly the *)
(* duration exceeds it is left to the rounding (tie).                       *)
Exceeds(tie) == Elapsed > Limit \/ (Elapsed = Limit /\ tie)

Retention_Bug == (Duration * 3 * 1000000) \div 2
Retention == Duration * 3 * 1000000

-----------------------------------------------------------------------------
(* check_outdated_segments(): the n oldest castoffs have expired, are popped *)
(* and removed.  The result of ::remove is ignored: files in `stuck' stay.   *)
Outdated(n) == /\ \A i \in 1..n : m_castoff[i].expires <= now
               /\ n < Len(m_castoff) => m_castoff[n + 1].expires > now

Expired(n) == {m_castoff[i].segment : i \in 1..n}

Remaining(n) == SubSeq(m_castoff, n + 1, Len(m_castoff))

Swept(n, stuck) ==
  [s \in SegmentNo |-> IF s \in Expired(n) \ stuck THEN Absent ELSE disk[s]]

(* What every call of addframe() does first: the outdated segments go and *)
(* the frame gets its time stamp.                                         *)
Arrives(n, stuck) ==
  /\ running
  /\ Outdated(n)
  /\ stuck \subseteq IF "remove" \in Faults THEN Expired(n) ELSE {}
  /\ Pts <= Rescale(now) + MaxAhead
  /\ m_lastts' = Pts

(* "stream should start with i frame": the frame is dropped. *)
DropLeading(n, stuck) ==
  /\ Arrives(n, stuck)
  /\ m_prev_segment_time < 0
  /\ m_castoff' = Remaining(n)
  /\ disk' = Swept(n, stuck)
  /\ UNCHANGED <<running, m_firstsegment, m_lastsegment, m_prev_segment_time,
                 m_tsfile, torn, index, now, restarts, fresh, delisted>>

Started(key) == [state |-> "partial", key |-> key, from |-> Pts, to |-> Pts,
                 ordered |-> TRUE]
Written(file) == [file EXCEPT !.to = Pts, !.ordered = @ /\ file.to < Pts]

(* The results of fwrite(), fflush() and fclose() are ignored: what they fail *)
(* to write is missing from the file of the segment, and addframe() goes on.  *)
Lacking(fault, segment) == {{}} \cup IF fault \in Faults THEN {{segment}} ELSE {}

(* The first key frame opens segment 0, and is written to it.  Truncating a *)
(* file of an earlier run is what fopen(.., "wb") does.                     *)
StartsStream_Bug(key) == m_prev_segment_time < 0
StartsStream(key) == key /\ m_prev_segment_time < 0

FirstSegment(n, stuck, key) ==
  /\ Arrives(n, stuck)
  /\ StartsStream(key)
  /\ m_firstsegment' = 0
  /\ m_lastsegment' = 0
  /\ m_prev_segment_time' = Pts
  /\ m_castoff' = Remaining(n)
  /\ m_tsfile' = 0
  /\ disk' = [Swept(n, stuck) EXCEPT ![0] = Started(key)]
  /\ \E lost \in Lacking("write", 0) : torn' = (torn \ {0}) \cup lost
  /\ UNCHANGED <<running, index, now, restarts, fresh, delisted>>

(* assert(m_tsfile) in start_new_file(): the program aborts. *)
FirstSegmentAborts(n, stuck) ==
  /\ "open" \in Faults
  /\ Arrives(n, stuck)
  /\ m_prev_segment_time < 0
  /\ m_firstsegment' = 0
  /\ m_lastsegment' = 0
  /\ m_castoff' = Remaining(n)
  /\ disk' = Swept(n, stuck)
  /\ running' = FALSE
  /\ UNCHANGED <<m_prev_segment_time, m_tsfile, torn, index, now, restarts,
                 fresh, delisted>>

(* A frame within the duration of the open segment is muxed and written. *)
WriteInside(n, stuck, tie) ==
  /\ Arrives(n, stuck)
  /\ m_prev_segment_time >= 0
  /\ ~Exceeds(tie)
  /\ m_castoff' = Remaining(n)
  /\ disk' = [Swept(n, stuck) EXCEPT ![m_tsfile] = Written(@)]
  /\ \E lost \in Lacking("write", m_tsfile) : torn' = torn \cup lost
  /\ UNCHANGED <<running, m_firstsegment, m_lastsegment, m_prev_segment_time,
                 m_tsfile, index, now, restarts, fresh, delisted>>

(* No key frame came in time: the frame is dropped. *)
DropOverrun(n, stuck, tie) ==
  /\ Arrives(n, stuck)
  /\ m_prev_segment_time >= 0
  /\ Exceeds(tie)
  /\ m_castoff' = Remaining(n)
  /\ disk' = Swept(n, stuck)
  /\ UNCHANGED <<running, m_firstsegment, m_lastsegment, m_prev_segment_time,
                 m_tsfile, torn, index, now, restarts, fresh, delisted>>

-----------------------------------------------------------------------------
(* Whether closing the open segment casts the first one off the window. *)
WindowFull_Bug == m_lastsegment - m_firstsegment + 1 > Segments + 1
WindowFull == m_lastsegment - m_firstsegment + 1 > Segments

NextFirst == m_firstsegment + (IF WindowFull THEN 1 ELSE 0)

(* Segments are taken from the front of the window. *)
CastOffSegment_Bug == [segment |-> m_firstsegment - 1, expires |-> now + Retention]
CastOffSegment == [segment |-> m_firstsegment, expires |-> now + Retention]

CastoffAfter(n) ==
  IF WindowFull THEN Append(Remaining(n), CastOffSegment) ELSE Remaining(n)

(* update_index_file(false): the new list is written to a temporary file that *)
(* then replaces the index.  An error before the old index is removed keeps   *)
(* it ("kept"), one in rename() after that leaves no index at all ("lost").   *)
NewIndex_Bug == [first |-> NextFirst, last |-> m_lastsegment + 1]
NewIndex == [first |-> NextFirst, last |-> m_lastsegment]

UpdateIndex(outcome) ==
  /\ outcome \in {"ok"} \cup (Faults \cap {"kept", "lost"})
  /\ index' = CASE outcome = "ok"   -> NewIndex
                [] outcome = "kept" -> index
                [] outcome = "lost" -> NoIndex
  /\ fresh' = (outcome = "ok")
  /\ delisted' = [s \in SegmentNo |->
                    IF s \in (index.first..index.last)
                             \ (index'.first..index'.last)
                    THEN now ELSE delisted[s]]

(* write_end_file(): the open segment is closed. *)
Closed_Bug(files) == files
Closed(files) == [files EXCEPT ![m_tsfile].state = "complete"]

(* A key frame past the duration closes the open segment and starts the next. *)
Rollover(n, stuck, tie, key, outcome) ==
  /\ Arrives(n, stuck)
  /\ key
  /\ m_prev_segment_time >= 0
  /\ Exceeds(tie)
  /\ m_lastsegment < MaxSegment
  /\ m_firstsegment' = NextFirst
  /\ m_castoff' = CastoffAfter(n)
  /\ UpdateIndex(outcome)
  /\ m_lastsegment' = m_lastsegment + 1
  /\ m_tsfile' = m_lastsegment + 1
  /\ disk' = [Closed(Swept(n, stuck)) EXCEPT
                ![m_lastsegment + 1] = Started(key)]
  /\ \E unflushed \in Lacking("close", m_tsfile),
        lost \in Lacking("write", m_lastsegment + 1) :
       torn' = (torn \ {m_lastsegment + 1}) \cup unflushed \cup lost
  /\ m_prev_segment_time' = Pts
  /\ UNCHANGED <<running, now, restarts>>

(* The same, and the new file cannot be opened: assert(m_tsfile) aborts. *)
RolloverAborts(n, stuck, tie, outcome) ==
  /\ "open" \in Faults
  /\ Arrives(n, stuck)
  /\ m_prev_segment_time >= 0
  /\ Exceeds(tie)
  /\ m_lastsegment < MaxSegment
  /\ m_firstsegment' = NextFirst
  /\ m_castoff' = CastoffAfter(n)
  /\ UpdateIndex(outcome)
  /\ m_lastsegment' = m_lastsegment + 1
  /\ m_tsfile' = NoFile
  /\ disk' = Closed(Swept(n, stuck))
  /\ \E unflushed \in Lacking("close", m_tsfile) : torn' = torn \cup unflushed
  /\ running' = FALSE
  /\ UNCHANGED <<m_prev_segment_time, now, restarts>>

-----------------------------------------------------------------------------
(* tear(): the castoffs are forgotten, their files stay; the open segment is *)
(* neither closed nor published.                                             *)
Tear ==
  /\ running
  /\ running' = FALSE
  /\ m_castoff' = <<>>
  /\ UNCHANGED <<m_firstsegment, m_lastsegment, m_prev_segment_time, m_lastts,
                 m_tsfile, disk, torn, index, now, restarts, fresh, delisted>>

(* The program is started again over the files the last run left. *)
Restart ==
  /\ ~running
  /\ restarts < MaxRestarts
  /\ restarts' = restarts + 1
  /\ running' = TRUE
  /\ m_firstsegment' = 0
  /\ m_lastsegment' = 0
  /\ m_prev_segment_time' = -1
  /\ m_lastts' = 0
  /\ m_castoff' = <<>>
  /\ m_tsfile' = NoFile
  /\ fresh' = FALSE
  /\ UNCHANGED <<disk, torn, index, now, delisted>>

(* The wall clock advances or is set back.  Bound: it is only set back when *)
(* the last frame was stamped with its present reading.                     *)
Tick ==
  /\ \E d \in ClockSteps : /\ d < 0 => m_lastts = Rescale(now)
                           /\ now + d \in 1..MaxClock
                           /\ now' = now + d
  /\ UNCHANGED <<memory, disk, torn, index, restarts, fresh, delisted>>

Init ==
  /\ running = TRUE
  /\ m_firstsegment = 0
  /\ m_lastsegment = 0
  /\ m_prev_segment_time = -1
  /\ m_lastts = 0
  /\ m_castoff = <<>>
  /\ m_tsfile = NoFile
  /\ disk = [s \in SegmentNo |-> Absent]
  /\ torn = {}
  /\ index = NoIndex
  /\ now = StartClock
  /\ restarts = 0
  /\ fresh = TRUE
  /\ delisted = [s \in SegmentNo |-> 0]

(* addframe() on any frame, at any state of the environment. *)
AddFrame ==
  \E n \in 0..Len(m_castoff), tie \in BOOLEAN, key \in BOOLEAN :
    \E stuck \in SUBSET Expired(n) :
      \/ ~key /\ DropLeading(n, stuck)
      \/ FirstSegment(n, stuck, key)
      \/ key /\ FirstSegmentAborts(n, stuck)
      \/ WriteInside(n, stuck, tie)
      \/ ~key /\ DropOverrun(n, stuck, tie)
      \/ \E outcome \in {"ok", "kept", "lost"} :
           \/ Rollover(n, stuck, tie, key, outcome)
           \/ key /\ RolloverAborts(n, stuck, tie, outcome)

Next == AddFrame \/ Tear \/ Restart \/ Tick

Spec == Init /\ [][Next]_vars

-----------------------------------------------------------------------------
(* Properties *)

Listed == index.first..index.last
Window == m_firstsegment..m_lastsegment
OnDisk == {s \in SegmentNo : disk[s].state # "absent"}
Castoffs == {m_castoff[i].segment : i \in DOMAIN m_castoff}

(* Type invariant. *)
TypeOK ==
  /\ running \in BOOLEAN
  /\ m_firstsegment \in SegmentNo
  /\ m_lastsegment \in SegmentNo
  /\ m_prev_segment_time \in Int
  /\ m_lastts \in Int
  /\ m_castoff \in Seq([segment : SegmentNo, expires : Int])
  /\ m_tsfile \in SegmentNo \cup {NoFile}
  /\ disk \in [SegmentNo -> File]
  /\ torn \subseteq SegmentNo
  /\ index \in [first : Nat, last : Int]
  /\ now \in Int
  /\ restarts \in Nat
  /\ fresh \in BOOLEAN
  /\ delisted \in [SegmentNo -> Int]

(* What the index lists can be played from its first segment to its last: as *)
(* long as the last update of the index by this run succeeded, every listed  *)
(* segment is on disk and closed, is no longer than the target duration the  *)
(* index announces, and does not start before the previous one ends; unless  *)
(* its file lacks something, it starts with a key frame and holds strictly   *)
(* increasing time stamps.                                                   *)
ListedPlayable ==
  fresh => \A s \in Listed :
    /\ s \in SegmentNo
    /\ disk[s].state = "complete"
    /\ s \notin torn => disk[s].key /\ disk[s].ordered
    /\ disk[s].to - disk[s].from <= Limit
    /\ s + 1 \in Listed => disk[s].to < disk[s + 1].from

(* When nothing fails, the index of the first run lists exactly the newest   *)
(* Segments closed segments, or all of them while there are fewer: no gap,   *)
(* nothing late, and never the segment that is still being written.          *)
WindowExact ==
  restarts = 0 /\ m_prev_segment_time >= 0 /\ fresh =>
    /\ index.last = m_lastsegment - 1
    /\ index.first = IF m_lastsegment > Segments
                     THEN m_lastsegment - Segments ELSE 0

(* While the first run lives and ::remove works, no file is forgotten: each *)
(* segment file belongs to the window or waits for its deletion.            *)
NoOrphans ==
  restarts = 0 /\ running => OnDisk \subseteq Window \cup Castoffs

(* Storage is bounded, however fast frames come and wherever the clock goes: *)
(* on disk are at most the window with the open segment, and the castoffs of *)
(* three target durations.  Those are four, since segments may be a fraction *)
(* of a time-stamp tick shorter on the wall clock than their duration, and   *)
(* more if time stamps run ahead of the clock.                               *)
MaxCastoffs == 4 + MaxAhead \div Limit

StorageBounded ==
  restarts = 0 => Cardinality(OnDisk) <= (Segments + 1) + MaxCastoffs

(* A segment is only ever deleted three target durations after it left the  *)
(* published index, and never while it is listed.                           *)
Retained ==
  [][\A s \in OnDisk \ OnDisk' :
        s \notin Listed' /\ now - delisted[s] >= 3 * Duration * 1000000]_vars

(* "the corresponding Media Segment MUST remain available to clients for a    *)
(* period of time equal to the duration of the segment plus the duration of   *)
(* the longest Playlist file distributed by the server containing that        *)
(* segment", by the durations that the index announces.                       *)
RetainedAsQuoted ==
  [][\A s \in OnDisk \ OnDisk' :
        now - delisted[s] >= (1 + Segments) * Duration * 1000000]_vars
=============================================================================
