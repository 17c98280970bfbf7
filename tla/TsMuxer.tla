------------------------------- MODULE TsMuxer -------------------------------
(***************************************************************************)
(* The transport stream muxer (src/TsMuxer.cpp) with the list of buffers   *)
(* it writes to (src/TsBucket.h), as TsSegmenter drives it: a header at    *)
(* the start of every segment, video only, the list emptied into the file  *)
(* after every frame.                                                      *)
(*                                                                         *)
(* The list is that of TsBucket; a buffer in it is a sequence of packets.  *)
(* A packet is described by the lengths of its parts and the fields a      *)
(* receiver relies on.  The output is a sequence of segments, each a       *)
(* sequence of packets.                                                    *)
(*                                                                         *)
(* A definition whose name ends in _Bug is a mutated form of the one after *)
(* it: a plausible mistake that the properties have to notice.             *)
(***************************************************************************)
EXTENDS Integers, Sequences, SequencesExt, TsBucket

CONSTANTS
  Sizes,        \* bytes of an access unit
  FirstHeaders, \* header byte of its first NAL unit
  Steps,        \* between the time stamps of two frames, in 1/90000 s
  Delays,       \* of the presentation after the decoding of a frame
  MaxFrames     \* bound on the number of frames, and of segments

TS_PACKET_SIZE == 188
PAT_DELTA == 9000
NOPTS_VALUE == -1
DelimiterSize == 6

ASSUME SizesAssumption == Sizes \subseteq Nat
ASSUME HeadersAssumption == FirstHeaders \subseteq 1..255
ASSUME StepsAssumption == Steps \subseteq Nat \ {0}
ASSUME DelaysAssumption == Delays \subseteq Nat
ASSUME MaxFramesAssumption == MaxFrames \in Nat

VARIABLES
  m_vstream,  \* continuity counter, and whether a packet was ever written
  m_muxer,    \* continuity counters of PAT and PMT, when they are due
  phase,      \* "idle", "packets" (in write_packet) or "drain"
  locals,     \* of write_packet()
  out_buf,    \* the packets it has written
  bucket,
  files,      \* the segments
  units,      \* history: the access units
  dts         \* of the last frame

vars == <<m_vstream, m_muxer, phase, locals, out_buf, bucket, files, units, dts>>

Init ==
  /\ m_vstream = [cc |-> 0, sent |-> FALSE]
  /\ m_muxer = [pat_cc |-> 0, pmt_cc |-> 0, next_pat |-> NOPTS_VALUE]
  /\ phase = "idle"
  /\ locals = [payload |-> 0, payload_size |-> 0, is_start |-> FALSE,
               discontinuity |-> FALSE, dts |-> 0, pts |-> 0, packets |-> 0]
  /\ out_buf = <<>>
  /\ bucket = bucket_init
  /\ files = <<>>
  /\ units = <<>>
  /\ dts = 0

-----------------------------------------------------------------------------
NextCc_Bug(cc) == cc + 1
NextCc(cc) == (cc + 1) % 16

Table(pid, cc) ==
  [pid |-> pid, cc |-> cc, start |-> TRUE, af |-> 2, discontinuity |-> TRUE,
   pes |-> 0, from |-> 0, data |-> TS_PACKET_SIZE - 6, pcr |-> NOPTS_VALUE]

(* mpegts_muxer_write_pat(), and then mpegts_muxer_write_pmt() *)
WithTables ==
  LET pat == <<Table("pat", m_muxer.pat_cc)>>
      pmt == <<Table("pmt", m_muxer.pmt_cc)>>
  IN bucket_insert(bucket_insert(bucket, pat, TS_PACKET_SIZE), pmt, TS_PACKET_SIZE)

Counted == [m_muxer EXCEPT !.pat_cc = NextCc(@), !.pmt_cc = NextCc(@)]

(* The first frame of a segment comes with it. *)
WriteHeader ==
  /\ phase = "idle"
  /\ files # <<>> => files[Len(files)] # <<>>
  /\ Len(units) < MaxFrames
  /\ Len(files) < MaxFrames
  /\ bucket' = WithTables
  /\ m_muxer' = Counted
  /\ files' = Append(files, <<>>)
  /\ UNCHANGED <<m_vstream, phase, locals, out_buf, units, dts>>

-----------------------------------------------------------------------------
(* What precedes the payload in the first packet of a frame: an adaptation *)
(* field with the program clock, and the PES header.                       *)
PcrSize == 8

PesHeaderSize(d, p) == 9 + IF d = p THEN 5 ELSE 10

(* packetized_packets() *)
Packetized_Bug(d, p, size) ==
  1 + (size + PcrSize + PesHeaderSize(d, p)) \div 184

Packetized(d, p, size) ==
  LET once == PcrSize + PesHeaderSize(d, p)
  IN IF size <= 184 - once THEN 1 ELSE 1 + (size - (184 - once) + 183) \div 184

(* "firstNaluType & 0x1f != 9" parses as firstNaluType & (0x1f != 9). *)
AddsDelimiter_Bug(header) == header % 32 = 9
AddsDelimiter(header) == header % 2 = 1

TablesDue_Bug(d) == m_muxer.next_pat = NOPTS_VALUE
TablesDue(d) == m_muxer.next_pat = NOPTS_VALUE \/ d >= m_muxer.next_pat

(* The payload is the delimiter, if one is added, and the access unit.  The *)
(* room for a delimiter is part of it whether there is one or not: at the   *)
(* end, what is not written stays as malloc() left it.                      *)
WriteVideoPacket(header, size, step, delay) ==
  LET d == dts + step
      p == d + delay
  IN /\ phase = "idle"
     /\ files # <<>>
     /\ Len(units) < MaxFrames
     /\ dts' = d
     /\ units' = Append(units,
                   [header |-> header, size |-> size,
                    delimiter |-> IF AddsDelimiter(header) THEN DelimiterSize ELSE 0,
                    garbage |-> IF AddsDelimiter(header) THEN 0 ELSE DelimiterSize])
     /\ IF TablesDue(d)
        THEN /\ bucket' = WithTables
             /\ m_muxer' = [Counted EXCEPT !.next_pat = d + PAT_DELTA]
        ELSE UNCHANGED <<bucket, m_muxer>>
     /\ locals' = [payload |-> 0, payload_size |-> size + DelimiterSize,
                   is_start |-> TRUE, discontinuity |-> ~m_vstream.sent,
                   dts |-> d, pts |-> p, packets |-> Packetized(d, p, size + DelimiterSize)]
     /\ out_buf' = <<>>
     /\ phase' = "packets"
     /\ UNCHANGED <<m_vstream, files>>

(* "not a valid AVC NALU": a frame that does not begin with a start code is *)
(* dropped, and addframe() goes on to empty the list as after any other.    *)
NotAnnexB ==
  /\ phase = "idle"
  /\ files # <<>>
  /\ phase' = "drain"
  /\ UNCHANGED <<m_vstream, m_muxer, locals, out_buf, bucket, files, units, dts>>

(* One iteration of the loop in write_packet(). *)
Header(l) ==
  4 + IF l.is_start THEN PcrSize + PesHeaderSize(l.dts, l.pts) ELSE 0

DataLen_Bug(l) ==
  IF l.payload_size < TS_PACKET_SIZE - 4 THEN l.payload_size
  ELSE TS_PACKET_SIZE - Header(l)

DataLen(l) ==
  IF l.payload_size < TS_PACKET_SIZE - Header(l) THEN l.payload_size
  ELSE TS_PACKET_SIZE - Header(l)

Stuffing(l) == TS_PACKET_SIZE - Header(l) - DataLen(l)

AfterPacket_Bug(l) ==
  [l EXCEPT !.payload = @ + TS_PACKET_SIZE - 4, !.payload_size = @ - DataLen(l),
            !.is_start = FALSE, !.discontinuity = FALSE]

AfterPacket(l) ==
  [l EXCEPT !.payload = @ + DataLen(l), !.payload_size = @ - DataLen(l),
            !.is_start = FALSE, !.discontinuity = FALSE]

WriteTsPacket ==
  /\ phase = "packets"
  /\ locals.payload_size > 0
  /\ out_buf' = Append(out_buf,
       [pid |-> "video", cc |-> m_vstream.cc, start |-> locals.is_start,
        af |-> Stuffing(locals) + IF locals.is_start THEN PcrSize ELSE 0,
        discontinuity |-> locals.discontinuity,
        pes |-> IF locals.is_start THEN PesHeaderSize(locals.dts, locals.pts) ELSE 0,
        from |-> locals.payload, data |-> DataLen(locals),
        pcr |-> IF locals.is_start THEN locals.dts + 1 ELSE NOPTS_VALUE])
  /\ m_vstream' = [cc |-> NextCc(m_vstream.cc), sent |-> TRUE]
  /\ locals' = AfterPacket(locals)
  /\ UNCHANGED <<m_muxer, phase, bucket, files, units, dts>>

InsertPackets ==
  /\ phase = "packets"
  /\ locals.payload_size = 0
  /\ bucket' = bucket_insert(bucket, out_buf, Len(out_buf) * TS_PACKET_SIZE)
  /\ phase' = "drain"
  /\ UNCHANGED <<m_vstream, m_muxer, locals, out_buf, files, units, dts>>

(* addframe() retrieves a buffer and writes it, as long as there is one. *)
Drain ==
  /\ phase = "drain"
  /\ bucket.first # Null
  /\ files' = [files EXCEPT ![Len(files)] = @ \o Retrieved(bucket)]
  /\ bucket' = bucket_retrieve(bucket)
  /\ UNCHANGED <<m_vstream, m_muxer, phase, locals, out_buf, units, dts>>

Drained ==
  /\ phase = "drain"
  /\ bucket.first = Null
  /\ phase' = "idle"
  /\ UNCHANGED <<m_vstream, m_muxer, locals, out_buf, bucket, files, units, dts>>

Next ==
  \/ WriteHeader
  \/ \E header \in FirstHeaders, size \in Sizes, step \in Steps, delay \in Delays :
       WriteVideoPacket(header, size, step, delay)
  \/ NotAnnexB
  \/ WriteTsPacket
  \/ InsertPackets
  \/ Drain \/ Drained

Spec == Init /\ [][Next]_vars

-----------------------------------------------------------------------------
(* Type invariant. *)
TypeOK ==
  /\ m_vstream \in [cc : 0..15, sent : BOOLEAN]
  /\ m_muxer \in [pat_cc : 0..15, pmt_cc : 0..15, next_pat : Nat \cup {NOPTS_VALUE}]
  /\ phase \in {"idle", "packets", "drain"}
  /\ locals \in [payload : Nat, payload_size : Nat, is_start : BOOLEAN,
                 discontinuity : BOOLEAN, dts : Nat, pts : Nat, packets : Nat]
  /\ dts \in Nat

(* "reserve the exact number of packets we need for this payload": the loop *)
(* never writes beyond the buffer it allocated, and fills it.               *)
BufferExact ==
  /\ phase = "packets" => Len(out_buf) <= locals.packets
  /\ phase = "packets" /\ locals.payload_size > 0 => Len(out_buf) < locals.packets
  /\ phase = "packets" /\ locals.payload_size = 0 => Len(out_buf) = locals.packets

(* Every packet has 188 bytes, and the payload, which is copied to its end, *)
(* leaves the clock and the PES header before it whole: what stuffing is    *)
(* needed goes into the adaptation field, which never shrinks.              *)
PacketsFull ==
  \A i \in DOMAIN out_buf :
    LET p == out_buf[i]
    IN /\ 4 + p.af + p.pes + p.data = TS_PACKET_SIZE
       /\ p.af >= IF p.start THEN PcrSize ELSE 0
       /\ p.data > 0

(* Whenever something can be inserted, chain points into no node that was   *)
(* freed, but to the end of the list, which is empty between two frames; at *)
(* all times the nodes are those of the list, and content_length their sum. *)
BucketSound ==
  /\ phase # "drain" => Insertable(bucket)
  /\ (phase = "idle" /\ files # <<>> /\ files[Len(files)] # <<>>)
       => bucket.first = Null
  /\ {Listed(bucket)[k] : k \in DOMAIN Listed(bucket)} = DOMAIN bucket.nodes
  /\ bucket.content_length = Lengths(bucket)[Cardinality(DOMAIN bucket.nodes)]

(* The segments, one after the other. *)
Output == FlattenSeq(files)

(* A receiver sees no gap: the continuity counter of each PID goes up by one *)
(* from packet to packet, over the segments, whichever packets are between.  *)
Continuous(s) ==
  \A i \in DOMAIN s : \A j \in (i + 1)..Len(s) :
    (s[j].pid = s[i].pid /\ \A k \in (i + 1)..(j - 1) : s[k].pid # s[i].pid)
      => s[j].cc = (s[i].cc + 1) % 16

Continuity == Continuous(Output)

(* What a receiver makes of one more video packet: how many bytes of each    *)
(* payload it has from the start on, unless it gets others than the next.    *)
Torn == -1

Assembled(lengths, p) ==
  IF p.pid # "video" THEN lengths
  ELSE IF p.start THEN Append(lengths, IF p.from = 0 THEN p.data ELSE Torn)
  ELSE [lengths EXCEPT ![Len(lengths)] = IF p.from = @ THEN @ + p.data ELSE Torn]

Received(s) ==
  LET after[n \in 0..Len(s)] ==
        IF n = 0 THEN <<>> ELSE Assembled(after[n - 1], s[n])
  IN after[Len(s)]

(* Every frame arrives as one PES packet, the frames in order, with each byte *)
(* of the payload once and in its place.  The payload of a unit that begins   *)
(* with an odd header, but not with a delimiter, is one delimiter and the     *)
(* unit, and nothing else.                                                    *)
GivenSize(unit) == unit.delimiter + unit.size + unit.garbage

OddAndBare(header) == header % 2 = 1 /\ header % 32 # 9

FramesArrive ==
  /\ phase = "idle" => Received(Output) = [n \in DOMAIN units |-> GivenSize(units[n])]
  /\ \A n \in DOMAIN units :
       OddAndBare(units[n].header) =>
         units[n].delimiter = DelimiterSize /\ units[n].garbage = 0

(* A receiver that joins at a segment, or at any time, finds the tables: they *)
(* are the first packets of a segment, and no two frames of a segment that    *)
(* are 100 ms or more apart have none between them.                           *)
TablesFresh ==
  \A f \in DOMAIN files :
    LET seg == files[f]
    IN /\ seg # <<>> => seg[1].pid = "pat"
       /\ Len(seg) > 1 => seg[2].pid = "pmt"
       /\ \A i, j \in DOMAIN seg :
            (/\ i < j
             /\ seg[i].pid = "video" /\ seg[i].start
             /\ seg[j].pid = "video" /\ seg[j].start
             /\ seg[j].pcr - seg[i].pcr >= PAT_DELTA)
              => \E k \in i..j : seg[k].pid = "pat" /\ seg[k + 1].pid = "pmt"
=============================================================================
