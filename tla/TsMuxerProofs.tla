---------------------------- MODULE TsMuxerProofs ----------------------------
(***************************************************************************)
(* Proofs about TsMuxer, for access units of every size and all time       *)
(* stamps: write_packet() fills the buffer packetized_packets() reserved,  *)
(* no more and no less, with whole packets; the pointers of the list it    *)
(* writes to are sound; every segment begins with the tables, and two of   *)
(* its frames that are 100 ms or more apart have them between.  A receiver *)
(* of all segments sees no gap in the counters of a PID, and gets every    *)
(* frame whole and in order.                                               *)
(***************************************************************************)
EXTENDS TsMuxer, CommonLemmas, FiniteSetTheorems, SequenceTheorems, TLAPS

(* How many packets the rest of a frame takes: what packetized_packets()  *)
(* counts, carried through the loop.                                      *)
StillToWrite(l) ==
  IF l.payload_size = 0 THEN 0
  ELSE IF l.is_start THEN Packetized(l.dts, l.pts, l.payload_size)
  ELSE (l.payload_size + 183) \div 184

(* A packet of 188 bytes with some payload, whose adaptation field has room *)
(* for the clock where it carries one.                                      *)
FullPacket ==
  {p \in [pid : {"video"}, cc : 0..15, start : BOOLEAN, af : Int,
          discontinuity : BOOLEAN, pes : Int, from : Int, data : Int, pcr : Int] :
     /\ 4 + p.af + p.pes + p.data = TS_PACKET_SIZE
     /\ p.af >= IF p.start THEN PcrSize ELSE 0
     /\ p.data > 0}

LoopInv ==
  /\ out_buf \in Seq(FullPacket)
  /\ phase = "packets" => Len(out_buf) + StillToWrite(locals) = locals.packets

IInv == TypeOK /\ LoopInv

(* The records TypeOK allows. *)
Muxers == [pat_cc : 0..15, pmt_cc : 0..15, next_pat : Nat \cup {NOPTS_VALUE}]

Locals == [payload : Nat, payload_size : Nat, is_start : BOOLEAN, discontinuity : BOOLEAN,
           dts : Nat, pts : Nat, packets : Nat]

(* An iteration of the loop takes one packet off what is left, however much  *)
(* that is, and writes some of it.                                           *)
LEMMA OnePacketLess ==
  ASSUME NEW l \in Locals, l.payload_size > 0
  PROVE  /\ DataLen(l) \in 1..l.payload_size
         /\ Stuffing(l) \in Nat
         /\ AfterPacket(l) \in Locals
         /\ StillToWrite(l) \in Nat
         /\ StillToWrite(AfterPacket(l)) = StillToWrite(l) - 1
<1> DEFINE n == l.payload_size
           pes == PesHeaderSize(l.dts, l.pts)
           room == TS_PACKET_SIZE - Header(l)
           rest == n - DataLen(l)
<1>1. n \in Nat /\ n > 0
  BY DEF Locals
<1>2. pes \in {14, 19}
  BY DEF PesHeaderSize
<1>3. room = IF l.is_start THEN 176 - pes ELSE 184
  BY <1>2 DEF Header, TS_PACKET_SIZE, PcrSize
<1>4. DataLen(l) = IF n < room THEN n ELSE room
  BY DEF DataLen
<1>5. DataLen(l) \in 1..n
  BY <1>1, <1>2, <1>3, <1>4 DEF Locals
<1>6. Stuffing(l) \in Nat
  BY <1>1, <1>2, <1>3, <1>4 DEF Stuffing, Locals, Header, TS_PACKET_SIZE
<1>7. /\ AfterPacket(l) \in Locals
      /\ AfterPacket(l).payload_size = rest
      /\ AfterPacket(l).is_start = FALSE
  <2>1. DataLen(l) \in Nat /\ l.payload_size - DataLen(l) \in Nat
        /\ l.payload + DataLen(l) \in Nat
    BY <1>1, <1>5 DEF Locals
  <2> QED
    BY <2>1 DEF AfterPacket, Locals
<1>8. StillToWrite(AfterPacket(l)) = IF rest = 0 THEN 0 ELSE (rest + 183) \div 184
  BY <1>7 DEF StillToWrite
<1>9. CASE l.is_start
  <2>1. StillToWrite(l) =
          IF n <= 176 - pes THEN 1 ELSE 1 + (n - (176 - pes) + 183) \div 184
    BY <1>1, <1>2, <1>9 DEF StillToWrite, Packetized, PcrSize
  <2> QED
    BY <1>1, <1>2, <1>3, <1>4, <1>5, <1>6, <1>7, <1>8, <1>9, <2>1
<1>10. CASE ~l.is_start
  <2>1. StillToWrite(l) = (n + 183) \div 184
    BY <1>1, <1>10 DEF StillToWrite
  <2>2. CASE n < 184
    <3>1. (n + 183) \div 184 = 1
      BY <1>1, <2>2
    <3>2. rest = 0
      BY <1>1, <1>3, <1>4, <1>10, <2>2
    <3> QED
      BY <1>5, <1>6, <1>7, <1>8, <2>1, <3>1, <3>2
  <2>3. CASE n >= 184
    <3>1. rest = n - 184 /\ rest \in Nat
      BY <1>1, <1>3, <1>4, <1>10, <2>3
    <3>2. (n + 183) \div 184 = 1 + (rest + 183) \div 184
      BY <1>1, <3>1
    <3>3. rest = 0 => (rest + 183) \div 184 = 0
      OBVIOUS
    <3> QED
      BY <1>1, <1>5, <1>6, <1>7, <1>8, <2>1, <3>1, <3>2, <3>3
  <2> QED
    BY <1>1, <2>2, <2>3
<1> QED
  BY <1>9, <1>10 DEF Locals

(* packetized_packets() counts packets. *)
LEMMA PacketizedType ==
  ASSUME NEW d, NEW p, NEW n \in Nat
  PROVE  Packetized(d, p, n) \in Nat
<1> DEFINE once == PcrSize + PesHeaderSize(d, p)
           rest == n - (184 - once) + 183
<1>1. once \in 22..27
  BY DEF PcrSize, PesHeaderSize
<1>2. Packetized(d, p, n) = IF n <= 184 - once THEN 1 ELSE 1 + rest \div 184
  BY DEF Packetized
<1>3. rest \in Nat
  BY <1>1
<1> HIDE DEF rest, once
<1>4. rest \div 184 \in Nat
  BY <1>3
<1> QED
  BY <1>2, <1>4

(* It holds at first. *)
LEMMA InitIInv == Init => IInv
  BY DEF Init, IInv, TypeOK, LoopInv, NOPTS_VALUE

(* Every step keeps the invariant. *)
LEMMA NextIInv == IInv /\ [Next]_vars => IInv'
<1> SUFFICES ASSUME IInv, [Next]_vars
             PROVE  IInv'
  OBVIOUS
<1> USE DEF IInv, TypeOK, LoopInv
<1>1. Counted \in Muxers /\ NextCc(m_vstream.cc) \in 0..15
  <2>1. \A cc \in 0..15 : NextCc(cc) \in 0..15
    BY DEF NextCc
  <2>2. m_muxer \in Muxers
    BY DEF Muxers
  <2>3. Counted \in Muxers
    BY <2>1, <2>2 DEF Counted, Muxers
  <2> QED
    BY <2>1, <2>3
<1>2. CASE WriteHeader
  BY <1>1, <1>2 DEF WriteHeader, Muxers
<1>3. ASSUME NEW header \in FirstHeaders, NEW size \in Sizes, NEW step \in Steps,
             NEW delay \in Delays, WriteVideoPacket(header, size, step, delay)
      PROVE  IInv'
  <2> DEFINE d == dts + step
             p == d + delay
             n == size + DelimiterSize
  <2>1. d \in Nat /\ p \in Nat /\ n \in Nat /\ n > 0
    BY SizesAssumption, StepsAssumption, DelaysAssumption DEF DelimiterSize
  <2>2. Packetized(d, p, n) \in Nat
    BY <2>1, PacketizedType
  <2>3. locals' = [payload |-> 0, payload_size |-> n, is_start |-> TRUE,
                   discontinuity |-> ~m_vstream.sent, dts |-> d, pts |-> p,
                   packets |-> Packetized(d, p, n)]
    BY <1>3 DEF WriteVideoPacket
  <2>4. m_muxer' \in Muxers
    <3>1. [Counted EXCEPT !.next_pat = d + PAT_DELTA] \in Muxers
      <4>1. d + PAT_DELTA \in Nat
        BY <2>1 DEF PAT_DELTA
      <4>2. \A c \in Muxers, t \in Nat : [c EXCEPT !.next_pat = t] \in Muxers
        BY DEF Muxers
      <4> QED
        BY <1>1, <4>1, <4>2
    <3>2. m_muxer \in Muxers
      BY DEF Muxers
    <3> QED
      BY <1>3, <3>1, <3>2 DEF WriteVideoPacket
  <2>5. TypeOK'
    BY <1>3, <2>1, <2>2, <2>3, <2>4 DEF WriteVideoPacket, Muxers
  <2>6. StillToWrite(locals') = locals'.packets
    BY <2>1, <2>3 DEF StillToWrite
  <2>7. out_buf' = <<>>
    BY <1>3 DEF WriteVideoPacket
  <2> QED
    BY <2>2, <2>3, <2>5, <2>6, <2>7
<1>4. CASE NotAnnexB
  BY <1>4 DEF NotAnnexB
<1>5. CASE WriteTsPacket
  <2> DEFINE new == out_buf'[Len(out_buf')]
  <2>1. /\ DataLen(locals) \in 1..locals.payload_size
        /\ Stuffing(locals) \in Nat
        /\ AfterPacket(locals) \in Locals
        /\ StillToWrite(locals) \in Nat
        /\ StillToWrite(AfterPacket(locals)) = StillToWrite(locals) - 1
    BY <1>5, OnePacketLess DEF WriteTsPacket, Locals
  <2>2. PesHeaderSize(locals.dts, locals.pts) \in {14, 19}
    BY DEF PesHeaderSize
  <2>3. PICK q \in FullPacket : out_buf' = Append(out_buf, q)
    <3> DEFINE q == [pid |-> "video", cc |-> m_vstream.cc, start |-> locals.is_start,
                     af |-> Stuffing(locals) + IF locals.is_start THEN PcrSize ELSE 0,
                     discontinuity |-> locals.discontinuity,
                     pes |-> IF locals.is_start
                             THEN PesHeaderSize(locals.dts, locals.pts) ELSE 0,
                     from |-> locals.payload, data |-> DataLen(locals),
                     pcr |-> IF locals.is_start THEN locals.dts + 1 ELSE NOPTS_VALUE]
    <3>1. q \in FullPacket
      <4>1. /\ q.pid = "video" /\ q.cc \in 0..15
            /\ q.start \in BOOLEAN /\ q.discontinuity \in BOOLEAN
            /\ q.pcr \in Int /\ q.from \in Int
        BY DEF NOPTS_VALUE
      <4>2. q.data \in Int /\ q.data > 0 /\ q.pes \in Int /\ q.af \in Int
        BY <2>1, <2>2 DEF PcrSize
      <4>3. CASE locals.is_start
        <5>1. Stuffing(locals) = 176 - q.pes - q.data
          BY <2>1, <2>2, <4>3 DEF Stuffing, Header, PcrSize, TS_PACKET_SIZE
        <5>2. q.af = Stuffing(locals) + 8
          BY <4>3 DEF PcrSize
        <5>3. q.start = TRUE
          BY <4>3
        <5>0. Stuffing(locals) \in Nat
          BY <2>1
        <5> HIDE DEF q
        <5>4. 4 + q.af + q.pes + q.data = 188 /\ q.af >= 8
          BY ONLY <4>2, <5>0, <5>1, <5>2
        <5>5. 4 + q.af + q.pes + q.data = TS_PACKET_SIZE /\ q.af >= PcrSize
          BY <5>4 DEF TS_PACKET_SIZE, PcrSize
        <5> QED
          BY <4>1, <4>2, <5>3, <5>5 DEF FullPacket, q
      <4>4. CASE ~locals.is_start
        BY <2>1, <4>1, <4>2, <4>4
           DEF FullPacket, Stuffing, Header, PcrSize, TS_PACKET_SIZE
      <4> QED
        BY <4>3, <4>4
    <3> QED
      BY <1>5, <3>1 DEF WriteTsPacket
  <2>4. out_buf' \in Seq(FullPacket) /\ Len(out_buf') = Len(out_buf) + 1
    BY <2>3
  <2>5. locals' = AfterPacket(locals) /\ locals'.packets = locals.packets
    BY <1>5 DEF WriteTsPacket, AfterPacket
  <2>6. TypeOK'
    BY <1>1, <1>5, <2>1, <2>5 DEF WriteTsPacket, Locals
  <2>7. Len(out_buf') + StillToWrite(locals') = locals'.packets
    BY <1>5, <2>1, <2>4, <2>5 DEF WriteTsPacket
  <2> QED
    BY <2>4, <2>6, <2>7
<1>6. CASE InsertPackets
  BY <1>6 DEF InsertPackets
<1>7. CASE Drain
  BY <1>7 DEF Drain
<1>8. CASE Drained
  BY <1>8 DEF Drained
<1>9. CASE UNCHANGED vars
  BY <1>9 DEF vars
<1> QED
  BY <1>2, <1>3, <1>4, <1>5, <1>6, <1>7, <1>8, <1>9 DEF Next

(* The inductive invariant holds in every reachable state. *)
THEOREM IInvInvariant == Spec => []IInv
  BY InitIInv, NextIInv, PTL DEF Spec

(* Type correctness. *)
THEOREM TypeCorrect == Spec => []TypeOK
<1>1. IInv => TypeOK
  BY DEF IInv
<1> QED
  BY <1>1, IInvInvariant, PTL

(* write_packet() never writes beyond the buffer it reserved, and leaves no *)
(* packet of it unwritten, whatever the size of the frame.                  *)
THEOREM BufferExactInvariant == Spec => []BufferExact
<1>1. IInv => BufferExact
  <2> SUFFICES ASSUME IInv, phase = "packets"
               PROVE  /\ Len(out_buf) <= locals.packets
                      /\ locals.payload_size > 0 => Len(out_buf) < locals.packets
                      /\ locals.payload_size = 0 => Len(out_buf) = locals.packets
    BY DEF BufferExact
  <2>1. /\ Len(out_buf) \in Nat /\ locals \in Locals
        /\ Len(out_buf) + StillToWrite(locals) = locals.packets
    BY DEF IInv, TypeOK, LoopInv, Locals
  <2>2. CASE locals.payload_size = 0
    BY <2>1, <2>2 DEF StillToWrite
  <2>3. CASE locals.payload_size > 0
    <3>1. StillToWrite(locals) \in Nat /\ StillToWrite(locals) > 0
      <4>1. /\ StillToWrite(locals) \in Nat
            /\ StillToWrite(AfterPacket(locals)) = StillToWrite(locals) - 1
            /\ AfterPacket(locals) \in Locals
        BY <2>1, <2>3, OnePacketLess
      <4>2. StillToWrite(AfterPacket(locals)) >= 0
        BY <4>1, OnePacketLess DEF StillToWrite, Locals
      <4> QED
        BY <4>1, <4>2
    <3> QED
      BY <2>1, <2>3, <3>1 DEF Locals
  <2> QED
    BY <2>1, <2>2, <2>3 DEF Locals
<1> QED
  BY <1>1, IInvInvariant, PTL

(* Every packet of a frame has 188 bytes and leaves its clock and PES header *)
(* whole.                                                                    *)
THEOREM PacketsFullInvariant == Spec => []PacketsFull
<1>1. IInv => PacketsFull
  BY DEF IInv, LoopInv, PacketsFull, FullPacket
<1> QED
  BY <1>1, IInvInvariant, PTL

-----------------------------------------------------------------------------
(* The list of buffers.  Between two calls of the muxer its nodes have the   *)
(* addresses 1..k, since malloc() hands out the lowest one; while it is      *)
(* emptied, j..k are left.                                                   *)

Packet == [pid : {"pat", "pmt", "video"}, cc : Int, start : BOOLEAN, af : Int,
           discontinuity : BOOLEAN, pes : Int, from : Int, data : Int, pcr : Int]

Node == [buf : Seq(Packet), size : Nat, next : Nat]

(* Nodes are linked in the order of their addresses, and chain points to the *)
(* pointer to the last one.                                                  *)
Linked(b, j, k) ==
  /\ DOMAIN b.nodes = j..k
  /\ \A n \in j..k : /\ b.nodes[n] \in Node
                      /\ b.nodes[n].next = IF n = k THEN Null ELSE n + 1
  /\ b.first = IF j > k THEN Null ELSE j
  /\ b.chain = IF j > k THEN FirstCell ELSE k - 1

(* The list is never longer than the tables of the segment, those of the *)
(* frame, and the frame.                                                 *)
MaxNodes == 5

SizeOf(b, n) == IF n \in DOMAIN b.nodes THEN b.nodes[n].size ELSE 0
Total(b) == SizeOf(b, 1) + SizeOf(b, 2) + SizeOf(b, 3) + SizeOf(b, 4) + SizeOf(b, 5)

Holds(b, j, k) == Linked(b, j, k) /\ b.content_length = Total(b)

Buffer(b, n) == IF n \in DOMAIN b.nodes THEN b.nodes[n].buf ELSE <<>>

(* malloc() extends the addresses by the next one. *)
LEMMA NextAddress ==
  ASSUME NEW b, NEW k \in 0..MaxNodes, DOMAIN b.nodes = 1..k
  PROVE  Malloc(b) = k + 1
<1>1. Cardinality(1..k) = k
  <2>1. 1 \in Int /\ k \in Int /\ k >= 0
    BY DEF MaxNodes
  <2>2. Cardinality(1..k) = IF 1 > k THEN 0 ELSE k - 1 + 1
    BY <2>1, FS_Interval
  <2> QED
    BY <2>1, <2>2
<1>2. \A n \in 1..(k + 1) : n \notin 1..k => n = k + 1
  BY DEF MaxNodes
<1>3. k + 1 \in 1..(k + 1) /\ k + 1 \notin 1..k /\ 1..(k + 1 - 1) \subseteq 1..k
  BY DEF MaxNodes
<1> QED
  BY <1>1, <1>2, <1>3 DEF Malloc

(* The sum with one of its terms changed. *)
LEMMA TotalGrows ==
  ASSUME NEW b, NEW c, NEW m \in 1..MaxNodes, NEW size \in Nat,
         \A n \in Nat : SizeOf(b, n) \in Nat,
         SizeOf(b, m) = 0,
         \A n \in Nat : SizeOf(c, n) = IF n = m THEN size ELSE SizeOf(b, n)
  PROVE  Total(c) = Total(b) + size
<1>1. /\ SizeOf(b, 1) \in Nat /\ SizeOf(b, 2) \in Nat /\ SizeOf(b, 3) \in Nat
      /\ SizeOf(b, 4) \in Nat /\ SizeOf(b, 5) \in Nat
  OBVIOUS
<1>2. /\ SizeOf(c, 1) = IF m = 1 THEN size ELSE SizeOf(b, 1)
      /\ SizeOf(c, 2) = IF m = 2 THEN size ELSE SizeOf(b, 2)
      /\ SizeOf(c, 3) = IF m = 3 THEN size ELSE SizeOf(b, 3)
      /\ SizeOf(c, 4) = IF m = 4 THEN size ELSE SizeOf(b, 4)
      /\ SizeOf(c, 5) = IF m = 5 THEN size ELSE SizeOf(b, 5)
  OBVIOUS
<1>3. m = 1 \/ m = 2 \/ m = 3 \/ m = 4 \/ m = 5
  BY DEF MaxNodes
<1> QED
  BY <1>1, <1>2, <1>3 DEF Total

(* Only the pointer of a node changes. *)
LEMMA Relinked ==
  ASSUME NEW node \in Node, NEW next \in Nat
  PROVE  LET linked == [node EXCEPT !.next = next]
         IN  /\ linked \in Node
             /\ linked.buf = node.buf
             /\ linked.size = node.size
             /\ linked.next = next
BY DEF Node

(* bucket_insert() puts a node behind all others. *)
LEMMA InsertHolds ==
  ASSUME NEW b, NEW k \in 0..(MaxNodes - 1), Holds(b, 1, k),
         NEW buf \in Seq(Packet), NEW size \in Nat
  PROVE  LET new == bucket_insert(b, buf, size)
         IN  /\ Holds(new, 1, k + 1)
             /\ \A n \in Nat : Buffer(new, n) = IF n = k + 1 THEN buf ELSE Buffer(b, n)
<1> DEFINE cell == IF b.first = Null THEN b.chain ELSE Cell(b, b.chain)
           linked == IF cell = FirstCell THEN b.nodes
                     ELSE [b.nodes EXCEPT ![cell].next = k + 1]
           node == [buf |-> buf, size |-> size, next |-> Null]
           new == bucket_insert(b, buf, size)
<1> USE DEF Holds, Linked, Node, MaxNodes, Null, FirstCell
<1>1. Malloc(b) = k + 1
  <2>1. k \in 0..MaxNodes /\ DOMAIN b.nodes = 1..k
    OBVIOUS
  <2> QED
    BY ONLY <2>1, NextAddress
<1>2. cell = k
  <2>1. CASE k = 0
    BY <2>1
  <2>2. CASE k = 1
    BY <2>2 DEF Cell
  <2>3. CASE k > 1
    <3>1. b.first = 1 /\ b.chain = k - 1 /\ k - 1 \in 1..k /\ k - 1 # k
      BY <2>3
    <3>2. b.nodes[k - 1].next = k
      BY <3>1
    <3> QED
      BY <2>3, <3>1, <3>2 DEF Cell
  <2> QED
    BY <2>1, <2>2, <2>3
<1>3. /\ new.nodes = [m \in 1..k \cup {k + 1} |-> IF m = k + 1 THEN node ELSE linked[m]]
      /\ new.first = IF cell = FirstCell THEN k + 1 ELSE b.first
      /\ new.chain = cell
      /\ new.content_length = b.content_length + size
  BY <1>1 DEF bucket_insert
<1> HIDE DEF cell, new
<1>4. /\ DOMAIN linked = 1..k
      /\ \A n \in 1..k : /\ linked[n] \in Node
                          /\ linked[n].buf = b.nodes[n].buf
                          /\ linked[n].size = b.nodes[n].size
                          /\ linked[n].next = n + 1
  <2>1. CASE k = 0
    BY <1>2, <2>1
  <2>2. CASE k > 0
    <3>1. linked = [b.nodes EXCEPT ![k].next = k + 1]
      <4>1. cell # FirstCell
        BY <1>2, <2>2
      <4> HIDE DEF Holds, Linked, Node, MaxNodes, FirstCell
      <4> QED
        BY ONLY <1>2, <4>1 DEF linked
    <3>2. k \in DOMAIN b.nodes /\ DOMAIN b.nodes = 1..k
      BY <2>2
    <3>3. /\ DOMAIN linked = 1..k
          /\ linked[k] = [b.nodes[k] EXCEPT !.next = k + 1]
          /\ \A n \in 1..k : n # k => linked[n] = b.nodes[n]
      <4> HIDE DEF linked, Holds, Linked, Node, MaxNodes
      <4> QED
        BY ONLY <3>1, <3>2
    <3>4. b.nodes[k] \in Node /\ k + 1 \in Nat
      BY <2>2
    <3> HIDE DEF linked, Node
    <3>5. /\ linked[k] \in Node
          /\ linked[k].buf = b.nodes[k].buf
          /\ linked[k].size = b.nodes[k].size
          /\ linked[k].next = k + 1
      BY ONLY <3>3, <3>4, Relinked
    <3>6. ASSUME NEW n \in 1..k, n # k
          PROVE  linked[n] = b.nodes[n] /\ b.nodes[n] \in Node /\ b.nodes[n].next = n + 1
      BY <3>3, <3>6
    <3>7. ASSUME NEW n \in 1..k
          PROVE  /\ linked[n] \in Node
                 /\ linked[n].buf = b.nodes[n].buf
                 /\ linked[n].size = b.nodes[n].size
                 /\ linked[n].next = n + 1
      <4>1. CASE n = k
        BY ONLY <3>5, <4>1
      <4>2. CASE n # k
        BY ONLY <3>6, <4>2, n \in 1..k
      <4> QED
        BY <4>1, <4>2
    <3> QED
      BY ONLY <3>3, <3>7
  <2> QED
    BY <2>1, <2>2
<1> HIDE DEF linked
<1>5. /\ DOMAIN new.nodes = 1..(k + 1)
      /\ new.nodes[k + 1] = node
      /\ \A n \in 1..k : new.nodes[n] = linked[n]
  <2>1. 1..k \cup {k + 1} = 1..(k + 1)
    OBVIOUS
  <2>2. \A n \in 1..k : n # k + 1 /\ n \in 1..(k + 1)
    OBVIOUS
  <2>3. k + 1 \in 1..(k + 1)
    OBVIOUS
  <2> HIDE DEF node
  <2> QED
    BY <1>3, <2>1, <2>2, <2>3
<1>6. Linked(new, 1, k + 1)
  <2>1. new.first = 1 /\ new.chain = k
    BY <1>2, <1>3
  <2>2. ASSUME NEW n \in 1..(k + 1)
        PROVE  /\ new.nodes[n] \in Node
               /\ new.nodes[n].next = IF n = k + 1 THEN Null ELSE n + 1
    <3>1. CASE n = k + 1
      BY <1>5, <3>1
    <3>2. CASE n \in 1..k
      <4>1. new.nodes[n] \in Node /\ new.nodes[n].next = n + 1
        BY <1>4, <1>5, <3>2
      <4> QED
        BY <3>2, <4>1
    <3> QED
      BY <3>1, <3>2
  <2> QED
    BY <1>5, <2>1, <2>2
<1>7. \A n \in Nat : SizeOf(new, n) = IF n = k + 1 THEN size ELSE SizeOf(b, n)
  <2> SUFFICES ASSUME NEW n \in Nat
               PROVE  SizeOf(new, n) = IF n = k + 1 THEN size ELSE SizeOf(b, n)
    OBVIOUS
  <2>1. CASE n = k + 1
    BY <1>5, <2>1 DEF SizeOf
  <2>2. CASE n \in 1..k
    <3>1. n # k + 1 /\ n \in 1..(k + 1)
      BY <2>2
    <3>2. new.nodes[n].size = b.nodes[n].size
      BY <1>4, <1>5, <2>2
    <3>3. DOMAIN new.nodes = 1..(k + 1) /\ DOMAIN b.nodes = 1..k
      BY <1>5
    <3> QED
      BY ONLY <2>2, <3>1, <3>2, <3>3 DEF SizeOf
  <2>3. CASE n \notin 1..(k + 1)
    BY <1>5, <2>3 DEF SizeOf
  <2> QED
    BY <2>1, <2>2, <2>3
<1>8. SizeOf(b, k + 1) = 0 /\ \A n \in Nat : SizeOf(b, n) \in Nat
  BY DEF SizeOf
<1>9. Total(new) = Total(b) + size
  <2> DEFINE m == k + 1
  <2>1. m \in 1..MaxNodes
    OBVIOUS
  <2>2. \A n \in Nat : SizeOf(new, n) = IF n = m THEN size ELSE SizeOf(b, n)
    BY ONLY <1>7
  <2>3. SizeOf(b, m) = 0 /\ \A n \in Nat : SizeOf(b, n) \in Nat
    BY ONLY <1>8
  <2> HIDE DEF m, new, Holds, Linked, Node, MaxNodes
  <2> QED
    BY ONLY <2>1, <2>2, <2>3, size \in Nat, TotalGrows, ZenonT(60)
<1>10. new.content_length = Total(new)
  BY <1>3, <1>9
<1>11. \A n \in Nat : Buffer(new, n) = IF n = k + 1 THEN buf ELSE Buffer(b, n)
  <2> SUFFICES ASSUME NEW n \in Nat
               PROVE  Buffer(new, n) = IF n = k + 1 THEN buf ELSE Buffer(b, n)
    OBVIOUS
  <2>1. CASE n = k + 1
    BY <1>5, <2>1 DEF Buffer
  <2>2. CASE n \in 1..k
    <3>1. n # k + 1 /\ n \in 1..(k + 1)
      BY <2>2
    <3>2. new.nodes[n].buf = b.nodes[n].buf
      BY <1>4, <1>5, <2>2
    <3>3. DOMAIN new.nodes = 1..(k + 1) /\ DOMAIN b.nodes = 1..k
      BY <1>5
    <3> QED
      BY ONLY <2>2, <3>1, <3>2, <3>3 DEF Buffer
  <2>3. CASE n \notin 1..(k + 1)
    BY <1>5, <2>3 DEF Buffer
  <2> QED
    BY <2>1, <2>2, <2>3
<1> QED
  BY <1>6, <1>10, <1>11 DEF new

(* bucket_retrieve() takes the first node away. *)
LEMMA RetrieveHolds ==
  ASSUME NEW b, NEW j \in 1..MaxNodes, NEW k \in j..MaxNodes, Holds(b, j, k)
  PROVE  LET new == bucket_retrieve(b)
         IN  /\ Retrieved(b) \in Seq(Packet)
             /\ Retrieved(b) = Buffer(b, j)
             /\ Holds(new, j + 1, k)
             /\ \A n \in Nat : Buffer(new, n) = IF n = j THEN <<>> ELSE Buffer(b, n)
<1> DEFINE new == bucket_retrieve(b)
<1> USE DEF Holds, Linked, Node, MaxNodes, Null, FirstCell
<1>1. b.first = j /\ j \in j..k
  OBVIOUS
<1>2. (j..k) \ {j} = (j + 1)..k
  OBVIOUS
<1>3. /\ DOMAIN new.nodes = (j + 1)..k
      /\ \A n \in (j + 1)..k : new.nodes[n] = b.nodes[n]
      /\ new.first = b.nodes[j].next
      /\ new.chain = IF b.nodes[j].next = Null THEN FirstCell ELSE b.chain
      /\ new.content_length = b.content_length - b.nodes[j].size
  BY <1>1, <1>2 DEF bucket_retrieve
<1> HIDE DEF new
<1>4. Linked(new, j + 1, k)
  <2>1. \A n \in (j + 1)..k : n \in j..k
    OBVIOUS
  <2>2. \A n \in (j + 1)..k :
          /\ new.nodes[n] \in Node
          /\ new.nodes[n].next = IF n = k THEN Null ELSE n + 1
    BY <1>3, <2>1
  <2>3. b.nodes[j].next = IF j = k THEN 0 ELSE j + 1
    BY <1>1
  <2>4. new.first = IF j + 1 > k THEN Null ELSE j + 1
    BY <1>3, <2>3
  <2>5. new.chain = IF j + 1 > k THEN FirstCell ELSE k - 1
    BY <1>3, <2>3
  <2> QED
    BY <1>3, <2>2, <2>4, <2>5
<1>5. b.nodes[j].size \in Nat /\ SizeOf(new, j) = 0
  BY <1>1, <1>3 DEF SizeOf
<1>6. \A n \in Nat : SizeOf(new, n) \in Nat
  BY <1>4 DEF SizeOf
<1>7. \A n \in Nat : SizeOf(b, n) = IF n = j THEN b.nodes[j].size ELSE SizeOf(new, n)
  BY <1>1, <1>3 DEF SizeOf
<1>8. Total(b) = Total(new) + b.nodes[j].size
  <2> DEFINE size == b.nodes[j].size
  <2>1. /\ size \in Nat /\ SizeOf(new, j) = 0
        /\ \A n \in Nat : SizeOf(new, n) \in Nat
        /\ \A n \in Nat : SizeOf(b, n) = IF n = j THEN size ELSE SizeOf(new, n)
    BY ONLY <1>5, <1>6, <1>7
  <2> HIDE DEF size, Holds, Linked, Node, MaxNodes
  <2>2. Total(b) = Total(new) + size
    BY ONLY <2>1, j \in 1..MaxNodes, TotalGrows
  <2> QED
    BY ONLY <2>2 DEF size
<1>9. Total(new) \in Nat
  BY ONLY <1>6 DEF Total
<1>10. new.content_length = Total(new)
  BY <1>3, <1>5, <1>8, <1>9
<1>11. Retrieved(b) = Buffer(b, j) /\ Retrieved(b) \in Seq(Packet)
  BY <1>1 DEF Retrieved, Buffer
<1>12. \A n \in Nat : Buffer(new, n) = IF n = j THEN <<>> ELSE Buffer(b, n)
  BY <1>1, <1>3 DEF Buffer
<1> QED
  BY <1>4, <1>10, <1>11, <1>12 DEF new

(* A list all of whose nodes are gone is as good as a new one. *)
LEMMA EmptyHolds ==
  ASSUME NEW b, NEW j \in 1..(MaxNodes + 1), NEW k \in 0..MaxNodes, j <= k + 1,
         Holds(b, j, k)
  PROVE  /\ (b.first = Null) <=> (j = k + 1)
         /\ b.first = Null => Holds(b, 1, 0)
<1>1. (b.first = Null) <=> (j = k + 1)
  BY DEF Holds, Linked, MaxNodes, Null
<1>2. ASSUME j = k + 1
      PROVE  j..k = {} /\ j > k
  BY <1>2 DEF MaxNodes
<1>3. 1..0 = {} /\ 1 > 0
  OBVIOUS
<1> QED
  BY <1>1, <1>2, <1>3 DEF Holds, Linked

(* The nodes are found in the order of their addresses. *)
LEMMA ListOrder ==
  ASSUME NEW b, NEW j \in 1..(MaxNodes + 1), NEW k \in 0..MaxNodes, j <= k + 1,
         Linked(b, j, k)
  PROVE  /\ Cardinality(DOMAIN b.nodes) = k - j + 1
         /\ DOMAIN Listed(b) = 1..(k - j + 1)
         /\ \A i \in 1..(k - j + 1) : Listed(b)[i] = j + i - 1
<1> DEFINE Step(f, i) == IF i = 1 THEN b.first
                         ELSE IF f[i - 1] = Null THEN Null ELSE b.nodes[f[i - 1]].next
           D == 1..(k - j + 1)
           Listing(f) == f = [i \in D |-> Step(f, i)]
           order == [i \in D |-> j + i - 1]
<1> USE DEF MaxNodes, Null
<1>1. Cardinality(DOMAIN b.nodes) = k - j + 1
  <2>1. j \in Int /\ k \in Int
    OBVIOUS
  <2>2. Cardinality(j..k) = IF j > k THEN 0 ELSE k - j + 1
    BY <2>1, FS_Interval
  <2> QED
    BY <2>1, <2>2 DEF Linked
<1>2. Listed(b) = CHOOSE f : Listing(f)
  BY <1>1 DEF Listed
<1>3. Listing(order)
  <2>1. ASSUME NEW i \in D
        PROVE  order[i] = Step(order, i)
    <3>1. CASE i = 1
      BY <3>1 DEF Linked
    <3>2. CASE i # 1
      <4>1. i - 1 \in D /\ order[i - 1] = j + i - 2 /\ j + i - 2 \in j..k /\ j + i - 2 # k
        BY <3>2
      <4>2. b.nodes[j + i - 2].next = j + i - 1
        BY <4>1 DEF Linked
      <4>3. j + i - 2 # Null
        BY <4>1
      <4>4. order[i] = j + i - 1
        OBVIOUS
      <4> HIDE DEF order
      <4> QED
        BY <3>2, <4>1, <4>2, <4>3, <4>4
    <3> QED
      BY <3>1, <3>2
  <2> HIDE DEF Step
  <2> QED
    BY <2>1
<1>4. Listing(Listed(b))
  <2> HIDE DEF Listing
  <2> QED
    BY ONLY <1>2, <1>3
<1> DEFINE listed == Listed(b)
<1>5. DOMAIN listed = D /\ \A i \in D : listed[i] = Step(listed, i)
  <2> HIDE DEF Step
  <2> QED
    BY <1>4
<1> HIDE DEF listed
<1>6. \A i \in D : i > 1 /\ listed[i - 1] = j + i - 2 => listed[i] = j + i - 1
  <2> SUFFICES ASSUME NEW i \in D, i > 1, listed[i - 1] = j + i - 2
               PROVE  listed[i] = j + i - 1
    OBVIOUS
  <2>1. j + i - 2 \in j..k /\ j + i - 2 # k /\ j + i - 2 # Null
    OBVIOUS
  <2>2. b.nodes[j + i - 2].next = j + i - 1
    BY <2>1 DEF Linked
  <2> QED
    BY <1>5, <2>1, <2>2
<1>7. 1 \in D => listed[1] = j
  <2>1. ASSUME 1 \in D
        PROVE  listed[1] = b.first
    BY <1>5, <2>1
  <2>2. ASSUME 1 \in D
        PROVE  j <= k
    BY <2>2
  <2>3. j <= k => b.first = j
    BY DEF Linked
  <2> QED
    BY <2>1, <2>2, <2>3
<1>8. \A i \in D : listed[i] = j + i - 1
  <2>1. 2 \in D => listed[2] = j + 1
    BY <1>6, <1>7
  <2>2. 3 \in D => listed[3] = j + 2
    BY <1>6, <2>1
  <2>3. 4 \in D => listed[4] = j + 3
    BY <1>6, <2>2
  <2>4. 5 \in D => listed[5] = j + 4
    BY <1>6, <2>3
  <2> QED
    BY <1>7, <2>1, <2>2, <2>3, <2>4
<1> QED
  BY <1>1, <1>5, <1>8 DEF listed

(* The lengths of the nodes up to the m-th address. *)
UpTo(b, m) ==
  LET Size(n) == IF n <= m THEN SizeOf(b, n) ELSE 0
  IN Size(1) + Size(2) + Size(3) + Size(4) + Size(5)

(* They sum up to content_length. *)
LEMMA LengthsSum ==
  ASSUME NEW b, NEW j \in 1..(MaxNodes + 1), NEW k \in 0..MaxNodes, j <= k + 1,
         Holds(b, j, k)
  PROVE  Lengths(b)[k - j + 1] = b.content_length
<1> DEFINE count == k - j + 1
           D == 0..count
           Step(f, i) == IF i = 0 THEN 0 ELSE f[i - 1] + b.nodes[Listed(b)[i]].size
           Summing(f) == f = [i \in D |-> Step(f, i)]
           sum == [i \in D |-> UpTo(b, j + i - 1)]
<1> USE DEF MaxNodes
<1>1. Linked(b, j, k)
  BY DEF Holds
<1>2. Cardinality(DOMAIN b.nodes) = count
  BY ONLY <1>1, ListOrder, j \in 1..(MaxNodes + 1), k \in 0..MaxNodes, j <= k + 1
<1>3. \A i \in 1..count : Listed(b)[i] = j + i - 1
  BY ONLY <1>1, ListOrder, j \in 1..(MaxNodes + 1), k \in 0..MaxNodes, j <= k + 1
<1>4. \A n \in Nat : SizeOf(b, n) \in Nat /\ (n \notin j..k => SizeOf(b, n) = 0)
  BY <1>1 DEF SizeOf, Linked, Node
<1>5. \A n \in j..k : SizeOf(b, n) = b.nodes[n].size
  BY <1>1 DEF SizeOf, Linked
<1>6. /\ SizeOf(b, 1) \in Nat /\ SizeOf(b, 2) \in Nat /\ SizeOf(b, 3) \in Nat
      /\ SizeOf(b, 4) \in Nat /\ SizeOf(b, 5) \in Nat
  BY <1>4
<1>7. UpTo(b, j - 1) = 0
  <2>1. \A n \in 1..5 : n <= j - 1 => SizeOf(b, n) = 0
    BY <1>4
  <2> QED
    BY <2>1 DEF UpTo
<1>8. \A m \in j..k : UpTo(b, m) = UpTo(b, m - 1) + SizeOf(b, m)
  <2> SUFFICES ASSUME NEW m \in j..k
               PROVE  UpTo(b, m) = UpTo(b, m - 1) + SizeOf(b, m)
    OBVIOUS
  <2>1. m = 1 \/ m = 2 \/ m = 3 \/ m = 4 \/ m = 5
    OBVIOUS
  <2> QED
    BY ONLY <1>6, <2>1 DEF UpTo
<1>9. UpTo(b, k) = Total(b)
  <2>1. \A n \in 1..5 : n > k => SizeOf(b, n) = 0
    BY <1>4
  <2> QED
    BY <2>1 DEF UpTo, Total
<1>10. Lengths(b) = CHOOSE f : Summing(f)
  BY <1>2 DEF Lengths
<1>11. Summing(sum)
  <2>1. ASSUME NEW i \in D
        PROVE  sum[i] = Step(sum, i)
    <3>1. CASE i = 0
      BY <1>7, <3>1
    <3>2. CASE i # 0
      <4>1. i \in 1..count /\ j + i - 1 \in j..k /\ i - 1 \in D
        BY <3>2
      <4>2. sum[i] = UpTo(b, j + i - 1) /\ sum[i - 1] = UpTo(b, j + i - 2)
        BY <4>1
      <4>3. UpTo(b, j + i - 1) = UpTo(b, j + i - 2) + SizeOf(b, j + i - 1)
        BY <1>8, <4>1
      <4>4. b.nodes[Listed(b)[i]].size = SizeOf(b, j + i - 1)
        BY <1>3, <1>5, <4>1
      <4> HIDE DEF sum
      <4> QED
        BY <3>2, <4>2, <4>3, <4>4
    <3> QED
      BY <3>1, <3>2
  <2> HIDE DEF Step
  <2> QED
    BY <2>1
<1>12. Summing(Lengths(b))
  <2> HIDE DEF Summing
  <2> QED
    BY ONLY <1>10, <1>11
<1> DEFINE lengths == Lengths(b)
<1>13. \A i \in D : lengths[i] = Step(lengths, i)
  <2> HIDE DEF Step
  <2> QED
    BY <1>12
<1> HIDE DEF lengths
<1>14. lengths[0] = UpTo(b, j - 1)
  BY <1>7, <1>13
<1>15. \A i \in 1..count : lengths[i - 1] = UpTo(b, j + i - 2) => lengths[i] = UpTo(b, j + i - 1)
  <2> SUFFICES ASSUME NEW i \in 1..count, lengths[i - 1] = UpTo(b, j + i - 2)
               PROVE  lengths[i] = UpTo(b, j + i - 1)
    OBVIOUS
  <2>1. j + i - 1 \in j..k
    OBVIOUS
  <2>2. UpTo(b, j + i - 1) = UpTo(b, j + i - 2) + SizeOf(b, j + i - 1)
    BY <1>8, <2>1
  <2>3. b.nodes[Listed(b)[i]].size = SizeOf(b, j + i - 1)
    BY <1>3, <1>5, <2>1
  <2>4. lengths[i] = lengths[i - 1] + b.nodes[Listed(b)[i]].size
    BY <1>13
  <2> QED
    BY <2>2, <2>3, <2>4
<1>16. \A i \in D : lengths[i] = UpTo(b, j + i - 1)
  <2>1. 1 \in D => lengths[1] = UpTo(b, j)
    BY <1>14, <1>15
  <2>2. 2 \in D => lengths[2] = UpTo(b, j + 1)
    BY <1>15, <2>1
  <2>3. 3 \in D => lengths[3] = UpTo(b, j + 2)
    BY <1>15, <2>2
  <2>4. 4 \in D => lengths[4] = UpTo(b, j + 3)
    BY <1>15, <2>3
  <2>5. 5 \in D => lengths[5] = UpTo(b, j + 4)
    BY <1>15, <2>4
  <2> QED
    BY <1>14, <2>1, <2>2, <2>3, <2>4, <2>5
<1>17. lengths[count] = UpTo(b, k)
  BY <1>16
<1> QED
  BY <1>9, <1>17 DEF lengths, Holds

-----------------------------------------------------------------------------
(* When each step of the muxer finds which list. *)
Within(j, k) ==
  /\ j <= k + 1
  /\ Holds(bucket, j, k)
  /\ phase = "idle" =>
       /\ j = 1
       /\ k = 0 \/ (k = 2 /\ files # <<>> /\ files[Len(files)] = <<>>)
  /\ phase = "packets" => j = 1 /\ k < MaxNodes

BucketInv ==
  /\ files \in Seq(Seq(Packet))
  /\ \E j \in 1..(MaxNodes + 1), k \in 0..MaxNodes : Within(j, k)

LEMMA TablesHold ==
  ASSUME IInv, NEW k \in 0..(MaxNodes - 2), Holds(bucket, 1, k)
  PROVE  Holds(WithTables, 1, k + 2)
<1> DEFINE pat == <<Table("pat", m_muxer.pat_cc)>>
           pmt == <<Table("pmt", m_muxer.pmt_cc)>>
           one == bucket_insert(bucket, pat, TS_PACKET_SIZE)
<1>1. m_muxer.pat_cc \in Int /\ m_muxer.pmt_cc \in Int
  BY DEF IInv, TypeOK
<1>2. \A pid \in {"pat", "pmt"}, cc \in Int : Table(pid, cc) \in Packet
  BY DEF Table, Packet, TS_PACKET_SIZE, NOPTS_VALUE
<1>3. pat \in Seq(Packet) /\ pmt \in Seq(Packet)
  BY <1>1, <1>2
<1>4. TS_PACKET_SIZE \in Nat
  BY DEF TS_PACKET_SIZE
<1>5. WithTables = bucket_insert(one, pmt, TS_PACKET_SIZE)
  BY DEF WithTables
<1> HIDE DEF pat, pmt
<1>6. Holds(one, 1, k + 1)
  <2>1. k \in 0..(MaxNodes - 1)
    BY DEF MaxNodes
  <2> QED
    BY ONLY <1>3, <1>4, <2>1, InsertHolds, Holds(bucket, 1, k)
<1>7. k + 1 \in 0..(MaxNodes - 1) /\ k + 1 + 1 = k + 2
  BY DEF MaxNodes
<1> HIDE DEF one
<1>8. Holds(bucket_insert(one, pmt, TS_PACKET_SIZE), 1, k + 1 + 1)
  BY ONLY <1>3, <1>4, <1>6, <1>7, InsertHolds
<1> QED
  BY <1>5, <1>7, <1>8

LEMMA InitBucketInv == Init => BucketInv
<1> SUFFICES ASSUME Init
             PROVE  BucketInv
  OBVIOUS
<1>1. DOMAIN bucket.nodes = 1..0 /\ 1..0 = {}
  BY DEF Init, bucket_init
<1>2. Linked(bucket, 1, 0)
  BY <1>1 DEF Init, bucket_init, Linked
<1>3. Total(bucket) = 0
  BY <1>1 DEF Total, SizeOf
<1>4. Within(1, 0)
  BY <1>2, <1>3 DEF Within, Holds, Init, bucket_init, MaxNodes
<1>5. 1 \in 1..(MaxNodes + 1) /\ 0 \in 0..MaxNodes
  BY DEF MaxNodes
<1> QED
  BY <1>4, <1>5 DEF BucketInv, Init

LEMMA NextBucketInv == IInv /\ BucketInv /\ [Next]_vars => BucketInv'
<1> SUFFICES ASSUME IInv, BucketInv, [Next]_vars
             PROVE  BucketInv'
  OBVIOUS
<1>1. PICK j \in 1..(MaxNodes + 1) : \E k \in 0..MaxNodes : Within(j, k)
  BY DEF BucketInv
<1>2. PICK k \in 0..MaxNodes : Within(j, k)
  BY <1>1
<1>3. files \in Seq(Seq(Packet)) /\ Len(files) \in Nat
  BY DEF BucketInv
<1>4. j <= k + 1 /\ Holds(bucket, j, k)
  BY <1>2 DEF Within
<1>5. CASE WriteHeader
  <2>1. j = 1 /\ k = 0
    BY <1>2, <1>5 DEF Within, WriteHeader
  <2>2. Holds(bucket', 1, 2)
    <3>1. 0 \in 0..(MaxNodes - 2) /\ Holds(bucket, 1, 0) /\ 0 + 2 = 2
      BY <1>4, <2>1 DEF MaxNodes
    <3>2. Holds(WithTables, 1, 0 + 2)
      BY ONLY <3>1, IInv, TablesHold
    <3> QED
      BY <1>5, <3>1, <3>2 DEF WriteHeader
  <2>3. <<>> \in Seq(Packet) /\ files' = Append(files, <<>>) /\ phase' = "idle"
    BY <1>5 DEF WriteHeader
  <2>4. files' \in Seq(Seq(Packet)) /\ files' # <<>> /\ files'[Len(files')] = <<>>
    BY <1>3, <2>3
  <2>5. Within(1, 2)'
    BY <2>2, <2>3, <2>4 DEF Within
  <2>6. 1 \in 1..(MaxNodes + 1) /\ 2 \in 0..MaxNodes
    BY DEF MaxNodes
  <2> QED
    BY <2>4, <2>5, <2>6 DEF BucketInv
<1>6. CASE \E header \in FirstHeaders, size \in Sizes, step \in Steps, delay \in Delays :
             WriteVideoPacket(header, size, step, delay)
  <2>1. PICK header \in FirstHeaders, size \in Sizes, step \in Steps, delay \in Delays :
          WriteVideoPacket(header, size, step, delay)
    BY <1>6
  <2>2. j = 1 /\ k \in 0..(MaxNodes - 3)
    BY <1>2, <2>1 DEF Within, WriteVideoPacket, MaxNodes
  <2>3. bucket' = bucket \/ bucket' = WithTables
    BY <2>1 DEF WriteVideoPacket
  <2>4. phase' = "packets" /\ files' = files
    BY <2>1 DEF WriteVideoPacket
  <2>5. CASE bucket' = bucket
    <3>1. Within(1, k)'
      BY <1>4, <2>2, <2>4, <2>5 DEF Within, MaxNodes
    <3> QED
      BY <1>3, <2>4, <3>1 DEF BucketInv, MaxNodes
  <2>6. CASE bucket' = WithTables
    <3>1. k \in 0..(MaxNodes - 2) /\ Holds(bucket, 1, k)
      BY <1>4, <2>2 DEF MaxNodes
    <3>2. Holds(bucket', 1, k + 2)
      BY ONLY <2>6, <3>1, IInv, TablesHold
    <3>3. k + 2 \in 0..MaxNodes /\ k + 2 < MaxNodes /\ 1 <= k + 2 + 1
      BY <2>2 DEF MaxNodes
    <3>4. Within(1, k + 2)'
      BY <2>4, <3>2, <3>3 DEF Within
    <3>5. 1 \in 1..(MaxNodes + 1)
      BY DEF MaxNodes
    <3> QED
      BY <1>3, <2>4, <3>3, <3>4, <3>5 DEF BucketInv
  <2> QED
    BY <2>3, <2>5, <2>6
<1>7. CASE NotAnnexB
  <2>1. bucket' = bucket /\ files' = files /\ phase' = "drain"
    BY <1>7 DEF NotAnnexB
  <2>2. Within(j, k)'
    BY <1>4, <2>1 DEF Within
  <2> QED
    BY <1>3, <2>1, <2>2 DEF BucketInv
<1>8. CASE WriteTsPacket
  <2>1. bucket' = bucket /\ files' = files /\ phase' = phase
    BY <1>8 DEF WriteTsPacket
  <2>2. Within(j, k)'
    BY <1>2, <2>1 DEF Within
  <2> QED
    BY <1>3, <2>1, <2>2 DEF BucketInv
<1>9. CASE InsertPackets
  <2>1. j = 1 /\ k \in 0..(MaxNodes - 1)
    BY <1>2, <1>9 DEF Within, InsertPackets, MaxNodes
  <2>2. out_buf \in Seq(Packet) /\ Len(out_buf) * TS_PACKET_SIZE \in Nat
    <3>1. out_buf \in Seq(FullPacket)
      BY DEF IInv, LoopInv
    <3>2. FullPacket \subseteq Packet
      BY DEF FullPacket, Packet
    <3>3. Len(out_buf) \in Nat
      BY <3>1
    <3> QED
      BY <3>1, <3>2, <3>3 DEF TS_PACKET_SIZE
  <2>3. Holds(bucket', 1, k + 1)
    <3>1. bucket' = bucket_insert(bucket, out_buf, Len(out_buf) * TS_PACKET_SIZE)
      BY <1>9 DEF InsertPackets
    <3>2. Holds(bucket, 1, k)
      BY <1>4, <2>1
    <3> QED
      BY ONLY <2>1, <2>2, <3>1, <3>2, InsertHolds
  <2>4. phase' = "drain" /\ files' = files
    BY <1>9 DEF InsertPackets
  <2>5. k + 1 \in 0..MaxNodes /\ 1 \in 1..(MaxNodes + 1) /\ 1 <= k + 1 + 1
    BY <2>1 DEF MaxNodes
  <2>6. Within(1, k + 1)'
    BY <2>3, <2>4, <2>5 DEF Within
  <2> QED
    BY <1>3, <2>4, <2>5, <2>6 DEF BucketInv
<1>10. CASE Drain
  <2>1. j \in 1..MaxNodes /\ k \in j..MaxNodes
    <3>1. j # k + 1
      BY <1>4, <1>10, EmptyHolds DEF Drain
    <3> QED
      BY <1>4, <3>1 DEF MaxNodes
  <2>2. Retrieved(bucket) \in Seq(Packet) /\ Holds(bucket_retrieve(bucket), j + 1, k)
    BY ONLY <1>4, <2>1, RetrieveHolds
  <2>3. /\ bucket' = bucket_retrieve(bucket)
        /\ files' = [files EXCEPT ![Len(files)] = @ \o Retrieved(bucket)]
        /\ phase' = "drain"
    BY <1>10 DEF Drain
  <2>4. files' \in Seq(Seq(Packet))
    <3> DEFINE last == Len(files)
               longer == files[last] \o Retrieved(bucket)
    <3>1. files' = [files EXCEPT ![last] = longer]
      BY <2>3
    <3>2. CASE last \in 1..last
      <4>1. files[last] \in Seq(Packet)
        BY <1>3, <3>2
      <4>2. longer \in Seq(Packet)
        BY <2>2, <4>1
      <4> HIDE DEF longer
      <4> QED
        BY <1>3, <3>1, <3>2, <4>2, ExceptSeq
    <3>3. CASE last \notin 1..last
      <4>1. last \notin DOMAIN files
        BY <1>3, <3>3
      <4> HIDE DEF longer, last
      <4>2. files' = [n \in DOMAIN files |-> files[n]]
        BY <3>1, <4>1
      <4>3. files = [n \in DOMAIN files |-> files[n]]
        BY <1>3
      <4> QED
        BY <1>3, <4>2, <4>3
    <3> QED
      BY <3>2, <3>3
  <2>5. j + 1 \in 1..(MaxNodes + 1) /\ j + 1 <= k + 1
    BY <2>1 DEF MaxNodes
  <2>6. Within(j + 1, k)'
    BY <2>2, <2>3, <2>5 DEF Within
  <2> QED
    BY <2>4, <2>5, <2>6 DEF BucketInv
<1>11. CASE Drained
  <2>1. bucket' = bucket /\ files' = files /\ phase' = "idle" /\ bucket.first = Null
    BY <1>11 DEF Drained
  <2>2. Holds(bucket, 1, 0)
    BY ONLY <1>4, <2>1, EmptyHolds, j \in 1..(MaxNodes + 1), k \in 0..MaxNodes
  <2>3. Within(1, 0)'
    BY <2>1, <2>2 DEF Within
  <2>4. 1 \in 1..(MaxNodes + 1) /\ 0 \in 0..MaxNodes
    BY DEF MaxNodes
  <2> QED
    BY <1>3, <2>1, <2>3, <2>4 DEF BucketInv
<1>12. CASE UNCHANGED vars
  <2>1. bucket' = bucket /\ files' = files /\ phase' = phase
    BY <1>12 DEF vars
  <2>2. Within(j, k)'
    BY <1>2, <2>1 DEF Within
  <2> QED
    BY <1>3, <2>1, <2>2 DEF BucketInv
<1> QED
  BY <1>5, <1>6, <1>7, <1>8, <1>9, <1>10, <1>11, <1>12 DEF Next

LEMMA BucketInvariant == Spec => []BucketInv
<1>1. IInv /\ BucketInv /\ [Next]_vars => BucketInv'
  BY NextBucketInv
<1> QED
  BY <1>1, InitBucketInv, IInvInvariant, PTL DEF Spec

(* Over any number of frames and segments, no pointer of the list between    *)
(* the muxer and the segmenter is left to a node that was freed when         *)
(* something is inserted, no node is lost, and the length is that of what    *)
(* is there.                                                                 *)
THEOREM BucketSoundInvariant == Spec => []BucketSound
<1>1. IInv /\ BucketInv => BucketSound
  <2> SUFFICES ASSUME IInv, BucketInv
               PROVE  BucketSound
    OBVIOUS
  <2>1. PICK j \in 1..(MaxNodes + 1) : \E k \in 0..MaxNodes : Within(j, k)
    BY DEF BucketInv
  <2>2. PICK k \in 0..MaxNodes : Within(j, k)
    BY <2>1
  <2>3. j <= k + 1 /\ Holds(bucket, j, k) /\ Linked(bucket, j, k)
    BY <2>2 DEF Within, Holds
  <2>4. phase # "drain" => Insertable(bucket)
    <3> SUFFICES ASSUME phase # "drain"
                 PROVE  Insertable(bucket)
      OBVIOUS
    <3>1. phase = "idle" \/ phase = "packets"
      BY DEF IInv, TypeOK
    <3>2. j = 1 /\ k \in 0..MaxNodes
      BY <2>2, <3>1 DEF Within
    <3>3. CASE k = 0
      BY <2>3, <3>2, <3>3 DEF Linked, Insertable, Null, FirstCell
    <3>4. CASE k = 1
      BY <2>3, <3>2, <3>4 DEF Linked, Insertable, Cell, Null, FirstCell
    <3>5. CASE k > 1
      <4>1. /\ bucket.first = 1 /\ bucket.chain = k - 1
            /\ DOMAIN bucket.nodes = 1..k /\ k - 1 \in 1..k /\ k \in 1..k
            /\ bucket.nodes[k - 1].next = k /\ bucket.nodes[k].next = Null
        BY <2>3, <3>2, <3>5 DEF Linked, MaxNodes
      <4>2. k - 1 # 0
        BY <3>2, <3>5 DEF MaxNodes
      <4> QED
        BY ONLY <4>1, <4>2 DEF Insertable, Cell, Null, FirstCell
    <3> QED
      BY <3>2, <3>3, <3>4, <3>5 DEF MaxNodes
  <2>5. (phase = "idle" /\ files # <<>> /\ files[Len(files)] # <<>>)
          => bucket.first = Null
    BY <2>2, <2>3 DEF Within, Linked
  <2>6. Cardinality(DOMAIN bucket.nodes) = k - j + 1
    BY ONLY <2>3, ListOrder, j \in 1..(MaxNodes + 1), k \in 0..MaxNodes
  <2>7. {Listed(bucket)[n] : n \in DOMAIN Listed(bucket)} = DOMAIN bucket.nodes
    <3>1. /\ DOMAIN Listed(bucket) = 1..(k - j + 1)
          /\ \A i \in 1..(k - j + 1) : Listed(bucket)[i] = j + i - 1
      BY ONLY <2>3, ListOrder, j \in 1..(MaxNodes + 1), k \in 0..MaxNodes
    <3>2. DOMAIN bucket.nodes = j..k
      BY <2>3 DEF Linked
    <3>3. \A n \in j..k : n - j + 1 \in 1..(k - j + 1) /\ j + (n - j + 1) - 1 = n
      BY DEF MaxNodes
    <3>4. \A i \in 1..(k - j + 1) : j + i - 1 \in j..k
      BY DEF MaxNodes
    <3> QED
      BY ONLY <3>1, <3>2, <3>3, <3>4
  <2>8. bucket.content_length = Lengths(bucket)[Cardinality(DOMAIN bucket.nodes)]
    BY ONLY <2>3, <2>6, LengthsSum, j \in 1..(MaxNodes + 1), k \in 0..MaxNodes
  <2> QED
    BY <2>4, <2>5, <2>7, <2>8 DEF BucketSound
<1> QED
  BY <1>1, BucketInvariant, IInvInvariant, PTL

-----------------------------------------------------------------------------
(* What is in the list, in its order. *)
Buffered(b) ==
  Buffer(b, 1) \o (Buffer(b, 2) \o (Buffer(b, 3) \o (Buffer(b, 4) \o Buffer(b, 5))))

LEMMA BufferedType ==
  ASSUME NEW b, NEW j \in 1..(MaxNodes + 1), NEW k \in 0..MaxNodes, j <= k + 1,
         Holds(b, j, k)
  PROVE  /\ \A n \in Nat : Buffer(b, n) \in Seq(Packet)
         /\ \A n \in Nat : n \notin j..k => Buffer(b, n) = <<>>
         /\ Buffered(b) \in Seq(Packet)
<1>1. DOMAIN b.nodes = j..k /\ \A n \in j..k : b.nodes[n] \in Node
  BY DEF Holds, Linked
<1>2. \A n \in Nat : Buffer(b, n) \in Seq(Packet)
  BY <1>1 DEF Buffer, Node
<1>3. \A n \in Nat : n \notin j..k => Buffer(b, n) = <<>>
  BY <1>1 DEF Buffer
<1>4. /\ Buffer(b, 1) \in Seq(Packet) /\ Buffer(b, 2) \in Seq(Packet)
      /\ Buffer(b, 3) \in Seq(Packet) /\ Buffer(b, 4) \in Seq(Packet)
      /\ Buffer(b, 5) \in Seq(Packet)
  BY <1>2
<1>5. Buffered(b) \in Seq(Packet)
  BY ONLY <1>4, ConcatProperties DEF Buffered
<1> QED
  BY <1>2, <1>3, <1>5

(* Nothing and nothing. *)
LEMMA NoMore == <<>> \o <<>> = <<>>
BY ConcatEmptySeq, <<>> \in Seq({})

(* bucket_insert() adds a buffer at the end. *)
LEMMA InsertBuffered ==
  ASSUME NEW b, NEW k \in 0..(MaxNodes - 1), Holds(b, 1, k),
         NEW buf \in Seq(Packet), NEW size \in Nat
  PROVE  Buffered(bucket_insert(b, buf, size)) = Buffered(b) \o buf
<1> DEFINE new == bucket_insert(b, buf, size)
           p == Buffer(b, 1)
           q == Buffer(b, 2)
           r == Buffer(b, 3)
           s == Buffer(b, 4)
           t == Buffer(b, 5)
<1>1. \A n \in Nat : Buffer(new, n) = IF n = k + 1 THEN buf ELSE Buffer(b, n)
  BY InsertHolds
<1>2. /\ \A n \in Nat : Buffer(b, n) \in Seq(Packet)
      /\ \A n \in Nat : n \notin 1..k => Buffer(b, n) = <<>>
  <2>1. 1 \in 1..(MaxNodes + 1) /\ k \in 0..MaxNodes /\ 1 <= k + 1
    BY DEF MaxNodes
  <2> QED
    BY ONLY <2>1, BufferedType, Holds(b, 1, k)
<1>3. p \in Seq(Packet) /\ q \in Seq(Packet) /\ r \in Seq(Packet) /\ s \in Seq(Packet)
  BY <1>2
<1>4. Buffered(b) = p \o (q \o (r \o (s \o t)))
  BY DEF Buffered
<1>10. Buffered(new) = (IF k = 0 THEN buf ELSE p) \o ((IF k = 1 THEN buf ELSE q)
         \o ((IF k = 2 THEN buf ELSE r) \o ((IF k = 3 THEN buf ELSE s)
           \o (IF k = 4 THEN buf ELSE t))))
  <2>1. /\ Buffer(new, 1) = IF k = 0 THEN buf ELSE p
        /\ Buffer(new, 2) = IF k = 1 THEN buf ELSE q
        /\ Buffer(new, 3) = IF k = 2 THEN buf ELSE r
        /\ Buffer(new, 4) = IF k = 3 THEN buf ELSE s
        /\ Buffer(new, 5) = IF k = 4 THEN buf ELSE t
    BY <1>1
  <2> HIDE DEF new, p, q, r, s, t
  <2> QED
    BY ONLY <2>1 DEF Buffered
<1>5. CASE k = 0
  <2>1. p = <<>> /\ q = <<>> /\ r = <<>> /\ s = <<>> /\ t = <<>>
    BY <1>2, <1>5
  <2>2. Buffered(new) = buf \o (q \o (r \o (s \o t)))
    BY ONLY <1>5, <1>10
  <2> HIDE DEF p, q, r, s, t, new
  <2>3. Buffered(b) = <<>> /\ Buffered(new) = buf \o <<>>
    BY ONLY <1>4, <2>1, <2>2, NoMore
  <2>4. buf \o <<>> = buf /\ <<>> \o buf = buf
    BY ConcatEmptySeq
  <2> QED
    BY ONLY <2>3, <2>4 DEF new
<1>6. CASE k = 1
  <2>1. q = <<>> /\ r = <<>> /\ s = <<>> /\ t = <<>>
    BY <1>2, <1>6
  <2>2. Buffered(new) = p \o (buf \o (r \o (s \o t)))
    BY ONLY <1>6, <1>10
  <2> HIDE DEF p, q, r, s, t, new
  <2>3. Buffered(b) = p \o <<>> /\ Buffered(new) = p \o (buf \o <<>>)
    BY ONLY <1>4, <2>1, <2>2, NoMore
  <2>4. p \o <<>> = p /\ buf \o <<>> = buf
    BY <1>3, ConcatEmptySeq
  <2> QED
    BY ONLY <2>3, <2>4 DEF new
<1>7. CASE k = 2
  <2>1. r = <<>> /\ s = <<>> /\ t = <<>>
    BY <1>2, <1>7
  <2>2. Buffered(new) = p \o (q \o (buf \o (s \o t)))
    BY ONLY <1>7, <1>10
  <2> HIDE DEF p, q, r, s, t, new
  <2>3. Buffered(b) = p \o (q \o <<>>) /\ Buffered(new) = p \o (q \o (buf \o <<>>))
    BY ONLY <1>4, <2>1, <2>2, NoMore
  <2>4. q \o <<>> = q /\ buf \o <<>> = buf
    BY <1>3, ConcatEmptySeq
  <2>5. p \o (q \o buf) = (p \o q) \o buf
    BY ONLY <1>3, buf \in Seq(Packet)
  <2> QED
    BY ONLY <2>3, <2>4, <2>5 DEF new
<1>8. CASE k = 3
  <2>1. s = <<>> /\ t = <<>>
    BY <1>2, <1>8
  <2>2. Buffered(new) = p \o (q \o (r \o (buf \o t)))
    BY ONLY <1>8, <1>10
  <2> HIDE DEF p, q, r, s, t, new
  <2>3. /\ Buffered(b) = p \o (q \o (r \o <<>>))
        /\ Buffered(new) = p \o (q \o (r \o (buf \o <<>>)))
    BY ONLY <1>4, <2>1, <2>2, NoMore
  <2>4. r \o <<>> = r /\ buf \o <<>> = buf
    BY <1>3, ConcatEmptySeq
  <2>5. p \o (q \o (r \o buf)) = (p \o (q \o r)) \o buf
    <3> DEFINE w == q \o r
    <3>1. q \o (r \o buf) = w \o buf
      BY ONLY <1>3, buf \in Seq(Packet)
    <3>2. w \in Seq(Packet)
      BY ONLY <1>3
    <3> HIDE DEF w
    <3>3. p \o (w \o buf) = (p \o w) \o buf
      BY ONLY <1>3, <3>2, buf \in Seq(Packet)
    <3> QED
      BY ONLY <3>1, <3>3 DEF w
  <2> QED
    BY ONLY <2>3, <2>4, <2>5 DEF new
<1>9. CASE k = 4
  <2>1. t = <<>>
    BY <1>2, <1>9
  <2>2. Buffered(new) = p \o (q \o (r \o (s \o buf)))
    BY ONLY <1>9, <1>10
  <2> HIDE DEF p, q, r, s, t, new
  <2>3. s \o <<>> = s
    BY <1>3, ConcatEmptySeq
  <2>4. p \o (q \o (r \o (s \o buf))) = (p \o (q \o (r \o s))) \o buf
    <3> DEFINE w == r \o s
               m == q \o w
    <3>1. q \o (r \o (s \o buf)) = m \o buf
      <4>1. r \o (s \o buf) = w \o buf
        BY ONLY <1>3, buf \in Seq(Packet)
      <4>2. w \in Seq(Packet)
        BY ONLY <1>3
      <4> HIDE DEF w
      <4>3. q \o (w \o buf) = (q \o w) \o buf
        BY ONLY <1>3, <4>2, buf \in Seq(Packet)
      <4> QED
        BY ONLY <4>1, <4>3
    <3>2. m \in Seq(Packet)
      BY ONLY <1>3
    <3> HIDE DEF m
    <3>3. p \o (m \o buf) = (p \o m) \o buf
      BY ONLY <1>3, <3>2, buf \in Seq(Packet)
    <3> QED
      BY ONLY <3>1, <3>3 DEF m
  <2> QED
    BY ONLY <1>4, <2>1, <2>2, <2>3, <2>4 DEF new
<1> QED
  BY <1>5, <1>6, <1>7, <1>8, <1>9 DEF MaxNodes

(* bucket_retrieve() takes the first away. *)
LEMMA RetrieveBuffered ==
  ASSUME NEW b, NEW j \in 1..MaxNodes, NEW k \in j..MaxNodes, Holds(b, j, k)
  PROVE  Buffered(b) = Retrieved(b) \o Buffered(bucket_retrieve(b))
<1> DEFINE new == bucket_retrieve(b)
           p == Buffer(b, 1)
           q == Buffer(b, 2)
           r == Buffer(b, 3)
           s == Buffer(b, 4)
           t == Buffer(b, 5)
<1>1. /\ Retrieved(b) = Buffer(b, j)
      /\ \A n \in Nat : Buffer(new, n) = IF n = j THEN <<>> ELSE Buffer(b, n)
  BY RetrieveHolds
<1>2. /\ \A n \in Nat : Buffer(b, n) \in Seq(Packet)
      /\ \A n \in Nat : n \notin j..k => Buffer(b, n) = <<>>
  <2>1. j \in 1..(MaxNodes + 1) /\ k \in 0..MaxNodes /\ j <= k + 1
    BY DEF MaxNodes
  <2> QED
    BY ONLY <2>1, BufferedType, Holds(b, j, k)
<1>3. /\ p \in Seq(Packet) /\ q \in Seq(Packet) /\ r \in Seq(Packet)
      /\ s \in Seq(Packet) /\ t \in Seq(Packet)
  BY <1>2
<1>4. Buffered(b) = p \o (q \o (r \o (s \o t)))
  BY DEF Buffered
<1>5. /\ s \o t \in Seq(Packet)
      /\ r \o (s \o t) \in Seq(Packet)
      /\ q \o (r \o (s \o t)) \in Seq(Packet)
  <2>1. s \o t \in Seq(Packet)
    BY <1>3, ConcatProperties
  <2>2. r \o (s \o t) \in Seq(Packet)
    BY <1>3, <2>1, ConcatProperties
  <2> QED
    BY <1>3, <2>1, <2>2, ConcatProperties
<1>6. /\ <<>> \o t = t /\ <<>> \o (s \o t) = s \o t
      /\ <<>> \o (r \o (s \o t)) = r \o (s \o t)
      /\ <<>> \o (q \o (r \o (s \o t))) = q \o (r \o (s \o t))
      /\ t \o <<>> = t
  BY <1>3, <1>5, ConcatEmptySeq
<1>12. Buffered(new) = (IF j = 1 THEN <<>> ELSE p) \o ((IF j = 2 THEN <<>> ELSE q)
         \o ((IF j = 3 THEN <<>> ELSE r) \o ((IF j = 4 THEN <<>> ELSE s)
           \o (IF j = 5 THEN <<>> ELSE t))))
  <2>1. /\ Buffer(new, 1) = IF j = 1 THEN <<>> ELSE p
        /\ Buffer(new, 2) = IF j = 2 THEN <<>> ELSE q
        /\ Buffer(new, 3) = IF j = 3 THEN <<>> ELSE r
        /\ Buffer(new, 4) = IF j = 4 THEN <<>> ELSE s
        /\ Buffer(new, 5) = IF j = 5 THEN <<>> ELSE t
    BY <1>1
  <2> HIDE DEF new, p, q, r, s, t
  <2> QED
    BY ONLY <2>1 DEF Buffered
<1>13. \A n \in 1..5 : j = n => Retrieved(b) = Buffer(b, n)
  BY <1>1
<1>7. CASE j = 1
  <2>1. Retrieved(b) = p /\ Buffered(new) = <<>> \o (q \o (r \o (s \o t)))
    BY ONLY <1>7, <1>12, <1>13
  <2> HIDE DEF p, q, r, s, t, new
  <2> QED
    BY ONLY <1>4, <1>6, <2>1 DEF new
<1>8. CASE j = 2
  <2>1. Retrieved(b) = q /\ Buffered(new) = p \o (<<>> \o (r \o (s \o t)))
    BY ONLY <1>8, <1>12, <1>13
  <2>2. p = <<>>
    BY <1>2, <1>8
  <2> HIDE DEF p, q, r, s, t, new
  <2> QED
    BY ONLY <1>4, <1>6, <2>1, <2>2 DEF new
<1>9. CASE j = 3
  <2>1. Retrieved(b) = r /\ Buffered(new) = p \o (q \o (<<>> \o (s \o t)))
    BY ONLY <1>9, <1>12, <1>13
  <2>2. p = <<>> /\ q = <<>>
    BY <1>2, <1>9
  <2> HIDE DEF p, q, r, s, t, new
  <2> QED
    BY ONLY <1>4, <1>6, <2>1, <2>2 DEF new
<1>10. CASE j = 4
  <2>1. Retrieved(b) = s /\ Buffered(new) = p \o (q \o (r \o (<<>> \o t)))
    BY ONLY <1>10, <1>12, <1>13
  <2>2. p = <<>> /\ q = <<>> /\ r = <<>>
    BY <1>2, <1>10
  <2> HIDE DEF p, q, r, s, t, new
  <2> QED
    BY ONLY <1>4, <1>6, <2>1, <2>2 DEF new
<1>11. CASE j = 5
  <2>1. Retrieved(b) = t /\ Buffered(new) = p \o (q \o (r \o (s \o <<>>)))
    BY ONLY <1>11, <1>12, <1>13
  <2>2. p = <<>> /\ q = <<>> /\ r = <<>> /\ s = <<>>
    BY <1>2, <1>11
  <2> HIDE DEF p, q, r, s, t, new
  <2> QED
    BY ONLY <1>4, <1>6, <2>1, <2>2, NoMore DEF new
<1> QED
  BY <1>7, <1>8, <1>9, <1>10, <1>11 DEF MaxNodes

-----------------------------------------------------------------------------
(* What TablesFresh says of one segment. *)
FreshSegment(seg) ==
  /\ seg # <<>> => seg[1].pid = "pat"
  /\ Len(seg) > 1 => seg[2].pid = "pmt"
  /\ \A i, j \in DOMAIN seg :
       (/\ i < j
        /\ seg[i].pid = "video" /\ seg[i].start
        /\ seg[j].pid = "video" /\ seg[j].start
        /\ seg[j].pcr - seg[i].pcr >= PAT_DELTA)
         => \E k \in i..j : seg[k].pid = "pat" /\ seg[k + 1].pid = "pmt"

Tables(seg, k) == seg[k].pid = "pat" /\ seg[k + 1].pid = "pmt"

Headed(seg) == Len(seg) >= 2 /\ Tables(seg, 1)

(* A frame has tables after it, unless it is so late that those due at next *)
(* are early enough.                                                        *)
Covered(seg, next) ==
  \A i \in 1..Len(seg) : seg[i].pid = "video" /\ seg[i].start =>
    \/ \E k \in i..(Len(seg) - 1) : Tables(seg, k)
    \/ next # NOPTS_VALUE /\ seg[i].pcr - 1 + PAT_DELTA >= next

LEMMA TablesAppended ==
  ASSUME NEW seg \in Seq(Packet), NEW t \in Seq(Packet), Headed(t), Len(t) = 2,
         seg = <<>> \/ Headed(seg), FreshSegment(seg), NEW next
  PROVE  /\ seg \o t \in Seq(Packet)
         /\ Headed(seg \o t) /\ FreshSegment(seg \o t) /\ Covered(seg \o t, next)
<1> DEFINE n == Len(seg)
           new == seg \o t
<1>1. /\ n \in Nat /\ Len(new) = n + 2 /\ new \in Seq(Packet) /\ DOMAIN new = 1..(n + 2)
      /\ \A i \in 1..n : new[i] = seg[i]
      /\ new[n + 1] = t[1] /\ new[n + 2] = t[2]
      /\ DOMAIN seg = 1..n
  <2>1. /\ n \in Nat /\ DOMAIN seg = 1..n
    OBVIOUS
  <2>2. /\ new \in Seq(Packet) /\ Len(new) = n + 2
        /\ \A i \in 1..(n + 2) : new[i] = IF i <= n THEN seg[i] ELSE t[i - n]
    <3>1. /\ new \in Seq(Packet) /\ Len(new) = n + Len(t)
          /\ \A i \in 1..(n + Len(t)) : new[i] = IF i <= n THEN seg[i] ELSE t[i - n]
      BY ONLY seg \in Seq(Packet), t \in Seq(Packet), ConcatProperties, Zenon
    <3> HIDE DEF n, new
    <3> QED
      BY ONLY <3>1, Len(t) = 2
  <2>3. DOMAIN new = 1..(n + 2)
    BY <2>2
  <2> HIDE DEF n, new
  <2>4. ASSUME NEW i \in 1..n
        PROVE  new[i] = seg[i]
    <3>1. i \in 1..(n + 2) /\ i <= n
      BY ONLY <2>1
    <3>2. new[i] = IF i <= n THEN seg[i] ELSE t[i - n]
      BY ONLY <2>2, <3>1, Zenon
    <3> QED
      BY ONLY <3>1, <3>2
  <2>5. new[n + 1] = t[1]
    <3> DEFINE i == n + 1
    <3>1. i \in 1..(n + 2) /\ ~(i <= n) /\ i - n = 1
      BY ONLY <2>1
    <3> HIDE DEF i
    <3>2. new[i] = IF i <= n THEN seg[i] ELSE t[i - n]
      BY ONLY <2>2, <3>1, Zenon
    <3>3. new[i] = t[1]
      BY ONLY <3>1, <3>2, Zenon
    <3> QED
      BY ONLY <3>3 DEF i
  <2>6. new[n + 2] = t[2]
    <3> DEFINE i == n + 2
    <3>1. i \in 1..(n + 2) /\ ~(i <= n) /\ i - n = 2
      BY ONLY <2>1
    <3> HIDE DEF i
    <3>2. new[i] = IF i <= n THEN seg[i] ELSE t[i - n]
      BY ONLY <2>2, <3>1, Zenon
    <3>3. new[i] = t[2]
      BY ONLY <3>1, <3>2, Zenon
    <3> QED
      BY ONLY <3>3 DEF i
  <2> QED
    BY ONLY <2>1, <2>2, <2>3, <2>4, <2>5, <2>6
<1>2. t[1].pid = "pat" /\ t[2].pid = "pmt"
  BY DEF Headed, Tables
<1>3. seg = <<>> => n = 0
  OBVIOUS
<1>4. seg # <<>> => n >= 2 /\ seg[1].pid = "pat" /\ seg[2].pid = "pmt"
  BY DEF Headed, Tables
<1> HIDE DEF n, new
<1>5. Headed(new)
  <2>1. CASE n = 0
    BY ONLY <1>1, <1>2, <2>1 DEF Headed, Tables
  <2>2. CASE n # 0
    <3>1. n >= 2 /\ 1 \in 1..n /\ 2 \in 1..n /\ seg[1].pid = "pat" /\ seg[2].pid = "pmt"
      BY <1>1, <1>3, <1>4, <2>2
    <3> QED
      BY ONLY <1>1, <3>1 DEF Headed, Tables
  <2> QED
    BY <2>1, <2>2
<1>6. Covered(new, next)
  <2> SUFFICES ASSUME NEW i \in 1..Len(new), new[i].pid = "video"
               PROVE  \E k \in i..(Len(new) - 1) : Tables(new, k)
    BY DEF Covered
  <2>1. i # n + 1 /\ i # n + 2
    BY <1>1, <1>2
  <2>2. n + 1 \in i..(Len(new) - 1)
    BY ONLY <1>1, <2>1, i \in 1..Len(new)
  <2>3. Tables(new, n + 1)
    <3>1. n + 1 + 1 = n + 2
      BY <1>1
    <3> QED
      BY <1>1, <1>2, <3>1 DEF Tables
  <2> QED
    BY <2>2, <2>3
<1>7. ASSUME NEW i \in DOMAIN new, NEW j \in DOMAIN new, i < j,
             new[i].pid = "video", new[i].start, new[j].pid = "video", new[j].start,
             new[j].pcr - new[i].pcr >= PAT_DELTA
      PROVE  \E k \in i..j : new[k].pid = "pat" /\ new[k + 1].pid = "pmt"
  <2>1. j # n + 1 /\ j # n + 2
    BY <1>1, <1>2, <1>7
  <2>2. i \in 1..n /\ j \in 1..n
    BY ONLY <1>1, <2>1, i < j, i \in DOMAIN new, j \in DOMAIN new
  <2>3. PICK k \in i..j : seg[k].pid = "pat" /\ seg[k + 1].pid = "pmt"
    <3>1. new[i] = seg[i] /\ new[j] = seg[j] /\ i \in DOMAIN seg /\ j \in DOMAIN seg
      BY <1>1, <2>2
    <3> QED
      BY ONLY <1>7, <3>1, FreshSegment(seg) DEF FreshSegment
  <2>4. k # j
    BY <1>1, <1>7, <2>2, <2>3
  <2>5. k \in 1..n /\ k + 1 \in 1..n
    <3>1. n \in Nat
      BY <1>1
    <3> QED
      BY ONLY <2>2, <2>4, <3>1, k \in i..j
  <2>6. new[k] = seg[k] /\ new[k + 1] = seg[k + 1]
    BY ONLY <1>1, <2>5
  <2> QED
    BY <2>3, <2>6
<1>8. FreshSegment(new)
  <2>1. new[1].pid = "pat" /\ new[2].pid = "pmt"
    BY <1>5 DEF Headed, Tables
  <2> QED
    BY <1>7, <2>1 DEF FreshSegment
<1> QED
  BY <1>1, <1>5, <1>6, <1>8 DEF new

LEMMA PacketAppended ==
  ASSUME NEW seg \in Seq(Packet), Headed(seg), FreshSegment(seg),
         NEW next \in Int, Covered(seg, next),
         NEW q \in Packet, q.pid = "video",
         q.start => /\ next # NOPTS_VALUE
                    /\ q.pcr - 1 < next /\ q.pcr - 1 + PAT_DELTA >= next
  PROVE  /\ Append(seg, q) \in Seq(Packet)
         /\ Headed(Append(seg, q)) /\ FreshSegment(Append(seg, q))
         /\ Covered(Append(seg, q), next)
<1> DEFINE n == Len(seg)
           new == Append(seg, q)
<1>1. /\ n \in Nat /\ Len(new) = n + 1 /\ new \in Seq(Packet) /\ DOMAIN new = 1..(n + 1)
      /\ \A i \in 1..n : new[i] = seg[i]
      /\ new[n + 1] = q
      /\ DOMAIN seg = 1..n
  OBVIOUS
<1>2. /\ n >= 2 /\ seg[1].pid = "pat" /\ seg[2].pid = "pmt"
      /\ 1 \in 1..n /\ 2 \in 1..n
  BY <1>1 DEF Headed, Tables
<1>3. \A i \in 1..n : seg[i].pcr \in Int
  <2>1. \A i \in 1..n : seg[i] \in Packet
    BY ElementOfSeq
  <2> QED
    BY ONLY <2>1 DEF Packet
<1>4. q.pcr \in Int
  BY DEF Packet
<1> HIDE DEF n, new
<1>5. Headed(new)
  BY ONLY <1>1, <1>2 DEF Headed, Tables
<1>6. \A k \in 1..(n - 1) : Tables(seg, k) => Tables(new, k)
  <2> SUFFICES ASSUME NEW k \in 1..(n - 1)
               PROVE  Tables(seg, k) => Tables(new, k)
    OBVIOUS
  <2>1. k \in 1..n /\ k + 1 \in 1..n
    BY <1>1
  <2> QED
    BY ONLY <1>1, <2>1 DEF Tables
<1>7. \A i \in 1..n : seg[i].pid = "video" /\ seg[i].start =>
        \/ \E k \in i..(n - 1) : Tables(seg, k)
        \/ next # NOPTS_VALUE /\ seg[i].pcr - 1 + PAT_DELTA >= next
  BY DEF Covered, n
<1>8. Covered(new, next)
  <2> SUFFICES ASSUME NEW i \in 1..Len(new), new[i].pid = "video", new[i].start
               PROVE  \/ \E k \in i..(Len(new) - 1) : Tables(new, k)
                      \/ next # NOPTS_VALUE /\ new[i].pcr - 1 + PAT_DELTA >= next
    BY DEF Covered
  <2>1. CASE i = n + 1
    BY <1>1, <2>1
  <2>2. CASE i # n + 1
    <3>1. i \in 1..n
      BY ONLY <1>1, <2>2, i \in 1..Len(new)
    <3>2. new[i] = seg[i]
      BY <1>1, <3>1
    <3>3. CASE \E k \in i..(n - 1) : Tables(seg, k)
      <4>1. PICK k \in i..(n - 1) : Tables(seg, k)
        BY <3>3
      <4>2. k \in 1..(n - 1) /\ k \in i..(Len(new) - 1)
        BY ONLY <1>1, <3>1, k \in i..(n - 1)
      <4> QED
        BY <1>6, <4>1, <4>2
    <3>4. CASE next # NOPTS_VALUE /\ seg[i].pcr - 1 + PAT_DELTA >= next
      BY <3>2, <3>4
    <3> QED
      BY ONLY <1>7, <3>1, <3>2, <3>3, <3>4, new[i].pid = "video", new[i].start
  <2> QED
    BY <2>1, <2>2
<1>9. ASSUME NEW i \in DOMAIN new, NEW j \in DOMAIN new, i < j,
             new[i].pid = "video", new[i].start, new[j].pid = "video", new[j].start,
             new[j].pcr - new[i].pcr >= PAT_DELTA
      PROVE  \E k \in i..j : new[k].pid = "pat" /\ new[k + 1].pid = "pmt"
  <2>1. i \in 1..n /\ new[i] = seg[i] /\ i \in DOMAIN seg
    BY ONLY <1>1, i < j, i \in DOMAIN new, j \in DOMAIN new
  <2>2. CASE j = n + 1
    <3>1. q.start /\ q.pcr - seg[i].pcr >= PAT_DELTA
      BY ONLY <1>1, <1>9, <2>1, <2>2
    <3>2. ~(seg[i].pcr - 1 + PAT_DELTA >= next)
      BY <1>3, <1>4, <2>1, <3>1 DEF PAT_DELTA
    <3>3. PICK k \in i..(n - 1) : Tables(seg, k)
      BY ONLY <1>7, <1>9, <2>1, <3>2
    <3>4. k \in 1..(n - 1) /\ k \in i..j
      BY ONLY <1>1, <2>1, <2>2, k \in i..(n - 1)
    <3> QED
      BY <1>6, <3>3, <3>4 DEF Tables
  <2>3. CASE j # n + 1
    <3>1. j \in 1..n /\ new[j] = seg[j] /\ j \in DOMAIN seg
      BY ONLY <1>1, <2>3, j \in DOMAIN new
    <3>2. PICK k \in i..j : seg[k].pid = "pat" /\ seg[k + 1].pid = "pmt"
      BY ONLY <1>9, <2>1, <3>1, FreshSegment(seg) DEF FreshSegment
    <3>3. k # j
      BY <1>9, <3>1, <3>2
    <3>4. k \in 1..(n - 1)
      BY ONLY <1>1, <2>1, <3>1, <3>3, k \in i..j
    <3> QED
      BY <1>6, <3>2, <3>4 DEF Tables
  <2> QED
    BY <2>2, <2>3
<1>10. FreshSegment(new)
  <2>1. new[1].pid = "pat" /\ new[2].pid = "pmt"
    BY <1>5 DEF Headed, Tables
  <2> QED
    BY <1>9, <2>1 DEF FreshSegment
<1> QED
  BY <1>1, <1>5, <1>8, <1>10 DEF new

(* What has been written of a segment is as fresh as the segment. *)
LEMMA FreshPrefix ==
  ASSUME NEW seg \in Seq(Packet), NEW t \in Seq(Packet), FreshSegment(seg \o t)
  PROVE  FreshSegment(seg)
<1> DEFINE n == Len(seg)
           all == seg \o t
<1>1. /\ n \in Nat /\ DOMAIN seg = 1..n /\ Len(all) \in Nat /\ Len(all) >= n
      /\ DOMAIN all = 1..Len(all)
      /\ \A i \in 1..n : all[i] = seg[i]
      /\ seg # <<>> => n > 0 /\ all # <<>>
  OBVIOUS
<1> HIDE DEF n, all
<1>2. FreshSegment(all)
  BY DEF all
<1>3. seg # <<>> => seg[1].pid = "pat"
  <2> SUFFICES ASSUME seg # <<>>
               PROVE  seg[1].pid = "pat"
    OBVIOUS
  <2>1. 1 \in 1..n /\ all # <<>>
    BY <1>1
  <2> QED
    BY ONLY <1>1, <1>2, <2>1 DEF FreshSegment
<1>4. Len(seg) > 1 => seg[2].pid = "pmt"
  <2> SUFFICES ASSUME n > 1
               PROVE  seg[2].pid = "pmt"
    BY DEF n
  <2>1. 2 \in 1..n /\ Len(all) > 1
    BY <1>1
  <2> QED
    BY ONLY <1>1, <1>2, <2>1 DEF FreshSegment
<1>5. ASSUME NEW i \in DOMAIN seg, NEW j \in DOMAIN seg, i < j,
             seg[i].pid = "video", seg[i].start, seg[j].pid = "video", seg[j].start,
             seg[j].pcr - seg[i].pcr >= PAT_DELTA
      PROVE  \E k \in i..j : seg[k].pid = "pat" /\ seg[k + 1].pid = "pmt"
  <2>1. /\ i \in 1..n /\ j \in 1..n /\ i \in DOMAIN all /\ j \in DOMAIN all
        /\ all[i] = seg[i] /\ all[j] = seg[j]
    BY <1>1
  <2>2. PICK k \in i..j : all[k].pid = "pat" /\ all[k + 1].pid = "pmt"
    BY ONLY <1>2, <1>5, <2>1 DEF FreshSegment
  <2>3. k # j
    BY <1>5, <2>1, <2>2
  <2>4. k \in 1..n /\ k + 1 \in 1..n
    BY ONLY <1>1, <2>1, <2>3, k \in i..j
  <2> QED
    BY <1>1, <2>2, <2>4
<1> QED
  BY <1>3, <1>4, <1>5 DEF FreshSegment

-----------------------------------------------------------------------------
(* The last segment with what is in the list for it, and with the packets of *)
(* the frame being written.                                                  *)
Segment == IF files = <<>> THEN <<>> ELSE files[Len(files)] \o Buffered(bucket)

Sent == IF phase = "packets" THEN Segment \o out_buf ELSE Segment

TablesInv ==
  /\ phase # "idle" => files # <<>>
  /\ files # <<>> => Headed(Sent)
  /\ FreshSegment(Sent)
  /\ Covered(Sent, m_muxer.next_pat)
  /\ \A f \in 1..(Len(files) - 1) : FreshSegment(files[f])
  /\ m_muxer.next_pat # NOPTS_VALUE => dts + PAT_DELTA >= m_muxer.next_pat
  /\ phase = "packets" =>
       /\ m_muxer.next_pat # NOPTS_VALUE /\ dts < m_muxer.next_pat
       /\ locals.dts = dts

LEMMA EmptyBuffered ==
  ASSUME NEW b, Holds(b, 1, 0)
  PROVE  Buffered(b) = <<>>
<1>1. 1 \in 1..(MaxNodes + 1) /\ 0 \in 0..MaxNodes /\ 1 <= 0 + 1
  BY DEF MaxNodes
<1>2. \A n \in Nat : n \notin 1..0 => Buffer(b, n) = <<>>
  BY ONLY <1>1, BufferedType, Holds(b, 1, 0)
<1>3. /\ Buffer(b, 1) = <<>> /\ Buffer(b, 2) = <<>> /\ Buffer(b, 3) = <<>>
      /\ Buffer(b, 4) = <<>> /\ Buffer(b, 5) = <<>>
  BY <1>2
<1> QED
  BY ONLY <1>3, NoMore DEF Buffered

(* The tables are two packets behind what is in the list. *)
LEMMA TablesBuffered ==
  ASSUME IInv, NEW k \in 0..(MaxNodes - 2), Holds(bucket, 1, k)
  PROVE  \E t \in Seq(Packet) :
           /\ Headed(t) /\ Len(t) = 2
           /\ t[1] = Table("pat", m_muxer.pat_cc) /\ t[2] = Table("pmt", m_muxer.pmt_cc)
           /\ Buffered(WithTables) = Buffered(bucket) \o t
<1> DEFINE pat == <<Table("pat", m_muxer.pat_cc)>>
           pmt == <<Table("pmt", m_muxer.pmt_cc)>>
           one == bucket_insert(bucket, pat, TS_PACKET_SIZE)
<1>1. m_muxer.pat_cc \in Int /\ m_muxer.pmt_cc \in Int
  BY DEF IInv, TypeOK
<1>2. \A pid \in {"pat", "pmt"}, cc \in Int :
        Table(pid, cc) \in Packet /\ Table(pid, cc).pid = pid
  BY DEF Table, Packet, TS_PACKET_SIZE, NOPTS_VALUE
<1>3. /\ pat \in Seq(Packet) /\ Len(pat) = 1 /\ pat[1].pid = "pat"
      /\ pmt \in Seq(Packet) /\ Len(pmt) = 1 /\ pmt[1].pid = "pmt"
  BY <1>1, <1>2
<1>4. TS_PACKET_SIZE \in Nat
  BY DEF TS_PACKET_SIZE
<1>5. WithTables = bucket_insert(one, pmt, TS_PACKET_SIZE)
  BY DEF WithTables
<1>0. pat[1] = Table("pat", m_muxer.pat_cc) /\ pmt[1] = Table("pmt", m_muxer.pmt_cc)
  OBVIOUS
<1>6. Buffered(bucket) \in Seq(Packet)
  <2>1. 1 \in 1..(MaxNodes + 1) /\ k \in 0..MaxNodes /\ 1 <= k + 1
    BY DEF MaxNodes
  <2> QED
    BY ONLY <2>1, BufferedType, Holds(bucket, 1, k)
<1> HIDE DEF pat, pmt
<1>7. k \in 0..(MaxNodes - 1) /\ k + 1 \in 0..(MaxNodes - 1)
  BY DEF MaxNodes
<1>8. Holds(one, 1, k + 1)
  BY ONLY <1>3, <1>4, <1>7, InsertHolds, Holds(bucket, 1, k)
<1>9. Buffered(one) = Buffered(bucket) \o pat
  BY ONLY <1>3, <1>4, <1>7, InsertBuffered, Holds(bucket, 1, k)
<1> HIDE DEF one
<1>10. Buffered(WithTables) = Buffered(one) \o pmt
  BY ONLY <1>3, <1>4, <1>5, <1>7, <1>8, InsertBuffered
<1>11. Buffered(WithTables) = Buffered(bucket) \o (pat \o pmt)
  <2>1. (Buffered(bucket) \o pat) \o pmt = Buffered(bucket) \o (pat \o pmt)
    BY ONLY <1>3, <1>6
  <2> QED
    BY ONLY <1>9, <1>10, <2>1
<1>12. /\ pat \o pmt \in Seq(Packet) /\ Len(pat \o pmt) = 2
       /\ (pat \o pmt)[1] = pat[1] /\ (pat \o pmt)[2] = pmt[1]
  <2> DEFINE all == pat \o pmt
  <2>1. /\ all \in Seq(Packet) /\ Len(all) = Len(pat) + Len(pmt)
        /\ \A i \in 1..(Len(pat) + Len(pmt)) :
             all[i] = IF i <= Len(pat) THEN pat[i] ELSE pmt[i - Len(pat)]
    BY ONLY <1>3, ConcatProperties, Zenon
  <2> HIDE DEF all
  <2>2. all[1] = pat[1] /\ all[2] = pmt[1] /\ Len(all) = 2
    BY ONLY <1>3, <2>1
  <2> QED
    BY ONLY <2>1, <2>2 DEF all
<1>13. Headed(pat \o pmt)
  BY ONLY <1>3, <1>12 DEF Headed, Tables
<1> QED
  BY ONLY <1>0, <1>11, <1>12, <1>13

(* What the sequences around a step are made of. *)
SegmentTyped ==
  /\ files \in Seq(Seq(Packet)) /\ out_buf \in Seq(Packet)
  /\ Buffered(bucket) \in Seq(Packet)
  /\ Segment \in Seq(Packet) /\ Sent \in Seq(Packet)
  /\ files # <<>> => Len(files) \in 1..Len(files) /\ files[Len(files)] \in Seq(Packet)
  /\ m_muxer.next_pat \in Int /\ dts \in Nat

LEMMA SegmentTypes == IInv /\ BucketInv => SegmentTyped
<1> SUFFICES ASSUME IInv, BucketInv
             PROVE  SegmentTyped
  OBVIOUS
<1>1. files \in Seq(Seq(Packet))
  BY DEF BucketInv
<1>2. out_buf \in Seq(Packet)
  <2>1. out_buf \in Seq(FullPacket) /\ FullPacket \subseteq Packet
    BY DEF IInv, LoopInv, FullPacket, Packet
  <2> QED
    BY <2>1, SeqMonotonic
<1>3. Buffered(bucket) \in Seq(Packet)
  <2>1. PICK j \in 1..(MaxNodes + 1) : \E k \in 0..MaxNodes : Within(j, k)
    BY DEF BucketInv
  <2>2. PICK k \in 0..MaxNodes : j <= k + 1 /\ Holds(bucket, j, k)
    BY <2>1 DEF Within
  <2> QED
    BY ONLY <2>2, BufferedType, j \in 1..(MaxNodes + 1), k \in 0..MaxNodes
<1>4. files # <<>> => Len(files) \in 1..Len(files) /\ files[Len(files)] \in Seq(Packet)
  BY <1>1
<1>5. Segment \in Seq(Packet)
  BY <1>3, <1>4 DEF Segment
<1>6. Sent \in Seq(Packet)
  BY <1>2, <1>5 DEF Sent
<1>7. m_muxer.next_pat \in Int /\ dts \in Nat
  BY DEF IInv, TypeOK, NOPTS_VALUE
<1> QED
  BY <1>1, <1>2, <1>3, <1>4, <1>5, <1>6, <1>7 DEF SegmentTyped

LEMMA InitTablesInv == Init => TablesInv
<1> SUFFICES ASSUME Init
             PROVE  TablesInv
  OBVIOUS
<1>1. files = <<>> /\ Sent = <<>> /\ phase = "idle" /\ m_muxer.next_pat = NOPTS_VALUE
  BY DEF Init, Sent, Segment
<1>2. FreshSegment(<<>>) /\ Covered(<<>>, NOPTS_VALUE)
  BY DEF FreshSegment, Covered
<1> QED
  BY <1>1, <1>2 DEF TablesInv

LEMMA NextTablesInv == IInv /\ BucketInv /\ TablesInv /\ [Next]_vars => TablesInv'
<1> SUFFICES ASSUME IInv, BucketInv, TablesInv, [Next]_vars
             PROVE  TablesInv'
  OBVIOUS
<1> DEFINE last == Len(files)
           file == files[last]
           held == Buffered(bucket)
           next == m_muxer.next_pat
<1>1. PICK j \in 1..(MaxNodes + 1) : \E k \in 0..MaxNodes : Within(j, k)
  BY DEF BucketInv
<1>2. PICK k \in 0..MaxNodes : Within(j, k)
  BY <1>1
<1>3. j <= k + 1 /\ Holds(bucket, j, k)
  BY <1>2 DEF Within
<1>4. /\ files \in Seq(Seq(Packet)) /\ out_buf \in Seq(Packet) /\ held \in Seq(Packet)
      /\ Segment \in Seq(Packet) /\ Sent \in Seq(Packet)
      /\ files # <<>> => last \in 1..last /\ file \in Seq(Packet)
      /\ next \in Int /\ dts \in Nat
  BY SegmentTypes DEF SegmentTyped
<1>5. SegmentTyped'
  <2>1. IInv' /\ BucketInv'
    BY NextIInv, NextBucketInv
  <2> QED
    BY <2>1, SegmentTypes, PTL
<1>6. files # <<>> => Segment = file \o held
  BY DEF Segment
<1> HIDE DEF file
<1>7. phase # "packets" => Sent = Segment
  BY DEF Sent
<1>8. CASE WriteHeader
  <2>1. /\ phase = "idle" /\ phase' = "idle" /\ files' = Append(files, <<>>)
        /\ bucket' = WithTables /\ next' = next /\ dts' = dts /\ locals' = locals
    BY <1>8 DEF WriteHeader, Counted
  <2>2. Holds(bucket, 1, 0)
    BY <1>2, <1>8 DEF Within, WriteHeader
  <2>3. held = <<>>
    BY <2>2, EmptyBuffered
  <2>4. PICK t \in Seq(Packet) : Headed(t) /\ Len(t) = 2 /\ Buffered(WithTables) = held \o t
    <3>1. 0 \in 0..(MaxNodes - 2)
      BY DEF MaxNodes
    <3> QED
      BY ONLY <2>2, <3>1, IInv, TablesBuffered
  <2>5. <<>> \o t = t
    BY ConcatEmptySeq
  <2>6. Sent' = <<>> \o t
    <3>1. files' # <<>> /\ files'[Len(files')] = <<>>
      <4>1. <<>> \in Seq(Packet) /\ files \in Seq(Seq(Packet))
        BY <1>4
      <4> QED
        BY ONLY <2>1, <4>1, AppendProperties
    <3>2. Segment' = <<>> \o Buffered(bucket')
      BY ONLY <3>1 DEF Segment
    <3>3. Buffered(bucket') = t
      BY ONLY <2>1, <2>3, <2>4, <2>5
    <3>4. Sent' = Segment'
      BY <2>1 DEF Sent
    <3> QED
      BY ONLY <3>2, <3>3, <3>4
  <2>7. Headed(<<>> \o t) /\ FreshSegment(<<>> \o t) /\ Covered(<<>> \o t, next)
    <3>1. FreshSegment(<<>>) /\ <<>> \in Seq(Packet)
      BY DEF FreshSegment
    <3> QED
      BY ONLY <2>4, <3>1, TablesAppended
  <2>8. \A f \in 1..(Len(files') - 1) : FreshSegment(files'[f])
    <3> SUFFICES ASSUME NEW f \in 1..last
                 PROVE  FreshSegment(files[f])
      BY <1>4, <2>1
    <3>1. CASE f = last
      <4>1. files # <<>>
        BY <1>4
      <4>2. Sent = file \o <<>> /\ file \in Seq(Packet)
        BY <1>4, <1>6, <1>7, <2>1, <2>3, <4>1
      <4>3. file \o <<>> = file
        BY <4>2, ConcatEmptySeq
      <4> QED
        BY ONLY <3>1, <4>2, <4>3, TablesInv DEF TablesInv, file
    <3>2. CASE f # last
      <4>1. f \in 1..(last - 1)
        BY <1>4, <3>2
      <4> QED
        BY <4>1 DEF TablesInv
    <3> QED
      BY <3>1, <3>2
  <2> QED
    BY <2>1, <2>6, <2>7, <2>8 DEF TablesInv
<1>9. CASE \E header \in FirstHeaders, size \in Sizes, step \in Steps, delay \in Delays :
             WriteVideoPacket(header, size, step, delay)
  <2>1. PICK header \in FirstHeaders, size \in Sizes, step \in Steps, delay \in Delays :
          WriteVideoPacket(header, size, step, delay)
    BY <1>9
  <2>2. /\ phase = "idle" /\ phase' = "packets" /\ files' = files /\ files # <<>>
        /\ out_buf' = <<>> /\ dts' = dts + step /\ locals'.dts = dts'
    BY <2>1 DEF WriteVideoPacket
  <2>3. step \in Nat \ {0}
    BY StepsAssumption
  <2>4. Sent' = Segment' /\ Segment' = file \o Buffered(bucket')
    <3>1. Segment' = file \o Buffered(bucket')
      BY ONLY <2>2 DEF Segment, file
    <3>2. Segment' \in Seq(Packet)
      BY <1>5 DEF SegmentTyped
    <3>3. Segment' \o <<>> = Segment'
      BY ONLY <3>2, ConcatEmptySeq
    <3> QED
      BY ONLY <2>2, <3>1, <3>3 DEF Sent
  <2>5. Headed(Sent) /\ FreshSegment(Sent) /\ Covered(Sent, next)
    BY <2>2 DEF TablesInv
  <2>6. Sent = file \o held
    BY <1>6, <1>7, <2>2
  <2>7. \A f \in 1..(Len(files') - 1) : FreshSegment(files'[f])
    BY <2>2 DEF TablesInv
  <2>8. CASE TablesDue(dts + step)
    <3>1. bucket' = WithTables /\ next' = dts' + PAT_DELTA
      <4>1. /\ bucket' = WithTables
            /\ m_muxer' = [Counted EXCEPT !.next_pat = dts + step + PAT_DELTA]
        BY <2>1, <2>8 DEF WriteVideoPacket
      <4>2. m_muxer \in Muxers
        BY DEF IInv, TypeOK, Muxers
      <4>3. "next_pat" \in DOMAIN Counted
        BY <4>2 DEF Counted, Muxers
      <4> QED
        BY <2>2, <4>1, <4>3
    <3>2. Holds(bucket, 1, k) /\ k \in 0..(MaxNodes - 2)
      BY <1>2, <2>2 DEF Within, MaxNodes
    <3>3. PICK t \in Seq(Packet) : Headed(t) /\ Len(t) = 2 /\ Buffered(WithTables) = held \o t
      BY ONLY <3>2, IInv, TablesBuffered
    <3>4. Sent' = Sent \o t
      <4>1. file \in Seq(Packet) /\ held \in Seq(Packet)
        BY <1>4, <2>2
      <4>2. (file \o held) \o t = file \o (held \o t)
        <5> HIDE DEF held
        <5> QED
          BY ONLY <4>1, t \in Seq(Packet)
      <4> QED
        BY ONLY <2>4, <2>6, <3>1, <3>3, <4>2
    <3>5. Headed(Sent \o t) /\ FreshSegment(Sent \o t) /\ Covered(Sent \o t, next')
      BY ONLY <1>4, <2>5, <3>3, TablesAppended
    <3>6. next' # NOPTS_VALUE /\ dts' < next' /\ dts' + PAT_DELTA >= next'
      BY <1>4, <2>2, <2>3, <3>1 DEF NOPTS_VALUE, PAT_DELTA
    <3> QED
      BY <2>2, <2>7, <3>4, <3>5, <3>6 DEF TablesInv
  <2>9. CASE ~TablesDue(dts + step)
    <3>1. bucket' = bucket /\ m_muxer' = m_muxer
      BY <2>1, <2>9 DEF WriteVideoPacket
    <3>2. next' = next /\ next # NOPTS_VALUE /\ dts + step < next
      BY <1>4, <2>3, <2>9, <3>1 DEF TablesDue
    <3>3. Sent' = Sent
      BY ONLY <2>4, <2>6, <3>1
    <3>4. dts + PAT_DELTA >= next
      BY <3>2 DEF TablesInv
    <3>5. dts' < next' /\ dts' + PAT_DELTA >= next'
      BY <1>4, <2>2, <2>3, <3>2, <3>4 DEF PAT_DELTA
    <3> QED
      BY <2>2, <2>5, <2>7, <3>2, <3>3, <3>5 DEF TablesInv
  <2> QED
    BY <2>8, <2>9
<1>10. CASE NotAnnexB
  <2>1. /\ phase = "idle" /\ phase' = "drain" /\ files # <<>> /\ files' = files
        /\ bucket' = bucket /\ m_muxer' = m_muxer /\ dts' = dts
    BY <1>10 DEF NotAnnexB
  <2>2. Sent' = Sent
    BY <2>1 DEF Sent, Segment
  <2> QED
    BY <2>1, <2>2 DEF TablesInv
<1>11. CASE WriteTsPacket
  <2>1. /\ phase = "packets" /\ phase' = "packets" /\ files' = files /\ files # <<>>
        /\ bucket' = bucket /\ m_muxer' = m_muxer /\ dts' = dts
        /\ locals' = AfterPacket(locals)
    BY <1>11 DEF WriteTsPacket, TablesInv
  <2>2. /\ next # NOPTS_VALUE /\ dts < next /\ locals.dts = dts
        /\ dts + PAT_DELTA >= next
        /\ Headed(Sent) /\ FreshSegment(Sent) /\ Covered(Sent, next)
    BY <2>1 DEF TablesInv
  <2>3. PICK q : /\ out_buf' = Append(out_buf, q)
                 /\ q.pid = "video" /\ q.start = locals.is_start
                 /\ q.start => q.pcr = locals.dts + 1
    BY <1>11 DEF WriteTsPacket
  <2>4. q \in Packet
    <3>1. out_buf' \in Seq(Packet)
      BY <1>5 DEF SegmentTyped
    <3>2. out_buf' \in Seq(Packet) /\ Len(out_buf) + 1 \in 1..Len(out_buf')
          /\ out_buf'[Len(out_buf) + 1] = q
      BY <1>4, <2>3, <3>1
    <3> QED
      BY ONLY <3>2, ElementOfSeq
  <2>5. Sent' = Append(Sent, q)
    <3>1. Segment' = Segment
      BY <2>1 DEF Segment
    <3>2. Sent = Segment \o out_buf /\ Sent' = Segment \o Append(out_buf, q)
      BY <2>1, <2>3, <3>1 DEF Sent
    <3>3. Segment \o Append(out_buf, q) = Append(Segment \o out_buf, q)
      BY ONLY <1>4, <2>4
    <3> QED
      BY ONLY <3>2, <3>3
  <2>6. q.start => q.pcr - 1 < next /\ q.pcr - 1 + PAT_DELTA >= next
    BY <1>4, <2>2, <2>3 DEF PAT_DELTA
  <2>7. /\ Headed(Append(Sent, q)) /\ FreshSegment(Append(Sent, q))
        /\ Covered(Append(Sent, q), next)
    BY ONLY <1>4, <2>2, <2>3, <2>4, <2>6, PacketAppended
  <2>8. locals'.dts = dts
    BY <2>1, <2>2 DEF AfterPacket
  <2>9. \A f \in 1..(Len(files') - 1) : FreshSegment(files'[f])
    BY <2>1 DEF TablesInv
  <2> QED
    BY <2>1, <2>2, <2>5, <2>7, <2>8, <2>9 DEF TablesInv
<1>12. CASE InsertPackets
  <2>1. /\ phase = "packets" /\ phase' = "drain" /\ files' = files /\ files # <<>>
        /\ bucket' = bucket_insert(bucket, out_buf, Len(out_buf) * TS_PACKET_SIZE)
        /\ m_muxer' = m_muxer /\ dts' = dts
    BY <1>12 DEF InsertPackets, TablesInv
  <2>2. Buffered(bucket') = held \o out_buf
    <3>1. Holds(bucket, 1, k) /\ k \in 0..(MaxNodes - 1)
      BY <1>2, <2>1 DEF Within, MaxNodes
    <3>2. Len(out_buf) * TS_PACKET_SIZE \in Nat
      BY <1>4 DEF TS_PACKET_SIZE
    <3> QED
      BY ONLY <1>4, <2>1, <3>1, <3>2, InsertBuffered
  <2>3. Sent' = Sent
    <3>1. Sent = (file \o held) \o out_buf
      BY <1>6, <2>1 DEF Sent
    <3>2. Sent' = file \o (held \o out_buf)
      BY ONLY <2>1, <2>2 DEF Sent, Segment, file
    <3>3. (file \o held) \o out_buf = file \o (held \o out_buf)
      <4>1. file \in Seq(Packet) /\ held \in Seq(Packet) /\ out_buf \in Seq(Packet)
        BY <1>4, <2>1
      <4> HIDE DEF held
      <4> QED
        BY ONLY <4>1
    <3> QED
      BY ONLY <3>1, <3>2, <3>3
  <2> QED
    BY <2>1, <2>3 DEF TablesInv
<1>13. CASE Drain
  <2> DEFINE got == Retrieved(bucket)
             left == Buffered(bucket')
  <2>1. /\ phase = "drain" /\ phase' = "drain" /\ files # <<>>
        /\ files' = [files EXCEPT ![last] = file \o got]
        /\ bucket' = bucket_retrieve(bucket)
        /\ m_muxer' = m_muxer /\ dts' = dts
    BY <1>13 DEF Drain, TablesInv, file
  <2>2. j \in 1..MaxNodes /\ k \in j..MaxNodes
    <3>1. j # k + 1
      BY <1>3, <1>13, EmptyHolds DEF Drain
    <3> QED
      BY <1>3, <3>1 DEF MaxNodes
  <2>3. held = got \o left /\ got \in Seq(Packet)
    BY ONLY <1>3, <2>1, <2>2, RetrieveBuffered, RetrieveHolds
  <2>4. left \in Seq(Packet)
    <3>1. Buffered(bucket)' \in Seq(Packet)
      BY <1>5 DEF SegmentTyped
    <3> QED
      BY <3>1
  <2> HIDE DEF got, left
  <2>5. /\ Len(files') = last /\ files' # <<>>
        /\ files'[last] = file \o got
        /\ \A f \in 1..(last - 1) : files'[f] = files[f]
    BY <1>4, <2>1
  <2>6. Sent' = Sent
    <3>1. Sent = file \o (got \o left)
      BY ONLY <1>6, <1>7, <2>1, <2>3
    <3>2. Sent' = (file \o got) \o left
      BY ONLY <2>1, <2>5 DEF Sent, Segment, left
    <3>3. (file \o got) \o left = file \o (got \o left)
      <4>1. file \in Seq(Packet)
        BY <1>4, <2>1
      <4> QED
        BY ONLY <2>3, <2>4, <4>1
    <3> QED
      BY ONLY <3>1, <3>2, <3>3
  <2>7. \A f \in 1..(Len(files') - 1) : FreshSegment(files'[f])
    BY <2>5 DEF TablesInv
  <2> QED
    BY <2>1, <2>5, <2>6, <2>7 DEF TablesInv
<1>14. CASE Drained
  <2>1. /\ phase = "drain" /\ phase' = "idle" /\ files' = files
        /\ bucket' = bucket /\ m_muxer' = m_muxer /\ dts' = dts
    BY <1>14 DEF Drained
  <2>2. Sent' = Sent
    BY <2>1 DEF Sent, Segment
  <2> QED
    BY <2>1, <2>2 DEF TablesInv
<1>15. CASE UNCHANGED vars
  <2>1. /\ phase' = phase /\ files' = files /\ bucket' = bucket /\ out_buf' = out_buf
        /\ m_muxer' = m_muxer /\ dts' = dts /\ locals' = locals
    BY <1>15 DEF vars
  <2>2. Sent' = Sent
    BY <2>1 DEF Sent, Segment
  <2> QED
    BY <2>1, <2>2 DEF TablesInv
<1> QED
  BY <1>8, <1>9, <1>10, <1>11, <1>12, <1>13, <1>14, <1>15 DEF Next

LEMMA TablesInvariant == Spec => []TablesInv
<1>1. IInv /\ BucketInv /\ TablesInv /\ [Next]_vars => TablesInv'
  BY NextTablesInv
<1> QED
  BY <1>1, InitTablesInv, IInvInvariant, BucketInvariant, PTL DEF Spec

(* A receiver that joins at a segment, or at any time, finds the tables:     *)
(* every segment begins with them, and two frames that are 100 ms or more    *)
(* apart have them between, however the stream is cut.                       *)
THEOREM TablesFreshInvariant == Spec => []TablesFresh
<1>1. IInv /\ BucketInv /\ TablesInv => TablesFresh
  <2> SUFFICES ASSUME IInv, BucketInv, TablesInv, NEW f \in DOMAIN files
               PROVE  FreshSegment(files[f])
    BY DEF TablesFresh, FreshSegment
  <2>1. /\ files \in Seq(Seq(Packet)) /\ out_buf \in Seq(Packet)
        /\ Buffered(bucket) \in Seq(Packet)
        /\ files # <<>> => Len(files) \in 1..Len(files)
                           /\ files[Len(files)] \in Seq(Packet)
    BY SegmentTypes DEF SegmentTyped
  <2>2. f \in 1..Len(files) /\ files # <<>>
    BY <2>1
  <2>3. CASE f # Len(files)
    <3>1. f \in 1..(Len(files) - 1)
      BY <2>1, <2>2, <2>3
    <3> QED
      BY <3>1 DEF TablesInv
  <2>4. CASE f = Len(files)
    <3> DEFINE file == files[Len(files)]
               held == Buffered(bucket)
    <3>1. file \in Seq(Packet) /\ held \in Seq(Packet) /\ out_buf \in Seq(Packet)
      BY <2>1, <2>2
    <3>2. Sent = IF phase = "packets" THEN (file \o held) \o out_buf ELSE file \o held
      BY <2>2 DEF Sent, Segment
    <3>3. FreshSegment(Sent)
      BY DEF TablesInv
    <3> HIDE DEF file, held
    <3>4. (file \o held) \o out_buf = file \o (held \o out_buf)
      BY ONLY <3>1
    <3>5. held \o out_buf \in Seq(Packet)
      BY ONLY <3>1
    <3>6. PICK t \in Seq(Packet) : Sent = file \o t
      BY ONLY <3>1, <3>2, <3>4, <3>5
    <3>7. FreshSegment(file)
      BY ONLY <3>1, <3>3, <3>6, FreshPrefix
    <3> QED
      BY ONLY <2>4, <3>7 DEF file
  <2> QED
    BY <2>3, <2>4
<1> QED
  BY <1>1, BucketInvariant, TablesInvariant, IInvInvariant, PTL

-----------------------------------------------------------------------------
(* The stream as a receiver sees it, over all segments.                    *)

(* What a receiver has of each frame is its length. *)
LEMMA AssembledType ==
  ASSUME NEW lengths \in Seq(Int), NEW p \in Packet
  PROVE  Assembled(lengths, p) \in Seq(Int)
<1>1. p.data \in Int /\ Torn \in Int
  BY DEF Packet, Torn
<1> DEFINE first == IF p.from = 0 THEN p.data ELSE Torn
           more == [lengths EXCEPT ![Len(lengths)] = IF p.from = @ THEN @ + p.data ELSE Torn]
<1>2. Append(lengths, first) \in Seq(Int)
  BY <1>1
<1>3. more \in Seq(Int)
  <2>1. CASE lengths = <<>>
    <3>1. Len(lengths) \notin DOMAIN lengths
      BY <2>1
    <3>2. more = lengths
      BY <3>1
    <3> QED
      BY <3>2
  <2>2. CASE lengths # <<>>
    <3>1. Len(lengths) \in 1..Len(lengths) /\ lengths[Len(lengths)] \in Int
      BY <2>2
    <3>2. (IF p.from = lengths[Len(lengths)] THEN lengths[Len(lengths)] + p.data ELSE Torn) \in Int
      BY <1>1, <3>1
    <3> QED
      BY <3>1, <3>2
  <2> QED
    BY <2>1, <2>2
<1> QED
  BY <1>2, <1>3 DEF Assembled

(* A receiver takes the packets one by one. *)
AssembleStep(s) ==
  [k \in 1..Len(s) |-> [lengths \in Seq(Int) |-> Assembled(lengths, s[k])]]

(* After each packet the receiver has what Assembled says. *)
LEMMA ReceivedIs ==
  ASSUME NEW s \in Seq(Packet)
  PROVE  \E f \in [0..Len(s) -> Seq(Int)] :
           /\ f[0] = <<>>
           /\ \A k \in 1..Len(s) : f[k] = Assembled(f[k - 1], s[k])
           /\ Received(s) = f[Len(s)]
<1> DEFINE n == Len(s)
           F == AssembleStep(s)
           Receiving(g) == g = [k \in 0..n |-> IF k = 0 THEN <<>> ELSE Assembled(g[k - 1], s[k])]
           after == CHOOSE g : Receiving(g)
<1>1. n \in Nat /\ \A k \in 1..n : s[k] \in Packet
  OBVIOUS
<1>2. F \in [1..n -> [Seq(Int) -> Seq(Int)]]
  <2>1. \A k \in 1..n, lengths \in Seq(Int) : Assembled(lengths, s[k]) \in Seq(Int)
    BY <1>1, AssembledType
  <2> QED
    BY <2>1 DEF AssembleStep
<1>3. <<>> \in Seq(Int)
  OBVIOUS
<1> HIDE DEF F, n
<1>4. PICK f : f \in [0..n -> Seq(Int)] /\ Recursive(f, n, <<>>, F)
  BY ONLY <1>1, <1>2, <1>3, RecursiveExists
<1>5. ASSUME NEW k \in 1..n
      PROVE  f[k] = Assembled(f[k - 1], s[k])
  <2>1. k - 1 \in 0..n
    BY <1>1
  <2>2. f[k] = F[k][f[k - 1]] /\ f[k - 1] \in Seq(Int)
    BY <1>4, <2>1 DEF Recursive
  <2> QED
    BY <2>2 DEF F, AssembleStep, n
<1>6. Receiving(f)
  <2>1. f[0] = <<>> /\ DOMAIN f = 0..n
    BY <1>4 DEF Recursive
  <2>2. \A k \in 0..n : k # 0 => k \in 1..n
    BY <1>1
  <2> QED
    BY ONLY <1>4, <1>5, <2>1, <2>2
<1>7. Receiving(after)
  <2> HIDE DEF Receiving
  <2> QED
    BY ONLY <1>6
<1> HIDE DEF after
<1>8. after[0] = <<>> /\ \A k \in 1..n : after[k] = Assembled(after[k - 1], s[k])
  <2>1. after = [k \in 0..n |-> IF k = 0 THEN <<>> ELSE Assembled(after[k - 1], s[k])]
    BY ONLY <1>7
  <2>2. \A k \in 0..n : after[k] = IF k = 0 THEN <<>> ELSE Assembled(after[k - 1], s[k])
    BY ONLY <2>1
  <2>3. 0 \in 0..n /\ \A k \in 1..n : k \in 0..n /\ k # 0
    BY <1>1
  <2> QED
    BY ONLY <2>2, <2>3
<1>9. \A k \in 0..n : after[k] = f[k]
  <2>1. f[0] = <<>>
    BY <1>4 DEF Recursive
  <2>2. \A k \in 1..n : after[k - 1] = f[k - 1] => after[k] = f[k]
    BY ONLY <1>5, <1>8
  <2>3. after[0] = f[0]
    BY ONLY <1>8, <2>1
  <2>4. n \in Nat
    BY ONLY <1>1
  <2> QED
    BY ONLY <2>2, <2>3, <2>4, AgreeUpto
<1>10. Received(s) = after[n]
  BY DEF Received, after, n
<1>11. Received(s) = f[n]
  BY <1>1, <1>9, <1>10
<1>12. f[0] = <<>>
  BY <1>4 DEF Recursive
<1> QED
  BY ONLY <1>4, <1>5, <1>11, <1>12 DEF n

(* One packet more. *)
LEMMA ReceivedGrows ==
  ASSUME NEW s \in Seq(Packet), NEW p \in Packet
  PROVE  /\ Received(<<>>) = <<>>
         /\ Received(s) \in Seq(Int)
         /\ Received(Append(s, p)) = Assembled(Received(s), p)
<1> DEFINE n == Len(s)
           more == Append(s, p)
<1>1. /\ n \in Nat /\ more \in Seq(Packet) /\ Len(more) = n + 1
      /\ more[n + 1] = p /\ \A k \in 1..n : more[k] = s[k]
  OBVIOUS
<1>2. PICK f :
        /\ f \in [0..n -> Seq(Int)]
        /\ f[0] = <<>>
        /\ \A k \in 1..n : f[k] = Assembled(f[k - 1], s[k])
        /\ Received(s) = f[n]
  BY ReceivedIs
<1> HIDE DEF more
<1>3. PICK g :
        /\ g \in [0..Len(more) -> Seq(Int)]
        /\ g[0] = <<>>
        /\ \A k \in 1..Len(more) : g[k] = Assembled(g[k - 1], more[k])
        /\ Received(more) = g[Len(more)]
  BY ONLY <1>1, ReceivedIs
<1> HIDE DEF n
<1>4. \A k \in 1..n : g[k] = Assembled(g[k - 1], s[k])
  <2>1. \A k \in 1..n : k \in 1..Len(more)
    BY <1>1
  <2> QED
    BY ONLY <1>1, <1>3, <2>1
<1>5. \A k \in 0..n : f[k] = g[k]
  <2>1. f[0] = g[0]
    BY ONLY <1>2, <1>3
  <2>2. \A k \in 1..n : f[k - 1] = g[k - 1] => f[k] = g[k]
    BY ONLY <1>2, <1>4
  <2>3. n \in Nat
    BY ONLY <1>1
  <2> QED
    BY ONLY <2>1, <2>2, <2>3, AgreeUpto
<1>6. g[n + 1] = Assembled(g[n], p)
  <2> DEFINE m == Len(more)
  <2>1. m \in 1..m /\ m - 1 = n /\ m = n + 1
    BY ONLY <1>1
  <2>2. \A k \in 1..m : g[k] = Assembled(g[k - 1], more[k])
    BY ONLY <1>3
  <2> HIDE DEF m
  <2>3. g[m] = Assembled(g[m - 1], more[m])
    BY ONLY <2>1, <2>2
  <2>4. more[m] = p
    BY ONLY <1>1, <2>1
  <2> QED
    BY ONLY <2>1, <2>3, <2>4
<1>7. Received(s) \in Seq(Int) /\ Received(more) = Assembled(Received(s), p)
  <2>1. n \in 0..n
    BY <1>1
  <2>2. f[n] \in Seq(Int) /\ Received(s) = f[n]
    BY ONLY <1>2, <2>1
  <2>3. Received(more) = g[n + 1] /\ f[n] = g[n]
    BY ONLY <1>1, <1>3, <1>5, <2>1
  <2> QED
    BY ONLY <1>6, <2>2, <2>3
<1>8. Received(<<>>) = <<>>
  <2>1. <<>> \in Seq(Packet) /\ Len(<<>>) = 0
    OBVIOUS
  <2>2. PICK h \in [0..0 -> Seq(Int)] : h[0] = <<>> /\ Received(<<>>) = h[0]
    BY <2>1, ReceivedIs
  <2> QED
    BY ONLY <2>2
<1> QED
  BY ONLY <1>7, <1>8 DEF more
-----------------------------------------------------------------------------
(* What was written, with what is in the list for it and with the packets of *)
(* the frame being written.                                                  *)
Pending == IF phase = "packets" THEN Buffered(bucket) \o out_buf ELSE Buffered(bucket)

Stream == Output \o Pending

(* What was sent when a table follows, and when the packet of a frame does. *)
VideoPacket ==
  [pid |-> "video", cc |-> m_vstream.cc, start |-> locals.is_start,
   af |-> Stuffing(locals) + IF locals.is_start THEN PcrSize ELSE 0,
   discontinuity |-> locals.discontinuity,
   pes |-> IF locals.is_start THEN PesHeaderSize(locals.dts, locals.pts) ELSE 0,
   from |-> locals.payload, data |-> DataLen(locals),
   pcr |-> IF locals.is_start THEN locals.dts + 1 ELSE NOPTS_VALUE]

PatPacket == Table("pat", m_muxer.pat_cc)

PmtPacket == Table("pmt", m_muxer.pmt_cc)

(* The counters of a step that writes no packet of the video. *)
Stays ==
  /\ Stream' = Stream
  /\ m_vstream'.cc = m_vstream.cc
  /\ m_muxer'.pat_cc = m_muxer.pat_cc
  /\ m_muxer'.pmt_cc = m_muxer.pmt_cc

AddsTables ==
  /\ Stream' = Append(Append(Stream, PatPacket), PmtPacket)
  /\ m_vstream'.cc = m_vstream.cc
  /\ m_muxer'.pat_cc = NextCc(m_muxer.pat_cc)
  /\ m_muxer'.pmt_cc = NextCc(m_muxer.pmt_cc)

AddsVideo ==
  /\ Stream' = Append(Stream, VideoPacket)
  /\ m_vstream'.cc = NextCc(m_vstream.cc)
  /\ m_muxer'.pat_cc = m_muxer.pat_cc
  /\ m_muxer'.pmt_cc = m_muxer.pmt_cc

(* The packets a step can add are packets. *)
LEMMA PacketTypes ==
  ASSUME IInv
  PROVE  /\ PatPacket \in Packet /\ PatPacket.pid = "pat" /\ PatPacket.cc = m_muxer.pat_cc
         /\ PmtPacket \in Packet /\ PmtPacket.pid = "pmt" /\ PmtPacket.cc = m_muxer.pmt_cc
         /\ VideoPacket \in Packet /\ VideoPacket.pid = "video"
         /\ VideoPacket.cc = m_vstream.cc /\ VideoPacket.start = locals.is_start
         /\ VideoPacket.data = DataLen(locals) /\ VideoPacket.from = locals.payload
<1>1. m_muxer.pat_cc \in Int /\ m_muxer.pmt_cc \in Int /\ m_vstream.cc \in Int
  BY DEF IInv, TypeOK
<1>2. locals \in Locals
  BY DEF IInv, TypeOK, Locals
<1>3. \A pid \in {"pat", "pmt"}, cc \in Int :
        Table(pid, cc) \in Packet /\ Table(pid, cc).pid = pid /\ Table(pid, cc).cc = cc
  BY DEF Table, Packet, TS_PACKET_SIZE, NOPTS_VALUE
<1>4. DataLen(locals) \in Int /\ Stuffing(locals) \in Int
  BY <1>2 DEF Locals, DataLen, Stuffing, Header, PcrSize, PesHeaderSize, TS_PACKET_SIZE
<1>5. /\ locals.is_start \in BOOLEAN /\ locals.discontinuity \in BOOLEAN
      /\ locals.dts \in Nat /\ locals.pts \in Nat /\ locals.payload \in Nat
  BY <1>2 DEF Locals
<1>6. VideoPacket \in Packet
  BY <1>1, <1>4, <1>5 DEF VideoPacket, Packet, PcrSize, PesHeaderSize, NOPTS_VALUE
<1> QED
  BY <1>1, <1>3, <1>6 DEF PatPacket, PmtPacket, VideoPacket

(* Two packets behind a sequence. *)
LEMMA AppendTwo ==
  ASSUME NEW s \in Seq(Packet), NEW t \in Seq(Packet), Len(t) = 2
  PROVE  s \o t = Append(Append(s, t[1]), t[2])
<1> DEFINE one == Append(s, t[1])
           two == Append(one, t[2])
           n == Len(s)
           all == s \o t
<1>1. n \in Nat /\ t[1] \in Packet /\ t[2] \in Packet
  <2>1. 1 \in 1..Len(t) /\ 2 \in 1..Len(t)
    OBVIOUS
  <2>2. \A i \in 1..Len(t) : t[i] \in Packet
    BY ONLY t \in Seq(Packet), ElementOfSeq
  <2> QED
    BY <2>1, <2>2
<1>2. /\ one \in Seq(Packet) /\ Len(one) = n + 1 /\ one[n + 1] = t[1]
      /\ \A i \in 1..n : one[i] = s[i]
  BY <1>1
<1> HIDE DEF one
<1>3. /\ two \in Seq(Packet) /\ Len(two) = n + 2 /\ two[n + 2] = t[2]
      /\ \A i \in 1..(n + 1) : two[i] = one[i]
  BY ONLY <1>1, <1>2
<1>4. /\ all \in Seq(Packet) /\ Len(all) = n + Len(t)
      /\ \A i \in 1..(n + Len(t)) : all[i] = IF i <= n THEN s[i] ELSE t[i - n]
  BY ONLY s \in Seq(Packet), t \in Seq(Packet), ConcatProperties, Zenon
<1> HIDE DEF two, all, n
<1>5. ASSUME NEW i \in 1..(n + 2)
      PROVE  all[i] = two[i]
  <2>0. all[i] = IF i <= n THEN s[i] ELSE t[i - n]
    BY ONLY <1>4, Len(t) = 2, i \in 1..(n + 2)
  <2>1. CASE i <= n
    <3>1. i \in 1..n /\ i \in 1..(n + 1)
      BY ONLY <1>1, <2>1, i \in 1..(n + 2)
    <3> QED
      BY ONLY <1>2, <1>3, <2>0, <2>1, <3>1
  <2>2. CASE i = n + 1
    <3>1. ~(i <= n) /\ i - n = 1 /\ n + 1 \in 1..(n + 1)
      BY ONLY <1>1, <2>2
    <3> QED
      BY ONLY <1>2, <1>3, <2>0, <2>2, <3>1
  <2>3. CASE i = n + 2
    <3>1. ~(i <= n) /\ i - n = 2
      BY ONLY <1>1, <2>3
    <3> QED
      BY ONLY <1>3, <2>0, <2>3, <3>1
  <2> QED
    BY ONLY <1>1, <2>1, <2>2, <2>3, i \in 1..(n + 2)
<1>6. Len(all) = n + 2
  BY ONLY <1>4, Len(t) = 2
<1>7. all = two
  BY ONLY <1>1, <1>3, <1>4, <1>5, <1>6, SeqEqual
<1> QED
  BY ONLY <1>7 DEF all, two, one

(* What the sequences are made of. *)
StreamTyped ==
  /\ Output \in Seq(Packet) /\ Pending \in Seq(Packet) /\ Stream \in Seq(Packet)

LEMMA StreamTypes == IInv /\ BucketInv => StreamTyped
<1> SUFFICES ASSUME IInv, BucketInv
             PROVE  StreamTyped
  OBVIOUS
<1>1. /\ files \in Seq(Seq(Packet)) /\ out_buf \in Seq(Packet)
      /\ Buffered(bucket) \in Seq(Packet)
  BY SegmentTypes DEF SegmentTyped
<1>2. Output \in Seq(Packet)
  BY <1>1, FlattenGrows, <<>> \in Seq(Packet) DEF Output
<1>3. Pending \in Seq(Packet)
  BY <1>1 DEF Pending
<1>4. Stream \in Seq(Packet)
  BY ONLY <1>2, <1>3, ConcatProperties DEF Stream
<1> QED
  BY <1>2, <1>3, <1>4 DEF StreamTyped
(* Every step leaves the stream as it is, or adds the tables or one packet of *)
(* a frame to it, and counts what it adds; and what is not in the files yet   *)
(* when the muxer is idle is tables.                                          *)
LEMMA StreamMoves ==
  ASSUME IInv, BucketInv, TablesInv, [Next]_vars
  PROVE  /\ WriteTsPacket => AddsVideo
         /\ ~WriteTsPacket => Stays \/ AddsTables
         /\ phase' = "idle" => Output' = Output
         /\ phase = "drain" /\ phase' = "idle" => Output = Stream
<1> DEFINE last == Len(files)
           held == Buffered(bucket)
<1>1. PICK j \in 1..(MaxNodes + 1) : \E k \in 0..MaxNodes : Within(j, k)
  BY DEF BucketInv
<1>2. PICK k \in 0..MaxNodes : Within(j, k)
  BY <1>1
<1>3. j <= k + 1 /\ Holds(bucket, j, k)
  BY <1>2 DEF Within
<1>4. /\ files \in Seq(Seq(Packet)) /\ out_buf \in Seq(Packet) /\ held \in Seq(Packet)
      /\ Output \in Seq(Packet) /\ Stream \in Seq(Packet)
  BY SegmentTypes, StreamTypes DEF SegmentTyped, StreamTyped
<1>5. StreamTyped' /\ SegmentTyped'
  <2>1. IInv' /\ BucketInv'
    BY NextIInv, NextBucketInv
  <2> QED
    BY <2>1, SegmentTypes, StreamTypes, PTL
<1>6. phase # "packets" => Stream = Output \o held
  BY DEF Stream, Pending
<1>7. phase' # "packets" => Stream' = Output' \o held'
  BY DEF Stream, Pending
<1>8. m_muxer \in Muxers
  BY DEF IInv, TypeOK, Muxers
<1>9. ASSUME NEW n \in 0..(MaxNodes - 2), Holds(bucket, 1, n), phase = "idle",
             bucket' = WithTables, Output' = Output
      PROVE  Output' \o held' = Append(Append(Stream, PatPacket), PmtPacket)
  <2>1. PICK t \in Seq(Packet) :
          /\ Len(t) = 2 /\ t[1] = PatPacket /\ t[2] = PmtPacket
          /\ Buffered(WithTables) = held \o t
    BY ONLY <1>9, IInv, TablesBuffered DEF PatPacket, PmtPacket
  <2>2. held' = held \o t
    BY <1>9, <2>1
  <2>3. (Output \o held) \o t = Output \o (held \o t)
    <3> HIDE DEF held
    <3> QED
      BY ONLY <1>4, t \in Seq(Packet)
  <2>4. Stream \o t = Append(Append(Stream, t[1]), t[2])
    BY ONLY <1>4, <2>1, AppendTwo
  <2>5. Stream = Output \o held
    BY ONLY <1>6, <1>9
  <2> QED
    BY ONLY <1>9, <2>1, <2>2, <2>3, <2>4, <2>5
<1>10. "next_pat" \in DOMAIN Counted /\ Counted.pat_cc = NextCc(m_muxer.pat_cc)
       /\ Counted.pmt_cc = NextCc(m_muxer.pmt_cc)
       /\ \A d : LET c == [Counted EXCEPT !.next_pat = d]
                 IN c.pat_cc = Counted.pat_cc /\ c.pmt_cc = Counted.pmt_cc
  BY <1>8 DEF Counted, Muxers
<1>11. CASE WriteHeader
  <2>1. /\ phase = "idle" /\ phase' = "idle" /\ files' = Append(files, <<>>)
        /\ bucket' = WithTables /\ m_muxer' = Counted /\ m_vstream' = m_vstream
    BY <1>11 DEF WriteHeader
  <2>2. Holds(bucket, 1, 0) /\ 0 \in 0..(MaxNodes - 2)
    BY <1>2, <1>11 DEF Within, WriteHeader, MaxNodes
  <2>3. Output' = Output
    <3>1. <<>> \in Seq(Packet)
      OBVIOUS
    <3>2. FlattenSeq(files') = FlattenSeq(files) \o <<>>
      BY ONLY <1>4, <2>1, <3>1, FlattenGrows
    <3>3. FlattenSeq(files) \in Seq(Packet)
      BY <1>4 DEF Output
    <3>4. FlattenSeq(files) \o <<>> = FlattenSeq(files)
      BY ONLY <3>3, ConcatEmptySeq
    <3> QED
      BY ONLY <3>2, <3>4 DEF Output
  <2>4. Stream' = Append(Append(Stream, PatPacket), PmtPacket)
    <3>1. phase' # "packets"
      BY <2>1
    <3>2. Output' \o held' = Append(Append(Stream, PatPacket), PmtPacket)
      BY ONLY <1>9, <2>1, <2>2, <2>3
    <3> QED
      BY ONLY <1>7, <3>1, <3>2
  <2>5. AddsTables
    BY ONLY <1>10, <2>1, <2>4 DEF AddsTables
  <2>6. ~WriteTsPacket
    BY <2>1 DEF WriteTsPacket
  <2> QED
    BY ONLY <2>1, <2>3, <2>5, <2>6
<1>12. CASE \E header \in FirstHeaders, size \in Sizes, step \in Steps, delay \in Delays :
              WriteVideoPacket(header, size, step, delay)
  <2>1. PICK header \in FirstHeaders, size \in Sizes, step \in Steps, delay \in Delays :
          WriteVideoPacket(header, size, step, delay)
    BY <1>12
  <2>2. /\ phase = "idle" /\ phase' = "packets" /\ files' = files
        /\ out_buf' = <<>> /\ m_vstream' = m_vstream
    BY <2>1 DEF WriteVideoPacket
  <2>3. Output' = Output
    BY ONLY <2>2 DEF Output
  <2>4. Stream' = Output' \o held'
    <3>1. Pending' = held' \o <<>>
      BY ONLY <2>2 DEF Pending
    <3>2. held' \in Seq(Packet)
      BY <1>5 DEF SegmentTyped
    <3>3. held' \o <<>> = held'
      BY ONLY <3>2, ConcatEmptySeq
    <3>4. Stream' = Output' \o Pending'
      BY DEF Stream
    <3> QED
      BY ONLY <3>1, <3>3, <3>4
  <2>5. ~WriteTsPacket
    BY <2>2 DEF WriteTsPacket
  <2>6. CASE TablesDue(dts + step)
    <3>1. /\ bucket' = WithTables
          /\ m_muxer' = [Counted EXCEPT !.next_pat = dts + step + PAT_DELTA]
      BY <2>1, <2>6 DEF WriteVideoPacket
    <3>2. Holds(bucket, 1, k) /\ k \in 0..(MaxNodes - 2)
      BY <1>2, <2>2 DEF Within, MaxNodes
    <3>3. Output' \o held' = Append(Append(Stream, PatPacket), PmtPacket)
      BY ONLY <1>9, <2>2, <2>3, <3>1, <3>2
    <3>4. /\ m_muxer'.pat_cc = NextCc(m_muxer.pat_cc)
          /\ m_muxer'.pmt_cc = NextCc(m_muxer.pmt_cc)
      BY ONLY <1>10, <3>1
    <3>5. Stream' = Append(Append(Stream, PatPacket), PmtPacket)
      BY ONLY <2>4, <3>3
    <3> QED
      BY ONLY <2>2, <2>3, <2>5, <3>4, <3>5 DEF AddsTables
  <2>7. CASE ~TablesDue(dts + step)
    <3>1. bucket' = bucket /\ m_muxer' = m_muxer
      BY <2>1, <2>7 DEF WriteVideoPacket
    <3>2. Stream' = Stream
      BY ONLY <1>6, <2>2, <2>3, <2>4, <3>1
    <3> QED
      BY ONLY <2>2, <2>3, <2>5, <3>1, <3>2 DEF Stays
  <2> QED
    BY ONLY <2>2, <2>6, <2>7, <2>5
<1>13. CASE NotAnnexB
  <2>1. /\ phase = "idle" /\ phase' = "drain" /\ files' = files /\ bucket' = bucket
        /\ m_muxer' = m_muxer /\ m_vstream' = m_vstream
    BY <1>13 DEF NotAnnexB
  <2>2. Stream' = Stream
    BY ONLY <1>6, <1>7, <2>1 DEF Output
  <2>3. ~WriteTsPacket
    BY <2>1 DEF WriteTsPacket
  <2> QED
    BY ONLY <2>1, <2>2, <2>3 DEF Stays
<1>14. CASE WriteTsPacket
  <2>1. /\ phase = "packets" /\ phase' = "packets" /\ files' = files /\ bucket' = bucket
        /\ m_muxer' = m_muxer /\ m_vstream'.cc = NextCc(m_vstream.cc)
        /\ out_buf' = Append(out_buf, VideoPacket)
    BY <1>14 DEF WriteTsPacket, VideoPacket
  <2>2. VideoPacket \in Packet
    BY PacketTypes
  <2>3. Pending = held \o out_buf /\ Pending' = held \o Append(out_buf, VideoPacket)
    BY <2>1 DEF Pending
  <2>4. held \o Append(out_buf, VideoPacket) = Append(held \o out_buf, VideoPacket)
    <3> HIDE DEF held
    <3> QED
      BY ONLY <1>4, <2>2
  <2>5. Output \o Append(Pending, VideoPacket) = Append(Output \o Pending, VideoPacket)
    <3>1. Pending \in Seq(Packet)
      BY StreamTypes DEF StreamTyped
    <3> QED
      BY ONLY <1>4, <2>2, <3>1
  <2>6. Stream' = Output \o Pending'
    BY ONLY <2>1 DEF Stream, Output
  <2>7. Stream' = Append(Stream, VideoPacket)
    BY ONLY <2>3, <2>4, <2>5, <2>6 DEF Stream
  <2> QED
    BY ONLY <1>14, <2>1, <2>7 DEF AddsVideo
<1>15. CASE InsertPackets
  <2>1. /\ phase = "packets" /\ phase' = "drain" /\ files' = files
        /\ bucket' = bucket_insert(bucket, out_buf, Len(out_buf) * TS_PACKET_SIZE)
        /\ m_muxer' = m_muxer /\ m_vstream' = m_vstream /\ locals.payload_size = 0
    BY <1>15 DEF InsertPackets
  <2>2. held' = held \o out_buf
    <3>1. Holds(bucket, 1, k) /\ k \in 0..(MaxNodes - 1)
      BY <1>2, <2>1 DEF Within, MaxNodes
    <3>2. Len(out_buf) * TS_PACKET_SIZE \in Nat
      BY <1>4 DEF TS_PACKET_SIZE
    <3> QED
      BY ONLY <1>4, <2>1, <3>1, <3>2, InsertBuffered
  <2>3. Stream' = Stream
    <3>1. Pending = held \o out_buf
      BY ONLY <2>1 DEF Pending
    <3>2. Output' = Output
      BY ONLY <2>1 DEF Output
    <3> QED
      BY ONLY <1>7, <2>1, <2>2, <3>1, <3>2 DEF Stream
  <2>4. ~WriteTsPacket
    BY <2>1 DEF WriteTsPacket
  <2> QED
    BY ONLY <2>1, <2>3, <2>4 DEF Stays
<1>16. CASE Drain
  <2> DEFINE got == Retrieved(bucket)
             left == Buffered(bucket')
  <2>1. /\ phase = "drain" /\ phase' = "drain" /\ files # <<>>
        /\ files' = [files EXCEPT ![last] = @ \o got]
        /\ bucket' = bucket_retrieve(bucket)
        /\ m_muxer' = m_muxer /\ m_vstream' = m_vstream
    BY <1>16 DEF Drain, TablesInv
  <2>2. j \in 1..MaxNodes /\ k \in j..MaxNodes
    <3>1. j # k + 1
      BY <1>3, <1>16, EmptyHolds DEF Drain
    <3> QED
      BY <1>3, <3>1 DEF MaxNodes
  <2>3. held = got \o left /\ got \in Seq(Packet)
    BY ONLY <1>3, <2>1, <2>2, RetrieveBuffered, RetrieveHolds
  <2>4. left \in Seq(Packet)
    <3>1. Buffered(bucket)' \in Seq(Packet)
      BY <1>5 DEF SegmentTyped
    <3> QED
      BY <3>1
  <2>5. held' = left
    OBVIOUS
  <2> HIDE DEF got, left
  <2>6. Output' = Output \o got
    <3>1. FlattenSeq([files EXCEPT ![last] = @ \o got]) = FlattenSeq(files) \o got
      BY ONLY <1>4, <2>1, <2>3, FlattenLast
    <3> QED
      BY ONLY <2>1, <3>1 DEF Output
  <2>7. (Output \o got) \o left = Output \o (got \o left)
    BY ONLY <1>4, <2>3, <2>4
  <2>8. Stream' = Stream
    <3>1. Stream = Output \o held /\ Stream' = Output' \o held'
      BY ONLY <1>6, <1>7, <2>1
    <3> HIDE DEF held
    <3> QED
      BY ONLY <2>3, <2>5, <2>6, <2>7, <3>1
  <2>9. ~WriteTsPacket
    BY <2>1 DEF WriteTsPacket
  <2> QED
    BY ONLY <2>1, <2>8, <2>9 DEF Stays
<1>17. CASE Drained
  <2>1. /\ phase = "drain" /\ phase' = "idle" /\ files' = files /\ bucket' = bucket
        /\ m_muxer' = m_muxer /\ m_vstream' = m_vstream /\ bucket.first = Null
    BY <1>17 DEF Drained
  <2>2. Output' = Output
    BY ONLY <2>1 DEF Output
  <2>3. Stream' = Stream
    BY ONLY <1>6, <1>7, <2>1, <2>2
  <2>4. Output = Stream
    <3>1. Holds(bucket, 1, 0)
      BY ONLY <1>3, <2>1, EmptyHolds, j \in 1..(MaxNodes + 1), k \in 0..MaxNodes
    <3>2. held = <<>>
      BY <2>1, <3>1, EmptyBuffered
    <3>3. Output \o <<>> = Output
      BY ONLY <1>4, ConcatEmptySeq
    <3>4. Stream = Output \o held
      BY ONLY <1>6, <2>1
    <3> QED
      BY ONLY <3>2, <3>3, <3>4
  <2>5. ~WriteTsPacket
    BY <2>1 DEF WriteTsPacket
  <2> QED
    BY ONLY <2>1, <2>2, <2>3, <2>4, <2>5 DEF Stays
<1>18. CASE UNCHANGED vars
  <2>1. /\ phase' = phase /\ files' = files /\ bucket' = bucket /\ out_buf' = out_buf
        /\ m_muxer' = m_muxer /\ m_vstream' = m_vstream
    BY <1>18 DEF vars
  <2>2. Stream' = Stream /\ Output' = Output
    BY ONLY <2>1 DEF Stream, Pending, Output
  <2>3. ~WriteTsPacket
    <3>1. WriteTsPacket => out_buf' = Append(out_buf, VideoPacket)
      BY DEF WriteTsPacket, VideoPacket
    <3>2. out_buf # Append(out_buf, VideoPacket)
      BY <1>4, PacketTypes
    <3> QED
      BY ONLY <2>1, <3>1, <3>2
  <2> QED
    BY ONLY <2>1, <2>2, <2>3 DEF Stays
<1> QED
  BY ONLY <1>11, <1>12, <1>13, <1>14, <1>15, <1>16, <1>17, <1>18, [Next]_vars DEF Next
-----------------------------------------------------------------------------
(* The next packet of a PID has the counter cc. *)
Follows(s, pid, cc) ==
  \A i \in 1..Len(s) :
    (s[i].pid = pid /\ \A k \in (i + 1)..Len(s) : s[k].pid # pid) => cc = NextCc(s[i].cc)

ContinuityInv ==
  /\ Continuous(Stream)
  /\ Follows(Stream, "video", m_vstream.cc)
  /\ Follows(Stream, "pat", m_muxer.pat_cc)
  /\ Follows(Stream, "pmt", m_muxer.pmt_cc)

(* A packet that has the counter expected of it leaves no gap. *)
LEMMA AppendContinuous ==
  ASSUME NEW s \in Seq(Packet), NEW q \in Packet, Continuous(s), Follows(s, q.pid, q.cc)
  PROVE  /\ Continuous(Append(s, q))
         /\ Follows(Append(s, q), q.pid, NextCc(q.cc))
         /\ \A pid, cc : pid # q.pid /\ Follows(s, pid, cc) => Follows(Append(s, q), pid, cc)
<1> DEFINE n == Len(s)
           new == Append(s, q)
<1>1. /\ n \in Nat /\ DOMAIN s = 1..n /\ DOMAIN new = 1..(n + 1) /\ Len(new) = n + 1
      /\ new[n + 1] = q /\ \A i \in 1..n : new[i] = s[i]
  OBVIOUS
<1>2. \A i \in 1..n : \A j \in (i + 1)..n :
        (s[j].pid = s[i].pid /\ \A k \in (i + 1)..(j - 1) : s[k].pid # s[i].pid)
          => s[j].cc = NextCc(s[i].cc)
  BY <1>1 DEF Continuous, NextCc
<1>3. \A i \in 1..n : (s[i].pid = q.pid /\ \A k \in (i + 1)..n : s[k].pid # q.pid)
                         => q.cc = NextCc(s[i].cc)
  BY DEF Follows
<1> HIDE DEF n, new
<1>4. ASSUME NEW i \in 1..(n + 1), NEW j \in (i + 1)..(n + 1), new[j].pid = new[i].pid,
             \A k \in (i + 1)..(j - 1) : new[k].pid # new[i].pid
      PROVE  new[j].cc = NextCc(new[i].cc)
  <2>1. i \in 1..n /\ new[i] = s[i]
    BY ONLY <1>1, i \in 1..(n + 1), j \in (i + 1)..(n + 1)
  <2>2. ASSUME NEW k \in (i + 1)..(j - 1)
        PROVE  s[k].pid # s[i].pid
    <3>1. k \in 1..n
      BY ONLY <1>1, <2>1, i \in 1..(n + 1), j \in (i + 1)..(n + 1), k \in (i + 1)..(j - 1)
    <3> QED
      BY ONLY <1>1, <1>4, <2>1, <3>1, k \in (i + 1)..(j - 1)
  <2>3. CASE j = n + 1
    <3>1. new[j] = q /\ s[i].pid = q.pid
      BY ONLY <1>1, <1>4, <2>1, <2>3
    <3>2. \A k \in (i + 1)..n : s[k].pid # q.pid
      <4>1. \A k \in (i + 1)..n : k \in (i + 1)..(j - 1)
        BY ONLY <1>1, <2>3, i \in 1..(n + 1)
      <4> QED
        BY ONLY <2>2, <3>1, <4>1
    <3>3. q.cc = NextCc(s[i].cc)
      BY ONLY <1>3, <2>1, <3>1, <3>2
    <3> QED
      BY ONLY <2>1, <3>1, <3>3
  <2>4. CASE j # n + 1
    <3>1. j \in (i + 1)..n /\ j \in 1..n
      BY ONLY <1>1, <2>1, <2>4, j \in (i + 1)..(n + 1)
    <3>2. new[j] = s[j]
      BY ONLY <1>1, <3>1
    <3>3. s[j].pid = s[i].pid
      BY ONLY <1>4, <2>1, <3>2
    <3>4. s[j].cc = NextCc(s[i].cc)
      BY ONLY <1>2, <2>1, <2>2, <3>1, <3>3
    <3> QED
      BY ONLY <2>1, <3>2, <3>4
  <2> QED
    BY ONLY <2>3, <2>4
<1>5. Continuous(new)
  <2> SUFFICES ASSUME NEW i \in DOMAIN new, NEW j \in (i + 1)..Len(new),
                      new[j].pid = new[i].pid,
                      \A k \in (i + 1)..(j - 1) : new[k].pid # new[i].pid
               PROVE  new[j].cc = (new[i].cc + 1) % 16
    BY DEF Continuous
  <2>1. i \in 1..(n + 1) /\ j \in (i + 1)..(n + 1)
    BY ONLY <1>1, i \in DOMAIN new, j \in (i + 1)..Len(new)
  <2>2. new[j].cc = NextCc(new[i].cc)
    BY ONLY <1>4, <2>1, new[j].pid = new[i].pid,
            \A k \in (i + 1)..(j - 1) : new[k].pid # new[i].pid
  <2> QED
    BY ONLY <2>2 DEF NextCc
<1>6. Follows(new, q.pid, NextCc(q.cc))
  <2> SUFFICES ASSUME NEW i \in 1..Len(new), new[i].pid = q.pid,
                      \A k \in (i + 1)..Len(new) : new[k].pid # q.pid
               PROVE  NextCc(q.cc) = NextCc(new[i].cc)
    BY DEF Follows
  <2>1. CASE i = n + 1
    BY <1>1, <2>1
  <2>2. CASE i # n + 1
    <3>1. n + 1 \in (i + 1)..Len(new)
      BY ONLY <1>1, <2>2, i \in 1..Len(new)
    <3> QED
      BY <1>1, <3>1
  <2> QED
    BY <2>1, <2>2
<1>7. ASSUME NEW pid, NEW cc, pid # q.pid, Follows(s, pid, cc)
      PROVE  Follows(new, pid, cc)
  <2> SUFFICES ASSUME NEW i \in 1..Len(new), new[i].pid = pid,
                      \A k \in (i + 1)..Len(new) : new[k].pid # pid
               PROVE  cc = NextCc(new[i].cc)
    BY DEF Follows
  <2>1. i # n + 1
    BY <1>1, <1>7
  <2>2. i \in 1..n /\ new[i] = s[i]
    BY ONLY <1>1, <2>1, i \in 1..Len(new)
  <2>3. ASSUME NEW k \in (i + 1)..n
        PROVE  s[k].pid # pid
    <3>1. k \in 1..n /\ k \in (i + 1)..Len(new)
      BY ONLY <1>1, <2>2, k \in (i + 1)..n
    <3> QED
      BY <1>1, <3>1
  <2> QED
    BY <1>7, <2>2, <2>3 DEF Follows, n
<1> QED
  BY <1>5, <1>6, <1>7 DEF new

(* What is written of a stream has no gap if the stream has none. *)
LEMMA ContinuousPrefix ==
  ASSUME NEW s \in Seq(Packet), NEW t \in Seq(Packet), Continuous(s \o t)
  PROVE  Continuous(s)
<1> DEFINE n == Len(s)
           all == s \o t
<1>1. /\ n \in Nat /\ DOMAIN s = 1..n /\ Len(all) \in Nat /\ Len(all) >= n
      /\ DOMAIN all = 1..Len(all)
      /\ \A i \in 1..n : all[i] = s[i]
  OBVIOUS
<1>2. Continuous(all)
  OBVIOUS
<1> HIDE DEF n, all
<1> SUFFICES ASSUME NEW i \in 1..n, NEW j \in (i + 1)..n, s[j].pid = s[i].pid,
                    \A k \in (i + 1)..(j - 1) : s[k].pid # s[i].pid
             PROVE  s[j].cc = (s[i].cc + 1) % 16
  BY <1>1 DEF Continuous, n
<1>3. /\ i \in DOMAIN all /\ j \in (i + 1)..Len(all) /\ j \in 1..n
      /\ all[i] = s[i] /\ all[j] = s[j]
  BY <1>1
<1>4. ASSUME NEW k \in (i + 1)..(j - 1)
      PROVE  all[k].pid # all[i].pid
  <2>1. k \in 1..n
    BY <1>1
  <2> QED
    BY <1>1, <1>3, <2>1
<1>5. all[j].pid = all[i].pid
  BY <1>3
<1>6. all[j].cc = (all[i].cc + 1) % 16
  BY ONLY <1>2, <1>3, <1>4, <1>5 DEF Continuous
<1> QED
  BY ONLY <1>3, <1>6

(* The two facts that make an inductive invariant of it. *)
LEMMA InitContinuityInv == Init => ContinuityInv
<1> SUFFICES ASSUME Init
             PROVE  ContinuityInv
  OBVIOUS
<1>1. Output = <<>>
  <2>1. <<>> \in Seq(Seq(Packet)) /\ <<>> \in Seq(Packet)
    OBVIOUS
  <2> QED
    BY <2>1, FlattenGrows DEF Init, Output
<1>2. Holds(bucket, 1, 0)
  <2>1. 1..0 = {}
    OBVIOUS
  <2> QED
    BY <2>1 DEF Init, bucket_init, Holds, Linked, Total, SizeOf
<1>3. Stream = <<>>
  BY <1>1, <1>2, EmptyBuffered, NoMore DEF Init, Stream, Pending
<1> QED
  BY <1>3 DEF ContinuityInv, Continuous, Follows

LEMMA NextContinuityInv ==
  IInv /\ BucketInv /\ TablesInv /\ ContinuityInv /\ [Next]_vars => ContinuityInv'
<1> SUFFICES ASSUME IInv, BucketInv, TablesInv, ContinuityInv, [Next]_vars
             PROVE  ContinuityInv'
  OBVIOUS
<1>1. /\ PatPacket \in Packet /\ PatPacket.pid = "pat" /\ PatPacket.cc = m_muxer.pat_cc
      /\ PmtPacket \in Packet /\ PmtPacket.pid = "pmt" /\ PmtPacket.cc = m_muxer.pmt_cc
      /\ VideoPacket \in Packet /\ VideoPacket.pid = "video"
      /\ VideoPacket.cc = m_vstream.cc
  BY PacketTypes
<1>2. Stream \in Seq(Packet)
  BY StreamTypes DEF StreamTyped
<1>3. /\ Continuous(Stream)
      /\ Follows(Stream, "video", m_vstream.cc)
      /\ Follows(Stream, "pat", m_muxer.pat_cc)
      /\ Follows(Stream, "pmt", m_muxer.pmt_cc)
  BY DEF ContinuityInv
<1>4. AddsVideo \/ Stays \/ AddsTables
  BY StreamMoves
<1>5. CASE Stays
  BY ONLY <1>3, <1>5 DEF Stays, ContinuityInv
<1>6. CASE AddsVideo
  <2> DEFINE new == Append(Stream, VideoPacket)
  <2>1. /\ Continuous(new)
        /\ Follows(new, "video", NextCc(m_vstream.cc))
        /\ Follows(new, "pat", m_muxer.pat_cc)
        /\ Follows(new, "pmt", m_muxer.pmt_cc)
    BY ONLY <1>1, <1>2, <1>3, AppendContinuous
  <2>2. /\ Stream' = new /\ m_vstream'.cc = NextCc(m_vstream.cc)
        /\ m_muxer'.pat_cc = m_muxer.pat_cc /\ m_muxer'.pmt_cc = m_muxer.pmt_cc
    BY ONLY <1>6 DEF AddsVideo
  <2> HIDE DEF new
  <2> QED
    BY ONLY <2>1, <2>2 DEF ContinuityInv
<1>7. CASE AddsTables
  <2> DEFINE one == Append(Stream, PatPacket)
             two == Append(one, PmtPacket)
  <2>1. /\ one \in Seq(Packet) /\ Continuous(one)
        /\ Follows(one, "video", m_vstream.cc)
        /\ Follows(one, "pat", NextCc(m_muxer.pat_cc))
        /\ Follows(one, "pmt", m_muxer.pmt_cc)
    BY ONLY <1>1, <1>2, <1>3, AppendContinuous, AppendProperties
  <2> HIDE DEF one
  <2>2. /\ Continuous(two)
        /\ Follows(two, "video", m_vstream.cc)
        /\ Follows(two, "pat", NextCc(m_muxer.pat_cc))
        /\ Follows(two, "pmt", NextCc(m_muxer.pmt_cc))
    BY ONLY <1>1, <2>1, AppendContinuous
  <2>3. /\ Stream' = two /\ m_vstream'.cc = m_vstream.cc
        /\ m_muxer'.pat_cc = NextCc(m_muxer.pat_cc)
        /\ m_muxer'.pmt_cc = NextCc(m_muxer.pmt_cc)
    BY ONLY <1>7 DEF AddsTables, one
  <2> HIDE DEF two
  <2> QED
    BY ONLY <2>2, <2>3 DEF ContinuityInv
<1> QED
  BY ONLY <1>4, <1>5, <1>6, <1>7

(* A receiver sees no gap: the continuity counter of each PID goes up by one *)
(* from packet to packet, modulo 16 and over the segments, however many      *)
(* packets and segments there are.                                           *)
THEOREM ContinuityInvariant == Spec => []Continuity
<1>1. IInv /\ BucketInv /\ ContinuityInv => Continuity
  <2> SUFFICES ASSUME IInv, BucketInv, ContinuityInv
               PROVE  Continuity
    OBVIOUS
  <2>1. Output \in Seq(Packet) /\ Pending \in Seq(Packet)
    BY StreamTypes DEF StreamTyped
  <2>2. Continuous(Output \o Pending)
    BY DEF ContinuityInv, Stream
  <2> QED
    BY ONLY <2>1, <2>2, ContinuousPrefix DEF Continuity
<1>2. IInv /\ BucketInv /\ TablesInv /\ ContinuityInv /\ [Next]_vars => ContinuityInv'
  BY NextContinuityInv
<1> QED
  BY <1>1, <1>2, InitContinuityInv, IInvInvariant, BucketInvariant, TablesInvariant, PTL
     DEF Spec
-----------------------------------------------------------------------------
(* The bytes given to the packetizer, and those of the frames before the last. *)
Given == [n \in DOMAIN units |-> GivenSize(units[n])]

Before == [n \in 1..(Len(units) - 1) |-> Given[n]]

Unit == [header : 1..255, size : Nat, delimiter : Nat, garbage : Nat]

(* How much of the frame being written the receiver has. *)
FramesInv ==
  /\ units \in Seq(Unit)
  /\ phase = "idle" => Received(Output) = Given
  /\ phase # "packets" => Received(Stream) = Given
  /\ phase = "packets" =>
       /\ units # <<>>
       /\ locals.is_start => /\ locals.payload = 0
                             /\ locals.payload_size = Given[Len(units)]
                             /\ locals.payload_size > 0
                             /\ Received(Stream) = Before
       /\ ~locals.is_start =>
            /\ locals.payload = Given[Len(units)] - locals.payload_size
            /\ Received(Stream) = [Given EXCEPT ![Len(units)] = @ - locals.payload_size]

(* The tables are not the receiver's business. *)
LEMMA ReceivedTables ==
  ASSUME IInv, NEW s \in Seq(Packet)
  PROVE  Received(Append(Append(s, PatPacket), PmtPacket)) = Received(s)
<1> DEFINE one == Append(s, PatPacket)
<1>1. /\ PatPacket \in Packet /\ PatPacket.pid = "pat"
      /\ PmtPacket \in Packet /\ PmtPacket.pid = "pmt"
  BY PacketTypes
<1>2. one \in Seq(Packet)
  BY ONLY <1>1, s \in Seq(Packet), AppendProperties
<1>3. Received(one) = Assembled(Received(s), PatPacket)
  BY ONLY <1>1, s \in Seq(Packet), ReceivedGrows
<1> HIDE DEF one
<1>4. Received(Append(one, PmtPacket)) = Assembled(Received(one), PmtPacket)
  BY ONLY <1>1, <1>2, ReceivedGrows
<1>5. Received(Append(one, PmtPacket)) = Received(s)
  BY ONLY <1>1, <1>3, <1>4 DEF Assembled
<1> QED
  BY ONLY <1>5 DEF one

(* What is given for a frame, and what is left of it. *)
LEMMA GivenTypes ==
  ASSUME FramesInv
  PROVE  /\ Given \in Seq(Int) /\ Len(Given) = Len(units) /\ DOMAIN Given = 1..Len(units)
         /\ units # <<>> => /\ Len(units) \in 1..Len(units)
                            /\ Before \in Seq(Int) /\ Len(Before) = Len(units) - 1
<1>1. units \in Seq(Unit) /\ Len(units) \in Nat /\ DOMAIN units = 1..Len(units)
  BY DEF FramesInv
<1>2. \A n \in 1..Len(units) : GivenSize(units[n]) \in Int
  <2> TAKE n \in 1..Len(units)
  <2>1. units[n] \in Unit
    BY <1>1, ElementOfSeq
  <2> QED
    BY <2>1 DEF GivenSize, Unit
<1>3. Given \in Seq(Int) /\ Len(Given) = Len(units) /\ DOMAIN Given = 1..Len(units)
  BY <1>1, <1>2 DEF Given
<1>4. ASSUME units # <<>>
      PROVE  /\ Len(units) \in 1..Len(units)
             /\ Before \in Seq(Int) /\ Len(Before) = Len(units) - 1
  <2>1. Len(units) \in 1..Len(units) /\ Len(units) - 1 \in Nat
    BY <1>1, <1>4
  <2>2. \A n \in 1..(Len(units) - 1) : Given[n] \in Int
    <3> TAKE n \in 1..(Len(units) - 1)
    <3>1. n \in 1..Len(Given)
      BY <1>3, <2>1
    <3> QED
      BY ONLY <1>3, <3>1, ElementOfSeq
  <2> QED
    BY <2>1, <2>2 DEF Before
<1> QED
  BY <1>3, <1>4

(* The first packet of a frame begins its length; another adds to it. *)
LEMMA PacketArrives ==
  ASSUME IInv, BucketInv, FramesInv, phase = "packets", locals.payload_size > 0
  PROVE  Assembled(Received(Stream), VideoPacket)
           = [Given EXCEPT ![Len(units)] = @ - (locals.payload_size - DataLen(locals))]
<1> DEFINE n == Len(units)
           p == locals.payload_size
           d == DataLen(locals)
           target == [Given EXCEPT ![n] = @ - (p - d)]
<1>1. /\ VideoPacket.pid = "video" /\ VideoPacket.start = locals.is_start
      /\ VideoPacket.data = d /\ d \in Int /\ VideoPacket.from = locals.payload
  <2>1. VideoPacket \in Packet
    BY PacketTypes
  <2> QED
    BY <2>1, PacketTypes DEF Packet
<1>2. p \in Nat /\ locals.is_start \in BOOLEAN
  BY DEF IInv, TypeOK
<1>3. units # <<>>
  BY DEF FramesInv
<1>4. /\ Given \in Seq(Int) /\ Len(Given) = n /\ DOMAIN Given = 1..n /\ n \in 1..n
      /\ Before \in Seq(Int) /\ Len(Before) = n - 1 /\ n \in Nat
  BY <1>3, GivenTypes DEF FramesInv
<1>5. Given[n] \in Int
  BY ONLY <1>4, ElementOfSeq
<1>6. /\ target \in Seq(Int) /\ Len(target) = n /\ DOMAIN target = 1..n
      /\ \A k \in 1..n : target[k] = IF k = n THEN Given[n] - (p - d) ELSE Given[k]
  <2> HIDE DEF n, p, d
  <2> QED
    BY ONLY <1>1, <1>2, <1>4, <1>5
<1>7. CASE locals.is_start
  <2>1. locals.payload = 0 /\ p = Given[n] /\ Received(Stream) = Before
    BY <1>7 DEF FramesInv
  <2>2. Assembled(Received(Stream), VideoPacket) = Append(Before, d)
    BY <1>1, <1>7, <2>1 DEF Assembled
  <2> DEFINE new == Append(Before, d)
  <2>3. new \in Seq(Int) /\ Len(new) = n
    <3> HIDE DEF n, d
    <3>1. new \in Seq(Int) /\ Len(new) = Len(Before) + 1
      BY ONLY <1>1, <1>4, AppendProperties
    <3>2. Len(Before) + 1 = n
      BY ONLY <1>4
    <3> QED
      BY ONLY <3>1, <3>2
  <2>4. ASSUME NEW k \in 1..n
        PROVE  new[k] = target[k]
    <3>1. CASE k = n
      <4>1. new[n] = d
        BY ONLY <1>1, <1>4
      <4>2. target[n] = d
        BY ONLY <1>1, <1>2, <1>4, <1>6, <2>1
      <4> QED
        BY ONLY <3>1, <4>1, <4>2
    <3>2. CASE k # n
      <4>1. k \in 1..(n - 1)
        <5> HIDE DEF n
        <5> QED
          BY ONLY <1>4, <3>2, k \in 1..n
      <4>2. new[k] = Before[k]
        BY ONLY <1>1, <1>4, <4>1
      <4>3. Before[k] = Given[k]
        BY <4>1 DEF Before
      <4> QED
        BY ONLY <1>6, <3>2, <4>2, <4>3, k \in 1..n
    <3> QED
      BY ONLY <3>1, <3>2
  <2>5. new = target
    <3> HIDE DEF new, target
    <3> QED
      BY ONLY <1>6, <2>3, <2>4, SeqEqual
  <2> QED
    BY ONLY <2>2, <2>5
<1>8. CASE ~locals.is_start
  <2> DEFINE old == [Given EXCEPT ![n] = @ - p]
             new == [old EXCEPT ![n] = @ + d]
  <2>1. Received(Stream) = old /\ locals.payload = Given[n] - p
    BY <1>8, phase = "packets" DEF FramesInv
  <2>2. /\ old \in Seq(Int) /\ Len(old) = n
        /\ \A k \in 1..n : old[k] = IF k = n THEN Given[n] - p ELSE Given[k]
    <3> HIDE DEF n, p
    <3> QED
      BY ONLY <1>2, <1>4, <1>5
  <2>3. Assembled(old, VideoPacket) = new
    <3> HIDE DEF old
    <3> QED
      BY ONLY <1>1, <1>4, <1>8, <2>1, <2>2 DEF Assembled
  <2>4. /\ new \in Seq(Int) /\ Len(new) = n
        /\ \A k \in 1..n : new[k] = IF k = n THEN old[n] + d ELSE old[k]
    <3>1. old[n] \in Int
      BY ONLY <1>2, <1>4, <1>5, <2>2
    <3> HIDE DEF old, n, d
    <3> QED
      BY ONLY <1>1, <1>4, <2>2, <3>1
  <2>5. ASSUME NEW k \in 1..n
        PROVE  new[k] = target[k]
    <3> HIDE DEF new, old, target, n, p, d
    <3>1. CASE k = n
      <4>1. new[n] = (Given[n] - p) + d
        BY ONLY <1>4, <2>2, <2>4
      <4>2. target[n] = Given[n] - (p - d)
        BY ONLY <1>4, <1>6
      <4> QED
        BY ONLY <1>1, <1>2, <1>5, <3>1, <4>1, <4>2
    <3>2. CASE k # n
      BY ONLY <1>6, <2>2, <2>4, <3>2, k \in 1..n
    <3> QED
      BY ONLY <3>1, <3>2
  <2>6. new = target
    <3> HIDE DEF new, target, n
    <3> QED
      BY ONLY <1>6, <2>4, <2>5, SeqEqual
  <2> QED
    BY ONLY <2>1, <2>3, <2>6
<1> QED
  BY ONLY <1>2, <1>7, <1>8

LEMMA InitFramesInv == Init => FramesInv
<1> SUFFICES ASSUME Init
             PROVE  FramesInv
  OBVIOUS
<1>1. units = <<>> /\ phase = "idle" /\ files = <<>> /\ bucket = bucket_init
  BY DEF Init
<1>2. Output = <<>> /\ Received(<<>>) = <<>>
  <2>1. <<>> \in Seq(Seq(Packet)) /\ <<>> \in Seq(Packet)
    OBVIOUS
  <2>2. PatPacket \in Packet
    BY InitIInv, PacketTypes
  <2> QED
    BY <1>1, <2>1, <2>2, FlattenGrows, ReceivedGrows DEF Output
<1>3. Holds(bucket, 1, 0)
  <2>1. 1..0 = {}
    OBVIOUS
  <2> QED
    BY <1>1, <2>1 DEF bucket_init, Holds, Linked, Total, SizeOf
<1>4. Stream = <<>>
  BY <1>1, <1>2, <1>3, EmptyBuffered, NoMore DEF Stream, Pending
<1>5. Given = <<>>
  BY <1>1 DEF Given
<1>6. units \in Seq(Unit)
  BY <1>1
<1> QED
  BY ONLY <1>1, <1>2, <1>4, <1>5, <1>6 DEF FramesInv
LEMMA NextFramesInv ==
  IInv /\ BucketInv /\ TablesInv /\ FramesInv /\ [Next]_vars => FramesInv'
<1> SUFFICES ASSUME IInv, BucketInv, TablesInv, FramesInv, [Next]_vars
             PROVE  FramesInv'
  OBVIOUS
<1>1. /\ units \in Seq(Unit)
      /\ phase = "idle" => Received(Output) = Given
      /\ phase # "packets" => Received(Stream) = Given
  BY DEF FramesInv
<1>2. Stream \in Seq(Packet)
  BY StreamTypes DEF StreamTyped
<1>3. /\ WriteTsPacket => AddsVideo
      /\ ~WriteTsPacket => Stays \/ AddsTables
      /\ phase' = "idle" => Output' = Output
      /\ phase = "drain" /\ phase' = "idle" => Output = Stream
  BY StreamMoves
<1>4. ~WriteTsPacket => Received(Stream') = Received(Stream)
  <2>1. CASE Stays
    BY ONLY <2>1 DEF Stays
  <2>2. CASE AddsTables
    <3>1. Received(Append(Append(Stream, PatPacket), PmtPacket)) = Received(Stream)
      BY <1>2, ReceivedTables
    <3> QED
      BY ONLY <2>2, <3>1 DEF AddsTables
  <2> QED
    BY ONLY <1>3, <2>1, <2>2
<1>5. units' = units => Given' = Given /\ Before' = Before
  BY DEF Given, Before
<1>6. CASE WriteHeader
  <2>1. phase = "idle" /\ phase' = "idle" /\ units' = units /\ ~WriteTsPacket
    BY <1>6 DEF WriteHeader, WriteTsPacket
  <2> QED
    BY ONLY <1>1, <1>3, <1>4, <1>5, <2>1 DEF FramesInv
<1>7. CASE \E header \in FirstHeaders, size \in Sizes, step \in Steps, delay \in Delays :
             WriteVideoPacket(header, size, step, delay)
  <2>1. PICK header \in FirstHeaders, size \in Sizes, step \in Steps, delay \in Delays :
          WriteVideoPacket(header, size, step, delay)
    BY <1>7
  <2> DEFINE unit == [header |-> header, size |-> size,
                      delimiter |-> IF AddsDelimiter(header) THEN DelimiterSize ELSE 0,
                      garbage |-> IF AddsDelimiter(header) THEN 0 ELSE DelimiterSize]
             n == Len(units)
  <2>2. /\ phase = "idle" /\ phase' = "packets" /\ units' = Append(units, unit)
        /\ locals'.payload = 0
        /\ locals'.payload_size = size + DelimiterSize /\ locals'.is_start = TRUE
        /\ ~WriteTsPacket
    BY <2>1 DEF WriteVideoPacket, WriteTsPacket
  <2>3. header \in 1..255 /\ size \in Nat
    BY HeadersAssumption, SizesAssumption
  <2>4. unit \in Unit /\ GivenSize(unit) = size + DelimiterSize
    BY <2>3 DEF Unit, GivenSize, DelimiterSize
  <2> HIDE DEF unit
  <2>5. /\ units' \in Seq(Unit) /\ Len(units') = n + 1 /\ units' # <<>>
        /\ DOMAIN units' = 1..(n + 1) /\ units'[n + 1] = unit
        /\ n \in Nat /\ DOMAIN units = 1..n
        /\ \A k \in 1..n : units'[k] = units[k]
    BY ONLY <1>1, <2>2, <2>4, AppendProperties
  <2>6. Given'[n + 1] = size + DelimiterSize
    <3>1. n + 1 \in 1..(n + 1)
      BY ONLY <2>5
    <3> HIDE DEF n
    <3> QED
      BY ONLY <2>4, <2>5, <3>1 DEF Given
  <2>7. Before' = Given
    <3>1. Before' = [k \in 1..(Len(units') - 1) |-> Given'[k]]
      BY DEF Before
    <3>2. Given = [k \in 1..n |-> GivenSize(units[k])]
      BY ONLY <2>5 DEF Given
    <3>3. Len(units') - 1 = n
      BY ONLY <2>5
    <3>4. \A k \in 1..n : Given'[k] = GivenSize(units[k])
      <4>1. \A k \in 1..n : k \in DOMAIN units'
        BY ONLY <2>5
      <4>2. \A k \in DOMAIN units' : Given'[k] = GivenSize(units'[k])
        BY DEF Given
      <4> QED
        BY ONLY <2>5, <4>1, <4>2
    <3> HIDE DEF n
    <3> QED
      BY ONLY <3>1, <3>2, <3>3, <3>4
  <2>8. Received(Stream') = Given
    BY ONLY <1>1, <1>4, <2>2
  <2>9. size + DelimiterSize > 0
    BY <2>3 DEF DelimiterSize
  <2>10. Given'[Len(units')] = size + DelimiterSize
    BY ONLY <2>5, <2>6
  <2> QED
    BY ONLY <2>2, <2>5, <2>7, <2>8, <2>9, <2>10 DEF FramesInv
<1>8. CASE NotAnnexB
  <2>1. phase = "idle" /\ phase' = "drain" /\ units' = units /\ ~WriteTsPacket
    BY <1>8 DEF NotAnnexB, WriteTsPacket
  <2> QED
    BY ONLY <1>1, <1>4, <1>5, <2>1 DEF FramesInv
<1>9. CASE WriteTsPacket
  <2>1. /\ phase = "packets" /\ phase' = "packets" /\ units' = units
        /\ locals.payload_size > 0 /\ locals' = AfterPacket(locals)
    BY <1>9 DEF WriteTsPacket
  <2>2. locals'.payload_size = locals.payload_size - DataLen(locals)
        /\ locals'.is_start = FALSE /\ locals'.payload = locals.payload + DataLen(locals)
    <3>1. locals \in Locals
      BY DEF IInv, TypeOK, Locals
    <3> QED
      BY ONLY <2>1, <3>1 DEF AfterPacket, Locals
  <2>3. Received(Append(Stream, VideoPacket)) = Assembled(Received(Stream), VideoPacket)
    BY <1>2, PacketTypes, ReceivedGrows
  <2>4. Assembled(Received(Stream), VideoPacket)
          = [Given EXCEPT ![Len(units)] = @ - (locals.payload_size - DataLen(locals))]
    BY <2>1, PacketArrives
  <2>5. Stream' = Append(Stream, VideoPacket)
    BY <1>3, <1>9 DEF AddsVideo
  <2>6. Received(Stream')
          = [Given' EXCEPT ![Len(units')] = @ - locals'.payload_size]
    BY ONLY <1>5, <2>1, <2>2, <2>3, <2>4, <2>5
  <2>7. units # <<>>
    BY <2>1 DEF FramesInv
  <2>8. locals'.payload = Given[Len(units)] - locals'.payload_size
    <3>1. locals.payload = Given[Len(units)] - locals.payload_size
      BY <2>1 DEF FramesInv, IInv, TypeOK
    <3>2. Given[Len(units)] \in Int /\ locals.payload_size \in Nat /\ DataLen(locals) \in Int
      <4>1. Given \in Seq(Int) /\ Len(Given) = Len(units) /\ Len(units) \in 1..Len(units)
        BY <2>7, GivenTypes
      <4>2. Given[Len(units)] \in Int
        BY ONLY <4>1, ElementOfSeq
      <4>3. VideoPacket \in Packet /\ VideoPacket.data = DataLen(locals)
        BY PacketTypes
      <4> QED
        BY <4>2, <4>3 DEF Packet, IInv, TypeOK
    <3> QED
      BY ONLY <2>2, <3>1, <3>2
  <2> QED
    BY ONLY <1>1, <1>5, <2>1, <2>2, <2>6, <2>7, <2>8 DEF FramesInv
<1>10. CASE InsertPackets
  <2>1. /\ phase = "packets" /\ phase' = "drain" /\ units' = units /\ ~WriteTsPacket
        /\ locals.payload_size = 0
    BY <1>10 DEF InsertPackets, WriteTsPacket
  <2>2. ~locals.is_start /\ units # <<>>
    BY <2>1 DEF FramesInv
  <2>3. Received(Stream) = [Given EXCEPT ![Len(units)] = @ - 0]
    BY <2>1, <2>2 DEF FramesInv
  <2>4. Given \in Seq(Int) /\ Len(units) \in 1..Len(units) /\ DOMAIN Given = 1..Len(units)
    BY <2>2, GivenTypes
  <2>5. [Given EXCEPT ![Len(units)] = @ - 0] = Given
    <3> DEFINE n == Len(units)
    <3> HIDE DEF n
    <3>1. Given \in Seq(Int) /\ n \in 1..n /\ DOMAIN Given = 1..n
      BY ONLY <2>4 DEF n
    <3>2. Given[n] \in Int
      BY ONLY <3>1, ElementOfSeq
    <3>3. [Given EXCEPT ![n] = @ - 0] = Given
      BY ONLY <3>1, <3>2
    <3> QED
      BY ONLY <3>3 DEF n
  <2>6. Received(Stream') = Given'
    BY ONLY <1>4, <1>5, <2>1, <2>3, <2>5
  <2> QED
    BY ONLY <1>1, <2>1, <2>6 DEF FramesInv
<1>11. CASE Drain
  <2>1. phase = "drain" /\ phase' = "drain" /\ units' = units /\ ~WriteTsPacket
    BY <1>11 DEF Drain, WriteTsPacket
  <2> QED
    BY ONLY <1>1, <1>4, <1>5, <2>1 DEF FramesInv
<1>12. CASE Drained
  <2>1. phase = "drain" /\ phase' = "idle" /\ units' = units /\ ~WriteTsPacket
    BY <1>12 DEF Drained, WriteTsPacket
  <2>2. Received(Output') = Given' /\ Received(Stream') = Given'
    BY ONLY <1>1, <1>3, <1>4, <1>5, <2>1
  <2> QED
    BY ONLY <1>1, <2>1, <2>2 DEF FramesInv
<1>13. CASE UNCHANGED vars
  <2>1. /\ phase' = phase /\ units' = units /\ locals' = locals /\ files' = files
        /\ bucket' = bucket /\ out_buf' = out_buf
    BY <1>13 DEF vars
  <2>2. Stream' = Stream /\ Output' = Output
    BY ONLY <2>1 DEF Stream, Pending, Output
  <2> QED
    BY ONLY <1>5, <2>1, <2>2, FramesInv DEF FramesInv
<1> QED
  BY ONLY <1>6, <1>7, <1>8, <1>9, <1>10, <1>11, <1>12, <1>13, [Next]_vars DEF Next

(* What has been sent is what the frames were, in every reachable state.     *)
LEMMA FramesInvariant == Spec => []FramesInv
<1>1. IInv /\ BucketInv /\ TablesInv /\ FramesInv /\ [Next]_vars => FramesInv'
  BY NextFramesInv
<1> QED
  BY <1>1, InitFramesInv, IInvInvariant, BucketInvariant, TablesInvariant, PTL DEF Spec

(* What write_video_packet() notes of a frame. *)
NoteInv ==
  \A n \in DOMAIN units :
    /\ units[n].delimiter = IF AddsDelimiter(units[n].header) THEN DelimiterSize ELSE 0
    /\ units[n].garbage = IF AddsDelimiter(units[n].header) THEN 0 ELSE DelimiterSize

LEMMA NoteInvariant == Spec => []NoteInv
<1>1. Init => NoteInv
  BY DEF Init, NoteInv
<1>2. FramesInv /\ NoteInv /\ [Next]_vars => NoteInv'
  <2> SUFFICES ASSUME FramesInv, NoteInv, [Next]_vars PROVE NoteInv'
    OBVIOUS
  <2>1. CASE \E header \in FirstHeaders, size \in Sizes, step \in Steps, delay \in Delays :
               WriteVideoPacket(header, size, step, delay)
    <3>1. PICK header \in FirstHeaders, size \in Sizes, step \in Steps, delay \in Delays :
                 WriteVideoPacket(header, size, step, delay)
      BY <2>1
    <3> DEFINE unit == [header |-> header, size |-> size,
                        delimiter |-> IF AddsDelimiter(header) THEN DelimiterSize ELSE 0,
                        garbage |-> IF AddsDelimiter(header) THEN 0 ELSE DelimiterSize]
    <3>2. /\ units' = Append(units, unit)
          /\ unit.header = header
          /\ unit.delimiter = IF AddsDelimiter(header) THEN DelimiterSize ELSE 0
          /\ unit.garbage = IF AddsDelimiter(header) THEN 0 ELSE DelimiterSize
      BY <3>1 DEF WriteVideoPacket
    <3> HIDE DEF unit
    <3>3. units \in Seq(Unit)
      BY DEF FramesInv
    <3>4. \A n \in DOMAIN units' :
            \/ n \in DOMAIN units /\ units'[n] = units[n]
            \/ units'[n] = unit
      BY <3>2, <3>3
    <3> QED
      BY <3>2, <3>4 DEF NoteInv
  <2>2. CASE UNCHANGED units
    BY <2>2 DEF NoteInv
  <2> QED
    BY <2>1, <2>2 DEF Next, WriteHeader, NotAnnexB, WriteTsPacket, InsertPackets, Drain,
                      Drained, vars
<1> QED
  BY <1>1, <1>2, FramesInvariant, PTL DEF Spec

(* Every frame arrives as one PES packet, in order, with each byte of the    *)
(* payload once and in its place, whatever the sizes of the frames and       *)
(* wherever the stream is cut into segments; and where the first header is   *)
(* odd and no delimiter's, the payload is one delimiter and the unit.        *)
THEOREM FramesArriveInvariant == Spec => []FramesArrive
<1>1. FramesInv /\ NoteInv => FramesArrive
  BY DEF FramesInv, NoteInv, FramesArrive, Given, OddAndBare, AddsDelimiter
<1> QED
  BY <1>1, FramesInvariant, NoteInvariant, PTL

-----------------------------------------------------------------------------
(* "make sure every AU starts with a Delimiter NALU": there is exactly one, *)
(* the unit's own or one that is added.                                     *)
DelimitedOnce ==
  \A n \in DOMAIN units : (units[n].header % 32 = 9) <=> (units[n].delimiter = 0)

(* Which frames come with exactly one delimiter, as the comment asks: all of *)
(* them if and only if each begins with an odd header that is not a          *)
(* delimiter's.  A frame that begins with a delimiter of its own always gets *)
(* a second, one that begins with an even header, SEI say, never has any.    *)
THEOREM DelimitedExactly ==
  Spec => [](DelimitedOnce <=> \A n \in DOMAIN units : OddAndBare(units[n].header))
<1>1. FramesInv /\ NoteInv => (DelimitedOnce <=> \A n \in DOMAIN units : OddAndBare(units[n].header))
  <2> SUFFICES ASSUME FramesInv, NoteInv
               PROVE  DelimitedOnce <=> \A n \in DOMAIN units : OddAndBare(units[n].header)
    OBVIOUS
  <2>1. ASSUME NEW n \in DOMAIN units
        PROVE  ((units[n].header % 32 = 9) <=> (units[n].delimiter = 0))
                 <=> OddAndBare(units[n].header)
    <3> DEFINE h == units[n].header
    <3>1. h \in Int
      <4>1. units \in Seq(Unit)
        BY DEF FramesInv
      <4>2. units[n] \in Unit
        BY <4>1
      <4> QED
        BY <4>2 DEF Unit
    <3>2. (units[n].delimiter = 0) <=> (h % 2 # 1)
      BY DEF NoteInv, AddsDelimiter, DelimiterSize
    <3> HIDE DEF h
    <3>3. (h % 32 = 9) => (h % 2 = 1)
      BY <3>1
    <3>4. ((h % 32 = 9) <=> (units[n].delimiter = 0)) <=> OddAndBare(h)
      BY <3>2, <3>3 DEF OddAndBare
    <3> QED
      BY <3>4 DEF h
  <2> QED
    BY <2>1 DEF DelimitedOnce
<1> QED
  BY <1>1, FramesInvariant, NoteInvariant, PTL
=============================================================================
