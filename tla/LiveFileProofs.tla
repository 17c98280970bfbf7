--------------------------- MODULE LiveFileProofs ---------------------------
(***************************************************************************)
(* Proofs about LiveFile, for every file, size of buffer, bound and set of *)
(* failures, and for both parsers: the order in which stop() and tear()    *)
(* work keeps what they free away from the two threads, and what goes      *)
(* through the list of access units, or through the byte queue, comes out  *)
(* once and in order.                                                      *)
(***************************************************************************)
EXTENDS LiveFile, CommonLemmas, SequenceTheorems

(* The i-th after a, and the j-th after that. *)
LEMMA NthType ==
  ASSUME NEW a \in Nat, NEW i \in Nat
  PROVE  Nth(a, i) \in Units
  BY IdsAssumption DEF Nth, Units

LEMMA NthNth ==
  ASSUME NEW a \in Nat, NEW i \in Nat, NEW j \in Nat
  PROVE  Nth(Nth(a, i), j) = Nth(a, i + j)
<1>1. a + i \in Nat /\ (a + i) + j = a + (i + j)
  OBVIOUS
<1>2. (((a + i) % Ids) + j) % Ids = ((a + i) + j) % Ids
  BY <1>1, ModPlus, IdsAssumption
<1> QED
  BY <1>1, <1>2 DEF Nth

LEMMA NthZero ==
  ASSUME NEW a \in Units
  PROVE  Nth(a, 0) = a
  BY ModSmall, IdsAssumption DEF Nth, Units

-----------------------------------------------------------------------------
(* Until when main may still free things under a thread: each thread holds *)
(* main back at its join, and what it uses goes only after that.           *)
PumpHolds ==
  pump \in {"top", "encode"} =>
    /\ main \in {"poll", "exit", "wait"}
    /\ Pipeline \cup {"filedata"} \subseteq alive

WorkerHolds ==
  worker \notin {"none", "done", "undefined"} =>
    /\ main \in {"map", "poll", "exit", "wait", "unmap", "tear", "join"}
    /\ Pipeline \subseteq alive

(* How far start() has come, and what stop() has undone already. *)
Started ==
  /\ main = "build" => pump = "none" /\ worker = "none" /\ alive = {}
  /\ main = "map" => pump = "none" /\ Pipeline \subseteq alive

Undone ==
  /\ main \in {"tear", "join", "free", "stopped"} => "filedata" \notin alive
  /\ main = "free" => worker \in {"none", "done"} /\ pump \in {"none", "done"}
  /\ main = "stopped" => alive \subseteq Leaked \cup {"audata"} /\ m_aus = <<>> /\ m_buffers = <<>>
  /\ "inio" \notin alive => m_buffers = <<>>
  /\ main \in {"unmap", "tear", "join", "stopped"} => pump \in {"none", "done"}

(* A thread is in read() exactly while the worker is in ffmpeg; what is    *)
(* undefined is so for all.                                                *)
ReadPlaces ==
  /\ worker = "undefined" <=> main = "undefined"
  /\ worker = "undefined" <=> pump = "undefined"
  /\ worker = "undefined" => reader = "take"
  /\ worker # "undefined" => (reader # "out" <=> worker \in {"probe", "read"})
  /\ worker \in {"probe", "demux", "read"} => parser = "ffmpeg"
  /\ m_exit => main = "stopped"

(* No buffer in the list is read to its end, and read() fills no more than *)
(* it was given.                                                           *)
ReadBounds ==
  /\ \A i \in DOMAIN m_buffers : m_buffers[i].pos < Len(m_buffers[i].data)
  /\ Len(buf) <= BufSize
  /\ reader \in {"wait", "woken", "take"} => Len(buf) < BufSize
  /\ reader = "done" => Len(buf) = BufSize
  /\ reader = "out" => buf = <<>>

(* The bytes of an access unit are the worker's until they are in a packet, *)
(* or for ever.                                                             *)
InHand ==
  "audata" \in alive =>
    frame # NoFrame /\ worker \in {"packet", "done", "undefined"}

IInv == /\ TypeOK /\ PumpHolds /\ WorkerHolds /\ Started /\ Undone /\ InHand
        /\ ReadPlaces /\ ReadBounds

(* It holds at first. *)
LEMMA InitIInv == Init => IInv
<1> SUFFICES ASSUME Init
             PROVE  IInv
  OBVIOUS
<1> USE DEF Init, IO!Init
<1>1. TypeOK
  <2>1. streampos \in DOMAIN Chunks
    BY ChunksAssumption
  <2>2. 0 \in Units
    BY IdsAssumption DEF Units
  <2>3. m_aus \in Seq(Units) /\ buf \in Seq(Units)
    OBVIOUS
  <2>4. m_buffers \in Seq([data : Seq(Units), pos : Nat])
    OBVIOUS
  <2> QED
    BY <2>1, <2>2, <2>3, <2>4 DEF TypeOK, NoFrame, IO!Places
<1>2. PumpHolds /\ WorkerHolds /\ Started /\ Undone /\ InHand /\ ReadPlaces
  BY DEF PumpHolds, WorkerHolds, Started, Undone, InHand, ReadPlaces
<1>3. ReadBounds
  BY BufSizeAssumption DEF ReadBounds
<1> QED
  BY <1>1, <1>2, <1>3 DEF IInv

-----------------------------------------------------------------------------
(* What addbuffer() and read() do, in the terms of the two invariants.     *)
Buffers == [data : Seq(Units), pos : Nat]

(* What a chunk of the file is in the list. *)
LEMMA Chunk ==
  ASSUME TypeOK, remaining > 0
  PROVE  LET data == [i \in 1..remaining |-> Nth(next, i - 1)]
         IN  /\ data \in Seq(Units)
             /\ Len(data) = remaining
             /\ [data |-> data, pos |-> 0] \in Buffers
<1> DEFINE data == [i \in 1..remaining |-> Nth(next, i - 1)]
<1>1. remaining \in Nat /\ next \in Nat
  BY DEF TypeOK, Units
<1>2. \A i \in 1..remaining : Nth(next, i - 1) \in Units
  BY <1>1, NthType
<1>3. data \in [1..remaining -> Units]
  BY <1>2
<1>4. data \in Seq(Units) /\ Len(data) = remaining
  BY <1>1, <1>3, SeqDef, LenProperties
<1> QED
  BY <1>4 DEF Buffers

(* One pass of read() with a buffer in the list: it copies at least a      *)
(* byte, and neither more than the buffer has nor more than was asked for. *)
LEMMA Copy ==
  ASSUME TypeOK, ReadBounds, reader = "take", m_buffers # <<>>
  PROVE  /\ IO!Front = m_buffers[1]
         /\ m_buffers[1] \in Buffers
         /\ IO!CpyLen \in Nat \ {0}
         /\ m_buffers[1].pos + IO!CpyLen <= Len(m_buffers[1].data)
         /\ Len(buf) + IO!CpyLen <= BufSize
<1>1. m_buffers \in Seq(Buffers) /\ buf \in Seq(Units)
  BY DEF TypeOK, Buffers
<1>2. IO!Front = m_buffers[1] /\ 1 \in DOMAIN m_buffers
  BY <1>1 DEF IO!Front
<1>3. m_buffers[1] \in Buffers
  BY <1>1, <1>2
<1>4. m_buffers[1].pos < Len(m_buffers[1].data) /\ Len(buf) < BufSize
  BY <1>2 DEF ReadBounds
<1>5. /\ m_buffers[1].pos \in Nat /\ Len(m_buffers[1].data) \in Nat
      /\ Len(buf) \in Nat
  BY <1>1, <1>3 DEF Buffers
<1> QED
  BY <1>2, <1>3, <1>4, <1>5, BufSizeAssumption DEF IO!CpyLen, IO!Shorter

(* What it copies. *)
LEMMA Copied ==
  ASSUME TypeOK, ReadBounds, reader = "take", m_buffers # <<>>,
         buf' = buf \o SubSeq(IO!Front.data, IO!Front.pos + 1,
                              IO!Front.pos + IO!CpyLen)
  PROVE  /\ buf' \in Seq(Units)
         /\ Len(buf') = Len(buf) + IO!CpyLen
         /\ \A i \in 1..Len(buf) : buf'[i] = buf[i]
         /\ \A i \in 1..IO!CpyLen :
              buf'[Len(buf) + i] = m_buffers[1].data[m_buffers[1].pos + i]
<1> DEFINE b == m_buffers[1]
           n == IO!CpyLen
           t == SubSeq(b.data, b.pos + 1, b.pos + n)
<1>1. /\ IO!Front = b /\ b \in Buffers /\ n \in Nat \ {0}
      /\ b.pos + n <= Len(b.data)
  BY Copy
<1>2. buf' = buf \o t
  BY <1>1
<1> HIDE DEF n
<1>3. b.data \in Seq(Units) /\ b.pos \in Nat
  BY <1>1 DEF Buffers
<1>4. \A i \in (b.pos + 1)..(b.pos + n) : b.data[i] \in Units
  BY <1>1, <1>3, ElementOfSeq
<1>5. /\ t \in Seq(Units)
      /\ Len(t) = n
      /\ \A i \in 1..n : t[i] = b.data[b.pos + i]
  <2>1. b.pos + 1 \in Int /\ b.pos + n \in Int
    BY <1>1, <1>3
  <2>2. /\ t \in Seq(Units)
        /\ Len(t) = IF b.pos + 1 <= b.pos + n
                    THEN (b.pos + n) - (b.pos + 1) + 1 ELSE 0
        /\ \A i \in 1..((b.pos + n) - (b.pos + 1) + 1) :
             t[i] = b.data[(b.pos + 1) + i - 1]
    BY <1>4, <2>1, SubSeqProperties
  <2> HIDE DEF t, b
  <2>3. Len(t) = n /\ (b.pos + n) - (b.pos + 1) + 1 = n
    BY <1>1, <1>3, <2>2
  <2>4. \A i \in 1..n : t[i] = b.data[b.pos + i]
    <3> SUFFICES ASSUME NEW i \in 1..n
                 PROVE  t[i] = b.data[b.pos + i]
      OBVIOUS
    <3>1. (b.pos + 1) + i - 1 = b.pos + i
      BY <1>1, <1>3
    <3>2. t[i] = b.data[(b.pos + 1) + i - 1]
      BY <2>2, <2>3
    <3> QED
      BY <3>1, <3>2
  <2> QED
    BY <2>2, <2>3, <2>4
<1> HIDE DEF t
<1>6. buf \in Seq(Units)
  BY DEF TypeOK
<1>7. /\ buf \o t \in Seq(Units)
      /\ Len(buf \o t) = Len(buf) + Len(t)
      /\ \A i \in 1..(Len(buf) + Len(t)) :
           (buf \o t)[i] = IF i <= Len(buf) THEN buf[i] ELSE t[i - Len(buf)]
  BY <1>5, <1>6, ConcatProperties
<1>8. Len(buf) \in Nat
  BY <1>6
<1>9. \A i \in 1..n : (buf \o t)[Len(buf) + i] = t[i]
  BY <1>1, <1>5, <1>7, <1>8
<1>10. \A i \in 1..Len(buf) : (buf \o t)[i] = buf[i]
  BY <1>1, <1>5, <1>7, <1>8
<1> QED
  BY <1>2, <1>5, <1>7, <1>9, <1>10 DEF n

(* What it leaves in the list. *)
LEMMA Left ==
  ASSUME TypeOK, ReadBounds, reader = "take", m_buffers # <<>>,
         m_buffers' = IO!Rest
  PROVE  /\ m_buffers' \in Seq(Buffers)
         /\ \/ /\ m_buffers[1].pos + IO!CpyLen = Len(m_buffers[1].data)
               /\ Len(m_buffers') = Len(m_buffers) - 1
               /\ \A i \in 1..Len(m_buffers') : m_buffers'[i] = m_buffers[i + 1]
            \/ /\ m_buffers[1].pos + IO!CpyLen < Len(m_buffers[1].data)
               /\ Len(m_buffers') = Len(m_buffers)
               /\ m_buffers'[1].data = m_buffers[1].data
               /\ m_buffers'[1].pos = m_buffers[1].pos + IO!CpyLen
               /\ \A i \in 2..Len(m_buffers') : m_buffers'[i] = m_buffers[i]
<1> DEFINE b == m_buffers[1]
           n == IO!CpyLen
<1>1. /\ IO!Front = b /\ b \in Buffers /\ n \in Nat \ {0}
      /\ b.pos + n <= Len(b.data)
  BY Copy
<1> HIDE DEF n
<1>2. m_buffers \in Seq(Buffers)
  BY DEF TypeOK, Buffers
<1>3. b.pos \in Nat /\ Len(b.data) \in Nat
  BY <1>1 DEF Buffers
<1>4. CASE b.pos + n = Len(b.data)
  <2>1. m_buffers' = Tail(m_buffers)
    BY <1>1, <1>4 DEF IO!Rest, n
  <2> QED
    BY <1>2, <1>4, <2>1, HeadTailProperties DEF n
<1>5. CASE b.pos + n < Len(b.data)
  <2> DEFINE e == [b EXCEPT !.pos = @ + n]
  <2>1. m_buffers' = [m_buffers EXCEPT ![1] = e]
    BY <1>1, <1>3, <1>5 DEF IO!Rest, n
  <2>2. e \in Buffers /\ e.data = b.data /\ e.pos = b.pos + n
    BY <1>1, <1>3 DEF Buffers
  <2>3. 1 \in 1..Len(m_buffers)
    BY <1>2
  <2> HIDE DEF e
  <2>4. /\ m_buffers' \in Seq(Buffers)
        /\ Len(m_buffers') = Len(m_buffers)
        /\ \A j \in 1..Len(m_buffers) :
             m_buffers'[j] = IF j = 1 THEN e ELSE m_buffers[j]
    BY <1>2, <2>1, <2>2, <2>3, ExceptSeq
  <2> QED
    BY <1>2, <1>5, <2>2, <2>3, <2>4 DEF n
<1> QED
  BY <1>1, <1>3, <1>4, <1>5

-----------------------------------------------------------------------------
(* Every step keeps the types. *)
LEMMA NextTypeOK ==
  ASSUME IInv, [Next]_vars
  PROVE  TypeOK'
<1> USE DEF TypeOK
<1>0. TypeOK /\ ReadBounds
  BY DEF IInv
<1> USE <1>0
<1> USE DEF threads, source, sink, iovars, IO!iovars, MainGoes, WorkerGoes
<1>1. CASE StartBuild \/ StartMap
  BY <1>1 DEF StartBuild, StartMap, Pipeline, Input, Leaked
<1>2. CASE Interrupted \/ StopExit \/ StopWait \/ StopUnmap
  BY <1>2 DEF Interrupted, StopExit, StopWait, StopUnmap, Pipeline, Input
<1>3. CASE TearExit \/ TearWait
  BY <1>3 DEF TearExit, TearWait, Pipeline, Input
<1>4. CASE TearFree
  <2>1. reader \in IO!Places => IO!Signalled \in IO!Places
    BY DEF IO!Signalled, IO!Places
  <2>2. <<>> \in Seq(Units) /\ <<>> \in Seq([data : Seq(Units), pos : Nat])
    OBVIOUS
  <2> HIDE DEF IO!Places, IO!Signalled, Units, Pipeline, Leaked
  <2>3. UNCHANGED <<parser, pump, worker, exits, streampos, remaining, next, frame,
                    expected>>
        /\ main' = "stopped" /\ m_aus' = <<>> /\ alive' \subseteq alive
    BY <1>4 DEF TearFree
  <2>4. /\ m_buffers' \in Seq([data : Seq(Units), pos : Nat])
        /\ m_exit' \in BOOLEAN
        /\ reader' \in IO!Places
        /\ buf' \in Seq(Units)
        /\ roused' \in BOOLEAN
    BY <1>4, <2>1, <2>2 DEF TearFree, IO!Clean
  <2>5. Pipeline' = Pipeline
    BY <2>3 DEF Pipeline, Input
  <2> QED
    BY <2>2, <2>3, <2>4, <2>5
<1>5. CASE PumpTop
  BY <1>5, ChunksAssumption, SizesAssumption DEF PumpTop, Pipeline, Input
<1>6. CASE PumpFinishAU
  <2>1. Nth(next, 1) \in Units
    BY NthType DEF Units
  <2>2. m_aus' \in Seq(Units)
    BY <1>6 DEF PumpFinishAU
  <2>3. remaining' \in Nat
    BY <1>6 DEF PumpFinishAU
  <2> QED
    BY <1>6, <2>1, <2>2, <2>3 DEF PumpFinishAU, Pipeline, Input
<1>7. CASE PumpAddBuffer
  <2>1. Nth(next, remaining) \in Units
    <3>1. next \in Nat /\ remaining \in Nat
      BY DEF Units
    <3> QED
      BY <3>1, NthType
  <2>2. /\ m_buffers' \in Seq([data : Seq(Units), pos : Nat])
        /\ m_exit' \in BOOLEAN
        /\ reader' \in IO!Places
        /\ buf' \in Seq(Units)
        /\ roused' \in BOOLEAN
    <3> DEFINE data == [i \in 1..remaining |-> Nth(next, i - 1)]
    <3>1. [data |-> data, pos |-> 0] \in Buffers
      BY <1>7, Chunk DEF PumpAddBuffer
    <3>2. IO!addbuffer(data)
      BY <1>7 DEF PumpAddBuffer
    <3> DEFINE e == [data |-> data, pos |-> 0]
    <3> HIDE DEF data
    <3>3. CASE m_exit
      BY <3>2, <3>3 DEF IO!addbuffer
    <3>4. CASE ~m_exit
      <4>1. IO!Signalled \in IO!Places
        BY DEF IO!Signalled, IO!Places
      <4>2. m_buffers \in Seq(Buffers)
        BY DEF Buffers
      <4>3. m_buffers' \in Seq(Buffers)
        <5>1. e \in Buffers /\ m_buffers' = Append(m_buffers, e)
          BY <3>1, <3>2, <3>4 DEF IO!addbuffer
        <5> HIDE DEF e
        <5> QED
          BY <4>2, <5>1, AppendProperties
      <4> QED
        BY <3>2, <3>4, <4>1, <4>3 DEF IO!addbuffer, Buffers
    <3> QED
      BY <3>3, <3>4
  <2> QED
    BY <1>7, <2>1, <2>2 DEF PumpAddBuffer, Pipeline, Input
<1>8. CASE PumpAdvance
  <2>1. Advanced \in DOMAIN Chunks
    BY ChunksAssumption DEF Advanced
  <2> QED
    BY <1>8, <2>1 DEF PumpAdvance, Pipeline, Input
<1>9. CASE WorkerCreate
  <2>1. Decoder \subseteq Leaked
    BY DEF Decoder, Leaked
  <2> HIDE DEF Units, Leaked
  <2> QED
    BY <1>9, <2>1 DEF WorkerCreate, Pipeline, Input
<1>10. CASE WorkerTop \/ WorkerPacket \/ WorkerDemux \/ WorkerRender \/ WorkerUndefined
  <2>1. CASE WorkerTop \/ WorkerPacket
    BY <2>1 DEF WorkerTop, WorkerPacket, Pipeline, Input
  <2>2. CASE WorkerDemux
    BY <2>2 DEF WorkerDemux, Pipeline, Input
  <2>3. CASE WorkerRender
    BY <2>3 DEF WorkerRender, Pipeline, Input
  <2>4. CASE WorkerUndefined
    BY <2>4 DEF WorkerUndefined, Pipeline, Input
  <2> QED
    BY <1>10, <2>1, <2>2, <2>3, <2>4
<1>11. CASE WorkerGet
  <2>1. CASE m_aus = <<>>
    BY <1>11, <2>1 DEF WorkerGet, Pipeline, Input
  <2>2. CASE m_aus # <<>>
    <3>1. Head(m_aus) \in Units /\ Tail(m_aus) \in Seq(Units)
      BY <2>2
    <3> HIDE DEF Units
    <3> QED
      BY <1>11, <2>2, <3>1 DEF WorkerGet, Fetched, Pipeline, Input
  <2> QED
    BY <2>1, <2>2
<1>12. CASE WorkerRead
  <2>1. <<>> \in Seq(Units)
    OBVIOUS
  <2> HIDE DEF Units, Leaked
  <2>2. /\ UNCHANGED <<parser, main, pump, exits, streampos, remaining, next, alive,
                      m_aus, frame, expected, m_buffers, m_exit, roused>>
        /\ worker' \in {"probe", "read"} /\ buf' = <<>>
        /\ reader' \in {"done", "loop"}
    BY <1>12 DEF WorkerRead, IO!ReadEnter
  <2> QED
    BY <2>1, <2>2 DEF IO!Places, Pipeline, Input
<1>17. CASE WorkerRoused
  BY <1>17 DEF WorkerRoused, IO!ReadRoused, IO!Places, Pipeline, Input
<1>13. CASE WorkerReadStep
  <2>1. CASE IO!ReadLoop \/ IO!ReadReacquire
    BY <1>13, <2>1 DEF WorkerReadStep, IO!ReadLoop, IO!ReadReacquire, IO!Places,
                       Pipeline, Input
  <2>2. CASE IO!ReadTake
    <3>1. /\ buf' \in Seq(Units)
          /\ m_buffers' \in Seq([data : Seq(Units), pos : Nat])
          /\ reader' \in IO!Places
          /\ roused' \in BOOLEAN
      <4>1. CASE m_exit
        BY <2>2, <4>1 DEF IO!ReadTake, IO!Places
      <4>2. CASE ~m_exit
        <5>1. buf' \in Seq(Units)
          BY <2>2, <4>2, Copied DEF IO!ReadTake
        <5>2. m_buffers' \in Seq(Buffers)
          BY <2>2, <4>2, Left DEF IO!ReadTake
        <5> QED
          BY <2>2, <4>2, <5>1, <5>2 DEF IO!ReadTake, IO!Places, Buffers
      <4> QED
        BY <4>1, <4>2
    <3>2. m_exit' = m_exit
      BY <2>2 DEF IO!ReadTake
    <3> QED
      BY <1>13, <3>1, <3>2 DEF WorkerReadStep, Pipeline, Input
  <2> QED
    BY <1>13, <2>1, <2>2 DEF WorkerReadStep
<1>14. CASE WorkerReadReturn
  <2>1. Nth(expected, Len(buf)) \in Units
    BY NthType DEF Units
  <2>2. <<>> \in Seq(Units)
    OBVIOUS
  <2> QED
    BY <1>14, <2>1, <2>2 DEF WorkerReadReturn, IO!ReadReturn, IO!Places, Pipeline,
                             Input
<1>15. CASE WorkerSegment
  <2>1. parser = "avc" => Nth(frame, 1) \in Units
    <3>1. frame \in Int
      BY DEF Units, NoFrame
    <3> QED
      BY <3>1, IdsAssumption DEF Nth, Units
  <2> QED
    BY <1>15, <2>1 DEF WorkerSegment, Pipeline, Input
<1>16. CASE UNCHANGED vars
  BY <1>16 DEF vars, Pipeline, Input
<1> QED
  BY <1>1, <1>2, <1>3, <1>4, <1>5, <1>6, <1>7, <1>8, <1>9, <1>10, <1>11, <1>12,
     <1>13, <1>14, <1>15, <1>16, <1>17
     DEF Next, Main, Pump, Worker

(* Every step keeps what the joins protect. *)
LEMMA NextHolds ==
  ASSUME IInv, [Next]_vars
  PROVE  (PumpHolds /\ WorkerHolds /\ Started /\ Undone /\ ReadPlaces)'
<1> USE DEF IInv, TypeOK, PumpHolds, WorkerHolds, Started, Undone, ReadPlaces,
            Pipeline, Input, threads, source, sink, iovars, MainGoes, WorkerGoes
<1>1. CASE StartBuild
  BY <1>1 DEF StartBuild
<1>2. CASE StartMap
  BY <1>2 DEF StartMap
<1>3. CASE StopExit \/ Interrupted
  BY <1>3 DEF StopExit, Interrupted
<1>4. CASE StopWait
  BY <1>4 DEF StopWait, PumpJoined
<1>5. CASE StopUnmap
  BY <1>5 DEF StopUnmap
<1>6. CASE TearExit
  BY <1>6 DEF TearExit
<1>7. CASE TearWait
  BY <1>7 DEF TearWait, WorkerJoined
<1>8. CASE TearFree
  <2>1. reader = "out" /\ reader' = "out"
    BY <1>8 DEF TearFree, IO!Clean, IO!Signalled
  <2>2. m_buffers' = <<>> /\ m_aus' = <<>>
    BY <1>8 DEF TearFree, IO!Clean
  <2>3. alive' \subseteq Leaked \cup {"audata"} /\ "inio" \notin alive'
    BY <1>8 DEF TearFree, Leaked
  <2> QED
    BY <1>8, <2>1, <2>2, <2>3 DEF TearFree
<1>9. CASE PumpTop \/ PumpFinishAU \/ PumpAdvance
  BY <1>9 DEF PumpTop, PumpFinishAU, PumpAdvance
<1>10. CASE PumpAddBuffer
  <2>1. ~m_exit /\ "inio" \in alive
    BY <1>10 DEF PumpAddBuffer
  <2>2. reader' # "out" <=> reader # "out"
    BY <1>10, <2>1 DEF PumpAddBuffer, IO!addbuffer, IO!Signalled
  <2>3. m_exit' = m_exit
    BY <1>10, <2>1 DEF PumpAddBuffer, IO!addbuffer
  <2> QED
    BY <1>10, <2>1, <2>2, <2>3 DEF PumpAddBuffer
<1>11. CASE WorkerCreate
  <2>1. "inio" \notin Decoder /\ alive \subseteq alive' /\ alive' \subseteq alive \cup Decoder
    BY <1>11 DEF WorkerCreate, Decoder
  <2>2. "filedata" \notin Decoder
    BY DEF Decoder
  <2>3. UNCHANGED <<parser, main, pump, m_aus, iovars>>
    BY <1>11 DEF WorkerCreate
  <2>4. worker = "create" /\ worker' \in {"top", "done"}
    BY <1>11 DEF WorkerCreate
  <2> QED
    BY <2>1, <2>2, <2>3, <2>4
<1>12. CASE WorkerTop \/ WorkerPacket \/ WorkerDemux \/ WorkerRender \/ WorkerSegment
  BY <1>12, ParsersAssumption
     DEF WorkerTop, WorkerPacket, WorkerDemux, WorkerRender, WorkerSegment
<1>18. CASE WorkerGet
  <2>1. m_aus = <<>> => m_aus' = <<>>
    BY <1>18 DEF WorkerGet
  <2>2. /\ UNCHANGED <<parser, main, pump, iovars>>
        /\ worker = "get" /\ worker' \in {"top", "packet"}
        /\ alive \subseteq alive' /\ alive' \subseteq alive \cup {"audata"}
    BY <1>18 DEF WorkerGet
  <2> QED
    BY <2>1, <2>2
<1>13. CASE WorkerRead \/ WorkerReadReturn
  BY <1>13 DEF WorkerRead, WorkerReadReturn, IO!ReadEnter, IO!ReadReturn
<1>14. CASE WorkerReadStep
  <2>1. reader # "out" /\ reader' # "out" /\ m_exit' = m_exit
    BY <1>14 DEF WorkerReadStep, IO!ReadLoop, IO!ReadReacquire, IO!ReadTake
  <2>2. "inio" \in alive
    BY <1>14 DEF WorkerReadStep
  <2> QED
    BY <1>14, <2>1, <2>2 DEF WorkerReadStep
<1>15. CASE WorkerRoused
  BY <1>15 DEF WorkerRoused, IO!ReadRoused
<1>16. CASE WorkerUndefined
  BY <1>16 DEF WorkerUndefined, IO!FrontMissing
<1>17. CASE UNCHANGED vars
  BY <1>17 DEF vars
<1> QED
  BY <1>1, <1>2, <1>3, <1>4, <1>5, <1>6, <1>7, <1>8, <1>9, <1>10, <1>11, <1>12,
     <1>13, <1>14, <1>15, <1>16, <1>17, <1>18
     DEF Next, Main, Pump, Worker

(* Steps that leave the byte queue alone. *)
LEMMA IOUnchanged ==
  ASSUME [Next]_vars,
         ~TearFree, ~PumpAddBuffer, ~WorkerRead, ~WorkerReadStep,
         ~WorkerReadReturn, ~WorkerRoused
  PROVE  UNCHANGED iovars
BY DEF Next, Main, Pump, Worker, vars, StartBuild, StartMap, Interrupted, StopExit,
       StopWait, StopUnmap, TearExit, TearWait, PumpTop, PumpFinishAU, PumpAdvance,
       WorkerCreate, WorkerTop, WorkerGet, WorkerPacket, WorkerDemux, WorkerRender,
       WorkerSegment, WorkerUndefined

(* Every step keeps the bounds of read(). *)
LEMMA NextReadBounds ==
  ASSUME IInv, [Next]_vars
  PROVE  ReadBounds'
<1>0. TypeOK /\ ReadBounds /\ ReadPlaces
  BY DEF IInv
<1>1. /\ m_buffers \in Seq(Buffers) /\ buf \in Seq(Units)
      /\ Len(buf) \in Nat
  BY <1>0 DEF TypeOK, Buffers
<1> USE DEF ReadBounds
<1>2. CASE TearFree
  <2>1. worker \in {"none", "done"}
    BY <1>2 DEF TearFree, MainGoes, IInv, Undone
  <2>2. reader = "out"
    BY <1>0, <2>1 DEF ReadPlaces
  <2> QED
    BY <1>0, <1>2, <2>2 DEF TearFree, IO!Clean, IO!Signalled, iovars
<1>3. CASE PumpAddBuffer
  <2> DEFINE data == [i \in 1..remaining |-> Nth(next, i - 1)]
             e == [data |-> data, pos |-> 0]
  <2>1. data \in Seq(Units) /\ Len(data) = remaining /\ e \in Buffers
    BY <1>0, <1>3, Chunk DEF PumpAddBuffer
  <2>2. e.pos < Len(e.data)
    BY <1>3, <2>1 DEF PumpAddBuffer
  <2>3. IO!addbuffer(data)
    BY <1>3 DEF PumpAddBuffer
  <2> HIDE DEF e, data
  <2>4. CASE m_exit
    BY <1>0, <2>3, <2>4 DEF IO!addbuffer, IO!iovars
  <2>5. CASE ~m_exit
    <3>1. m_buffers' = Append(m_buffers, e) /\ buf' = buf /\ reader' = IO!Signalled
      BY <2>3, <2>5 DEF IO!addbuffer, e
    <3>2. \A i \in DOMAIN m_buffers' : m_buffers'[i].pos < Len(m_buffers'[i].data)
      BY <1>0, <1>1, <2>1, <2>2, <3>1, AppendProperties
    <3> QED
      BY <1>0, <3>1, <3>2 DEF IO!Signalled
  <2> QED
    BY <2>4, <2>5
<1>4. CASE WorkerRead \/ WorkerReadReturn \/ WorkerRoused
  BY <1>0, <1>4, BufSizeAssumption
     DEF WorkerRead, WorkerReadReturn, WorkerRoused, ReadPlaces, IO!ReadEnter,
         IO!ReadReturn, IO!ReadRoused, WorkerGoes, IInv, WorkerHolds
<1>5. CASE WorkerReadStep
  <2>1. CASE IO!ReadLoop
    BY <1>0, <1>1, <2>1, BufSizeAssumption DEF IO!ReadLoop
  <2>2. CASE IO!ReadReacquire
    BY <1>0, <2>2 DEF IO!ReadReacquire
  <2>3. CASE IO!ReadTake
    <3>1. ~m_exit
      BY <1>0, <1>5 DEF ReadPlaces, WorkerReadStep, IInv, WorkerHolds
    <3>2. /\ reader = "take" /\ m_buffers # <<>> /\ reader' = "loop"
          /\ m_buffers' = IO!Rest
          /\ buf' = buf \o SubSeq(IO!Front.data, IO!Front.pos + 1,
                                  IO!Front.pos + IO!CpyLen)
      BY <2>3, <3>1 DEF IO!ReadTake
    <3>3. Len(buf') <= BufSize
      BY <1>0, <3>2, Copy, Copied
    <3>4. \A i \in DOMAIN m_buffers' : m_buffers'[i].pos < Len(m_buffers'[i].data)
      <4>0. m_buffers' \in Seq(Buffers)
        BY <1>0, <3>2, Left
      <4> SUFFICES ASSUME NEW i \in 1..Len(m_buffers')
                   PROVE  m_buffers'[i].pos < Len(m_buffers'[i].data)
        BY <4>0, LenProperties
      <4>1. Len(m_buffers) \in Nat \ {0} /\ Len(m_buffers') \in Nat
        BY <1>0, <1>1, <3>2, Left
      <4>2. CASE m_buffers[1].pos + IO!CpyLen = Len(m_buffers[1].data)
        <5>1. /\ Len(m_buffers') = Len(m_buffers) - 1
              /\ m_buffers'[i] = m_buffers[i + 1]
          BY <1>0, <3>2, <4>2, Left
        <5>2. i + 1 \in DOMAIN m_buffers
          BY <1>1, <4>1, <5>1
        <5> QED
          BY <1>0, <5>1, <5>2
      <4>3. CASE m_buffers[1].pos + IO!CpyLen < Len(m_buffers[1].data)
        <5>1. Len(m_buffers') = Len(m_buffers) /\ i \in DOMAIN m_buffers
          BY <1>0, <1>1, <3>2, <4>1, <4>3, Left
        <5>2. i = 1 => m_buffers'[i].data = m_buffers[1].data
                       /\ m_buffers'[i].pos = m_buffers[1].pos + IO!CpyLen
          BY <1>0, <3>2, <4>3, Left
        <5>3. i # 1 => m_buffers'[i] = m_buffers[i]
          BY <1>0, <3>2, <4>1, <4>3, Left
        <5> QED
          BY <1>0, <4>3, <5>1, <5>2, <5>3
      <4> QED
        BY <1>0, <3>2, <4>2, <4>3, Left
    <3> QED
      BY <3>2, <3>3, <3>4
  <2> QED
    BY <1>5, <2>1, <2>2, <2>3 DEF WorkerReadStep
<1>6. CASE UNCHANGED iovars
  BY <1>0, <1>6 DEF iovars
<1> QED
  BY <1>2, <1>3, <1>4, <1>5, <1>6, IOUnchanged

(* Every step keeps what is known of the bytes of an access unit. *)
LEMMA NextInHand ==
  ASSUME IInv, [Next]_vars
  PROVE  InHand'
<1> USE DEF IInv, TypeOK, Started, InHand, threads, source, sink, MainGoes, WorkerGoes,
            Decoder
<1>1. CASE WorkerGet
  <2>1. m_aus # <<>> => frame' # NoFrame
    <3>1. m_aus # <<>> => Head(m_aus) \in Units
      BY HeadTailProperties
    <3> QED
      BY <1>1, <3>1 DEF WorkerGet, Fetched, Units, NoFrame
  <2> QED
    BY <1>1, <2>1 DEF WorkerGet
<1>2. CASE WorkerPacket \/ WorkerCreate \/ WorkerTop \/ WorkerDemux \/ WorkerRender
  BY <1>2 DEF WorkerPacket, WorkerCreate, WorkerTop, WorkerDemux, WorkerRender
<1>3. CASE WorkerSegment \/ WorkerUndefined
  BY <1>3 DEF WorkerSegment, WorkerUndefined
<1>4. CASE WorkerRead \/ WorkerReadStep \/ WorkerReadReturn \/ WorkerRoused
  BY <1>4 DEF WorkerRead, WorkerReadStep, WorkerReadReturn, WorkerRoused
<1>5. CASE StartBuild
  BY <1>5 DEF StartBuild, Pipeline, Input
<1>6. CASE StartMap \/ Interrupted \/ StopExit \/ StopWait \/ StopUnmap
  BY <1>6 DEF StartMap, Interrupted, StopExit, StopWait, StopUnmap
<1>7. CASE TearExit \/ TearWait \/ TearFree
  BY <1>7 DEF TearExit, TearWait, TearFree
<1>8. CASE PumpTop \/ PumpFinishAU \/ PumpAddBuffer \/ PumpAdvance
  BY <1>8 DEF PumpTop, PumpFinishAU, PumpAddBuffer, PumpAdvance
<1>9. CASE UNCHANGED vars
  BY <1>9 DEF vars
<1> QED
  BY <1>1, <1>2, <1>3, <1>4, <1>5, <1>6, <1>7, <1>8, <1>9 DEF Next, Main, Pump, Worker

(* The inductive invariant holds in every reachable state. *)
THEOREM IInvInvariant == Spec => []IInv
<1>1. IInv /\ [Next]_vars => IInv'
  BY NextTypeOK, NextHolds, NextReadBounds, NextInHand DEF IInv
<1> QED
  BY <1>1, InitIInv, PTL DEF Spec

(* Type correctness. *)
THEOREM TypeCorrect == Spec => []TypeOK
<1>1. IInv => TypeOK
  BY DEF IInv
<1> QED
  BY <1>1, IInvInvariant, PTL

(* Wherever start() gave up and whenever a thread looks at its m_exit, stop() *)
(* and tear() free nothing that LiveFile::svc() or HLSLive::svc() still uses. *)
THEOREM NothingFreedInUseInvariant == Spec => []NothingFreedInUse
<1>1. IInv => NothingFreedInUse
  BY DEF IInv, PumpHolds, WorkerHolds, NothingFreedInUse, Pipeline
<1> QED
  BY <1>1, IInvInvariant, PTL

(* After stop() nothing is allocated but what is leaked on every path, and  *)
(* the access unit that svc() gave up with for want of a packet, if it did; *)
(* and neither thread runs.                                                 *)
THEOREM NothingLeftInvariant == Spec => []NothingLeft
<1>1. IInv => NothingLeft
  BY DEF IInv, TypeOK, PumpHolds, WorkerHolds, Undone, InHand, ReadPlaces, NothingLeft,
         Abandoned
<1> QED
  BY <1>1, IInvInvariant, PTL

-----------------------------------------------------------------------------
(* read() goes for the front of the list because there is something, or    *)
(* because it was woken up for nothing.                                    *)
Awake == reader \in {"woken", "take"} => m_buffers # <<>> \/ roused

LEMMA NextAwake ==
  ASSUME IInv, Awake, [Next]_vars
  PROVE  Awake'
<1> USE DEF Awake
<1>0. TypeOK /\ ReadPlaces
  BY DEF IInv
<1>1. CASE TearFree
  <2>1. worker \in {"none", "done"}
    BY <1>1 DEF TearFree, MainGoes, IInv, Undone
  <2> QED
    BY <1>0, <1>1, <2>1 DEF TearFree, ReadPlaces, IO!Clean, IO!Signalled, iovars
<1>2. CASE PumpAddBuffer
  <2> DEFINE data == [i \in 1..remaining |-> Nth(next, i - 1)]
             e == [data |-> data, pos |-> 0]
  <2>1. e \in Buffers
    BY <1>0, <1>2, Chunk DEF PumpAddBuffer
  <2>2. IO!addbuffer(data)
    BY <1>2 DEF PumpAddBuffer
  <2> HIDE DEF data
  <2>3. CASE m_exit
    BY <2>2, <2>3 DEF IO!addbuffer, IO!iovars
  <2>4. CASE ~m_exit
    <3>1. m_buffers' = Append(m_buffers, e) /\ m_buffers \in Seq(Buffers)
      BY <1>0, <2>2, <2>4 DEF IO!addbuffer, TypeOK, Buffers
    <3> HIDE DEF e
    <3> QED
      BY <2>1, <3>1, AppendProperties
  <2> QED
    BY <2>3, <2>4
<1>3. CASE WorkerRead \/ WorkerReadReturn \/ WorkerRoused
  BY <1>3 DEF WorkerRead, WorkerReadReturn, WorkerRoused, IO!ReadEnter, IO!ReadReturn,
              IO!ReadRoused
<1>4. CASE WorkerReadStep
  BY <1>4 DEF WorkerReadStep, IO!ReadLoop, IO!ReadReacquire, IO!ReadTake
<1>5. CASE UNCHANGED iovars
  BY <1>5 DEF iovars
<1> QED
  BY <1>1, <1>2, <1>3, <1>4, <1>5, IOUnchanged

(* No signal is sent, and none is noticed, without a buffer in the list. *)
THEOREM FrontSoundInvariant == Spec => []FrontSound
<1>1. Init => Awake
  BY DEF Init, IO!Init, Awake
<1>2. IInv /\ Awake /\ [Next]_vars => Awake'
  BY NextAwake
<1>3. Awake => FrontSound
  BY DEF Awake, FrontSound, IO!FrontMissing
<1> QED
  BY <1>1, <1>2, <1>3, IInvInvariant, PTL DEF Spec

-----------------------------------------------------------------------------
(* read() sleeps with an empty list only: addbuffer() takes no step between  *)
(* its look at the list and its sleep, and wakes it after.                   *)
SleepsOnEmpty == reader = "wait" => m_buffers = <<>>

(* No wakeup by addbuffer() is lost: whatever the threads do, read() never   *)
(* sleeps while there is something in the list.                              *)
THEOREM NoBufferWaits == Spec => []SleepsOnEmpty
<1> USE DEF SleepsOnEmpty
<1>1. Init => SleepsOnEmpty
  BY DEF Init, IO!Init
<1>2. IInv /\ SleepsOnEmpty /\ [Next]_vars => SleepsOnEmpty'
  <2> SUFFICES ASSUME IInv, SleepsOnEmpty, [Next]_vars PROVE SleepsOnEmpty'
    OBVIOUS
  <2>1. CASE TearFree
    BY <2>1 DEF TearFree, IO!Clean, IO!Signalled, iovars
  <2>2. CASE PumpAddBuffer
    BY <2>2 DEF PumpAddBuffer, IO!addbuffer, IO!Signalled, IO!iovars
  <2>3. CASE WorkerRead \/ WorkerReadReturn \/ WorkerRoused
    BY <2>3 DEF WorkerRead, WorkerReadReturn, WorkerRoused, IO!ReadEnter,
                IO!ReadReturn, IO!ReadRoused
  <2>4. CASE WorkerReadStep
    BY <2>4 DEF WorkerReadStep, IO!ReadLoop, IO!ReadReacquire, IO!ReadTake
  <2>5. CASE UNCHANGED iovars
    BY <2>5 DEF iovars
  <2> QED
    BY <2>1, <2>2, <2>3, <2>4, <2>5, IOUnchanged
<1> QED
  BY <1>1, <1>2, IInvInvariant, PTL DEF Spec

-----------------------------------------------------------------------------
(* The access units in the list are numbered from that which the worker is *)
(* to get, or has in its hands, up to the next one.                        *)
Head1 == IF m_aus = <<>> THEN next ELSE m_aus[1]

UnitsLinked ==
  parser = "avc" =>
    /\ m_aus # <<>> => next = Nth(m_aus[Len(m_aus)], 1)
    /\ \A i \in 1..(Len(m_aus) - 1) : m_aus[i + 1] = Nth(m_aus[i], 1)
    /\ worker \in {"packet", "render", "segment"} =>
         frame \in Units /\ frame = expected /\ Head1 = Nth(frame, 1)
    /\ worker \in {"create", "top", "get"} => Head1 = expected
    /\ main = "build" => m_aus = <<>> /\ next = expected

(* The build stays what it is. *)
LEMMA SameParser ==
  ASSUME [Next]_vars
  PROVE  parser' = parser
BY DEF Next, Main, Pump, Worker, vars, StartBuild, StartMap, Interrupted, StopExit,
       StopWait, StopUnmap, TearExit, TearWait, TearFree, PumpTop, PumpFinishAU,
       PumpAddBuffer, PumpAdvance, WorkerCreate, WorkerTop, WorkerGet, WorkerPacket,
       WorkerRead, WorkerReadStep, WorkerReadReturn, WorkerDemux, WorkerRender,
       WorkerSegment, WorkerRoused, WorkerUndefined, MainGoes, WorkerGoes

(* Every step keeps the numbering. *)
LEMMA NextUnitsLinked ==
  ASSUME IInv, UnitsLinked, [Next]_vars
  PROVE  UnitsLinked'
<1>0. TypeOK /\ ReadPlaces /\ Started /\ parser' = parser
  BY SameParser DEF IInv
<1>1. m_aus \in Seq(Units) /\ Len(m_aus) \in Nat /\ next \in Units
  BY <1>0 DEF TypeOK
<1> SUFFICES ASSUME parser = "avc"
             PROVE  UnitsLinked'
  BY <1>0 DEF UnitsLinked
<1> USE <1>0, <1>1
<1> USE DEF UnitsLinked, Head1, threads, source, sink, MainGoes, WorkerGoes
<1>2. CASE StartBuild
  BY <1>2 DEF StartBuild, Started
<1>3. CASE TearFree
  <2>1. worker \in {"none", "done"}
    BY <1>3 DEF TearFree, IInv, Undone
  <2> QED
    BY <1>3, <2>1 DEF TearFree
<1>4. CASE PumpFinishAU
  <2>1. main # "build"
    BY <1>4 DEF PumpFinishAU, Started
  <2>2. /\ m_aus' = Append(m_aus, next) /\ next' = Nth(next, 1)
        /\ UNCHANGED <<main, worker, frame, expected>>
    BY <1>4 DEF PumpFinishAU
  <2>3. /\ Len(m_aus') = Len(m_aus) + 1
        /\ \A i \in 1..Len(m_aus) : m_aus'[i] = m_aus[i]
        /\ m_aus'[Len(m_aus) + 1] = next
        /\ m_aus' # <<>>
    BY <2>2, AppendProperties
  <2>4. Head1' = Head1
    BY <2>2, <2>3
  <2>5. \A i \in 1..(Len(m_aus') - 1) : m_aus'[i + 1] = Nth(m_aus'[i], 1)
    <3> SUFFICES ASSUME NEW i \in 1..Len(m_aus)
                 PROVE  m_aus'[i + 1] = Nth(m_aus'[i], 1)
      BY <2>3
    <3>1. CASE i = Len(m_aus)
      BY <2>3, <3>1
    <3>2. CASE i < Len(m_aus)
      <4>1. i \in 1..(Len(m_aus) - 1) /\ i + 1 \in 1..Len(m_aus)
        BY <3>2
      <4> QED
        BY <2>3, <4>1
    <3> QED
      BY <3>1, <3>2
  <2> HIDE DEF Head1
  <2> QED
    BY <2>1, <2>2, <2>3, <2>4, <2>5
<1>5. CASE WorkerGet
  <2>1. CASE m_aus = <<>>
    BY <1>5, <2>1 DEF WorkerGet
  <2>2. CASE m_aus # <<>>
    <3>1. /\ m_aus' = Tail(m_aus) /\ frame' = m_aus[1] /\ m_aus[1] \in Units
          /\ worker = "get" /\ worker' = "packet"
          /\ UNCHANGED <<main, next, expected>>
      BY <1>5, <2>2 DEF WorkerGet, Fetched
    <3>2. /\ Len(m_aus') = Len(m_aus) - 1 /\ Len(m_aus') \in Nat
          /\ m_aus' \in Seq(Units)
          /\ \A i \in 1..Len(m_aus') : m_aus'[i] = m_aus[i + 1]
      BY <2>2, <3>1, HeadTailProperties
    <3>3. m_aus' # <<>> => next' = Nth(m_aus'[Len(m_aus')], 1)
      BY <2>2, <3>1, <3>2
    <3>4. \A i \in 1..(Len(m_aus') - 1) : m_aus'[i + 1] = Nth(m_aus'[i], 1)
      <4> SUFFICES ASSUME NEW i \in 1..(Len(m_aus') - 1)
                   PROVE  m_aus'[i + 1] = Nth(m_aus'[i], 1)
        OBVIOUS
      <4>1. i + 1 \in 1..(Len(m_aus) - 1) /\ i \in 1..Len(m_aus')
            /\ i + 1 \in 1..Len(m_aus')
        BY <3>2
      <4> QED
        BY <3>2, <4>1
    <3>5. Head1' = Nth(m_aus[1], 1)
      <4>1. CASE m_aus' = <<>>
        <5>1. Len(m_aus) = 1
          BY <3>2, <4>1
        <5> QED
          BY <2>2, <3>1, <4>1, <5>1
      <4>2. CASE m_aus' # <<>>
        <5>1. Len(m_aus') \in Nat \ {0}
          BY <3>2, <4>2, EmptySeq
        <5>2. 1 \in 1..(Len(m_aus) - 1) /\ 1 \in 1..Len(m_aus')
          BY <3>2, <5>1
        <5> QED
          BY <3>2, <4>2, <5>2
      <4> QED
        BY <4>1, <4>2
    <3>6. main # "build"
      BY <3>1 DEF Started
    <3>7. m_aus[1] = expected
      BY <2>2, <3>1
    <3> HIDE DEF Head1
    <3> QED
      BY <3>1, <3>3, <3>4, <3>5, <3>6, <3>7
  <2> QED
    BY <2>1, <2>2
<1>6. CASE WorkerCreate \/ WorkerTop \/ WorkerPacket \/ WorkerRender \/ WorkerSegment
           \/ WorkerUndefined
  BY <1>6 DEF WorkerCreate, WorkerTop, WorkerPacket, WorkerRender, WorkerSegment,
              WorkerUndefined, Started
<1>7. CASE PumpAddBuffer \/ WorkerRead \/ WorkerReadReturn \/ WorkerDemux
           \/ WorkerReadStep \/ WorkerRoused
  BY <1>7 DEF PumpAddBuffer, WorkerRead, WorkerReadReturn, WorkerDemux,
              WorkerReadStep, WorkerRoused, ReadPlaces
<1>8. CASE StartMap \/ Interrupted \/ StopExit \/ StopWait \/ StopUnmap
           \/ TearExit \/ TearWait \/ PumpTop \/ PumpAdvance
  BY <1>8 DEF StartMap, Interrupted, StopExit, StopWait, StopUnmap, TearExit,
              TearWait, PumpTop, PumpAdvance
<1>9. CASE UNCHANGED vars
  BY <1>9 DEF vars
<1> QED
  BY <1>2, <1>3, <1>4, <1>5, <1>6, <1>7, <1>8, <1>9 DEF Next, Main, Pump, Worker

(* The segmenter gets every access unit once and in order. *)
THEOREM InOrderInvariant == Spec => []InOrder
<1>1. Init => UnitsLinked
  BY DEF Init, UnitsLinked, Head1
<1>2. IInv /\ UnitsLinked /\ [Next]_vars => UnitsLinked'
  BY NextUnitsLinked
<1>3. UnitsLinked => InOrder
  BY DEF UnitsLinked, InOrder
<1> QED
  BY <1>1, <1>2, <1>3, IInvInvariant, PTL DEF Spec

-----------------------------------------------------------------------------
(* The bytes in the list are numbered from that which read() is to copy    *)
(* next; those it has copied from that which ffmpeg is to get next.        *)
Numbered(s, a) == \A i \in 1..Len(s) : s[i] = Nth(a, i - 1)

FirstByte ==
  IF m_buffers = <<>> THEN next ELSE Nth(m_buffers[1].data[1], m_buffers[1].pos)

After(b) == Nth(b.data[1], Len(b.data))

BuffersLinked ==
  /\ \A i \in 1..Len(m_buffers) :
       Numbered(m_buffers[i].data, m_buffers[i].data[1])
  /\ \A i \in 1..(Len(m_buffers) - 1) :
       m_buffers[i + 1].pos = 0 /\ m_buffers[i + 1].data[1] = After(m_buffers[i])
  /\ m_buffers # <<>> => next = After(m_buffers[Len(m_buffers)])

BufLinked ==
  /\ Numbered(buf, expected)
  /\ FirstByte = Nth(expected, Len(buf))

BytesLinked == parser = "ffmpeg" /\ ~m_exit => BuffersLinked /\ BufLinked

(* A chunk of the file is numbered on. *)
LEMMA ChunkLinked ==
  ASSUME IInv, BuffersLinked, BufLinked, remaining > 0, ~m_exit,
         IO!addbuffer([i \in 1..remaining |-> Nth(next, i - 1)]),
         next' = Nth(next, remaining), expected' = expected
  PROVE  (BuffersLinked /\ BufLinked)'
<1> DEFINE data == [i \in 1..remaining |-> Nth(next, i - 1)]
           e == [data |-> data, pos |-> 0]
<1>1. TypeOK
  BY DEF IInv
<1>2. data \in Seq(Units) /\ Len(data) = remaining /\ e \in Buffers
  BY <1>1, Chunk
<1>3. remaining \in Nat \ {0} /\ next \in Units
  BY <1>1 DEF TypeOK
<1>4. e.data[1] = next /\ Len(e.data) = remaining /\ e.pos = 0
  BY <1>2, <1>3, NthZero
<1>5. Numbered(e.data, e.data[1])
  BY <1>2, <1>4 DEF Numbered
<1>6. m_buffers' = Append(m_buffers, e) /\ buf' = buf
  BY DEF IO!addbuffer
<1> HIDE DEF e, data
<1>7. m_buffers \in Seq(Buffers) /\ Len(m_buffers) \in Nat
  BY <1>1 DEF TypeOK, Buffers
<1>8. /\ Len(m_buffers') = Len(m_buffers) + 1 /\ m_buffers' # <<>>
      /\ \A i \in 1..Len(m_buffers) : m_buffers'[i] = m_buffers[i]
      /\ m_buffers'[Len(m_buffers) + 1] = e
  BY <1>2, <1>6, <1>7, AppendProperties
<1>9. BuffersLinked'
  <2>1. \A i \in 1..Len(m_buffers') :
          Numbered(m_buffers'[i].data, m_buffers'[i].data[1])
    <3> SUFFICES ASSUME NEW i \in 1..Len(m_buffers')
                 PROVE  Numbered(m_buffers'[i].data, m_buffers'[i].data[1])
      OBVIOUS
    <3>1. CASE i = Len(m_buffers) + 1
      BY <1>5, <1>8, <3>1
    <3>2. CASE i # Len(m_buffers) + 1
      <4>1. i \in 1..Len(m_buffers)
        BY <1>7, <1>8, <3>2
      <4> QED
        BY <1>8, <4>1 DEF BuffersLinked
    <3> QED
      BY <3>1, <3>2
  <2>2. \A i \in 1..(Len(m_buffers') - 1) :
          /\ m_buffers'[i + 1].pos = 0
          /\ m_buffers'[i + 1].data[1] = After(m_buffers'[i])
    <3> SUFFICES ASSUME NEW i \in 1..Len(m_buffers)
                 PROVE  /\ m_buffers'[i + 1].pos = 0
                        /\ m_buffers'[i + 1].data[1] = After(m_buffers'[i])
      BY <1>7, <1>8
    <3>1. CASE i = Len(m_buffers)
      <4>1. m_buffers # <<>>
        BY <3>1
      <4> QED
        BY <1>4, <1>8, <3>1, <4>1 DEF BuffersLinked
    <3>2. CASE i # Len(m_buffers)
      <4>1. i \in 1..(Len(m_buffers) - 1) /\ i + 1 \in 1..Len(m_buffers)
        BY <1>7, <3>2
      <4> QED
        BY <1>8, <4>1 DEF BuffersLinked
    <3> QED
      BY <3>1, <3>2
  <2>3. next' = After(m_buffers'[Len(m_buffers')])
    BY <1>4, <1>8 DEF After
  <2> QED
    BY <2>1, <2>2, <2>3 DEF BuffersLinked, Numbered, After
<1>10. FirstByte' = FirstByte
  <2>1. CASE m_buffers = <<>>
    <3>1. m_buffers'[1] = e
      BY <1>8, <2>1
    <3> QED
      BY <1>3, <1>4, <1>8, <2>1, <3>1, NthZero DEF FirstByte
  <2>2. CASE m_buffers # <<>>
    <3>1. 1 \in 1..Len(m_buffers)
      BY <1>7, <2>2
    <3> QED
      BY <1>8, <2>2, <3>1 DEF FirstByte
  <2> QED
    BY <2>1, <2>2
<1> QED
  BY <1>6, <1>9, <1>10 DEF BufLinked, Numbered

(* What read() copies follows what it has. *)
LEMMA TakeLinked ==
  ASSUME IInv, BuffersLinked, BufLinked, ~m_exit, IO!ReadTake,
         next' = next, expected' = expected
  PROVE  (BuffersLinked /\ BufLinked)'
<1> DEFINE b == m_buffers[1]
           n == IO!CpyLen
<1>1. TypeOK /\ ReadBounds
  BY DEF IInv
<1>2. /\ reader = "take" /\ m_buffers # <<>>
      /\ m_buffers' = IO!Rest
      /\ buf' = buf \o SubSeq(IO!Front.data, IO!Front.pos + 1,
                              IO!Front.pos + IO!CpyLen)
  BY DEF IO!ReadTake
<1>3. b \in Buffers /\ n \in Nat \ {0} /\ b.pos + n <= Len(b.data)
  BY <1>1, <1>2, Copy
<1>4. /\ buf' \in Seq(Units)
      /\ Len(buf') = Len(buf) + n
      /\ \A i \in 1..Len(buf) : buf'[i] = buf[i]
      /\ \A i \in 1..n : buf'[Len(buf) + i] = b.data[b.pos + i]
  BY <1>1, <1>2, Copied
<1>5. /\ m_buffers' \in Seq(Buffers)
      /\ \/ /\ b.pos + n = Len(b.data)
            /\ Len(m_buffers') = Len(m_buffers) - 1
            /\ \A i \in 1..Len(m_buffers') : m_buffers'[i] = m_buffers[i + 1]
         \/ /\ b.pos + n < Len(b.data)
            /\ Len(m_buffers') = Len(m_buffers)
            /\ m_buffers'[1].data = b.data
            /\ m_buffers'[1].pos = b.pos + n
            /\ \A i \in 2..Len(m_buffers') : m_buffers'[i] = m_buffers[i]
  BY <1>1, <1>2, Left
<1> HIDE DEF n
<1>6. /\ m_buffers \in Seq(Buffers) /\ buf \in Seq(Units)
      /\ Len(buf) \in Nat /\ expected \in Nat /\ next \in Units
      /\ Len(m_buffers) \in Nat \ {0}
  BY <1>1, <1>2 DEF TypeOK, Buffers, Units
<1>7. /\ b.pos \in Nat /\ b.data \in Seq(Units) /\ Len(b.data) \in Nat
      /\ b.data[1] \in Nat
  <2>1. b.pos \in Nat /\ b.data \in Seq(Units) /\ Len(b.data) \in Nat
    BY <1>3 DEF Buffers
  <2>2. 1 \in 1..Len(b.data)
    BY <1>3, <2>1
  <2>3. b.data[1] \in Units
    BY <2>1, <2>2, ElementOfSeq
  <2> QED
    BY <2>1, <2>3 DEF Units
<1>8. Numbered(b.data, b.data[1])
  BY <1>6 DEF BuffersLinked
<1>9. Nth(b.data[1], b.pos) = Nth(expected, Len(buf))
  BY <1>2 DEF BufLinked, FirstByte
<1> HIDE DEF b
<1>10. \A i \in Nat : Nth(b.data[1], b.pos + i) = Nth(expected, Len(buf) + i)
  <2> SUFFICES ASSUME NEW i \in Nat
               PROVE  Nth(b.data[1], b.pos + i) = Nth(expected, Len(buf) + i)
    OBVIOUS
  <2>1. Nth(Nth(b.data[1], b.pos), i) = Nth(b.data[1], b.pos + i)
    BY <1>7, NthNth
  <2>2. Nth(Nth(expected, Len(buf)), i) = Nth(expected, Len(buf) + i)
    BY <1>6, NthNth
  <2> QED
    BY <1>9, <2>1, <2>2
<1>11. Numbered(buf', expected)
  <2> SUFFICES ASSUME NEW i \in 1..Len(buf')
               PROVE  buf'[i] = Nth(expected, i - 1)
    BY DEF Numbered
  <2>1. CASE i <= Len(buf)
    BY <1>4, <1>6, <2>1 DEF BufLinked, Numbered
  <2>2. CASE i > Len(buf)
    <3> DEFINE j == i - Len(buf)
    <3>1. j \in 1..n /\ j - 1 \in Nat /\ i = Len(buf) + j
          /\ i - 1 = Len(buf) + (j - 1)
      BY <1>3, <1>4, <1>6, <2>2
    <3> HIDE DEF j
    <3>2. buf'[i] = b.data[b.pos + j]
      BY <1>4, <3>1
    <3>3. b.pos + j \in 1..Len(b.data) /\ (b.pos + j) - 1 = b.pos + (j - 1)
      <4>1. j \in Nat \ {0} /\ j <= n /\ n \in Nat /\ b.pos \in Nat
        BY <1>3, <1>7, <3>1
      <4>2. b.pos + j <= b.pos + n /\ (b.pos + j) - 1 = b.pos + (j - 1)
        BY <4>1
      <4> QED
        BY <1>3, <1>7, <4>1, <4>2
    <3>4. b.data[b.pos + j] = Nth(b.data[1], b.pos + (j - 1))
      BY <1>8, <3>3 DEF Numbered
    <3> QED
      BY <1>10, <3>1, <3>2, <3>4
  <2> QED
    BY <1>4, <1>6, <2>1, <2>2
<1>12. CASE b.pos + n = Len(b.data)
  <2>1. /\ Len(m_buffers') = Len(m_buffers) - 1
        /\ \A i \in 1..Len(m_buffers') : m_buffers'[i] = m_buffers[i + 1]
    BY <1>3, <1>5, <1>7, <1>12
  <2>2. \A i \in 1..Len(m_buffers') : i + 1 \in 1..Len(m_buffers)
    BY <1>6, <2>1
  <2>3. \A i \in 1..(Len(m_buffers') - 1) :
          i \in 1..Len(m_buffers') /\ i + 1 \in 1..Len(m_buffers')
          /\ i + 1 \in 1..(Len(m_buffers) - 1)
    BY <1>6, <2>1
  <2>4. After(b) = Nth(expected, Len(buf'))
    BY <1>3, <1>4, <1>10, <1>12 DEF After
  <2>5. CASE m_buffers' = <<>>
    <3>1. Len(m_buffers) = 1
      BY <1>6, <2>1, <2>5
    <3>2. next = After(b)
      BY <1>2, <3>1 DEF BuffersLinked, b
    <3>3. BufLinked'
      BY <1>11, <2>4, <2>5, <3>2 DEF BufLinked, FirstByte, Numbered
    <3>4. Len(m_buffers') = 0
      BY <2>5
    <3> QED
      BY <2>5, <3>3, <3>4 DEF BuffersLinked
  <2>6. CASE m_buffers' # <<>>
    <3>1. Len(m_buffers') \in Nat \ {0}
      BY <1>5, <2>6, EmptySeq
    <3>2. 1 \in 1..(Len(m_buffers) - 1) /\ 1 \in 1..Len(m_buffers')
      BY <2>1, <3>1
    <3>3. m_buffers'[1].pos = 0 /\ m_buffers'[1].data[1] = After(b)
      BY <2>1, <3>2 DEF BuffersLinked, b
    <3>4. After(b) \in Units
      BY <1>7, NthType DEF After
    <3>5. FirstByte' = Nth(expected, Len(buf'))
      BY <2>4, <2>6, <3>3, <3>4, NthZero DEF FirstByte
    <3>6. BufLinked'
      BY <1>11, <3>5 DEF BufLinked, Numbered
    <3>7. \A i \in 1..Len(m_buffers') :
            Numbered(m_buffers'[i].data, m_buffers'[i].data[1])
      BY <2>1, <2>2 DEF BuffersLinked
    <3>8. \A i \in 1..(Len(m_buffers') - 1) :
            m_buffers'[i + 1].pos = 0
            /\ m_buffers'[i + 1].data[1] = After(m_buffers'[i])
      BY <2>1, <2>3 DEF BuffersLinked
    <3>9. next' = After(m_buffers'[Len(m_buffers')])
      <4>1. Len(m_buffers') \in 1..Len(m_buffers') /\ Len(m_buffers') + 1 = Len(m_buffers)
        BY <1>6, <2>1, <3>1
      <4> QED
        BY <1>2, <2>1, <4>1 DEF BuffersLinked
    <3> QED
      BY <3>6, <3>7, <3>8, <3>9 DEF BuffersLinked, Numbered, After
  <2> QED
    BY <2>5, <2>6
<1>13. CASE b.pos + n < Len(b.data)
  <2>1. /\ Len(m_buffers') = Len(m_buffers)
        /\ m_buffers'[1].data = b.data
        /\ m_buffers'[1].pos = b.pos + n
        /\ \A i \in 2..Len(m_buffers') : m_buffers'[i] = m_buffers[i]
    BY <1>3, <1>5, <1>7, <1>13
  <2>2. \A i \in 1..Len(m_buffers') : m_buffers'[i].data = m_buffers[i].data
    <3> SUFFICES ASSUME NEW i \in 1..Len(m_buffers')
                 PROVE  m_buffers'[i].data = m_buffers[i].data
      OBVIOUS
    <3>1. CASE i = 1
      BY <2>1, <3>1 DEF b
    <3>2. CASE i # 1
      <4>1. i \in 2..Len(m_buffers')
        BY <1>6, <2>1, <3>2
      <4> QED
        BY <2>1, <4>1
    <3> QED
      BY <3>1, <3>2
  <2>3. \A i \in 1..(Len(m_buffers') - 1) :
          /\ i \in 1..Len(m_buffers') /\ i + 1 \in 2..Len(m_buffers')
          /\ i + 1 \in 1..Len(m_buffers') /\ i \in 1..(Len(m_buffers) - 1)
    BY <1>6, <2>1
  <2>4. Len(m_buffers') \in 1..Len(m_buffers') /\ m_buffers' # <<>>
    BY <1>5, <1>6, <2>1
  <2>5. BuffersLinked'
    <3>1. \A i \in 1..Len(m_buffers') :
            Numbered(m_buffers'[i].data, m_buffers'[i].data[1])
      BY <2>1, <2>2 DEF BuffersLinked
    <3>2. \A i \in 1..(Len(m_buffers') - 1) :
            m_buffers'[i + 1].pos = 0
            /\ m_buffers'[i + 1].data[1] = After(m_buffers'[i])
      BY <2>1, <2>2, <2>3 DEF BuffersLinked, After
    <3>3. next' = After(m_buffers'[Len(m_buffers')])
      BY <1>2, <2>1, <2>2, <2>4 DEF BuffersLinked, After
    <3> QED
      BY <3>1, <3>2, <3>3 DEF BuffersLinked, Numbered, After
  <2>6. FirstByte' = Nth(expected, Len(buf'))
    BY <1>3, <1>4, <1>10, <2>1, <2>4 DEF FirstByte
  <2> QED
    BY <1>11, <2>5, <2>6 DEF BufLinked, Numbered
<1> QED
  BY <1>3, <1>7, <1>12, <1>13

LEMMA NextBytesLinked ==
  ASSUME IInv, BytesLinked, [Next]_vars
  PROVE  BytesLinked'
<1>0. TypeOK /\ ReadPlaces /\ ReadBounds /\ parser' = parser
  BY SameParser DEF IInv
<1> SUFFICES ASSUME parser = "ffmpeg", ~m_exit'
             PROVE  (BuffersLinked /\ BufLinked)'
  BY <1>0 DEF BytesLinked
<1>1. CASE TearFree
  <2>1. ~m_exit
    BY <1>1 DEF TearFree, IO!Clean, iovars
  <2>2. UNCHANGED <<m_buffers, buf, next, expected>>
    BY <1>1 DEF TearFree, MainGoes, IO!Clean, iovars, source, sink
  <2> QED
    BY <2>1, <2>2 DEF BytesLinked, BuffersLinked, BufLinked, FirstByte, Numbered, After
<1>2. CASE PumpAddBuffer
  <2>1. ~m_exit
    BY <1>2 DEF PumpAddBuffer, IO!addbuffer, IO!iovars
  <2> QED
    BY <1>2, <2>1, ChunkLinked DEF PumpAddBuffer, BytesLinked, sink
<1>3. CASE WorkerRead
  <2>1. ~m_exit /\ buf = <<>> /\ buf' = <<>>
        /\ UNCHANGED <<m_buffers, next, expected>>
    BY <1>0, <1>3
       DEF WorkerRead, WorkerGoes, IO!ReadEnter, ReadBounds, source, sink
  <2> QED
    BY <2>1 DEF BytesLinked, BuffersLinked, BufLinked, FirstByte, Numbered, After
<1>4. CASE WorkerReadReturn
  <2>1. /\ ~m_exit /\ buf' = <<>> /\ expected' = Nth(expected, Len(buf))
        /\ UNCHANGED <<m_buffers, next>>
    BY <1>4 DEF WorkerReadReturn, WorkerGoes, IO!ReadReturn, source
  <2>2. expected' \in Units
    BY <1>0, <2>1, NthType DEF TypeOK, Units
  <2>3. FirstByte' = Nth(expected', Len(buf'))
    BY <2>1, <2>2, NthZero DEF BytesLinked, BufLinked, FirstByte
  <2> QED
    BY <2>1, <2>3 DEF BytesLinked, BuffersLinked, BufLinked, Numbered, After
<1>5. CASE WorkerReadStep
  <2>1. UNCHANGED <<m_exit, next, expected>>
    BY <1>5 DEF WorkerReadStep, IO!ReadLoop, IO!ReadReacquire, IO!ReadTake, source,
                sink
  <2>2. CASE IO!ReadTake
    BY <2>1, <2>2, TakeLinked DEF BytesLinked
  <2>3. CASE IO!ReadLoop \/ IO!ReadReacquire
    BY <2>1, <2>3 DEF IO!ReadLoop, IO!ReadReacquire, BytesLinked, BuffersLinked,
                      BufLinked, FirstByte, Numbered, After
  <2> QED
    BY <1>5, <2>2, <2>3 DEF WorkerReadStep
<1>6. CASE WorkerRoused
  BY <1>6 DEF WorkerRoused, IO!ReadRoused, source, sink, BytesLinked, BuffersLinked,
              BufLinked, FirstByte, Numbered, After
<1>7. CASE WorkerSegment
  BY <1>7 DEF WorkerSegment, WorkerGoes, source, iovars, BytesLinked, BuffersLinked,
              BufLinked, FirstByte, Numbered, After
<1>8. CASE UNCHANGED <<m_buffers, m_exit, buf, next, expected>>
  BY <1>8 DEF BytesLinked, BuffersLinked, BufLinked, FirstByte, Numbered, After
<1>9. ~PumpFinishAU
  BY DEF PumpFinishAU
<1> QED
  BY <1>1, <1>2, <1>3, <1>4, <1>5, <1>6, <1>7, <1>8, <1>9
     DEF Next, Main, Pump, Worker, vars, StartBuild, StartMap, Interrupted, StopExit,
         StopWait, StopUnmap, TearExit, TearWait, PumpTop, PumpAdvance,
         WorkerCreate, WorkerTop, WorkerGet, WorkerPacket, WorkerDemux, WorkerRender,
         WorkerUndefined, MainGoes, WorkerGoes, source, sink, iovars

(* read() gives ffmpeg the bytes of the file, each once and in order. *)
THEOREM ReadExactInvariant == Spec => []ReadExact
<1>1. Init => BytesLinked
  <2> SUFFICES ASSUME Init
               PROVE  BuffersLinked /\ BufLinked
    BY DEF BytesLinked
  <2>1. m_buffers = <<>> /\ buf = <<>> /\ next = 0 /\ expected = 0 /\ Len(buf) = 0
        /\ Len(m_buffers) = 0
    BY DEF Init, IO!Init
  <2>2. Nth(0, 0) = 0
    BY NthZero, IdsAssumption DEF Units
  <2> QED
    BY <2>1, <2>2 DEF BuffersLinked, BufLinked, FirstByte, Numbered
<1>2. IInv /\ BytesLinked /\ [Next]_vars => BytesLinked'
  BY NextBytesLinked
<1>3. IInv /\ BytesLinked => ReadExact
  <2> SUFFICES ASSUME IInv, BytesLinked, reader = "done"
               PROVE  buf = [i \in 1..BufSize |-> Nth(expected, i - 1)]
    BY DEF ReadExact
  <2>1. worker = "undefined" => reader = "take"
    BY DEF IInv, ReadPlaces
  <2>2. worker \in {"probe", "read"} /\ parser = "ffmpeg"
    BY <2>1 DEF IInv, ReadPlaces
  <2>3. ~m_exit
    BY <2>2 DEF IInv, ReadPlaces, WorkerHolds
  <2>4. Len(buf) = BufSize /\ buf \in Seq(Units)
    BY DEF IInv, ReadBounds, TypeOK
  <2>5. \A i \in 1..Len(buf) : buf[i] = Nth(expected, i - 1)
    BY <2>2, <2>3 DEF BytesLinked, BufLinked, Numbered
  <2> QED
    BY <2>4, <2>5, LenProperties
<1> QED
  BY <1>1, <1>2, <1>3, IInvInvariant, PTL DEF Spec
-----------------------------------------------------------------------------
(* The two threads, and what their objects have told main: that they were    *)
(* spawned, which main makes nothing of before its next step, and that they  *)
(* were joined.                                                              *)
PumpService ==
  IF pump = "none" \/ main \in {"unmap", "tear", "join", "free", "stopped"} THEN "none"
  ELSE IF pump \in {"done", "never"} THEN pump ELSE "running"

PumpUser ==
  IF pump # "none" /\ main \in {"exit", "wait"} THEN "spawned" ELSE "idle"

WorkerService ==
  IF worker = "none" \/ main \in {"free", "stopped"} THEN "none"
  ELSE IF worker \in {"done", "never"} THEN worker ELSE "running"

WorkerUser ==
  IF worker # "none" /\ main \in {"poll", "exit", "wait", "unmap", "tear", "join"}
  THEN "spawned" ELSE "idle"

PumpJoin == INSTANCE ThreadJoin WITH service <- PumpService, user <- PumpUser
WorkerJoin == INSTANCE ThreadJoin WITH service <- WorkerService, user <- WorkerUser

(* What a step may do to the two: nothing is said of undefined behaviour.    *)
JoinStep ==
  \/ main' = "undefined"
  \/ /\ [PumpJoin!Next]_(PumpJoin!vars)
     /\ [WorkerJoin!Next]_(WorkerJoin!vars)

(* A step to the pump only, as ThreadJoin allows it. *)
LEMMA PumpStep ==
  ASSUME IInv, [Next]_vars, main' # "undefined"
  PROVE  PumpJoin!Next \/ UNCHANGED <<PumpService, PumpUser>>
<1> USE DEF PumpService, PumpUser
<1>0. TypeOK /\ PumpHolds /\ Started /\ Undone
  BY DEF IInv
<1>1. CASE StartMap
  <2>1. pump = "none"
    BY <1>0, <1>1 DEF StartMap, Started
  <2>2. CASE main' = "poll"
    <3>1. CASE pump' = "top"
      BY <1>1, <2>1, <2>2, <3>1 DEF StartMap, PumpJoin!Begin, PumpJoin!Next
    <3>2. CASE pump' = "never"
      BY <1>1, <2>1, <2>2, <3>2 DEF StartMap, PumpJoin!NotBegun, PumpJoin!Next
    <3> QED
      BY <1>1, <2>2, <3>1, <3>2 DEF StartMap
  <2>3. CASE main' = "exit"
    BY <1>1, <2>1, <2>3 DEF StartMap
  <2> QED
    BY <1>1, <2>2, <2>3 DEF StartMap
<1>2. CASE Interrupted
  <2>1. pump # "none" => PumpJoin!Spawned
    BY <1>2 DEF Interrupted, MainGoes, PumpJoin!Spawned
  <2>2. pump = "none" => UNCHANGED <<PumpService, PumpUser>>
    BY <1>2 DEF Interrupted, MainGoes
  <2> QED
    BY <2>1, <2>2 DEF PumpJoin!Next
<1>3. CASE StopWait
  <2>1. pump = "done" => PumpJoin!Join
    BY <1>3 DEF StopWait, MainGoes, PumpJoin!Join
  <2>2. pump = "none" => UNCHANGED <<PumpService, PumpUser>>
    BY <1>3 DEF StopWait, MainGoes
  <2> QED
    BY <1>3, <2>1, <2>2 DEF PumpJoin!Next, StopWait, PumpJoined
<1>4. CASE PumpTop
  <2>1. main \in {"poll", "exit", "wait"} /\ main' = main
    BY <1>0, <1>4 DEF PumpTop, PumpHolds
  <2>2. "file" \in exits => PumpJoin!Finish
    BY <1>4, <2>1 DEF PumpTop, PumpJoin!Finish
  <2>3. "file" \notin exits => UNCHANGED <<PumpService, PumpUser>>
    BY <1>4, <2>1 DEF PumpTop
  <2> QED
    BY <2>2, <2>3 DEF PumpJoin!Next
<1>5. CASE StartBuild
  BY <1>0, <1>5 DEF StartBuild, Started
<1>6. CASE StopExit \/ StopUnmap \/ TearExit \/ TearWait \/ TearFree
  BY <1>6 DEF StopExit, StopUnmap, TearExit, TearWait, TearFree, MainGoes
<1>7. CASE PumpAdvance
  BY <1>7 DEF PumpAdvance
<1>8. CASE PumpFinishAU \/ PumpAddBuffer \/ Worker \/ WorkerRoused \/ UNCHANGED vars
  <2>1. ~WorkerUndefined
    BY DEF WorkerUndefined
  <2>2. UNCHANGED <<main, pump>>
    BY <1>8, <2>1
       DEF PumpFinishAU, PumpAddBuffer, Worker, WorkerCreate, WorkerTop, WorkerGet,
           WorkerPacket, WorkerRead, WorkerReadStep, WorkerReadReturn, WorkerDemux,
           WorkerRender, WorkerSegment, WorkerRoused, WorkerGoes, threads, vars
  <2> QED
    BY <2>2
<1> QED
  BY <1>1, <1>2, <1>3, <1>4, <1>5, <1>6, <1>7, <1>8 DEF Next, Main, Pump

(* And to the worker. *)
LEMMA WorkerStep ==
  ASSUME IInv, [Next]_vars, main' # "undefined"
  PROVE  WorkerJoin!Next \/ UNCHANGED <<WorkerService, WorkerUser>>
<1> USE DEF WorkerService, WorkerUser
<1>0. TypeOK /\ WorkerHolds /\ Started /\ Undone /\ ReadPlaces
  BY DEF IInv
<1>1. CASE StartBuild
  <2>1. worker = "none"
    BY <1>0, <1>1 DEF StartBuild, Started
  <2>2. CASE main' = "map"
    <3>1. CASE worker' = "create"
      BY <1>1, <2>1, <2>2, <3>1 DEF StartBuild, WorkerJoin!Begin, WorkerJoin!Next
    <3>2. CASE worker' = "never"
      BY <1>1, <2>1, <2>2, <3>2 DEF StartBuild, WorkerJoin!NotBegun, WorkerJoin!Next
    <3> QED
      BY <1>1, <2>2, <3>1, <3>2 DEF StartBuild
  <2>3. CASE main' = "exit"
    BY <1>1, <2>1, <2>3 DEF StartBuild
  <2> QED
    BY <1>1, <2>2, <2>3 DEF StartBuild
<1>2. CASE StartMap
  <2>1. worker # "none" => WorkerJoin!Spawned
    BY <1>2 DEF StartMap, WorkerJoin!Spawned
  <2>2. worker = "none" => UNCHANGED <<WorkerService, WorkerUser>>
    BY <1>2 DEF StartMap
  <2> QED
    BY <2>1, <2>2 DEF WorkerJoin!Next
<1>3. CASE TearWait
  <2>1. worker = "done" => WorkerJoin!Join
    BY <1>3 DEF TearWait, MainGoes, WorkerJoin!Join
  <2>2. worker = "none" => UNCHANGED <<WorkerService, WorkerUser>>
    BY <1>3 DEF TearWait, MainGoes
  <2> QED
    BY <1>3, <2>1, <2>2 DEF WorkerJoin!Next, TearWait, WorkerJoined
<1>4. ASSUME worker \notin {"none", "never", "done", "undefined"}, main' = main,
             worker' \notin {"none", "never"}
      PROVE  WorkerJoin!Next \/ UNCHANGED <<WorkerService, WorkerUser>>
  <2>1. main \notin {"free", "stopped"}
    BY <1>0, <1>4 DEF WorkerHolds
  <2>2. worker' = "done" => WorkerJoin!Finish
    BY <1>4, <2>1 DEF WorkerJoin!Finish
  <2>3. worker' # "done" => UNCHANGED <<WorkerService, WorkerUser>>
    BY <1>4, <2>1
  <2> QED
    BY <2>2, <2>3 DEF WorkerJoin!Next
<1>5. CASE \/ WorkerCreate \/ WorkerTop \/ WorkerGet \/ WorkerPacket
           \/ WorkerRead \/ WorkerReadReturn \/ WorkerDemux
           \/ WorkerRender \/ WorkerSegment
  <2>1. /\ worker \notin {"none", "never", "done", "undefined"} /\ main' = main
        /\ worker' \notin {"none", "never"}
    BY <1>5 DEF WorkerCreate, WorkerTop, WorkerGet, WorkerPacket, WorkerRead,
                WorkerReadReturn, WorkerDemux, WorkerRender, WorkerSegment, WorkerGoes
  <2> QED
    BY <1>4, <2>1
<1>6. CASE Interrupted \/ StopExit \/ StopWait \/ StopUnmap \/ TearExit \/ TearFree
  BY <1>6 DEF Interrupted, StopExit, StopWait, StopUnmap, TearExit, TearFree, MainGoes
<1>7. CASE Pump \/ WorkerReadStep \/ WorkerRoused \/ UNCHANGED vars
  <2>1. UNCHANGED <<main, worker>>
    BY <1>7 DEF Pump, PumpTop, PumpFinishAU, PumpAddBuffer, PumpAdvance,
                WorkerReadStep, WorkerRoused, threads, vars
  <2> QED
    BY <2>1
<1>8. ~WorkerUndefined
  BY DEF WorkerUndefined
<1> QED
  BY <1>1, <1>2, <1>3, <1>5, <1>6, <1>7, <1>8 DEF Next, Main, Worker

(* The pump and the worker are started and joined as ThreadJoin, which is    *)
(* what ThreadBase implements, says: stop() and tear() get past their wait() *)
(* only when svc() has returned, or where start() gave up before it asked    *)
(* for a thread; where the thread could not be created, they never do.       *)
THEOREM UsesJoin ==
  Spec => PumpJoin!Init /\ WorkerJoin!Init /\ [][JoinStep]_vars
<1>1. Init => PumpJoin!Init /\ WorkerJoin!Init
  BY DEF Init, PumpJoin!Init, WorkerJoin!Init, PumpService, PumpUser, WorkerService,
         WorkerUser
<1>2. IInv /\ [Next]_vars => [JoinStep]_vars
  <2> SUFFICES ASSUME IInv, [Next]_vars, main' # "undefined"
               PROVE  /\ PumpJoin!Next \/ UNCHANGED <<PumpService, PumpUser>>
                      /\ WorkerJoin!Next \/ UNCHANGED <<WorkerService, WorkerUser>>
    BY DEF JoinStep, PumpJoin!vars, WorkerJoin!vars
  <2> QED
    BY PumpStep, WorkerStep
<1> QED
  BY <1>1, <1>2, IInvInvariant, PTL DEF Spec
=============================================================================
