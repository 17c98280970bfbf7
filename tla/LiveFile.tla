------------------------------ MODULE LiveFile ------------------------------
(***************************************************************************)
(* The file source (src/LiveFile.cpp) and the pipeline behind it           *)
(* (src/HLSLive.cpp, getframe() of src/AVCReader.cpp): one thread pumps    *)
(* the file, over and over, through the parser; what comes out of the      *)
(* parser waits in a list that a second thread polls, and goes from there  *)
(* to the preview and the segmenter; the main thread builds it all, and    *)
(* takes it down again under both.                                         *)
(*                                                                         *)
(* spawn() and wait() are those of ThreadJoin.  The parser is the          *)
(* program's own ("avc") or that of ffmpeg, as USE_FFMPEG_PARSER says; in  *)
(* front of the latter is the byte queue of InputContext.  What passes the *)
(* queue are access units in the first case, and bytes in the second, each *)
(* its number modulo Ids; how many of them a chunk of the file has is a    *)
(* constant.                                                               *)
(*                                                                         *)
(* A definition whose name ends in _Bug is a mutated form of the one after *)
(* it: a plausible mistake that the properties have to notice.             *)
(***************************************************************************)
EXTENDS Integers, Sequences, SequencesExt

CONSTANTS
  Parsers,  \* the builds there are: "avc", "ffmpeg"
  Chunks,   \* for every chunk of the file, how many access units it completes
  Sizes,    \* and its bytes
  BufSize,  \* the bytes that ffmpeg asks for in one call of read()
  Ids,      \* access units are 0..Ids-1, and start again
  MaxQueue, \* bound on the units, or buffers, that wait when the pump goes on
  Faults    \* what allocates in svc() may fail

ASSUME ParsersAssumption == Parsers \subseteq {"avc", "ffmpeg"}
ASSUME ChunksAssumption == Chunks \in Seq(Nat) /\ Chunks # <<>>
ASSUME SizesAssumption == Sizes \in Seq(Nat \ {0}) /\ Len(Sizes) = Len(Chunks)
ASSUME BufSizeAssumption == BufSize \in Nat \ {0}
ASSUME IdsAssumption == Ids \in Nat \ {0}
ASSUME MaxQueueAssumption == MaxQueue \in Nat \ {0}
ASSUME FaultsAssumption == Faults \in BOOLEAN

VARIABLES
  parser,     \* the parser of this build
  main,       \* where the main thread is in start(), main() or stop()
  pump,       \* where the thread in LiveFile::svc() is
  worker,     \* where the thread in HLSLive::svc() is
  exits,      \* whose m_exit is set: "file", "hls"
  alive,      \* what is allocated
  streampos,  \* the chunk the pump is at
  remaining,  \* the units, or bytes, of this chunk it has not handed on yet
  m_aus,      \* the list of the parser
  frame,      \* the unit in the hands of the worker; its bytes, while they
              \* are not in a packet yet, are "audata" among what is alive
  next,       \* the number of the next unit or byte
  expected,   \* history: the number of the one its consumer is to get next
  m_buffers, m_exit, reader, buf, roused \* those of InputContext

IO == INSTANCE InputContext

iovars == <<m_buffers, m_exit, reader, buf, roused>>
threads == <<main, pump, worker>>
source == <<streampos, remaining, next>>
sink == <<frame, expected>>
vars == <<parser, threads, exits, alive, source, m_aus, sink, iovars>>

NoFrame == -1
Units == 0..(Ids - 1)
Input == IF parser = "avc" THEN "avcreader" ELSE "inio"
Pipeline == {Input, "segmenter", "renderer"}

(* What nothing ever frees: the HLSLive object, the decoder context, and   *)
(* the AVIOContext, since av_freep() is given the pointer and not its      *)
(* address.                                                                *)
Leaked == {"hlslive", "iavctx", "ioctx"}

(* The bytes of the access unit that svc() has given up with. *)
Abandoned == IF frame = NoFrame THEN {} ELSE {"audata"}

Init ==
  /\ parser \in Parsers
  /\ main = "build" /\ pump = "none" /\ worker = "none"
  /\ exits = {}
  /\ alive = {}
  /\ streampos = 1
  /\ remaining = 0
  /\ m_aus = <<>>
  /\ frame = NoFrame
  /\ next = 0
  /\ expected = 0
  /\ IO!Init

-----------------------------------------------------------------------------
(* start() *)

(* HLSLive::build(): what was allocated before a failure is freed again.   *)
(* Where pthread_create() fails there is no thread, but neither spawn() nor *)
(* build() tells: ThreadBase takes it to be running.                        *)
StartBuild ==
  /\ main = "build"
  /\ \/ /\ main' = "map"
        /\ alive' = Pipeline \cup {"hlslive"}
                    \cup (IF parser = "ffmpeg" THEN {"ioctx"} ELSE {})
        /\ worker' \in {"create", "never"}
     \/ main' = "exit" /\ alive' = {"hlslive"} /\ UNCHANGED worker
  /\ UNCHANGED <<parser, pump, exits, source, m_aus, sink, iovars>>

(* The pipeline is running by now, and is torn down if there is no file.   *)
(* The pump may not be created either.                                     *)
StartMap ==
  /\ main = "map"
  /\ \/ /\ main' = "poll"
        /\ alive' = alive \cup {"filedata"}
        /\ pump' \in {"top", "never"}
     \/ main' = "exit" /\ UNCHANGED <<alive, pump>>
  /\ UNCHANGED <<parser, worker, exits, source, m_aus, sink, iovars>>

MainGoes(from, to) ==
  /\ main = from
  /\ main' = to
  /\ UNCHANGED <<parser, pump, worker, source, sink>>

Interrupted ==
  /\ MainGoes("poll", "exit")
  /\ UNCHANGED <<exits, alive, m_aus, iovars>>

-----------------------------------------------------------------------------
(* stop() *)

StopExit ==
  /\ MainGoes("exit", "wait")
  /\ exits' = exits \cup {"file"}
  /\ UNCHANGED <<alive, m_aus, iovars>>

(* wait() does not return for a thread that was not created. *)
PumpJoined_Bug == TRUE
PumpJoined == pump \in {"none", "done"}

StopWait ==
  /\ MainGoes("wait", "unmap")
  /\ PumpJoined
  /\ UNCHANGED <<exits, alive, m_aus, iovars>>

StopUnmap ==
  /\ MainGoes("unmap", "tear")
  /\ alive' = alive \ {"filedata"}
  /\ UNCHANGED <<exits, m_aus, iovars>>

(* HLSLive::tear() *)
TearExit_Bug ==
  /\ MainGoes("tear", "join")
  /\ UNCHANGED <<exits, alive, m_aus, iovars>>

TearExit ==
  /\ MainGoes("tear", "join")
  /\ exits' = exits \cup {"hls"}
  /\ UNCHANGED <<alive, m_aus, iovars>>

WorkerJoined == worker \in {"none", "done"}

TearWait ==
  /\ MainGoes("join", "free")
  /\ WorkerJoined
  /\ UNCHANGED <<exits, alive, m_aus, iovars>>

(* The parser goes with the units that were not fetched, the byte queue    *)
(* with its buffers: only now comes prepareQuit().                         *)
TearFree ==
  /\ MainGoes("free", "stopped")
  /\ alive' = alive \ Pipeline
  /\ m_aus' = <<>>
  /\ IF "inio" \in alive THEN IO!Clean ELSE UNCHANGED iovars
  /\ UNCHANGED exits

-----------------------------------------------------------------------------
(* LiveFile::svc() *)

Waiting == IF parser = "avc" THEN Len(m_aus) ELSE Len(m_buffers)

PumpTop ==
  /\ pump = "top"
  /\ IF "file" \in exits
     THEN pump' = "done" /\ UNCHANGED remaining
     ELSE /\ Waiting < MaxQueue
          /\ pump' = "encode"
          /\ remaining' = IF parser = "avc" THEN Chunks[streampos]
                          ELSE Sizes[streampos]
  /\ UNCHANGED <<parser, main, worker, exits, alive, streampos, next, m_aus,
                 sink, iovars>>

Nth(first, i) == (first + i) % Ids

(* finish_au() *)
PumpFinishAU ==
  /\ pump = "encode" /\ parser = "avc"
  /\ remaining > 0
  /\ m_aus' = Append(m_aus, next)
  /\ next' = Nth(next, 1)
  /\ remaining' = remaining - 1
  /\ UNCHANGED <<parser, threads, exits, alive, streampos, sink, iovars>>

(* addbuffer() *)
PumpAddBuffer ==
  /\ pump = "encode" /\ parser = "ffmpeg"
  /\ remaining > 0
  /\ IO!addbuffer([i \in 1..remaining |-> Nth(next, i - 1)])
  /\ next' = Nth(next, remaining)
  /\ remaining' = 0
  /\ UNCHANGED <<parser, threads, exits, alive, streampos, m_aus, sink>>

(* The file starts over at its end. *)
Advanced_Bug == streampos + 1
Advanced == IF streampos = Len(Chunks) THEN 1 ELSE streampos + 1

PumpAdvance ==
  /\ pump = "encode"
  /\ remaining = 0
  /\ streampos' = Advanced
  /\ pump' = "top"
  /\ UNCHANGED <<parser, main, worker, exits, alive, remaining, next, m_aus, sink,
                 iovars>>

-----------------------------------------------------------------------------
(* HLSLive::svc() *)

WorkerGoes(from, to) ==
  /\ worker = from
  /\ worker' = to
  /\ UNCHANGED <<parser, main, pump, exits, source>>

Decoder == IF parser = "avc" THEN {"iavctx"} ELSE {}

(* createInputContext() and TsSegmenter::build(): without them the thread *)
(* returns, and nothing tells the rest.                                   *)
WorkerCreate ==
  /\ \/ WorkerGoes("create", "top") /\ alive' = alive \cup Decoder
     \/ /\ Faults
        /\ WorkerGoes("create", "done")
        /\ alive' \in {alive, alive \cup Decoder}
  /\ UNCHANGED <<m_aus, sink, iovars>>

WorkerTop ==
  /\ WorkerGoes("top", IF "hls" \in exits THEN "done"
                       ELSE IF parser = "avc" THEN "get" ELSE "demux")
  /\ UNCHANGED <<alive, m_aus, sink, iovars>>

(* getframe(), which does not wait here: svc() sleeps and tries again. *)
Fetched_Bug(aus) == Last(aus)
Fetched(aus) == Head(aus)

WorkerGet ==
  /\ WorkerGoes("get", IF m_aus = <<>> THEN "top" ELSE "packet")
  /\ IF m_aus = <<>>
     THEN UNCHANGED <<m_aus, frame>>
     ELSE /\ frame' = Fetched(m_aus)
          /\ m_aus' = Tail(m_aus)
  /\ alive' = IF m_aus = <<>> THEN alive ELSE alive \cup {"audata"}
  /\ UNCHANGED <<expected, iovars>>

(* av_new_packet(): the bytes move into the packet, or svc() returns and   *)
(* forgets them.                                                           *)
WorkerPacket_Bug ==
  /\ \/ WorkerGoes("packet", "render")
     \/ Faults /\ WorkerGoes("packet", "done")
  /\ UNCHANGED <<alive, m_aus, sink, iovars>>

WorkerPacket ==
  /\ \/ WorkerGoes("packet", "render") /\ alive' = alive \ {"audata"}
     \/ Faults /\ WorkerGoes("packet", "done") /\ UNCHANGED alive
  /\ UNCHANGED <<m_aus, sink, iovars>>

(* avformat_open_input() and avformat_find_stream_info() read as well. *)
WorkerRead ==
  /\ parser = "ffmpeg"
  /\ \/ WorkerGoes("create", "probe")
     \/ WorkerGoes("demux", "read")
  /\ IO!ReadEnter
  /\ UNCHANGED <<alive, m_aus, sink>>

WorkerReadStep ==
  /\ worker \in {"probe", "read"}
  /\ IO!ReadLoop \/ IO!ReadReacquire \/ IO!ReadTake
  /\ UNCHANGED <<parser, threads, exits, alive, source, m_aus, sink>>

WorkerReadReturn ==
  /\ \/ WorkerGoes("probe", "create")
     \/ WorkerGoes("read", "demux")
  /\ IO!ReadReturn
  /\ expected' = Nth(expected, Len(buf))
  /\ UNCHANGED <<alive, m_aus, frame>>

(* av_read_frame() has a frame, perhaps of another stream, or gives up. *)
WorkerDemux ==
  /\ \/ WorkerGoes("demux", "render")
     \/ WorkerGoes("demux", "top")
     \/ Faults /\ WorkerGoes("demux", "done")
  /\ UNCHANGED <<alive, m_aus, sink, iovars>>

WorkerRender ==
  /\ WorkerGoes("render", "segment")
  /\ UNCHANGED <<alive, m_aus, sink, iovars>>

(* addframe() *)
WorkerSegment ==
  /\ WorkerGoes("segment", "top")
  /\ expected' = IF parser = "avc" THEN Nth(frame, 1) ELSE expected
  /\ frame' = NoFrame
  /\ UNCHANGED <<alive, m_aus, iovars>>

WorkerRoused ==
  /\ IO!ReadRoused
  /\ UNCHANGED <<parser, threads, exits, alive, source, m_aus, sink>>

(* Nothing is said of what follows undefined behaviour. *)
WorkerUndefined ==
  /\ IO!FrontMissing
  /\ main' = "undefined" /\ pump' = "undefined" /\ worker' = "undefined"
  /\ UNCHANGED <<parser, exits, alive, source, m_aus, sink, iovars>>

-----------------------------------------------------------------------------
Main == \/ StartBuild \/ StartMap
        \/ StopExit \/ StopWait \/ StopUnmap
        \/ TearExit \/ TearWait \/ TearFree
Pump == PumpTop \/ PumpFinishAU \/ PumpAddBuffer \/ PumpAdvance
Worker == \/ WorkerCreate \/ WorkerTop
          \/ WorkerGet \/ WorkerPacket
          \/ WorkerRead \/ WorkerReadStep \/ WorkerReadReturn \/ WorkerDemux
          \/ WorkerRender \/ WorkerSegment \/ WorkerUndefined

Next == Main \/ Interrupted \/ Pump \/ Worker \/ WorkerRoused

Spec == Init /\ [][Next]_vars

(* The three threads are scheduled; nothing is assumed of the user, nor of *)
(* wakeups for nothing.                                                    *)
FairSpec == Spec /\ WF_vars(Main) /\ WF_vars(Pump) /\ WF_vars(Worker)

-----------------------------------------------------------------------------
(* Type invariant. *)
TypeOK ==
  /\ parser \in Parsers
  /\ main \in {"build", "map", "poll", "exit", "wait", "unmap", "tear", "join",
               "free", "stopped", "undefined"}
  /\ pump \in {"none", "never", "top", "encode", "done", "undefined"}
  /\ worker \in {"none", "never", "create", "probe", "top", "get", "packet", "demux", "read",
                 "render", "segment", "done", "undefined"}
  /\ exits \subseteq {"file", "hls"}
  /\ alive \subseteq Pipeline \cup Leaked \cup {"filedata", "audata"}
  /\ streampos \in DOMAIN Chunks
  /\ remaining \in Nat
  /\ m_aus \in Seq(Units)
  /\ frame \in Units \cup {NoFrame}
  /\ next \in Units
  /\ expected \in Units
  /\ m_buffers \in Seq([data : Seq(Units), pos : Nat])
  /\ m_exit \in BOOLEAN
  /\ reader \in IO!Places
  /\ buf \in Seq(Units)
  /\ roused \in BOOLEAN

(* stop() takes nothing away from under a thread that uses it: the mapped  *)
(* file and the parser, or the queue in front of it, from the pump; these, *)
(* the preview and the segmenter from the worker, wherever start() gave up *)
(* and whenever either thread looks at its m_exit.                         *)
NothingFreedInUse ==
  /\ pump = "encode" => {"filedata", Input} \subseteq alive
  /\ worker \in {"get", "probe", "demux", "read"} => Input \in alive
  /\ worker = "render" => "renderer" \in alive
  /\ worker \in {"create", "segment"} => "segmenter" \in alive

(* The segmenter gets every access unit once, in the order of the stream. *)
InOrder == worker = "segment" /\ parser = "avc" => frame = expected

(* read() hands ffmpeg every byte of the file once and in order, however   *)
(* chunks and calls overlap, and never fewer than it asks for.             *)
ReadExact ==
  reader = "done" => buf = [i \in 1..BufSize |-> Nth(expected, i - 1)]

(* read() takes from an empty list only after a wakeup for nothing: a      *)
(* signal is never sent, and never noticed, without a buffer in the list.  *)
FrontSound == IO!FrontMissing => roused

(* stop() leaves no thread running, and allocated only what is leaked on     *)
(* every path and the access unit that svc() gave up with.                  *)
NothingLeft ==
  main = "stopped" =>
    /\ alive \subseteq Leaked \cup Abandoned
    /\ m_aus = <<>> /\ m_buffers = <<>>
    /\ pump \in {"none", "done"} /\ worker \in {"none", "done"}

(* main is at the join of tear(), which comes before prepareQuit(), and    *)
(* the worker sleeps in read(), where no byte comes any more.              *)
Stuck == main = "join" /\ reader = "wait"

(* main waits for a thread that was not created. *)
NoThread == "never" \in {pump, worker}

(* Whatever failed, stop() returns, but for a thread that was not created,  *)
(* and for ffmpeg's parser: the join of tear() is in front of what would    *)
(* wake up read().                                                          *)
StopReturns ==
  (main = "exit") ~> (main \in {"stopped", "undefined"} \/ Stuck \/ NoThread)

(* Nothing stays behind in a list: an access unit gets to the segmenter,   *)
(* and read() wakes up for a buffer, unless the pipeline is taken down     *)
(* first, or there is no thread, or it has given up for want of memory.    *)
Delivered ==
  /\ \A u \in Units :
       (\E i \in DOMAIN m_aus : m_aus[i] = u)
         ~> (\/ worker = "segment" /\ frame = u
             \/ "hls" \in exits
             \/ worker \in {"done", "never"})
  /\ (reader \in {"loop", "wait"} /\ m_buffers # <<>>)
         ~> (reader \in {"take", "done"} \/ worker = "undefined")
=============================================================================
