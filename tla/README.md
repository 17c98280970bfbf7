# HLSLive: specification and verification

HLSLive turns a live H.264 stream (a camera, or a file played round and round)
into HTTP Live Streaming: a sliding playlist of MPEG-2 transport stream
segments. This directory holds TLA+ models of the program in `src/`, the TLC
runs that check them, and TLAPS proofs about them.

The models are of the program as `src/config.h` configures it: `LIVE_CAMERA 1`,
`NO_RELAY 0`, `WALLCLOCK_TS 1`, `OPEN_PREVIEW 1`, `USE_FFMPEG_PARSER 0`,
`USE_FFMPEG_MUXER 0`, of the file source that `LIVE_CAMERA 0` selects, and of the
byte queue that `USE_FFMPEG_PARSER 1` puts in front of ffmpeg's parser. No build
defines `NDEBUG`, so assertions are live.

## The system

| Component | State | Operations | Module |
|---|---|---|---|
| `cli.cpp` | `g_terminate` | start, poll the flag, stop | in `LiveCamera`, `LiveFile` |
| `LiveCamera` | packet list, mutex, condition variable, `m_exit`, capturer | `start`, `stop`, `svc`, `XCapturerOutput` | `LiveCamera` |
| `LiveFile` | mapped file, position, `m_exit` | `start`, `stop`, `svc` | `LiveFile` |
| `HLSLive` | reader or queue, segmenter, preview, its own thread and `m_exit` | `build`, `tear`, `encode`, `svc` | `LiveFile` |
| `InputContext` | list of buffers, mutex, condition variable, `m_exit` | `addbuffer`, `read`, `prepareQuit`, `clean` | `InputContext`, in `LiveFile` |
| `ThreadBase` | mutex, condition variable, `m_running_b` | `spawn`, `wait`, `svcRun` | `ThreadBase`, `ThreadJoin` |
| `AVCReader` | the parser | `parse`, `getframe` | `AVCByteStream`, `LiveFile` |
| `AVCFrameChecker`, bytes | last five bytes, NAL unit and RBSP under way | `addBytes` and what it calls | `AVCByteStream` |
| `AVCFrameChecker`, access units | access unit under way, list, parameters, header of the last slice | `processRBSP`, `decode_SPS`, `decode_PPS`, `decode_Header`, `is_new_au`, `finish_au`, `getAU` | `AVCFrameChecker` |
| `AVCBitsReader` | buffer and index | fixed-length and Exp-Golomb reads | `AVCBitsReader`, in `AVCFrameChecker` |
| `TsSegmenter` | window of segments, open file, deletion queue | `addframe`, `tear` | `TsSegmenter`, `HlsPlaylist` |
| `TsMuxer` | continuity counters, time of the next tables | `write_header`, `write_packet` | `TsMuxer` |
| `TsBucket` | list of buffers with its tail pointer | `bucket_init`, `bucket_insert`, `bucket_retrieve` | `TsBucket`, in `TsMuxer` |
| `IOContext` | `m_exit` | `prepareQuit` | in `InputContext` |
| `OutputContext`, `TsIO`, `wingetopt` | | | not modelled |

How they interact. The main thread calls `start()`, waits for the user's
interrupt and calls `stop()`. The capturer calls back on a thread of its own and
leaves packets in a list that `LiveCamera::svc()` empties; or `LiveFile::svc()`
pumps chunks of the file. Both call `HLSLive::encode()`, which feeds the parser.
The parser cuts the bytes into NAL units and those into access units, and puts
them into a list under a mutex; `HLSLive::svc()`, on another thread, polls that
list and calls the preview and `TsSegmenter::addframe()`, which drives the muxer
and writes segment files and the index. With ffmpeg's parser, `encode()` puts
bytes into a queue instead, and `HLSLive::svc()` sleeps in `InputContext::read()`
until there are some.

What is hard. Up to four threads run (main, the source, the capturer, `HLSLive`)
while the pipeline is taken up and down; the two stop flags and one list are
read and written without the mutex; `stop()` joins, empties and frees in an
order that has to be right at every point where `start()` can give up. The
parser works on chunks that end anywhere, holds back a unit, and decides that a
picture begins from members some of which keep older values and are read from
bits through a cache of limited depth. The segmenter is
driven by a wall clock that may stand still or go back, and by file operations
whose failures are logged and otherwise ignored. `PROJECT.json` lists the
hazards at their lines. About one thing no model here says anything: the packet
list of `LiveCamera` has no bound (`LiveCamera.cpp:170`), and how long it gets
depends on speeds.

What makes each component correct:

- segmenter: what the index lists can be played; the window is exact; nothing is
  deleted too early or kept for ever; implements a sliding playlist.
- threads: `wait()` returns, and only when the thread has left the object.
- camera, file: packets and access units arrive once and in order, nothing is
  freed under a thread, everything is released, `stop()` returns.
- byte queue: `read()` returns the bytes that were put in, in order and as many
  as were asked for, and takes nothing from an empty list.
- parser: the NAL units and access units are those of the stream, wherever it is
  cut, headers are read as they were written, and key frames are flagged.
- muxer: the buffer reserved is the buffer filled; a receiver sees every byte,
  no gap in the counters, and tables often enough; the list to the segmenter has
  no dangling pointer.

## The modules

**`TsSegmenter`**: `addframe()`, one action for each of its outcomes
(`DropLeading`, `FirstSegment`, `WriteInside`, `DropOverrun`, `Rollover`, and
the two in which `assert(m_tsfile)` aborts), `Tear`, `Restart` and `Tick`, the
wall clock. Each action does all that a call does: the sweep of outdated
segments, the time stamp, the window, the index, the files. `disk` has for every
segment what was to be written of what a client sees of it, `torn` the segments
whose file lacks some of that because a write or the closing failed; `index` is
the published list, and `fresh` says whether the last update succeeded. Failures
are chosen with `Faults`. A
quotient of doubles that may round either way at equality is a choice (`tie`).
**`HlsPlaylist`** is the promise to a client: a list of closed segments that
slides by one, and files that go only from outside it. `MCTsSegmenter` maps one
onto the other.

**`ThreadBase`**: the steps of `spawn()`, `wait()` and `svcRun()` between which
the other thread can run. `pthread_create` may fail with a positive error, which
the code does not recognise; `pthread_cond_wait` may return for nothing.
**`ThreadJoin`** is what users rely on: `svc()` runs once between `spawn()` and
`wait()`, unless the thread was never created, after which `wait()` does not
return. `LiveCamera` and `LiveFile` use threads as `ThreadJoin` describes them,
the thread that was not created (`"never"`) included: `start()` takes no notice
of it, and `stop()` then waits for ever.

**`LiveCamera`**: four actors. The main thread goes through `start()` (which may
give up at each step), the poll loop and `stop()`; the worker through `svc()`,
with the test of the loop condition and the sleep as two steps; the capturer
calls back while it is capturing. `stop()` sets `m_exit`, signals, and empties
the list without the mutex: a callback that appends meanwhile is a data race,
whose worst outcome is the action `StopDrainRaces`.

**`InputContext`**: the queue of buffers, one operator for each step of `read()`
between which the other threads can run, and `addbuffer()` and `clean()`, which
need one step each. `wait` becomes `woken` by a signal or for nothing, and
`ReadReacquire` does not look at the list again, as the code does not.

**`LiveFile`**: the file source, with `HLSLive` behind it, for both values of
`USE_FFMPEG_PARSER` (`parser`). `alive` is what is allocated or mapped; each
thread's place says what it uses. What passes between the threads is numbered:
access units with the program's own parser, bytes with ffmpeg's, whose steps
are those of an instance of `InputContext`. `Chunks` and `Sizes` say how many of
either each chunk of the file has. When the packet for ffmpeg cannot be
allocated `svc()` returns with the access unit in its hands; its bytes are lost
(`Abandoned`). A `front()` of an empty list is undefined
behaviour, after which the model says nothing more (`WorkerUndefined`).

**`AVCByteStream`** works on bytes: the search for start codes with the last
five bytes as context, the NAL unit whose tail is cut off again once a start
code is recognised, the removal of emulation prevention across chunks, and the
assertions. The environment is an encoder (`Encoded`, `Escape`) and a cutter
(`Pass`). What lies behind a chunk, where `fillRBSP()` looks after a third zero,
is the next byte of the stream if it is a mapped file, and any byte at all if it
is a packet of a camera (`source`, `Beyond`).

**`AVCBitsReader`** is the bit reader: every read maps a buffer with an index to
the next one, through a cache of 32 bits of which 25 are sure to be loaded.
**`AVCFrameChecker`** goes on from complete NAL units: an action for each kind
of unit that may be completed by the start of the next, and `GetAU`. A header is
bits. `decode_SPS()` and `decode_Header()` are tables, one line per syntax
element (its name, whether it is present, how it is read), so that one element
read too much or too little moves all that follow; members that the code only
assigns when an element is present keep their values. The bits come from
**`AVCEncoder`**, which writes parameter sets and slice headers as section 7.3
of H.264 lays them out and is not a model of the program. What the access units
should be is stated apart from the code too, from the paragraphs that a comment
in `is_new_au()` quotes (`Starts`, `FirstOfPicture`).

**`TsBucket`** has the nodes by address, and `chain`, which points to a pointer:
`bucket->first` or the `next` of a node. **`TsMuxer`** uses it:
`WriteVideoPacket` is `write_packet()` up to its loop, `WriteTsPacket` an
iteration, and the bucket is filled and emptied by `InsertPackets` and `Drain`.
A packet is the lengths of its parts, the place of its payload in that of the
frame, and the fields a receiver uses.

Definitions ending in `_Bug` are plausible mistakes; none is used by a
specification. They show that each property can tell the difference.

## The runs

| Run | Configuration | States | Shows |
|---|---|---|---|
| `segmenter_live` | window of 2, eight segments, ticks of a duration or 5 us less, no failures | 310 k | window exact, storage bounded, no file forgotten, three durations of retention, refines `HlsPlaylist` |
| `segmenter_faults` | window of 1, all failures, one restart, bursts, clock set back | 2.6 M | what a fresh index lists can be played |
| `segmenter_retention` | window of 3, no failures | | **violated**: a segment is deleted before the quoted time |
| `threadbase` | up to six uses, creation may fail | 181 | `wait()` and the refinement of `ThreadJoin` |
| `camera` | lists of up to two packets | 1 k | order, references, encoder not torn down under the worker, interrupt |
| `camera_interrupt` | the same, silent camera | | **violated**: lost wakeup |
| `file` | both parsers, a file of three chunks, lists of up to three, wakeups for nothing | 42 k | nothing freed in use, order of units and of bytes, no read of an empty list but after a wakeup for nothing, delivery, termination |
| `byte_stream` | two units of 25 kinds, three of nine, cut anywhere, in a file or in packets | 447 k | units and payloads exact, no assertion fails |
| `byte_stream_padding` | one extra zero before a start code | | **violated**: an assertion fails |
| `access_units` | every stream of six NAL units of four encoders | 214 k | headers are read as written, access units and key frames are those of the standard |
| `access_units_poc1` | picture order count type 1 | | **violated**: two pictures in one access unit |
| `muxer` | three frames of sizes around every boundary | 934 k | buffers, packets, counters, tables, the list's pointers |

Why the bounds are enough. *Segmenter*: the window fills, slides, and its first
castoff expires and is removed, with more segments following; with failures, a
window of one segment gets there soonest, and a third segment suffices. With three
in the window, the least at which the quoted retention is longer than the code's,
the first deletion already comes too early. `segmenter_live` has ticks that reach
the duration exactly, and 5 us less, which rounds to the duration or to one tick
of the time stamps less: a segment may be too short by the clock and long enough
by its time stamps, so a fourth castoff waits. The other has ticks of three durations, and within each
reading of the clock a burst, or a setback smaller than a burst. *Threads*:
every use after the first starts from the state the one before left. *Camera*:
two packets in the list, one in a callback and one in the worker's hands are all
there can be of each; numbers modulo four tell them apart. *File*: a chunk may
complete no unit, one, or two, and the file wraps. Chunks of two, three and one
bytes against reads of two (`BufSize`) make a buffer that ends with the read, one
that ends inside it, and one that is left over; at most eleven numbers (`Ids`)
are under way at once. *Bytes*: a start code with
what precedes and follows it spans at most two units, and the third shows that
the state is reset; payloads include those that need emulation prevention, that
resemble it, and that are empty. *Access units*: a start depends on the last
slice, what lies between and the slice after; six units hold parameter sets, two
slices and an intermediate unit. The four encoders (`MCAVCFrameChecker`) use
frames; fields with two picture parameter sets, units that are not parsed and a
malformed one; two sequence parameter sets with scaling lists, the longest
fields and the longest code that is sure to be read; and what cannot be read. *Muxer*: sizes 151/152 and 156/157 are the two
sides of a full first packet with and without a DTS, and 1500 bytes make enough
packets for the continuity counter to wrap.

Runs stop where a bound is reached or the program has stopped, so deadlock is
not checked for; that nothing waits for ever is stated as a liveness property
instead.

Fairness. Threads are scheduled: weak fairness of each. A thread waiting for a
mutex gets it although others take it again (strong fairness of `WorkerLock`),
which pthreads gives where the holder's other work leaves time. `CameraSpec`
also says that the camera keeps delivering while it can; the run
`camera_interrupt` shows what happens without. Nothing is assumed of the user,
of allocation failures, or of spurious wakeups. Two places where `stop()` does
hang are left out by name: `wait()` for a thread that was not created
(`NoThread`, in `InterruptExits` and `StopReturns`, as in `WaitReturns`), and the
join of a worker that sleeps in `read()` (`Stuck`, in `StopReturns`).

## What was found

Four runs end in a violation of what a comment says; `PROJECT.json` quotes them.

- `LiveCamera.cpp:101`: `stop()` signals without the mutex. Between the worker's
  test of `m_exit` and its sleep the signal is lost, and if no further packet
  arrives `stop()` never returns.
- `AVCFrameChecker.cpp:483`: `m_prev_pic_order_cnt_type` is compared and never
  assigned, so type 1 pictures that differ in `delta_pic_order_cnt` are merged.
- `AVCFrameChecker.cpp:564`: three zeros must be followed by one; padding, which
  the comment at `:117-121` allows, aborts.
- `TsSegmenter.cpp:406`: the comment above (`:399-402`) quotes RFC 8216, by which a
  removed segment stays for its own duration plus that of the playlist,
  (`m_segments` + 1) durations; the code keeps it for three, whatever the window
  (`Retained`). With a window of two they are the same; the windows of five and
  six in use need more.

These have no run of their own:

- `TsMuxer.cpp:190`: `&` binds looser than `!=`: a unit that begins with a
  delimiter gets a second, one with an even header (SEI) none, with the six bytes
  of room for it sent uninitialised. The comment at `:189` wants one before every
  unit. The theorem `DelimitedExactly` says which units get exactly one, and
  `FramesArrive` checks that these do.
- `ThreadBase.cpp:26`: `pthread_create()` returns a positive number when it fails
  and the test is for -1, and neither source looks at what `spawn()` returns:
  after a failure `wait()`, and with it `stop()`, never returns (`NoThread`).
- `HLSLive.cpp:257-261`: when `av_new_packet()` fails, the bytes of the access unit
  are not deleted (`Abandoned`); nor does anybody notice that the worker is gone.
- `AVCFrameChecker.cpp:564`: the byte after a third zero is read without a look at
  the length. Behind the packet of a camera it is anything, and the assertion on
  it can fail in a stream without padding (`LooksBehind`).
- `TsSegmenter.cpp:445` and `:212`: a write or a closing that fails goes unnoticed,
  and the segment is listed all the same (`torn`, which `ListedPlayable` names).
- `AVCFrameChecker.h:97-101` and the message at `AVCFrameChecker.cpp:773` say
  that units of other types are ignored; they become part of the access unit
  (`Begin`). `Partition` takes no side: it speaks of the units with the types
  that the comment lists (`Documented`), of which none is lost, repeated or
  moved to another access unit, whatever becomes of the rest.
- `AVCFrameChecker.h:97` and `AVCFrameChecker.cpp:780` say that malformed units
  are dropped; `assert(good_nal_unit)` at `:749` ends the program
  (`MalformedNal`).
- `HLSLive.cpp:38`: with ffmpeg's parser `tear()` joins the worker before the
  queue's `prepareQuit()`, the only thing that would wake it up in `read()`;
  when the source has stopped first, as `LiveFile::stop()` makes it, `stop()`
  hangs (`Stuck`).
- `InputContext.cpp:127`: `read()` waits with `if`. Without wakeups for nothing
  that is enough (`FrontSound`, proved); with one it takes the front of an empty
  list.
- Never freed: the `HLSLive` object (`LiveFile.cpp:74` sets the pointer only),
  the decoder context (`HLSLive.cpp:371`), and the `AVIOContext`, since
  `InputContext.cpp:47` gives `av_freep()` the pointer and not its address
  (`Leaked`, which `NothingLeft` names besides `Abandoned`).
- Three kinds of slice headers are misread (`Unreadable`, which `HeaderExact`
  and `Partition` leave out): an `idr_pic_id` above 8190, whose code is longer
  than the cache is sure to hold, although the comment at `AVCFrameChecker.cpp:980`
  lets it go up to 65535; a slice whose picture parameter set is not the last
  one sent and differs in `pic_order_present_flag` (`:1335`); and every slice
  after a sequence with `separate_colour_plane_flag`, which is never set back
  although the comment at `:930` says that it is then inferred to be 0.

## The proofs

All are for every value of the constants, from the named assumptions in the
modules.

- `TsSegmenterProofs`: `TypeCorrect`, `ListedPlayableInvariant`. That a listed
  segment is playable is not inductive: the index is written once and the files
  live on. `IInv` adds that castoffs lie before the window (so the sweep leaves
  the window alone), that closed segments of the window are intact, that the
  open one is so far and ends no later than `m_lastts`, and that a fresh index
  is the closed part of the window. Time stamps increase whatever the clock does
  because `Pts` is later than `m_lastts` (`PtsLater`). The window moves on while
  files of an earlier run are overwritten; `fresh` is false there. Of a file that
  a failed write left incomplete (`torn`) the theorem says only that it is closed,
  within the target duration and in its place: what of it arrived is up to the
  file system.
  The window (also in `TsSegmenterProofs`): every call of `addframe()` is one of five
  (`AddFrameCases`) as far as the set of files, the window, the index and the
  deletion queue go. `WInv` says of the first run that the window has exactly
  `Segments` closed segments and the open one, or all there are, and that each
  file is in it or in the queue; and, where the index can be replaced, that what
  is in the queue has left the index, at the moment from which its retention is
  counted. From it: `WindowExactInvariant`, for every set of faults and every
  clock; `NoOrphansInvariant`, where `::remove` works; `RetainedAlways`, an
  action property, where the index can be replaced, over restarts too; and
  `Implementation`: without failures and restarts (`NoFailures`) every step of
  the segmenter is a step of `HlsPlaylist` or a stutter. The premises are needed:
  a file that cannot be removed is forgotten, and an index that could not be
  replaced lists segments that are deleted.
  How many files there are: `StorageBoundedInvariant`, where `::remove` works,
  for every clock, one that is set back included. Nothing in the code counts the
  castoffs; `Spaced` says why they are few. Counted back from the start of the
  open segment, the expiry of each castoff is a duration before that of the next
  one; whatever is left after a sweep has not expired; and the start of the open
  segment was at most `MaxAhead` beyond the clock. So at most
  `4 + MaxAhead \div Limit` wait (`FewWait`), with the window the bound on the
  disk. Three is not enough: durations are compared in ticks and expiry in
  microseconds, and `segmenter_live` has the fourth. An abort leaves no more
  than there was.
- `ThreadBaseProofs`: `TypeCorrect`, `JoinedMeansGoneInvariant`. `FlagInv`
  relates `m_running_b` to the places of both: true from the end of `spawn()`
  until the thread clears it. With it, `StepsImplementJoin`: every step is one
  of `ThreadJoin` or a stutter, the safety half of `ImplementsJoin`.
  `NoLostWakeup` is what `WaitReturns` rests on besides fairness: the owner goes
  to sleep on a true flag only, so before the thread is at its signal
  (`SleepInv`), and the thread can take the mutex while the owner sleeps.
- `LiveCameraProofs`: `TypeCorrect`, which includes that whoever is in a
  critical section holds the mutex, and `EncodesWhileBuiltInvariant`. The
  invariant adds that a live worker holds `main` at the join, and that a worker
  leaving its loop without `m_exit` has a packet: `stop()`, which ignores the
  mutex, has set `m_exit` before it empties the list. `InOrderInvariant` and
  `RefsBalancedInvariant` follow the packets: the one in the worker's hands, the
  list and the one in the callback are consecutive numbers modulo `Ids`
  (`NumberedFrom`), few enough for `Ids` to tell them apart (`Room`), and the
  references held are exactly these (`Balanced`). `NoPacketWaits`: a worker that
  sleeps has an empty list, so a callback's wakeup is never lost; what can be
  lost is the one of `stop()` alone, as `camera_interrupt` shows. `UsesJoin`: seen
  through `spawn()` and `wait()`, the camera is a user of `ThreadJoin`, a thread
  that is never created included, so what `StepsImplementJoin` says of
  `ThreadBase` is what its model assumes.
- `LiveFileProofs`, for both parsers: `TypeCorrect`,
  `NothingFreedInUseInvariant` and `NothingLeftInvariant`, by the same argument
  for two threads and two joins; `FrontSoundInvariant`: a worker that was
  signalled and not woken for nothing finds a buffer, since only it takes them
  (`Awake`); `InOrderInvariant`: the unit in hand and the list end at `next`
  (`UnitsLinked`); `ReadExactInvariant`: what `read()` has filled in, what is
  left of the first buffer, and the other buffers are one sequence of bytes that
  ends at `next` (`BytesLinked`). `NoBufferWaits`, the safety half of the second
  conjunct of `Delivered`: `read()` sleeps with an empty list only. `UsesJoin`:
  both threads are started, or not created, and joined as `ThreadJoin` says, up to
  the undefined behaviour that `FrontSound` is about (`PumpStep`, `WorkerStep`).
- `CommonLemmas` has what several of them use: adding modulo `Ids` in steps is
  adding at once, and fewer than `Ids` steps never lead back; what holds of 0 and
  goes over to the next number holds of all, for a set of numbers, since the
  induction theorems that take an operator cannot be used; and `FlattenSeq`.
- `TsMuxerProofs`: `TypeCorrect`, `BufferExactInvariant`,
  `PacketsFullInvariant`. The count `packetized_packets()` makes beforehand is
  turned into a loop invariant: packets written plus packets still to write
  (`StillToWrite`) equal packets reserved; `OnePacketLess` is the arithmetic of
  one iteration. `BucketSoundInvariant`: between two calls the nodes of the list
  have the addresses 1 to k, linked in that order, and j to k while it is
  emptied (`Linked`); k is at most 5, since a list starts empty, or with the
  tables of a new segment (`Within`).
  `TablesFreshInvariant`: the argument is about the segment with what is on its
  way to it (`Sent`), which emptying the list leaves alone (`RetrieveBuffered`).
  Each frame in it has tables behind it, or is at most 100 ms before `next_pat`
  (`Covered`), and a frame is written only before `next_pat`.
  `ContinuityInvariant`: the packets of a program ever sent, over all segments,
  count on, and the last of them has the number before the counter's.
  `FramesArriveInvariant`: what has arrived is a frame for each in the history
  but the last, and of the last one as many bytes as the loop has written, each
  packet going on where the one before it ended. Both are stated of one sequence, segments and buffers flattened, to which each step
  appends at most one packet. `DelimitedExactly` says what is left of the
  comment at `TsMuxer.cpp:189`: every access unit gets exactly one delimiter if
  and only if each begins with an odd header that is not a delimiter's. Nothing
  here is about time stamps, whose bytes are not modelled.
- `AVCByteStreamProofs`: `TypeCorrect` for every stream. For the others the
  stream has no padding (`NoPadding`; the run `byte_stream_padding` shows what
  one zero does): `UnitsRight`, `PayloadsRight`, `NoAssertionFails`; the last but
  for a camera's packet that ends in a third zero (`LooksBehind`). The argument
  has three parts. About emulation prevention, by induction over the payload
  (`EscapingRight`): what it writes is recovered, has no two zeros before a byte
  up to 2, and ends as the payload does; so what `fillRBSP()` makes of it and of
  the start code after it, less the tail, is the payload (`PayloadRecovered`),
  in one piece or several (`UnescapeJoined`). About the stream (`Written`): two
  zeros and a 1 occur in start codes only (`HitIsHead`), and three zeros only
  before the 1 of a long one (`ThreeZeros`). About the parser: however far it
  is, it has caught up with some unit k (`Caught`): `m_nalu` is the bytes since
  the unit before began, `finished` and `parsed` are the units before that, and
  the RBSP is what `fillRBSP()` makes of the bytes since the header of unit k.
  `Received` says of the buffers themselves that they hold what the stream has
  at that place. A scan ends at the next header or before it (`Advance`).
- `AVCFrameCheckerProofs`. First, what a read returns when a code was written,
  wherever in the buffer it begins and whatever surrounds it: `GetUeExact` and its
  companions for `u(n)`, `se(v)` and the table-driven read up to 31. A code of up
  to 25 bits is sure to be in the cache; that bound is a premise.
  Then four results about the access units.
  `KeyFramesInvariant` and `LosslessInvariant` hold whatever the headers say:
  access units are counted and flagged by the types of their NAL units (`IInv`),
  and what was handed over, what waits, what is collected and what is held back
  are the stream, units of other types included. `HeaderExactInvariant`: `IInv` has the parameter sets, element
  by element, as the last NAL units of their kinds were written, and `XInv` the
  last header; each line of the tables in `AVCFrameChecker` is one read at the
  place where the line before it ended, against one piece of what `AVCEncoder`
  wrote. `PartitionInvariant`: `PInv` says that the flag
  `m_au_pending` is set exactly when something since the last slice has announced
  an access unit (`Announced`) and that the cuts are the known starts (`CutRight`).
  Its premise `NeverDeltaAlone(input)` is that no slice differs from the one
  before it in `delta_pic_order_cnt` alone; the run `access_units_poc1` shows
  that it is needed. `IInv` and `XInv` also say that the slices of the stream
  conform to their parameter sets, and that a member which an absent element
  leaves alone has a value the comparison ignores (`HeaderOf`).

Only model-checked: all liveness (`InterruptExits`, `WaitReturns`,
`StopReturns`, `Delivered`: fairness is out of the prover's reach), and with it
that of `ImplementsJoin`. Every invariant and action property that a passing run
checks is also a theorem, under the premises named above.

## Not modelled

- The branch of `NO_RELAY`, with `createOutputContext()` and `OutputContext`,
  which hands its argument on to a file; ffmpeg's muxer (`USE_FFMPEG_MUXER`).
  ffmpeg's parser itself is external: `LiveFile` has it call `read()`.
- `AVCReader::decodeRFC()`: `HLSLive::build()` never asks for it, and `build()`
  leaves the pointer it writes through unset.
- Audio, which the segmenter never builds; the bits of tables, time stamps and
  checksums.
- Of the bit reader, what only SEI or nothing calls: `show_bits`,
  `get_bits_long`, `get_bits64`, `get_sbits`, `get_xbits`, the little-endian and
  the interleaved variants. `decode_SEI` and the VUI, whose results no access
  unit carries; `flush()`, which nothing calls; what is not read by anything
  (`H264AU::type`, byte counters that overflow after 2 GB).
- Allocation failures outside `HLSLive::svc()`, and which of its steps fails in
  `build()`.
- The command line copy of getopt, which `main()` never calls.

## Plan

In this order; `+` marks what exists.

1. + `TsSegmenter` with `HlsPlaylist`, the core, and its invariant proved.
2. + `ThreadBase` with `ThreadJoin`; `LiveCamera` and `LiveFile` on top of
   `ThreadJoin`.
3. + `AVCByteStream`, `AVCFrameChecker`, `TsMuxer`.
4. + `InputContext` and both parsers in `LiveFile`; `TsBucket` in `TsMuxer`;
   `AVCBitsReader` and the headers bit by bit in `AVCFrameChecker`.
5. + Proofs: the window of the segmenter and its refinement of `HlsPlaylist`;
   the order of packets, units and bytes in `LiveCamera` and `LiveFile`.
   The pointers of `TsBucket`, the tables of a segment, and the steps of
   `ThreadBase` as those of `ThreadJoin`. What the parsers and the muxer compute,
   for every input: units, payloads, headers and access units; packets, frames
   and continuity. The bound on the segmenter's storage.
   That no wakeup is lost, and that `LiveCamera` and `LiveFile` use their
   threads as `ThreadJoin` allows.
6. Left: where the cached bits of `AVCBitsReader` run out, the codes of more than
   25 bits that are still read right; what `RetainedAlways` becomes when the
   index cannot be replaced.
