----------------------------- MODULE LiveCamera -----------------------------
(***************************************************************************)
(* The live camera source (src/LiveCamera.cpp) and the program around it   *)
(* (src/cli.cpp): the main thread starts the camera, waits for the user's  *)
(* interrupt and stops everything; the capturer calls back with packets;   *)
(* the worker (svc) hands them to the encoder.  The packets pass through a *)
(* list guarded by a mutex and a condition variable, except where stop()   *)
(* uses neither.                                                           *)
(*                                                                         *)
(* spawn() and wait() are those of ThreadJoin.  The capturer is modelled   *)
(* from its use: callbacks come one at a time, from the moment the stream  *)
(* is captured until the capturer is destroyed.  A packet is its number    *)
(* modulo Ids.                                                             *)
(*                                                                         *)
(* A definition whose name ends in _Bug is a mutated form of the one after *)
(* it: a plausible mistake that the properties have to notice.             *)
(***************************************************************************)
EXTENDS Integers, Sequences, FiniteSets

CONSTANTS
  Ids,           \* packet numbers are 0..Ids-1, and start again
  MaxQueue       \* bound on the packets that wait for the worker

ASSUME IdsAssumption == Ids \in Nat \ {0}
ASSUME MaxQueueAssumption == MaxQueue \in Nat \ {0} /\ Ids > MaxQueue + 1

VARIABLES
  main,         \* where the main thread is in start(), main() or stop()
  worker,       \* where the thread running svc() is; "never": not created
  callback,     \* the packet XCapturerOutput() is adding, or NoPacket
  g_terminate,
  m_exit,
  m_mutex,      \* who holds it
  m_packets,
  m_capturer,   \* "none", "created", "capturing"
  m_hlslive,    \* "none", "built" or "torn"
  packet,       \* the packet in the worker's hands, or NoPacket
  held,         \* the packets AddRef'd and not Released
  next,         \* the number of the camera's next packet
  expected,     \* history: the number that encode() is to get next
  late          \* history: the capturer called back while stop() emptied the
                \* list, or later

vars == <<main, worker, callback, g_terminate, m_exit, m_mutex, m_packets,
          m_capturer, m_hlslive, packet, held, next, expected, late>>

NoPacket == -1
PacketNo == 0..(Ids - 1)

Init ==
  /\ main = "build"
  /\ worker = "none"
  /\ callback = NoPacket
  /\ g_terminate = FALSE
  /\ m_exit = FALSE
  /\ m_mutex = "free"
  /\ m_packets = <<>>
  /\ m_capturer = "none"
  /\ m_hlslive = "none"
  /\ packet = NoPacket
  /\ held = {}
  /\ next = 0
  /\ expected = 0
  /\ late = FALSE

-----------------------------------------------------------------------------
(* start() *)

(* Every failure goes to stop(), and main() then returns. *)
StartBuild ==
  /\ main = "build"
  /\ \/ main' = "create" /\ m_hlslive' = "built"
     \/ main' = "exit" /\ m_hlslive' = "torn"
  /\ UNCHANGED <<worker, callback, g_terminate, m_exit, m_mutex, m_packets,
                 m_capturer, packet, held, next, expected, late>>

(* getCamera() and CreateDSCapturer() *)
StartCreate ==
  /\ main = "create"
  /\ \/ main' = "capture" /\ m_capturer' = "created"
     \/ main' = "exit" /\ UNCHANGED m_capturer
  /\ UNCHANGED <<worker, callback, g_terminate, m_exit, m_mutex, m_packets,
                 m_hlslive, packet, held, next, expected, late>>

StartCapture ==
  /\ main = "capture"
  /\ \/ main' = "spawn" /\ m_capturer' = "capturing"
     \/ main' = "exit" /\ UNCHANGED m_capturer
  /\ UNCHANGED <<worker, callback, g_terminate, m_exit, m_mutex, m_packets,
                 m_hlslive, packet, held, next, expected, late>>

(* Where pthread_create() fails there is no thread, but neither spawn() nor *)
(* start() tells: ThreadBase takes it to be running.                        *)
StartSpawn ==
  /\ main = "spawn"
  /\ worker' \in {"top", "never"}
  /\ main' = "poll"
  /\ UNCHANGED <<callback, g_terminate, m_exit, m_mutex, m_packets, m_capturer,
                 m_hlslive, packet, held, next, expected, late>>

(* The signal handler is installed once start() has returned. *)
Interrupt ==
  /\ main = "poll"
  /\ ~g_terminate
  /\ g_terminate' = TRUE
  /\ UNCHANGED <<main, worker, callback, m_exit, m_mutex, m_packets, m_capturer,
                 m_hlslive, packet, held, next, expected, late>>

MainPoll ==
  /\ main = "poll" /\ g_terminate
  /\ main' = "exit"
  /\ UNCHANGED <<worker, callback, g_terminate, m_exit, m_mutex, m_packets,
                 m_capturer, m_hlslive, packet, held, next, expected, late>>

-----------------------------------------------------------------------------
(* stop(), which takes the mutex nowhere *)

StopExit ==
  /\ main = "exit"
  /\ m_exit' = TRUE
  /\ main' = "signal"
  /\ UNCHANGED <<worker, callback, g_terminate, m_mutex, m_packets, m_capturer,
                 m_hlslive, packet, held, next, expected, late>>

(* The signal wakes the worker if it is asleep, and is lost otherwise. *)
Woken == IF worker = "asleep" THEN "woken" ELSE worker

StopSignal ==
  /\ main = "signal"
  /\ worker' = Woken
  /\ main' = "wait"
  /\ UNCHANGED <<callback, g_terminate, m_exit, m_mutex, m_packets, m_capturer,
                 m_hlslive, packet, held, next, expected, late>>

(* wait() does not return for a thread that was not created. *)
Joined_Bug == TRUE
Joined == worker \in {"none", "done"}

StopWait ==
  /\ main = "wait"
  /\ Joined
  /\ late' = (callback # NoPacket)
  /\ main' = "drain"
  /\ UNCHANGED <<worker, callback, g_terminate, m_exit, m_mutex, m_packets,
                 m_capturer, m_hlslive, packet, held, next, expected>>

(* One packet is taken off the list and released. *)
StopDrain ==
  /\ main = "drain"
  /\ m_packets # <<>>
  /\ m_packets' = Tail(m_packets)
  /\ held' = held \ {Head(m_packets)}
  /\ UNCHANGED <<main, worker, callback, g_terminate, m_exit, m_mutex,
                 m_capturer, m_hlslive, packet, next, expected, late>>

(* A callback is adding a packet at the same time: this data race may as well *)
(* bring the program down.                                                    *)
StopDrainRaces ==
  /\ main = "drain"
  /\ m_packets # <<>>
  /\ callback # NoPacket
  /\ main' = "crashed"
  /\ worker' = "none"
  /\ m_capturer' = "none"
  /\ callback' = NoPacket
  /\ m_mutex' = "free"
  /\ UNCHANGED <<g_terminate, m_exit, m_packets, m_hlslive, packet, held, next,
                 expected, late>>

StopDrained ==
  /\ main = "drain"
  /\ m_packets = <<>>
  /\ main' = "destroy"
  /\ UNCHANGED <<worker, callback, g_terminate, m_exit, m_mutex, m_packets,
                 m_capturer, m_hlslive, packet, held, next, expected, late>>

(* DestroyCapturer() lets a callback that is under way finish. *)
StopDestroy ==
  /\ main = "destroy"
  /\ callback = NoPacket
  /\ m_capturer' = "none"
  /\ main' = "tear"
  /\ UNCHANGED <<worker, callback, g_terminate, m_exit, m_mutex, m_packets,
                 m_hlslive, packet, held, next, expected, late>>

StopTear ==
  /\ main = "tear"
  /\ m_hlslive' = IF m_hlslive = "built" THEN "torn" ELSE m_hlslive
  /\ main' = "stopped"
  /\ UNCHANGED <<worker, callback, g_terminate, m_exit, m_mutex, m_packets,
                 m_capturer, packet, held, next, expected, late>>

-----------------------------------------------------------------------------
(* svc() *)

WorkerTop ==
  /\ worker = "top"
  /\ worker' = IF m_exit THEN "done" ELSE "lock"
  /\ UNCHANGED <<main, callback, g_terminate, m_exit, m_mutex, m_packets,
                 m_capturer, m_hlslive, packet, held, next, expected, late>>

(* Also pthread_cond_wait() returning. *)
WorkerLock_Bug ==
  /\ worker \in {"lock", "woken"}
  /\ m_mutex' = "worker"
  /\ worker' = "test"
  /\ UNCHANGED <<main, callback, g_terminate, m_exit, m_packets, m_capturer,
                 m_hlslive, packet, held, next, expected, late>>

WorkerLock ==
  /\ worker \in {"lock", "woken"}
  /\ m_mutex = "free"
  /\ m_mutex' = "worker"
  /\ worker' = "test"
  /\ UNCHANGED <<main, callback, g_terminate, m_exit, m_packets, m_capturer,
                 m_hlslive, packet, held, next, expected, late>>

(* The loop condition is evaluated, and the worker goes to sleep in the next *)
(* step: m_exit can be set and signalled in between, for stop() does not     *)
(* wait for the mutex.                                                       *)
Blocks == ~m_exit /\ m_packets = <<>>

WorkerTest ==
  /\ worker = "test"
  /\ worker' = IF Blocks THEN "block" ELSE "take"
  /\ UNCHANGED <<main, callback, g_terminate, m_exit, m_mutex, m_packets,
                 m_capturer, m_hlslive, packet, held, next, expected, late>>

WorkerSleep ==
  /\ worker = "block"
  /\ m_mutex' = "free"
  /\ worker' = "asleep"
  /\ UNCHANGED <<main, callback, g_terminate, m_exit, m_packets, m_capturer,
                 m_hlslive, packet, held, next, expected, late>>

SpuriousWakeup ==
  /\ worker = "asleep"
  /\ worker' = "woken"
  /\ UNCHANGED <<main, callback, g_terminate, m_exit, m_mutex, m_packets,
                 m_capturer, m_hlslive, packet, held, next, expected, late>>

TakenPacket_Bug == m_packets[Len(m_packets)]
TakenPacket == Head(m_packets)

WorkerTake ==
  /\ worker = "take"
  /\ IF m_exit
     THEN worker' = "top" /\ UNCHANGED <<packet, m_packets>>
     ELSE /\ packet' = TakenPacket
          /\ m_packets' = Tail(m_packets)
          /\ worker' = "encode"
  /\ m_mutex' = "free"
  /\ UNCHANGED <<main, callback, g_terminate, m_exit, m_capturer, m_hlslive,
                 held, next, expected, late>>

WorkerEncode ==
  /\ worker = "encode"
  /\ expected' = (packet + 1) % Ids
  /\ worker' = "release"
  /\ UNCHANGED <<main, callback, g_terminate, m_exit, m_mutex, m_packets,
                 m_capturer, m_hlslive, packet, held, next, late>>

Released_Bug == held
Released == held \ {packet}

WorkerRelease ==
  /\ worker = "release"
  /\ held' = Released
  /\ packet' = NoPacket
  /\ worker' = "top"
  /\ UNCHANGED <<main, callback, g_terminate, m_exit, m_mutex, m_packets,
                 m_capturer, m_hlslive, next, expected, late>>

-----------------------------------------------------------------------------
(* XCapturerOutput() *)

CallbackLock ==
  /\ m_capturer = "capturing"
  /\ late' = (late \/ main \in {"drain", "destroy"})
  /\ callback = NoPacket
  /\ Len(m_packets) < MaxQueue
  /\ m_mutex = "free"
  /\ m_mutex' = "callback"
  /\ callback' = next
  /\ next' = (next + 1) % Ids
  /\ held' = held \cup {next}
  /\ UNCHANGED <<main, worker, g_terminate, m_exit, m_packets, m_capturer,
                 m_hlslive, packet, expected>>

CallbackPush_Bug ==
  /\ callback # NoPacket
  /\ m_packets' = Append(m_packets, callback)
  /\ callback' = NoPacket
  /\ m_mutex' = "free"
  /\ UNCHANGED <<main, worker, g_terminate, m_exit, m_capturer, m_hlslive,
                 packet, held, next, expected, late>>

CallbackPush ==
  /\ callback # NoPacket
  /\ m_packets' = Append(m_packets, callback)
  /\ callback' = NoPacket
  /\ m_mutex' = "free"
  /\ worker' = Woken
  /\ UNCHANGED <<main, g_terminate, m_exit, m_capturer, m_hlslive, packet, held,
                 next, expected, late>>

-----------------------------------------------------------------------------
Main == \/ StartBuild \/ StartCreate \/ StartCapture \/ StartSpawn \/ MainPoll
        \/ StopExit \/ StopSignal \/ StopWait \/ StopDrain \/ StopDrainRaces
        \/ StopDrained \/ StopDestroy \/ StopTear
Worker == \/ WorkerTop \/ WorkerLock \/ WorkerTest \/ WorkerSleep
          \/ WorkerTake \/ WorkerEncode \/ WorkerRelease
Callback == CallbackLock \/ CallbackPush

Next == Main \/ Worker \/ Callback \/ Interrupt \/ SpuriousWakeup

Spec == Init /\ [][Next]_vars

(* The threads are scheduled, and a thread that waits for the mutex gets it *)
(* although others take it again and again.  Nothing is assumed of the      *)
(* camera but that a callback finishes.                                     *)
Scheduling == /\ WF_vars(Main)
              /\ WF_vars(Worker)
              /\ SF_vars(WorkerLock)
              /\ WF_vars(CallbackPush)
QuietCameraSpec == Spec /\ Scheduling

(* The camera keeps on delivering. *)
CameraSpec == QuietCameraSpec /\ SF_vars(CallbackLock)

-----------------------------------------------------------------------------
(* Type invariant, with the mutex: whoever is inside a critical section holds *)
(* it.                                                                        *)
TypeOK ==
  /\ main \in {"build", "create", "capture", "spawn", "poll", "exit", "signal",
               "wait", "drain", "destroy", "tear", "stopped", "crashed"}
  /\ worker \in {"none", "never", "top", "lock", "test", "block", "asleep", "woken",
                 "take", "encode", "release", "done"}
  /\ callback \in PacketNo \cup {NoPacket}
  /\ g_terminate \in BOOLEAN
  /\ m_exit \in BOOLEAN
  /\ m_mutex \in {"free", "worker", "callback"}
  /\ m_packets \in Seq(PacketNo)
  /\ m_capturer \in {"none", "created", "capturing"}
  /\ m_hlslive \in {"none", "built", "torn"}
  /\ packet \in PacketNo \cup {NoPacket}
  /\ held \subseteq PacketNo
  /\ next \in PacketNo
  /\ expected \in PacketNo
  /\ late \in BOOLEAN
  /\ worker \in {"test", "block", "take"} <=> m_mutex = "worker"
  /\ callback # NoPacket <=> m_mutex = "callback"

Queued == {m_packets[i] : i \in DOMAIN m_packets}

(* The encoder gets every packet of the camera once, in order, as long as the *)
(* program runs, whatever wakes the worker.                                   *)
InOrder == worker = "encode" => packet = expected

(* encode() is only called between build() and tear(): stop() does not tear *)
(* the encoder down under the worker.                                       *)
EncodesWhileBuilt == worker \in {"encode", "release"} => m_hlslive = "built"

(* Exactly the packets in the list, in a callback and in the worker's hands  *)
(* are referenced, and stop() leaves none behind unless the camera calls back *)
(* while it empties the list, or later.                                      *)
RefsBalanced ==
  /\ main # "crashed" => held = (Queued \cup {callback, packet}) \ {NoPacket}
  /\ main = "stopped" /\ ~late => held = {}

(* stop() waits for a thread that was not created, and waits for ever. *)
NoThread == worker = "never"

(* "user interrupt, exit...": once interrupted, the program stops, unless    *)
(* the camera's callback gets in the way of stop() emptying the list, or     *)
(* there is no thread for it to join.  Where the camera keeps on delivering  *)
(* this holds, for a callback wakes a worker that missed the signal of       *)
(* stop(); where it may fall silent it does not.                             *)
InterruptExits == g_terminate ~> (main = "stopped" \/ late \/ NoThread)
=============================================================================
