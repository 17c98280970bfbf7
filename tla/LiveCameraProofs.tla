-------------------------- MODULE LiveCameraProofs --------------------------
(***************************************************************************)
(* Proofs about LiveCamera, for every number of packets: the mutex         *)
(* protects what svc() and XCapturerOutput() do with the list although     *)
(* stop() ignores it, the encoder is not torn down under the worker, and   *)
(* no packet waits for a worker that sleeps.                               *)
(***************************************************************************)
EXTENDS LiveCamera, CommonLemmas, SequenceTheorems

Starting == {"build", "create", "capture", "spawn"}
Stopping == {"signal", "wait", "drain", "destroy", "tear", "stopped", "crashed"}

(* The worker is held at the join of stop(), and the encoder goes after it. *)
WorkerHolds ==
  worker \notin {"none", "done"} =>
    /\ main \in {"poll", "exit", "signal", "wait"}
    /\ m_hlslive = "built"

Started ==
  /\ main \in Starting => worker = "none"
  /\ main \in {"create", "capture", "spawn"} => m_hlslive = "built"

(* A worker that leaves its loop without m_exit has found a packet, and only *)
(* a stop() that has set m_exit takes it away again.                         *)
TakesWhatIsThere ==
  /\ main \in Stopping => m_exit
  /\ worker = "take" /\ ~m_exit => m_packets # <<>>

(* After a crash nothing calls back. *)
NoCapturerAfterCrash ==
  main = "crashed" => m_capturer = "none" /\ callback = NoPacket

IInv == /\ TypeOK /\ WorkerHolds /\ Started /\ TakesWhatIsThere
        /\ NoCapturerAfterCrash

(* The numbers of packets, and the value that is none of them. *)
LEMMA NoPacketIsNone == NoPacket \notin PacketNo /\ NoPacket \in Int
  BY DEF NoPacket, PacketNo

(* Numbers start again after the last. *)
LEMMA Successor == ASSUME NEW n \in Int PROVE (n + 1) % Ids \in PacketNo
  BY IdsAssumption DEF PacketNo

(* It holds at first. *)
LEMMA InitIInv == Init => IInv
<1>1. 0 \in PacketNo
  BY IdsAssumption DEF PacketNo
<1>2. Init => TypeOK
  <2> SUFFICES ASSUME Init PROVE TypeOK
    OBVIOUS
  <2>1. m_packets \in Seq(PacketNo)
    BY DEF Init
  <2> QED
    BY <1>1, <2>1, Zenon DEF Init, TypeOK
<1>3. Init => WorkerHolds /\ Started /\ TakesWhatIsThere /\ NoCapturerAfterCrash
  BY DEF Init, WorkerHolds, Started, TakesWhatIsThere, NoCapturerAfterCrash,
         Starting, Stopping
<1> QED
  BY <1>2, <1>3 DEF IInv

(* Every step keeps the invariant. *)
LEMMA NextIInv == IInv /\ [Next]_vars => IInv'
<1> SUFFICES ASSUME IInv, [Next]_vars
             PROVE  IInv'
  OBVIOUS
<1> USE DEF IInv, TypeOK, WorkerHolds, Started, TakesWhatIsThere, Starting,
            Stopping, NoCapturerAfterCrash
<1>1. CASE StartBuild
  BY <1>1 DEF StartBuild
<1>2. CASE StartCreate
  BY <1>2 DEF StartCreate
<1>3. CASE StartCapture
  BY <1>3 DEF StartCapture
<1>4. CASE StartSpawn
  BY <1>4 DEF StartSpawn
<1>5. CASE MainPoll
  BY <1>5 DEF MainPoll
<1>6. CASE StopExit
  BY <1>6 DEF StopExit
<1>7. CASE StopSignal
  BY <1>7 DEF StopSignal, Woken
<1>8. CASE StopWait
  BY <1>8 DEF StopWait, Joined
<1>9. CASE StopDrain
  BY <1>9 DEF StopDrain
<1>10. CASE StopDrainRaces
  BY <1>10 DEF StopDrainRaces
<1>11. CASE StopDrained
  BY <1>11 DEF StopDrained
<1>12. CASE StopDestroy
  BY <1>12 DEF StopDestroy
<1>13. CASE StopTear
  BY <1>13 DEF StopTear
<1>14. CASE WorkerTop
  BY <1>14 DEF WorkerTop
<1>15. CASE WorkerLock
  BY <1>15 DEF WorkerLock
<1>16. CASE WorkerTest
  BY <1>16 DEF WorkerTest, Blocks
<1>17. CASE WorkerSleep
  BY <1>17 DEF WorkerSleep
<1>18. CASE WorkerTake
  BY <1>18 DEF WorkerTake, TakenPacket
<1>19. CASE WorkerEncode
  BY <1>19, NoPacketIsNone, Successor DEF WorkerEncode, PacketNo
<1>20. CASE WorkerRelease
  BY <1>20 DEF WorkerRelease, Released
<1>21. CASE CallbackLock
  BY <1>21, NoPacketIsNone, Successor DEF CallbackLock, PacketNo
<1>22. CASE CallbackPush
  BY <1>22 DEF CallbackPush, Woken
<1>23. CASE Interrupt
  BY <1>23 DEF Interrupt
<1>24. CASE SpuriousWakeup
  BY <1>24 DEF SpuriousWakeup
<1>25. CASE UNCHANGED vars
  BY <1>25 DEF vars
<1> QED
  BY <1>1, <1>2, <1>3, <1>4, <1>5, <1>6, <1>7, <1>8, <1>9, <1>10, <1>11, <1>12,
     <1>13, <1>14, <1>15, <1>16, <1>17, <1>18, <1>19, <1>20, <1>21, <1>22,
     <1>23, <1>24, <1>25
     DEF Next, Main, Worker, Callback

(* The inductive invariant holds in every reachable state. *)
THEOREM IInvInvariant == Spec => []IInv
  BY InitIInv, NextIInv, PTL DEF Spec

(* Type correctness, and the mutex: whoever is inside a critical section of *)
(* svc() or XCapturerOutput() holds it.                                     *)
THEOREM TypeCorrect == Spec => []TypeOK
<1>1. IInv => TypeOK
  BY DEF IInv
<1> QED
  BY <1>1, IInvInvariant, PTL

(* svc() calls encode() between build() and tear() only, wherever start() *)
(* gave up and whenever the user interrupts.                              *)
THEOREM EncodesWhileBuiltInvariant == Spec => []EncodesWhileBuilt
<1>1. IInv => EncodesWhileBuilt
  BY DEF IInv, WorkerHolds, EncodesWhileBuilt
<1> QED
  BY <1>1, IInvInvariant, PTL

-----------------------------------------------------------------------------
(* The i-th packet after packet a. *)
Nth(a, i) == (a + i) % Ids

LEMMA NthType ==
  ASSUME NEW a \in Nat, NEW i \in Nat
  PROVE  Nth(a, i) \in PacketNo
  BY IdsAssumption DEF Nth, PacketNo

LEMMA NthNth ==
  ASSUME NEW a \in Nat, NEW i \in Nat, NEW j \in Nat
  PROVE  Nth(Nth(a, i), j) = Nth(a, i + j)
<1>1. a + i \in Nat /\ (a + i) + j = a + (i + j)
  OBVIOUS
<1>2. (((a + i) % Ids) + j) % Ids = ((a + i) + j) % Ids
  BY <1>1, ModPlus, IdsAssumption
<1> QED
  BY <1>1, <1>2 DEF Nth

LEMMA NthZero ==
  ASSUME NEW a \in PacketNo
  PROVE  Nth(a, 0) = a
  BY ModSmall, IdsAssumption DEF Nth, PacketNo

LEMMA NthMoves ==
  ASSUME NEW a \in PacketNo, NEW j \in 1..(Ids - 1)
  PROVE  Nth(a, j) # a
  BY ModMoves, IdsAssumption DEF Nth, PacketNo

-----------------------------------------------------------------------------
(* What the camera has delivered and is not released yet: the packet in the  *)
(* worker's hands, the list and the packet in a callback are numbered on     *)
(* from b, and next follows them.                                            *)
Holding == IF packet = NoPacket THEN 0 ELSE 1
Adding == IF callback = NoPacket THEN 0 ELSE 1

NumberedFrom(b) ==
  /\ packet # NoPacket => packet = b
  /\ \A i \in 1..Len(m_packets) : m_packets[i] = Nth(b, Holding + i - 1)
  /\ callback # NoPacket => callback = Nth(b, Holding + Len(m_packets))
  /\ next = Nth(b, Holding + Len(m_packets) + Adding)

(* While a worker may still encode, encode() waits for the first of these, or *)
(* for the one after it when it has had the first.                            *)
MayEncode == main \in Starting \/ worker \notin {"none", "done"}
Had == IF worker = "release" THEN 1 ELSE 0

Flow == main # "crashed" =>
          \E b \in PacketNo : /\ NumberedFrom(b)
                              /\ MayEncode => expected = Nth(b, Had)

(* There are fewer of them than numbers, and they are what is referenced. *)
Room == Len(m_packets) + Adding <= MaxQueue
InHand == packet # NoPacket <=> worker \in {"encode", "release"}
Balanced == main # "crashed" => held = (Queued \cup {callback, packet}) \ {NoPacket}

(* What stop() leaves behind, unless a callback comes in between. *)
Emptied ==
  /\ main \in {"drain", "destroy", "tear", "stopped"} =>
       worker \in {"none", "done"} /\ (~late => callback = NoPacket)
  /\ main \in {"destroy", "tear", "stopped"} /\ ~late => m_packets = <<>>
  /\ main \in {"tear", "stopped"} => m_capturer = "none"

PacketInv == Flow /\ Room /\ InHand /\ Balanced /\ Emptied

(* It holds at first. *)
LEMMA InitPacketInv == Init => PacketInv
<1> SUFFICES ASSUME Init
             PROVE  PacketInv
  OBVIOUS
<1> USE DEF Init
<1>1. 0 \in PacketNo /\ Nth(0, 0) = 0
  BY IdsAssumption, NthZero DEF PacketNo
<1>2. Flow
  <2>1. NumberedFrom(0)
    BY <1>1 DEF NumberedFrom, Holding, Adding
  <2>2. expected = Nth(0, Had)
    BY <1>1 DEF Had
  <2> QED
    BY <1>1, <2>1, <2>2 DEF Flow
<1>3. Room /\ InHand /\ Emptied
  BY MaxQueueAssumption DEF Room, InHand, Emptied, Adding
<1>4. Balanced
  BY DEF Balanced, Queued
<1> QED
  BY <1>2, <1>3, <1>4 DEF PacketInv

(* What leaves the list: its first element, which is unlike the others and   *)
(* unlike the packet in a callback.                                          *)
LEMMA Leaves ==
  ASSUME TypeOK, Room, NEW b \in PacketNo, NumberedFrom(b), m_packets # <<>>,
         packet = NoPacket
  PROVE  /\ Head(m_packets) = b
         /\ Tail(m_packets) \in Seq(PacketNo)
         /\ Len(Tail(m_packets)) = Len(m_packets) - 1
         /\ \A i \in 1..Len(Tail(m_packets)) : Tail(m_packets)[i] = Nth(b, i)
         /\ b \notin {Tail(m_packets)[i] : i \in DOMAIN Tail(m_packets)}
         /\ Queued = {b} \cup {Tail(m_packets)[i] : i \in DOMAIN Tail(m_packets)}
         /\ callback # b
         /\ callback # NoPacket => callback = Nth(b, Len(m_packets))
         /\ next = Nth(b, Len(m_packets) + Adding)
<1> DEFINE t == Tail(m_packets)
<1>1. m_packets \in Seq(PacketNo) /\ Len(m_packets) \in Nat \ {0}
  BY EmptySeq, LenProperties DEF TypeOK
<1>2. /\ Head(m_packets) = m_packets[1]
      /\ t \in Seq(PacketNo)
      /\ Len(t) = Len(m_packets) - 1
      /\ \A i \in 1..Len(t) : t[i] = m_packets[i + 1]
      /\ DOMAIN t = 1..Len(t)
      /\ DOMAIN m_packets = 1..Len(m_packets)
  BY <1>1, HeadTailProperties
<1> HIDE DEF t
<1>3. \A i \in 1..Len(m_packets) : m_packets[i] = Nth(b, i - 1)
  <2> SUFFICES ASSUME NEW i \in 1..Len(m_packets)
               PROVE  m_packets[i] = Nth(b, i - 1)
    OBVIOUS
  <2>1. 0 + i - 1 = i - 1
    OBVIOUS
  <2> QED
    BY <2>1 DEF NumberedFrom, Holding
<1>4. m_packets[1] = b
  <2>1. 1 \in 1..Len(m_packets) /\ 1 - 1 = 0
    BY <1>1
  <2> QED
    BY <1>3, <2>1, NthZero
<1>5. \A i \in 1..Len(t) : t[i] = Nth(b, i)
  <2> SUFFICES ASSUME NEW i \in 1..Len(t)
               PROVE  t[i] = Nth(b, i)
    OBVIOUS
  <2>1. i + 1 \in 1..Len(m_packets) /\ (i + 1) - 1 = i
    BY <1>1, <1>2
  <2> QED
    BY <1>2, <1>3, <2>1
<1>6. Len(m_packets) <= MaxQueue /\ MaxQueue + 1 < Ids
  BY <1>1, MaxQueueAssumption, IdsAssumption DEF Room, Adding
<1>7. \A i \in 1..Len(m_packets) : Nth(b, i) # b
  <2> SUFFICES ASSUME NEW i \in 1..Len(m_packets)
               PROVE  Nth(b, i) # b
    OBVIOUS
  <2>1. i \in 1..(Ids - 1)
    BY <1>1, <1>6, MaxQueueAssumption, IdsAssumption
  <2> QED
    BY <2>1, NthMoves
<1>8. \A i \in 1..Len(t) : t[i] # b
  <2> SUFFICES ASSUME NEW i \in 1..Len(t)
               PROVE  t[i] # b
    OBVIOUS
  <2>1. i \in 1..Len(m_packets)
    BY <1>1, <1>2
  <2> QED
    BY <1>5, <1>7, <2>1
<1>9. /\ callback # NoPacket => callback = Nth(b, Len(m_packets))
      /\ next = Nth(b, Len(m_packets) + Adding)
  <2>1. 0 + Len(m_packets) = Len(m_packets)
    BY <1>1
  <2> QED
    BY <2>1 DEF NumberedFrom, Holding
<1>10. callback # b
  <2>1. Len(m_packets) \in 1..Len(m_packets)
    BY <1>1
  <2> QED
    BY <1>7, <1>9, <2>1, NoPacketIsNone
<1>11. Queued = {b} \cup {t[i] : i \in DOMAIN t}
  <2>1. ASSUME NEW x \in Queued
        PROVE  x \in {b} \cup {t[i] : i \in DOMAIN t}
    <3>1. PICK i \in 1..Len(m_packets) : x = m_packets[i]
      BY <1>2, <2>1 DEF Queued
    <3>2. CASE i = 1
      BY <1>4, <3>1, <3>2
    <3>3. CASE i # 1
      <4>1. i - 1 \in 1..Len(t) /\ (i - 1) + 1 = i
        BY <1>1, <1>2, <3>3
      <4> QED
        BY <1>2, <3>1, <4>1
    <3> QED
      BY <3>2, <3>3
  <2>2. b \in Queued
    <3>1. 1 \in DOMAIN m_packets
      BY <1>1, <1>2
    <3> QED
      BY <1>4, <3>1 DEF Queued
  <2>3. ASSUME NEW i \in DOMAIN t
        PROVE  t[i] \in Queued
    <3>1. i + 1 \in DOMAIN m_packets
      BY <1>1, <1>2
    <3> QED
      BY <1>2, <3>1 DEF Queued
  <2> QED
    BY <2>1, <2>2, <2>3
<1>12. b \notin {t[i] : i \in DOMAIN t}
  BY <1>2, <1>8
<1> QED
  BY <1>2, <1>4, <1>5, <1>9, <1>10, <1>11, <1>12 DEF t

-----------------------------------------------------------------------------
(* Steps that leave the packets alone. *)
LEMMA PacketsStay ==
  ASSUME PacketInv, UNCHANGED <<packet, m_packets, callback, next, expected, held>>,
         main # "crashed", MayEncode' => MayEncode, Had' = Had, InHand', Emptied'
  PROVE  PacketInv'
<1> USE DEF PacketInv
<1>1. Holding' = Holding /\ Adding' = Adding
  BY DEF Holding, Adding
<1>2. Flow'
  <2>1. PICK b \in PacketNo : NumberedFrom(b) /\ (MayEncode => expected = Nth(b, Had))
    BY DEF Flow
  <2>2. NumberedFrom(b)'
    BY <1>1, <2>1 DEF NumberedFrom
  <2> QED
    BY <2>1, <2>2 DEF Flow
<1>3. Room'
  BY <1>1 DEF Room
<1>4. Balanced'
  BY DEF Balanced, Queued
<1> QED
  BY <1>2, <1>3, <1>4

(* What a step brings is in the list, or in a callback, by the next one. *)
LEMMA CallbackLockPacketInv ==
  ASSUME IInv, PacketInv, CallbackLock
  PROVE  PacketInv'
<1> USE DEF PacketInv, CallbackLock
<1>0. /\ TypeOK /\ main # "crashed" /\ callback = NoPacket
      /\ m_packets \in Seq(PacketNo) /\ next \in PacketNo
      /\ Len(m_packets) \in Nat /\ Len(m_packets) < MaxQueue
  <2>1. main # "crashed"
    BY DEF IInv, NoCapturerAfterCrash
  <2> QED
    BY <2>1, LenProperties DEF IInv, TypeOK
<1>1. callback' = next /\ next # NoPacket /\ next' = Nth(next, 1)
  BY <1>0, NoPacketIsNone DEF Nth
<1>2. Adding = 0 /\ Adding' = 1 /\ Holding' = Holding /\ Holding \in 0..1
  BY <1>0, <1>1 DEF Adding, Holding
<1>3. Flow'
  <2>1. PICK b \in PacketNo : NumberedFrom(b) /\ (MayEncode => expected = Nth(b, Had))
    BY <1>0 DEF Flow
  <2>2. next = Nth(b, Holding + Len(m_packets))
    <3>1. Holding + Len(m_packets) + 0 = Holding + Len(m_packets)
      BY <1>0, <1>2
    <3> QED
      BY <1>2, <2>1, <3>1 DEF NumberedFrom
  <2>3. next' = Nth(b, Holding + Len(m_packets) + 1)
    <3>1. b \in Nat /\ Holding + Len(m_packets) \in Nat
      BY <1>0, <1>2, IdsAssumption DEF PacketNo
    <3> QED
      BY <1>1, <2>2, <3>1, NthNth
  <2>4. NumberedFrom(b)'
    BY <1>0, <1>1, <1>2, <2>1, <2>2, <2>3 DEF NumberedFrom
  <2>5. MayEncode' = MayEncode /\ Had' = Had
    BY DEF MayEncode, Had
  <2> QED
    BY <2>1, <2>4, <2>5 DEF Flow
<1>4. Room'
  BY <1>0, <1>2, MaxQueueAssumption DEF Room
<1>5. InHand'
  BY DEF InHand
<1>6. Balanced'
  BY <1>0, <1>1 DEF Balanced, Queued
<1>7. Emptied'
  BY DEF Emptied
<1> QED
  BY <1>3, <1>4, <1>5, <1>6, <1>7

LEMMA CallbackPushPacketInv ==
  ASSUME IInv, PacketInv, CallbackPush
  PROVE  PacketInv'
<1> USE DEF PacketInv, CallbackPush
<1>0. /\ TypeOK /\ callback \in PacketNo /\ callback # NoPacket
      /\ m_packets \in Seq(PacketNo) /\ Len(m_packets) \in Nat
      /\ main # "crashed"
  <2>1. main # "crashed"
    BY DEF IInv, NoCapturerAfterCrash
  <2> QED
    BY <2>1, LenProperties DEF IInv, TypeOK
<1>1. Adding = 1 /\ Adding' = 0 /\ Holding' = Holding /\ Holding \in 0..1
  BY <1>0 DEF Adding, Holding
<1>2. /\ Len(m_packets') = Len(m_packets) + 1
      /\ m_packets' \in Seq(PacketNo)
      /\ \A i \in 1..Len(m_packets) : m_packets'[i] = m_packets[i]
      /\ m_packets'[Len(m_packets) + 1] = callback
      /\ DOMAIN m_packets' = 1..(Len(m_packets) + 1)
      /\ DOMAIN m_packets = 1..Len(m_packets)
  BY <1>0, AppendProperties, LenProperties
<1>3. Flow'
  <2>1. PICK b \in PacketNo : NumberedFrom(b) /\ (MayEncode => expected = Nth(b, Had))
    BY <1>0 DEF Flow
  <2>2. callback = Nth(b, Holding + Len(m_packets))
    BY <1>0, <2>1 DEF NumberedFrom
  <2>3. \A i \in 1..Len(m_packets') : m_packets'[i] = Nth(b, Holding + i - 1)
    <3> SUFFICES ASSUME NEW i \in 1..Len(m_packets')
                 PROVE  m_packets'[i] = Nth(b, Holding + i - 1)
      OBVIOUS
    <3>1. CASE i \in 1..Len(m_packets)
      BY <1>2, <2>1, <3>1 DEF NumberedFrom
    <3>2. CASE i = Len(m_packets) + 1
      <4>1. Holding + i - 1 = Holding + Len(m_packets)
        BY <1>0, <1>1, <3>2
      <4> QED
        BY <1>2, <2>2, <3>2, <4>1
    <3> QED
      BY <1>0, <1>2, <3>1, <3>2
  <2>4. next' = Nth(b, Holding + Len(m_packets') + 0)
    <3>1. Holding + Len(m_packets') + 0 = Holding + Len(m_packets) + 1
      BY <1>0, <1>1, <1>2
    <3> QED
      BY <1>1, <2>1, <3>1 DEF NumberedFrom
  <2>5. NumberedFrom(b)'
    BY <1>1, <2>1, <2>3, <2>4 DEF NumberedFrom
  <2>6. MayEncode' = MayEncode /\ Had' = Had
    BY DEF MayEncode, Had, Woken
  <2> QED
    BY <2>1, <2>5, <2>6 DEF Flow
<1>4. Room'
  BY <1>0, <1>1, <1>2 DEF Room
<1>5. InHand'
  BY DEF InHand, Woken
<1>6. Balanced'
  <2>1. Queued' = Queued \cup {callback}
    <3>1. ASSUME NEW x \in Queued'
          PROVE  x \in Queued \cup {callback}
      <4>1. PICK i \in 1..(Len(m_packets) + 1) : x = m_packets'[i]
        BY <1>2, <3>1 DEF Queued
      <4> QED
        BY <1>0, <1>2, <4>1 DEF Queued
    <3>2. ASSUME NEW i \in DOMAIN m_packets
          PROVE  m_packets[i] \in Queued'
      <4>1. i \in DOMAIN m_packets'
        BY <1>0, <1>2
      <4> QED
        BY <1>2, <4>1 DEF Queued
    <3>3. callback \in Queued'
      <4>1. Len(m_packets) + 1 \in DOMAIN m_packets'
        BY <1>0, <1>2
      <4> QED
        BY <1>2, <4>1 DEF Queued
    <3> QED
      BY <3>1, <3>2, <3>3 DEF Queued
  <2>2. held = (Queued \cup {callback, packet}) \ {NoPacket}
    BY <1>0 DEF Balanced
  <2>3. held' = held /\ packet' = packet /\ callback' = NoPacket
    OBVIOUS
  <2> QED
    BY <2>1, <2>2, <2>3 DEF Balanced
<1>7. Emptied'
  BY <1>0 DEF Emptied, Woken
<1> QED
  BY <1>3, <1>4, <1>5, <1>6, <1>7

-----------------------------------------------------------------------------
(* The first packet of the list goes: to the worker, or with stop(). *)
LEMMA StopDrainPacketInv ==
  ASSUME IInv, PacketInv, StopDrain
  PROVE  PacketInv'
<1> USE DEF PacketInv, StopDrain
<1>0. /\ TypeOK /\ packet = NoPacket /\ worker \in {"none", "done"}
      /\ m_packets \in Seq(PacketNo) /\ Len(m_packets) \in Nat \ {0}
      /\ ~MayEncode /\ Adding \in 0..1 /\ Adding' = Adding
  <2>1. worker \in {"none", "done"}
    BY DEF Emptied
  <2>2. TypeOK
    BY DEF IInv
  <2>3. packet = NoPacket
    BY <2>1 DEF InHand
  <2>4. m_packets \in Seq(PacketNo) /\ Len(m_packets) \in Nat \ {0}
    BY <2>2, EmptySeq, LenProperties DEF TypeOK
  <2> QED
    BY <2>1, <2>2, <2>3, <2>4 DEF MayEncode, Starting, Adding
<1>1. PICK b \in PacketNo : NumberedFrom(b)
  BY DEF Flow
<1> DEFINE t == Tail(m_packets)
<1>2. /\ Head(m_packets) = b
      /\ Len(t) = Len(m_packets) - 1
      /\ \A i \in 1..Len(t) : t[i] = Nth(b, i)
      /\ b \notin {t[i] : i \in DOMAIN t}
      /\ Queued = {b} \cup {t[i] : i \in DOMAIN t}
      /\ callback # b
      /\ callback # NoPacket => callback = Nth(b, Len(m_packets))
      /\ next = Nth(b, Len(m_packets) + Adding)
  BY <1>0, <1>1, Leaves
<1>3. m_packets' = t
  OBVIOUS
<1> HIDE DEF t
<1>4. Flow'
  <2> DEFINE c == Nth(b, 1)
  <2>1. b \in Nat /\ c \in PacketNo
    <3>1. b \in Nat
      BY IdsAssumption DEF PacketNo
    <3> QED
      BY <3>1, NthType
  <2>2. \A i \in Nat : Nth(c, i) = Nth(b, 1 + i)
    BY <2>1, NthNth
  <2> HIDE DEF c
  <2>3. Holding' = 0 /\ packet' = NoPacket
    BY <1>0 DEF Holding
  <2>4. \A i \in 1..Len(t) : t[i] = Nth(c, 0 + i - 1)
    <3> SUFFICES ASSUME NEW i \in 1..Len(t)
                 PROVE  t[i] = Nth(c, 0 + i - 1)
      OBVIOUS
    <3>1. 0 + i - 1 \in Nat /\ 1 + (0 + i - 1) = i
      BY <1>0, <1>2
    <3> QED
      BY <1>2, <2>2, <3>1
  <2>5. callback # NoPacket => callback = Nth(c, 0 + Len(t))
    <3>1. 0 + Len(t) \in Nat /\ 1 + (0 + Len(t)) = Len(m_packets)
      BY <1>0, <1>2
    <3> QED
      BY <1>2, <2>2, <3>1
  <2>6. next = Nth(c, 0 + Len(t) + Adding)
    <3>1. /\ 0 + Len(t) + Adding \in Nat
          /\ 1 + (0 + Len(t) + Adding) = Len(m_packets) + Adding
      BY <1>0, <1>2
    <3> QED
      BY <1>2, <2>2, <3>1
  <2>7. NumberedFrom(c)'
    BY <1>0, <1>3, <2>3, <2>4, <2>5, <2>6 DEF NumberedFrom
  <2>8. ~MayEncode'
    BY <1>0 DEF MayEncode
  <2> QED
    BY <2>1, <2>7, <2>8 DEF Flow
<1>5. Room'
  <2>1. Len(m_packets) + Adding <= MaxQueue /\ Len(m_packets') = Len(m_packets) - 1
    BY <1>2, <1>3 DEF Room
  <2> QED
    BY <1>0, <2>1, MaxQueueAssumption DEF Room
<1>6. InHand'
  BY DEF InHand
<1>7. Balanced'
  <2>1. held = (Queued \cup {callback, packet}) \ {NoPacket}
    BY DEF Balanced
  <2>2. held' = held \ {b}
    BY <1>2
  <2>3. Queued' = {t[i] : i \in DOMAIN t}
    BY <1>3 DEF Queued
  <2> QED
    BY <1>0, <1>2, <2>1, <2>2, <2>3 DEF Balanced
<1>8. Emptied'
  BY <1>0 DEF Emptied
<1> QED
  BY <1>4, <1>5, <1>6, <1>7, <1>8

LEMMA WorkerTakePacketInv ==
  ASSUME IInv, PacketInv, WorkerTake, ~m_exit
  PROVE  PacketInv'
<1> USE DEF PacketInv, WorkerTake
<1>0. /\ TypeOK /\ packet = NoPacket /\ main # "crashed" /\ m_packets # <<>>
      /\ m_packets \in Seq(PacketNo) /\ Len(m_packets) \in Nat \ {0}
      /\ MayEncode /\ Adding \in 0..1 /\ Adding' = Adding /\ Had = 0 /\ Had' = 0
  <2>1. TypeOK /\ m_packets # <<>> /\ main # "crashed"
    BY DEF IInv, TakesWhatIsThere, WorkerHolds
  <2>2. packet = NoPacket
    BY DEF InHand
  <2>3. m_packets \in Seq(PacketNo) /\ Len(m_packets) \in Nat \ {0}
    BY <2>1, EmptySeq, LenProperties DEF TypeOK
  <2> QED
    BY <2>1, <2>2, <2>3 DEF MayEncode, Adding, Had
<1>1. PICK b \in PacketNo : NumberedFrom(b) /\ expected = Nth(b, 0)
  BY <1>0 DEF Flow
<1> DEFINE t == Tail(m_packets)
<1>2. /\ Head(m_packets) = b
      /\ Len(t) = Len(m_packets) - 1
      /\ \A i \in 1..Len(t) : t[i] = Nth(b, i)
      /\ Queued = {b} \cup {t[i] : i \in DOMAIN t}
      /\ callback # NoPacket => callback = Nth(b, Len(m_packets))
      /\ next = Nth(b, Len(m_packets) + Adding)
  BY <1>0, <1>1, Leaves
<1>3. m_packets' = t /\ packet' = b /\ b # NoPacket
  BY <1>2, NoPacketIsNone DEF TakenPacket
<1> HIDE DEF t
<1>4. Flow'
  <2>1. Holding' = 1
    BY <1>3 DEF Holding
  <2>2. \A i \in 1..Len(t) : t[i] = Nth(b, 1 + i - 1)
    <3> SUFFICES ASSUME NEW i \in 1..Len(t)
                 PROVE  t[i] = Nth(b, 1 + i - 1)
      OBVIOUS
    <3>1. 1 + i - 1 = i
      BY <1>0, <1>2
    <3> QED
      BY <1>2, <3>1
  <2>3. 1 + Len(t) = Len(m_packets)
    BY <1>0, <1>2
  <2>4. NumberedFrom(b)'
    BY <1>0, <1>2, <1>3, <2>1, <2>2, <2>3 DEF NumberedFrom
  <2> QED
    BY <1>0, <1>1, <2>4 DEF Flow
<1>5. Room'
  <2>1. Len(m_packets) + Adding <= MaxQueue /\ Len(m_packets') = Len(m_packets) - 1
    BY <1>2, <1>3 DEF Room
  <2> QED
    BY <1>0, <2>1, MaxQueueAssumption DEF Room
<1>6. InHand'
  BY <1>3 DEF InHand
<1>7. Balanced'
  <2>1. held = (Queued \cup {callback, packet}) \ {NoPacket}
    BY <1>0 DEF Balanced
  <2>2. Queued' = {t[i] : i \in DOMAIN t}
    BY <1>3 DEF Queued
  <2> QED
    BY <1>0, <1>2, <1>3, <2>1, <2>2 DEF Balanced
<1>8. Emptied'
  BY DEF Emptied
<1> QED
  BY <1>4, <1>5, <1>6, <1>7, <1>8

(* encode() has had the packet, which is the one it waited for. *)
LEMMA WorkerEncodePacketInv ==
  ASSUME IInv, PacketInv, WorkerEncode
  PROVE  PacketInv'
<1> USE DEF PacketInv, WorkerEncode
<1>0. /\ main # "crashed" /\ packet # NoPacket /\ MayEncode /\ MayEncode'
      /\ Had = 0 /\ Had' = 1 /\ Holding' = Holding /\ Adding' = Adding
  BY DEF IInv, WorkerHolds, InHand, MayEncode, Had, Holding, Adding
<1>1. PICK b \in PacketNo : NumberedFrom(b)
  BY <1>0 DEF Flow
<1>2. NumberedFrom(b)'
  BY <1>0, <1>1 DEF NumberedFrom
<1>3. expected' = Nth(b, 1)
  BY <1>0, <1>1 DEF NumberedFrom, Nth
<1>4. Flow'
  BY <1>0, <1>2, <1>3 DEF Flow
<1>5. Room' /\ InHand' /\ Balanced' /\ Emptied'
  BY <1>0 DEF Room, InHand, Balanced, Queued, Emptied
<1> QED
  BY <1>4, <1>5

(* The packet in the worker's hands is unlike the others. *)
LEMMA WorkerReleasePacketInv ==
  ASSUME IInv, PacketInv, WorkerRelease
  PROVE  PacketInv'
<1> USE DEF PacketInv, WorkerRelease
<1>0. /\ main # "crashed" /\ packet # NoPacket /\ MayEncode /\ MayEncode'
      /\ Had = 1 /\ Had' = 0 /\ Holding = 1 /\ Holding' = 0
      /\ Adding \in 0..1 /\ Adding' = Adding
      /\ m_packets \in Seq(PacketNo) /\ Len(m_packets) \in Nat
      /\ DOMAIN m_packets = 1..Len(m_packets)
  <2>1. m_packets \in Seq(PacketNo)
    BY DEF IInv, TypeOK
  <2> QED
    BY <2>1, LenProperties
       DEF IInv, WorkerHolds, InHand, MayEncode, Had, Holding, Adding
<1>1. PICK b \in PacketNo : NumberedFrom(b) /\ expected = Nth(b, 1)
  BY <1>0 DEF Flow
<1> DEFINE c == Nth(b, 1)
<1>2. b \in Nat /\ c \in PacketNo
  BY NthType, IdsAssumption DEF PacketNo
<1>3. \A i \in Nat : Nth(c, i) = Nth(b, 1 + i)
  BY <1>2, NthNth
<1>4. expected = c /\ packet = b
  BY <1>0, <1>1 DEF NumberedFrom
<1> HIDE DEF c
<1>5. \A i \in 1..Len(m_packets) : m_packets[i] = Nth(b, i)
  <2> SUFFICES ASSUME NEW i \in 1..Len(m_packets)
               PROVE  m_packets[i] = Nth(b, i)
    OBVIOUS
  <2>1. 1 + i - 1 = i
    BY <1>0
  <2> QED
    BY <1>0, <1>1, <2>1 DEF NumberedFrom
<1>6. callback # NoPacket => callback = Nth(b, 1 + Len(m_packets))
  BY <1>0, <1>1 DEF NumberedFrom
<1>7. NumberedFrom(c)'
  <2>1. \A i \in 1..Len(m_packets) : m_packets[i] = Nth(c, 0 + i - 1)
    <3> SUFFICES ASSUME NEW i \in 1..Len(m_packets)
                 PROVE  m_packets[i] = Nth(c, 0 + i - 1)
      OBVIOUS
    <3>1. 0 + i - 1 \in Nat /\ 1 + (0 + i - 1) = i
      BY <1>0
    <3> QED
      BY <1>3, <1>5, <3>1
  <2>2. callback # NoPacket => callback = Nth(c, 0 + Len(m_packets))
    <3>1. 0 + Len(m_packets) = Len(m_packets)
      BY <1>0
    <3> QED
      BY <1>0, <1>3, <1>6, <3>1
  <2>3. next = Nth(c, 0 + Len(m_packets) + Adding)
    <3>1. /\ 0 + Len(m_packets) + Adding \in Nat
          /\ 1 + (0 + Len(m_packets) + Adding) = 1 + Len(m_packets) + Adding
      BY <1>0
    <3> QED
      BY <1>0, <1>1, <1>3, <3>1 DEF NumberedFrom
  <2> QED
    BY <1>0, <2>1, <2>2, <2>3 DEF NumberedFrom
<1>8. Flow'
  <2>1. expected' = Nth(c, 0)
    BY <1>2, <1>4, NthZero
  <2> QED
    BY <1>0, <1>2, <1>7, <2>1 DEF Flow
<1>9. \A i \in 1..(1 + Len(m_packets)) : i <= MaxQueue + 1 => Nth(b, i) # b
  <2> SUFFICES ASSUME NEW i \in 1..(1 + Len(m_packets)), i <= MaxQueue + 1
               PROVE  Nth(b, i) # b
    OBVIOUS
  <2>1. i \in 1..(Ids - 1)
    BY <1>0, MaxQueueAssumption, IdsAssumption
  <2> QED
    BY <2>1, NthMoves
<1>10. b \notin Queued
  <2> SUFFICES ASSUME NEW i \in 1..Len(m_packets)
               PROVE  m_packets[i] # b
    BY <1>0 DEF Queued
  <2>1. i \in 1..(1 + Len(m_packets)) /\ i <= MaxQueue + 1
    BY <1>0, MaxQueueAssumption DEF Room
  <2> QED
    BY <1>5, <1>9, <2>1
<1>11. callback # b
  <2> SUFFICES ASSUME callback # NoPacket
               PROVE  callback # b
    BY NoPacketIsNone
  <2>1. /\ 1 + Len(m_packets) \in 1..(1 + Len(m_packets))
        /\ 1 + Len(m_packets) <= MaxQueue + 1
    BY <1>0, MaxQueueAssumption DEF Room, Adding
  <2> QED
    BY <1>6, <1>9, <2>1
<1>12. Balanced'
  <2>1. held = (Queued \cup {callback, packet}) \ {NoPacket}
    BY <1>0 DEF Balanced
  <2>2. held' = held \ {b} /\ Queued' = Queued
    BY <1>4 DEF Released, Queued
  <2> QED
    BY <1>4, <1>10, <1>11, <2>1, <2>2 DEF Balanced
<1>13. Room' /\ InHand' /\ Emptied'
  BY <1>0 DEF Room, InHand, Emptied
<1> QED
  BY <1>8, <1>12, <1>13

-----------------------------------------------------------------------------
(* Every step keeps the invariant. *)
LEMMA NextPacketInv ==
  ASSUME IInv, PacketInv, [Next]_vars
  PROVE  PacketInv'
<1> USE DEF PacketInv, MayEncode, Had, InHand, Emptied, Starting
<1>1. CASE StartBuild \/ StartCreate \/ StartCapture
  <2>1. InHand' /\ Emptied'
    BY <1>1 DEF StartBuild, StartCreate, StartCapture
  <2> QED
    BY <1>1, <2>1, PacketsStay DEF StartBuild, StartCreate, StartCapture
<1>2. CASE StartSpawn
  <2>1. worker = "none"
    BY <1>2 DEF StartSpawn, IInv, Started
  <2> QED
    BY <1>2, <2>1, PacketsStay DEF StartSpawn
<1>3. CASE MainPoll \/ StopExit
  BY <1>3, PacketsStay DEF MainPoll, StopExit
<1>4. CASE StopSignal
  BY <1>4, PacketsStay DEF StopSignal, Woken
<1>5. CASE StopWait
  BY <1>5, PacketsStay DEF StopWait, Joined
<1>6. CASE StopDrain
  BY <1>6, StopDrainPacketInv
<1>7. CASE StopDrainRaces
  <2>1. packet = NoPacket
    BY <1>7 DEF StopDrainRaces
  <2>2. m_packets \in Seq(PacketNo) /\ Len(m_packets) \in Nat
    BY LenProperties DEF IInv, TypeOK
  <2>3. Len(m_packets) + Adding <= MaxQueue /\ Adding \in 0..1
    BY DEF Room, Adding
  <2>4. m_packets' = m_packets /\ Adding' = 0
    BY <1>7 DEF StopDrainRaces, Adding
  <2>5. Room'
    BY <2>2, <2>3, <2>4, MaxQueueAssumption DEF Room
  <2> QED
    BY <1>7, <2>1, <2>5 DEF StopDrainRaces, Flow, Balanced
<1>8. CASE StopDrained
  BY <1>8, PacketsStay DEF StopDrained
<1>9. CASE StopDestroy
  BY <1>9, PacketsStay DEF StopDestroy
<1>10. CASE StopTear
  BY <1>10, PacketsStay DEF StopTear
<1>11. CASE WorkerTop \/ WorkerLock
  <2>1. main # "crashed"
    BY <1>11 DEF WorkerTop, WorkerLock, IInv, WorkerHolds
  <2> QED
    BY <1>11, <2>1, PacketsStay DEF WorkerTop, WorkerLock
<1>12. CASE WorkerTest \/ WorkerSleep \/ SpuriousWakeup
  <2>1. main # "crashed"
    BY <1>12 DEF WorkerTest, WorkerSleep, SpuriousWakeup, IInv, WorkerHolds
  <2> QED
    BY <1>12, <2>1, PacketsStay DEF WorkerTest, WorkerSleep, SpuriousWakeup
<1>13. CASE WorkerTake /\ m_exit
  <2>1. main # "crashed"
    BY <1>13 DEF WorkerTake, IInv, WorkerHolds
  <2> QED
    BY <1>13, <2>1, PacketsStay DEF WorkerTake
<1>14. CASE WorkerTake /\ ~m_exit
  BY <1>14, WorkerTakePacketInv
<1>15. CASE WorkerEncode
  BY <1>15, WorkerEncodePacketInv
<1>16. CASE WorkerRelease
  BY <1>16, WorkerReleasePacketInv
<1>17. CASE CallbackLock
  BY <1>17, CallbackLockPacketInv
<1>18. CASE CallbackPush
  BY <1>18, CallbackPushPacketInv
<1>19. CASE Interrupt
  BY <1>19, PacketsStay DEF Interrupt
<1>20. CASE UNCHANGED vars
  BY <1>20 DEF vars, Flow, NumberedFrom, Holding, Adding, Room, Balanced, Queued
<1> QED
  BY <1>1, <1>2, <1>3, <1>4, <1>5, <1>6, <1>7, <1>8, <1>9, <1>10, <1>11, <1>12,
     <1>13, <1>14, <1>15, <1>16, <1>17, <1>18, <1>19, <1>20
     DEF Next, Main, Worker, Callback

(* The packets are numbered as said in every reachable state. *)
THEOREM PacketInvInvariant == Spec => []PacketInv
  BY InitPacketInv, NextPacketInv, IInvInvariant, PTL DEF Spec

(* svc() gives encode() every packet of the camera once and in order,       *)
(* whatever wakes it and whatever stop() does to the list.                   *)
THEOREM InOrderInvariant == Spec => []InOrder
<1>1. IInv /\ PacketInv => InOrder
  <2> SUFFICES ASSUME IInv, PacketInv, worker = "encode"
               PROVE  packet = expected
    BY DEF InOrder
  <2>1. main # "crashed" /\ packet # NoPacket /\ MayEncode /\ Had = 0
    BY DEF IInv, WorkerHolds, PacketInv, InHand, MayEncode, Had
  <2>2. PICK b \in PacketNo : NumberedFrom(b) /\ expected = Nth(b, 0)
    BY <2>1 DEF PacketInv, Flow
  <2> QED
    BY <2>1, <2>2, NthZero DEF NumberedFrom
<1> QED
  BY <1>1, IInvInvariant, PacketInvInvariant, PTL

(* AddRef and Release balance: exactly what is in the list, in a callback    *)
(* and in the worker's hands is referenced, and stop() leaves nothing behind *)
(* unless the camera calls back while it empties the list, or later.         *)
THEOREM RefsBalancedInvariant == Spec => []RefsBalanced
<1>1. PacketInv => RefsBalanced
  <2> SUFFICES ASSUME PacketInv
               PROVE  RefsBalanced
    OBVIOUS
  <2>1. main = "stopped" /\ ~late => held = {}
    <3> SUFFICES ASSUME main = "stopped", ~late
                 PROVE  held = {}
      OBVIOUS
    <3>1. m_packets = <<>> /\ callback = NoPacket /\ packet = NoPacket
      BY DEF PacketInv, Emptied, InHand
    <3> QED
      BY <3>1 DEF PacketInv, Balanced, Queued
  <2> QED
    BY <2>1 DEF RefsBalanced, PacketInv, Balanced
<1> QED
  BY <1>1, PacketInvInvariant, PTL
-----------------------------------------------------------------------------
(* A worker that sleeps, or is about to, leaves no packet waiting, and does  *)
(* not keep the next callback from adding one; it is main's signal that can  *)
(* come before the worker sleeps, never a callback's.                        *)
NothingWaits ==
  /\ worker \in {"block", "asleep"} => m_packets = <<>>
  /\ worker = "asleep" /\ callback = NoPacket => m_mutex = "free"
  /\ worker = "asleep" => main \in {"poll", "exit", "signal", "wait"}

(* No wakeup by XCapturerOutput() is lost: svc() never sleeps while there is *)
(* a packet in the list, whichever of the two gets the mutex first, and      *)
(* although stop() signals without it.                                       *)
THEOREM NoPacketWaits == Spec => []NothingWaits
<1> DEFINE Waiting == worker \in {"block", "asleep"} => m_packets = <<>>
<1>1. Init => Waiting
  BY DEF Init
<1>2. IInv /\ Waiting /\ [Next]_vars => Waiting'
  <2> SUFFICES ASSUME IInv, Waiting, [Next]_vars PROVE Waiting'
    OBVIOUS
  <2> USE DEF IInv, TypeOK, WorkerHolds
  <2>1. CASE WorkerTest
    BY <2>1 DEF WorkerTest, Blocks
  <2>2. CASE CallbackPush
    BY <2>2 DEF CallbackPush, Woken
  <2>3. CASE StopDrain \/ WorkerTake
    BY <2>3 DEF StopDrain, WorkerTake
  <2>4. CASE StopSignal \/ WorkerSleep
    BY <2>4 DEF StopSignal, Woken, WorkerSleep
  <2>5. CASE \/ StartSpawn \/ StopDrainRaces
             \/ WorkerTop \/ WorkerLock \/ WorkerEncode \/ WorkerRelease
             \/ SpuriousWakeup
    BY <2>5 DEF StartSpawn, StopDrainRaces, WorkerTop, WorkerLock, WorkerEncode,
                WorkerRelease, SpuriousWakeup
  <2>6. CASE \/ StartBuild \/ StartCreate \/ StartCapture \/ MainPoll \/ StopExit
             \/ StopWait \/ StopDrained \/ StopDestroy \/ StopTear
             \/ CallbackLock \/ Interrupt \/ UNCHANGED vars
    BY <2>6 DEF StartBuild, StartCreate, StartCapture, MainPoll, StopExit,
                StopWait, StopDrained, StopDestroy, StopTear, CallbackLock,
                Interrupt, vars
  <2> QED
    BY <2>1, <2>2, <2>3, <2>4, <2>5, <2>6 DEF Next, Main, Worker, Callback
<1>3. IInv /\ Waiting => NothingWaits
  BY DEF IInv, TypeOK, WorkerHolds, NothingWaits
<1> QED
  BY <1>1, <1>2, <1>3, IInvInvariant, PTL DEF Spec
-----------------------------------------------------------------------------
(* The thread of svc(), and what its object has told main: that it was       *)
(* spawned, which main makes nothing of before it leaves its loop, and that  *)
(* it was joined.                                                            *)
AfterJoin == {"drain", "destroy", "tear", "stopped", "crashed"}

Service ==
  IF worker = "none" \/ main \in AfterJoin THEN "none"
  ELSE IF worker \in {"done", "never"} THEN worker ELSE "running"

User ==
  IF worker # "none" /\ main \in {"exit", "signal", "wait"} THEN "spawned" ELSE "idle"

Join == INSTANCE ThreadJoin WITH service <- Service, user <- User

(* The camera starts and joins its thread as ThreadJoin, which is what       *)
(* ThreadBase implements, says: stop() gets past wait() only when svc() has  *)
(* returned, or where start() gave up before it asked for a thread; where    *)
(* the thread could not be created, it never does.                           *)
THEOREM UsesJoin == Spec => Join!Spec
<1> USE DEF Service, User, AfterJoin
<1>1. Init => Join!Init
  BY DEF Init, Join!Init
<1>2. IInv /\ [Next]_vars => [Join!Next]_(Join!vars)
  <2> SUFFICES ASSUME IInv, [Next]_vars
               PROVE  Join!Next \/ UNCHANGED <<Service, User>>
    BY DEF Join!vars
  <2> USE DEF IInv, TypeOK, WorkerHolds, Started, Starting, TakesWhatIsThere, Stopping
  <2>1. CASE StartSpawn
    <3>1. CASE worker' = "top"
      BY <2>1, <3>1 DEF StartSpawn, Join!Begin, Join!Next
    <3>2. CASE worker' = "never"
      BY <2>1, <3>2 DEF StartSpawn, Join!NotBegun, Join!Next
    <3> QED
      BY <2>1, <3>1, <3>2 DEF StartSpawn
  <2>2. CASE MainPoll
    <3>1. worker # "none" => Join!Spawned
      BY <2>2 DEF MainPoll, Join!Spawned
    <3>2. worker = "none" => UNCHANGED <<Service, User>>
      BY <2>2 DEF MainPoll
    <3> QED
      BY <3>1, <3>2 DEF Join!Next
  <2>3. CASE WorkerTop
    <3>1. m_exit => Join!Finish
      BY <2>3 DEF WorkerTop, Join!Finish
    <3>2. ~m_exit => UNCHANGED <<Service, User>>
      BY <2>3 DEF WorkerTop
    <3> QED
      BY <3>1, <3>2 DEF Join!Next
  <2>4. CASE StopWait
    <3>1. worker = "done" => Join!Join
      BY <2>4 DEF StopWait, Join!Join
    <3>2. worker = "none" => UNCHANGED <<Service, User>>
      BY <2>4 DEF StopWait
    <3> QED
      BY <2>4, <3>1, <3>2 DEF Join!Next, StopWait, Joined
  <2>5. CASE StartBuild \/ StartCreate \/ StartCapture
    BY <2>5 DEF StartBuild, StartCreate, StartCapture
  <2>6. CASE StopExit \/ StopSignal \/ StopDrain \/ StopDrainRaces
    BY <2>6 DEF StopExit, StopSignal, Woken, StopDrain, StopDrainRaces
  <2>7. CASE StopDrained \/ StopDestroy \/ StopTear
    BY <2>7 DEF StopDrained, StopDestroy, StopTear
  <2>8. CASE \/ WorkerLock \/ WorkerTest \/ WorkerSleep \/ WorkerTake
             \/ WorkerEncode \/ WorkerRelease \/ SpuriousWakeup
    BY <2>8 DEF WorkerLock, WorkerTest, WorkerSleep, WorkerTake, WorkerEncode,
                WorkerRelease, SpuriousWakeup
  <2>9. CASE CallbackLock \/ CallbackPush \/ Interrupt \/ UNCHANGED vars
    BY <2>9 DEF CallbackLock, CallbackPush, Woken, Interrupt, vars
  <2> QED
    BY <2>1, <2>2, <2>3, <2>4, <2>5, <2>6, <2>7, <2>8, <2>9
       DEF Next, Main, Worker, Callback
<1> QED
  BY <1>1, <1>2, IInvInvariant, PTL DEF Spec, Join!Spec
=============================================================================
