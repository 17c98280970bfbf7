-------------------------- MODULE ThreadBaseProofs --------------------------
(***************************************************************************)
(* Type correctness of ThreadBase, that wait() returns only when the       *)
(* thread is gone, that no wakeup is lost between the two, and that        *)
(* spawn() and wait() are those of ThreadJoin, for every behaviour of      *)
(* pthread_create and every number of uses.                                *)
(***************************************************************************)
EXTENDS MCThreadBase, TLAPS

(* What the flag says about the thread, wherever the owner is.  It is true  *)
(* from the end of spawn() until the thread clears it; a thread that has    *)
(* not been created leaves it true for ever.                                *)
FlagInv ==
  /\ owner \in {"idle", "create"} => thread = "none" /\ ~m_running_b
  /\ owner \in {"joined", "destroyed"} => thread = "gone" /\ ~m_running_b
  /\ owner = "created" => thread \in {"none", "svc", "returned"}
  /\ thread \in {"svc", "returned", "clear"} =>
       m_running_b \/ owner = "created"
  /\ owner \in {"spawned", "test", "sleep"} /\ ~m_running_b =>
       thread \in {"signal", "unlock", "gone"}

IInv == TypeOK /\ FlagInv

(* The inductive invariant holds in every reachable state. *)
THEOREM IInvInvariant == Spec => []IInv
<1>1. Init => IInv
  <2> SUFFICES ASSUME Init PROVE IInv
    OBVIOUS
  <2>1. spawns \in 0..MaxSpawns
    BY MaxSpawnsAssumption DEF Init
  <2> QED
    BY <2>1, Zenon DEF Init, IInv, TypeOK, FlagInv
<1>2. IInv /\ [Next]_vars => IInv'
  <2> SUFFICES ASSUME IInv, [Next]_vars PROVE IInv'
    OBVIOUS
  <2> USE DEF IInv, TypeOK, FlagInv
  <2>1. CASE SpawnLock
    BY <2>1, MaxSpawnsAssumption DEF SpawnLock, Lock
  <2>2. CASE SpawnCreate
    BY <2>2, ResultsAssumption DEF SpawnCreate, CreateFailed, EAGAIN
  <2>3. CASE SpawnReturn
    BY <2>3 DEF SpawnReturn
  <2>4. CASE WaitLock
    BY <2>4 DEF WaitLock, Lock
  <2>5. CASE WaitSleep
    BY <2>5 DEF WaitSleep, Unlock
  <2>6. CASE WaitAgain
    BY <2>6 DEF WaitAgain, Lock
  <2>7. CASE WaitReturn
    BY <2>7 DEF WaitReturn, Unlock
  <2>8. CASE Reuse
    BY <2>8 DEF Reuse
  <2>9. CASE Destroy
    BY <2>9 DEF Destroy
  <2>10. CASE SpuriousWakeup
    BY <2>10 DEF SpuriousWakeup
  <2>11. CASE SvcReturns
    BY <2>11 DEF SvcReturns
  <2>12. CASE DoneLock
    BY <2>12 DEF DoneLock, Lock
  <2>13. CASE DoneClear
    BY <2>13 DEF DoneClear
  <2>14. CASE DoneSignal
    BY <2>14 DEF DoneSignal
  <2>15. CASE DoneUnlock
    BY <2>15 DEF DoneUnlock, Unlock
  <2>16. CASE UNCHANGED vars
    BY <2>16 DEF vars
  <2> QED
    BY <2>1, <2>2, <2>3, <2>4, <2>5, <2>6, <2>7, <2>8, <2>9, <2>10, <2>11,
       <2>12, <2>13, <2>14, <2>15, <2>16 DEF Next, Owner, Thread
<1> QED
  BY <1>1, <1>2, PTL DEF Spec

(* Every reachable state is well typed, and whoever is inside a critical *)
(* section holds the mutex.                                               *)
THEOREM TypeCorrect == Spec => []TypeOK
<1>1. IInv => TypeOK
  BY DEF IInv
<1> QED
  BY <1>1, IInvInvariant, PTL

(* When wait() has returned the thread never touches the object again, and *)
(* the assertion of the destructor holds.                                  *)
THEOREM JoinedMeansGoneInvariant == Spec => []JoinedMeansGone
<1>1. IInv => JoinedMeansGone
  BY DEF IInv, FlagInv, JoinedMeansGone
<1> QED
  BY <1>1, IInvInvariant, PTL

(* Seen through spawn() and wait() alone, every step starts the service, lets *)
(* it end, returns from one of the two calls, or does not show: the owner     *)
(* need not know of the mutex, the flag and the wakeups.                      *)
THEOREM StepsImplementJoin == Spec => Join!Spec
<1> USE DEF Service, User
<1>1. Init => Join!Init
  BY DEF Init, Join!Init
<1>2. IInv /\ [Next]_vars => [Join!Next]_(Join!vars)
  <2> SUFFICES ASSUME IInv, [Next]_vars
               PROVE  Join!Next \/ UNCHANGED <<Service, User>>
    BY DEF Join!vars
  <2> USE DEF IInv, TypeOK, FlagInv
  <2>1. CASE SpawnCreate
    <3>1. owner = "create" /\ thread = "none" /\ owner' = "created"
      BY <2>1, ResultsAssumption DEF SpawnCreate, CreateFailed, EAGAIN
    <3>2. CASE thread' = "svc"
      <4>1. Join!Begin
        BY <3>1, <3>2 DEF Join!Begin
      <4> QED
        BY <4>1 DEF Join!Next
    <3>3. CASE thread' = "none"
      <4>1. Join!NotBegun
        BY <3>1, <3>3 DEF Join!NotBegun
      <4> QED
        BY <4>1 DEF Join!Next
    <3> QED
      BY <2>1, <3>1, <3>2, <3>3 DEF SpawnCreate
  <2>2. CASE SpawnReturn
    <3>1. Join!Spawned
      BY <2>2 DEF SpawnReturn, Join!Spawned
    <3> QED
      BY <3>1 DEF Join!Next
  <2>3. CASE WaitReturn
    <3>1. Service = "done" /\ User = "spawned" /\ owner' = "joined"
      BY <2>3 DEF WaitReturn, Unlock
    <3>2. Join!Join
      BY <2>3, <3>1 DEF WaitReturn, Join!Join
    <3> QED
      BY <3>2 DEF Join!Next
  <2>4. CASE SvcReturns
    <3>1. Join!Finish
      BY <2>4 DEF SvcReturns, Join!Finish
    <3> QED
      BY <3>1 DEF Join!Next
  <2>5. CASE \/ SpawnLock \/ WaitLock \/ WaitSleep \/ WaitAgain
             \/ Reuse \/ Destroy \/ SpuriousWakeup
    BY <2>5 DEF SpawnLock, WaitLock, WaitSleep, WaitAgain, Reuse, Destroy,
                SpuriousWakeup, Lock, Unlock
  <2>6. CASE DoneLock \/ DoneClear \/ DoneSignal \/ DoneUnlock \/ UNCHANGED vars
    BY <2>6 DEF DoneLock, DoneClear, DoneSignal, DoneUnlock, vars, Lock, Unlock
  <2> QED
    BY <2>1, <2>2, <2>3, <2>4, <2>5, <2>6 DEF Next, Owner, Thread
<1> QED
  BY <1>1, <1>2, IInvInvariant, PTL DEF Spec, Join!Spec
-----------------------------------------------------------------------------
(* The flag is not true any more once the thread has cleared it, so that an  *)
(* owner who goes to sleep on it does so before the signal.                  *)
SleepInv ==
  /\ asleep => owner = "sleep"
  /\ m_running_b => thread \notin {"signal", "unlock", "gone"}
  /\ asleep => thread \notin {"unlock", "gone"}

(* A sleeping owner has the signal still to come, and does not keep the      *)
(* thread from sending it; or there never was a thread.                      *)
SignalComes ==
  asleep =>
    /\ thread \in {"none", "svc", "returned", "clear", "signal"}
    /\ thread = "returned" => m_mutex_b = "free"

(* No wakeup is lost between wait() and the end of svcRun(), whichever of    *)
(* the two gets the mutex first and however often wait() wakes for nothing:  *)
(* the thread is never past its pthread_cond_signal() while the owner        *)
(* sleeps.                                                                   *)
THEOREM NoLostWakeup == Spec => []SignalComes
<1>1. Init => SleepInv
  BY DEF Init, SleepInv
<1>2. IInv /\ SleepInv /\ [Next]_vars => SleepInv'
  <2> SUFFICES ASSUME IInv, SleepInv, [Next]_vars PROVE SleepInv'
    OBVIOUS
  <2> USE DEF IInv, TypeOK, FlagInv, SleepInv
  <2>1. CASE WaitSleep
    BY <2>1 DEF WaitSleep, Unlock
  <2>2. CASE SpawnCreate
    BY <2>2 DEF SpawnCreate, CreateFailed
  <2>3. CASE SpawnReturn
    BY <2>3 DEF SpawnReturn
  <2>4. CASE DoneClear
    BY <2>4 DEF DoneClear
  <2>5. CASE DoneSignal
    BY <2>5 DEF DoneSignal
  <2>6. CASE SpawnLock \/ WaitLock \/ WaitAgain \/ WaitReturn \/ Destroy
    BY <2>6 DEF SpawnLock, WaitLock, WaitAgain, WaitReturn, Destroy
  <2>7. CASE Reuse
    BY <2>7 DEF Reuse
  <2>8. CASE SpuriousWakeup \/ SvcReturns \/ DoneLock \/ UNCHANGED vars
    BY <2>8 DEF SpuriousWakeup, SvcReturns, DoneLock, vars
  <2>9. CASE DoneUnlock
    BY <2>9 DEF DoneUnlock
  <2> QED
    BY <2>1, <2>2, <2>3, <2>4, <2>5, <2>6, <2>7, <2>8, <2>9
       DEF Next, Owner, Thread
<1>3. IInv /\ SleepInv => SignalComes
  BY DEF IInv, TypeOK, SleepInv, SignalComes
<1> QED
  BY <1>1, <1>2, <1>3, IInvInvariant, PTL DEF Spec
=============================================================================
