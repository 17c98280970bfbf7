----------------------------- MODULE ThreadBase -----------------------------
(***************************************************************************)
(* The thread object every active class derives from (src/ThreadBase.cpp). *)
(* Its owner calls spawn() and wait() and finally destroys it; the thread  *)
(* runs svc() and announces its end through a flag, a mutex and a          *)
(* condition variable.  pthread_create may fail (it then returns a         *)
(* positive error number), and pthread_cond_wait may return without having *)
(* been signalled.                                                         *)
(*                                                                         *)
(* A definition whose name ends in _Bug is a mutated form of the one after *)
(* it: a plausible mistake that the properties have to notice.             *)
(***************************************************************************)
EXTENDS Integers

CONSTANTS
  Results,    \* what pthread_create may return
  MaxSpawns   \* bound on how often the object is used

EAGAIN == 11

ASSUME ResultsAssumption == Results \subseteq {0, EAGAIN} /\ 0 \in Results
ASSUME MaxSpawnsAssumption == MaxSpawns \in Nat

VARIABLES
  owner,        \* where the owner is
  thread,       \* where the spawned thread is
  m_mutex_b,    \* who holds the mutex
  m_running_b,
  asleep,       \* the owner is blocked in pthread_cond_wait
  spawns

vars == <<owner, thread, m_mutex_b, m_running_b, asleep, spawns>>

Init ==
  /\ owner = "idle"
  /\ thread = "none"
  /\ m_mutex_b = "free"
  /\ m_running_b = FALSE
  /\ asleep = FALSE
  /\ spawns = 0

Lock(who)   == m_mutex_b = "free" /\ m_mutex_b' = who
Unlock(who) == m_mutex_b = who /\ m_mutex_b' = "free"

-----------------------------------------------------------------------------
(* spawn() *)

(* The mutex keeps the thread from clearing m_running_b before it is set. *)
SpawnLock_Bug ==
  /\ owner = "idle" /\ spawns < MaxSpawns
  /\ owner' = "create"
  /\ spawns' = spawns + 1
  /\ UNCHANGED <<thread, m_mutex_b, m_running_b, asleep>>

SpawnLock ==
  /\ owner = "idle" /\ spawns < MaxSpawns
  /\ Lock("owner")
  /\ owner' = "create"
  /\ spawns' = spawns + 1
  /\ UNCHANGED <<thread, m_running_b, asleep>>

(* The code takes only -1 for a failure, which pthread_create never returns: *)
(* spawn() goes on as if the thread existed.                                 *)
CreateFailed(ret) == ret = -1

SpawnCreate ==
  /\ owner = "create"
  /\ \E ret \in Results :
       /\ thread' = IF ret = 0 THEN "svc" ELSE thread
       /\ owner' = IF CreateFailed(ret) THEN "idle" ELSE "created"
       /\ m_mutex_b' = IF CreateFailed(ret) THEN "free" ELSE m_mutex_b
  /\ UNCHANGED <<m_running_b, asleep, spawns>>

SpawnReturn ==
  /\ owner = "created"
  /\ m_running_b' = TRUE
  /\ m_mutex_b' = "free"
  /\ owner' = "spawned"
  /\ UNCHANGED <<thread, asleep, spawns>>

-----------------------------------------------------------------------------
(* wait() *)

WaitLock ==
  /\ owner = "spawned"
  /\ Lock("owner")
  /\ owner' = "test"
  /\ UNCHANGED <<thread, m_running_b, asleep, spawns>>

(* pthread_cond_wait() releases the mutex and blocks in one step. *)
WaitSleep ==
  /\ owner = "test" /\ m_running_b
  /\ Unlock("owner")
  /\ asleep' = TRUE
  /\ owner' = "sleep"
  /\ UNCHANGED <<thread, m_running_b, spawns>>

SpuriousWakeup ==
  /\ asleep
  /\ asleep' = FALSE
  /\ UNCHANGED <<owner, thread, m_mutex_b, m_running_b, spawns>>

(* It returns with the mutex held, and the while loop tests again. *)
WaitAgain_Bug ==
  /\ owner = "sleep" /\ ~asleep
  /\ m_mutex_b = "free"
  /\ owner' = "joined"
  /\ UNCHANGED <<thread, m_mutex_b, m_running_b, asleep, spawns>>

WaitAgain ==
  /\ owner = "sleep" /\ ~asleep
  /\ Lock("owner")
  /\ owner' = "test"
  /\ UNCHANGED <<thread, m_running_b, asleep, spawns>>

WaitReturn ==
  /\ owner = "test" /\ ~m_running_b
  /\ Unlock("owner")
  /\ owner' = "joined"
  /\ UNCHANGED <<thread, m_running_b, asleep, spawns>>

(* The owner uses the object again, or destroys it. *)
Reuse ==
  /\ owner = "joined"
  /\ owner' = "idle"
  /\ thread' = IF thread = "gone" THEN "none" ELSE thread
  /\ UNCHANGED <<m_mutex_b, m_running_b, asleep, spawns>>

Destroy ==
  /\ owner = "joined"
  /\ owner' = "destroyed"
  /\ UNCHANGED <<thread, m_mutex_b, m_running_b, asleep, spawns>>

-----------------------------------------------------------------------------
(* svcRun() *)

SvcReturns ==
  /\ thread = "svc"
  /\ thread' = "returned"
  /\ UNCHANGED <<owner, m_mutex_b, m_running_b, asleep, spawns>>

DoneLock ==
  /\ thread = "returned"
  /\ Lock("thread")
  /\ thread' = "clear"
  /\ UNCHANGED <<owner, m_running_b, asleep, spawns>>

DoneClear ==
  /\ thread = "clear"
  /\ m_running_b' = FALSE
  /\ thread' = "signal"
  /\ UNCHANGED <<owner, m_mutex_b, asleep, spawns>>

DoneSignal_Bug ==
  /\ thread = "signal"
  /\ thread' = "unlock"
  /\ UNCHANGED <<owner, m_mutex_b, m_running_b, asleep, spawns>>

DoneSignal ==
  /\ thread = "signal"
  /\ asleep' = FALSE
  /\ thread' = "unlock"
  /\ UNCHANGED <<owner, m_mutex_b, m_running_b, spawns>>

DoneUnlock ==
  /\ thread = "unlock"
  /\ Unlock("thread")
  /\ thread' = "gone"
  /\ UNCHANGED <<owner, m_running_b, asleep, spawns>>

-----------------------------------------------------------------------------
Owner == \/ SpawnLock \/ SpawnCreate \/ SpawnReturn
         \/ WaitLock \/ WaitSleep \/ WaitAgain \/ WaitReturn
Thread == SvcReturns \/ DoneLock \/ DoneClear \/ DoneSignal \/ DoneUnlock

Next == Owner \/ Reuse \/ Destroy \/ SpuriousWakeup \/ Thread

Spec == Init /\ [][Next]_vars

(* Both threads are scheduled, and svc() returns some time (its loop ends *)
(* when m_exit is set).  A thread that waits for the mutex gets it even if *)
(* the owner, woken for nothing, takes it again and again.                *)
FairSpec == Spec /\ WF_vars(Owner) /\ WF_vars(Thread) /\ SF_vars(DoneLock)

-----------------------------------------------------------------------------
(* Type invariant, with the mutex: whoever is inside a critical section holds *)
(* it.                                                                        *)
TypeOK ==
  /\ owner \in {"idle", "create", "created", "spawned", "test", "sleep",
                "joined", "destroyed"}
  /\ thread \in {"none", "svc", "returned", "clear", "signal", "unlock", "gone"}
  /\ m_mutex_b \in {"free", "owner", "thread"}
  /\ m_running_b \in BOOLEAN
  /\ asleep \in BOOLEAN
  /\ spawns \in 0..MaxSpawns
  /\ owner \in {"create", "created", "test"} <=> m_mutex_b = "owner"
  /\ thread \in {"clear", "signal", "unlock"} <=> m_mutex_b = "thread"

(* When wait() has returned, the thread will never touch the object again *)
(* (it may be destroyed) and the flag is clear, as the assertion in the   *)
(* destructor demands.                                                    *)
JoinedMeansGone ==
  owner \in {"joined", "destroyed"} =>
    thread \in {"none", "gone"} /\ ~m_running_b

(* wait() returns, no wakeup is lost whichever side comes first, unless the  *)
(* thread was never created: the failure spawn() overlooks is the only thing *)
(* that can make wait() hang.                                                *)
WaitReturns ==
  (owner = "spawned") ~> (owner = "joined" \/ thread = "none")
=============================================================================
