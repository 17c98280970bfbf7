---------------------------- MODULE InputContext ----------------------------
(***************************************************************************)
(* The byte queue in front of the parser of ffmpeg (src/InputContext.cpp,  *)
(* compiled in by USE_FFMPEG_PARSER): addbuffer() puts a copy of what it   *)
(* is given at the end of a list, under a mutex, and signals; read() fills *)
(* the buffer of ffmpeg from the front of the list and sleeps when there   *)
(* is nothing.  One operator for each step between which the other threads *)
(* can run; HLSLive makes them steps of its threads.                       *)
(*                                                                         *)
(* read() holds the mutex at the places "loop" and "take"; addbuffer() has *)
(* it for one step only.  A definition whose name ends in _Bug is a        *)
(* mutated form of the one after it.                                       *)
(***************************************************************************)
EXTENDS Integers, Sequences

CONSTANT BufSize \* what ffmpeg asks for in one call

VARIABLES
  m_buffers, \* the list: of each buffer its bytes, and how many are read
  m_exit,    \* whether prepareQuit() was called
  reader,    \* where the thread in read() is, "out" if none is
  buf,       \* what read() has filled in so far
  roused     \* history: whether read() last woke up for nothing

iovars == <<m_buffers, m_exit, reader, buf, roused>>

Places == {"out", "loop", "wait", "woken", "take", "done"}

Init ==
  /\ m_buffers = <<>>
  /\ m_exit = FALSE
  /\ reader = "out"
  /\ buf = <<>>
  /\ roused = FALSE

Signalled_Bug == reader
Signalled == IF reader = "wait" THEN "woken" ELSE reader

Locked == reader \in {"loop", "take"}

addbuffer(data) ==
  IF m_exit
  THEN UNCHANGED iovars
  ELSE /\ ~Locked
       /\ m_buffers' = Append(m_buffers, [data |-> data, pos |-> 0])
       /\ reader' = Signalled
       /\ UNCHANGED <<m_exit, buf, roused>>

-----------------------------------------------------------------------------
(* read() *)

ReadEnter ==
  /\ reader = "out"
  /\ reader' = IF m_exit THEN "done" ELSE "loop"
  /\ buf' = <<>>
  /\ UNCHANGED <<m_buffers, m_exit, roused>>

ReadLoop_Bug ==
  /\ reader = "loop"
  /\ reader' = IF Len(buf) = BufSize THEN "done" ELSE "take"
  /\ UNCHANGED <<m_buffers, m_exit, buf, roused>>

ReadLoop ==
  /\ reader = "loop"
  /\ reader' = IF Len(buf) = BufSize THEN "done"
               ELSE IF m_buffers = <<>> THEN "wait" ELSE "take"
  /\ UNCHANGED <<m_buffers, m_exit, buf, roused>>

(* pthread_cond_wait() may return for nothing. *)
ReadRoused ==
  /\ reader = "wait"
  /\ reader' = "woken"
  /\ roused' = TRUE
  /\ UNCHANGED <<m_buffers, m_exit, buf>>

(* It does not look again whether there is something. *)
ReadReacquire ==
  /\ reader = "woken"
  /\ reader' = "take"
  /\ UNCHANGED <<m_buffers, m_exit, buf, roused>>

Front == Head(m_buffers)

(* front() of an empty list: undefined. *)
FrontMissing == reader = "take" /\ ~m_exit /\ m_buffers = <<>>

Shorter(a, b) == IF a <= b THEN a ELSE b
CpyLen == Shorter(Len(Front.data) - Front.pos, BufSize - Len(buf))

(* A buffer that is read to its end is dropped. *)
Rest_Bug == Tail(m_buffers)
Rest ==
  IF Front.pos + CpyLen = Len(Front.data)
  THEN Tail(m_buffers)
  ELSE [m_buffers EXCEPT ![1].pos = @ + CpyLen]

ReadTake ==
  /\ reader = "take"
  /\ IF m_exit
     THEN reader' = "done" /\ UNCHANGED <<m_buffers, buf, roused>>
     ELSE /\ m_buffers # <<>>
          /\ buf' = buf \o SubSeq(Front.data, Front.pos + 1, Front.pos + CpyLen)
          /\ m_buffers' = Rest
          /\ reader' = "loop"
          /\ roused' = FALSE
  /\ UNCHANGED m_exit

(* The bytes are ffmpeg's. *)
ReadReturn ==
  /\ reader = "done"
  /\ reader' = "out"
  /\ buf' = <<>>
  /\ UNCHANGED <<m_buffers, m_exit, roused>>

-----------------------------------------------------------------------------
(* prepareQuit(), and clean() with what is left in the list. *)
Clean ==
  /\ m_exit' = TRUE
  /\ reader' = Signalled
  /\ m_buffers' = <<>>
  /\ UNCHANGED <<buf, roused>>
=============================================================================
