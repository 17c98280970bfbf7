---------------------------- MODULE HlsPlaylist ----------------------------
(***************************************************************************)
(* What the segmenter promises to the clients of a live playlist, without  *)
(* clocks, frames or a deletion queue: segments are stored in order, the   *)
(* published list is a window of at most Length closed segments that       *)
(* slides forward one segment at a time, and storage is only reclaimed     *)
(* from segments the list neither holds nor is going to hold.              *)
(***************************************************************************)
EXTENDS Integers

CONSTANT Length  \* the longest list, at least 1

VARIABLES
  first, last,  \* the published list is first..last
  stored        \* the segments a client can still fetch

vars == <<first, last, stored>>

Init == first = 0 /\ last = -1 /\ stored = {}

(* The first segment is being written. *)
Begin ==
  /\ stored = {}
  /\ stored' = {0}
  /\ UNCHANGED <<first, last>>

(* The segment after the list is complete: it is listed, and the one after *)
(* it is being written.  Segments outside both lists may go.               *)
Publish ==
  /\ last + 1 \in stored
  /\ last' = last + 1
  /\ first' = IF last' - first + 1 > Length THEN first + 1 ELSE first
  /\ \E gone \in SUBSET {s \in stored : s < first} :
       stored' = (stored \ gone) \cup {last' + 1}

(* Old segments are deleted. *)
Collect ==
  /\ \E gone \in SUBSET {s \in stored : s < first} : stored' = stored \ gone
  /\ UNCHANGED <<first, last>>

Next == Begin \/ Publish \/ Collect

Spec == Init /\ [][Next]_vars
=============================================================================
