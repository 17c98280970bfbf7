--------------------------- MODULE MCTsSegmenter ---------------------------
(* Small instances of the segmenter for TLC. *)
EXTENDS TsSegmenter

(* A target duration of 1 s, and 5 us less, which may or may not be one tick  *)
(* of the time stamps less; a clock of fewer and longer ticks that is also set *)
(* back.                                                                       *)
WholeSteps == {1000000, 999995}
BackSteps == {-5000, 3000000}

(* Without failures and restarts the segmenter implements HlsPlaylist. *)
Playlist == INSTANCE HlsPlaylist WITH
  Length <- Segments,
  first <- index.first,
  last <- index.last,
  stored <- OnDisk

(* The published list and the files behind it are a sliding window: nothing *)
(* addframe() does in one call, from the sweep of old files to the rewrite  *)
(* of the index, shows a client anything else.                              *)
ImplementsPlaylist == Playlist!Spec
=============================================================================
