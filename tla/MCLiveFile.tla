----------------------------- MODULE MCLiveFile -----------------------------
(* A file of three chunks: one inside an access unit, one that completes two *)
(* of them, one that completes one.                                          *)
EXTENDS LiveFile

MCChunks == <<0, 2, 1>>
MCSizes == <<2, 3, 1>>
=============================================================================
