------------------------------ MODULE MCTsMuxer ------------------------------
(* Sizes for TsMuxer.  With the six bytes of a delimiter, 162 bytes fill the  *)
(* first packet of a frame (157 with a DTS) and 184 each of those that follow. *)
EXTENDS TsMuxer

EdgeSizes == {151, 152, 156, 157, 1500}
=============================================================================
