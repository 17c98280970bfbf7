-------------------------- MODULE MCAVCByteStream --------------------------
(* Streams for AVCByteStream: a slice (to parse), a delimiter (not parsed),  *)
(* with payloads that need emulation prevention, that look like it, and that *)
(* do not; and a malformed unit.                                             *)
EXTENDS AVCByteStream

IdrHeader == 101
DelimiterHeader == 9
MalformedHeader == 5

Payloads == {<<>>, <<128>>, <<0, 128>>, <<3>>, <<0, 0, 1>>, <<0, 0, 3>>,
             <<0, 0, 0, 3>>, <<0, 0, 0, 0, 1>>, <<1, 0, 0, 128>>}

MCUnits ==
  [padding : {0}, long : BOOLEAN, header : {IdrHeader}, payload : Payloads]
    \cup [padding : {0}, long : BOOLEAN, header : {DelimiterHeader},
          payload : {<<>>, <<0, 0, 1>>, <<16>>}]
    \cup [padding : {0}, long : {FALSE}, header : {MalformedHeader}, payload : {<<>>}]

(* Fewer, for longer streams. *)
FewUnits ==
  [padding : {0}, long : BOOLEAN, header : {IdrHeader},
   payload : {<<>>, <<0, 0, 0, 1>>, <<128>>}]
    \cup [padding : {0}, long : BOOLEAN, header : {DelimiterHeader}, payload : {<<16>>}]
    \cup [padding : {0}, long : {FALSE}, header : {MalformedHeader}, payload : {<<>>}]

MCStreams == [1..1 -> MCUnits] \cup [1..2 -> MCUnits] \cup [1..3 -> FewUnits]

(* A zero byte more than the long start code has. *)
PaddedUnits ==
  [padding : 0..1, long : {TRUE}, header : {IdrHeader}, payload : {<<128>>}]

PaddedStreams == [1..2 -> PaddedUnits]
=============================================================================
