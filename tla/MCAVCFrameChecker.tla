------------------------- MODULE MCAVCFrameChecker -------------------------
(* Streams for AVCFrameChecker.  Each alphabet is what one kind of encoder  *)
(* puts into a stream.                                                      *)
EXTENDS AVCFrameChecker

Delimiter == [type |-> AU_DELIMITER, nal_ref_idc |-> 0]
Message   == [type |-> SEI, nal_ref_idc |-> 0]
EndOfSequence == [type |-> 10, nal_ref_idc |-> 0]
SequenceSet ==
  [type |-> SPS, nal_ref_idc |-> 3, profile_idc |-> 66, chroma_format_idc |-> 1,
   separate_colour_plane_flag |-> 0, scaling |-> <<>>, log2_max_frame_num |-> 4,
   pic_order_cnt_type |-> 0, log2_max_pic_order_cnt_lsb |-> 4,
   delta_pic_order_always_zero_flag |-> 0, offsets |-> <<>>,
   frame_mbs_only_flag |-> 1]
PictureSet(id, present) ==
  [type |-> PPS, nal_ref_idc |-> 3, pic_parameter_set_id |-> id,
   pic_order_present_flag |-> present]

Slice == [type |-> SLICE, nal_ref_idc |-> 1, frame_num |-> 1,
          first_mb_in_slice |-> 0, pic_parameter_set_id |-> 0, field_pic_flag |-> 0,
          bottom_field_flag |-> 0, idr_pic_id |-> 0, pic_order_cnt_lsb |-> 0,
          delta_pic_order_cnt_bottom |-> 0, delta_pic_order_cnt |-> <<0, 0>>]
IdrSlice == [Slice EXCEPT !.type = SLICE_IDR, !.frame_num = 0]

(* Frames: two IDR pictures, reference pictures, and two disposable ones that *)
(* differ in their picture order count alone.                                 *)
FrameNals ==
  {Delimiter, Message, SequenceSet, PictureSet(0, 0), IdrSlice,
   [IdrSlice EXCEPT !.idr_pic_id = 1], Slice,
   [Slice EXCEPT !.nal_ref_idc = 0],
   [Slice EXCEPT !.nal_ref_idc = 0, !.pic_order_cnt_lsb = 2]}

(* Fields, and frames of the same sequence, with two picture parameter sets; *)
(* NAL units that are not parsed, and a malformed one.                       *)
FieldNals ==
  {[SequenceSet EXCEPT !.frame_mbs_only_flag = 0], PictureSet(0, 1),
   PictureSet(1, 1), IdrSlice,
   [IdrSlice EXCEPT !.field_pic_flag = 1],
   [Slice EXCEPT !.field_pic_flag = 1, !.frame_num = 0],
   [Slice EXCEPT !.field_pic_flag = 1, !.bottom_field_flag = 1, !.frame_num = 0],
   [Slice EXCEPT !.delta_pic_order_cnt_bottom = 1],
   [Slice EXCEPT !.pic_parameter_set_id = 1], EndOfSequence,
   [type |-> 15, nal_ref_idc |-> 3], [IdrSlice EXCEPT !.nal_ref_idc = 0]}

(* Two sequences that have little in common: scaling lists, one of them      *)
(* ended early, the longest frame_num and picture order count, and the       *)
(* longest code that a cache is sure to hold.                                *)
SwitchNals ==
  {[SequenceSet EXCEPT !.profile_idc = 100,
                       !.scaling = << <<-8>>, <<>>, [i \in 1..16 |-> 1 - (i % 3)],
                                      <<>>, <<>>, <<>>, <<8, -16>>, <<>> >>,
                       !.log2_max_frame_num = 16, !.pic_order_cnt_type = 1,
                       !.offsets = <<2, -3>>, !.frame_mbs_only_flag = 0],
   [SequenceSet EXCEPT !.log2_max_pic_order_cnt_lsb = 16], PictureSet(0, 1),
   [IdrSlice EXCEPT !.idr_pic_id = 8190],
   [Slice EXCEPT !.frame_num = 9, !.first_mb_in_slice = 4000],
   [Slice EXCEPT !.frame_num = 65535, !.delta_pic_order_cnt = <<-70000, 40>>],
   [Slice EXCEPT !.pic_order_cnt_lsb = 65535, !.delta_pic_order_cnt_bottom = -300]}

(* What the parser cannot read: numbers of IDR pictures beyond its cache, and *)
(* parameter sets of which it keeps too little or too much.                   *)
OddNals ==
  {SequenceSet,
   [SequenceSet EXCEPT !.profile_idc = 244, !.chroma_format_idc = 3,
                       !.separate_colour_plane_flag = 1, !.pic_order_cnt_type = 2],
   PictureSet(0, 0), PictureSet(1, 1), IdrSlice,
   [IdrSlice EXCEPT !.idr_pic_id = 65533], [IdrSlice EXCEPT !.idr_pic_id = 65534],
   Slice, [Slice EXCEPT !.pic_parameter_set_id = 1],
   [Slice EXCEPT !.pic_parameter_set_id = 1, !.delta_pic_order_cnt_bottom = 1]}

(* Picture order count type 1: disposable pictures that differ in nothing but *)
(* delta_pic_order_cnt.                                                       *)
Poc1Nals ==
  {[SequenceSet EXCEPT !.pic_order_cnt_type = 1], PictureSet(0, 0), IdrSlice, Slice,
   [Slice EXCEPT !.nal_ref_idc = 0],
   [Slice EXCEPT !.nal_ref_idc = 0, !.delta_pic_order_cnt = <<1, 0>>]}

Streams == {FrameNals, FieldNals, SwitchNals, OddNals}
Poc1 == {Poc1Nals}
=============================================================================
