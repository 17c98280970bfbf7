----------------------------- MODULE AVCEncoder -----------------------------
(***************************************************************************)
(* What an H.264 encoder puts into the NAL units that AVCFrameChecker      *)
(* parses: the bits of parameter sets and slice headers as section 7.3 of  *)
(* the standard lays them out.  This is not code of the program, but the   *)
(* reference its parser is compared with.                                  *)
(***************************************************************************)
EXTENDS Integers, SequencesExt

Binary(n, v) == [i \in 1..n |-> (v \div 2 ^ (n - i)) % 2]

(* The bits of v that count. *)
Width(v) == CHOOSE n \in 1..30 : 2 ^ (n - 1) <= v /\ v < 2 ^ n

(* ue(v) and se(v) *)
Ue(v) == LET n == Width(v + 1) IN Binary(n - 1, 0) \o Binary(n, v + 1)
Se(v) == Ue(IF v > 0 THEN 2 * v - 1 ELSE -2 * v)

Data == [i \in 1..40 |-> i % 2]

HighProfiles == {100, 110, 122, 244, 44, 83, 86, 118, 128}

(* A list that is absent is empty; one that is there ends early with a     *)
(* scale of 0.                                                             *)
CodedList(deltas) ==
  IF deltas = <<>> THEN <<0>>
  ELSE <<1>> \o FlattenSeq([i \in DOMAIN deltas |-> Se(deltas[i])])

CodedScaling(lists) ==
  IF lists = <<>> THEN <<0>>
  ELSE <<1>> \o FlattenSeq([i \in DOMAIN lists |-> CodedList(lists[i])])

CodedSPS(s) ==
  Binary(8, s.profile_idc) \o Binary(8, 0) \o Binary(8, 31) \o Ue(0)
  \o (IF s.profile_idc \notin HighProfiles THEN <<>>
      ELSE Ue(s.chroma_format_idc)
           \o (IF s.chroma_format_idc = 3
               THEN <<s.separate_colour_plane_flag>> ELSE <<>>)
           \o Ue(0) \o Ue(0) \o <<0>> \o CodedScaling(s.scaling))
  \o Ue(s.log2_max_frame_num - 4)
  \o Ue(s.pic_order_cnt_type)
  \o (CASE s.pic_order_cnt_type = 0 -> Ue(s.log2_max_pic_order_cnt_lsb - 4)
        [] s.pic_order_cnt_type = 1 ->
             <<s.delta_pic_order_always_zero_flag>> \o Se(-1) \o Se(1)
             \o Ue(Len(s.offsets))
             \o FlattenSeq([i \in DOMAIN s.offsets |-> Se(s.offsets[i])])
        [] OTHER -> <<>>)
  \o Ue(2) \o <<0>> \o Ue(119) \o Ue(67) \o <<s.frame_mbs_only_flag>>
  \o Data

CodedPPS(p) ==
  Ue(p.pic_parameter_set_id) \o Ue(0) \o <<1, p.pic_order_present_flag>>
  \o Data

(* The header of slice n of an IDR picture or not, with the sequence and    *)
(* picture parameter sets s and p in force.                                 *)
CodedSlice(n, idr, s, p) ==
  LET frame == n.field_pic_flag = 0 /\ p.pic_order_present_flag = 1
  IN Ue(n.first_mb_in_slice) \o Ue(IF idr THEN 7 ELSE 5)
     \o Ue(n.pic_parameter_set_id)
     \o (IF s.separate_colour_plane_flag = 1 THEN <<0, 1>> ELSE <<>>)
     \o Binary(s.log2_max_frame_num, n.frame_num)
     \o (IF s.frame_mbs_only_flag = 1 THEN <<>>
         ELSE IF n.field_pic_flag = 0 THEN <<0>> ELSE <<1, n.bottom_field_flag>>)
     \o (IF idr THEN Ue(n.idr_pic_id) ELSE <<>>)
     \o (CASE s.pic_order_cnt_type = 0 ->
                Binary(s.log2_max_pic_order_cnt_lsb, n.pic_order_cnt_lsb)
                \o (IF frame THEN Se(n.delta_pic_order_cnt_bottom) ELSE <<>>)
           [] /\ s.pic_order_cnt_type = 1
              /\ s.delta_pic_order_always_zero_flag = 0 ->
                Se(n.delta_pic_order_cnt[1])
                \o (IF frame THEN Se(n.delta_pic_order_cnt[2]) ELSE <<>>)
           [] OTHER -> <<>>)
     \o Data

(* The slice has no other elements than these sets let it have. *)
Codable(n, s, p) ==
  LET frame == n.field_pic_flag = 0 /\ p.pic_order_present_flag = 1
      type1 == s.pic_order_cnt_type = 1 /\ s.delta_pic_order_always_zero_flag = 0
  IN /\ n.frame_num < 2 ^ s.log2_max_frame_num
     /\ s.frame_mbs_only_flag = 1 => n.field_pic_flag = 0
     /\ n.field_pic_flag = 0 => n.bottom_field_flag = 0
     /\ IF s.pic_order_cnt_type = 0
        THEN n.pic_order_cnt_lsb < 2 ^ s.log2_max_pic_order_cnt_lsb
        ELSE n.pic_order_cnt_lsb = 0
     /\ n.delta_pic_order_cnt_bottom # 0 => s.pic_order_cnt_type = 0 /\ frame
     /\ n.delta_pic_order_cnt[1] # 0 => type1
     /\ n.delta_pic_order_cnt[2] # 0 => type1 /\ frame

(* The scales of a list: each is a difference more than the one before. *)
Scales(deltas) ==
  LET scale[i \in 0..Len(deltas)] ==
        IF i = 0 THEN 8 ELSE (scale[i - 1] + deltas[i]) % 256
  IN scale

(* A list has n scales, or fewer and then ends with the only 0. *)
CodableList(deltas, n) ==
  /\ deltas \in Seq(Int) /\ Len(deltas) <= n
  /\ \A i \in 1..Len(deltas) : deltas[i] + 128 \in 0..255
  /\ \A i \in 1..(Len(deltas) - 1) : Scales(deltas)[i] # 0
  /\ Len(deltas) \in 1..(n - 1) => Scales(deltas)[Len(deltas)] = 0

(* Their codes have fewer than 24 zeros: the parser counts them in a cache. *)
Differences == (1 - 2 ^ 23)..(2 ^ 23 - 1)

(* The syntax elements are in the ranges that the standard gives them; the *)
(* macroblocks of a picture are fewer than 2^18 at every level.            *)
CodableSPS(s) ==
  /\ s.profile_idc \in 0..255
  /\ s.chroma_format_idc \in 0..3
  /\ s.separate_colour_plane_flag \in 0..1
  /\ s.separate_colour_plane_flag = 1 =>
       s.profile_idc \in HighProfiles /\ s.chroma_format_idc = 3
  /\ s.scaling \in Seq(Seq(Int))
  /\ Len(s.scaling) \in {0, IF s.chroma_format_idc = 3 THEN 12 ELSE 8}
  /\ \A i \in 1..Len(s.scaling) : CodableList(s.scaling[i], IF i <= 6 THEN 16 ELSE 64)
  /\ s.log2_max_frame_num \in 4..16
  /\ s.pic_order_cnt_type \in 0..2
  /\ s.log2_max_pic_order_cnt_lsb \in 4..16
  /\ s.delta_pic_order_always_zero_flag \in 0..1
  /\ s.offsets \in Seq(Differences) /\ Len(s.offsets) <= 255
  /\ s.frame_mbs_only_flag \in 0..1

CodablePPS(p) ==
  /\ p.pic_parameter_set_id \in 0..255
  /\ p.pic_order_present_flag \in 0..1

CodableSlice(n) ==
  /\ n.first_mb_in_slice \in 0..(2 ^ 18 - 1)
  /\ n.pic_parameter_set_id \in 0..255
  /\ n.frame_num \in Nat
  /\ n.field_pic_flag \in 0..1 /\ n.bottom_field_flag \in 0..1
  /\ n.idr_pic_id \in 0..(2 ^ 16 - 1)
  /\ n.pic_order_cnt_lsb \in Nat
  /\ n.delta_pic_order_cnt_bottom \in Differences
  /\ n.delta_pic_order_cnt \in Differences \X Differences
=============================================================================
