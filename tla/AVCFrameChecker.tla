--------------------------- MODULE AVCFrameChecker ---------------------------
(***************************************************************************)
(* The parser that groups the NAL units of an H.264 stream into access     *)
(* units (src/AVCFrameChecker.cpp), from the start codes on: the producer  *)
(* adds the stream (addBytes), the consumer takes finished access units    *)
(* (getAU) from a list under a mutex.                                      *)
(*                                                                         *)
(* A NAL unit is processed when the start code of the next one is found,   *)
(* so the last one is always held back.  It is a record: its type, its     *)
(* nal_ref_idc and, for a slice or a parameter set, the syntax elements    *)
(* that the encoder writes (AVCEncoder); those that a slice has not are 0. *)
(* The parser reads their bits (AVCBitsReader), and knows of the parameter *)
(* sets only the last of each kind.                                        *)
(*                                                                         *)
(* A definition whose name has _Bug in it is a mutated form of one after   *)
(* it: a plausible mistake that the properties have to notice.             *)
(***************************************************************************)
EXTENDS AVCBitsReader, AVCEncoder, SequencesExt

CONSTANTS
  Encoders, \* each is the set of NAL units that an encoder writes
  MaxNals   \* bound on the length of the stream

SLICE == 1
SLICE_DPA == 2
SLICE_IDR == 5
SEI == 6
SPS == 7
PPS == 8
AU_DELIMITER == 9
FILLER_DATA == 12
SPS_EXT == 13
AUXILIARY_SLICE == 19

ASSUME NalsAssumption ==
  \A nals \in Encoders : \A n \in nals :
    /\ n.type \in 1..31 /\ n.nal_ref_idc \in 0..3
    /\ n.type = SPS => CodableSPS(n)
    /\ n.type = PPS => CodablePPS(n)
    /\ n.type \in {SLICE, SLICE_DPA, SLICE_IDR} =>
         /\ CodableSlice(n)
         /\ IF n.type = SLICE_IDR THEN n.frame_num = 0 ELSE n.idr_pic_id = 0
ASSUME MaxNalsAssumption == MaxNals \in Nat

VARIABLES
  encoder,      \* that of this stream
  m_nalu,       \* the NAL unit being received: <<>> or <<nal>>
  m_au,         \* the access unit being collected
  m_aus,        \* finished, waiting for getAU()
  m_au_pending, \* an access unit has begun, its first slice has not been seen
  sps,          \* <<>> or <<parameters>>, of the last sequence parameter set
  m_pic_order_present_flag,
  header,       \* the members decode_Header() sets
  prev,         \* the members is_new_au() compares them with
  aborted,      \* an assertion failed
  input,        \* history: the stream so far
  delivered     \* history: what getAU() returned

vars == <<encoder, m_nalu, m_au, m_aus, m_au_pending, sps, m_pic_order_present_flag,
          header, prev, aborted, input, delivered>>

IsSlice(nal) == nal.type \in {SLICE, SLICE_DPA, SLICE_IDR}

(* The element name is set to v. *)
With(e, name, v) == [f \in DOMAIN e \cup {name} |-> IF f = name THEN v ELSE e[f]]

(* key is not initialised: it is set by the first slice. *)
NewAU == [nalus |-> <<>>, slices |-> 0, key |-> "unset"]

Init ==
  /\ encoder \in Encoders
  /\ m_nalu = <<>>
  /\ m_au = NewAU
  /\ m_aus = <<>>
  /\ m_au_pending = FALSE
  /\ sps = <<>>
  /\ m_pic_order_present_flag = -1
  /\ header = [frame_num |-> -1, pic_parameter_set_id |-> -1,
               field_pic_flag |-> -1, bottom_field_flag |-> -1,
               idr_pic_id |-> 65536, pic_order_cnt_lsb |-> 0,
               delta_pic_order_cnt_bottom |-> 0,
               delta_pic_order_cnt_0 |-> 0, delta_pic_order_cnt_1 |-> 0]
  /\ prev = With(With(header, "nal_ref_idc", 111), "type", 0)
  /\ aborted = FALSE
  /\ input = <<>>
  /\ delivered = <<>>

-----------------------------------------------------------------------------
(* The access unit, the list and the flag go through a step together. *)

Current == [au |-> m_au, aus |-> m_aus, pending |-> m_au_pending]

Finish_Bug(u) ==
  IF u.au.nalus = <<>> THEN u
  ELSE [u EXCEPT !.aus = Append(@, u.au), !.au.nalus = <<>>]

Finish(u) ==
  IF u.au.nalus = <<>> THEN u
  ELSE [u EXCEPT !.aus = Append(@, u.au), !.au = NewAU]

SetPending_Bug(u) == [u EXCEPT !.pending = TRUE]

SetPending(u) ==
  IF u.pending THEN u ELSE [Finish(u) EXCEPT !.pending = TRUE]

FinishNalu(nal, u) ==
  [u EXCEPT !.au.nalus = Append(@, nal),
            !.au.slices = IF IsSlice(nal) THEN @ + 1 ELSE @,
            !.au.key = IF ~IsSlice(nal) THEN @
                       ELSE IF nal.type = SLICE_IDR THEN "IDR" ELSE "non-IDR"]

-----------------------------------------------------------------------------
(* The lists of seq_scaling_matrix(): read over, each until a scale is 0. *)
AfterList(gb, n) ==
  LET after[i \in 0..n] ==
        IF i = 0 THEN [at |-> gb, last |-> 8, next |-> 8]
        ELSE LET before == after[i - 1]
                 delta == get_se_golomb(before.at)
                 scale == (before.last + delta.value + 256) % 256
             IN IF before.next = 0 THEN before
                ELSE [at |-> delta, next |-> scale,
                      last |-> IF scale = 0 THEN before.last ELSE scale]
  IN after[n].at

AfterLists(gb, n) ==
  LET after[i \in 0..n] ==
        IF i = 0 THEN gb
        ELSE LET present == get_bits1(after[i - 1])
             IN IF present.value = 0 THEN present
                ELSE AfterList(present, IF i <= 6 THEN 16 ELSE 64)
  IN after[n]

(* get_se_golomb(), n times *)
AfterOffsets(gb, n) ==
  LET after[i \in 0..n] == IF i = 0 THEN gb ELSE get_se_golomb(after[i - 1])
  IN after[n]

HighProfile(profile_idc) ==
  profile_idc \in {100, 110, 122, 244, 44, 83, 86, 118, 128}

UnparsedSPS ==
  [separate_colour_plane_flag |-> 0, log2_max_frame_num |-> 0,
   pic_order_cnt_type |-> 0, log2_max_pic_order_cnt_lsb |-> 0,
   delta_pic_order_always_zero_flag |-> 0, frame_mbs_only_flag |-> -1]

(* The lists and offsets stand for elements that are read over. *)
SPSElements ==
  <<"profile_idc", "constraint_flags", "level_idc", "seq_parameter_set_id",
    "chroma_format_idc", "separate_colour_plane_flag", "bit_depth_luma",
    "bit_depth_chroma", "qpprime_flag", "seq_scaling_matrix_present_flag",
    "lists", "log2_max_frame_num", "pic_order_cnt_type",
    "log2_max_pic_order_cnt_lsb", "delta_pic_order_always_zero_flag",
    "offset_for_non_ref_pic", "offset_for_top_to_bottom_field",
    "num_ref_frames_in_cycle", "offsets", "num_ref_frames", "gaps_flag",
    "pic_width", "pic_height", "frame_mbs_only_flag">>

(* An element that is absent keeps the value of an earlier set. *)
Absent(name, e) ==
  \/ /\ name \in {"chroma_format_idc", "separate_colour_plane_flag",
                 "bit_depth_luma", "bit_depth_chroma", "qpprime_flag",
                 "seq_scaling_matrix_present_flag", "lists"}
     /\ ~HighProfile(e.profile_idc)
  \/ name = "separate_colour_plane_flag" /\ e.chroma_format_idc # 3
  \/ name = "lists" /\ e.seq_scaling_matrix_present_flag = 0
  \/ name = "log2_max_pic_order_cnt_lsb" /\ e.pic_order_cnt_type # 0
  \/ /\ name \in {"delta_pic_order_always_zero_flag", "offset_for_non_ref_pic",
                 "offset_for_top_to_bottom_field", "num_ref_frames_in_cycle",
                 "offsets"}
     /\ e.pic_order_cnt_type # 1

SPSElement(name, gb, e) ==
  IF Absent(name, e) THEN Inferred(gb, IF name \in DOMAIN e THEN e[name] ELSE 0)
  ELSE CASE name \in {"profile_idc", "constraint_flags", "level_idc"} ->
              get_bits(gb, 8)
         [] name \in {"separate_colour_plane_flag", "qpprime_flag",
                     "seq_scaling_matrix_present_flag", "gaps_flag",
                     "delta_pic_order_always_zero_flag", "frame_mbs_only_flag"} ->
              get_bits1(gb)
         [] name = "lists" -> AfterLists(gb, IF e.chroma_format_idc = 3 THEN 12 ELSE 8)
         [] name \in {"log2_max_frame_num", "log2_max_pic_order_cnt_lsb"} ->
              [get_ue_golomb(gb) EXCEPT !.value = @ + 4]
         [] name \in {"offset_for_non_ref_pic", "offset_for_top_to_bottom_field"} ->
              get_se_golomb(gb)
         [] name = "offsets" -> AfterOffsets(gb, e.num_ref_frames_in_cycle)
         [] OTHER -> get_ue_golomb(gb)

HeaderElements ==
  <<"first_mb_in_slice", "slice_type", "pic_parameter_set_id", "colour_plane_id",
    "frame_num", "field_pic_flag", "bottom_field_flag", "idr_pic_id",
    "pic_order_cnt_lsb", "delta_pic_order_cnt_bottom", "delta_pic_order_cnt_0",
    "delta_pic_order_cnt_1">>

(* What the parameter sets say is absent is inferred or, for some elements, *)
(* keeps the value of an earlier slice.                                     *)
HeaderElement(type, name, gb, e) ==
  LET s      == sps[1]
      frames == s.frame_mbs_only_flag = 1
      both   == m_pic_order_present_flag = 1 /\ e.field_pic_flag = 0
      Delta(present) ==
        IF s.delta_pic_order_always_zero_flag = 1 THEN Inferred(gb, 0)
        ELSE IF s.pic_order_cnt_type # 1 THEN Inferred(gb, e[name])
        ELSE IF present THEN get_se_golomb(gb) ELSE Inferred(gb, 0)
  IN CASE name = "slice_type" -> get_ue_golomb_31(gb)
       [] name = "colour_plane_id" ->
            IF s.separate_colour_plane_flag = 1 THEN get_bits(gb, 2)
            ELSE Inferred(gb, 0)
       [] name = "frame_num" -> get_bits(gb, s.log2_max_frame_num)
       [] name = "field_pic_flag" ->
            IF frames THEN Inferred(gb, 0) ELSE get_bits1(gb)
       [] name = "bottom_field_flag" ->
            IF frames THEN Inferred(gb, -1)
            ELSE IF e.field_pic_flag = 1 THEN get_bits1(gb) ELSE Inferred(gb, 0)
       [] name = "idr_pic_id" /\ type # SLICE_IDR -> Inferred(gb, e[name])
       [] name = "pic_order_cnt_lsb" ->
            IF s.pic_order_cnt_type = 0
            THEN get_bits(gb, s.log2_max_pic_order_cnt_lsb)
            ELSE Inferred(gb, e[name])
       [] name = "delta_pic_order_cnt_bottom" ->
            IF s.pic_order_cnt_type = 0 /\ both THEN get_se_golomb(gb)
            ELSE Inferred(gb, 0)
       [] name = "delta_pic_order_cnt_0" -> Delta(TRUE)
       [] name = "delta_pic_order_cnt_1" -> Delta(both)
       [] OTHER -> get_ue_golomb(gb)

Element(type, name, gb, e) ==
  IF type = SPS THEN SPSElement(name, gb, e) ELSE HeaderElement(type, name, gb, e)

(* The elements are read one after the other.  What is absent may keep the *)
(* value that an earlier NAL unit left in old.                             *)
Parsed(type, names, old, bits) ==
  LET upto[i \in 0..Len(names)] ==
        IF i = 0 THEN [gb |-> init_get_bits(bits), e |-> old]
        ELSE LET before == upto[i - 1]
                 gb == Element(type, names[i], before.gb, before.e)
             IN [gb |-> gb, e |-> With(before.e, names[i], gb.value)]
      e == upto[Len(names)].e
  IN [f \in DOMAIN old |-> e[f]]

(* decode_SPS() *)
DecodedSPS(bits) ==
  Parsed(SPS, SPSElements, IF sps = <<>> THEN UnparsedSPS ELSE sps[1], bits)

(* decode_PPS() *)
DecodePPS(bits) ==
  LET id == get_ue_golomb(init_get_bits(bits))
      present == get_bits1(get_bits1(get_ue_golomb(id)))
  IN /\ m_pic_order_present_flag' = present.value
     /\ header' = [header EXCEPT !.pic_parameter_set_id = id.value]

(* decode_Header() *)
Decoded(type, bits) ==
  IF sps = <<>> THEN header
  ELSE Parsed(type, HeaderElements, header, bits)

(* m_prev_pic_order_cnt_type is compared, but never assigned. *)
PrevPicOrderCntType == 0
PicOrderCntType == IF sps = <<>> THEN 0 ELSE sps[1].pic_order_cnt_type

IsNewAU_Bug(h) ==
  /\ prev.frame_num # -1
  /\ \/ h.frame_num # prev.frame_num
     \/ h.pic_parameter_set_id # prev.pic_parameter_set_id
     \/ h.nal_ref_idc # prev.nal_ref_idc

IsNewAU(h) ==
  /\ prev.frame_num # -1
  /\ \/ h.type # SLICE_IDR /\ h.frame_num # prev.frame_num
     \/ /\ prev.pic_parameter_set_id # -1
        /\ h.pic_parameter_set_id # prev.pic_parameter_set_id
     \/ h.field_pic_flag # prev.field_pic_flag
     \/ /\ -1 \notin {h.bottom_field_flag, prev.bottom_field_flag}
        /\ h.bottom_field_flag # prev.bottom_field_flag
     \/ /\ 0 \in {h.nal_ref_idc, prev.nal_ref_idc}
        /\ h.nal_ref_idc # prev.nal_ref_idc
     \/ /\ PicOrderCntType = 0 /\ PrevPicOrderCntType = 0
        /\ \/ h.pic_order_cnt_lsb # prev.pic_order_cnt_lsb
           \/ h.delta_pic_order_cnt_bottom # prev.delta_pic_order_cnt_bottom
     \/ /\ PicOrderCntType = 1 /\ PrevPicOrderCntType = 1
        /\ \/ h.delta_pic_order_cnt_0 # prev.delta_pic_order_cnt_0
           \/ h.delta_pic_order_cnt_1 # prev.delta_pic_order_cnt_1
     \/ /\ SLICE_IDR \in {h.type, prev.type}
        /\ h.type # prev.type
     \/ /\ h.type = SLICE_IDR /\ prev.type = SLICE_IDR
        /\ h.idr_pic_id # prev.idr_pic_id

-----------------------------------------------------------------------------
(* addBytes(), at the start code of the NAL unit next *)

(* The parameter sets in force after the NAL units s: the last sequence    *)
(* parameter set, and the last picture parameter set of a number.          *)
LastSPS(s) == SelectLastInSeq(s, LAMBDA n : n.type = SPS)
LastPPS(s, id) ==
  SelectLastInSeq(s, LAMBDA n : n.type = PPS /\ n.pic_parameter_set_id = id)

(* A stream starts with parameters, and has those of a slice before it. *)
Conforming(next) ==
  /\ input = <<>> => next.type \in SEI..AU_DELIMITER
  /\ IsSlice(next) =>
       LET s == LastSPS(input)
           p == LastPPS(input, next.pic_parameter_set_id)
       IN s # 0 /\ p # 0 /\ Codable(next, input[s], input[p])

Coded(nal) ==
  CASE nal.type = SPS -> CodedSPS(nal)
    [] nal.type = PPS -> CodedPPS(nal)
    [] OTHER ->
         CodedSlice(nal, nal.type = SLICE_IDR, input[LastSPS(input)],
                    input[LastPPS(input, nal.pic_parameter_set_id)])

Malformed(next) ==
  IF next.nal_ref_idc = 0 THEN next.type = SLICE_IDR
  ELSE next.type \in {SEI} \cup AU_DELIMITER..FILLER_DATA

(* These start an access unit as soon as their type is known. *)
StartsAtOnce(next) ==
  next.type \in {AU_DELIMITER} \cup (SPS_EXT + 1)..(AUXILIARY_SLICE - 1)

Arrives(next) ==
  /\ ~aborted
  /\ Len(input) < MaxNals
  /\ Conforming(next)
  /\ input' = Append(input, next)
  /\ UNCHANGED <<encoder, delivered>>

(* What is left to do when the NAL unit before has been dealt with.  Types *)
(* that the log calls dropped are received like any other.                 *)
Begin(next, u) ==
  LET v == IF StartsAtOnce(next) THEN SetPending(u) ELSE u
  IN /\ m_nalu' = <<next>>
     /\ m_au' = v.au
     /\ m_aus' = v.aus
     /\ m_au_pending' = v.pending

FirstNal(next) ==
  /\ m_nalu = <<>>
  /\ Arrives(next) /\ ~Malformed(next)
  /\ Begin(next, Current)
  /\ UNCHANGED <<sps, m_pic_order_present_flag, header, prev, aborted>>

(* The NAL unit before is a parameter set or SEI. *)
ParametersComplete(nal, next) ==
  /\ m_nalu = <<nal>> /\ nal.type \in {SEI, SPS, PPS}
  /\ Arrives(next) /\ ~Malformed(next)
  /\ Begin(next, FinishNalu(nal, SetPending(Current)))
  /\ sps' = IF nal.type = SPS THEN <<DecodedSPS(Coded(nal))>> ELSE sps
  /\ IF nal.type = PPS
     THEN DecodePPS(Coded(nal))
     ELSE UNCHANGED <<m_pic_order_present_flag, header>>
  /\ UNCHANGED <<prev, aborted>>

(* The NAL unit before is a slice: the first of an access unit ends the wait *)
(* for it, whatever announced the access unit.                               *)
SliceComplete(nal) ==
  LET decoded == Decoded(nal.type, Coded(nal))
      h == With(With(decoded, "nal_ref_idc", nal.nal_ref_idc), "type", nal.type)
      u == IF IsNewAU(h) THEN SetPending(Current) ELSE Current
  IN /\ m_nalu = <<nal>> /\ IsSlice(nal)
     /\ \E next \in encoder :
          /\ Arrives(next) /\ ~Malformed(next)
          /\ Begin(next, FinishNalu(nal, [u EXCEPT !.pending = FALSE]))
     /\ header' = decoded
     /\ prev' = h
     /\ UNCHANGED <<sps, m_pic_order_present_flag, aborted>>

(* The NAL unit before is not parsed. *)
OtherComplete(nal, next) ==
  /\ m_nalu = <<nal>> /\ ~IsSlice(nal) /\ nal.type \notin {SEI, SPS, PPS}
  /\ Arrives(next) /\ ~Malformed(next)
  /\ Begin(next, FinishNalu(nal, Current))
  /\ UNCHANGED <<sps, m_pic_order_present_flag, header, prev, aborted>>

(* assert(good_nal_unit) *)
MalformedNal(next) ==
  /\ Arrives(next) /\ Malformed(next)
  /\ aborted' = TRUE
  /\ UNCHANGED <<m_nalu, m_au, m_aus, m_au_pending, sps,
                 m_pic_order_present_flag, header, prev>>

GetAU ==
  /\ ~aborted
  /\ m_aus # <<>>
  /\ delivered' = Append(delivered, Head(m_aus))
  /\ m_aus' = Tail(m_aus)
  /\ UNCHANGED <<encoder, m_nalu, m_au, m_au_pending, sps,
                 m_pic_order_present_flag, header, prev, aborted, input>>

AddBytes ==
  \/ \E nal \in encoder : SliceComplete(nal)
  \/ \E next \in encoder :
       \/ FirstNal(next)
       \/ \E nal \in encoder : \/ ParametersComplete(nal, next)
                            \/ OtherComplete(nal, next)
       \/ MalformedNal(next)

Next == AddBytes \/ GetAU

Spec == Init /\ [][Next]_vars

-----------------------------------------------------------------------------
(* The access units of a stream, as the comment in is_new_au() quotes them *)
(* from the standard (sections 7.4.1.2.3 and 7.4.1.2.4).                   *)

Leading(nal) == nal.type \in SEI..AU_DELIMITER \cup 14..18

(* The slices p and q are of two pictures, whatever their delta_pic_order_cnt. *)
OtherPicture(p, q) ==
  \/ p.frame_num # q.frame_num
  \/ p.pic_parameter_set_id # q.pic_parameter_set_id
  \/ p.field_pic_flag # q.field_pic_flag
  \/ p.bottom_field_flag # q.bottom_field_flag
  \/ p.nal_ref_idc # q.nal_ref_idc /\ 0 \in {p.nal_ref_idc, q.nal_ref_idc}
  \/ p.pic_order_cnt_lsb # q.pic_order_cnt_lsb
  \/ p.delta_pic_order_cnt_bottom # q.delta_pic_order_cnt_bottom
  \/ p.type # q.type /\ SLICE_IDR \in {p.type, q.type}
  \/ p.idr_pic_id # q.idr_pic_id

(* q is the first slice of a primary coded picture, p the last slice before. *)
FirstOfPicture(p, q) ==
  OtherPicture(p, q) \/ p.delta_pic_order_cnt # q.delta_pic_order_cnt

(* Position i starts an access unit: it is the first that can after the last *)
(* slice of the one before.                                                  *)
Starts(s, i) ==
  \/ i = 1
  \/ \E j \in 1..(i - 1) :
       /\ IsSlice(s[j])
       /\ \A k \in (j + 1)..(i - 1) : ~IsSlice(s[k]) /\ ~Leading(s[k])
       /\ \/ Leading(s[i])
          \/ IsSlice(s[i]) /\ FirstOfPicture(s[j], s[i])

(* The starts the parser can know of: not that of the NAL unit it holds back, *)
(* unless its type decides.                                                   *)
KnownStarts ==
  {i \in DOMAIN input : /\ Starts(input, i)
                        /\ i = Len(input) => i = 1 \/ StartsAtOnce(input[i])}

Complete == delivered \o m_aus

-----------------------------------------------------------------------------
(* Type invariant; once the slices of an access unit have begun, the next one *)
(* is not under way.                                                          *)
TypeOK ==
  /\ Len(m_nalu) <= 1
  /\ m_au.key \in {"IDR", "non-IDR", "unset"}
  /\ m_au_pending => m_au.slices = 0
  /\ m_pic_order_present_flag \in {-1, 0, 1}
  /\ aborted \in BOOLEAN
  /\ Len(input) <= MaxNals

(* What the parser cannot read of the slice at position i: a code longer   *)
(* than the bits that the cache is sure to hold; the flag of another       *)
(* picture parameter set than its own, when that came last; and a header   *)
(* without colour_plane_id after one with it, since the flag for it is     *)
(* only ever set by a sequence parameter set that has it.                  *)
Unreadable(i) ==
  LET before == SubSeq(input, 1, i - 1)
      s == input[LastSPS(before)]
      p == input[LastPPS(before, input[i].pic_parameter_set_id)]
      planes == SelectLastInSeq(before, LAMBDA n : n.type = SPS
                                                   /\ n.profile_idc \in HighProfiles
                                                   /\ n.chroma_format_idc = 3)
  IN \/ \E v \in {input[i].first_mb_in_slice, input[i].idr_pic_id} :
          Len(Ue(v)) > MIN_CACHE_BITS
     \/ \E last \in {SelectLastInSeq(before, LAMBDA n : n.type = PPS)} :
          input[last].pic_order_present_flag # p.pic_order_present_flag
     \/ planes # 0
        /\ input[planes].separate_colour_plane_flag # s.separate_colour_plane_flag

(* The NAL unit held back is not parsed yet. *)
ParsedSlices == {i \in 1..(Len(input) - 1) : IsSlice(input[i])}

(* What is_new_au() compares is what the encoder wrote, whatever else there *)
(* is in the headers, at whatever bit it begins, and whichever parameter    *)
(* sets came before.                                                        *)
HeaderExact ==
  LET i == SelectLastInSubSeq(input, 1, Len(input) - 1, IsSlice)
      n == input[i]
      s == input[LastSPS(SubSeq(input, 1, i))]
  IN ~aborted /\ i # 0 /\ ~Unreadable(i) =>
       /\ prev.type = n.type /\ prev.nal_ref_idc = n.nal_ref_idc
       /\ prev.frame_num = n.frame_num
       /\ prev.pic_parameter_set_id = n.pic_parameter_set_id
       /\ prev.field_pic_flag = n.field_pic_flag
       /\ s.frame_mbs_only_flag = 0 => prev.bottom_field_flag = n.bottom_field_flag
       /\ n.type = SLICE_IDR => prev.idr_pic_id = n.idr_pic_id
       /\ s.pic_order_cnt_type = 0 => prev.pic_order_cnt_lsb = n.pic_order_cnt_lsb
       /\ prev.delta_pic_order_cnt_bottom = n.delta_pic_order_cnt_bottom
       /\ s.pic_order_cnt_type = 1 =>
            <<prev.delta_pic_order_cnt_0, prev.delta_pic_order_cnt_1>>
              = n.delta_pic_order_cnt

(* The NAL units of the types that the class says it keeps; whether it drops *)
(* the others, as it says, or keeps them, is left open.                      *)
Documented(nals) ==
  SelectSeq(nals, LAMBDA n : n.type \in {SLICE, SLICE_DPA, AUXILIARY_SLICE}
                                          \cup SLICE_IDR..AU_DELIMITER \cup SPS_EXT..15)

(* The place of position i among them *)
Place(s, i) == Len(Documented(SubSeq(s, 1, i - 1)))

(* Of those, the access units handed over, those waiting, the one being      *)
(* collected and the NAL unit held back are the stream: nothing is lost,     *)
(* repeated or out of order, and the cuts are exactly those of the standard. *)
Partition ==
  LET units == [i \in DOMAIN Complete |-> Complete[i].nalus]
      all   == FlattenSeq(units) \o m_au.nalus \o m_nalu
      cuts  == {Len(FlattenSeq(SubSeq(units, 1, k))) + 1 : k \in 0..Len(units)}
  IN ~aborted /\ (\A i \in ParsedSlices : ~Unreadable(i)) =>
       /\ Documented(all) = Documented(input)
       /\ \A k \in DOMAIN units : units[k] # <<>>
       /\ input # <<>> => {Place(all, c) : c \in cuts}
                            = {Place(input, i) : i \in KnownStarts}

(* What goes to the segmenter as a key frame is an access unit of an IDR     *)
(* picture, and nothing else; every access unit has a picture, so the flag   *)
(* is not the uninitialised one.                                             *)
KeyFrames ==
  \A i \in DOMAIN Complete :
    LET au == Complete[i]
        slices == {j \in DOMAIN au.nalus : IsSlice(au.nalus[j])}
    IN /\ au.slices = Cardinality(slices)
       /\ au.key # "unset"
       /\ \A j \in slices : au.nalus[j].type = SLICE_IDR <=> au.key = "IDR"
=============================================================================
