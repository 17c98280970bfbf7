---------------------------- MODULE AVCBitsReader ----------------------------
(***************************************************************************)
(* Reading bits and Exp-Golomb codes (src/AVCBitsReader.h), for the big-   *)
(* endian, checked and 32-bit reader the program is built with.            *)
(*                                                                         *)
(* A GetBitContext is a record: the bits of the buffer, the index of the   *)
(* next one to read, and the value the last read returned.  Every read     *)
(* maps a context to the next one.  The cache is the sequence of its 32    *)
(* bits, first the one that is read next: four bytes are loaded from the   *)
(* byte the index is in and shifted, so the last index % 8 bits are zeros. *)
(*                                                                         *)
(* A definition whose name ends in _Bug is a mutated form of the one after *)
(* it: a plausible mistake that the properties have to notice.             *)
(***************************************************************************)
EXTENDS Integers, Sequences

MIN_CACHE_BITS == 25

(* The value of a sequence of bits, the first the most significant. *)
Number(bits) ==
  LET upto[i \in 0..Len(bits)] ==
        IF i = 0 THEN 0 ELSE 2 * upto[i - 1] + bits[i]
  IN upto[Len(bits)]

init_get_bits(bits) == [bits |-> bits, index |-> 0, value |-> 0]

(* UPDATE_CACHE: behind the buffer are the ones that fillRBSP() puts there. *)
Cache(gb) ==
  [i \in 1..32 |->
    IF i > 32 - (gb.index % 8) THEN 0
    ELSE IF gb.index + i <= Len(gb.bits) THEN gb.bits[gb.index + i] ELSE 1]

(* LAST_SKIP_BITS: the index stops a byte behind the end of the buffer. *)
Skip(gb, n) ==
  IF gb.index + n <= Len(gb.bits) + 8 THEN gb.index + n ELSE Len(gb.bits) + 8

Read(gb, n, v) == [gb EXCEPT !.index = Skip(gb, n), !.value = v]

(* A syntax element that is not read because its value is inferred. *)
Inferred(gb, v) == [gb EXCEPT !.value = v]

-----------------------------------------------------------------------------
get_bits(gb, n) == Read(gb, n, Number(SubSeq(Cache(gb), 1, n)))

get_bits1(gb) == get_bits(gb, 1)

(* 31 - avc_log2(buf), which is 31 too when no bit is set. *)
LeadingZeros(cache) ==
  CHOOSE z \in 0..31 : /\ \A i \in 1..z : cache[i] = 0
                       /\ z = 31 \/ cache[z + 1] = 1

(* An Exp-Golomb code has as many zeros as bits behind its first 1; up to   *)
(* nine bits it is looked up.                                               *)
CodeLength(zeros) == 2 * zeros + 1

(* With 16 zeros and more the code is shifted by a negative count, which    *)
(* the processor takes modulo 32: no bit is left.                           *)
get_ue_golomb_Bug(gb) ==
  LET cache == Cache(gb)
      length == CodeLength(LeadingZeros(cache))
  IN Read(gb, IF length > 9 THEN length - 1 ELSE length,
          IF length > 32 THEN -1 ELSE Number(SubSeq(cache, 1, length)) - 1)

get_ue_golomb(gb) ==
  LET cache == Cache(gb)
      length == CodeLength(LeadingZeros(cache))
  IN Read(gb, length,
          IF length > 32 THEN -1 ELSE Number(SubSeq(cache, 1, length)) - 1)

Signed(code) == IF code % 2 = 0 THEN code \div 2 ELSE -(code \div 2)

(* A long code is read in two: its zeros, and the rest from a new cache. *)
get_se_golomb(gb) ==
  LET zeros == LeadingZeros(Cache(gb))
      first == Read(gb, zeros, 0)
      rest  == IF zeros < 5 THEN SubSeq(Cache(gb), 1, CodeLength(zeros))
               ELSE SubSeq(Cache(first), 1, zeros + 1)
  IN Read(first, zeros + 1, Signed(Number(rest)))

(* The table ends with the code of 30; of the next ones it knows only 31.  *)
get_ue_golomb_31(gb) ==
  LET nine == SubSeq(Cache(gb), 1, 9)
      all == LeadingZeros(Cache(gb))
      zeros == IF all < 9 THEN all ELSE 9
  IN Read(gb, CodeLength(zeros),
          IF zeros < 5 THEN Number(SubSeq(nine, 1, CodeLength(zeros))) - 1
          ELSE IF nine = <<0, 0, 0, 0, 0, 1, 0, 0, 0>> THEN 31 ELSE 32)
=============================================================================
