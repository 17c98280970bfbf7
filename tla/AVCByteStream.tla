---------------------------- MODULE AVCByteStream ----------------------------
(***************************************************************************)
(* The byte layer of AVCFrameChecker (src/AVCFrameChecker.cpp, addBytes()  *)
(* and what it calls): the stream arrives in chunks that may end anywhere; *)
(* start codes are found, NAL units cut out with their start codes, and    *)
(* the RBSP of those that are parsed is recovered.  AVCFrameChecker.tla    *)
(* goes on from there.                                                     *)
(*                                                                         *)
(* The stream is what an encoder writes: units that begin with a start     *)
(* code, in which emulation prevention leaves no start code elsewhere.     *)
(* The loop of the caller, which passes what is left of a chunk again, is  *)
(* one with the loop of addBytes().                                        *)
(*                                                                         *)
(* A definition whose name ends in _Bug is a mutated form of the one after *)
(* it: a plausible mistake that the properties have to notice.             *)
(***************************************************************************)
EXTENDS Integers, Sequences, SequencesExt

CONSTANTS
  Sources,   \* where chunks come from: "file", which is mapped, or "camera"
  Streams    \* sequences of units, which are records: extra zeros before the
             \* start code, whether that is long, header byte, payload

Byte == 0..255

ASSUME SourcesAssumption == Sources \subseteq {"file", "camera"}

ASSUME StreamsAssumption ==
  \A s \in Streams :
    /\ s \in Seq([padding : Nat, long : BOOLEAN, header : 1..255, payload : Seq(Byte)])
    /\ \A i \in DOMAIN s : s[i].payload # <<>> => Last(s[i].payload) # 0

VARIABLES
  source,                \* the source of this program
  stream,                \* the units the encoder writes
  passed,                \* how many bytes have been passed to addBytes()
  chunk,                 \* what is left of those to parse
  m_sync_accumulator,    \* the last five bytes
  m_nalu,                \* the NAL unit being received
  m_have_unfinished_NAL, \* it is one to parse
  m_rbsp_buffer,
  m_consecutive_zeros,
  finished,              \* history: the NAL units finish_nalu() stored
  parsed,                \* history: the RBSPs processRBSP() got
  aborted                \* an assertion failed

vars == <<source, stream, passed, chunk, m_sync_accumulator, m_nalu,
          m_have_unfinished_NAL, m_rbsp_buffer, m_consecutive_zeros, finished,
          parsed, aborted>>

-----------------------------------------------------------------------------
(* The encoder *)

StartCode(long) == IF long THEN <<0, 0, 0, 1>> ELSE <<0, 0, 1>>

(* A 3 goes in wherever two zeros would be followed by a byte up to 3. *)
EscapeByte(e, b) ==
  IF e.zeros >= 2 /\ b <= 3
  THEN [bytes |-> e.bytes \o <<3, b>>, zeros |-> IF b = 0 THEN 1 ELSE 0]
  ELSE [bytes |-> Append(e.bytes, b), zeros |-> IF b = 0 THEN e.zeros + 1 ELSE 0]

Escaping(payload) ==
  LET upto[i \in 0..Len(payload)] ==
        IF i = 0 THEN [bytes |-> <<>>, zeros |-> 0]
        ELSE EscapeByte(upto[i - 1], payload[i])
  IN upto[Len(payload)]

Escape(payload) == Escaping(payload).bytes

Encoded(u) ==
  [i \in 1..u.padding |-> 0] \o StartCode(u.long) \o <<u.header>>
    \o Escape(u.payload)

EncodedUnits == [i \in DOMAIN stream |-> Encoded(stream[i])]
Bytes == FlattenSeq(EncodedUnits)

-----------------------------------------------------------------------------
Init ==
  /\ source \in Sources
  /\ stream \in Streams
  /\ passed = 0
  /\ chunk = <<>>
  /\ m_sync_accumulator = <<255, 255, 255, 255, 255>>
  /\ m_nalu = <<>>
  /\ m_have_unfinished_NAL = FALSE
  /\ m_rbsp_buffer = <<>>
  /\ m_consecutive_zeros = 0
  /\ finished = <<>>
  /\ parsed = <<>>
  /\ aborted = FALSE

Type(header) == header % 32
NalRefIdc(header) == (header \div 32) % 4

Good(header) ==
  IF NalRefIdc(header) = 0 THEN Type(header) # 5
  ELSE Type(header) \notin {6} \cup 9..12

NeedsParsing(header) == Type(header) \in {1, 2, 5, 6, 7, 8}

-----------------------------------------------------------------------------
(* find_start_code(): how far the search in bytes goes, given those before. *)

FoundAt(before, bytes, e) ==
  SubSeq(before \o bytes, Len(before) + e - 3, Len(before) + e - 1) = <<0, 0, 1>>

EndP_Bug(before, bytes) ==
  LET found == {e \in 4..Len(bytes) : FoundAt(before, bytes, e)}
  IN IF found = {} THEN Len(bytes) ELSE CHOOSE e \in found : \A d \in found : e <= d

EndP(before, bytes) ==
  LET found == {e \in 1..Len(bytes) : FoundAt(before, bytes, e)}
  IN IF found = {} THEN Len(bytes) ELSE CHOOSE e \in found : \A d \in found : e <= d

LastFive(bytes) == SubSeq(bytes, Len(bytes) - 4, Len(bytes))

(* fill_nalu(): the bytes of the next start code do not belong to the unit.  *)
(* Those of an earlier chunk are there already and are cut off again.        *)
Filled_Bug(nalu, bytes, found, long) ==
  nalu \o IF ~found THEN bytes
          ELSE SubSeq(bytes, 1, Len(bytes) - IF long THEN 5 ELSE 4)

Filled(nalu, bytes, found, long) ==
  LET len == Len(bytes) - IF ~found THEN 0 ELSE IF long THEN 5 ELSE 4
  IN SubSeq(nalu \o bytes, 1, Len(nalu) + len)

(* fillRBSP(): the 3 of 0, 0, 3 is left out. *)
UnescapeByte_Bug(r, b) ==
  IF r.zeros >= 2 /\ b = 3 THEN r
  ELSE [bytes |-> Append(r.bytes, b), zeros |-> IF b = 0 THEN r.zeros + 1 ELSE 0]

UnescapeByte(r, b) ==
  [bytes |-> IF r.zeros >= 2 /\ b = 3 THEN r.bytes ELSE Append(r.bytes, b),
   zeros |-> IF b = 0 THEN r.zeros + 1 ELSE 0]

Unescape(rbsp, zeros, bytes) ==
  LET upto[i \in 0..Len(bytes)] ==
        IF i = 0 THEN [bytes |-> rbsp, zeros |-> zeros]
        ELSE UnescapeByte(upto[i - 1], bytes[i])
  IN upto[Len(bytes)]

(* Its assertions on zeros: the byte after a third one is looked at even     *)
(* where it is beyond the bytes.                                             *)
TooManyZeros(zeros, bytes, beyond) ==
  LET Before(i) == Unescape(<<>>, zeros, SubSeq(bytes, 1, i)).zeros
  IN \E i \in DOMAIN bytes :
       \/ Before(i) > 3
       \/ Before(i) = 3 /\ (bytes \o beyond)[i + 1] # 1

(* The end of an RBSP, once the start code after it is in the buffer too. *)
Trimmed_Bug(rbsp) == SubSeq(rbsp, 1, Len(rbsp) - 4)

Trimmed(rbsp) ==
  LET n == Len(rbsp) - 4
  IN SubSeq(rbsp, 1, CHOOSE k \in 0..n :
                       /\ k > 0 => rbsp[k] # 0
                       /\ \A j \in (k + 1)..n : rbsp[j] = 0)

-----------------------------------------------------------------------------
(* The caller passes some bytes. *)
Pass(n) ==
  /\ ~aborted
  /\ chunk = <<>>
  /\ passed + n <= Len(Bytes)
  /\ chunk' = SubSeq(Bytes, passed + 1, passed + n)
  /\ passed' = passed + n
  /\ UNCHANGED <<source, stream, m_sync_accumulator, m_nalu,
                 m_have_unfinished_NAL, m_rbsp_buffer, m_consecutive_zeros,
                 finished, parsed, aborted>>

(* What one iteration of the loop in addBytes() looks at. *)
Scanned == SubSeq(chunk, 1, EndP(m_sync_accumulator, chunk))
Sync == LastFive(m_sync_accumulator \o Scanned)
Found == SubSeq(Sync, 2, 4) = <<0, 0, 1>>
RBSP == Unescape(m_rbsp_buffer, m_consecutive_zeros, Scanned)

(* What follows that in memory.  A file is mapped: behind the chunk comes    *)
(* the next of its bytes.  A camera's packet ends there, and what is behind  *)
(* it may be a 1 or not.                                                     *)
Anything == {0, 1}
Beyond(b) ==
  IF source = "file"
  THEN SubSeq(Bytes, passed - Len(chunk) + Len(Scanned) + 1, Len(Bytes))
  ELSE Append(SubSeq(chunk, Len(Scanned) + 1, Len(chunk)), b)

(* An assertion fails: on zeros, on an RBSP too short for the start code and *)
(* the header it was given, or on a malformed header.                        *)
Fails(b) ==
  \/ /\ m_have_unfinished_NAL
     /\ \/ TooManyZeros(m_consecutive_zeros, Scanned, Beyond(b))
        \/ Found /\ Len(RBSP.bytes) < 4
  \/ Found /\ ~Good(Sync[5])

Scan ==
  LET long   == Sync[1] = 0
      header == Sync[5]
      nalu   == Filled(m_nalu, Scanned, Found, long)
      rbsp   == RBSP
  IN /\ ~aborted
     /\ chunk # <<>>
     /\ \E b \in Anything : ~Fails(b)
     /\ chunk' = SubSeq(chunk, Len(Scanned) + 1, Len(chunk))
     /\ m_sync_accumulator' = Sync
     /\ IF Found
        THEN /\ parsed' = IF m_have_unfinished_NAL
                          THEN Append(parsed, Trimmed(rbsp.bytes)) ELSE parsed
             /\ finished' = IF nalu # <<>> THEN Append(finished, nalu) ELSE finished
             /\ m_nalu' = StartCode(long) \o <<header>>
             /\ m_have_unfinished_NAL' = NeedsParsing(header)
             /\ m_rbsp_buffer' = <<>>
             /\ m_consecutive_zeros' = 0
        ELSE /\ m_nalu' = nalu
             /\ m_rbsp_buffer' = IF m_have_unfinished_NAL
                                 THEN rbsp.bytes ELSE m_rbsp_buffer
             /\ m_consecutive_zeros' = IF m_have_unfinished_NAL
                                       THEN rbsp.zeros ELSE m_consecutive_zeros
             /\ UNCHANGED <<parsed, finished, m_have_unfinished_NAL>>
     /\ UNCHANGED <<source, stream, passed, aborted>>

ScanAborts ==
  /\ ~aborted
  /\ chunk # <<>>
  /\ \E b \in Anything : Fails(b)
  /\ aborted' = TRUE
  /\ UNCHANGED <<source, stream, passed, chunk, m_sync_accumulator, m_nalu,
                 m_have_unfinished_NAL, m_rbsp_buffer, m_consecutive_zeros,
                 finished, parsed>>

Next == (\E n \in 1..Len(Bytes) : Pass(n)) \/ Scan \/ ScanAborts

Spec == Init /\ [][Next]_vars

-----------------------------------------------------------------------------
(* Type invariant; the zeros counted are those at the end of what arrived. *)
TypeOK ==
  /\ passed \in 0..Len(Bytes)
  /\ Len(m_sync_accumulator) = 5
  /\ m_have_unfinished_NAL \in BOOLEAN
  /\ m_consecutive_zeros \in 0..3
  /\ m_consecutive_zeros > 0 => Last(m_nalu) = 0
  /\ aborted \in BOOLEAN

(* However the stream is cut into chunks, the NAL units are those the encoder *)
(* wrote, byte for byte, and what has not been finished is in m_nalu.         *)
UnitsExact ==
  /\ finished = SubSeq(EncodedUnits, 1, Len(finished))
  /\ FlattenSeq(finished) \o m_nalu = SubSeq(Bytes, 1, passed - Len(chunk))

(* The payloads to parse, of some units *)
ToParse(units) ==
  LET upto[i \in 0..Len(units)] ==
        IF i = 0 THEN <<>>
        ELSE IF NeedsParsing(units[i].header) THEN Append(upto[i - 1], units[i].payload)
             ELSE upto[i - 1]
  IN upto[Len(units)]

(* And what is parsed is the payload before emulation prevention: none is *)
(* truncated, extended, or mixed with another.                            *)
PayloadsExact == parsed = ToParse(SubSeq(stream, 1, Len(finished)))

(* A camera's packet ends in the third zero of a long start code, and the    *)
(* parser looks at what is behind it.                                        *)
LooksBehind ==
  /\ source = "camera"
  /\ m_have_unfinished_NAL
  /\ Scanned = chunk
  /\ Unescape(<<>>, m_consecutive_zeros, chunk).zeros = 3

(* The assertions of the parser hold for every stream of well-formed units,  *)
(* wherever it is cut, but where a packet is cut behind a third zero: there  *)
(* they depend on a byte that is not the packet's.                           *)
AssertionsHold ==
  (\A i \in DOMAIN stream : Good(stream[i].header)) => (aborted => LooksBehind)

(* "each NAL unit can be preceded by a start code prefix and extra padding *)
(* bytes": the parser survives padding too.                                *)
PaddingAccepted ==
  (\A i \in DOMAIN stream : Good(stream[i].header)) => ~aborted
=============================================================================
