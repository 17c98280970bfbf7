------------------------ MODULE AVCByteStreamProofs ------------------------
(***************************************************************************)
(* However the stream is cut into chunks, the NAL units and the payloads   *)
(* are those that the encoder wrote, and no assertion of the parser fails. *)
(***************************************************************************)
EXTENDS AVCByteStream, CommonLemmas

(* What holds of the empty sequence and of every sequence with one more *)
(* element holds of all.                                                *)
LEMMA SeqInduction ==
  ASSUME NEW A, NEW S, <<>> \in S,
         \A s \in Seq(A) : s \in S => \A x \in A : Append(s, x) \in S
  PROVE  \A s \in Seq(A) : s \in S
<1> DEFINE T == {n \in Nat : \A s \in Seq(A) : Len(s) = n => s \in S}
<1>1. 0 \in T
  <2>1. \A s \in Seq(A) : Len(s) = 0 => s = <<>>
    OBVIOUS
  <2> QED
    BY <2>1
<1>2. ASSUME NEW n \in Nat, n \in T
      PROVE  n + 1 \in T
  <2>1. ASSUME NEW s \in Seq(A), Len(s) = n + 1
        PROVE  s \in S
    <3>1. PICK front, x : front = SubSeq(s, 1, n) /\ x = s[n + 1]
      OBVIOUS
    <3>2. front \in Seq(A) /\ Len(front) = n /\ x \in A
      BY <2>1, <3>1
    <3>3. s = Append(front, x)
      BY <2>1, <3>1
    <3> QED
      BY <1>2, <3>2, <3>3
  <2> QED
    BY <2>1
<1> HIDE DEF T
<1>3. \A n \in Nat : n \in T
  BY <1>1, <1>2, SetInduction
<1>4. \A s \in Seq(A) : Len(s) \in Nat
  OBVIOUS
<1> QED
  BY <1>3, <1>4 DEF T

(* The laws of sequences of bytes that are used below *)
LEMMA Concatenation ==
  \A x, y \in Seq(Byte) :
    /\ x \o y \in Seq(Byte) /\ Len(x \o y) = Len(x) + Len(y)
    /\ \A i \in 1..Len(x) : (x \o y)[i] = x[i]
    /\ \A i \in 1..Len(y) : (x \o y)[Len(x) + i] = y[i]
  OBVIOUS

(* And those of a part of one *)
LEMMA SubSequence ==
  \A x \in Seq(Byte) : \A i, j \in 1..Len(x) :
    /\ i <= j => Len(SubSeq(x, i, j)) = j - i + 1 /\ SubSeq(x, i, j) \in Seq(Byte)
    /\ \A k \in 1..(j - i + 1) : SubSeq(x, i, j)[k] = x[i + k - 1]
  OBVIOUS

(* Two functions go on alike from where they are alike. *)
Alike(f, g, n) ==
  /\ n \in Nat
  /\ f[0] = g[0]
  /\ \A k \in 1..n : f[k - 1] = g[k - 1] => f[k] = g[k]

(* By induction, such functions are equal. *)
LEMMA AlikeUpto ==
  ASSUME NEW n, NEW f, NEW g, Alike(f, g, n)
  PROVE  \A k \in 0..n : f[k] = g[k]
<1> DEFINE S == {k \in 0..n : f[k] = g[k]}
<1>1. n \in Nat /\ 0 \in S
  BY DEF Alike
<1>2. \A k \in 1..n : k - 1 \in S => k \in S
  BY DEF Alike
<1> HIDE DEF S
<1>3. \A k \in 0..n : k \in S
  BY ONLY <1>1, <1>2, BoundedInduction
<1> QED
  BY <1>3 DEF S

-----------------------------------------------------------------------------
(* Bytes without emulation prevention, and the zeros at their end. *)
Recovered == [bytes : Seq(Byte), zeros : Nat]

(* A step of fillRBSP() keeps the type. *)
LEMMA UnescapeByteType ==
  ASSUME NEW r \in Recovered, NEW b \in Byte
  PROVE  UnescapeByte(r, b) \in Recovered
<1>1. r.bytes \in Seq(Byte) /\ Append(r.bytes, b) \in Seq(Byte) /\ r.zeros \in Nat
  BY DEF Recovered
<1> QED
  BY <1>1 DEF Recovered, UnescapeByte

(* The steps of fillRBSP() over s, as functions *)
UnescapeStep(s) == [k \in 1..Len(s) |-> [r \in Recovered |-> UnescapeByte(r, s[k])]]

(* f is what has been recovered after each byte of s. *)
Unescaping(f, rbsp, zeros, s) ==
  /\ f \in [0..Len(s) -> Recovered]
  /\ f[0] = [bytes |-> rbsp, zeros |-> zeros]
  /\ \A k \in 1..Len(s) : f[k] = UnescapeByte(f[k - 1], s[k])
  /\ Unescape(rbsp, zeros, s) = f[Len(s)]

(* Such an f exists. *)
LEMMA UnescapeIs ==
  ASSUME NEW rbsp \in Seq(Byte), NEW zeros \in Nat, NEW s \in Seq(Byte)
  PROVE  \E f : Unescaping(f, rbsp, zeros, s)
<1> DEFINE n == Len(s)
           F == UnescapeStep(s)
           base == [bytes |-> rbsp, zeros |-> zeros]
           Upto(g) == g = [k \in 0..n |-> IF k = 0 THEN base ELSE UnescapeByte(g[k - 1], s[k])]
           upto == CHOOSE g : Upto(g)
<1>1. n \in Nat /\ \A k \in 1..n : s[k] \in Byte
  OBVIOUS
<1>2. F \in [1..n -> [Recovered -> Recovered]]
  <2>1. \A k \in 1..n, r \in Recovered : UnescapeByte(r, s[k]) \in Recovered
    BY <1>1, UnescapeByteType
  <2> QED
    BY <2>1 DEF UnescapeStep
<1>3. base \in Recovered
  BY DEF Recovered
<1>10. Unescape(rbsp, zeros, s) = upto[n]
  BY DEF Unescape, upto, n
<1> HIDE DEF F, n, base
<1>4. PICK f : f \in [0..n -> Recovered] /\ Recursive(f, n, base, F)
  BY ONLY <1>1, <1>2, <1>3, RecursiveExists
<1>5. ASSUME NEW k \in 1..n
      PROVE  f[k] = UnescapeByte(f[k - 1], s[k])
  <2>1. k - 1 \in 0..n
    BY <1>1
  <2>2. f[k] = F[k][f[k - 1]] /\ f[k - 1] \in Recovered
    BY <1>4, <2>1 DEF Recursive
  <2> QED
    BY <2>2 DEF F, UnescapeStep, n
<1>6. Upto(f)
  <2>1. f[0] = base /\ DOMAIN f = 0..n
    BY <1>4 DEF Recursive
  <2>2. \A k \in 0..n : k # 0 => k \in 1..n
    BY <1>1
  <2> QED
    BY ONLY <1>4, <1>5, <2>1, <2>2
<1>7. Upto(upto)
  <2> HIDE DEF Upto
  <2> QED
    BY ONLY <1>6
<1> HIDE DEF upto
<1>8. upto[0] = base /\ \A k \in 1..n : upto[k] = UnescapeByte(upto[k - 1], s[k])
  <2>1. upto = [k \in 0..n |-> IF k = 0 THEN base ELSE UnescapeByte(upto[k - 1], s[k])]
    BY ONLY <1>7
  <2>2. \A k \in 0..n : upto[k] = IF k = 0 THEN base ELSE UnescapeByte(upto[k - 1], s[k])
    BY ONLY <2>1
  <2>3. 0 \in 0..n /\ \A k \in 1..n : k \in 0..n /\ k # 0
    BY <1>1
  <2> QED
    BY ONLY <2>2, <2>3
<1>9. \A k \in 0..n : upto[k] = f[k]
  <2>1. f[0] = base
    BY <1>4 DEF Recursive
  <2>2. Alike(upto, f, n)
    BY ONLY <1>1, <1>5, <1>8, <2>1 DEF Alike
  <2> QED
    BY ONLY <2>2, AlikeUpto
<1>11. Unescape(rbsp, zeros, s) = f[n]
  BY <1>1, <1>9, <1>10
<1>12. f[0] = base
  BY <1>4 DEF Recursive
<1> QED
  BY ONLY <1>4, <1>5, <1>11, <1>12 DEF n, base, Unescaping

(* One byte more. *)
LEMMA UnescapeGrows ==
  ASSUME NEW rbsp \in Seq(Byte), NEW zeros \in Nat, NEW s \in Seq(Byte), NEW b \in Byte
  PROVE  /\ Unescape(rbsp, zeros, <<>>) = [bytes |-> rbsp, zeros |-> zeros]
         /\ Unescape(rbsp, zeros, s) \in Recovered
         /\ Unescape(rbsp, zeros, Append(s, b)) = UnescapeByte(Unescape(rbsp, zeros, s), b)
<1> DEFINE n == Len(s)
           more == Append(s, b)
<1>1. /\ n \in Nat /\ more \in Seq(Byte) /\ Len(more) = n + 1
      /\ more[n + 1] = b /\ \A k \in 1..n : more[k] = s[k]
  OBVIOUS
<1>2. PICK f : Unescaping(f, rbsp, zeros, s)
  BY UnescapeIs
<1> HIDE DEF more
<1>3. PICK g : Unescaping(g, rbsp, zeros, more)
  BY ONLY <1>1, rbsp \in Seq(Byte), zeros \in Nat, UnescapeIs
<1> HIDE DEF n
<1>4. \A k \in 1..n : g[k] = UnescapeByte(g[k - 1], s[k])
  <2>1. \A k \in 1..n : k \in 1..Len(more)
    BY <1>1
  <2> QED
    BY ONLY <1>1, <1>3, <2>1 DEF Unescaping
<1>5. \A k \in 0..n : f[k] = g[k]
  <2>1. f[0] = g[0]
    BY ONLY <1>2, <1>3 DEF Unescaping
  <2>2. \A k \in 1..n : f[k] = UnescapeByte(f[k - 1], s[k])
    BY ONLY <1>2 DEF Unescaping, n
  <2>3. Alike(f, g, n)
    BY ONLY <1>1, <1>4, <2>1, <2>2 DEF Alike
  <2> QED
    BY ONLY <2>3, AlikeUpto
<1>6. g[n + 1] = UnescapeByte(g[n], b)
  <2> DEFINE m == Len(more)
  <2>1. m \in 1..m /\ m - 1 = n /\ m = n + 1
    BY ONLY <1>1
  <2>2. \A k \in 1..m : g[k] = UnescapeByte(g[k - 1], more[k])
    BY ONLY <1>3 DEF Unescaping
  <2> HIDE DEF m
  <2>3. g[m] = UnescapeByte(g[m - 1], more[m])
    BY ONLY <2>1, <2>2
  <2>4. more[m] = b
    BY ONLY <1>1, <2>1
  <2> QED
    BY ONLY <2>1, <2>3, <2>4
<1>7. Unescape(rbsp, zeros, s) \in Recovered
      /\ Unescape(rbsp, zeros, more) = UnescapeByte(Unescape(rbsp, zeros, s), b)
  <2>1. n \in 0..n
    BY <1>1
  <2>2. f[n] \in Recovered /\ Unescape(rbsp, zeros, s) = f[n]
    BY ONLY <1>2, <2>1 DEF Unescaping, n
  <2>3. Unescape(rbsp, zeros, more) = g[n + 1] /\ f[n] = g[n]
    BY ONLY <1>1, <1>3, <1>5, <2>1 DEF Unescaping
  <2> QED
    BY ONLY <1>6, <2>2, <2>3
<1>8. Unescape(rbsp, zeros, <<>>) = [bytes |-> rbsp, zeros |-> zeros]
  <2>1. PICK none \in Seq(Byte) : none = <<>> /\ Len(none) = 0
    <3>1. <<>> \in Seq(Byte) /\ Len(<<>>) = 0
      OBVIOUS
    <3> QED
      BY <3>1
  <2>2. PICK h : Unescaping(h, rbsp, zeros, none)
    BY ONLY <2>1, rbsp \in Seq(Byte), zeros \in Nat, UnescapeIs
  <2> QED
    BY <2>1, <2>2 DEF Unescaping
<1> QED
  BY ONLY <1>7, <1>8 DEF more

(* The same, fact by fact. *)
LEMMA UnescapeNone ==
  ASSUME NEW rbsp \in Seq(Byte), NEW zeros \in Nat
  PROVE  Unescape(rbsp, zeros, <<>>) = [bytes |-> rbsp, zeros |-> zeros]
<1>1. PICK b \in Byte, s \in Seq(Byte) : TRUE
  <2>1. 0 \in Byte
    BY DEF Byte
  <2>2. <<>> \in Seq(Byte)
    OBVIOUS
  <2> QED
    BY <2>1, <2>2
<1> QED
  BY ONLY UnescapeGrows, rbsp \in Seq(Byte), zeros \in Nat, s \in Seq(Byte), b \in Byte

(* What is recovered is bytes and a count. *)
LEMMA UnescapeType ==
  ASSUME NEW rbsp \in Seq(Byte), NEW zeros \in Nat, NEW s \in Seq(Byte)
  PROVE  Unescape(rbsp, zeros, s) \in Recovered
<1>1. PICK b \in Byte : TRUE
  <2>1. 0 \in Byte
    BY DEF Byte
  <2> QED
    BY <2>1
<1> QED
  BY ONLY UnescapeGrows, rbsp \in Seq(Byte), zeros \in Nat, s \in Seq(Byte), b \in Byte

(* One more byte is one more step. *)
LEMMA UnescapeMore ==
  ASSUME NEW rbsp \in Seq(Byte), NEW zeros \in Nat, NEW s \in Seq(Byte), NEW b \in Byte
  PROVE  Unescape(rbsp, zeros, Append(s, b)) = UnescapeByte(Unescape(rbsp, zeros, s), b)
  BY ONLY UnescapeGrows, rbsp \in Seq(Byte), zeros \in Nat, s \in Seq(Byte), b \in Byte, Zenon

(* What arrives in pieces is what arrives at once. *)
LEMMA UnescapeJoined ==
  ASSUME NEW rbsp \in Seq(Byte), NEW zeros \in Nat, NEW a \in Seq(Byte), NEW b \in Seq(Byte),
         NEW r, r = Unescape(rbsp, zeros, a)
  PROVE  Unescape(rbsp, zeros, a \o b) = Unescape(r.bytes, r.zeros, b)
<1> DEFINE S == {s \in Seq(Byte) : Unescape(rbsp, zeros, a \o s) = Unescape(r.bytes, r.zeros, s)}
<1>1. r \in Recovered /\ r.bytes \in Seq(Byte) /\ r.zeros \in Nat
  <2>1. r \in Recovered
    BY UnescapeType
  <2> QED
    BY <2>1 DEF Recovered
<1>2. <<>> \in S
  <2>1. a \o <<>> = a /\ <<>> \in Seq(Byte)
    OBVIOUS
  <2>2. Unescape(r.bytes, r.zeros, <<>>) = [bytes |-> r.bytes, zeros |-> r.zeros]
    BY ONLY <1>1, UnescapeNone
  <2>3. r = [bytes |-> r.bytes, zeros |-> r.zeros]
    BY <1>1 DEF Recovered
  <2> QED
    BY <2>1, <2>2, <2>3
<1>3. ASSUME NEW s \in Seq(Byte), s \in S, NEW x \in Byte
      PROVE  Append(s, x) \in S
  <2>1. /\ a \o Append(s, x) = Append(a \o s, x)
        /\ a \o s \in Seq(Byte) /\ Append(s, x) \in Seq(Byte)
    OBVIOUS
  <2>2. Unescape(rbsp, zeros, Append(a \o s, x)) = UnescapeByte(Unescape(rbsp, zeros, a \o s), x)
    <3> PICK c, d : c = a \o s /\ d = Append(c, x)
      OBVIOUS
    <3>1. c \in Seq(Byte)
      BY <2>1
    <3>2. Unescape(rbsp, zeros, Append(c, x)) = UnescapeByte(Unescape(rbsp, zeros, c), x)
      BY <3>1, UnescapeMore, Zenon
    <3> QED
      BY ONLY <3>2, c = a \o s, d = Append(c, x)
  <2>3. Unescape(r.bytes, r.zeros, Append(s, x))
          = UnescapeByte(Unescape(r.bytes, r.zeros, s), x)
    <3> PICK y, z, d : y = r.bytes /\ z = r.zeros /\ d = Append(s, x)
      OBVIOUS
    <3>1. y \in Seq(Byte) /\ z \in Nat
      BY ONLY <1>1, y = r.bytes, z = r.zeros
    <3>2. Unescape(y, z, Append(s, x)) = UnescapeByte(Unescape(y, z, s), x)
      BY ONLY <3>1, s \in Seq(Byte), x \in Byte, UnescapeMore
    <3> QED
      BY ONLY <3>2, y = r.bytes, z = r.zeros, d = Append(s, x)
  <2> QED
    BY <1>3, <2>1, <2>2, <2>3
<1> HIDE DEF S
<1>4. \A s \in Seq(Byte) : s \in S
  BY ONLY <1>2, <1>3, SeqInduction
<1> QED
  BY <1>4 DEF S

-----------------------------------------------------------------------------
(* The encoder's side *)
LEMMA EscapeByteType ==
  ASSUME NEW e \in Recovered, NEW b \in Byte
  PROVE  EscapeByte(e, b) \in Recovered
<1>1. e.bytes \in Seq(Byte) /\ e.zeros \in Nat /\ 3 \in Byte
  BY DEF Recovered, Byte
<1>2. Append(e.bytes, b) \in Seq(Byte) /\ <<3, b>> \in Seq(Byte)
  BY <1>1
<1>3. e.bytes \o <<3, b>> \in Seq(Byte)
  BY <1>1, <1>2
<1> QED
  BY <1>1, <1>2, <1>3 DEF Recovered, EscapeByte

(* The same for the encoder: its steps over s, *)
EscapeStep(s) == [k \in 1..Len(s) |-> [e \in Recovered |-> EscapeByte(e, s[k])]]

(* what it has written after each byte, *)
EscapingBy(f, s) ==
  /\ f \in [0..Len(s) -> Recovered]
  /\ f[0] = [bytes |-> <<>>, zeros |-> 0]
  /\ \A k \in 1..Len(s) : f[k] = EscapeByte(f[k - 1], s[k])
  /\ Escaping(s) = f[Len(s)]

(* and that this exists. *)
LEMMA EscapingIs ==
  ASSUME NEW s \in Seq(Byte)
  PROVE  \E f : EscapingBy(f, s)
<1> DEFINE n == Len(s)
           F == EscapeStep(s)
           base == [bytes |-> <<>>, zeros |-> 0]
           Upto(g) == g = [k \in 0..n |-> IF k = 0 THEN base ELSE EscapeByte(g[k - 1], s[k])]
           upto == CHOOSE g : Upto(g)
<1>1. n \in Nat /\ \A k \in 1..n : s[k] \in Byte
  OBVIOUS
<1>2. F \in [1..n -> [Recovered -> Recovered]]
  <2>1. \A k \in 1..n, e \in Recovered : EscapeByte(e, s[k]) \in Recovered
    BY <1>1, EscapeByteType
  <2> QED
    BY <2>1 DEF EscapeStep
<1>3. base \in Recovered
  <2>1. <<>> \in Seq(Byte)
    OBVIOUS
  <2> QED
    BY <2>1 DEF Recovered
<1>10. Escaping(s) = upto[n]
  BY DEF Escaping, upto, n
<1> HIDE DEF F, n, base
<1>4. PICK f : f \in [0..n -> Recovered] /\ Recursive(f, n, base, F)
  BY ONLY <1>1, <1>2, <1>3, RecursiveExists
<1>5. ASSUME NEW k \in 1..n
      PROVE  f[k] = EscapeByte(f[k - 1], s[k])
  <2>1. k - 1 \in 0..n
    BY <1>1
  <2>2. f[k] = F[k][f[k - 1]] /\ f[k - 1] \in Recovered
    BY <1>4, <2>1 DEF Recursive
  <2> QED
    BY <2>2 DEF F, EscapeStep, n
<1>6. Upto(f)
  <2>1. f[0] = base /\ DOMAIN f = 0..n
    BY <1>4 DEF Recursive
  <2>2. \A k \in 0..n : k # 0 => k \in 1..n
    BY <1>1
  <2> QED
    BY ONLY <1>4, <1>5, <2>1, <2>2
<1>7. Upto(upto)
  <2> HIDE DEF Upto
  <2> QED
    BY ONLY <1>6
<1> HIDE DEF upto
<1>8. upto[0] = base /\ \A k \in 1..n : upto[k] = EscapeByte(upto[k - 1], s[k])
  <2>1. upto = [k \in 0..n |-> IF k = 0 THEN base ELSE EscapeByte(upto[k - 1], s[k])]
    BY ONLY <1>7
  <2>2. \A k \in 0..n : upto[k] = IF k = 0 THEN base ELSE EscapeByte(upto[k - 1], s[k])
    BY ONLY <2>1
  <2>3. 0 \in 0..n /\ \A k \in 1..n : k \in 0..n /\ k # 0
    BY <1>1
  <2> QED
    BY ONLY <2>2, <2>3
<1>9. \A k \in 0..n : upto[k] = f[k]
  <2>1. f[0] = base
    BY <1>4 DEF Recursive
  <2>2. Alike(upto, f, n)
    BY ONLY <1>1, <1>5, <1>8, <2>1 DEF Alike
  <2> QED
    BY ONLY <2>2, AlikeUpto
<1>11. Escaping(s) = f[n]
  BY <1>1, <1>9, <1>10
<1>12. f[0] = base
  BY <1>4 DEF Recursive
<1> QED
  BY ONLY <1>4, <1>5, <1>11, <1>12 DEF n, base, EscapingBy

(* One more byte is one more step of the encoder. *)
LEMMA EscapingGrows ==
  ASSUME NEW s \in Seq(Byte), NEW b \in Byte
  PROVE  /\ Escaping(<<>>) = [bytes |-> <<>>, zeros |-> 0]
         /\ Escaping(s) \in Recovered
         /\ Escaping(Append(s, b)) = EscapeByte(Escaping(s), b)
<1> DEFINE n == Len(s)
           more == Append(s, b)
<1>1. /\ n \in Nat /\ more \in Seq(Byte) /\ Len(more) = n + 1
      /\ more[n + 1] = b /\ \A k \in 1..n : more[k] = s[k]
  OBVIOUS
<1>2. PICK f : EscapingBy(f, s)
  BY EscapingIs
<1> HIDE DEF more
<1>3. PICK g : EscapingBy(g, more)
  BY ONLY <1>1, EscapingIs
<1> HIDE DEF n
<1>4. \A k \in 1..n : g[k] = EscapeByte(g[k - 1], s[k])
  <2>1. \A k \in 1..n : k \in 1..Len(more)
    BY <1>1
  <2> QED
    BY ONLY <1>1, <1>3, <2>1 DEF EscapingBy
<1>5. \A k \in 0..n : f[k] = g[k]
  <2>1. f[0] = g[0]
    BY ONLY <1>2, <1>3 DEF EscapingBy
  <2>2. \A k \in 1..n : f[k] = EscapeByte(f[k - 1], s[k])
    BY ONLY <1>2 DEF EscapingBy, n
  <2>3. Alike(f, g, n)
    BY ONLY <1>1, <1>4, <2>1, <2>2 DEF Alike
  <2> QED
    BY ONLY <2>3, AlikeUpto
<1>6. g[n + 1] = EscapeByte(g[n], b)
  <2> DEFINE m == Len(more)
  <2>1. m \in 1..m /\ m - 1 = n /\ m = n + 1
    BY ONLY <1>1
  <2>2. \A k \in 1..m : g[k] = EscapeByte(g[k - 1], more[k])
    BY ONLY <1>3 DEF EscapingBy
  <2> HIDE DEF m
  <2>3. g[m] = EscapeByte(g[m - 1], more[m])
    BY ONLY <2>1, <2>2
  <2>4. more[m] = b
    BY ONLY <1>1, <2>1
  <2> QED
    BY ONLY <2>1, <2>3, <2>4
<1>7. Escaping(s) \in Recovered /\ Escaping(more) = EscapeByte(Escaping(s), b)
  <2>1. n \in 0..n
    BY <1>1
  <2>2. f[n] \in Recovered /\ Escaping(s) = f[n]
    BY ONLY <1>2, <2>1 DEF EscapingBy, n
  <2>3. Escaping(more) = g[n + 1] /\ f[n] = g[n]
    BY ONLY <1>1, <1>3, <1>5, <2>1 DEF EscapingBy
  <2> QED
    BY ONLY <1>6, <2>2, <2>3
<1>8. Escaping(<<>>) = [bytes |-> <<>>, zeros |-> 0]
  <2>1. PICK none \in Seq(Byte) : none = <<>> /\ Len(none) = 0
    <3>1. <<>> \in Seq(Byte) /\ Len(<<>>) = 0
      OBVIOUS
    <3> QED
      BY <3>1
  <2>2. PICK h : EscapingBy(h, none)
    BY ONLY <2>1, EscapingIs
  <2> QED
    BY <2>1, <2>2 DEF EscapingBy
<1> QED
  BY ONLY <1>7, <1>8 DEF more

(* The zeros at the end that are counted are there. *)
LEMMA ZerosAtEnd ==
  ASSUME NEW rbsp \in Seq(Byte), NEW s \in Seq(Byte), NEW z, z = Unescape(rbsp, 0, s).zeros
  PROVE  z \in 0..Len(s) /\ \A i \in (Len(s) - z + 1)..Len(s) : s[i] = 0
<1> DEFINE Ends(c) ==
             LET y == Unescape(rbsp, 0, c).zeros
             IN y \in 0..Len(c) /\ \A i \in (Len(c) - y + 1)..Len(c) : c[i] = 0
           S == {c \in Seq(Byte) : Ends(c)}
<1>1. <<>> \in S
  <2>1. <<>> \in Seq(Byte) /\ Len(<<>>) = 0
    OBVIOUS
  <2>2. Unescape(rbsp, 0, <<>>) = [bytes |-> rbsp, zeros |-> 0]
    BY UnescapeNone
  <2>3. Unescape(rbsp, 0, <<>>).zeros = 0
    BY <2>2
  <2> QED
    BY <2>1, <2>3
<1>2. ASSUME NEW c \in Seq(Byte), c \in S, NEW x \in Byte
      PROVE  Append(c, x) \in S
  <2>1. PICK r : r = Unescape(rbsp, 0, c)
    OBVIOUS
  <2>2. r \in Recovered /\ Unescape(rbsp, 0, Append(c, x)) = UnescapeByte(r, x)
    <3>1. 0 \in Nat
      OBVIOUS
    <3>2. Unescape(rbsp, 0, c) \in Recovered
      BY <3>1, UnescapeType, Zenon
    <3>3. Unescape(rbsp, 0, Append(c, x)) = UnescapeByte(Unescape(rbsp, 0, c), x)
      BY <3>1, UnescapeMore, Zenon
    <3> QED
      BY <2>1, <3>2, <3>3
  <2>3. PICK y : y = UnescapeByte(r, x).zeros
    OBVIOUS
  <2>4. y = IF x = 0 THEN r.zeros + 1 ELSE 0
    BY <2>3 DEF UnescapeByte
  <2>5. r.zeros \in 0..Len(c) /\ \A i \in (Len(c) - r.zeros + 1)..Len(c) : c[i] = 0
    BY <1>2, <2>1
  <2>6. PICK d : d = Append(c, x)
    OBVIOUS
  <2>7. /\ d \in Seq(Byte) /\ Len(d) = Len(c) + 1 /\ d[Len(c) + 1] = x
        /\ \A i \in 1..Len(c) : d[i] = c[i]
    BY <2>6
  <2>8. y \in 0..Len(d) /\ \A i \in (Len(d) - y + 1)..Len(d) : d[i] = 0
    <3>1. CASE x # 0
      BY <2>4, <2>7, <3>1
    <3>2. CASE x = 0
      <4>1. y = r.zeros + 1 /\ Len(d) - y + 1 = Len(c) - r.zeros + 1
        BY <2>4, <2>5, <2>7, <3>2
      <4>2. y \in 0..Len(d)
        BY <2>5, <2>7, <4>1
      <4>3. ASSUME NEW i \in (Len(d) - y + 1)..Len(d)
            PROVE  d[i] = 0
        <5>1. CASE i = Len(c) + 1
          BY <2>7, <3>2, <5>1
        <5>2. CASE i # Len(c) + 1
          <6>1. i \in 1..Len(c) /\ i \in (Len(c) - r.zeros + 1)..Len(c)
            BY <2>5, <2>7, <4>1, <5>2
          <6> QED
            BY <2>5, <2>7, <6>1
        <5> QED
          BY <5>1, <5>2
      <4> QED
        BY <4>2, <4>3
    <3> QED
      BY <3>1, <3>2
  <2>9. Ends(d)
    BY <2>2, <2>3, <2>6, <2>8
  <2> QED
    BY <2>6, <2>7, <2>9
<1> HIDE DEF S
<1>3. \A c \in Seq(Byte) : c \in S
  BY ONLY <1>1, <1>2, SeqInduction
<1> QED
  BY <1>3 DEF S

(* What the encoder has written of a payload p when it has written e.  No two *)
(* zeros are followed by a byte up to 2, or by a third zero.                  *)
EscapedRight(p, e) ==
  LET n == Len(e.bytes)
  IN /\ e \in Recovered /\ e.zeros \in 0..2
     /\ Unescape(<<>>, 0, e.bytes) = [bytes |-> p, zeros |-> e.zeros]
     /\ \A i \in 3..n : e.bytes[i - 2] = 0 /\ e.bytes[i - 1] = 0 => e.bytes[i] >= 3
     /\ e.zeros = 0 => n = 0 \/ e.bytes[n] # 0
     /\ e.zeros = 1 => n < 2 \/ e.bytes[n - 1] # 0
     /\ p = <<>> => n = 0
     /\ p # <<>> => n > 0 /\ e.bytes[n] = p[Len(p)]

(* By induction over the payload *)
LEMMA EscapingRight ==
  ASSUME NEW p \in Seq(Byte)
  PROVE  EscapedRight(p, Escaping(p))
<1> DEFINE S == {c \in Seq(Byte) : EscapedRight(c, Escaping(c))}
<1>1. PICK none \in Seq(Byte) : none = <<>> /\ Len(none) = 0
  <2>1. <<>> \in Seq(Byte) /\ Len(<<>>) = 0
    OBVIOUS
  <2> QED
    BY <2>1
<1>2. none \in S
  <2>1. 0 \in Byte
    BY DEF Byte
  <2>2. Escaping(none) = [bytes |-> none, zeros |-> 0]
    BY <1>1, <2>1, EscapingGrows
  <2>3. Unescape(none, 0, none) = [bytes |-> none, zeros |-> 0]
    BY <1>1, UnescapeNone
  <2>4. PICK e : e = [bytes |-> none, zeros |-> 0]
    OBVIOUS
  <2>5. e.bytes = none /\ e.zeros = 0 /\ e \in Recovered
    BY <2>4 DEF Recovered
  <2>6. EscapedRight(none, e)
    BY <1>1, <2>3, <2>4, <2>5 DEF EscapedRight
  <2> QED
    BY <2>2, <2>4, <2>6
<1>3. ASSUME NEW c \in Seq(Byte), c \in S, NEW x \in Byte
      PROVE  Append(c, x) \in S
  <2>1. PICK e, d : e = Escaping(c) /\ d = Escaping(Append(c, x))
    OBVIOUS
  <2>2. d = EscapeByte(e, x) /\ EscapedRight(c, e) /\ e \in Recovered
    BY <1>3, <2>1, EscapingGrows DEF EscapedRight
  <2>3. PICK n : n = Len(e.bytes)
    OBVIOUS
  <2>9. e.bytes \in Seq(Byte) /\ e.zeros \in Nat /\ 0 \in Nat /\ 3 \in Byte /\ x \in Byte
    BY <2>2 DEF Recovered, Byte
  <2>10. n \in Nat
    BY <2>3, <2>9
  <2>11. e.zeros \in 0..2
    BY <2>2 DEF EscapedRight
  <2>12. /\ Append(c, x) \in Seq(Byte) /\ Len(Append(c, x)) > 0 /\ Append(c, x) # <<>>
         /\ Append(c, x)[Len(Append(c, x))] = x
    OBVIOUS
  <2>13. x \in 0..255
    BY DEF Byte
  <2>4. /\ n \in Nat /\ e.zeros \in 0..2 /\ e.bytes \in Seq(Byte) /\ 3 \in Byte
        /\ Append(c, x) \in Seq(Byte) /\ Len(Append(c, x)) > 0 /\ Append(c, x) # <<>>
        /\ Append(c, x)[Len(Append(c, x))] = x /\ x \in 0..255
    BY ONLY <2>9, <2>10, <2>11, <2>12, <2>13
  <2>5. Unescape(none, 0, e.bytes) = [bytes |-> c, zeros |-> e.zeros]
    BY <1>1, <2>2 DEF EscapedRight
  <2>6. PICK more : more = Append(c, x)
    OBVIOUS
  <2>7. CASE e.zeros >= 2 /\ x <= 3
    <3>1. PICK w : w = Append(e.bytes, 3)
      OBVIOUS
    <3>2. /\ w \in Seq(Byte) /\ Len(w) = n + 1 /\ w[n + 1] = 3
          /\ \A i \in 1..n : w[i] = e.bytes[i]
      BY <2>3, <2>4, <3>1
    <3>3. PICK v : v = Append(w, x)
      OBVIOUS
    <3>4. /\ v \in Seq(Byte) /\ Len(v) = n + 2 /\ v[n + 2] = x /\ v[n + 1] = 3
          /\ \A i \in 1..n : v[i] = e.bytes[i]
      BY <2>4, <3>2, <3>3
    <3>5. v = e.bytes \o <<3, x>>
      BY <2>4, <3>1, <3>3
    <3>6. d = [bytes |-> v, zeros |-> IF x = 0 THEN 1 ELSE 0]
      BY <2>2, <2>7, <3>5 DEF EscapeByte
    <3>7. Unescape(none, 0, w) = [bytes |-> c, zeros |-> 0]
      <4>1. Unescape(none, 0, w) = UnescapeByte([bytes |-> c, zeros |-> e.zeros], 3)
        <5>1. Unescape(none, 0, Append(e.bytes, 3)) = UnescapeByte(Unescape(none, 0, e.bytes), 3)
          BY ONLY <2>9, 0 \in Nat, none \in Seq(Byte), UnescapeMore
        <5> QED
          BY ONLY <5>1, <2>5, <3>1
      <4> QED
        BY <2>7, <4>1 DEF UnescapeByte
    <3>8. Unescape(none, 0, v) = [bytes |-> more, zeros |-> IF x = 0 THEN 1 ELSE 0]
      <4>1. Unescape(none, 0, v) = UnescapeByte([bytes |-> c, zeros |-> 0], x)
        <5>1. Unescape(none, 0, Append(w, x)) = UnescapeByte(Unescape(none, 0, w), x)
          BY ONLY <2>9, <3>2, 0 \in Nat, none \in Seq(Byte), UnescapeMore
        <5> QED
          BY ONLY <5>1, <3>3, <3>7
      <4> QED
        BY <2>6, <4>1 DEF UnescapeByte
    <3>9. d.bytes = v /\ d.zeros = (IF x = 0 THEN 1 ELSE 0) /\ d \in Recovered
      BY <3>4, <3>6 DEF Recovered
    <3>10. \A i \in 3..(n + 2) : v[i - 2] = 0 /\ v[i - 1] = 0 => v[i] >= 3
      <4> TAKE i \in 3..(n + 2)
      <4>1. CASE i = n + 2
        BY <2>4, <3>4, <4>1
      <4>2. CASE i = n + 1
        BY <2>4, <3>4, <4>2
      <4>3. CASE i \in 3..n
        <5>1. i \in 1..n /\ i - 1 \in 1..n /\ i - 2 \in 1..n
          BY <2>4, <4>3
        <5>2. e.bytes[i - 2] = 0 /\ e.bytes[i - 1] = 0 => e.bytes[i] >= 3
          BY <2>2, <2>3, <4>3 DEF EscapedRight
        <5> QED
          BY <3>4, <5>1, <5>2
      <4> QED
        BY <2>4, <4>1, <4>2, <4>3
    <3>11. d.zeros \in 0..2 /\ Unescape(<<>>, 0, d.bytes) = [bytes |-> more, zeros |-> d.zeros]
      BY <1>1, <3>8, <3>9
    <3>12. /\ d.zeros = 0 => v[n + 2] # 0
           /\ d.zeros = 1 => v[n + 1] # 0
      BY <3>4, <3>9
    <3>13. more \in Seq(Byte) /\ more # <<>> /\ more[Len(more)] = x
      BY <2>4, <2>6
    <3>14. Len(d.bytes) = n + 2 /\ d.bytes[n + 2] = x /\ n + 2 > 0 /\ n + 2 - 1 = n + 1
      BY <2>10, <3>4, <3>9
    <3>16. \A i \in 3..Len(d.bytes) :
             d.bytes[i - 2] = 0 /\ d.bytes[i - 1] = 0 => d.bytes[i] >= 3
      BY ONLY <3>9, <3>10, <3>14
    <3>15. EscapedRight(more, d)
      <4>1. /\ d.zeros = 0 => Len(d.bytes) = 0 \/ d.bytes[Len(d.bytes)] # 0
            /\ d.zeros = 1 => Len(d.bytes) < 2 \/ d.bytes[Len(d.bytes) - 1] # 0
        <5> PICK m : m = Len(d.bytes)
          OBVIOUS
        <5>1. m = n + 2 /\ m - 1 = n + 1
          BY ONLY <2>10, <3>14, m = Len(d.bytes)
        <5> QED
          BY ONLY <3>9, <3>12, <5>1, m = Len(d.bytes)
      <4>2. more # <<>> /\ Len(d.bytes) > 0 /\ d.bytes[Len(d.bytes)] = more[Len(more)]
        BY ONLY <3>13, <3>14
      <4> QED
        BY ONLY <3>9, <3>11, <3>16, <4>1, <4>2 DEF EscapedRight
    <3> QED
      BY ONLY <2>1, <2>6, <3>13, <3>15 DEF S
  <2>8. CASE ~(e.zeros >= 2 /\ x <= 3)
    <3>1. PICK w : w = Append(e.bytes, x)
      OBVIOUS
    <3>2. /\ w \in Seq(Byte) /\ Len(w) = n + 1 /\ w[n + 1] = x
          /\ \A i \in 1..n : w[i] = e.bytes[i]
      BY <2>3, <2>4, <3>1
    <3>3. d = [bytes |-> w, zeros |-> IF x = 0 THEN e.zeros + 1 ELSE 0]
      BY <2>2, <2>8, <3>1 DEF EscapeByte
    <3>4. d.bytes = w /\ d.zeros = (IF x = 0 THEN e.zeros + 1 ELSE 0) /\ d \in Recovered
      BY <2>4, <3>2, <3>3 DEF Recovered
    <3>5. d.zeros \in 0..2
      BY <2>4, <2>8, <3>4
    <3>6. Unescape(none, 0, w) = [bytes |-> more, zeros |-> d.zeros]
      <4>1. Unescape(none, 0, w) = UnescapeByte([bytes |-> c, zeros |-> e.zeros], x)
        <5>1. Unescape(none, 0, Append(e.bytes, x)) = UnescapeByte(Unescape(none, 0, e.bytes), x)
          BY ONLY <2>9, 0 \in Nat, none \in Seq(Byte), UnescapeMore
        <5> QED
          BY ONLY <5>1, <2>5, <3>1
      <4>2. ~(e.zeros >= 2 /\ x = 3)
        BY <2>8
      <4> QED
        BY <2>6, <3>4, <4>1, <4>2 DEF UnescapeByte
    <3>7. \A i \in 3..(n + 1) : w[i - 2] = 0 /\ w[i - 1] = 0 => w[i] >= 3
      <4> TAKE i \in 3..(n + 1)
      <4>1. CASE i = n + 1
        <5> SUFFICES ASSUME w[n - 1] = 0, w[n] = 0 PROVE x >= 3
          BY <2>4, <3>2, <4>1
        <5>1. n \in 1..n /\ n - 1 \in 1..n /\ n >= 2
          BY <2>4, <4>1
        <5>2. e.bytes[n] = 0 /\ e.bytes[n - 1] = 0
          BY <3>2, <5>1
        <5>3. e.zeros # 0 /\ e.zeros # 1
          BY <2>2, <2>3, <2>4, <5>1, <5>2 DEF EscapedRight
        <5>4. e.zeros >= 2
          BY <2>4, <5>3
        <5> QED
          BY <2>4, <2>8, <5>4
      <4>2. CASE i \in 3..n
        <5>1. i \in 1..n /\ i - 1 \in 1..n /\ i - 2 \in 1..n
          BY <2>4, <4>2
        <5>2. e.bytes[i - 2] = 0 /\ e.bytes[i - 1] = 0 => e.bytes[i] >= 3
          BY <2>2, <2>3, <4>2 DEF EscapedRight
        <5> QED
          BY <3>2, <5>1, <5>2
      <4> QED
        BY <2>4, <4>1, <4>2
    <3>8. /\ d.zeros = 0 => w[n + 1] # 0
          /\ d.zeros = 1 => n + 1 < 2 \/ w[n] # 0
      <4>1. d.zeros = 0 => x # 0
        BY <2>4, <3>4
      <4>2. ASSUME d.zeros = 1, n + 1 >= 2 PROVE w[n] # 0
        <5>1. e.zeros = 0 /\ n \in 1..n /\ n # 0
          BY <2>4, <3>4, <4>2
        <5> QED
          BY <2>2, <2>3, <3>2, <5>1 DEF EscapedRight
      <4> QED
        BY <2>4, <3>2, <4>1, <4>2
    <3>9. more \in Seq(Byte) /\ more # <<>> /\ more[Len(more)] = x
      BY <2>4, <2>6
    <3>10. Len(d.bytes) = n + 1 /\ d.bytes[n + 1] = x /\ n + 1 > 0 /\ n + 1 - 1 = n
      BY <2>10, <3>2, <3>4
    <3>11. Unescape(<<>>, 0, d.bytes) = [bytes |-> more, zeros |-> d.zeros]
      BY <1>1, <3>4, <3>6
    <3>13. \A i \in 3..Len(d.bytes) :
             d.bytes[i - 2] = 0 /\ d.bytes[i - 1] = 0 => d.bytes[i] >= 3
      BY ONLY <3>4, <3>7, <3>10
    <3>12. EscapedRight(more, d)
      <4>1. /\ d.zeros = 0 => Len(d.bytes) = 0 \/ d.bytes[Len(d.bytes)] # 0
            /\ d.zeros = 1 => Len(d.bytes) < 2 \/ d.bytes[Len(d.bytes) - 1] # 0
        <5> PICK m : m = Len(d.bytes)
          OBVIOUS
        <5>1. m = n + 1 /\ m - 1 = n
          BY ONLY <2>10, <3>10, m = Len(d.bytes)
        <5> QED
          BY ONLY <3>4, <3>8, <5>1, m = Len(d.bytes)
      <4>2. more # <<>> /\ Len(d.bytes) > 0 /\ d.bytes[Len(d.bytes)] = more[Len(more)]
        BY ONLY <3>9, <3>10
      <4> QED
        BY ONLY <3>4, <3>5, <3>11, <3>13, <4>1, <4>2 DEF EscapedRight
    <3> QED
      BY ONLY <2>1, <2>6, <3>9, <3>12 DEF S
  <2> QED
    BY <2>7, <2>8
<1> HIDE DEF S
<1>4. \A c \in Seq(Byte) : c \in S
  BY ONLY <1>1, <1>2, <1>3, SeqInduction
<1> QED
  BY <1>4 DEF S

-----------------------------------------------------------------------------
(* The start code and header that end a payload are kept as they are. *)
LEMMA StartCodeKept ==
  ASSUME NEW p \in Seq(Byte), NEW long \in BOOLEAN, NEW h \in Byte
  PROVE  Unescape(p, 0, StartCode(long) \o <<h>>).bytes = p \o (StartCode(long) \o <<h>>)
<1>1. 0 \in Byte /\ 1 \in Byte /\ 0 \in Nat
  BY DEF Byte
<1>2. PICK s0 : s0 = <<>>
  OBVIOUS
<1>3. PICK s1, s2, s3 : s1 = Append(s0, 0) /\ s2 = Append(s1, 0) /\ s3 = Append(s2, 0)
  OBVIOUS
<1>4. s0 \in Seq(Byte) /\ s1 \in Seq(Byte) /\ s2 \in Seq(Byte) /\ s3 \in Seq(Byte)
  BY <1>1, <1>2, <1>3
<1>5. PICK b1, b2, b3 : b1 = Append(p, 0) /\ b2 = Append(b1, 0) /\ b3 = Append(b2, 0)
  OBVIOUS
<1>6. b1 \in Seq(Byte) /\ b2 \in Seq(Byte) /\ b3 \in Seq(Byte)
  BY <1>1, <1>5
<1>7. Unescape(p, 0, s0) = [bytes |-> p, zeros |-> 0]
  BY ONLY <1>1, <1>2, p \in Seq(Byte), UnescapeNone
<1>8. Unescape(p, 0, s1) = [bytes |-> b1, zeros |-> 1]
  <2>1. Unescape(p, 0, Append(s0, 0)) = UnescapeByte(Unescape(p, 0, s0), 0)
    BY ONLY <1>1, <1>4, p \in Seq(Byte), UnescapeMore
  <2> QED
    BY ONLY <1>3, <1>5, <1>7, <2>1 DEF UnescapeByte
<1>9. Unescape(p, 0, s2) = [bytes |-> b2, zeros |-> 2]
  <2>1. Unescape(p, 0, Append(s1, 0)) = UnescapeByte(Unescape(p, 0, s1), 0)
    BY ONLY <1>1, <1>4, p \in Seq(Byte), UnescapeMore
  <2> QED
    BY ONLY <1>3, <1>5, <1>8, <2>1 DEF UnescapeByte
<1>10. Unescape(p, 0, s3) = [bytes |-> b3, zeros |-> 3]
  <2>1. Unescape(p, 0, Append(s2, 0)) = UnescapeByte(Unescape(p, 0, s2), 0)
    BY ONLY <1>1, <1>4, p \in Seq(Byte), UnescapeMore
  <2> QED
    BY ONLY <1>3, <1>5, <1>9, <2>1 DEF UnescapeByte
<1>11. ASSUME NEW s \in Seq(Byte), NEW b \in Seq(Byte), NEW z \in Nat,
              Unescape(p, 0, s) = [bytes |-> b, zeros |-> z]
       PROVE  Unescape(p, 0, Append(Append(s, 1), h)).bytes = Append(Append(b, 1), h)
  <2>1. PICK t : t = Append(s, 1)
    OBVIOUS
  <2>2. t \in Seq(Byte)
    BY <1>1, <2>1
  <2>3. Unescape(p, 0, Append(s, 1)) = UnescapeByte(Unescape(p, 0, s), 1)
    BY ONLY <1>1, s \in Seq(Byte), p \in Seq(Byte), UnescapeMore
  <2>4. Unescape(p, 0, t) = [bytes |-> Append(b, 1), zeros |-> 0]
    BY ONLY <1>11, <2>1, <2>3 DEF UnescapeByte
  <2>5. Unescape(p, 0, Append(t, h)) = UnescapeByte(Unescape(p, 0, t), h)
    BY ONLY <1>1, <2>2, h \in Byte, p \in Seq(Byte), UnescapeMore
  <2> QED
    BY ONLY <2>1, <2>4, <2>5 DEF UnescapeByte
<1>12. CASE long
  <2>1. StartCode(long) \o <<h>> = Append(Append(s3, 1), h)
    BY ONLY <1>2, <1>3, <1>12 DEF StartCode
  <2>2. p \o (StartCode(long) \o <<h>>) = Append(Append(b3, 1), h)
    BY ONLY <1>5, <1>12, p \in Seq(Byte), h \in Byte, <1>1 DEF StartCode
  <2>3. Unescape(p, 0, Append(Append(s3, 1), h)).bytes = Append(Append(b3, 1), h)
    BY ONLY <1>4, <1>6, <1>10, <1>11
  <2> QED
    BY ONLY <2>1, <2>2, <2>3
<1>13. CASE ~long
  <2>1. StartCode(long) \o <<h>> = Append(Append(s2, 1), h)
    BY ONLY <1>2, <1>3, <1>13 DEF StartCode
  <2>2. p \o (StartCode(long) \o <<h>>) = Append(Append(b2, 1), h)
    BY ONLY <1>5, <1>13, p \in Seq(Byte), h \in Byte, <1>1 DEF StartCode
  <2>3. Unescape(p, 0, Append(Append(s2, 1), h)).bytes = Append(Append(b2, 1), h)
    BY ONLY <1>4, <1>6, <1>9, <1>11
  <2> QED
    BY ONLY <2>1, <2>2, <2>3
<1> QED
  BY <1>12, <1>13

(* A payload ends with a byte that is not zero, so what is cut off it is the *)
(* start code.                                                               *)
LEMMA TrimmedIs ==
  ASSUME NEW p \in Seq(Byte), p # <<>> => p[Len(p)] # 0, NEW long \in BOOLEAN, NEW h \in Byte
  PROVE  Trimmed(p \o (StartCode(long) \o <<h>>)) = p
<1> DEFINE r == p \o (StartCode(long) \o <<h>>)
           n == Len(r) - 4
           End(k) == /\ k > 0 => r[k] # 0
                     /\ \A j \in (k + 1)..n : r[j] = 0
<1>1. PICK t : t = StartCode(long) \o <<h>>
  OBVIOUS
<1>2. /\ t \in Seq(Byte) /\ t[1] = 0
      /\ Len(t) = IF long THEN 5 ELSE 4
  <2>1. 0 \in Byte /\ 1 \in Byte
    BY DEF Byte
  <2>2. \A c, d \in Seq(Byte) :
          /\ c \o d \in Seq(Byte) /\ Len(c \o d) = Len(c) + Len(d)
          /\ \A i \in 1..Len(c) : (c \o d)[i] = c[i]
    OBVIOUS
  <2>3. PICK c, d : c = StartCode(long) /\ d = <<h>>
    OBVIOUS
  <2>4. c \in Seq(Byte) /\ Len(c) = (IF long THEN 4 ELSE 3) /\ c[1] = 0
    BY <2>1, <2>3 DEF StartCode
  <2>5. d \in Seq(Byte) /\ Len(d) = 1
    BY <2>3
  <2>6. t = c \o d /\ 1 \in 1..Len(c)
    BY <1>1, <2>3, <2>4
  <2>8. c \in Seq(Byte) /\ d \in Seq(Byte)
    BY ONLY <2>4, <2>5
  <2>9. /\ c \o d \in Seq(Byte) /\ Len(c \o d) = Len(c) + Len(d)
        /\ \A i \in 1..Len(c) : (c \o d)[i] = c[i]
    BY ONLY <2>2, <2>8
  <2>7. t \in Seq(Byte) /\ Len(t) = Len(c) + 1 /\ t[1] = c[1]
    BY ONLY <2>5, <2>6, <2>9
  <2> QED
    BY ONLY <2>4, <2>7
<1>3. PICK m : m = Len(p)
  OBVIOUS
<1>4. /\ m \in Nat /\ Len(r) = m + Len(t) /\ r \in Seq(Byte) /\ r[m + 1] = 0
      /\ \A i \in 1..m : r[i] = p[i]
  <2>1. /\ m \in Nat /\ Len(p \o t) = m + Len(t) /\ p \o t \in Seq(Byte)
        /\ \A i \in 1..m : (p \o t)[i] = p[i]
    <3>1. t \in Seq(Byte)
      BY <1>2
    <3> QED
      BY ONLY <1>3, <3>1, p \in Seq(Byte)
  <2>2. (p \o t)[m + 1] = t[1]
    BY <1>2, <1>3
  <2> QED
    BY <1>1, <1>2, <2>1, <2>2
<1>5. n = IF long THEN m + 1 ELSE m
  BY <1>2, <1>4
<1>6. m > 0 => r[m] # 0
  BY <1>3, <1>4
<1> HIDE DEF r, n
<1>7. m \in 0..n /\ End(m)
  BY <1>4, <1>5, <1>6
<1>8. ASSUME NEW k \in 0..n, End(k)
      PROVE  k = m
  <2>1. CASE k > m
    BY <1>4, <1>5, <1>8, <2>1
  <2>2. CASE k < m
    <3>1. m \in (k + 1)..n /\ m > 0
      BY <1>4, <1>5, <2>2
    <3> QED
      BY <1>6, <1>8, <3>1
  <2> QED
    BY <1>4, <1>5, <2>1, <2>2
<1>9. (CHOOSE k \in 0..n : End(k)) = m
  <2> HIDE DEF End
  <2> QED
    BY ONLY <1>7, <1>8
<1>10. SubSeq(r, 1, m) = p
  <2>1. SubSeq(p \o t, 1, Len(p)) = p
    BY <1>2
  <2> QED
    BY <1>1, <1>3, <2>1 DEF r
<1>11. Trimmed(r) = SubSeq(r, 1, CHOOSE k \in 0..n : End(k))
  BY DEF Trimmed, n
<1> QED
  BY ONLY <1>9, <1>10, <1>11 DEF r

(* What an encoder does to a payload is undone; what is undone is not shorter *)
(* than the start code and header after it.                                   *)
LEMMA PayloadRecovered ==
  ASSUME NEW p \in Seq(Byte), p # <<>> => p[Len(p)] # 0, NEW long \in BOOLEAN, NEW h \in Byte
  PROVE  /\ Trimmed(Unescape(<<>>, 0, Escape(p) \o (StartCode(long) \o <<h>>)).bytes) = p
         /\ ~(Len(Unescape(<<>>, 0, Escape(p) \o (StartCode(long) \o <<h>>)).bytes) < 4)
<1>1. PICK none \in Seq(Byte) : none = <<>>
  <2>1. <<>> \in Seq(Byte)
    OBVIOUS
  <2> QED
    BY <2>1
<1>2. PICK e : e = Escaping(p)
  OBVIOUS
<1>3. EscapedRight(p, e)
  BY <1>2, EscapingRight
<1>4. e.bytes \in Seq(Byte) /\ Unescape(none, 0, e.bytes) = [bytes |-> p, zeros |-> e.zeros]
      /\ e.zeros \in Nat
  BY <1>1, <1>3 DEF EscapedRight, Recovered
<1>5. PICK z : z = Unescape(none, 0, e.bytes).zeros
  OBVIOUS
<1>6. z = e.zeros
  BY <1>4, <1>5
<1>7. PICK bytes \in Seq(Byte) : bytes = e.bytes
  BY <1>4
<1>8. z \in 0..Len(bytes) /\ \A i \in (Len(bytes) - z + 1)..Len(bytes) : bytes[i] = 0
  BY ONLY <1>5, <1>7, none \in Seq(Byte), ZerosAtEnd
<1>9. z = 0
  <2>1. CASE p = <<>>
    <3>1. Len(bytes) = 0
      BY <1>3, <1>7, <2>1 DEF EscapedRight
    <3> QED
      BY <1>8, <3>1
  <2>2. CASE p # <<>>
    <3>1. Len(bytes) > 0 /\ bytes[Len(bytes)] # 0
      BY <1>3, <1>7, <2>2 DEF EscapedRight
    <3>2. Len(bytes) \in Nat
      OBVIOUS
    <3>3. z > 0 => Len(bytes) \in (Len(bytes) - z + 1)..Len(bytes)
      BY <1>8, <3>2
    <3> QED
      BY <1>8, <3>1, <3>3
  <2> QED
    BY <2>1, <2>2
<1>10. PICK t : t = StartCode(long) \o <<h>>
  OBVIOUS
<1>11. t \in Seq(Byte) /\ Len(t) \in {4, 5}
  <2>1. 0 \in Byte /\ 1 \in Byte
    BY DEF Byte
  <2>2. <<0, 0, 0, 1>> \in Seq(Byte) /\ <<0, 0, 1>> \in Seq(Byte) /\ <<h>> \in Seq(Byte)
    BY <2>1
  <2>3. PICK c, d : c = StartCode(long) /\ d = <<h>>
    OBVIOUS
  <2>4. c \in Seq(Byte) /\ d \in Seq(Byte)
    BY <2>2, <2>3 DEF StartCode
  <2>5. (Len(c) = 3 \/ Len(c) = 4) /\ Len(d) = 1
    BY <2>3 DEF StartCode
  <2>6. t = c \o d
    BY ONLY <1>10, <2>3
  <2>7. c \o d \in Seq(Byte) /\ Len(c \o d) = Len(c) + Len(d)
    <3>1. \A f, g \in Seq(Byte) : f \o g \in Seq(Byte) /\ Len(f \o g) = Len(f) + Len(g)
      OBVIOUS
    <3> QED
      BY ONLY <2>4, <3>1
  <2>8. Len(c \o d) = 4 \/ Len(c \o d) = 5
    <3>1. PICK x, y, all : x = Len(c) /\ y = Len(d) /\ all = Len(c \o d)
      OBVIOUS
    <3>2. (x = 3 \/ x = 4) /\ y = 1 /\ all = x + y
      BY ONLY <2>5, <2>7, <3>1
    <3>3. all = 4 \/ all = 5
      BY ONLY <3>2
    <3> QED
      BY ONLY <3>1, <3>3
  <2> QED
    BY ONLY <2>6, <2>7, <2>8
<1>12. PICK r : r = Unescape(none, 0, bytes)
  OBVIOUS
<1>13. r.bytes = p /\ r.zeros = 0
  BY <1>4, <1>6, <1>7, <1>9, <1>12
<1>14. Unescape(none, 0, bytes \o t) = Unescape(r.bytes, r.zeros, t)
  BY ONLY <1>11, <1>12, none \in Seq(Byte), 0 \in Nat, bytes \in Seq(Byte), UnescapeJoined
<1>15. Unescape(none, 0, bytes \o t).bytes = p \o t
  <2>1. Unescape(p, 0, t).bytes = p \o t
    BY ONLY <1>10, p \in Seq(Byte), long \in BOOLEAN, h \in Byte, StartCodeKept
  <2> QED
    BY ONLY <1>13, <1>14, <2>1
<1>16. Trimmed(p \o t) = p
  BY <1>10, TrimmedIs
<1>17. ~(Len(p \o t) < 4)
  <2>1. \A f, g \in Seq(Byte) : Len(f \o g) = Len(f) + Len(g) /\ Len(f) \in Nat
    OBVIOUS
  <2>2. Len(p \o t) = Len(p) + Len(t) /\ Len(p) \in Nat
    BY ONLY <1>11, <2>1, p \in Seq(Byte)
  <2>3. PICK x, y, all : x = Len(p) /\ y = Len(t) /\ all = Len(p \o t)
    OBVIOUS
  <2>4. x \in Nat /\ (y = 4 \/ y = 5) /\ all = x + y
    BY ONLY <1>11, <2>2, <2>3
  <2>5. ~(all < 4)
    BY ONLY <2>4
  <2> QED
    BY ONLY <2>3, <2>5
<1> QED
  BY ONLY <1>1, <1>2, <1>7, <1>10, <1>15, <1>16, <1>17 DEF Escape

-----------------------------------------------------------------------------
(* Where the units are in the stream: off[k] bytes are in the first k. *)
LaidOut(units, bytes, off) ==
  /\ bytes \in Seq(Byte)
  /\ off \in [0..Len(units) -> Nat]
  /\ off[0] = 0 /\ off[Len(units)] = Len(bytes)
  /\ \A k \in 1..Len(units) : off[k] = off[k - 1] + Len(units[k])
  /\ \A k \in 1..Len(units) : \A i \in 1..Len(units[k]) : bytes[off[k - 1] + i] = units[k][i]
  /\ \A k \in 0..Len(units) : FlattenSeq(SubSeq(units, 1, k)) = SubSeq(bytes, 1, off[k])
  /\ \A j, k \in 0..Len(units) : j <= k => off[j] <= off[k]
  /\ \A q \in 1..Len(bytes) : \E k \in 1..Len(units) : off[k - 1] < q /\ q <= off[k]

(* Every sequence of units is laid out so. *)
LEMMA Layout ==
  ASSUME NEW units \in Seq(Seq(Byte))
  PROVE  \E off : LaidOut(units, FlattenSeq(units), off)
<1> DEFINE S == {us \in Seq(Seq(Byte)) : \E off : LaidOut(us, FlattenSeq(us), off)}
<1>1. PICK nothing \in Seq(Byte) : nothing = <<>> /\ Len(nothing) = 0
  <2>1. <<>> \in Seq(Byte) /\ Len(<<>>) = 0
    OBVIOUS
  <2> QED
    BY <2>1
<1>2. PICK none \in Seq(Seq(Byte)) : none = <<>> /\ Len(none) = 0
  <2>1. <<>> \in Seq(Seq(Byte)) /\ Len(<<>>) = 0
    OBVIOUS
  <2> QED
    BY <2>1
<1>3. none \in S
  <2>1. FlattenSeq(none) = nothing
    BY <1>1, <1>2, FlattenGrows
  <2>2. PICK off : off = [k \in 0..0 |-> 0]
    OBVIOUS
  <2>3. off \in [0..0 -> Nat] /\ off[0] = 0
    BY <2>2
  <2>4. \A k \in 0..0 : FlattenSeq(SubSeq(none, 1, k)) = SubSeq(nothing, 1, off[k])
    <3>1. SubSeq(none, 1, 0) = none /\ SubSeq(nothing, 1, 0) = nothing
      BY <1>1, <1>2
    <3>2. \A k \in 0..0 : k = 0
      OBVIOUS
    <3> QED
      BY ONLY <2>1, <2>3, <3>1, <3>2
  <2>5. \A j, k \in 0..0 : j <= k => off[j] <= off[k]
    BY <2>3
  <2>6. \A k \in 1..0 : FALSE
    OBVIOUS
  <2>7. LaidOut(none, nothing, off)
    BY ONLY <1>1, <1>2, <2>3, <2>4, <2>5, <2>6 DEF LaidOut
  <2> QED
    BY ONLY <1>2, <2>1, <2>7
<1>4. ASSUME NEW us \in Seq(Seq(Byte)), us \in S, NEW x \in Seq(Byte)
      PROVE  Append(us, x) \in S
  <2>1. PICK bytes : bytes = FlattenSeq(us)
    OBVIOUS
  <2>2. PICK off : LaidOut(us, bytes, off)
    BY <1>4, <2>1
  <2>3. PICK more, all, m : more = Append(us, x) /\ all = bytes \o x /\ m = Len(us)
    OBVIOUS
  <2>4. FlattenSeq(more) = all
    BY <2>1, <2>3, FlattenGrows
  <2>5. /\ more \in Seq(Seq(Byte)) /\ Len(more) = m + 1 /\ m \in Nat
        /\ more[m + 1] = x /\ \A k \in 1..m : more[k] = us[k]
    BY <2>3
  <2>6. bytes \in Seq(Byte) /\ off \in [0..m -> Nat] /\ off[0] = 0 /\ off[m] = Len(bytes)
    BY ONLY <2>2, <2>3 DEF LaidOut
  <2>7. PICK n, l : n = Len(bytes) /\ l = Len(x)
    OBVIOUS
  <2>8. /\ n \in Nat /\ l \in Nat /\ all \in Seq(Byte) /\ Len(all) = n + l
        /\ (\A i \in 1..n : all[i] = bytes[i]) /\ (\A i \in 1..l : all[n + i] = x[i])
    BY ONLY <2>3, <2>6, <2>7, x \in Seq(Byte)
  <2>9. PICK new : new = [k \in 0..(m + 1) |-> IF k = m + 1 THEN n + l ELSE off[k]]
    OBVIOUS
  <2>10. /\ new \in [0..(m + 1) -> Nat] /\ new[m + 1] = n + l
         /\ \A k \in 0..m : new[k] = off[k]
    <3>1. \A k \in 0..(m + 1) : k # m + 1 => k \in 0..m
      BY <2>5
    <3>2. \A k \in 0..m : k \in 0..(m + 1) /\ k # m + 1
      BY <2>5
    <3>3. m + 1 \in 0..(m + 1) /\ n + l \in Nat
      BY <2>5, <2>8
    <3> QED
      BY ONLY <2>6, <2>9, <3>1, <3>2, <3>3
  <2>11. \A k \in 1..(m + 1) : k = m + 1 \/ k \in 1..m
    BY <2>5
  <2>12. \A k \in 0..(m + 1) : k = m + 1 \/ k \in 0..m
    BY <2>5
  <2>13. /\ \A k \in 1..m : k \in 0..m /\ k - 1 \in 0..m
         /\ m \in 0..m /\ 0 \in 0..m /\ m + 1 - 1 = m
    BY <2>5
  <2>14. new[0] = 0 /\ new[m + 1] = Len(all) /\ new[m] = n
    BY ONLY <2>6, <2>7, <2>8, <2>10, <2>13
  <2>15. ASSUME NEW k \in 1..(m + 1)
         PROVE  new[k] = new[k - 1] + Len(more[k])
    <3>1. CASE k = m + 1
      <4>1. Len(more[k]) = l /\ k - 1 = m
        BY ONLY <2>5, <2>7, <2>13, <3>1
      <4> QED
        BY ONLY <2>10, <2>14, <3>1, <4>1
    <3>2. CASE k \in 1..m
      <4>1. off[k] = off[k - 1] + Len(us[k])
        BY ONLY <2>2, <2>3, <3>2 DEF LaidOut
      <4> QED
        BY ONLY <2>5, <2>10, <2>13, <3>2, <4>1
    <3> QED
      BY <2>11, <3>1, <3>2
  <2>16. ASSUME NEW k \in 1..(m + 1), NEW i \in 1..Len(more[k])
         PROVE  all[new[k - 1] + i] = more[k][i]
    <3>1. CASE k = m + 1
      <4>1. more[k] = x /\ new[k - 1] = n /\ i \in 1..l
        BY <2>5, <2>7, <2>13, <2>14, <3>1
      <4> QED
        BY ONLY <2>8, <4>1
    <3>2. CASE k \in 1..m
      <4>1. more[k] = us[k] /\ new[k - 1] = off[k - 1]
        BY ONLY <2>5, <2>10, <2>13, <3>2
      <4>2. i \in 1..Len(us[k])
        BY <4>1
      <4>3. bytes[off[k - 1] + i] = us[k][i]
        BY ONLY <2>2, <2>3, <3>2, <4>2 DEF LaidOut
      <4>4. off[k] = off[k - 1] + Len(us[k]) /\ off[k] <= off[m]
        <5>1. k <= m /\ k \in 0..m /\ m \in 0..m
          BY <2>5, <3>2
        <5> QED
          BY ONLY <2>2, <2>3, <3>2, <5>1 DEF LaidOut
      <4>5. off[k - 1] \in Nat /\ off[k] \in Nat
        BY ONLY <2>6, <2>13, <3>2
      <4>6. us[k] \in Seq(Byte) /\ Len(us[k]) \in Nat
        BY <2>3, <3>2
      <4>7. off[k - 1] + i \in 1..n
        <5> PICK a, b, c : a = off[k - 1] /\ b = off[k] /\ c = Len(us[k])
          OBVIOUS
        <5>1. a \in Nat /\ b \in Nat /\ c \in Nat /\ i \in 1..c /\ b = a + c /\ b <= n
          BY ONLY <2>6, <2>7, <4>2, <4>4, <4>5, <4>6, a = off[k - 1], b = off[k], c = Len(us[k])
        <5>2. a + i \in 1..n
          BY ONLY <2>8, <5>1
        <5> QED
          BY ONLY <5>2, a = off[k - 1]
      <4> QED
        BY ONLY <2>8, <4>1, <4>3, <4>7
    <3> QED
      BY <2>11, <3>1, <3>2
  <2>17. ASSUME NEW k \in 0..(m + 1)
         PROVE  FlattenSeq(SubSeq(more, 1, k)) = SubSeq(all, 1, new[k])
    <3>1. CASE k = m + 1
      <4>1. SubSeq(more, 1, m + 1) = more
        BY ONLY <2>5
      <4>2. SubSeq(all, 1, n + l) = all
        BY ONLY <2>8
      <4> QED
        BY ONLY <2>4, <2>10, <3>1, <4>1, <4>2
    <3>2. CASE k \in 0..m
      <4>1. SubSeq(more, 1, k) = SubSeq(us, 1, k)
        BY <2>3, <3>2
      <4>2. off[k] \in Nat /\ off[k] <= n
        <5>1. k <= m /\ m \in 0..m
          BY <2>5, <3>2
        <5>2. off[k] <= off[m]
          BY ONLY <2>2, <2>3, <3>2, <5>1 DEF LaidOut
        <5> QED
          BY ONLY <2>6, <2>7, <3>2, <5>2
      <4>3. PICK o : o = off[k]
        OBVIOUS
      <4>4. SubSeq(all, 1, o) = SubSeq(bytes, 1, o)
        <5>1. o \in 0..Len(bytes)
          BY ONLY <2>7, <2>8, <4>2, <4>3
        <5> QED
          BY ONLY <2>3, <2>6, <5>1, x \in Seq(Byte)
      <4>5. FlattenSeq(SubSeq(us, 1, k)) = SubSeq(bytes, 1, off[k])
        BY ONLY <2>2, <2>3, <3>2 DEF LaidOut
      <4> QED
        BY ONLY <2>10, <3>2, <4>1, <4>3, <4>4, <4>5
    <3> QED
      BY <2>12, <3>1, <3>2
  <2>18. ASSUME NEW j \in 0..(m + 1), NEW k \in 0..(m + 1), j <= k
         PROVE  new[j] <= new[k]
    <3>1. \A i \in 0..m : off[i] \in Nat /\ off[i] <= off[m]
      <4>1. \A i \in 0..m : i <= m /\ m \in 0..m
        BY <2>5
      <4> QED
        BY ONLY <2>2, <2>3, <2>6, <4>1 DEF LaidOut
    <3>2. CASE k = m + 1
      <4>1. CASE j = m + 1
        <5>1. n + l <= n + l
          BY <2>8
        <5> QED
          BY ONLY <2>10, <3>2, <4>1, <5>1
      <4>2. CASE j \in 0..m
        <5>1. off[j] \in Nat /\ off[j] <= n
          BY ONLY <2>6, <2>7, <3>1, <4>2
        <5> QED
          BY ONLY <2>8, <2>10, <3>2, <4>2, <5>1
      <4> QED
        BY <2>12, <4>1, <4>2
    <3>3. CASE k \in 0..m
      <4>1. j \in 0..m
        BY <2>5, <2>18, <3>3
      <4>2. off[j] <= off[k]
        BY ONLY <2>2, <2>3, <2>18, <3>3, <4>1 DEF LaidOut
      <4> QED
        BY ONLY <2>10, <3>3, <4>1, <4>2
    <3> QED
      BY <2>12, <3>2, <3>3
  <2>19. ASSUME NEW q \in 1..Len(all)
         PROVE  \E k \in 1..(m + 1) : new[k - 1] < q /\ q <= new[k]
    <3>1. CASE q <= n
      <4>1. q \in 1..Len(bytes)
        BY <2>7, <2>8, <3>1
      <4>2. PICK k \in 1..m : off[k - 1] < q /\ q <= off[k]
        BY ONLY <2>2, <2>3, <4>1 DEF LaidOut
      <4>3. new[k - 1] < q /\ q <= new[k]
        BY ONLY <2>10, <2>13, <4>2
      <4>4. k \in 1..(m + 1)
        BY <2>5
      <4> QED
        BY ONLY <4>3, <4>4
    <3>2. CASE q > n
      <4>1. PICK k \in 1..(m + 1) : k = m + 1 /\ k - 1 = m
        BY <2>5
      <4>2. new[k - 1] = n /\ new[k] = n + l
        BY ONLY <2>10, <2>14, <4>1
      <4>3. q <= n + l
        BY <2>8
      <4> QED
        BY ONLY <3>2, <4>2, <4>3
    <3> QED
      BY <2>8, <3>1, <3>2
  <2>20. LaidOut(more, all, new)
    BY ONLY <2>5, <2>8, <2>10, <2>14, <2>15, <2>16, <2>17, <2>18, <2>19 DEF LaidOut
  <2> QED
    BY ONLY <2>3, <2>4, <2>5, <2>20
<1> HIDE DEF S
<1>5. \A us \in Seq(Seq(Byte)) : us \in S
  BY ONLY <1>2, <1>3, <1>4, SeqInduction
<1> QED
  BY <1>5 DEF S

-----------------------------------------------------------------------------
(* A unit that an encoder writes without padding, and its bytes *)
Unit == [padding : Nat, long : BOOLEAN, header : 1..255, payload : Seq(Byte)]

(* The length of its start code *)
Code(u) == IF u.long THEN 4 ELSE 3

(* What an encoded unit without padding looks like *)
UnitRight(u, bytes) ==
  LET c == Code(u)
  IN /\ bytes \in Seq(Byte) /\ Len(bytes) >= c + 1
     /\ \A i \in 1..(c - 1) : bytes[i] = 0
     /\ bytes[c] = 1 /\ bytes[c + 1] = u.header
     /\ \A i \in (c + 1)..Len(bytes) : bytes[i - 2] = 0 /\ bytes[i - 1] = 0 => bytes[i] >= 3
     /\ bytes[Len(bytes)] # 0
     /\ bytes = (StartCode(u.long) \o <<u.header>>) \o Escape(u.payload)
     /\ Len(StartCode(u.long) \o <<u.header>>) = c + 1
     /\ StartCode(u.long) \o <<u.header>> \in Seq(Byte) /\ Escape(u.payload) \in Seq(Byte)

(* So is what the encoder writes. *)
LEMMA UnitIs ==
  ASSUME NEW u \in Unit, u.padding = 0, u.payload # <<>> => Last(u.payload) # 0
  PROVE  UnitRight(u, Encoded(u))
<1>1. /\ u.long \in BOOLEAN /\ u.header \in Byte /\ u.header # 0 /\ u.payload \in Seq(Byte)
  <2>1. u.long \in BOOLEAN /\ u.header \in 1..255 /\ u.payload \in Seq(Byte)
    BY DEF Unit
  <2>2. \A n \in 1..255 : n \in 0..255 /\ n # 0
    OBVIOUS
  <2> QED
    BY ONLY <2>1, <2>2 DEF Byte
<1>2. PICK s, h, t : s = StartCode(u.long) /\ h = <<u.header>> /\ t = s \o h
  OBVIOUS
<1>3. PICK c : c = Code(u)
  OBVIOUS
<1>4. /\ c \in {3, 4} /\ Len(s) = c /\ s \in Seq(Byte) /\ s[c] = 1
      /\ \A i \in 1..(c - 1) : s[i] = 0
  <2>1. 0 \in Byte /\ 1 \in Byte
    BY DEF Byte
  <2>2. CASE u.long
    <3>1. s = <<0, 0, 0, 1>> /\ c = 4
      BY ONLY <1>2, <1>3, <2>2 DEF StartCode, Code
    <3> QED
      BY <2>1, <3>1
  <2>3. CASE ~u.long
    <3>1. s = <<0, 0, 1>> /\ c = 3
      BY ONLY <1>2, <1>3, <2>3 DEF StartCode, Code
    <3> QED
      BY <2>1, <3>1
  <2> QED
    BY <2>2, <2>3
<1>5. h \in Seq(Byte) /\ Len(h) = 1 /\ h[1] = u.header
  BY <1>1, <1>2
<1>6. /\ t \in Seq(Byte) /\ Len(t) = c + 1 /\ t[c] = 1 /\ t[c + 1] = u.header
      /\ \A i \in 1..(c - 1) : t[i] = 0
  <2>1. /\ s \o h \in Seq(Byte) /\ Len(s \o h) = Len(s) + Len(h)
        /\ \A i \in 1..Len(s) : (s \o h)[i] = s[i]
        /\ \A i \in 1..Len(h) : (s \o h)[Len(s) + i] = h[i]
    <3>1. s \in Seq(Byte) /\ h \in Seq(Byte)
      BY <1>4, <1>5
    <3> QED
      BY ONLY <3>1
  <2>2. c \in 1..Len(s) /\ 1 \in 1..Len(h) /\ \A i \in 1..(c - 1) : i \in 1..Len(s)
    BY <1>4, <1>5
  <2> QED
    BY ONLY <1>2, <1>4, <1>5, <2>1, <2>2
<1>7. PICK e, z, n : e = Escape(u.payload) /\ z = Escaping(u.payload) /\ n = Len(e)
  OBVIOUS
<1>8. EscapedRight(u.payload, z) /\ z.bytes = e
  BY <1>1, <1>7, EscapingRight DEF Escape
<1>9. /\ e \in Seq(Byte) /\ n \in Nat
      /\ \A i \in 3..n : e[i - 2] = 0 /\ e[i - 1] = 0 => e[i] >= 3
      /\ u.payload = <<>> => n = 0
      /\ u.payload # <<>> => n > 0 /\ e[n] # 0
  <2>1. z.bytes \in Seq(Byte)
    BY <1>8 DEF EscapedRight, Recovered
  <2>2. e \in Seq(Byte) /\ n \in Nat
    BY <1>7, <1>8, <2>1
  <2>3. u.payload # <<>> => u.payload[Len(u.payload)] # 0
    BY <1>1 DEF Last
  <2> QED
    BY ONLY <1>7, <1>8, <2>2, <2>3 DEF EscapedRight
<1>10. PICK b : b = t \o e
  OBVIOUS
<1>11. Encoded(u) = b
  <2>1. [i \in 1..u.padding |-> 0] = <<>>
    OBVIOUS
  <2>2. <<>> \o s = s
    BY <1>4
  <2> QED
    BY ONLY <1>2, <1>7, <1>10, <2>1, <2>2 DEF Encoded
<1>12. /\ b \in Seq(Byte) /\ Len(b) = c + 1 + n
       /\ \A i \in 1..(c + 1) : b[i] = t[i]
       /\ \A i \in 1..n : b[c + 1 + i] = e[i]
  <2>1. t \in Seq(Byte) /\ e \in Seq(Byte)
    BY <1>6, <1>9
  <2>2. /\ t \o e \in Seq(Byte) /\ Len(t \o e) = Len(t) + Len(e)
        /\ \A i \in 1..Len(t) : (t \o e)[i] = t[i]
        /\ \A i \in 1..Len(e) : (t \o e)[Len(t) + i] = e[i]
    BY ONLY <2>1
  <2> QED
    BY ONLY <1>6, <1>7, <1>10, <2>2
<1>13. /\ b[c] = 1 /\ b[c + 1] = u.header /\ \A i \in 1..(c - 1) : b[i] = 0
  <2>1. c \in 1..(c + 1) /\ c + 1 \in 1..(c + 1) /\ \A i \in 1..(c - 1) : i \in 1..(c + 1)
    BY <1>4
  <2> QED
    BY ONLY <1>6, <1>12, <2>1
<1>14. ASSUME NEW i \in (c + 1)..(c + 1 + n), b[i - 2] = 0, b[i - 1] = 0
       PROVE  b[i] >= 3
  <2>1. CASE i = c + 1
    <3>1. i - 1 = c
      BY <1>4, <2>1
    <3> QED
      BY <1>13, <1>14, <3>1
  <2>2. CASE i = c + 2
    <3>1. i - 1 = c + 1
      BY <1>4, <2>2
    <3> QED
      BY <1>1, <1>13, <1>14, <3>1
  <2>3. CASE i = c + 3
    <3>1. i - 2 = c + 1
      BY <1>4, <2>3
    <3> QED
      BY <1>1, <1>13, <1>14, <3>1
  <2>4. CASE i > c + 3
    <3>1. PICK j \in 3..n : i = c + 1 + j
      <4>1. i - c - 1 \in 3..n /\ i = c + 1 + (i - c - 1)
        BY <1>4, <1>9, <2>4
      <4> QED
        BY <4>1
    <3>2. /\ j \in 1..n /\ j - 1 \in 1..n /\ j - 2 \in 1..n
          /\ i - 1 = c + 1 + (j - 1) /\ i - 2 = c + 1 + (j - 2)
      BY <1>4, <1>9, <3>1
    <3>3. b[i] = e[j] /\ b[i - 1] = e[j - 1] /\ b[i - 2] = e[j - 2]
      BY ONLY <1>12, <3>1, <3>2
    <3> QED
      BY ONLY <1>9, <1>14, <3>3, j \in 3..n
  <2> QED
    BY <1>4, <1>9, <2>1, <2>2, <2>3, <2>4
<1>15. b[c + 1 + n] # 0
  <2>1. CASE u.payload = <<>>
    <3>1. c + 1 + n = c + 1
      BY <1>4, <1>9, <2>1
    <3> QED
      BY <1>1, <1>13, <3>1
  <2>2. CASE u.payload # <<>>
    <3>1. n \in 1..n
      BY <1>9, <2>2
    <3> QED
      BY ONLY <1>9, <1>12, <2>2, <3>1
  <2> QED
    BY <2>1, <2>2
<1>16. PICK l : l = Len(b)
  OBVIOUS
<1>17. l = c + 1 + n /\ l >= c + 1
  BY <1>4, <1>9, <1>12, <1>16
<1>18. b = (StartCode(u.long) \o <<u.header>>) \o Escape(u.payload)
  BY <1>2, <1>7, <1>10
<1>19. Len(StartCode(u.long) \o <<u.header>>) = c + 1
  BY ONLY <1>2, <1>6
<1>21. StartCode(u.long) \o <<u.header>> \in Seq(Byte) /\ Escape(u.payload) \in Seq(Byte)
  BY ONLY <1>2, <1>6, <1>7, <1>9
<1>20. UnitRight(u, b)
  BY ONLY <1>3, <1>12, <1>13, <1>14, <1>15, <1>16, <1>17, <1>18, <1>19, <1>21 DEF UnitRight
<1> QED
  BY <1>11, <1>20

(* The units of a stream, written one after another, without padding *)
Written(st, units, bytes, off) ==
  /\ Len(st) \in Nat /\ units \in Seq(Seq(Byte)) /\ Len(units) = Len(st)
  /\ LaidOut(units, bytes, off)
  /\ \A k \in 1..Len(st) : UnitRight(st[k], units[k])
  /\ st \in Seq(Unit)
  /\ \A k \in 1..Len(st) : LET p == st[k].payload IN p # <<>> => p[Len(p)] # 0

(* Where the header of unit k is *)
HeaderAt(st, off, k) == off[k - 1] + Code(st[k]) + 1

(* A unit of those: it starts after a bytes, with a start code of c bytes. *)
Placed(unit, bytes, a, c, b) ==
  /\ a \in Nat /\ c \in {3, 4} /\ b \in Nat /\ Len(unit) \in Nat
  /\ b = a + Len(unit) /\ Len(unit) >= c + 1 /\ b <= Len(bytes)
  /\ Len(bytes) \in Nat
  /\ \A i \in 1..Len(unit) : bytes[a + i] = unit[i]
  /\ a > 0 => bytes[a] # 0

(* Every unit of the stream is placed so. *)
LEMMA UnitPlaced ==
  ASSUME NEW st, NEW units, NEW bytes, NEW off, Written(st, units, bytes, off),
         NEW k \in 1..Len(st)
  PROVE  Placed(units[k], bytes, off[k - 1], Code(st[k]), off[k])
<1> PICK a, c : a = off[k - 1] /\ c = Code(st[k])
  OBVIOUS
<1>1. /\ Len(st) \in Nat /\ k - 1 \in 0..Len(st) /\ k \in 0..Len(st) /\ Len(st) \in 0..Len(st)
      /\ k <= Len(st)
  BY DEF Written
<1>2. c \in {3, 4}
  BY DEF Code
<1>3. /\ a \in Nat /\ off[k] \in Nat /\ off[k] = a + Len(units[k]) /\ bytes \in Seq(Byte)
      /\ off[k] <= Len(bytes)
      /\ \A i \in 1..Len(units[k]) : bytes[a + i] = units[k][i]
  BY <1>1 DEF Written, LaidOut
<1>4. Len(bytes) \in Nat /\ Len(units[k]) \in Nat
  <2>1. units[k] \in Seq(Byte)
    BY DEF Written, UnitRight
  <2> QED
    BY <1>3, <2>1
<1>5. Len(units[k]) >= c + 1
  BY DEF Written, UnitRight
<1>6. ASSUME a > 0
      PROVE  bytes[a] # 0
  <2>1. k # 1
    <3>1. off[0] = 0
      BY DEF Written, LaidOut
    <3> QED
      BY <1>3, <1>6, <3>1
  <2>2. PICK j \in 1..Len(st) : j = k - 1
    BY <1>1, <2>1
  <2>3. PICK l : l = Len(units[j])
    OBVIOUS
  <2>4. /\ off[j] = off[j - 1] + l /\ off[j] = a /\ UnitRight(st[j], units[j])
        /\ off[j - 1] \in Nat
        /\ \A i \in 1..l : bytes[off[j - 1] + i] = units[j][i]
    <3>1. j - 1 \in 0..Len(st)
      BY <1>1
    <3> QED
      BY <2>2, <2>3, <3>1 DEF Written, LaidOut
  <2>5. l \in Nat /\ l \in 1..l /\ units[j][l] # 0
    <3>1. units[j] \in Seq(Byte) /\ l >= Code(st[j]) + 1 /\ units[j][l] # 0
      BY <2>3, <2>4 DEF UnitRight
    <3>2. Code(st[j]) \in {3, 4}
      BY DEF Code
    <3>3. l \in Nat
      BY <2>3, <3>1
    <3> QED
      BY <3>1, <3>2, <3>3
  <2> QED
    BY ONLY <2>4, <2>5
<1>7. Placed(units[k], bytes, a, c, off[k])
  BY <1>2, <1>3, <1>4, <1>5, <1>6 DEF Placed
<1> QED
  BY <1>7

(* Two zeros and a byte up to 2 are part of a start code. *)
LEMMA Triples ==
  ASSUME NEW st, NEW units, NEW bytes, NEW off, Written(st, units, bytes, off),
         NEW q \in 3..Len(bytes), bytes[q - 2] = 0, bytes[q - 1] = 0, bytes[q] <= 2
  PROVE  \E k \in 1..Len(st) : off[k - 1] + 3 <= q /\ q <= off[k - 1] + Code(st[k])
<1>1. Len(st) \in Nat /\ bytes \in Seq(Byte) /\ Len(bytes) \in Nat /\ q \in 1..Len(bytes)
  <2>1. Len(st) \in Nat /\ bytes \in Seq(Byte)
    BY DEF Written, LaidOut
  <2>2. Len(bytes) \in Nat
    BY <2>1
  <2> QED
    BY <2>1, <2>2
<1>2. PICK k \in 1..Len(st) : off[k - 1] < q /\ q <= off[k]
  BY <1>1 DEF Written, LaidOut
<1>3. PICK a, c, u : a = off[k - 1] /\ c = Code(st[k]) /\ u = units[k]
  OBVIOUS
<1>4. /\ a \in Nat /\ c \in {3, 4} /\ Len(u) \in Nat
      /\ off[k] = a + Len(u) /\ Len(u) >= c + 1
      /\ (\A i \in 1..Len(u) : bytes[a + i] = u[i])
      /\ a > 0 => bytes[a] # 0
  <2>1. Placed(u, bytes, a, c, off[k])
    BY <1>3, UnitPlaced
  <2> QED
    BY <2>1 DEF Placed
<1>5. PICK i \in 1..Len(u) : q = a + i
  <2>1. q - a \in 1..Len(u) /\ q = a + (q - a)
    BY <1>2, <1>3, <1>4
  <2> QED
    BY <2>1
<1>6. i >= 3
  <2>1. CASE i = 1
    <3>1. a = q - 1 /\ a > 0
      BY <1>4, <1>5, <2>1
    <3> QED
      BY <1>4, <3>1
  <2>2. CASE i = 2
    <3>1. a = q - 2 /\ a > 0
      BY <1>4, <1>5, <2>2
    <3> QED
      BY <1>4, <3>1
  <2> QED
    BY <1>4, <2>1, <2>2
<1>7. i <= c
  <2> SUFFICES ASSUME i > c
               PROVE  FALSE
    BY <1>4
  <2>1. i \in (c + 1)..Len(u)
    BY <1>4
  <2>2. i - 1 \in 1..Len(u) /\ i - 2 \in 1..Len(u) /\ q - 1 = a + (i - 1) /\ q - 2 = a + (i - 2)
    BY <1>4, <1>5, <1>6
  <2>3. u[i] <= 2 /\ u[i - 1] = 0 /\ u[i - 2] = 0
    BY ONLY <1>4, <1>5, <2>2, bytes[q - 2] = 0, bytes[q - 1] = 0, bytes[q] <= 2
  <2>4. u[i] >= 3
    BY <1>3, <2>1, <2>3 DEF Written, UnitRight
  <2>5. u[i] \in Byte
    <3>1. u \in Seq(Byte)
      BY <1>3 DEF Written, UnitRight
    <3> QED
      BY <3>1
  <2>6. \A v \in Byte : ~(v <= 2 /\ v >= 3)
    BY DEF Byte
  <2> QED
    BY ONLY <2>3, <2>4, <2>5, <2>6
<1>8. a + 3 <= q /\ q <= a + c
  BY <1>4, <1>5, <1>6, <1>7
<1> QED
  BY <1>3, <1>8

(* Three zeros are those of a long start code: 1 follows, and no zero is *)
(* before them.                                                          *)
LEMMA ThreeZeros ==
  ASSUME NEW st, NEW units, NEW bytes, NEW off, Written(st, units, bytes, off),
         NEW q \in 3..Len(bytes), bytes[q - 2] = 0, bytes[q - 1] = 0, bytes[q] = 0
  PROVE  /\ q + 1 <= Len(bytes) /\ bytes[q + 1] = 1
         /\ q > 3 => bytes[q - 3] # 0
<1>1. PICK k \in 1..Len(st) : off[k - 1] + 3 <= q /\ q <= off[k - 1] + Code(st[k])
  <2>1. bytes[q] <= 2
    OBVIOUS
  <2> QED
    BY ONLY <2>1, Written(st, units, bytes, off), q \in 3..Len(bytes),
       bytes[q - 2] = 0, bytes[q - 1] = 0, Triples
<1>2. PICK a, c, u : a = off[k - 1] /\ c = Code(st[k]) /\ u = units[k]
  OBVIOUS
<1>3. Placed(u, bytes, a, c, off[k])
  BY <1>2, UnitPlaced
<1>4. /\ a \in Nat /\ c \in {3, 4} /\ Len(u) \in Nat /\ Len(bytes) \in Nat
      /\ Len(u) >= c + 1 /\ a + Len(u) <= Len(bytes)
      /\ (\A i \in 1..Len(u) : bytes[a + i] = u[i])
      /\ (a > 0 => bytes[a] # 0)
  BY ONLY <1>3 DEF Placed
<1>5. a + 3 <= q /\ q <= a + c
  BY <1>1, <1>2
<1>6. bytes[a + c] = 1
  <2>1. u[c] = 1
    BY <1>2 DEF Written, UnitRight
  <2>2. c \in 1..Len(u)
    BY <1>4
  <2> QED
    BY ONLY <1>4, <2>1, <2>2
<1>7. q # a + c
  BY <1>6
<1>8. q = a + 3 /\ q + 1 = a + c
  BY <1>4, <1>5, <1>7
<1>9. q - 3 = a /\ (q > 3 => a > 0)
  BY <1>4, <1>8
<1> QED
  BY <1>4, <1>6, <1>8, <1>9

-----------------------------------------------------------------------------
(* The byte at a place, as the search for start codes sees it; what it looks *)
(* for.                                                                      *)
At(bytes, q) == IF q \in 1..Len(bytes) THEN bytes[q] ELSE 255

(* The byte q is preceded by a start code. *)
Hits(bytes, q) ==
  At(bytes, q - 3) = 0 /\ At(bytes, q - 2) = 0 /\ At(bytes, q - 1) = 1

(* So is every header, and the zero before the code says if it is long. *)
LEMMA HeadHits ==
  ASSUME NEW st, NEW units, NEW bytes, NEW off, Written(st, units, bytes, off),
         NEW k \in 1..Len(st), NEW q, q = HeaderAt(st, off, k)
  PROVE  /\ q \in 4..Len(bytes) /\ Hits(bytes, q) /\ bytes[q] = st[k].header
         /\ off[k - 1] \in Nat /\ off[k] \in Nat /\ off[k - 1] < q /\ q <= off[k]
         /\ (At(bytes, q - 4) = 0) <=> st[k].long
<1>1. PICK a, c, u : a = off[k - 1] /\ c = Code(st[k]) /\ u = units[k]
  OBVIOUS
<1>2. Placed(u, bytes, a, c, off[k])
  BY <1>1, UnitPlaced
<1>3. /\ a \in Nat /\ c \in {3, 4} /\ Len(u) \in Nat /\ Len(bytes) \in Nat
      /\ Len(u) >= c + 1 /\ a + Len(u) <= Len(bytes) /\ off[k] = a + Len(u) /\ off[k] \in Nat
      /\ (\A i \in 1..Len(u) : bytes[a + i] = u[i])
      /\ (a > 0 => bytes[a] # 0)
  BY ONLY <1>2 DEF Placed
<1>4. q = a + c + 1
  BY <1>1 DEF HeaderAt
<1>5. u[c] = 1 /\ u[c + 1] = st[k].header /\ \A i \in 1..(c - 1) : u[i] = 0
  BY <1>1 DEF Written, UnitRight
<1>6. /\ c \in 1..Len(u) /\ c + 1 \in 1..Len(u) /\ c - 1 \in 1..Len(u) /\ c - 2 \in 1..Len(u)
      /\ c - 1 \in 1..(c - 1) /\ c - 2 \in 1..(c - 1)
      /\ q - 1 = a + c /\ q = a + (c + 1) /\ q - 2 = a + (c - 1) /\ q - 3 = a + (c - 2)
  BY <1>3, <1>4
<1>7. bytes[q - 1] = 1 /\ bytes[q - 2] = 0 /\ bytes[q - 3] = 0 /\ bytes[q] = st[k].header
  BY ONLY <1>3, <1>5, <1>6
<1>8. /\ q \in 4..Len(bytes)
      /\ q - 1 \in 1..Len(bytes) /\ q - 2 \in 1..Len(bytes) /\ q - 3 \in 1..Len(bytes)
  BY <1>3, <1>4
<1>9. Hits(bytes, q)
  BY ONLY <1>7, <1>8 DEF Hits, At
<1>10. a < q /\ q <= off[k]
  BY <1>3, <1>4
<1>11. (At(bytes, q - 4) = 0) <=> st[k].long
  <2>1. CASE st[k].long
    <3>1. c = 4
      BY <1>1, <2>1 DEF Code
    <3>2. 1 \in 1..(c - 1) /\ 1 \in 1..Len(u) /\ q - 4 = a + 1 /\ q - 4 \in 1..Len(bytes)
      BY <1>3, <1>4, <3>1
    <3>3. bytes[q - 4] = 0
      BY ONLY <1>3, <1>5, <3>2
    <3> QED
      BY ONLY <2>1, <3>2, <3>3 DEF At
  <2>2. CASE ~st[k].long
    <3>1. c = 3
      BY <1>1, <2>2 DEF Code
    <3>2. q - 4 = a
      BY <1>3, <1>4, <3>1
    <3>3. CASE a = 0
      BY ONLY <2>2, <3>2, <3>3 DEF At
    <3>4. CASE a # 0
      <4>1. a > 0
        BY <1>3, <3>4
      <4>2. At(bytes, a) # 0
        BY ONLY <1>3, <4>1 DEF At
      <4> QED
        BY ONLY <2>2, <3>2, <4>2
    <3> QED
      BY <3>3, <3>4
  <2> QED
    BY <2>1, <2>2
<1> QED
  BY ONLY <1>1, <1>3, <1>7, <1>8, <1>9, <1>10, <1>11

(* Nothing else looks like the end of a start code. *)
LEMMA HitIsHead ==
  ASSUME NEW st, NEW units, NEW bytes, NEW off, Written(st, units, bytes, off),
         NEW q \in Nat, q <= Len(bytes), Hits(bytes, q)
  PROVE  \E k \in 1..Len(st) : q = HeaderAt(st, off, k)
<1>1. q - 3 \in 1..Len(bytes) /\ q - 2 \in 1..Len(bytes) /\ q - 1 \in 1..Len(bytes)
  BY DEF Hits, At
<1>2. bytes[q - 3] = 0 /\ bytes[q - 2] = 0 /\ bytes[q - 1] = 1
  BY <1>1 DEF Hits, At
<1>3. PICK p \in 3..Len(bytes) : p = q - 1 /\ p - 1 = q - 2 /\ p - 2 = q - 3
  <2>1. q - 1 \in 3..Len(bytes) /\ q - 1 - 1 = q - 2 /\ q - 1 - 2 = q - 3
    BY <1>1
  <2> QED
    BY <2>1
<1>4. bytes[p - 2] = 0 /\ bytes[p - 1] = 0 /\ bytes[p] = 1 /\ bytes[p] <= 2
  BY ONLY <1>2, <1>3
<1>5. PICK k \in 1..Len(st) : off[k - 1] + 3 <= p /\ p <= off[k - 1] + Code(st[k])
  BY ONLY <1>4, Written(st, units, bytes, off), p \in 3..Len(bytes), Triples
<1>6. PICK a, c, u : a = off[k - 1] /\ c = Code(st[k]) /\ u = units[k]
  OBVIOUS
<1>7. Placed(u, bytes, a, c, off[k])
  BY <1>6, UnitPlaced
<1>8. /\ a \in Nat /\ c \in {3, 4} /\ Len(u) \in Nat /\ Len(u) >= c + 1
      /\ (\A i \in 1..Len(u) : bytes[a + i] = u[i])
  BY ONLY <1>7 DEF Placed
<1>9. a + 3 <= p /\ p <= a + c
  BY <1>5, <1>6
<1>10. p = a + c
  <2> SUFFICES ASSUME p # a + c
               PROVE  FALSE
    OBVIOUS
  <2>1. 3 \in 1..(c - 1) /\ 3 \in 1..Len(u) /\ p = a + 3
    BY <1>8, <1>9
  <2>2. u[3] = 0
    BY <1>6, <2>1 DEF Written, UnitRight
  <2>3. bytes[p] = 0
    BY ONLY <1>8, <2>1, <2>2
  <2> QED
    BY <1>4, <2>3
<1>11. q = a + c + 1
  BY <1>3, <1>10
<1> QED
  BY <1>6, <1>11 DEF HeaderAt

-----------------------------------------------------------------------------
(* The last five bytes of those that have been scanned *)
LastBytes(bytes, a) == [i \in 1..5 |-> At(bytes, a - 5 + i)]

(* n bytes of a chunk are scanned, up to the next byte after a start code. *)
Reads(bytes, a, sync, c, n) ==
  /\ n \in 1..Len(c) /\ Len(c) \in Nat
  /\ \A e \in 1..(n - 1) : ~Hits(bytes, a + e)
  /\ n = Len(c) \/ Hits(bytes, a + n)
  /\ LastFive(sync \o SubSeq(c, 1, n)) = LastBytes(bytes, a + n)
  /\ SubSeq(c, 1, n) \in Seq(Byte) /\ Len(SubSeq(c, 1, n)) = n
  /\ \A i \in 1..n : SubSeq(c, 1, n)[i] = bytes[a + i]

(* So far does find_start_code() go. *)
LEMMA ScanReads ==
  ASSUME NEW bytes \in Seq(Byte), NEW a \in Nat, NEW c \in Seq(Byte), c # <<>>,
         a + Len(c) <= Len(bytes), \A i \in 1..Len(c) : c[i] = bytes[a + i],
         NEW sync, sync = LastBytes(bytes, a)
  PROVE  Reads(bytes, a, sync, c, EndP(sync, c))
<1> DEFINE found == {e \in 1..Len(c) : FoundAt(sync, c, e)}
<1>1. PICK l, m : l = Len(c) /\ m = Len(bytes)
  OBVIOUS
<1>2. l \in Nat /\ m \in Nat /\ l > 0 /\ a + l <= m /\ \A i \in 1..l : c[i] = bytes[a + i]
  BY <1>1
<1>3. sync \in Seq(Byte) /\ Len(sync) = 5 /\ \A i \in 1..5 : sync[i] = At(bytes, a - 5 + i)
  <2>1. 255 \in Byte
    BY DEF Byte
  <2>2. ASSUME NEW i \in 1..5
        PROVE  At(bytes, a - 5 + i) \in Byte
    <3>1. CASE a - 5 + i \in 1..Len(bytes)
      <4>1. bytes[a - 5 + i] \in Byte
        BY <3>1
      <4> QED
        BY ONLY <3>1, <4>1 DEF At
    <3>2. CASE a - 5 + i \notin 1..Len(bytes)
      BY ONLY <2>1, <3>2 DEF At
    <3> QED
      BY <3>1, <3>2
  <2>3. sync \in [1..5 -> Byte] /\ \A i \in 1..5 : sync[i] = At(bytes, a - 5 + i)
    BY ONLY <2>2, sync = LastBytes(bytes, a) DEF LastBytes
  <2>4. \A n \in Nat : \A s \in [1..n -> Byte] : s \in Seq(Byte) /\ Len(s) = n
    OBVIOUS
  <2>5. 5 \in Nat
    OBVIOUS
  <2> QED
    BY ONLY <2>3, <2>4, <2>5
<1>5. PICK b : b = sync \o c
  OBVIOUS
<1>6. /\ b \in Seq(Byte) /\ Len(b) = 5 + l
      /\ \A i \in 1..5 : b[i] = sync[i]
      /\ \A i \in 1..l : b[5 + i] = c[i]
  <2>1. /\ sync \o c \in Seq(Byte) /\ Len(sync \o c) = Len(sync) + Len(c)
        /\ \A i \in 1..Len(sync) : (sync \o c)[i] = sync[i]
        /\ \A i \in 1..Len(c) : (sync \o c)[Len(sync) + i] = c[i]
    BY ONLY <1>3, Concatenation, c \in Seq(Byte)
  <2> QED
    BY ONLY <1>1, <1>3, <1>5, <2>1
<1>7. ASSUME NEW i \in 1..(5 + l)
      PROVE  b[i] = At(bytes, a - 5 + i)
  <2>1. CASE i \in 1..5
    BY ONLY <1>3, <1>6, <2>1
  <2>2. CASE i \notin 1..5
    <3>1. PICK j \in 1..l : i = 5 + j
      <4>1. i - 5 \in 1..l /\ i = 5 + (i - 5)
        BY <1>2, <2>2
      <4> QED
        BY <4>1
    <3>2. b[i] = bytes[a + j]
      BY ONLY <1>2, <1>6, <3>1
    <3>3. a - 5 + i = a + j /\ a + j \in 1..m
      BY <1>2, <3>1
    <3> QED
      BY ONLY <1>1, <3>2, <3>3 DEF At
  <2> QED
    BY <2>1, <2>2
<1>8. \A e \in 1..l : FoundAt(sync, c, e) <=> Hits(bytes, a + e)
  <2> TAKE e \in 1..l
  <2>1. PICK t : t = SubSeq(b, 5 + e - 3, 5 + e - 1)
    OBVIOUS
  <2>2. /\ 5 + e - 3 = e + 2 /\ 5 + e - 1 = e + 4 /\ e + 2 \in 1..(5 + l)
        /\ e + 3 \in 1..(5 + l) /\ e + 4 \in 1..(5 + l)
    BY <1>2
  <2>3. t = SubSeq(b, e + 2, e + 4)
    BY ONLY <2>1, <2>2
  <2>9. /\ e + 2 <= e + 4 /\ (e + 4) - (e + 2) + 1 = 3
        /\ 1 \in 1..3 /\ 2 \in 1..3 /\ 3 \in 1..3
        /\ (e + 2) + 1 - 1 = e + 2 /\ (e + 2) + 2 - 1 = e + 3 /\ (e + 2) + 3 - 1 = e + 4
    BY <1>2
  <2>10. /\ Len(t) = (e + 4) - (e + 2) + 1 /\ t \in Seq(Byte)
         /\ \A k \in 1..((e + 4) - (e + 2) + 1) : t[k] = b[(e + 2) + k - 1]
    BY ONLY <1>6, <2>2, <2>3, SubSequence, <2>9
  <2>4. Len(t) = 3 /\ t \in Seq(Byte) /\ t[1] = b[e + 2] /\ t[2] = b[e + 3] /\ t[3] = b[e + 4]
    BY ONLY <2>9, <2>10
  <2>5. t = <<0, 0, 1>> <=> t[1] = 0 /\ t[2] = 0 /\ t[3] = 1
    BY ONLY <2>4
  <2>6. /\ b[e + 2] = At(bytes, a + e - 3) /\ b[e + 3] = At(bytes, a + e - 2)
        /\ b[e + 4] = At(bytes, a + e - 1)
    <3>1. /\ a - 5 + (e + 2) = a + e - 3 /\ a - 5 + (e + 3) = a + e - 2
          /\ a - 5 + (e + 4) = a + e - 1
      BY <1>2
    <3> QED
      BY ONLY <1>7, <2>2, <3>1
  <2>7. FoundAt(sync, c, e) <=> t = <<0, 0, 1>>
    BY ONLY <1>3, <1>5, <2>1 DEF FoundAt
  <2> QED
    BY ONLY <2>4, <2>5, <2>6, <2>7 DEF Hits
<1>9. PICK n : n = EndP(sync, c)
  OBVIOUS
<1>10. /\ n \in 1..l
       /\ \A e \in 1..(n - 1) : ~Hits(bytes, a + e)
       /\ n = l \/ Hits(bytes, a + n)
  <2>1. CASE found = {}
    <3>1. n = l
      BY <1>1, <1>9, <2>1 DEF EndP
    <3>2. \A e \in 1..l : ~Hits(bytes, a + e)
      BY <1>1, <1>8, <2>1
    <3>3. n \in 1..l /\ \A e \in 1..(n - 1) : e \in 1..l
      BY <1>2, <3>1
    <3> QED
      BY ONLY <3>1, <3>2, <3>3
  <2>2. CASE found # {}
    <3>1. found \in SUBSET Nat /\ found \subseteq 1..l
      BY <1>1
    <3>2. n = CHOOSE e \in found : \A d \in found : e <= d
      BY <1>9, <2>2 DEF EndP
    <3>3. \E e \in found : \A d \in found : e <= d
      <4> HIDE DEF found
      <4> QED
        BY ONLY <2>2, <3>1, LeastNumber
    <3>4. n \in found /\ \A d \in found : n <= d
      <4> HIDE DEF found
      <4> QED
        BY ONLY <3>2, <3>3
    <3>5. n \in 1..l /\ Hits(bytes, a + n)
      BY <1>1, <1>8, <3>4
    <3>6. ASSUME NEW e \in 1..(n - 1)
          PROVE  ~Hits(bytes, a + e)
      <4>1. e \in 1..l /\ ~(n <= e)
        BY <1>2, <3>5
      <4>2. e \notin found
        BY ONLY <3>4, <4>1
      <4> QED
        BY <1>1, <1>8, <4>1, <4>2
    <3> QED
      BY <3>5, <3>6
  <2> QED
    BY <2>1, <2>2
<1>11. PICK s : s = SubSeq(c, 1, n)
  OBVIOUS
<1>12. s \in Seq(Byte) /\ Len(s) = n /\ n \in Nat /\ \A i \in 1..n : s[i] = c[i]
  <2>1. n \in 1..Len(c) /\ Len(c) \in Nat
    BY <1>1, <1>10
  <2> QED
    BY ONLY <1>11, <2>1, c \in Seq(Byte)
<1>13. LastFive(sync \o s) = LastBytes(bytes, a + n)
  <2>1. PICK x : x = sync \o s
    OBVIOUS
  <2>2. /\ sync \o s \in Seq(Byte) /\ Len(sync \o s) = Len(sync) + Len(s)
        /\ \A i \in 1..Len(sync) : (sync \o s)[i] = sync[i]
        /\ \A i \in 1..Len(s) : (sync \o s)[Len(sync) + i] = s[i]
    BY ONLY <1>3, <1>12, Concatenation
  <2>3. /\ x \in Seq(Byte) /\ Len(x) = 5 + n
        /\ \A i \in 1..5 : x[i] = sync[i]
        /\ \A i \in 1..n : x[5 + i] = s[i]
    BY ONLY <1>3, <1>12, <2>1, <2>2
  <2>4. \A i \in 1..(5 + n) : x[i] = b[i]
    <3> TAKE i \in 1..(5 + n)
    <3>1. CASE i \in 1..5
      BY ONLY <1>6, <2>3, <3>1
    <3>2. CASE i \notin 1..5
      <4>1. PICK j \in 1..n : i = 5 + j
        <5>1. i - 5 \in 1..n /\ i = 5 + (i - 5)
          BY <1>12, <3>2
        <5> QED
          BY <5>1
      <4>2. j \in 1..l
        BY <1>2, <1>10
      <4> QED
        BY ONLY <1>6, <1>12, <2>3, <4>1, <4>2
    <3> QED
      BY <3>1, <3>2
  <2>5. PICK y : y = LastFive(x)
    OBVIOUS
  <2>6. y = SubSeq(x, n + 1, n + 5)
    <3>1. Len(x) - 4 = n + 1 /\ Len(x) = n + 5
      BY <1>12, <2>3
    <3> QED
      BY <2>5, <3>1 DEF LastFive
  <2>7. y \in Seq(Byte) /\ Len(y) = 5 /\ \A i \in 1..5 : y[i] = x[n + i]
    <3>1. n + 1 \in 1..(Len(x) + 1) /\ n + 5 = Len(x) /\ n + 5 - (n + 1) + 1 = 5
      BY <1>12, <2>3
    <3>2. y \in Seq(Byte) /\ Len(y) = 5
      BY ONLY <1>12, <2>3, <2>6, <3>1
    <3>3. ASSUME NEW i \in 1..5
          PROVE  y[i] = x[n + i]
      <4>1. (n + 1) + i - 1 = n + i
        BY <1>12
      <4>2. y[i] = x[(n + 1) + i - 1]
        BY ONLY <1>12, <2>3, <2>6, <3>1, i \in 1..5
      <4> QED
        BY <4>1, <4>2
    <3> QED
      BY <3>2, <3>3
  <2>8. ASSUME NEW i \in 1..5
        PROVE  y[i] = At(bytes, (a + n) - 5 + i)
    <3>1. n + i \in 1..(5 + n) /\ n + i \in 1..(5 + l) /\ a - 5 + (n + i) = (a + n) - 5 + i
      BY <1>2, <1>10, <1>12
    <3> QED
      BY ONLY <1>7, <2>4, <2>7, <3>1
  <2>9. y = [i \in 1..5 |-> y[i]]
    BY ONLY <2>7
  <2>10. y = LastBytes(bytes, a + n)
    <3>1. PICK o : o = a + n
      OBVIOUS
    <3>2. \A i \in 1..5 : y[i] = At(bytes, o - 5 + i)
      BY ONLY <2>8, <3>1
    <3>3. y = [i \in 1..5 |-> At(bytes, o - 5 + i)]
      BY ONLY <2>9, <3>2
    <3> QED
      BY ONLY <3>1, <3>3 DEF LastBytes
  <2> QED
    BY <2>1, <2>5, <2>10
<1>14. \A i \in 1..n : s[i] = bytes[a + i]
  <2>1. \A i \in 1..n : i \in 1..l
    BY <1>2, <1>10
  <2> QED
    BY ONLY <1>2, <1>12, <2>1
<1>15. Reads(bytes, a, sync, c, n)
  BY ONLY <1>1, <1>2, <1>10, <1>11, <1>12, <1>13, <1>14 DEF Reads
<1> QED
  BY <1>9, <1>15

-----------------------------------------------------------------------------
(* Types: what the encoder writes *)
LEMMA EncodedType ==
  ASSUME NEW u \in Unit
  PROVE  Encoded(u) \in Seq(Byte)
<1>1. /\ u.padding \in Nat /\ u.long \in BOOLEAN /\ u.header \in 1..255
      /\ u.payload \in Seq(Byte)
  BY DEF Unit
<1>2. \A n \in 1..255 : n \in 0..255
  OBVIOUS
<1>3. 0 \in Byte /\ 1 \in Byte /\ u.header \in Byte
  BY <1>1, <1>2 DEF Byte
<1>4. <<u.header>> \in Seq(Byte)
  BY <1>3
<1>5. StartCode(u.long) \in Seq(Byte)
  BY <1>3 DEF StartCode
<1>6. [i \in 1..u.padding |-> 0] \in Seq(Byte)
  <2>1. [i \in 1..u.padding |-> 0] \in [1..u.padding -> Byte]
    BY <1>3
  <2>2. \A n \in Nat : \A f \in [1..n -> Byte] : f \in Seq(Byte)
    OBVIOUS
  <2> QED
    BY ONLY <1>1, <2>1, <2>2
<1>7. Escape(u.payload) \in Seq(Byte)
  <2>1. PICK e : e = Escaping(u.payload)
    OBVIOUS
  <2>2. e \in Recovered
    BY <1>1, <1>3, <2>1, EscapingGrows
  <2> QED
    BY <2>1, <2>2 DEF Escape, Recovered
<1>8. \A a, b \in Seq(Byte) : a \o b \in Seq(Byte)
  OBVIOUS
<1> QED
  BY ONLY <1>4, <1>5, <1>6, <1>7, <1>8 DEF Encoded

(* The units that the encoder writes *)
EncodedSeq(st) == [i \in DOMAIN st |-> Encoded(st[i])]

(* They are sequences of bytes. *)
LEMMA EncodedSeqType ==
  ASSUME NEW st \in Seq(Unit)
  PROVE  EncodedSeq(st) \in Seq(Seq(Byte)) /\ Len(EncodedSeq(st)) = Len(st)
<1>1. PICK n \in Nat : n = Len(st)
  OBVIOUS
<1>2. DOMAIN st = 1..n /\ \A i \in 1..n : st[i] \in Unit
  BY <1>1
<1>3. EncodedSeq(st) \in [1..n -> Seq(Byte)]
  BY ONLY <1>2, EncodedType DEF EncodedSeq
<1>4. \A f \in [1..n -> Seq(Byte)] : f \in Seq(Seq(Byte)) /\ Len(f) = n
  OBVIOUS
<1> QED
  BY ONLY <1>1, <1>3, <1>4

(* The types of the stream *)
LEMMA StreamBytes ==
  ASSUME stream \in Streams
  PROVE  /\ stream \in Seq(Unit) /\ EncodedUnits = EncodedSeq(stream)
         /\ EncodedUnits \in Seq(Seq(Byte)) /\ Len(EncodedUnits) = Len(stream)
         /\ Bytes = FlattenSeq(EncodedUnits) /\ Bytes \in Seq(Byte)
<1>1. stream \in Seq(Unit)
  BY StreamsAssumption DEF Unit
<1>2. EncodedUnits = EncodedSeq(stream)
  BY DEF EncodedUnits, EncodedSeq
<1>3. EncodedUnits \in Seq(Seq(Byte)) /\ Len(EncodedUnits) = Len(stream)
  BY <1>1, <1>2, EncodedSeqType
<1>4. PICK x \in Seq(Byte) : TRUE
  <2>1. <<>> \in Seq(Byte)
    OBVIOUS
  <2> QED
    BY <2>1
<1>5. FlattenSeq(EncodedUnits) \in Seq(Byte)
  BY ONLY <1>3, x \in Seq(Byte), FlattenGrows
<1> QED
  BY ONLY <1>1, <1>2, <1>3, <1>5 DEF Bytes

(* The type of the last five bytes *)
LEMMA LastBytesType ==
  ASSUME NEW bytes \in Seq(Byte), NEW a \in Nat, NEW sync, sync = LastBytes(bytes, a)
  PROVE  /\ sync \in Seq(Byte) /\ Len(sync) = 5
         /\ sync[1] = At(bytes, a - 4) /\ sync[5] = At(bytes, a)
         /\ SubSeq(sync, 2, 4) = <<0, 0, 1>> <=> Hits(bytes, a)
<1>1. 255 \in Byte
  BY DEF Byte
<1>2. ASSUME NEW i \in 1..5
      PROVE  At(bytes, a - 5 + i) \in Byte
  <2>1. CASE a - 5 + i \in 1..Len(bytes)
    <3>1. bytes[a - 5 + i] \in Byte
      BY <2>1
    <3> QED
      BY ONLY <2>1, <3>1 DEF At
  <2>2. CASE a - 5 + i \notin 1..Len(bytes)
    BY ONLY <1>1, <2>2 DEF At
  <2> QED
    BY <2>1, <2>2
<1>3. sync \in [1..5 -> Byte] /\ \A i \in 1..5 : sync[i] = At(bytes, a - 5 + i)
  BY ONLY <1>2, sync = LastBytes(bytes, a) DEF LastBytes
<1>4. \A n \in Nat : \A s \in [1..n -> Byte] : s \in Seq(Byte) /\ Len(s) = n
  OBVIOUS
<1>5. sync \in Seq(Byte) /\ Len(sync) = 5
  <2>1. 5 \in Nat
    OBVIOUS
  <2> QED
    BY ONLY <1>3, <1>4, <2>1
<1>6. PICK t : t = SubSeq(sync, 2, 4)
  OBVIOUS
<1>7. Len(t) = 3 /\ t \in Seq(Byte) /\ t[1] = sync[2] /\ t[2] = sync[3] /\ t[3] = sync[4]
  <2>2. 2 \in 1..5 /\ 4 \in 1..5 /\ 2 <= 4 /\ 4 - 2 + 1 = 3
        /\ 1 \in 1..3 /\ 2 \in 1..3 /\ 3 \in 1..3
        /\ 2 + 1 - 1 = 2 /\ 2 + 2 - 1 = 3 /\ 2 + 3 - 1 = 4
    OBVIOUS
  <2>3. /\ Len(t) = 4 - 2 + 1 /\ t \in Seq(Byte)
        /\ \A k \in 1..(4 - 2 + 1) : t[k] = sync[2 + k - 1]
    BY ONLY <1>5, <1>6, SubSequence, <2>2
  <2> QED
    BY ONLY <2>2, <2>3
<1>8. t = <<0, 0, 1>> <=> t[1] = 0 /\ t[2] = 0 /\ t[3] = 1
  BY ONLY <1>7
<1>9. /\ a - 5 + 1 = a - 4 /\ a - 5 + 2 = a - 3 /\ a - 5 + 3 = a - 2 /\ a - 5 + 4 = a - 1
      /\ a - 5 + 5 = a
      /\ 1 \in 1..5 /\ 2 \in 1..5 /\ 3 \in 1..5 /\ 4 \in 1..5 /\ 5 \in 1..5
  OBVIOUS
<1>10. /\ sync[1] = At(bytes, a - 4) /\ sync[2] = At(bytes, a - 3) /\ sync[3] = At(bytes, a - 2)
       /\ sync[4] = At(bytes, a - 1) /\ sync[5] = At(bytes, a)
  BY ONLY <1>3, <1>9
<1> QED
  BY ONLY <1>5, <1>6, <1>7, <1>8, <1>10 DEF Hits

(* The zeros counted do not depend on what was recovered before. *)
LEMMA SameZeros ==
  ASSUME NEW a \in Seq(Byte), NEW b \in Seq(Byte), NEW z \in Nat, NEW s \in Seq(Byte)
  PROVE  Unescape(a, z, s).zeros = Unescape(b, z, s).zeros
<1> DEFINE S == {c \in Seq(Byte) : Unescape(a, z, c).zeros = Unescape(b, z, c).zeros}
<1>1. <<>> \in S
  <2>1. <<>> \in Seq(Byte)
    OBVIOUS
  <2>2. Unescape(a, z, <<>>) = [bytes |-> a, zeros |-> z]
    BY UnescapeNone
  <2>3. Unescape(b, z, <<>>) = [bytes |-> b, zeros |-> z]
    BY UnescapeNone
  <2> QED
    BY ONLY <2>1, <2>2, <2>3
<1>2. ASSUME NEW c \in Seq(Byte), c \in S, NEW x \in Byte
      PROVE  Append(c, x) \in S
  <2>1. Unescape(a, z, Append(c, x)) = UnescapeByte(Unescape(a, z, c), x)
    BY ONLY a \in Seq(Byte), z \in Nat, c \in Seq(Byte), x \in Byte, UnescapeMore
  <2>2. Unescape(b, z, Append(c, x)) = UnescapeByte(Unescape(b, z, c), x)
    BY ONLY b \in Seq(Byte), z \in Nat, c \in Seq(Byte), x \in Byte, UnescapeMore
  <2>3. Unescape(a, z, c).zeros = Unescape(b, z, c).zeros
    BY <1>2
  <2>4. Append(c, x) \in Seq(Byte)
    OBVIOUS
  <2>5. Unescape(a, z, Append(c, x)).zeros = Unescape(b, z, Append(c, x)).zeros
    BY ONLY <2>1, <2>2, <2>3 DEF UnescapeByte
  <2> QED
    BY <2>4, <2>5
<1> HIDE DEF S
<1>3. \A c \in Seq(Byte) : c \in S
  BY ONLY <1>1, <1>2, SeqInduction
<1> QED
  BY <1>3 DEF S

(* When zeros are counted, the last byte is one. *)
LEMMA LastIsZero ==
  ASSUME NEW a \in Seq(Byte), NEW z \in Nat, NEW s \in Seq(Byte), s # <<>>,
         Unescape(a, z, s).zeros > 0
  PROVE  s[Len(s)] = 0
<1>1. PICK n : n = Len(s)
  OBVIOUS
<1>2. PICK c, x : c = SubSeq(s, 1, n - 1) /\ x = s[n]
  OBVIOUS
<1>3. c \in Seq(Byte) /\ x \in Byte /\ s = Append(c, x)
  BY <1>1, <1>2
<1>4. Unescape(a, z, Append(c, x)) = UnescapeByte(Unescape(a, z, c), x)
  BY ONLY <1>3, a \in Seq(Byte), z \in Nat, UnescapeMore
<1>5. Unescape(a, z, s).zeros = IF x = 0 THEN Unescape(a, z, c).zeros + 1 ELSE 0
  BY ONLY <1>3, <1>4 DEF UnescapeByte
<1>6. x = 0
  BY <1>5
<1> QED
  BY <1>1, <1>2, <1>6

-----------------------------------------------------------------------------
(* The bytes scanned so far *)
Arrived == passed - Len(chunk)

(* What is left of a chunk and the last five bytes are those of the stream, *)
(* and the zeros counted are at the end of the unit.                        *)
Received ==
  /\ stream \in Streams
  /\ passed \in 0..Len(Bytes) /\ chunk \in Seq(Byte) /\ Len(chunk) <= passed
  /\ \A i \in 1..Len(chunk) : chunk[i] = Bytes[Arrived + i]
  /\ m_sync_accumulator = LastBytes(Bytes, Arrived)
  /\ m_nalu \in Seq(Byte)
  /\ m_have_unfinished_NAL \in BOOLEAN
  /\ m_rbsp_buffer \in Seq(Byte)
  /\ m_consecutive_zeros \in 0..3
  /\ m_consecutive_zeros > 0 => m_nalu # <<>> /\ m_nalu[Len(m_nalu)] = 0
  /\ ~m_have_unfinished_NAL => m_consecutive_zeros = 0
  /\ aborted \in BOOLEAN
  /\ source \in {"file", "camera"}

(* What one iteration of the loop looks at *)
Looks(n) ==
  /\ Reads(Bytes, Arrived, m_sync_accumulator, chunk, n)
  /\ Scanned = SubSeq(chunk, 1, n)
  /\ Sync = LastBytes(Bytes, Arrived + n)
  /\ Found <=> Hits(Bytes, Arrived + n)
  /\ Sync[1] = At(Bytes, (Arrived + n) - 4) /\ Sync[5] = At(Bytes, Arrived + n) /\ Sync[5] \in Byte
  /\ Bytes \in Seq(Byte) /\ Len(Bytes) \in Nat /\ Arrived \in Nat /\ n \in Nat
  /\ Arrived + n <= passed /\ passed <= Len(Bytes) /\ Arrived + Len(chunk) = passed

(* Some n bytes are scanned. *)
LEMMA ScanLooks ==
  ASSUME Received, chunk # <<>>
  PROVE  \E n : Looks(n)
<1>1. PICK a, c, b, p, s : a = Arrived /\ c = chunk /\ b = Bytes /\ p = passed
                           /\ s = m_sync_accumulator
  OBVIOUS
<1>2. b \in Seq(Byte)
  BY <1>1, StreamBytes DEF Received
<1>3. /\ p \in 0..Len(b) /\ c \in Seq(Byte) /\ c # <<>> /\ Len(c) <= p /\ a = p - Len(c)
      /\ (\A i \in 1..Len(c) : c[i] = b[a + i])
      /\ s = LastBytes(b, a)
  BY <1>1 DEF Received, Arrived
<1>4. Len(b) \in Nat /\ Len(c) \in Nat
  BY <1>2, <1>3
<1>5. a \in Nat /\ a + Len(c) <= Len(b) /\ a + Len(c) = p /\ p <= Len(b)
  BY <1>3, <1>4
<1>6. PICK n : n = EndP(s, c)
  OBVIOUS
<1>7. Reads(b, a, s, c, n)
  BY ONLY <1>2, <1>3, <1>5, <1>6, ScanReads
<1>8. /\ n \in 1..Len(c) /\ LastFive(s \o SubSeq(c, 1, n)) = LastBytes(b, a + n)
  BY ONLY <1>7 DEF Reads
<1>9. n \in Nat /\ a + n <= p /\ a + n \in Nat
  BY <1>4, <1>5, <1>8
<1>10. Scanned = SubSeq(c, 1, n)
  BY <1>1, <1>6 DEF Scanned
<1>11. PICK y : y = Sync
  OBVIOUS
<1>12. y = LastBytes(b, a + n)
  BY <1>1, <1>8, <1>10, <1>11 DEF Sync
<1>13. PICK o : o = a + n
  OBVIOUS
<1>14. /\ y \in Seq(Byte) /\ Len(y) = 5
       /\ y[1] = At(b, o - 4) /\ y[5] = At(b, o)
       /\ SubSeq(y, 2, 4) = <<0, 0, 1>> <=> Hits(b, o)
  BY ONLY <1>2, <1>9, <1>12, <1>13, LastBytesType
<1>15. Found <=> Hits(b, o)
  BY ONLY <1>11, <1>14 DEF Found
<1>16. y[5] \in Byte
  <2>1. y \in Seq(Byte) /\ 5 \in 1..Len(y)
    BY ONLY <1>14
  <2> QED
    BY ONLY <2>1
<1>17. (a + n) - 4 = o - 4
  BY <1>9, <1>13
<1> QED
  BY ONLY <1>1, <1>2, <1>4, <1>5, <1>7, <1>9, <1>10, <1>11, <1>12, <1>13, <1>14, <1>15,
     <1>16, <1>17 DEF Looks

(* It holds at first, *)
LEMMA ReceivedInit ==
  ASSUME Init
  PROVE  Received
<1>1. stream \in Streams /\ passed = 0 /\ chunk = <<>> /\ m_nalu = <<>> /\ m_rbsp_buffer = <<>>
      /\ m_sync_accumulator = <<255, 255, 255, 255, 255>>
      /\ m_have_unfinished_NAL = FALSE /\ m_consecutive_zeros = 0 /\ aborted = FALSE
  BY DEF Init
<1>2. PICK b : b = Bytes
  OBVIOUS
<1>3. b \in Seq(Byte)
  BY <1>1, <1>2, StreamBytes
<1>4. Len(b) \in Nat
  BY <1>3
<1>5. <<>> \in Seq(Byte) /\ Len(<<>>) = 0
  OBVIOUS
<1>6. Arrived = 0
  <2>1. passed = 0 /\ Len(chunk) = 0 /\ 0 - 0 = 0
    BY <1>1, <1>5
  <2> QED
    BY ONLY <2>1 DEF Arrived
<1>7. <<255, 255, 255, 255, 255>> = LastBytes(b, 0)
  <2>1. ASSUME NEW i \in 1..5
        PROVE  At(b, 0 - 5 + i) = 255
    <3>1. 0 - 5 + i \notin 1..Len(b)
      BY <1>4
    <3> QED
      BY ONLY <3>1 DEF At
  <2>2. LastBytes(b, 0) = [i \in 1..5 |-> 255]
    BY ONLY <2>1 DEF LastBytes
  <2>3. <<255, 255, 255, 255, 255>> = [i \in 1..5 |-> 255]
    OBVIOUS
  <2> QED
    BY <2>2, <2>3
<1>8. 0 \in 0..Len(b) /\ 0 <= 0 /\ 0 \in 0..3 /\ ~(0 > 0) /\ \A i \in 1..0 : FALSE
  BY <1>4
<1>9. source \in {"file", "camera"}
  BY SourcesAssumption DEF Init
<1> QED
  BY ONLY <1>1, <1>2, <1>5, <1>6, <1>7, <1>8, <1>9 DEF Received

(* when bytes are passed, *)
LEMMA ReceivedPass ==
  ASSUME Received, NEW n \in 1..Len(Bytes), Pass(n)
  PROVE  Received' /\ Arrived' = Arrived /\ Bytes' = Bytes
<1>1. /\ chunk = <<>> /\ passed + n <= Len(Bytes)
      /\ chunk' = SubSeq(Bytes, passed + 1, passed + n) /\ passed' = passed + n
      /\ UNCHANGED <<source, stream, m_sync_accumulator, m_nalu, m_have_unfinished_NAL,
                     m_rbsp_buffer, m_consecutive_zeros, finished, parsed, aborted>>
  BY DEF Pass
<1>2. PICK b, p, c : b = Bytes /\ p = passed /\ c = chunk'
  OBVIOUS
<1>3. b \in Seq(Byte) /\ p \in 0..Len(b)
  BY <1>2, StreamBytes DEF Received
<1>4. Len(b) \in Nat
  BY <1>3
<1>5. c = SubSeq(b, p + 1, p + n) /\ p + n <= Len(b) /\ n \in 1..Len(b)
  BY <1>1, <1>2
<1>6. c \in Seq(Byte) /\ Len(c) = n /\ \A i \in 1..n : c[i] = b[p + i]
  <2>2. /\ p + 1 \in 1..Len(b) /\ p + n \in 1..Len(b) /\ p + 1 <= p + n
        /\ (p + n) - (p + 1) + 1 = n /\ \A k \in 1..n : (p + 1) + k - 1 = p + k
    BY <1>3, <1>4, <1>5
  <2>3. /\ Len(c) = (p + n) - (p + 1) + 1 /\ c \in Seq(Byte)
        /\ \A k \in 1..((p + n) - (p + 1) + 1) : c[k] = b[(p + 1) + k - 1]
    BY ONLY <1>3, <1>5, SubSequence, <2>2
  <2> QED
    BY ONLY <2>2, <2>3
<1>7. Bytes' = b
  BY <1>1, <1>2 DEF Bytes, EncodedUnits
<1>8. Arrived = p
  <2>1. Len(chunk) = 0
    BY <1>1
  <2> QED
    BY <1>2, <1>3, <1>4, <2>1 DEF Arrived
<1>9. Arrived' = p /\ passed' \in 0..Len(b) /\ Len(c) <= passed'
  <2>1. passed' = p + n /\ Len(chunk') = n /\ Len(c) = n
    BY ONLY <1>1, <1>2, <1>6
  <2>2. (p + n) - n = p /\ p + n \in 0..Len(b) /\ n <= p + n
    BY ONLY <1>3, <1>4, <1>5
  <2> QED
    BY ONLY <2>1, <2>2 DEF Arrived
<1> QED
  BY ONLY Received, <1>1, <1>2, <1>6, <1>7, <1>8, <1>9 DEF Received

(* Without a start code, all that is scanned is part of the unit. *)
LEMMA FilledAll ==
  ASSUME NEW nalu \in Seq(Byte), NEW bytes \in Seq(Byte), NEW long
  PROVE  Filled(nalu, bytes, FALSE, long) = nalu \o bytes
<1>1. PICK x, l : x = nalu \o bytes /\ l = Len(nalu) + Len(bytes)
  OBVIOUS
<1>2. x \in Seq(Byte) /\ Len(x) = l /\ l \in Nat
  BY <1>1
<1>3. SubSeq(x, 1, l) = x
  BY ONLY <1>2
<1>4. Filled(nalu, bytes, FALSE, long) = SubSeq(x, 1, Len(nalu) + (Len(bytes) - 0))
  BY <1>1 DEF Filled
<1>5. Len(nalu) + (Len(bytes) - 0) = l
  BY <1>1
<1> QED
  BY ONLY <1>1, <1>3, <1>4, <1>5

(* when they are scanned, *)
LEMMA ReceivedScan ==
  ASSUME Received, Scan
  PROVE  /\ Received' /\ Bytes' = Bytes
         /\ \E n : Looks(n) /\ Arrived' = Arrived + n
<1>0. PICK beyond \in Anything : ~Fails(beyond)
  BY DEF Scan
<1>1. chunk # <<>> /\ stream' = stream /\ passed' = passed /\ aborted' = aborted
      /\ chunk' = SubSeq(chunk, Len(Scanned) + 1, Len(chunk)) /\ m_sync_accumulator' = Sync
  BY DEF Scan
<1>2. PICK n : Looks(n)
  BY ONLY Received, <1>1, ScanLooks
<1>3. PICK b, a, p, c, s : b = Bytes /\ a = Arrived /\ p = passed /\ c = chunk /\ s = Scanned
  OBVIOUS
<1>4. /\ b \in Seq(Byte) /\ Len(b) \in Nat /\ a \in Nat /\ n \in Nat /\ p \in Nat
      /\ a = p - Len(c) /\ c \in Seq(Byte) /\ Len(c) \in Nat
      /\ (\A i \in 1..Len(c) : c[i] = b[a + i])
      /\ p <= Len(b)
  <2>1. p \in 0..Len(b) /\ c \in Seq(Byte) /\ (\A i \in 1..Len(c) : c[i] = b[a + i])
    BY ONLY Received, <1>3 DEF Received
  <2>2. b \in Seq(Byte) /\ Len(b) \in Nat /\ a \in Nat /\ n \in Nat /\ p <= Len(b)
    BY ONLY <1>2, <1>3 DEF Looks
  <2>3. a = p - Len(c)
    BY ONLY <1>3 DEF Arrived
  <2>4. Len(c) \in Nat /\ p \in Nat
    BY <2>1, <2>2
  <2> QED
    BY ONLY <2>1, <2>2, <2>3, <2>4
<1>5. n \in 1..Len(c) /\ s \in Seq(Byte) /\ Len(s) = n
  BY ONLY <1>2, <1>3 DEF Looks, Reads
<1>6. Bytes' = b
  BY <1>1, <1>3 DEF Bytes, EncodedUnits
<1>7. /\ chunk' \in Seq(Byte) /\ Len(chunk') = Len(c) - n
      /\ \A i \in 1..Len(chunk') : chunk'[i] = b[(a + n) + i]
  <2>1. PICK d, l : d = SubSeq(c, n + 1, Len(c)) /\ l = Len(c)
    OBVIOUS
  <2>2. chunk' = d
    BY ONLY <1>1, <1>3, <1>5, <2>1
  <2>3. l \in Nat /\ n \in 1..l
    BY ONLY <1>4, <1>5, <2>1
  <2>4. d \in Seq(Byte) /\ Len(d) = l - n /\ \A i \in 1..(l - n) : d[i] = c[n + i]
    <3>1. CASE n = l
      <4>1. n + 1 > l /\ l - n = 0 /\ \A i \in 1..0 : FALSE
        BY <2>3, <3>1
      <4>2. d = <<>>
        BY ONLY <1>4, <2>1, <2>3, <4>1
      <4>3. <<>> \in Seq(Byte) /\ Len(<<>>) = 0
        OBVIOUS
      <4> QED
        BY ONLY <4>1, <4>2, <4>3
    <3>2. CASE n # l
      <4>2. /\ n + 1 \in 1..l /\ l \in 1..l /\ n + 1 <= l /\ l - (n + 1) + 1 = l - n
            /\ \A k \in 1..(l - n) : (n + 1) + k - 1 = n + k
        BY <2>3, <3>2
      <4>3. /\ Len(d) = l - (n + 1) + 1 /\ d \in Seq(Byte)
            /\ \A k \in 1..(l - (n + 1) + 1) : d[k] = c[(n + 1) + k - 1]
        BY ONLY <1>4, <2>1, SubSequence, <4>2
      <4> QED
        BY ONLY <4>2, <4>3
    <3> QED
      BY <3>1, <3>2
  <2>5. ASSUME NEW i \in 1..(l - n)
        PROVE  d[i] = b[(a + n) + i]
    <3>1. n + i \in 1..l /\ a + (n + i) = (a + n) + i
      BY <1>4, <2>3
    <3> QED
      BY ONLY <1>4, <2>1, <2>4, <3>1, i \in 1..(l - n)
  <2> QED
    BY ONLY <2>1, <2>2, <2>4, <2>5
<1>8. Arrived' = a + n /\ Len(chunk') <= passed' /\ passed' \in 0..Len(b)
  <2>1. passed' = p
    BY ONLY <1>1, <1>3
  <2>2. p - (Len(c) - n) = a + n /\ Len(c) - n <= p /\ p \in 0..Len(b)
    BY <1>4, <1>5
  <2> QED
    BY ONLY <1>7, <2>1, <2>2 DEF Arrived
<1>9. m_sync_accumulator' = LastBytes(b, a + n)
  BY ONLY <1>1, <1>2, <1>3 DEF Looks
<1>10. /\ m_nalu' \in Seq(Byte) /\ m_have_unfinished_NAL' \in BOOLEAN
       /\ m_rbsp_buffer' \in Seq(Byte) /\ m_consecutive_zeros' \in 0..3
       /\ (m_consecutive_zeros' > 0 => m_nalu' # <<>> /\ m_nalu'[Len(m_nalu')] = 0)
       /\ (~m_have_unfinished_NAL' => m_consecutive_zeros' = 0)
  <2>1. /\ m_nalu \in Seq(Byte) /\ m_have_unfinished_NAL \in BOOLEAN
        /\ m_rbsp_buffer \in Seq(Byte) /\ m_consecutive_zeros \in 0..3
        /\ (~m_have_unfinished_NAL => m_consecutive_zeros = 0)
    BY DEF Received
  <2>2. CASE Found
    <3>1. /\ m_nalu' = StartCode(Sync[1] = 0) \o <<Sync[5]>>
          /\ m_have_unfinished_NAL' = NeedsParsing(Sync[5])
          /\ m_rbsp_buffer' = <<>> /\ m_consecutive_zeros' = 0
      BY ONLY Scan, <2>2 DEF Scan
    <3>2. Sync[5] \in Byte
      BY <1>2 DEF Looks
    <3>3. \A h \in Byte, long \in BOOLEAN : StartCode(long) \o <<h>> \in Seq(Byte)
      <4> TAKE h \in Byte, long \in BOOLEAN
      <4>1. 0 \in Byte /\ 1 \in Byte
        BY DEF Byte
      <4>2. StartCode(long) \in Seq(Byte) /\ <<h>> \in Seq(Byte)
        BY <4>1 DEF StartCode
      <4>3. \A x, y \in Seq(Byte) : x \o y \in Seq(Byte)
        OBVIOUS
      <4> QED
        BY ONLY <4>2, <4>3
    <3>4. m_nalu' \in Seq(Byte)
      BY ONLY <3>1, <3>2, <3>3
    <3>5. m_have_unfinished_NAL' \in BOOLEAN
      BY ONLY <3>1 DEF NeedsParsing
    <3>6. <<>> \in Seq(Byte) /\ 0 \in 0..3 /\ ~(0 > 0)
      OBVIOUS
    <3> QED
      BY ONLY <3>1, <3>4, <3>5, <3>6
  <2>3. CASE ~Found
    <3>1. PICK u, r, z : u = m_nalu /\ r = m_rbsp_buffer /\ z = m_consecutive_zeros
      OBVIOUS
    <3>2. u \in Seq(Byte) /\ r \in Seq(Byte) /\ z \in 0..3 /\ z \in Nat
      BY ONLY <2>1, <3>1
    <3>3. m_nalu' = Filled(u, s, FALSE, Sync[1] = 0) /\ m_have_unfinished_NAL' = m_have_unfinished_NAL
      <4>1. Found = FALSE
        BY <2>3 DEF Found
      <4>2. /\ m_nalu' = Filled(m_nalu, Scanned, Found, Sync[1] = 0)
            /\ m_have_unfinished_NAL' = m_have_unfinished_NAL
        BY ONLY Scan, <2>3 DEF Scan
      <4> QED
        BY ONLY <1>3, <3>1, <4>1, <4>2
    <3>4. m_nalu' = u \o s
      BY ONLY <1>5, <3>2, <3>3, FilledAll
    <3>5. u \o s \in Seq(Byte) /\ u \o s # <<>> /\ (u \o s)[Len(u \o s)] = s[Len(s)] /\ s # <<>>
      <4>1. Len(u) \in Nat /\ Len(s) \in Nat /\ Len(s) > 0
        BY <1>4, <1>5, <3>2
      <4>2. /\ u \o s \in Seq(Byte) /\ Len(u \o s) = Len(u) + Len(s)
            /\ \A i \in 1..Len(s) : (u \o s)[Len(u) + i] = s[i]
        BY ONLY <1>5, <3>2
      <4>3. Len(s) \in 1..Len(s)
        BY <4>1
      <4>4. (u \o s)[Len(u \o s)] = s[Len(s)]
        BY ONLY <4>2, <4>3
      <4> QED
        BY <4>1, <4>2, <4>4
    <3>6. CASE m_have_unfinished_NAL
      <4>1. PICK v : v = Unescape(r, z, s)
        OBVIOUS
      <4>2. m_rbsp_buffer' = v.bytes /\ m_consecutive_zeros' = v.zeros
        BY ONLY Scan, <1>3, <2>3, <3>1, <3>6, <4>1 DEF Scan, RBSP
      <4>3. v.bytes \in Seq(Byte) /\ v.zeros \in Nat
        <5>1. v \in Recovered
          BY ONLY <1>5, <3>2, <4>1, UnescapeType
        <5> QED
          BY <5>1 DEF Recovered
      <4>4. v.zeros <= 3
        <5>1. ~TooManyZeros(z, s, Beyond(beyond))
          BY ONLY <1>0, <1>3, <3>1, <3>6 DEF Fails
        <5>2. n \in DOMAIN s /\ SubSeq(s, 1, n) = s
          BY <1>4, <1>5
        <5>3. ~(Unescape(<<>>, z, SubSeq(s, 1, n)).zeros > 3)
          BY ONLY <5>1, <5>2 DEF TooManyZeros
        <5>4. PICK none \in Seq(Byte) : none = <<>>
          <6>1. <<>> \in Seq(Byte)
            OBVIOUS
          <6> QED
            BY <6>1
        <5>5. Unescape(none, z, s).zeros = Unescape(r, z, s).zeros
          BY ONLY <1>5, <3>2, <5>4, SameZeros
        <5>6. ~(v.zeros > 3)
          BY ONLY <4>1, <5>2, <5>3, <5>4, <5>5
        <5> QED
          BY <4>3, <5>6
      <4>5. v.zeros > 0 => s[Len(s)] = 0
        BY ONLY <1>5, <3>2, <3>5, <4>1, LastIsZero
      <4>6. v.zeros \in 0..3
        BY <4>3, <4>4
      <4> QED
        BY ONLY <2>1, <3>3, <3>4, <3>5, <3>6, <4>2, <4>3, <4>5, <4>6
    <3>7. CASE ~m_have_unfinished_NAL
      <4>1. m_rbsp_buffer' = r /\ m_consecutive_zeros' = z
        BY ONLY Scan, <2>3, <3>1, <3>7 DEF Scan
      <4>2. z = 0 /\ ~(0 > 0)
        BY ONLY <2>1, <3>1, <3>7
      <4> QED
        BY ONLY <2>1, <3>2, <3>3, <3>4, <3>5, <3>7, <4>1, <4>2
    <3> QED
      BY <3>6, <3>7
  <2> QED
    BY <2>2, <2>3
<1>11. stream \in Streams /\ aborted \in BOOLEAN /\ source' \in {"file", "camera"}
  BY DEF Received, Scan
<1>12. Received'
  BY ONLY <1>1, <1>6, <1>7, <1>8, <1>9, <1>10, <1>11 DEF Received
<1> QED
  BY ONLY <1>2, <1>3, <1>6, <1>8, <1>12

(* and after every step. *)
LEMMA ReceivedNext ==
  ASSUME Received, [Next]_vars
  PROVE  Received'
<1>1. CASE UNCHANGED vars
  BY <1>1 DEF Received, Arrived, Bytes, EncodedUnits, vars
<1>2. ASSUME NEW n \in 1..Len(Bytes), Pass(n)
      PROVE  Received'
  BY <1>2, ReceivedPass
<1>3. CASE Scan
  BY <1>3, ReceivedScan
<1>4. CASE ScanAborts
  <2>1. aborted' = TRUE
        /\ UNCHANGED <<source, stream, passed, chunk, m_sync_accumulator, m_nalu,
                       m_have_unfinished_NAL, m_rbsp_buffer, m_consecutive_zeros>>
    BY <1>4 DEF ScanAborts
  <2> QED
    BY <2>1 DEF Received, Arrived, Bytes, EncodedUnits
<1> QED
  BY <1>1, <1>2, <1>3, <1>4 DEF Next

(* The types hold, whatever the streams and wherever they are cut. *)
THEOREM TypeCorrect == Spec => []TypeOK
<1>1. Init => Received
  BY ReceivedInit
<1>2. Received /\ [Next]_vars => Received'
  BY ReceivedNext
<1>3. Received => TypeOK
  <2> SUFFICES ASSUME Received
               PROVE  TypeOK
    OBVIOUS
  <2>1. Len(m_sync_accumulator) = 5
    <3>1. PICK b, a, s : b = Bytes /\ a = Arrived /\ s = m_sync_accumulator
      OBVIOUS
    <3>2. b \in Seq(Byte) /\ s = LastBytes(b, a)
      BY <3>1, StreamBytes DEF Received
    <3>3. a \in Nat
      <4>1. passed \in 0..Len(b) /\ Len(chunk) <= passed /\ chunk \in Seq(Byte)
        BY <3>1 DEF Received
      <4>2. Len(chunk) \in Nat /\ Len(b) \in Nat
        BY <3>2, <4>1
      <4> QED
        BY <3>1, <4>1, <4>2 DEF Arrived
    <3>4. Len(s) = 5
      BY ONLY <3>2, <3>3, LastBytesType
    <3> QED
      BY <3>1, <3>4
  <2> QED
    BY <2>1 DEF Received, TypeOK, Last
<1> QED
  BY <1>1, <1>2, <1>3, PTL DEF Spec

-----------------------------------------------------------------------------
(* Parts of the stream: s is what comes after lo bytes, up to the byte hi. *)
Part(s, b, lo, hi) ==
  /\ lo \in Nat /\ hi \in Nat /\ lo <= hi /\ hi <= Len(b)
  /\ b \in Seq(Byte) /\ s \in Seq(Byte)
  /\ Len(s) = hi - lo
  /\ \A i \in 1..(hi - lo) : s[i] = b[lo + i]

(* So is a subsequence. *)
LEMMA SubSeqIsPart ==
  ASSUME NEW b \in Seq(Byte), NEW lo \in Nat, NEW hi \in Nat, lo <= hi, hi <= Len(b)
  PROVE  Part(SubSeq(b, lo + 1, hi), b, lo, hi)
<1>1. PICK s, l : s = SubSeq(b, lo + 1, hi) /\ l = Len(b)
  OBVIOUS
<1>2. l \in Nat
  BY <1>1
<1>3. CASE lo = hi
  <2>1. lo + 1 > hi /\ hi - lo = 0 /\ \A i \in 1..0 : FALSE
    BY <1>3
  <2>2. s = <<>>
    BY ONLY <1>1, <2>1, b \in Seq(Byte), lo \in Nat, hi \in Nat
  <2>3. <<>> \in Seq(Byte) /\ Len(<<>>) = 0
    OBVIOUS
  <2>4. s \in Seq(Byte) /\ Len(s) = hi - lo /\ \A i \in 1..(hi - lo) : s[i] = b[lo + i]
    BY ONLY <2>1, <2>2, <2>3
  <2> QED
    BY ONLY <1>1, <2>4, b \in Seq(Byte), lo \in Nat, hi \in Nat, lo <= hi, hi <= Len(b) DEF Part
<1>4. CASE lo # hi
  <2>2. /\ lo + 1 \in 1..l /\ hi \in 1..l /\ lo + 1 <= hi
        /\ hi - (lo + 1) + 1 = hi - lo /\ \A k \in 1..(hi - lo) : (lo + 1) + k - 1 = lo + k
    BY <1>1, <1>2, <1>4
  <2>3. /\ Len(s) = hi - (lo + 1) + 1 /\ s \in Seq(Byte)
        /\ \A k \in 1..(hi - (lo + 1) + 1) : s[k] = b[(lo + 1) + k - 1]
    BY ONLY <1>1, SubSequence, <2>2, b \in Seq(Byte)
  <2>4. Len(s) = hi - lo /\ \A i \in 1..(hi - lo) : s[i] = b[lo + i]
    BY ONLY <2>2, <2>3
  <2> QED
    BY ONLY <1>1, <2>3, <2>4, b \in Seq(Byte), lo \in Nat, hi \in Nat, lo <= hi, hi <= Len(b)
       DEF Part
<1> QED
  BY <1>3, <1>4

(* There is only one such part. *)
LEMMA SameParts ==
  ASSUME NEW b, NEW lo, NEW hi, NEW s, NEW t, Part(s, b, lo, hi), Part(t, b, lo, hi)
  PROVE  s = t
<1>1. PICK n : n = hi - lo
  OBVIOUS
<1>2. /\ s \in Seq(Byte) /\ t \in Seq(Byte) /\ Len(s) = n /\ Len(t) = n
      /\ \A i \in 1..n : s[i] = t[i]
  BY <1>1 DEF Part
<1> QED
  BY ONLY <1>2

(* A part is a subsequence. *)
LEMMA PartIs ==
  ASSUME NEW b, NEW lo, NEW hi, NEW s, Part(s, b, lo, hi)
  PROVE  s = SubSeq(b, lo + 1, hi)
<1>1. b \in Seq(Byte) /\ lo \in Nat /\ hi \in Nat /\ lo <= hi /\ hi <= Len(b)
  BY DEF Part
<1>2. Part(SubSeq(b, lo + 1, hi), b, lo, hi)
  BY ONLY <1>1, SubSeqIsPart
<1> QED
  BY ONLY <1>2, Part(s, b, lo, hi), SameParts

(* Adjacent parts are one. *)
LEMMA PartsJoin ==
  ASSUME NEW b, NEW lo, NEW mid, NEW hi, NEW s, NEW t, Part(s, b, lo, mid), Part(t, b, mid, hi)
  PROVE  Part(s \o t, b, lo, hi)
<1>1. PICK m, n, x : m = mid - lo /\ n = hi - mid /\ x = s \o t
  OBVIOUS
<1>2. /\ lo \in Nat /\ mid \in Nat /\ hi \in Nat /\ lo <= mid /\ mid <= hi /\ hi <= Len(b)
      /\ b \in Seq(Byte) /\ s \in Seq(Byte) /\ t \in Seq(Byte)
      /\ Len(s) = m /\ Len(t) = n
      /\ (\A i \in 1..m : s[i] = b[lo + i]) /\ (\A i \in 1..n : t[i] = b[mid + i])
  BY <1>1 DEF Part
<1>3. /\ x \in Seq(Byte) /\ Len(x) = m + n
      /\ (\A i \in 1..m : x[i] = s[i]) /\ (\A i \in 1..n : x[m + i] = t[i])
  <2>1. s \in Seq(Byte) /\ t \in Seq(Byte)
    BY ONLY <1>2
  <2>2. /\ s \o t \in Seq(Byte) /\ Len(s \o t) = Len(s) + Len(t)
        /\ \A i \in 1..Len(s) : (s \o t)[i] = s[i]
        /\ \A i \in 1..Len(t) : (s \o t)[Len(s) + i] = t[i]
    BY ONLY <2>1, Concatenation
  <2> QED
    BY ONLY <1>1, <1>2, <2>2
<1>4. m \in Nat /\ n \in Nat /\ hi - lo = m + n /\ lo <= hi /\ mid = lo + m
  BY <1>1, <1>2
<1>5. ASSUME NEW i \in 1..(m + n)
      PROVE  x[i] = b[lo + i]
  <2>1. CASE i \in 1..m
    BY ONLY <1>2, <1>3, <2>1
  <2>2. CASE i \notin 1..m
    <3>1. PICK j \in 1..n : i = m + j
      <4>1. i - m \in 1..n /\ i = m + (i - m)
        BY <1>4, <2>2
      <4> QED
        BY <4>1
    <3>2. mid + j = lo + i
      BY <1>2, <1>4, <3>1
    <3> QED
      BY ONLY <1>2, <1>3, <3>1, <3>2
  <2> QED
    BY <2>1, <2>2
<1>6. Len(x) = hi - lo /\ \A i \in 1..(hi - lo) : x[i] = b[lo + i]
  BY ONLY <1>3, <1>4, <1>5
<1> QED
  BY ONLY <1>1, <1>2, <1>3, <1>4, <1>6 DEF Part

(* The first bytes of a part *)
LEMMA PartCut ==
  ASSUME NEW b, NEW lo, NEW mid \in Nat, NEW hi, NEW s, Part(s, b, lo, hi), lo <= mid, mid <= hi
  PROVE  /\ Part(SubSeq(s, 1, mid - lo), b, lo, mid)
         /\ Part(SubSeq(s, (mid - lo) + 1, Len(s)), b, mid, hi)
<1>1. PICK m, n : m = mid - lo /\ n = hi - lo
  OBVIOUS
<1>2. /\ lo \in Nat /\ hi \in Nat /\ hi <= Len(b) /\ b \in Seq(Byte) /\ s \in Seq(Byte)
      /\ Len(s) = n /\ \A i \in 1..n : s[i] = b[lo + i]
  BY <1>1 DEF Part
<1>3. Len(b) \in Nat
  BY <1>2
<1>4. m \in Nat /\ n \in Nat /\ m <= n /\ mid <= Len(b) /\ 0 \in Nat /\ 0 <= m /\ 0 + 1 = 1
      /\ m - 0 = m /\ n - m = hi - mid
  BY <1>1, <1>2, <1>3
<1>5. PICK x, y : x = SubSeq(s, 1, m) /\ y = SubSeq(s, m + 1, n)
  OBVIOUS
<1>6. Part(x, b, lo, mid)
  <2>1. Part(SubSeq(s, 0 + 1, m), s, 0, m)
    BY ONLY <1>2, <1>4, SubSeqIsPart
  <2>2. Part(x, s, 0, m)
    BY ONLY <1>4, <1>5, <2>1
  <2>3. x \in Seq(Byte) /\ Len(x) = m /\ \A i \in 1..m : x[i] = s[0 + i]
    BY ONLY <1>4, <2>2 DEF Part
  <2>4. \A i \in 1..m : i \in 1..n /\ 0 + i = i
    BY <1>4
  <2>5. \A i \in 1..m : x[i] = b[lo + i]
    BY ONLY <1>2, <2>3, <2>4
  <2> QED
    BY ONLY <1>1, <1>2, <1>4, <2>3, <2>5, mid \in Nat, lo <= mid DEF Part
<1>7. Part(y, b, mid, hi)
  <2>1. Part(y, s, m, n)
    <3>1. n <= Len(s)
      BY ONLY <1>2, <1>4
    <3> QED
      BY ONLY <1>2, <1>4, <1>5, <3>1, SubSeqIsPart
  <2>2. y \in Seq(Byte) /\ Len(y) = n - m /\ \A i \in 1..(n - m) : y[i] = s[m + i]
    BY ONLY <2>1 DEF Part
  <2>3. \A i \in 1..(n - m) : m + i \in 1..n /\ lo + (m + i) = mid + i
    BY <1>1, <1>2, <1>4
  <2>4. \A i \in 1..(n - m) : y[i] = b[mid + i]
    BY ONLY <1>2, <2>2, <2>3
  <2> QED
    BY ONLY <1>2, <1>4, <2>2, <2>4, mid \in Nat, mid <= hi DEF Part
<1> QED
  BY ONLY <1>1, <1>2, <1>5, <1>6, <1>7

-----------------------------------------------------------------------------
(* The payloads to parse, one unit at a time *)
ToParseStep(us) ==
  [k \in 1..Len(us) |-> [p \in Seq(Seq(Byte)) |->
     IF NeedsParsing(us[k].header) THEN Append(p, us[k].payload) ELSE p]]

(* f is what is to be parsed of the first units. *)
ParsingBy(f, us) ==
  /\ f \in [0..Len(us) -> Seq(Seq(Byte))]
  /\ f[0] = <<>>
  /\ \A k \in 1..Len(us) :
       f[k] = IF NeedsParsing(us[k].header) THEN Append(f[k - 1], us[k].payload) ELSE f[k - 1]
  /\ ToParse(us) = f[Len(us)]

(* Such an f exists. *)
LEMMA ToParseIs ==
  ASSUME NEW us \in Seq(Unit)
  PROVE  \E f : ParsingBy(f, us)
<1> DEFINE n == Len(us)
           A == Seq(Seq(Byte))
           F == ToParseStep(us)
           Step(k, p) == IF NeedsParsing(us[k].header) THEN Append(p, us[k].payload) ELSE p
           Upto(g) == g = [k \in 0..n |-> IF k = 0 THEN <<>>
                                          ELSE IF NeedsParsing(us[k].header)
                                               THEN Append(g[k - 1], us[k].payload) ELSE g[k - 1]]
           upto == CHOOSE g : Upto(g)
<1>1. n \in Nat /\ \A k \in 1..n : us[k] \in Unit
  OBVIOUS
<1>2. F \in [1..n -> [A -> A]]
  <2>1. ASSUME NEW k \in 1..n, NEW p \in A
        PROVE  Step(k, p) \in A
    <3>1. us[k].payload \in Seq(Byte)
      BY <1>1 DEF Unit
    <3>2. \A x \in Seq(Byte) : Append(p, x) \in Seq(Seq(Byte))
      OBVIOUS
    <3> QED
      BY <3>1, <3>2
  <2> QED
    BY <2>1 DEF ToParseStep
<1>3. <<>> \in A
  OBVIOUS
<1>10. ToParse(us) = upto[n]
  BY DEF ToParse, upto, n
<1> HIDE DEF F, n, A
<1>4. PICK f : f \in [0..n -> A] /\ Recursive(f, n, <<>>, F)
  BY ONLY <1>1, <1>2, <1>3, RecursiveExists
<1>5. ASSUME NEW k \in 1..n
      PROVE  f[k] = Step(k, f[k - 1])
  <2>1. k - 1 \in 0..n
    BY <1>1
  <2>2. f[k] = F[k][f[k - 1]] /\ f[k - 1] \in A
    BY <1>4, <2>1 DEF Recursive
  <2> QED
    BY <2>2 DEF F, ToParseStep, n, A
<1>6. Upto(f)
  <2>1. f[0] = <<>> /\ DOMAIN f = 0..n
    BY <1>4 DEF Recursive
  <2>2. \A k \in 0..n : k # 0 => k \in 1..n
    BY <1>1
  <2> QED
    BY ONLY <1>4, <1>5, <2>1, <2>2
<1>7. Upto(upto)
  <2> HIDE DEF Upto
  <2> QED
    BY ONLY <1>6
<1> HIDE DEF upto
<1>8. upto[0] = <<>> /\ \A k \in 1..n : upto[k] = Step(k, upto[k - 1])
  <2>1. \A k \in 0..n : upto[k] = IF k = 0 THEN <<>> ELSE Step(k, upto[k - 1])
    BY ONLY <1>7
  <2>2. 0 \in 0..n /\ \A k \in 1..n : k \in 0..n /\ k # 0
    BY <1>1
  <2> HIDE DEF Step
  <2> QED
    BY ONLY <2>1, <2>2
<1>9. \A k \in 0..n : upto[k] = f[k]
  <2>1. f[0] = <<>>
    BY <1>4 DEF Recursive
  <2> HIDE DEF Step
  <2>2. Alike(upto, f, n)
    BY ONLY <1>1, <1>5, <1>8, <2>1 DEF Alike
  <2> QED
    BY ONLY <2>2, AlikeUpto
<1>11. ToParse(us) = f[n]
  BY <1>1, <1>9, <1>10
<1>12. f[0] = <<>>
  BY <1>4 DEF Recursive
<1> QED
  BY ONLY <1>4, <1>5, <1>11, <1>12 DEF n, A, ParsingBy

(* One more unit is one more payload, if it is parsed. *)
LEMMA ToParseGrows ==
  ASSUME NEW us \in Seq(Unit), NEW u \in Unit
  PROVE  /\ ToParse(<<>>) = <<>>
         /\ ToParse(Append(us, u)) = IF NeedsParsing(u.header) THEN Append(ToParse(us), u.payload)
                                     ELSE ToParse(us)
<1> DEFINE n == Len(us)
           more == Append(us, u)
           Step(p, x) == IF NeedsParsing(x.header) THEN Append(p, x.payload) ELSE p
<1>1. /\ n \in Nat /\ more \in Seq(Unit) /\ Len(more) = n + 1
      /\ more[n + 1] = u /\ \A k \in 1..n : more[k] = us[k]
  OBVIOUS
<1>2. PICK f : ParsingBy(f, us)
  BY ToParseIs
<1> HIDE DEF more
<1>3. PICK g : ParsingBy(g, more)
  BY ONLY <1>1, ToParseIs
<1>10. \A k \in 1..n : f[k] = Step(f[k - 1], us[k])
  BY ONLY <1>2 DEF ParsingBy
<1>11. \A k \in 1..Len(more) : g[k] = Step(g[k - 1], more[k])
  BY ONLY <1>3 DEF ParsingBy
<1> HIDE DEF n, Step
<1>4. \A k \in 1..n : g[k] = Step(g[k - 1], us[k])
  <2>1. \A k \in 1..n : k \in 1..Len(more)
    BY <1>1
  <2> QED
    BY ONLY <1>1, <1>11, <2>1
<1>5. \A k \in 0..n : f[k] = g[k]
  <2>1. f[0] = g[0]
    BY ONLY <1>2, <1>3 DEF ParsingBy
  <2>2. Alike(f, g, n)
    BY ONLY <1>1, <1>4, <1>10, <2>1 DEF Alike
  <2> QED
    BY ONLY <2>2, AlikeUpto
<1>6. g[n + 1] = Step(g[n], u)
  <2>1. PICK m : m = Len(more)
    OBVIOUS
  <2>2. m \in 1..Len(more) /\ m - 1 = n /\ m = n + 1
    BY ONLY <1>1, <2>1
  <2>3. g[m] = Step(g[m - 1], more[m])
    BY ONLY <1>11, <2>2
  <2>4. more[m] = u
    BY ONLY <1>1, <2>2
  <2> QED
    BY ONLY <2>2, <2>3, <2>4
<1>7. ToParse(more) = Step(ToParse(us), u)
  <2>1. n \in 0..n
    BY <1>1
  <2>2. ToParse(us) = f[n]
    BY ONLY <1>2 DEF ParsingBy, n
  <2>3. ToParse(more) = g[n + 1] /\ f[n] = g[n]
    BY ONLY <1>1, <1>3, <1>5, <2>1 DEF ParsingBy
  <2> QED
    BY ONLY <1>6, <2>2, <2>3
<1>8. ToParse(<<>>) = <<>>
  <2>1. PICK none \in Seq(Unit) : none = <<>> /\ Len(none) = 0
    <3>1. <<>> \in Seq(Unit) /\ Len(<<>>) = 0
      OBVIOUS
    <3> QED
      BY <3>1
  <2>2. PICK h : ParsingBy(h, none)
    BY ONLY <2>1, ToParseIs
  <2> QED
    BY <2>1, <2>2 DEF ParsingBy
<1> QED
  BY ONLY <1>7, <1>8 DEF more, Step

(* Of the first k units, and of one more *)
LEMMA ToParseMore ==
  ASSUME NEW st \in Seq(Unit), NEW k \in 1..Len(st), NEW j, j = k - 1
  PROVE  ToParse(SubSeq(st, 1, k)) =
           IF NeedsParsing(st[k].header) THEN Append(ToParse(SubSeq(st, 1, j)), st[k].payload)
           ELSE ToParse(SubSeq(st, 1, j))
<1>1. PICK us, u : us = SubSeq(st, 1, j) /\ u = st[k]
  OBVIOUS
<1>2. us \in Seq(Unit) /\ u \in Unit /\ SubSeq(st, 1, k) = Append(us, u)
  BY <1>1
<1>3. ToParse(Append(us, u)) = IF NeedsParsing(u.header) THEN Append(ToParse(us), u.payload)
                               ELSE ToParse(us)
  BY ONLY <1>2, ToParseGrows
<1> QED
  BY ONLY <1>1, <1>2, <1>3

-----------------------------------------------------------------------------
(* The headers come one after another. *)
LEMMA HeadOrder ==
  ASSUME NEW st, NEW units, NEW bytes, NEW off, Written(st, units, bytes, off),
         NEW j \in 1..Len(st), NEW k \in 1..Len(st), j < k
  PROVE  /\ HeaderAt(st, off, j) \in Nat /\ HeaderAt(st, off, k) \in Nat
         /\ HeaderAt(st, off, j) < HeaderAt(st, off, k)
<1>1. PICK p, q : p = HeaderAt(st, off, j) /\ q = HeaderAt(st, off, k)
  OBVIOUS
<1>2. p \in 4..Len(bytes) /\ p <= off[j] /\ off[j] \in Nat
  BY <1>1, HeadHits
<1>3. q \in 4..Len(bytes) /\ off[k - 1] < q /\ off[k - 1] \in Nat
  BY <1>1, HeadHits
<1>4. off[j] <= off[k - 1]
  <2>1. Len(st) \in Nat
    BY DEF Written
  <2>2. j \in 0..Len(st) /\ k - 1 \in 0..Len(st) /\ j <= k - 1
    BY <2>1
  <2> QED
    BY ONLY <2>2, Written(st, units, bytes, off) DEF Written, LaidOut
<1>5. p \in Nat /\ q \in Nat /\ p < q
  BY <1>2, <1>3, <1>4
<1> QED
  BY <1>1, <1>5

(* A unit, its start code with the header, and the payload with the next of *)
(* those are parts of the stream.                                           *)
StartAndHeader(u) == StartCode(u.long) \o <<u.header>>

(* They are. *)
LEMMA UnitParts ==
  ASSUME NEW st, NEW units, NEW bytes, NEW off, Written(st, units, bytes, off),
         NEW k \in 1..Len(st)
  PROVE  /\ Part(units[k], bytes, off[k - 1], off[k])
         /\ Part(StartAndHeader(st[k]), bytes, off[k - 1], HeaderAt(st, off, k))
         /\ Part(Escape(st[k].payload), bytes, HeaderAt(st, off, k), off[k])
<1>1. PICK a, c, e, u, h, x : a = off[k - 1] /\ c = Code(st[k]) /\ e = off[k] /\ u = units[k]
                              /\ h = StartAndHeader(st[k]) /\ x = Escape(st[k].payload)
  OBVIOUS
<1>2. Placed(u, bytes, a, c, e)
  BY <1>1, UnitPlaced
<1>3. /\ a \in Nat /\ c \in {3, 4} /\ e \in Nat /\ Len(u) \in Nat
      /\ e = a + Len(u) /\ Len(u) >= c + 1 /\ e <= Len(bytes) /\ Len(bytes) \in Nat
      /\ \A i \in 1..Len(u) : bytes[a + i] = u[i]
  BY ONLY <1>2 DEF Placed
<1>4. bytes \in Seq(Byte)
  BY DEF Written, LaidOut
<1>5. u \in Seq(Byte) /\ u = h \o x /\ Len(h) = c + 1
  BY <1>1 DEF Written, UnitRight, StartAndHeader
<1>6. e - a = Len(u) /\ a <= e
  BY <1>3
<1>7. Part(u, bytes, a, e)
  BY ONLY <1>3, <1>4, <1>5, <1>6 DEF Part
<1>8. PICK m : m = a + c + 1
  OBVIOUS
<1>9. m \in Nat /\ a <= m /\ m <= e /\ m - a = c + 1
  BY <1>3, <1>8
<1>10. h \in Seq(Byte) /\ x \in Seq(Byte)
  <2>1. UnitRight(st[k], u)
    BY <1>1 DEF Written
  <2> QED
    BY ONLY <1>1, <2>1 DEF UnitRight, StartAndHeader
<1>11. SubSeq(u, 1, m - a) = h /\ SubSeq(u, (m - a) + 1, Len(u)) = x
  BY <1>5, <1>9, <1>10
<1>12. Part(h, bytes, a, m) /\ Part(x, bytes, m, e)
  <2>1. Part(SubSeq(u, 1, m - a), bytes, a, m) /\ Part(SubSeq(u, (m - a) + 1, Len(u)), bytes, m, e)
    BY ONLY <1>7, <1>9, PartCut
  <2> QED
    BY ONLY <1>11, <2>1
<1>13. m = HeaderAt(st, off, k)
  BY <1>1, <1>8 DEF HeaderAt
<1> QED
  BY ONLY <1>1, <1>7, <1>12, <1>13

-----------------------------------------------------------------------------
(* Without padding, what arrives is the units and nothing else. *)
NoPadding == \A i \in DOMAIN stream : stream[i].padding = 0

(* The stream is laid out as its units. *)
LEMMA StreamWritten ==
  ASSUME stream \in Streams, NoPadding
  PROVE  \E off : Written(stream, EncodedUnits, Bytes, off)
<1>1. PICK st, us, b : st = stream /\ us = EncodedUnits /\ b = Bytes
  OBVIOUS
<1>2. /\ st \in Seq(Unit) /\ us = EncodedSeq(st) /\ us \in Seq(Seq(Byte)) /\ Len(us) = Len(st)
      /\ b = FlattenSeq(us)
  BY <1>1, StreamBytes
<1>3. PICK off : LaidOut(us, b, off)
  BY ONLY <1>2, Layout
<1>4. PICK n : n = Len(st)
  OBVIOUS
<1>5. n \in Nat /\ DOMAIN st = 1..n /\ \A k \in 1..n : st[k] \in Unit
  BY <1>2, <1>4
<1>6. \A k \in 1..n : st[k].padding = 0 /\ (st[k].payload # <<>> => Last(st[k].payload) # 0)
  <2>1. \A k \in DOMAIN stream : stream[k].payload # <<>> => Last(stream[k].payload) # 0
    BY StreamsAssumption
  <2> QED
    BY ONLY NoPadding, <1>1, <1>5, <2>1 DEF NoPadding
<1>7. ASSUME NEW k \in 1..n
      PROVE  UnitRight(st[k], us[k])
  <2>1. us[k] = Encoded(st[k])
    BY ONLY <1>2, <1>5, k \in 1..n DEF EncodedSeq
  <2>2. PICK u \in Unit : u = st[k]
    BY <1>5
  <2>3. u.padding = 0 /\ (u.payload # <<>> => Last(u.payload) # 0)
    BY ONLY <1>6, <2>2, k \in 1..n
  <2>4. UnitRight(u, Encoded(u))
    BY ONLY <2>3, u \in Unit, UnitIs
  <2> QED
    BY ONLY <2>1, <2>2, <2>4
<1>8. Written(st, us, b, off)
  BY ONLY <1>2, <1>3, <1>4, <1>5, <1>6, <1>7 DEF Written, Last
<1> QED
  BY ONLY <1>1, <1>8

(* How many units are finished when k headers have been found *)
Complete(k) == IF k = 0 THEN 0 ELSE k - 1

(* The header of unit k has been found and that of the next has not: what is *)
(* stored and parsed are the units before, and the rest is in the buffers.   *)
Caught(off, k) ==
  /\ k \in 0..Len(stream)
  /\ Written(stream, EncodedUnits, Bytes, off)
  /\ k > 0 => HeaderAt(stream, off, k) <= Arrived
  /\ k < Len(stream) => Arrived < HeaderAt(stream, off, k + 1)
  /\ Part(m_nalu, Bytes, off[Complete(k)], Arrived)
  /\ finished = SubSeq(EncodedUnits, 1, Complete(k))
  /\ parsed = ToParse(SubSeq(stream, 1, Complete(k)))
  /\ m_have_unfinished_NAL = (k > 0 /\ NeedsParsing(stream[k].header))
  /\ m_have_unfinished_NAL =>
       \E s : /\ Part(s, Bytes, HeaderAt(stream, off, k), Arrived)
              /\ [bytes |-> m_rbsp_buffer, zeros |-> m_consecutive_zeros] = Unescape(<<>>, 0, s)

(* No header has been found at first. *)
LEMMA CaughtInit ==
  ASSUME Init, Received, NoPadding
  PROVE  \E off, k : Caught(off, k)
<1>1. stream \in Streams /\ passed = 0 /\ chunk = <<>> /\ m_nalu = <<>> /\ finished = <<>>
      /\ parsed = <<>> /\ m_have_unfinished_NAL = FALSE
  BY DEF Init
<1>2. PICK off : Written(stream, EncodedUnits, Bytes, off)
  BY ONLY <1>1, NoPadding, StreamWritten
<1>3. PICK st, us, b : st = stream /\ us = EncodedUnits /\ b = Bytes
  OBVIOUS
<1>4. /\ Written(st, us, b, off) /\ Len(st) \in Nat /\ b \in Seq(Byte) /\ off[0] = 0
      /\ us \in Seq(Seq(Byte)) /\ st \in Seq(Unit)
  <2>1. Written(st, us, b, off)
    BY ONLY <1>2, <1>3
  <2> QED
    BY ONLY <2>1 DEF Written, LaidOut
<1>5. Len(b) \in Nat
  BY ONLY <1>4
<1>6. Arrived = 0
  <2>1. passed = 0 /\ Len(chunk) = 0 /\ 0 - 0 = 0
    BY <1>1
  <2> QED
    BY ONLY <2>1 DEF Arrived
<1>7. 0 < Len(st) => 0 < HeaderAt(st, off, 0 + 1)
  <2> SUFFICES ASSUME 0 < Len(st)
               PROVE  0 < HeaderAt(st, off, 1)
    OBVIOUS
  <2>1. 1 \in 1..Len(st)
    BY <1>4
  <2>2. PICK q : q = HeaderAt(st, off, 1)
    OBVIOUS
  <2>3. q \in 4..Len(b)
    BY ONLY <1>4, <2>1, <2>2, HeadHits
  <2> QED
    BY <1>5, <2>2, <2>3
<1>8. Part(<<>>, b, off[Complete(0)], 0)
  <2>1. <<>> \in Seq(Byte) /\ Len(<<>>) = 0 - 0 /\ \A i \in 1..(0 - 0) : FALSE
    OBVIOUS
  <2>2. off[Complete(0)] = 0 /\ 0 \in Nat /\ 0 <= 0 /\ 0 <= Len(b)
    BY <1>4, <1>5 DEF Complete
  <2> QED
    BY ONLY <1>4, <2>1, <2>2 DEF Part
<1>9. SubSeq(us, 1, Complete(0)) = <<>> /\ SubSeq(st, 1, Complete(0)) = <<>>
  BY <1>4 DEF Complete
<1>10. ToParse(<<>>) = <<>>
  <2>1. PICK x \in Seq(Unit) : TRUE
    BY ONLY <1>4
  <2>2. PICK u \in Unit : TRUE
    <3>1. <<>> \in Seq(Byte) /\ 0 \in Nat /\ 1 \in 1..255
      OBVIOUS
    <3>2. [padding |-> 0, long |-> TRUE, header |-> 1, payload |-> <<>>] \in Unit
      BY <3>1 DEF Unit
    <3> QED
      BY <3>2
  <2> QED
    BY ONLY x \in Seq(Unit), u \in Unit, ToParseGrows
<1>11. 0 \in 0..Len(st) /\ ~(0 > 0) /\ FALSE \in BOOLEAN
  BY <1>4
<1>12. Caught(off, 0)
  BY ONLY <1>1, <1>3, <1>4, <1>6, <1>7, <1>8, <1>9, <1>10, <1>11 DEF Caught
<1> QED
  BY <1>12

(* Passing bytes finds none. *)
LEMMA CaughtPass ==
  ASSUME Received, NEW n \in 1..Len(Bytes), Pass(n), NEW off, NEW k, Caught(off, k)
  PROVE  Caught(off, k)'
<1>1. Arrived' = Arrived /\ Bytes' = Bytes
  BY ONLY Received, n \in 1..Len(Bytes), Pass(n), ReceivedPass
<1>2. UNCHANGED <<stream, m_nalu, m_have_unfinished_NAL, m_rbsp_buffer, m_consecutive_zeros,
                  finished, parsed>>
  BY DEF Pass
<1>3. EncodedUnits' = EncodedUnits
  BY <1>2 DEF EncodedUnits
<1> QED
  BY ONLY Caught(off, k), <1>1, <1>2, <1>3 DEF Caught

(* What is scanned goes up to the next header, or to the end of the chunk. *)
LEMMA Advance ==
  ASSUME NEW off, NEW k, Caught(off, k), NEW n, Looks(n)
  PROVE  /\ Found => k < Len(stream) /\ Arrived + n = HeaderAt(stream, off, k + 1)
         /\ ~Found => (k < Len(stream) => Arrived + n < HeaderAt(stream, off, k + 1))
<1>1. PICK st, us, b, a, c, m : st = stream /\ us = EncodedUnits /\ b = Bytes /\ a = Arrived
                                /\ c = chunk /\ m = Len(stream)
  OBVIOUS
<1>2. /\ k \in 0..m /\ Written(st, us, b, off)
      /\ (k > 0 => HeaderAt(st, off, k) <= a)
      /\ (k < m => a < HeaderAt(st, off, k + 1))
  BY ONLY Caught(off, k), <1>1 DEF Caught
<1>3. m \in Nat /\ m = Len(st)
  BY ONLY <1>1, <1>2 DEF Written
<1>4. /\ n \in 1..Len(c) /\ (\A e \in 1..(n - 1) : ~Hits(b, a + e))
      /\ (Found <=> Hits(b, a + n))
      /\ a \in Nat /\ n \in Nat /\ a + n <= Len(b) /\ Len(b) \in Nat
  <2>1. /\ n \in 1..Len(c) /\ (\A e \in 1..(n - 1) : ~Hits(b, a + e))
        /\ (Found <=> Hits(b, a + n)) /\ a \in Nat /\ n \in Nat
    BY ONLY Looks(n), <1>1 DEF Looks, Reads
  <2>2. a + n <= passed /\ passed <= Len(b) /\ Len(b) \in Nat /\ passed = a + Len(c)
        /\ Len(c) \in Nat
    BY ONLY Looks(n), <1>1 DEF Looks, Reads
  <2>3. a + n <= Len(b)
    BY ONLY <2>1, <2>2
  <2> QED
    BY ONLY <2>1, <2>2, <2>3
<1>5. n >= 1
  <2>1. Len(c) \in Nat
    BY ONLY Looks(n), <1>1 DEF Looks, Reads
  <2> QED
    BY <1>4, <2>1
<1>6. ASSUME k < m
      PROVE  /\ HeaderAt(st, off, k + 1) \in Nat /\ HeaderAt(st, off, k + 1) >= a + n
             /\ (Found <=> HeaderAt(st, off, k + 1) = a + n)
  <2>1. PICK j, q : j = k + 1 /\ q = HeaderAt(st, off, j)
    OBVIOUS
  <2>2. j \in 1..Len(st)
    BY <1>2, <1>3, <1>6, <2>1
  <2>3. q \in 4..Len(b) /\ Hits(b, q)
    BY ONLY <1>2, <2>1, <2>2, HeadHits
  <2>4. a < q
    BY ONLY <1>2, <1>6, <2>1
  <2>5. q >= a + n
    <3> SUFFICES ASSUME q < a + n
                 PROVE  FALSE
      BY <1>4, <2>3
    <3>1. PICK e \in 1..(n - 1) : a + e = q
      <4>1. q - a \in 1..(n - 1) /\ a + (q - a) = q
        BY <1>4, <2>3, <2>4
      <4> QED
        BY <4>1
    <3> QED
      BY ONLY <1>4, <2>3, <3>1
  <2>6. q = a + n => Found
    BY ONLY <1>4, <2>3
  <2>7. ASSUME Found
        PROVE  q = a + n
    <3>1. PICK o : o = a + n
      OBVIOUS
    <3>2. Hits(b, o) /\ o \in Nat /\ o <= Len(b)
      BY <1>4, <2>7, <3>1
    <3>3. PICK i \in 1..Len(st) : o = HeaderAt(st, off, i)
      BY ONLY <1>2, <3>2, HitIsHead
    <3>4. ~(i < k)
      <4> SUFFICES ASSUME i < k
                   PROVE  FALSE
        OBVIOUS
      <4>1. k \in 1..Len(st) /\ k > 0
        BY <1>2, <1>3
      <4>2. HeaderAt(st, off, i) < HeaderAt(st, off, k) /\ HeaderAt(st, off, k) \in Nat
        BY ONLY <1>2, <4>1, i \in 1..Len(st), i < k, HeadOrder
      <4>3. HeaderAt(st, off, k) <= a
        BY ONLY <1>2, <4>1
      <4> QED
        BY <1>4, <1>5, <3>1, <3>3, <4>2, <4>3
    <3>5. i # k
      <4> SUFFICES ASSUME i = k
                   PROVE  FALSE
        OBVIOUS
      <4>1. k > 0
        BY <1>3
      <4>2. HeaderAt(st, off, k) <= a
        BY ONLY <1>2, <4>1
      <4> QED
        BY <1>4, <1>5, <3>1, <3>3, <4>2
    <3>6. ~(i > j)
      <4> SUFFICES ASSUME j < i
                   PROVE  FALSE
        BY <2>2
      <4>1. q < o
        BY ONLY <1>2, <2>1, <2>2, <3>3, i \in 1..Len(st), j < i, HeadOrder
      <4> QED
        BY <1>4, <2>3, <2>5, <3>1, <4>1
    <3>7. i = j
      BY <1>2, <1>3, <2>1, <2>2, <3>4, <3>5, <3>6
    <3> QED
      BY <2>1, <3>1, <3>3, <3>7
  <2>8. q \in Nat
    BY <2>3
  <2> QED
    BY <2>1, <2>5, <2>6, <2>7, <2>8
<1>7. ASSUME Found
      PROVE  k < m
  <2> SUFFICES ASSUME ~(k < m)
               PROVE  FALSE
    OBVIOUS
  <2>1. PICK o : o = a + n
    OBVIOUS
  <2>2. Hits(b, o) /\ o \in Nat /\ o <= Len(b)
    BY <1>4, <1>7, <2>1
  <2>3. PICK i \in 1..Len(st) : o = HeaderAt(st, off, i)
    BY ONLY <1>2, <2>2, HitIsHead
  <2>4. k = m /\ k \in 1..Len(st) /\ k > 0
    BY <1>2, <1>3
  <2>5. HeaderAt(st, off, k) <= a
    BY ONLY <1>2, <2>4
  <2>6. i <= k
    BY <1>3, <2>4
  <2>7. CASE i = k
    BY <1>4, <1>5, <2>1, <2>3, <2>5, <2>7
  <2>8. CASE i < k
    <3>1. o < HeaderAt(st, off, k) /\ HeaderAt(st, off, k) \in Nat
      BY ONLY <1>2, <2>3, <2>4, <2>8, i \in 1..Len(st), HeadOrder
    <3> QED
      BY <1>4, <1>5, <2>1, <2>5, <3>1
  <2> QED
    BY <1>3, <2>4, <2>6, <2>7, <2>8
<1>8. Found => k < m /\ a + n = HeaderAt(st, off, k + 1)
  BY <1>6, <1>7
<1>9. ~Found => (k < m => a + n < HeaderAt(st, off, k + 1))
  <2> SUFFICES ASSUME ~Found, k < m
               PROVE  a + n < HeaderAt(st, off, k + 1)
    OBVIOUS
  <2>1. PICK q : q = HeaderAt(st, off, k + 1)
    OBVIOUS
  <2>2. q \in Nat /\ q >= a + n /\ q # a + n
    BY <1>6, <2>1
  <2> QED
    BY <1>4, <2>1, <2>2
<1> QED
  BY ONLY <1>1, <1>8, <1>9

(* What is scanned is a part of the stream, and so is what it begins with. *)
LEMMA ScannedIsPart ==
  ASSUME NEW n, Looks(n)
  PROVE  /\ Part(Scanned, Bytes, Arrived, Arrived + n)
         /\ \A i \in 1..n : Part(SubSeq(Scanned, 1, i), Bytes, Arrived, Arrived + i)
<1>1. PICK b, a, s : b = Bytes /\ a = Arrived /\ s = Scanned
  OBVIOUS
<1>2. /\ a \in Nat /\ n \in Nat /\ b \in Seq(Byte) /\ Len(b) \in Nat
      /\ s \in Seq(Byte) /\ Len(s) = n /\ (\A i \in 1..n : s[i] = b[a + i])
  BY ONLY Looks(n), <1>1 DEF Looks, Reads
<1>3. a + n <= Len(b) /\ n > 0
  <2>1. PICK p, l : p = passed /\ l = Len(chunk)
    OBVIOUS
  <2>2. a + n <= p /\ p <= Len(b) /\ p = a + l /\ l \in Nat /\ n \in 1..l
    BY ONLY Looks(n), <1>1, <2>1 DEF Looks, Reads
  <2> QED
    BY ONLY <1>2, <2>2
<1>4. a + n \in Nat /\ a <= a + n /\ (a + n) - a = n
  BY <1>2
<1>5. Part(s, b, a, a + n)
  BY ONLY <1>2, <1>3, <1>4 DEF Part
<1>6. ASSUME NEW i \in 1..n
      PROVE  Part(SubSeq(s, 1, i), b, a, a + i)
  <2>1. a + i \in Nat /\ a <= a + i /\ a + i <= a + n /\ (a + i) - a = i
    BY <1>2
  <2>2. Part(SubSeq(s, 1, (a + i) - a), b, a, a + i)
    BY ONLY <1>5, <2>1, PartCut
  <2> QED
    BY ONLY <2>1, <2>2
<1> QED
  BY ONLY <1>1, <1>5, <1>6

(* The RBSP goes on from what was recovered before, as if all came at once. *)
LEMMA GoesOn ==
  ASSUME Received, NEW off, NEW k, Caught(off, k), m_have_unfinished_NAL,
         NEW hi, NEW t, Part(t, Bytes, Arrived, hi)
  PROVE  \E s : /\ Part(s, Bytes, HeaderAt(stream, off, k), hi)
                /\ Unescape(m_rbsp_buffer, m_consecutive_zeros, t) = Unescape(<<>>, 0, s)
<1>1. PICK b, a, q, r, z : b = Bytes /\ a = Arrived /\ q = HeaderAt(stream, off, k)
                           /\ r = m_rbsp_buffer /\ z = m_consecutive_zeros
  OBVIOUS
<1>2. PICK s : Part(s, b, q, a) /\ [bytes |-> r, zeros |-> z] = Unescape(<<>>, 0, s)
  BY ONLY Caught(off, k), m_have_unfinished_NAL, <1>1 DEF Caught
<1>3. PICK none \in Seq(Byte) : none = <<>>
  <2>1. <<>> \in Seq(Byte)
    OBVIOUS
  <2> QED
    BY <2>1
<1>4. Part(s \o t, b, q, hi)
  BY ONLY <1>1, <1>2, Part(t, Bytes, Arrived, hi), PartsJoin
<1>5. s \in Seq(Byte) /\ t \in Seq(Byte)
  BY ONLY <1>1, <1>2, Part(t, Bytes, Arrived, hi) DEF Part
<1>6. PICK v : v = Unescape(none, 0, s)
  OBVIOUS
<1>7. Unescape(none, 0, s \o t) = Unescape(v.bytes, v.zeros, t)
  BY ONLY <1>5, <1>6, none \in Seq(Byte), 0 \in Nat, UnescapeJoined
<1>8. v = [bytes |-> r, zeros |-> z]
  BY ONLY <1>2, <1>3, <1>6
<1>9. v.bytes = r /\ v.zeros = z
  BY ONLY <1>8
<1>10. Unescape(r, z, t) = Unescape(<<>>, 0, s \o t)
  BY ONLY <1>3, <1>7, <1>9
<1> QED
  BY ONLY <1>1, <1>4, <1>10

(* An iteration that finds no start code adds what it scans to the buffers. *)
LEMMA CaughtGoesOn ==
  ASSUME Received, Scan, ~Found, NEW off, NEW k, Caught(off, k)
  PROVE  Caught(off, k)'
<1>1. PICK n : Looks(n) /\ Arrived' = Arrived + n
  BY ONLY Received, Scan, ReceivedScan
<1>2. Bytes' = Bytes
  BY ONLY Received, Scan, ReceivedScan
<1>3. PICK s, u, r, z, b, a : s = Scanned /\ u = m_nalu /\ r = m_rbsp_buffer
                              /\ z = m_consecutive_zeros /\ b = Bytes /\ a = Arrived
  OBVIOUS
<1>4. UNCHANGED <<stream, parsed, finished, m_have_unfinished_NAL>>
  BY ONLY Scan, ~Found DEF Scan
<1>5. EncodedUnits' = EncodedUnits
  BY <1>4 DEF EncodedUnits
<1>6. Part(s, b, a, a + n)
  BY ONLY <1>1, <1>3, ScannedIsPart
<1>7. m_nalu' = u \o s
  <2>1. Found = FALSE
    BY DEF Found
  <2>2. m_nalu' = Filled(m_nalu, Scanned, Found, Sync[1] = 0)
    BY ONLY Scan, ~Found DEF Scan
  <2>3. m_nalu' = Filled(u, s, FALSE, Sync[1] = 0)
    BY ONLY <1>3, <2>1, <2>2
  <2>4. u \in Seq(Byte) /\ s \in Seq(Byte)
    BY ONLY Received, <1>3, <1>6 DEF Received, Part
  <2> QED
    BY ONLY <2>3, <2>4, FilledAll
<1>8. Part(m_nalu', b, off[Complete(k)], a + n)
  <2>1. Part(u, b, off[Complete(k)], a)
    BY ONLY Caught(off, k), <1>3 DEF Caught
  <2>2. Part(u \o s, b, off[Complete(k)], a + n)
    BY ONLY <1>6, <2>1, PartsJoin
  <2> QED
    BY ONLY <1>7, <2>2
<1>9. m_have_unfinished_NAL =>
        \E t : /\ Part(t, b, HeaderAt(stream, off, k), a + n)
               /\ [bytes |-> m_rbsp_buffer', zeros |-> m_consecutive_zeros'] = Unescape(<<>>, 0, t)
  <2> SUFFICES ASSUME m_have_unfinished_NAL
               PROVE  \E t : /\ Part(t, b, HeaderAt(stream, off, k), a + n)
                             /\ [bytes |-> m_rbsp_buffer', zeros |-> m_consecutive_zeros']
                                  = Unescape(<<>>, 0, t)
    OBVIOUS
  <2>1. PICK v : v = Unescape(r, z, s)
    OBVIOUS
  <2>2. m_rbsp_buffer' = v.bytes /\ m_consecutive_zeros' = v.zeros
    BY ONLY Scan, ~Found, m_have_unfinished_NAL, <1>3, <2>1 DEF Scan, RBSP
  <2>3. Part(s, Bytes, Arrived, a + n)
    BY ONLY <1>3, <1>6
  <2>4. PICK t : /\ Part(t, Bytes, HeaderAt(stream, off, k), a + n)
                 /\ Unescape(m_rbsp_buffer, m_consecutive_zeros, s) = Unescape(<<>>, 0, t)
    BY ONLY Received, Caught(off, k), m_have_unfinished_NAL, <2>3, GoesOn
  <2>5. v \in Recovered
    <3>1. r \in Seq(Byte) /\ z \in Nat /\ s \in Seq(Byte)
      BY ONLY Received, <1>3, <1>6 DEF Received, Part
    <3> QED
      BY ONLY <2>1, <3>1, UnescapeType
  <2>6. [bytes |-> v.bytes, zeros |-> v.zeros] = v
    BY ONLY <2>5 DEF Recovered
  <2> QED
    BY ONLY <1>3, <2>1, <2>2, <2>4, <2>6
<1>10. k < Len(stream) => a + n < HeaderAt(stream, off, k + 1)
  BY ONLY Caught(off, k), <1>1, <1>3, ~Found, Advance
<1>11. k > 0 => HeaderAt(stream, off, k) <= a + n
  <2> SUFFICES ASSUME k > 0
               PROVE  HeaderAt(stream, off, k) <= a + n
    OBVIOUS
  <2>1. PICK q, st : q = HeaderAt(stream, off, k) /\ st = stream
    OBVIOUS
  <2>2. q <= a
    BY ONLY Caught(off, k), <1>3, <2>1, k > 0 DEF Caught
  <2>3. a \in Nat /\ n \in Nat
    BY ONLY <1>1, <1>3 DEF Looks
  <2>4. k \in 1..Len(st) /\ Written(st, EncodedUnits, b, off)
    <3>1. k \in 0..Len(st) /\ Written(st, EncodedUnits, b, off)
      BY ONLY Caught(off, k), <1>3, <2>1 DEF Caught
    <3>2. Len(st) \in Nat
      BY ONLY <3>1 DEF Written
    <3> QED
      BY <3>1, <3>2
  <2>5. q \in 4..Len(b) /\ Len(b) \in Nat
    <3>1. q \in 4..Len(b)
      BY ONLY <2>1, <2>4, HeadHits
    <3>2. Len(b) \in Nat
      BY ONLY <1>1, <1>3 DEF Looks
    <3> QED
      BY <3>1, <3>2
  <2>6. q <= a + n
    BY ONLY <2>2, <2>3, <2>5
  <2> QED
    BY <2>1, <2>6
<1>12. /\ k \in 0..Len(stream) /\ Written(stream, EncodedUnits, Bytes, off)
       /\ finished = SubSeq(EncodedUnits, 1, Complete(k))
       /\ parsed = ToParse(SubSeq(stream, 1, Complete(k)))
       /\ m_have_unfinished_NAL = (k > 0 /\ NeedsParsing(stream[k].header))
  BY ONLY Caught(off, k) DEF Caught
<1>13. Arrived' = a + n /\ Bytes' = b
  BY ONLY <1>1, <1>2, <1>3
<1> QED
  BY ONLY <1>2, <1>3, <1>4, <1>5, <1>8, <1>9, <1>10, <1>11, <1>12, <1>13 DEF Caught

(* A start code that is found is that of the next unit. *)
LEMMA FoundHeader ==
  ASSUME NEW off, NEW k, Caught(off, k), NEW n, Looks(n), Found
  PROVE  /\ k + 1 \in 1..Len(stream) /\ k \in Nat
         /\ Arrived + n = HeaderAt(stream, off, k + 1)
         /\ Sync[5] = stream[k + 1].header
         /\ ((Sync[1] = 0) <=> stream[k + 1].long)
<1>1. PICK st, b, j, q : st = stream /\ b = Bytes /\ j = k + 1 /\ q = HeaderAt(st, off, j)
  OBVIOUS
<1>2. k \in 0..Len(st) /\ Written(st, EncodedUnits, b, off)
  BY ONLY Caught(off, k), <1>1 DEF Caught
<1>3. k < Len(st) /\ Arrived + n = q
  BY ONLY Caught(off, k), Looks(n), Found, <1>1, Advance
<1>4. j \in 1..Len(st) /\ k \in Nat
  <2>1. Len(st) \in Nat
    BY ONLY <1>2 DEF Written
  <2> QED
    BY <1>1, <1>2, <1>3, <2>1
<1>5. /\ q \in 4..Len(b) /\ b[q] = st[j].header
      /\ (At(b, q - 4) = 0) <=> st[j].long
  BY ONLY <1>1, <1>2, <1>4, HeadHits
<1>6. Sync[1] = At(b, q - 4) /\ Sync[5] = At(b, q) /\ Len(b) \in Nat
  BY ONLY Looks(n), <1>1, <1>3 DEF Looks
<1>7. q \in 1..Len(b)
  BY ONLY <1>5, <1>6
<1>8. Sync[5] = b[q]
  BY ONLY <1>6, <1>7 DEF At
<1> QED
  BY ONLY <1>1, <1>3, <1>4, <1>5, <1>6, <1>8

(* What fill_nalu() leaves in m_nalu then ends where the next unit begins. *)
LEMMA FilledCut ==
  ASSUME Received, NEW off, NEW k, Caught(off, k), NEW n, Looks(n), Found
  PROVE  Part(Filled(m_nalu, Scanned, Found, Sync[1] = 0), Bytes, off[Complete(k)], off[k])
<1>1. PICK st, us, b, a, s, u, c, lo, mid :
          /\ st = stream /\ us = EncodedUnits /\ b = Bytes /\ a = Arrived
          /\ s = Scanned /\ u = m_nalu /\ c = Code(stream[k + 1])
          /\ lo = off[Complete(k)] /\ mid = off[k]
  OBVIOUS
<1>2. /\ k + 1 \in 1..Len(st) /\ k \in Nat /\ a + n = HeaderAt(st, off, k + 1)
      /\ ((Sync[1] = 0) <=> st[k + 1].long)
  BY ONLY Caught(off, k), Looks(n), Found, <1>1, FoundHeader
<1>3. a + n = (mid + c) + 1 /\ c \in {3, 4}
  <2>1. (k + 1) - 1 = k
    BY ONLY <1>2
  <2>2. HeaderAt(st, off, k + 1) = (mid + c) + 1
    BY ONLY <1>1, <2>1 DEF HeaderAt
  <2>3. c \in {3, 4}
    BY ONLY <1>1 DEF Code
  <2> QED
    BY ONLY <1>2, <2>2, <2>3
<1>4. Part(u, b, lo, a)
  BY ONLY Caught(off, k), <1>1 DEF Caught
<1>5. Part(s, b, a, a + n)
  BY ONLY Looks(n), <1>1, ScannedIsPart
<1>6. Part(u \o s, b, lo, a + n)
  BY ONLY <1>4, <1>5, PartsJoin
<1>7. lo <= mid /\ mid \in Nat /\ lo \in Nat
  <2>1. LaidOut(us, b, off) /\ Len(us) = Len(st) /\ Len(st) \in Nat /\ k \in 0..Len(st)
    BY ONLY Caught(off, k), <1>1 DEF Caught, Written
  <2>2. Complete(k) \in 0..Len(us) /\ k \in 0..Len(us) /\ Complete(k) <= k
    BY ONLY <1>2, <2>1 DEF Complete
  <2> QED
    BY ONLY <1>1, <2>1, <2>2 DEF LaidOut
<1>8. PICK m, e : m = Len(u) /\ e = Len(s)
  OBVIOUS
<1>9. m = a - lo /\ e = (a + n) - a /\ a \in Nat /\ n \in Nat
  <2>1. m = a - lo /\ e = (a + n) - a
    BY ONLY <1>4, <1>5, <1>8 DEF Part
  <2>2. a \in Nat /\ n \in Nat
    BY ONLY Looks(n), <1>1 DEF Looks
  <2> QED
    BY ONLY <2>1, <2>2
<1>10. m + (e - (c + 1)) = mid - lo /\ mid <= a + n
  BY ONLY <1>3, <1>7, <1>9
<1>11. (IF ~Found THEN 0 ELSE IF Sync[1] = 0 THEN 5 ELSE 4) = c + 1
  <2>1. CASE Sync[1] = 0
    <3>1. c = 4
      BY ONLY <1>1, <1>2, <2>1 DEF Code
    <3> QED
      BY ONLY Found, <2>1, <3>1
  <2>2. CASE Sync[1] # 0
    <3>1. c = 3
      BY ONLY <1>1, <1>2, <2>2 DEF Code
    <3> QED
      BY ONLY Found, <2>2, <3>1
  <2> QED
    BY <2>1, <2>2
<1>12. Filled(u, s, Found, Sync[1] = 0) = SubSeq(u \o s, 1, m + (e - (c + 1)))
  BY ONLY <1>8, <1>11 DEF Filled
<1>13. Filled(u, s, Found, Sync[1] = 0) = SubSeq(u \o s, 1, mid - lo)
  BY ONLY <1>10, <1>12
<1>14. Part(SubSeq(u \o s, 1, mid - lo), b, lo, mid)
  BY ONLY <1>6, <1>7, <1>10, PartCut
<1> QED
  BY ONLY <1>1, <1>13, <1>14

(* What is finished is a unit, unless it is what comes before the first. *)
Ended(units, nalu) == IF nalu # <<>> THEN Append(units, nalu) ELSE units

(* It is the next unit of the stream. *)
LEMMA FinishedUnit ==
  ASSUME Received, NEW off, NEW k, Caught(off, k), NEW n, Looks(n), Found,
         NEW nalu, nalu = Filled(m_nalu, Scanned, Found, Sync[1] = 0)
  PROVE  Ended(finished, nalu) = SubSeq(EncodedUnits, 1, Complete(k + 1))
<1>1. PICK st, us, b : st = stream /\ us = EncodedUnits /\ b = Bytes
  OBVIOUS
<1>2. k + 1 \in 1..Len(st) /\ k \in Nat
  BY ONLY Caught(off, k), Looks(n), Found, <1>1, FoundHeader
<1>3. /\ Written(st, us, b, off) /\ Len(us) = Len(st) /\ Len(st) \in Nat
      /\ us \in Seq(Seq(Byte)) /\ off[0] = 0
      /\ finished = SubSeq(us, 1, Complete(k))
  BY ONLY Caught(off, k), <1>1 DEF Caught, Written, LaidOut
<1>4. Part(nalu, b, off[Complete(k)], off[k])
  BY ONLY Received, Caught(off, k), Looks(n), Found, <1>1,
          nalu = Filled(m_nalu, Scanned, Found, Sync[1] = 0), FilledCut
<1>5. Complete(k + 1) = k
  <2>1. k + 1 # 0 /\ (k + 1) - 1 = k
    BY ONLY <1>2
  <2> QED
    BY ONLY <2>1 DEF Complete
<1>6. CASE k = 0
  <2>1. Complete(k) = 0
    BY ONLY <1>6 DEF Complete
  <2>2. Part(nalu, b, 0, 0)
    BY ONLY <1>3, <1>4, <1>6, <2>1
  <2>3. nalu \in Seq(Byte) /\ Len(nalu) = 0 - 0
    BY ONLY <2>2 DEF Part
  <2>4. nalu = <<>>
    BY ONLY <2>3
  <2> QED
    BY ONLY <1>1, <1>3, <1>5, <1>6, <2>1, <2>4 DEF Ended
<1>7. CASE k # 0
  <2>1. Complete(k) = k - 1 /\ k \in 1..Len(st) /\ k \in 1..Len(us)
    BY ONLY <1>2, <1>3, <1>7 DEF Complete
  <2>2. Part(us[k], b, off[k - 1], off[k])
    BY ONLY <1>3, <2>1, UnitParts
  <2>3. nalu = us[k]
    BY ONLY <1>4, <2>1, <2>2, SameParts
  <2>4. us[k] # <<>>
    <3>1. UnitRight(st[k], us[k])
      BY ONLY <1>3, <2>1 DEF Written
    <3>2. PICK c, x : c = Code(st[k]) /\ x = us[k]
      OBVIOUS
    <3>3. Len(x) >= c + 1 /\ c \in {3, 4}
      BY ONLY <3>1, <3>2 DEF UnitRight, Code
    <3>4. x # <<>>
      BY ONLY <3>3
    <3> QED
      BY ONLY <3>2, <3>4
  <2>5. Append(SubSeq(us, 1, k - 1), us[k]) = SubSeq(us, 1, k)
    BY ONLY <1>3, <2>1
  <2> QED
    BY ONLY <1>1, <1>3, <1>5, <2>1, <2>3, <2>4, <2>5 DEF Ended
<1> QED
  BY <1>6, <1>7

(* What is parsed is its payload. *)
LEMMA ParsedUnit ==
  ASSUME Received, NEW off, NEW k, Caught(off, k), NEW n, Looks(n), Found,
         NEW rbsp, rbsp = Unescape(m_rbsp_buffer, m_consecutive_zeros, Scanned)
  PROVE  /\ (IF m_have_unfinished_NAL THEN Append(parsed, Trimmed(rbsp.bytes)) ELSE parsed)
              = ToParse(SubSeq(stream, 1, Complete(k + 1)))
         /\ m_have_unfinished_NAL => ~(Len(rbsp.bytes) < 4)
<1>1. PICK st, us, b, a : st = stream /\ us = EncodedUnits /\ b = Bytes /\ a = Arrived
  OBVIOUS
<1>2. k + 1 \in 1..Len(st) /\ k \in Nat /\ a + n = HeaderAt(st, off, k + 1)
  BY ONLY Caught(off, k), Looks(n), Found, <1>1, FoundHeader
<1>3. /\ Written(st, us, b, off) /\ Len(st) \in Nat /\ st \in Seq(Unit)
      /\ parsed = ToParse(SubSeq(st, 1, Complete(k)))
      /\ m_have_unfinished_NAL = (k > 0 /\ NeedsParsing(st[k].header))
  BY ONLY Caught(off, k), <1>1 DEF Caught, Written
<1>4. Complete(k + 1) = k
  <2>1. k + 1 # 0 /\ (k + 1) - 1 = k
    BY ONLY <1>2
  <2> QED
    BY ONLY <2>1 DEF Complete
<1>5. CASE k = 0
  <2>1. Complete(k) = k /\ ~(k > 0)
    BY ONLY <1>5 DEF Complete
  <2>2. ~m_have_unfinished_NAL
    BY ONLY <1>3, <2>1
  <2> QED
    BY ONLY <1>1, <1>3, <1>4, <2>1, <2>2
<1>6. CASE k # 0
  <2>1. Complete(k) = k - 1 /\ k \in 1..Len(st) /\ k > 0
    BY ONLY <1>2, <1>3, <1>6 DEF Complete
  <2>2. PICK j : j = k - 1
    OBVIOUS
  <2>3. ToParse(SubSeq(st, 1, k)) =
          IF NeedsParsing(st[k].header) THEN Append(ToParse(SubSeq(st, 1, j)), st[k].payload)
          ELSE ToParse(SubSeq(st, 1, j))
    BY ONLY <1>3, <2>1, <2>2, ToParseMore
  <2>4. CASE ~NeedsParsing(st[k].header)
    BY ONLY <1>1, <1>3, <1>4, <2>1, <2>2, <2>3, <2>4
  <2>5. CASE NeedsParsing(st[k].header)
    <3>1. m_have_unfinished_NAL
      BY ONLY <1>3, <2>1, <2>5
    <3>2. Part(Scanned, Bytes, Arrived, a + n)
      BY ONLY Looks(n), <1>1, ScannedIsPart
    <3>3. PICK s : /\ Part(s, b, HeaderAt(st, off, k), a + n)
                   /\ rbsp = Unescape(<<>>, 0, s)
      <4>1. \E s : /\ Part(s, Bytes, HeaderAt(stream, off, k), a + n)
                   /\ Unescape(m_rbsp_buffer, m_consecutive_zeros, Scanned) = Unescape(<<>>, 0, s)
        BY ONLY Received, Caught(off, k), <3>1, <3>2, GoesOn
      <4> QED
        BY ONLY <1>1, <4>1, rbsp = Unescape(m_rbsp_buffer, m_consecutive_zeros, Scanned)
    <3>4. PICK p, h, t : p = st[k].payload /\ h = StartAndHeader(st[k + 1]) /\ t = Escape(p)
      OBVIOUS
    <3>5. Part(t, b, HeaderAt(st, off, k), off[k])
      BY ONLY <1>3, <2>1, <3>4, UnitParts
    <3>6. Part(h, b, off[k], a + n)
      <4>1. Part(StartAndHeader(st[k + 1]), b, off[(k + 1) - 1], HeaderAt(st, off, k + 1))
        BY ONLY <1>2, <1>3, UnitParts
      <4>2. (k + 1) - 1 = k
        BY ONLY <1>2
      <4> QED
        BY ONLY <1>2, <3>4, <4>1, <4>2
    <3>7. Part(t \o h, b, HeaderAt(st, off, k), a + n)
      BY ONLY <3>5, <3>6, PartsJoin
    <3>8. s = t \o h
      BY ONLY <3>3, <3>7, SameParts
    <3>9. /\ p \in Seq(Byte) /\ (p # <<>> => p[Len(p)] # 0)
          /\ st[k + 1].long \in BOOLEAN /\ st[k + 1].header \in Byte
      <4>1. st[k] \in Unit /\ st[k + 1] \in Unit
        BY ONLY <1>2, <1>3, <2>1
      <4>2. p \in Seq(Byte) /\ st[k + 1].long \in BOOLEAN /\ st[k + 1].header \in 1..255
        BY ONLY <3>4, <4>1 DEF Unit
      <4>3. p # <<>> => p[Len(p)] # 0
        BY ONLY <1>3, <2>1, <3>4 DEF Written
      <4>4. \A i \in 1..255 : i \in 0..255
        OBVIOUS
      <4> QED
        BY ONLY <4>2, <4>3, <4>4 DEF Byte
    <3>10. /\ Trimmed(Unescape(<<>>, 0, t \o h).bytes) = p
           /\ ~(Len(Unescape(<<>>, 0, t \o h).bytes) < 4)
      <4>1. PICK long, x : long = st[k + 1].long /\ x = st[k + 1].header
        OBVIOUS
      <4>2. /\ Trimmed(Unescape(<<>>, 0, Escape(p) \o (StartCode(long) \o <<x>>)).bytes) = p
            /\ ~(Len(Unescape(<<>>, 0, Escape(p) \o (StartCode(long) \o <<x>>)).bytes) < 4)
        BY ONLY <3>9, <4>1, PayloadRecovered
      <4>3. h = StartCode(long) \o <<x>>
        BY ONLY <3>4, <4>1 DEF StartAndHeader
      <4> QED
        BY ONLY <3>4, <4>2, <4>3
    <3>11. Trimmed(rbsp.bytes) = p /\ ~(Len(rbsp.bytes) < 4)
      BY ONLY <3>3, <3>8, <3>10
    <3> QED
      BY ONLY <1>1, <1>3, <1>4, <2>1, <2>2, <2>3, <2>5, <3>1, <3>4, <3>11
  <2> QED
    BY <2>4, <2>5
<1> QED
  BY <1>5, <1>6

(* An iteration that finds one finishes the unit before and begins the next. *)
LEMMA CaughtUnit ==
  ASSUME Received, Scan, Found, NEW off, NEW k, Caught(off, k)
  PROVE  Caught(off, k + 1)'
<1>1. PICK n : Looks(n) /\ Arrived' = Arrived + n
  BY ONLY Received, Scan, ReceivedScan
<1>2. Bytes' = Bytes
  BY ONLY Received, Scan, ReceivedScan
<1>3. PICK st, us, b, a, j : st = stream /\ us = EncodedUnits /\ b = Bytes /\ a = Arrived
                             /\ j = k + 1
  OBVIOUS
<1>4. /\ j \in 1..Len(st) /\ k \in Nat /\ a + n = HeaderAt(st, off, j)
      /\ Sync[5] = st[j].header /\ ((Sync[1] = 0) <=> st[j].long)
  BY ONLY Caught(off, k), Found, <1>1, <1>3, FoundHeader
<1>5. /\ Written(st, us, b, off) /\ Len(st) \in Nat /\ b \in Seq(Byte)
  BY ONLY Caught(off, k), <1>3 DEF Caught, Written, LaidOut
<1>6. PICK nalu, rbsp : /\ nalu = Filled(m_nalu, Scanned, Found, Sync[1] = 0)
                        /\ rbsp = Unescape(m_rbsp_buffer, m_consecutive_zeros, Scanned)
  OBVIOUS
<1>7. /\ finished' = Ended(finished, nalu)
      /\ parsed' = (IF m_have_unfinished_NAL THEN Append(parsed, Trimmed(rbsp.bytes)) ELSE parsed)
      /\ m_nalu' = StartCode(Sync[1] = 0) \o <<Sync[5]>>
      /\ m_have_unfinished_NAL' = NeedsParsing(Sync[5])
      /\ m_rbsp_buffer' = <<>> /\ m_consecutive_zeros' = 0
      /\ stream' = stream
  BY ONLY Scan, Found, <1>6 DEF Scan, RBSP, Ended
<1>8. EncodedUnits' = us /\ stream' = st /\ Bytes' = b /\ Arrived' = a + n
  BY ONLY <1>1, <1>2, <1>3, <1>7 DEF EncodedUnits
<1>9. finished' = SubSeq(us, 1, Complete(j))
  <2>1. Ended(finished, nalu) = SubSeq(EncodedUnits, 1, Complete(k + 1))
    BY ONLY Received, Caught(off, k), Found, <1>1, <1>6, FinishedUnit
  <2> QED
    BY ONLY <1>3, <1>7, <2>1
<1>10. parsed' = ToParse(SubSeq(st, 1, Complete(j)))
  <2>1. (IF m_have_unfinished_NAL THEN Append(parsed, Trimmed(rbsp.bytes)) ELSE parsed)
          = ToParse(SubSeq(stream, 1, Complete(k + 1)))
    BY ONLY Received, Caught(off, k), Found, <1>1, <1>6, ParsedUnit
  <2> QED
    BY ONLY <1>3, <1>7, <2>1
<1>11. m_nalu' = StartAndHeader(st[j])
  <2>1. StartCode(Sync[1] = 0) = StartCode(st[j].long)
    BY ONLY <1>4 DEF StartCode
  <2> QED
    BY ONLY <1>4, <1>7, <2>1 DEF StartAndHeader
<1>12. Part(m_nalu', b, off[Complete(j)], a + n)
  <2>1. Complete(j) = j - 1
    BY ONLY <1>4 DEF Complete
  <2>2. Part(StartAndHeader(st[j]), b, off[j - 1], HeaderAt(st, off, j))
    BY ONLY <1>4, <1>5, UnitParts
  <2> QED
    BY ONLY <1>4, <1>11, <2>1, <2>2
<1>13. m_have_unfinished_NAL' = (j > 0 /\ NeedsParsing(st[j].header))
  <2>1. j > 0
    BY ONLY <1>4
  <2>2. NeedsParsing(st[j].header) \in BOOLEAN
    BY DEF NeedsParsing
  <2> QED
    BY ONLY <1>4, <1>7, <2>1, <2>2
<1>14. /\ Part(<<>>, b, HeaderAt(st, off, j), a + n)
       /\ [bytes |-> m_rbsp_buffer', zeros |-> m_consecutive_zeros'] = Unescape(<<>>, 0, <<>>)
  <2>1. PICK none \in Seq(Byte) : none = <<>> /\ Len(none) = 0
    <3>1. <<>> \in Seq(Byte) /\ Len(<<>>) = 0
      OBVIOUS
    <3> QED
      BY <3>1
  <2>2. a + n \in Nat /\ a + n <= Len(b) /\ (a + n) - (a + n) = 0
    <3>1. PICK q : q = a + n
      OBVIOUS
    <3>2. q \in 4..Len(b) /\ Len(b) \in Nat
      <4>1. q \in 4..Len(b)
        BY ONLY <1>4, <1>5, <3>1, HeadHits
      <4>2. Len(b) \in Nat
        BY ONLY <1>5
      <4> QED
        BY <4>1, <4>2
    <3>3. q \in Nat /\ q <= Len(b) /\ q - q = 0
      BY ONLY <3>2
    <3> QED
      BY ONLY <3>1, <3>3
  <2>3. \A i \in 1..0 : FALSE
    OBVIOUS
  <2>4. Part(none, b, a + n, a + n)
    <3>1. PICK q : q = a + n
      OBVIOUS
    <3>2. q \in Nat /\ q <= Len(b) /\ q - q = 0 /\ q <= q
      BY ONLY <2>2, <3>1
    <3>3. Part(none, b, q, q)
      BY ONLY none \in Seq(Byte), <1>5, <2>1, <2>3, <3>2 DEF Part
    <3> QED
      BY ONLY <3>1, <3>3
  <2>5. Unescape(none, 0, <<>>) = [bytes |-> none, zeros |-> 0]
    BY ONLY none \in Seq(Byte), 0 \in Nat, UnescapeNone
  <2> QED
    BY ONLY <1>4, <1>7, <2>1, <2>4, <2>5
<1>15. j < Len(st) => a + n < HeaderAt(st, off, j + 1)
  <2> SUFFICES ASSUME j < Len(st)
               PROVE  a + n < HeaderAt(st, off, j + 1)
    OBVIOUS
  <2>1. PICK i : i = j + 1
    OBVIOUS
  <2>2. i \in 1..Len(st) /\ j < i
    BY <1>4, <1>5, <2>1
  <2>3. HeaderAt(st, off, j) < HeaderAt(st, off, i)
    BY ONLY <1>4, <1>5, <2>2, HeadOrder
  <2> QED
    BY ONLY <1>4, <2>1, <2>3
<1>16. HeaderAt(st, off, j) <= a + n
  <2>1. PICK q : q = HeaderAt(st, off, j)
    OBVIOUS
  <2>2. q \in 4..Len(b)
    BY ONLY <1>4, <1>5, <2>1, HeadHits
  <2>3. q <= q
    BY ONLY <2>2
  <2> QED
    BY ONLY <1>4, <2>1, <2>3
<1>17. j \in 0..Len(st)
  BY ONLY <1>4, <1>5
<1>18. Caught(off, j)'
  BY ONLY <1>5, <1>8, <1>9, <1>10, <1>12, <1>13, <1>14, <1>15, <1>16, <1>17 DEF Caught
<1> QED
  BY ONLY <1>3, <1>18

(* After every step some headers have been found. *)
LEMMA CaughtNext ==
  ASSUME Received, [Next]_vars, NEW off, NEW k, Caught(off, k)
  PROVE  \E o, j : Caught(o, j)'
<1>1. CASE UNCHANGED vars
  <2>1. Caught(off, k)'
    BY <1>1 DEF Caught, Arrived, Bytes, EncodedUnits, vars
  <2> QED
    BY <2>1
<1>2. ASSUME NEW n \in 1..Len(Bytes), Pass(n)
      PROVE  \E o, j : Caught(o, j)'
  <2>1. Caught(off, k)'
    BY ONLY Received, n \in 1..Len(Bytes), <1>2, Caught(off, k), CaughtPass
  <2> QED
    BY <2>1
<1>3. CASE Scan
  <2>1. CASE Found
    <3>1. Caught(off, k + 1)'
      BY ONLY Received, <1>3, <2>1, Caught(off, k), CaughtUnit
    <3> QED
      BY <3>1
  <2>2. CASE ~Found
    <3>1. Caught(off, k)'
      BY ONLY Received, <1>3, <2>2, Caught(off, k), CaughtGoesOn
    <3> QED
      BY <3>1
  <2> QED
    BY <2>1, <2>2
<1>4. CASE ScanAborts
  <2>1. UNCHANGED <<stream, passed, chunk, m_nalu, m_have_unfinished_NAL, m_rbsp_buffer,
                    m_consecutive_zeros, finished, parsed>>
    BY <1>4 DEF ScanAborts
  <2>2. Caught(off, k)'
    BY ONLY Caught(off, k), <2>1 DEF Caught, Arrived, Bytes, EncodedUnits
  <2> QED
    BY <2>2
<1> QED
  BY <1>1, <1>2, <1>3, <1>4 DEF Next

-----------------------------------------------------------------------------
(* What follows what is scanned goes on with the stream, in a mapped file or *)
(* as far as the chunk goes.                                                 *)
LEMMA BeyondGoesOn ==
  ASSUME Received, NEW n, Looks(n), NEW x \in Anything, NEW i \in 1..n,
         NEW q, q = Arrived + i, q + 1 <= Len(Bytes), source = "file" \/ i < Len(chunk)
  PROVE  (Scanned \o Beyond(x))[i + 1] = Bytes[q + 1]
<1>1. PICK b, a, s, l, c : b = Bytes /\ a = Arrived /\ s = Scanned /\ l = Len(Bytes)
                           /\ c = chunk
  OBVIOUS
<1>2. Part(s, b, a, a + n)
  BY ONLY Looks(n), <1>1, ScannedIsPart
<1>3. /\ a \in Nat /\ n \in Nat /\ b \in Seq(Byte) /\ l \in Nat /\ l = Len(b)
      /\ a + n <= passed /\ passed <= l /\ Len(s) = n /\ s \in Seq(Byte)
      /\ s = SubSeq(c, 1, n) /\ a + Len(c) = passed /\ n \in 1..Len(c)
  BY ONLY Looks(n), <1>1 DEF Looks, Reads
<1>4. a + n \in Nat /\ a + n <= l
  BY ONLY <1>2, <1>3 DEF Part
<1>7. chunk \in Seq(Byte) /\ \A j \in 1..Len(chunk) : chunk[j] = Bytes[Arrived + j]
  BY ONLY Received DEF Received
<1>5. CASE source = "file"
  <2>1. Part(SubSeq(b, (a + n) + 1, l), b, a + n, l)
    <3>1. l <= l
      BY ONLY <1>3
    <3> QED
      BY ONLY <1>3, <1>4, <3>1, SubSeqIsPart
  <2>2. Beyond(x) = SubSeq(b, (a + n) + 1, l)
    <3>1. Beyond(x) = SubSeq(Bytes, ((passed - Len(chunk)) + Len(Scanned)) + 1, Len(Bytes))
      BY <1>5 DEF Beyond
    <3>2. passed - Len(chunk) = a
      BY ONLY <1>1 DEF Arrived
    <3> QED
      BY ONLY <1>1, <1>3, <3>1, <3>2
  <2>3. Part(s \o Beyond(x), b, a, l)
    BY ONLY <1>2, <2>1, <2>2, PartsJoin
  <2>4. i + 1 \in 1..(l - a) /\ a + (i + 1) = q + 1
    BY ONLY <1>1, <1>3, i \in 1..n, q = Arrived + i, q + 1 <= Len(Bytes)
  <2>5. (s \o Beyond(x))[i + 1] = b[a + (i + 1)]
    BY ONLY <2>3, <2>4 DEF Part
  <2> QED
    BY ONLY <1>1, <2>4, <2>5
<1>6. CASE source # "file"
  <2>1. PICK m, r : m = Len(c) /\ r = SubSeq(c, n + 1, m)
    OBVIOUS
  <2>2. Beyond(x) = Append(r, x)
    BY ONLY <1>1, <1>3, <1>6, <2>1 DEF Beyond
  <2>3. c \in Seq(Byte) /\ m \in Nat /\ i < m /\ i \in Nat /\ n <= m /\ i <= n
    BY ONLY <1>1, <1>3, <1>6, <2>1, <1>7, i \in 1..n,
            source = "file" \/ i < Len(chunk)
  <2>4. /\ r \in Seq(Byte) /\ Len(r) = m - n
        /\ \A d \in 1..(m - n) : r[d] = c[n + d]
    <3>1. Part(SubSeq(c, n + 1, m), c, n, m)
      <4>1. m <= Len(c)
        BY ONLY <2>1, <2>3
      <4> QED
        BY ONLY <1>3, <2>3, <4>1, SubSeqIsPart
    <3> QED
      BY ONLY <2>1, <3>1 DEF Part
  <2>5. x \in Byte
    BY x \in Anything DEF Anything, Byte
  <2>6. /\ Append(r, x) \in Seq(Byte) /\ Len(Append(r, x)) = (m - n) + 1
        /\ \A d \in 1..(m - n) : Append(r, x)[d] = r[d]
    BY ONLY <2>4, <2>5
  <2>7. PICK y : y = Append(r, x)
    OBVIOUS
  <2>8. y \in Seq(Byte) /\ Len(y) = (m - n) + 1 /\ \A d \in 1..(m - n) : y[d] = r[d]
    BY ONLY <2>6, <2>7
  <2>9. (s \o y)[i + 1] = c[i + 1]
    <3>1. CASE i < n
      <4>1. i + 1 \in 1..Len(s) /\ (s \o y)[i + 1] = s[i + 1]
        BY ONLY <1>3, <2>3, <2>8, <3>1
      <4>2. s[i + 1] = c[i + 1]
        BY ONLY <1>3, <2>3, <3>1
      <4> QED
        BY ONLY <4>1, <4>2
    <3>2. CASE i = n
      <4>1. 1 \in 1..(m - n) /\ 1 \in 1..Len(y)
        BY ONLY <1>3, <2>3, <2>8, <3>2
      <4>2. (s \o y)[n + 1] = y[1]
        BY ONLY <1>3, <2>8, <4>1
      <4>3. y[1] = c[n + 1]
        BY ONLY <2>4, <2>8, <4>1
      <4> QED
        BY ONLY <3>2, <4>2, <4>3
    <3>3. i < n \/ i = n
      BY ONLY <1>3, <2>3
    <3> QED
      BY ONLY <3>1, <3>2, <3>3
  <2>10. c[i + 1] = b[a + (i + 1)]
    <3>1. i + 1 \in 1..Len(c)
      BY ONLY <2>1, <2>3
    <3> QED
      BY ONLY <1>1, <1>7, <3>1
  <2>11. a + (i + 1) = q + 1
    BY ONLY <1>1, <1>3, <2>3, q = Arrived + i
  <2> QED
    BY ONLY <1>1, <2>2, <2>7, <2>9, <2>10, <2>11
<1> QED
  BY <1>5, <1>6

(* Never more than three zeros come before the end of what is scanned, and *)
(* three are followed by the 1 of a start code, which may not have come in *)
(* the packet of a camera yet.                                             *)
LEMMA FewZeros ==
  ASSUME Received, NEW off, NEW k, Caught(off, k), NEW n, Looks(n), m_have_unfinished_NAL,
         NEW beyond \in Anything, ~LooksBehind
  PROVE  ~TooManyZeros(m_consecutive_zeros, Scanned, Beyond(beyond))
<1>1. PICK b, a, c, r, z, x : /\ b = Bytes /\ a = Arrived /\ c = Scanned
                              /\ r = m_rbsp_buffer /\ z = m_consecutive_zeros
                              /\ x = Scanned \o Beyond(beyond)
  OBVIOUS
<1>2. /\ a \in Nat /\ n \in Nat /\ b \in Seq(Byte) /\ Len(b) \in Nat
      /\ c \in Seq(Byte) /\ Len(c) = n
      /\ r \in Seq(Byte) /\ z \in Nat
  <2>1. r \in Seq(Byte) /\ z \in 0..3
    BY ONLY Received, <1>1 DEF Received
  <2> QED
    BY ONLY Looks(n), <1>1, <2>1 DEF Looks, Reads
<1>3. DOMAIN c = 1..n
  BY <1>2
<1>4. ASSUME NEW i \in 1..n, NEW y, y = Unescape(<<>>, z, SubSeq(c, 1, i)).zeros
      PROVE  y <= 3 /\ (y = 3 => x[i + 1] = 1)
  <2>1. PICK t, q : t = SubSeq(c, 1, i) /\ q = a + i
    OBVIOUS
  <2>2. Part(t, b, a, q)
    BY ONLY Looks(n), i \in 1..n, <1>1, <2>1, ScannedIsPart
  <2>3. PICK h : h = HeaderAt(stream, off, k)
    OBVIOUS
  <2>4. PICK s : Part(s, b, h, q) /\ Unescape(r, z, t) = Unescape(<<>>, 0, s)
    <3>1. Part(t, Bytes, Arrived, q)
      BY ONLY <1>1, <2>2
    <3>2. \E s : /\ Part(s, Bytes, HeaderAt(stream, off, k), q)
                 /\ Unescape(m_rbsp_buffer, m_consecutive_zeros, t) = Unescape(<<>>, 0, s)
      BY ONLY Received, Caught(off, k), m_have_unfinished_NAL, <3>1, GoesOn
    <3> QED
      BY ONLY <1>1, <2>3, <3>2
  <2>5. PICK none \in Seq(Byte) : none = <<>>
    <3>1. <<>> \in Seq(Byte)
      OBVIOUS
    <3> QED
      BY <3>1
  <2>6. s \in Seq(Byte) /\ t \in Seq(Byte)
    BY ONLY <2>2, <2>4 DEF Part
  <2>7. y = Unescape(none, 0, s).zeros
    <3>1. r \in Seq(Byte) /\ z \in Nat /\ t \in Seq(Byte)
      BY ONLY <1>2, <2>6
    <3>2. Unescape(none, z, t).zeros = Unescape(r, z, t).zeros
      BY ONLY none \in Seq(Byte), <3>1, SameZeros
    <3> QED
      BY ONLY <1>4, <2>1, <2>4, <2>5, <3>2
  <2>8. y \in 0..Len(s) /\ \A d \in (Len(s) - y + 1)..Len(s) : s[d] = 0
    BY ONLY <2>5, <2>6, <2>7, ZerosAtEnd
  <2>9. PICK l : l = Len(s)
    OBVIOUS
  <2>10. /\ h \in Nat /\ q \in Nat /\ q <= Len(b) /\ h <= q /\ l = q - h
         /\ \A d \in 1..l : s[d] = b[h + d]
    BY ONLY <2>4, <2>9 DEF Part
  <2>11. l \in Nat /\ y \in Nat /\ y <= l
    <3>1. l \in Nat
      BY ONLY <2>10
    <3> QED
      BY ONLY <2>8, <2>9, <3>1
  <2>12. ASSUME NEW e \in Nat, e < y
         PROVE  q - e \in 1..Len(b) /\ b[q - e] = 0
    <3>1. l - e \in 1..l /\ l - e \in ((l - y) + 1)..l /\ h + (l - e) = q - e
      BY ONLY <2>10, <2>11, <2>12
    <3>2. s[l - e] = 0
      BY ONLY <2>8, <2>9, <3>1
    <3>3. b[q - e] = 0
      BY ONLY <2>10, <3>1, <3>2
    <3>4. q - e \in 1..Len(b)
      BY ONLY <1>2, <2>10, <2>11, <2>12
    <3> QED
      BY ONLY <3>3, <3>4
  <2>13. ASSUME y >= 3
         PROVE  /\ q + 1 <= Len(b) /\ b[q + 1] = 1
                /\ q > 3 => b[q - 3] # 0
    <3>1. 0 < y /\ 1 < y /\ 2 < y
      BY ONLY <2>11, <2>13
    <3>2. /\ q - 0 \in 1..Len(b) /\ b[q - 0] = 0 /\ q - 1 \in 1..Len(b) /\ b[q - 1] = 0
          /\ q - 2 \in 1..Len(b) /\ b[q - 2] = 0
      BY ONLY <2>12, <3>1, 0 \in Nat, 1 \in Nat, 2 \in Nat
    <3>3. q - 0 = q
      BY ONLY <2>10
    <3>4. q \in 3..Len(b)
      BY ONLY <1>2, <2>10, <3>2
    <3>5. Written(stream, EncodedUnits, b, off)
      BY ONLY Caught(off, k), <1>1 DEF Caught
    <3> QED
      BY ONLY <3>2, <3>3, <3>4, <3>5, ThreeZeros
  <2>14. y <= 3
    <3> SUFFICES ASSUME y > 3
                 PROVE  FALSE
      BY <2>11
    <3>1. q - 3 \in 1..Len(b) /\ b[q - 3] = 0
      BY ONLY <2>12, 3 \in Nat, y > 3
    <3>2. q > 3
      BY ONLY <1>2, <2>10, <3>1
    <3>3. y >= 3
      BY ONLY <2>11, y > 3
    <3> QED
      BY ONLY <2>13, <3>1, <3>2, <3>3
  <2>15. ASSUME y = 3
         PROVE  x[i + 1] = 1
    <3>1. q + 1 <= Len(b) /\ b[q + 1] = 1
      BY ONLY <2>13, <2>15, 3 >= 3
    <3>2. source = "file" \/ i < Len(chunk)
      <4> SUFFICES ASSUME source # "file", ~(i < Len(chunk))
                   PROVE  FALSE
        OBVIOUS
      <4>1. source = "camera" /\ chunk \in Seq(Byte)
        BY DEF Received
      <4>2. n \in 1..Len(chunk) /\ c = SubSeq(chunk, 1, n)
        BY ONLY Looks(n), <1>1 DEF Looks, Reads
      <4>3. i = n /\ n = Len(chunk)
        BY <4>1, <4>2
      <4>4. c = chunk /\ SubSeq(c, 1, i) = c
        BY ONLY <4>1, <4>2, <4>3
      <4>5. Unescape(<<>>, m_consecutive_zeros, chunk).zeros = 3
        BY ONLY <1>1, <1>4, <2>15, <4>4
      <4> QED
        BY ONLY <1>1, <4>1, <4>4, <4>5, m_have_unfinished_NAL, ~LooksBehind DEF LooksBehind
    <3>4. q = Arrived + i /\ q + 1 <= Len(Bytes)
      BY ONLY <1>1, <2>1, <3>1
    <3>5. x[i + 1] = b[q + 1]
      <4>1. (Scanned \o Beyond(beyond))[i + 1] = Bytes[q + 1]
        BY ONLY Received, Looks(n), i \in 1..n, beyond \in Anything, <3>2, <3>4, BeyondGoesOn
      <4> QED
        BY ONLY <1>1, <4>1
    <3> QED
      BY ONLY <3>1, <3>5
  <2> QED
    BY ONLY <2>14, <2>15
<1>5. ASSUME NEW i \in DOMAIN c
      PROVE  LET y == Unescape(<<>>, z, SubSeq(c, 1, i)).zeros
             IN ~(y > 3) /\ ~(y = 3 /\ x[i + 1] # 1)
  <2>1. PICK y : y = Unescape(<<>>, z, SubSeq(c, 1, i)).zeros
    OBVIOUS
  <2>2. i \in 1..n
    BY ONLY <1>3, i \in DOMAIN c
  <2>3. y <= 3 /\ (y = 3 => x[i + 1] = 1)
    BY ONLY <1>4, <2>1, <2>2
  <2>4. y \in Nat
    <3>1. PICK none \in Seq(Byte) : none = <<>>
      <4>1. <<>> \in Seq(Byte)
        OBVIOUS
      <4> QED
        BY <4>1
    <3>2. SubSeq(c, 1, i) \in Seq(Byte)
      BY ONLY <1>2, <2>2
    <3>3. Unescape(none, z, SubSeq(c, 1, i)) \in Recovered
      BY ONLY <1>2, <3>2, none \in Seq(Byte), UnescapeType
    <3> QED
      BY ONLY <2>1, <3>1, <3>3 DEF Recovered
  <2>5. ~(y > 3)
    BY ONLY <2>3, <2>4
  <2> QED
    BY ONLY <2>1, <2>3, <2>5
<1>6. ~TooManyZeros(z, c, Beyond(beyond))
  <2>1. x = c \o Beyond(beyond)
    BY ONLY <1>1
  <2> QED
    BY ONLY <1>5, <2>1 DEF TooManyZeros
<1> QED
  BY ONLY <1>1, <1>6

(* No assertion of the parser fails on well-formed units, unless it looks *)
(* behind a packet.                                                       *)
LEMMA NeverFails ==
  ASSUME Received, NEW off, NEW k, Caught(off, k), chunk # <<>>,
         \A i \in DOMAIN stream : Good(stream[i].header),
         NEW beyond \in Anything, ~LooksBehind
  PROVE  ~Fails(beyond)
<1>1. PICK n : Looks(n)
  BY ONLY Received, chunk # <<>>, ScanLooks
<1>2. m_have_unfinished_NAL => ~TooManyZeros(m_consecutive_zeros, Scanned, Beyond(beyond))
  BY ONLY Received, Caught(off, k), <1>1, beyond \in Anything, ~LooksBehind, FewZeros
<1>4. m_have_unfinished_NAL /\ Found => ~(Len(RBSP.bytes) < 4)
  <2> SUFFICES ASSUME m_have_unfinished_NAL, Found
               PROVE  ~(Len(RBSP.bytes) < 4)
    OBVIOUS
  <2>1. RBSP = Unescape(m_rbsp_buffer, m_consecutive_zeros, Scanned)
    BY DEF RBSP
  <2> QED
    BY ONLY Received, Caught(off, k), Found, m_have_unfinished_NAL, <1>1, <2>1, ParsedUnit
<1>3. Found => Good(Sync[5])
  <2> SUFFICES ASSUME Found
               PROVE  Good(Sync[5])
    OBVIOUS
  <2>1. PICK j : j = k + 1
    OBVIOUS
  <2>2. j \in 1..Len(stream) /\ Sync[5] = stream[j].header
    BY ONLY Caught(off, k), Found, <1>1, <2>1, FoundHeader
  <2>3. stream \in Seq(Unit)
    BY ONLY Received, StreamBytes DEF Received
  <2>4. DOMAIN stream = 1..Len(stream)
    BY ONLY <2>3
  <2>5. Good(stream[j].header)
    BY ONLY <2>2, <2>4, \A i \in DOMAIN stream : Good(stream[i].header)
  <2> QED
    BY ONLY <2>2, <2>5
<1> QED
  BY ONLY <1>2, <1>3, <1>4 DEF Fails

-----------------------------------------------------------------------------
(* The units are well-formed. *)
AllGood == \A i \in DOMAIN stream : Good(stream[i].header)

(* Without padding, some headers have been found, and nothing has failed but *)
(* where the parser looks behind a packet.                                   *)
IInv ==
  /\ Received
  /\ NoPadding => /\ \E off, k : Caught(off, k)
                  /\ AllGood => (aborted => LooksBehind)

(* It holds at first. *)
LEMMA InvariantInit == Init => IInv
<1> SUFFICES ASSUME Init
             PROVE  IInv
  OBVIOUS
<1>1. Received
  BY ONLY Init, ReceivedInit
<1>2. NoPadding => \E off, k : Caught(off, k)
  BY ONLY Init, <1>1, CaughtInit
<1>3. ~aborted
  BY DEF Init
<1> QED
  BY ONLY <1>1, <1>2, <1>3 DEF IInv

(* Every step keeps it. *)
LEMMA InvariantNext == IInv /\ [Next]_vars => IInv'
<1> SUFFICES ASSUME IInv, [Next]_vars
             PROVE  IInv'
  OBVIOUS
<1>1. Received /\ Received'
  <2>1. Received
    BY ONLY IInv DEF IInv
  <2> QED
    BY ONLY <2>1, [Next]_vars, ReceivedNext
<1>2. stream' = stream
  BY DEF Next, Pass, Scan, ScanAborts, vars
<1>3. (NoPadding' <=> NoPadding) /\ (AllGood' <=> AllGood)
  BY ONLY <1>2 DEF NoPadding, AllGood
<1>4. ASSUME NoPadding
      PROVE  /\ (\E off, k : Caught(off, k))'
             /\ AllGood => (aborted => LooksBehind)'
  <2>1. PICK off, k : Caught(off, k)
    BY ONLY IInv, <1>4 DEF IInv
  <2>2. \E o, j : Caught(o, j)'
    BY ONLY <1>1, [Next]_vars, <2>1, CaughtNext
  <2>3. ASSUME AllGood
        PROVE  (aborted => LooksBehind)'
    <3>1. aborted => LooksBehind
      BY ONLY IInv, <1>4, <2>3 DEF IInv
    <3>2. CASE ScanAborts
      <4>1. PICK beyond \in Anything : Fails(beyond)
        BY <3>2 DEF ScanAborts
      <4>2. chunk # <<>> /\ \A i \in DOMAIN stream : Good(stream[i].header)
        BY <2>3, <3>2 DEF ScanAborts, AllGood
      <4>3. LooksBehind
        BY ONLY <1>1, <2>1, <4>1, <4>2, NeverFails
      <4>4. LooksBehind' = LooksBehind
        BY <3>2 DEF ScanAborts, LooksBehind, Scanned
      <4> QED
        BY <4>3, <4>4
    <3>3. CASE ~ScanAborts
      <4>1. CASE UNCHANGED vars
        BY <3>1, <4>1 DEF vars, LooksBehind, Scanned
      <4>2. CASE ~(UNCHANGED vars)
        BY <3>3, <4>2 DEF Next, Pass, Scan
      <4> QED
        BY <4>1, <4>2
    <3> QED
      BY <3>2, <3>3
  <2> QED
    BY ONLY <2>2, <2>3
<1> QED
  BY ONLY <1>1, <1>3, <1>4 DEF IInv

(* It holds in every reachable state. *)
LEMMA Invariant == Spec => []IInv
  BY InvariantInit, InvariantNext, PTL DEF Spec

(* Wherever the stream is cut, the NAL units that addBytes() finishes are   *)
(* the ones the encoder wrote, and the rest has been kept.                  *)
THEOREM UnitsRight == Spec => [](NoPadding => UnitsExact)
<1>1. ASSUME NEW off, NEW k, Caught(off, k)
      PROVE  UnitsExact
  <2>1. PICK st, us, b, a, d : /\ st = stream /\ us = EncodedUnits /\ b = Bytes /\ a = Arrived
                               /\ d = Complete(k)
    OBVIOUS
  <2>2. /\ k \in 0..Len(st) /\ Len(st) \in Nat /\ Len(us) = Len(st)
        /\ us \in Seq(Seq(Byte)) /\ LaidOut(us, b, off)
    BY ONLY <1>1, <2>1 DEF Caught, Written
  <2>3. finished = SubSeq(us, 1, d) /\ Part(m_nalu, b, off[d], a)
    BY ONLY <1>1, <2>1 DEF Caught
  <2>4. d \in 0..Len(us)
    BY ONLY <2>1, <2>2 DEF Complete
  <2>5. Len(finished) = d
    BY ONLY <2>2, <2>3, <2>4
  <2>6. FlattenSeq(finished) = SubSeq(b, 1, off[d])
    BY ONLY <2>2, <2>3, <2>4 DEF LaidOut
  <2>7. Part(SubSeq(b, 1, off[d]), b, 0, off[d])
    <3>1. b \in Seq(Byte) /\ off[d] \in Nat /\ off[d] <= Len(b) /\ 0 <= off[d] /\ 0 \in Nat
      BY ONLY <2>3 DEF Part
    <3>2. Part(SubSeq(b, 0 + 1, off[d]), b, 0, off[d])
      BY ONLY <3>1, SubSeqIsPart
    <3> QED
      BY ONLY <3>2, 0 + 1 = 1
  <2>8. Part(SubSeq(b, 1, off[d]) \o m_nalu, b, 0, a)
    BY ONLY <2>3, <2>7, PartsJoin
  <2>9. SubSeq(b, 1, off[d]) \o m_nalu = SubSeq(b, 0 + 1, a)
    BY ONLY <2>8, PartIs
  <2>10. FlattenSeq(finished) \o m_nalu = SubSeq(b, 1, a)
    BY ONLY <2>6, <2>9, 0 + 1 = 1
  <2> QED
    BY ONLY <2>1, <2>3, <2>5, <2>10 DEF UnitsExact, Arrived
<1>2. IInv => (NoPadding => UnitsExact)
  BY <1>1 DEF IInv
<1> QED
  BY <1>2, Invariant, PTL

(* What processRBSP() is given are the payloads the encoder escaped, each    *)
(* whole and nothing else: neither the 3s nor the next start code.           *)
THEOREM PayloadsRight == Spec => [](NoPadding => PayloadsExact)
<1>1. ASSUME NEW off, NEW k, Caught(off, k)
      PROVE  PayloadsExact
  <2>1. /\ finished = SubSeq(EncodedUnits, 1, Complete(k))
        /\ parsed = ToParse(SubSeq(stream, 1, Complete(k)))
        /\ k \in 0..Len(stream) /\ Len(stream) \in Nat /\ Len(EncodedUnits) = Len(stream)
        /\ EncodedUnits \in Seq(Seq(Byte))
    BY ONLY <1>1 DEF Caught, Written
  <2>2. PICK us, n, d : us = EncodedUnits /\ n = Len(stream) /\ d = Complete(k)
    OBVIOUS
  <2>3. d \in 0..n /\ Len(us) = n /\ us \in Seq(Seq(Byte)) /\ n \in Nat
    BY ONLY <2>1, <2>2 DEF Complete
  <2>4. Len(SubSeq(us, 1, d)) = d
    BY ONLY <2>3
  <2>5. Len(finished) = d
    BY ONLY <2>1, <2>2, <2>4
  <2> QED
    BY ONLY <2>1, <2>2, <2>5 DEF PayloadsExact
<1>2. IInv => (NoPadding => PayloadsExact)
  BY <1>1 DEF IInv
<1> QED
  BY <1>2, Invariant, PTL

(* The assertions of the parser hold for every stream of well-formed units   *)
(* without padding, wherever it is cut: more than three zeros never come, and *)
(* three only before the 1 of a start code, and what is parsed is never too   *)
(* short for the start code at its end.  The one exception is the packet of a *)
(* camera that ends in the third zero: the byte behind it is not the stream's.*)
THEOREM NoAssertionFails == Spec => [](NoPadding => AssertionsHold)
<1>1. IInv => (NoPadding => AssertionsHold)
  BY DEF IInv, AssertionsHold, AllGood
<1> QED
  BY <1>1, Invariant, PTL
=============================================================================
