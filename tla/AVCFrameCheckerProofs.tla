----------------------- MODULE AVCFrameCheckerProofs -----------------------
(***************************************************************************)
(* What the functions of AVCBitsReader return: the numbers that an encoder *)
(* has written, where its codes are short enough for the cache.  Then, for *)
(* every stream of every encoder: the parser loses and repeats no NAL      *)
(* unit; what it calls a key frame is an access unit of an IDR picture; it *)
(* reads the headers as they were written; and it cuts the stream where    *)
(* the standard does.                                                      *)
(***************************************************************************)
EXTENDS AVCFrameChecker, CommonLemmas, FiniteSetTheorems


-----------------------------------------------------------------------------
(* Powers of two, one by one, and what halving does. *)
LEMMA Powers ==
  ASSUME NEW k \in 0..30
  PROVE  2 ^ k \in Nat \ {0} /\ 2 ^ (k + 1) \in Nat \ {0} /\ 2 ^ (k + 1) = 2 * 2 ^ k
<1>0. CASE k = 0
  BY <1>0
<1>1. CASE k = 1
  BY <1>1
<1>2. CASE k = 2
  BY <1>2
<1>3. CASE k = 3
  BY <1>3
<1>4. CASE k = 4
  BY <1>4
<1>5. CASE k = 5
  BY <1>5
<1>6. CASE k = 6
  BY <1>6
<1>7. CASE k = 7
  BY <1>7
<1>8. CASE k = 8
  BY <1>8
<1>9. CASE k = 9
  BY <1>9
<1>10. CASE k = 10
  BY <1>10
<1>11. CASE k = 11
  BY <1>11
<1>12. CASE k = 12
  BY <1>12
<1>13. CASE k = 13
  BY <1>13
<1>14. CASE k = 14
  BY <1>14
<1>15. CASE k = 15
  BY <1>15
<1>16. CASE k = 16
  BY <1>16
<1>17. CASE k = 17
  BY <1>17
<1>18. CASE k = 18
  BY <1>18
<1>19. CASE k = 19
  BY <1>19
<1>20. CASE k = 20
  BY <1>20
<1>21. CASE k = 21
  BY <1>21
<1>22. CASE k = 22
  BY <1>22
<1>23. CASE k = 23
  BY <1>23
<1>24. CASE k = 24
  BY <1>24
<1>25. CASE k = 25
  BY <1>25
<1>26. CASE k = 26
  BY <1>26
<1>27. CASE k = 27
  BY <1>27
<1>28. CASE k = 28
  BY <1>28
<1>29. CASE k = 29
  BY <1>29
<1>30. CASE k = 30
  BY <1>30
<1> QED
  BY <1>0, <1>1, <1>2, <1>3, <1>4, <1>5, <1>6, <1>7, <1>8, <1>9, <1>10,
     <1>11, <1>12, <1>13, <1>14, <1>15, <1>16, <1>17, <1>18, <1>19, <1>20, <1>21,
     <1>22, <1>23, <1>24, <1>25, <1>26, <1>27, <1>28, <1>29, <1>30

LEMMA PowersGrow ==
  ASSUME NEW k \in 0..31, NEW m \in 0..k
  PROVE  2 ^ m \in Nat \ {0} /\ 2 ^ m <= 2 ^ k
<1> DEFINE S == {i \in 0..(k - m) : 2 ^ m <= 2 ^ (m + i)}
<1>0. \A i \in 0..31 : 2 ^ i \in Nat \ {0}
  <2> TAKE i \in 0..31
  <2>1. CASE i = 0
    BY <2>1, Powers
  <2>2. CASE i # 0
    <3>1. i - 1 \in 0..30 /\ (i - 1) + 1 = i
      BY <2>2
    <3>2. 2 ^ ((i - 1) + 1) \in Nat \ {0}
      BY <3>1, Powers
    <3> QED
      BY ONLY <3>1, <3>2
  <2> QED
    BY <2>1, <2>2
<1>1. 0 \in S
  <2>1. m + 0 = m /\ m \in 0..31
    OBVIOUS
  <2>2. 2 ^ (m + 0) = 2 ^ m
    BY ONLY <2>1
  <2> DEFINE p == 2 ^ m
  <2>3. p \in Nat
    BY <1>0, <2>1
  <2> HIDE DEF p
  <2>4. p <= p
    BY <2>3
  <2> QED
    BY <2>2, <2>4 DEF p
<1>2. ASSUME NEW i \in 1..(k - m), i - 1 \in S
      PROVE  i \in S
  <2>1. m + (i - 1) \in 0..30 /\ (m + (i - 1)) + 1 = m + i /\ m \in 0..31
    OBVIOUS
  <2> DEFINE p == 2 ^ m
             q == 2 ^ (m + (i - 1))
             r == 2 ^ (m + i)
  <2>2. 2 ^ ((m + (i - 1)) + 1) = 2 * q /\ q \in Nat
    BY <2>1, Powers
  <2>3. r = 2 * q
    BY ONLY <2>1, <2>2
  <2>4. p <= q /\ p \in Nat
    BY <1>0, <1>2, <2>1
  <2> HIDE DEF p, q, r
  <2>5. p <= r
    BY <2>2, <2>3, <2>4
  <2> QED
    BY <2>5 DEF p, r
<1> HIDE DEF S
<1>3. k - m \in Nat
  OBVIOUS
<1>4. k - m \in S
  <2>1. \A i \in 0..(k - m) : i \in S
    BY ONLY <1>1, <1>2, <1>3, BoundedInduction
  <2> QED
    BY <1>3, <2>1
<1>5. m + (k - m) = k /\ m \in 0..31
  OBVIOUS
<1> QED
  BY ONLY <1>0, <1>4, <1>5 DEF S

LEMMA Halves ==
  ASSUME NEW v \in Nat, NEW d \in Nat \ {0}
  PROVE  v \div (2 * d) = (v \div d) \div 2
<1> DEFINE q == v \div d
           r == v % d
           a == q \div 2
           b == q % 2
<1>1. v = d * q + r /\ r \in 0..(d - 1) /\ q \in Nat
  OBVIOUS
<1> HIDE DEF q, r
<1>2. q = 2 * a + b /\ b \in 0..1 /\ a \in Nat
  BY <1>1
<1> HIDE DEF a, b
<1>3. d * q = 2 * d * a + d * b
  BY <1>2
<1>4. d * b + r \in 0..(2 * d - 1)
  <2>1. d * b \in 0..d
    BY <1>2
  <2> QED
    BY <1>1, <2>1
<1>5. v = (2 * d) * a + (d * b + r)
  BY <1>1, <1>2, <1>3
<1>6. v \div (2 * d) = a
  BY <1>2, <1>4, <1>5
<1> QED
  BY <1>6 DEF a, q

-----------------------------------------------------------------------------
(* The number that bits are: each doubles what the ones before it are. *)
Bit == {0, 1}

Doubling(bits) ==
  [k \in 1..Len(bits) |-> [v \in Nat |-> 2 * v + bits[k]]]

LEMMA NumberIs ==
  ASSUME NEW bits \in Seq(Bit)
  PROVE  \E f \in [0..Len(bits) -> Nat] :
           /\ f[0] = 0
           /\ \A k \in 1..Len(bits) : f[k] = 2 * f[k - 1] + bits[k]
           /\ Number(bits) = f[Len(bits)]
<1> DEFINE n == Len(bits)
           F == Doubling(bits)
           Upto(g) == g = [i \in 0..n |-> IF i = 0 THEN 0 ELSE 2 * g[i - 1] + bits[i]]
           upto == CHOOSE g : Upto(g)
<1>1. n \in Nat /\ \A k \in 1..n : bits[k] \in Nat
  BY DEF Bit
<1>2. F \in [1..n -> [Nat -> Nat]]
  <2>1. \A k \in 1..n, v \in Nat : 2 * v + bits[k] \in Nat
    BY <1>1
  <2> QED
    BY <2>1 DEF Doubling
<1>3. 0 \in Nat
  OBVIOUS
<1> HIDE DEF F, n
<1>4. PICK f : f \in [0..n -> Nat] /\ Recursive(f, n, 0, F)
  BY ONLY <1>1, <1>2, <1>3, RecursiveExists
<1>5. ASSUME NEW k \in 1..n
      PROVE  f[k] = 2 * f[k - 1] + bits[k]
  <2>1. k - 1 \in 0..n
    BY <1>1
  <2>2. f[k] = F[k][f[k - 1]] /\ f[k - 1] \in Nat
    BY <1>4, <2>1 DEF Recursive
  <2> QED
    BY <2>2 DEF F, Doubling, n
<1>6. Upto(f)
  <2>1. f[0] = 0 /\ DOMAIN f = 0..n
    BY <1>4 DEF Recursive
  <2>2. \A k \in 0..n : k # 0 => k \in 1..n
    BY <1>1
  <2> QED
    BY ONLY <1>4, <1>5, <2>1, <2>2
<1>7. Upto(upto)
  <2> HIDE DEF Upto
  <2> QED
    BY ONLY <1>6
<1> HIDE DEF upto
<1>8. upto[0] = 0 /\ \A k \in 1..n : upto[k] = 2 * upto[k - 1] + bits[k]
  <2>1. upto = [i \in 0..n |-> IF i = 0 THEN 0 ELSE 2 * upto[i - 1] + bits[i]]
    BY ONLY <1>7
  <2>2. \A k \in 0..n : upto[k] = IF k = 0 THEN 0 ELSE 2 * upto[k - 1] + bits[k]
    BY ONLY <2>1
  <2>3. 0 \in 0..n /\ \A k \in 1..n : k \in 0..n /\ k # 0
    BY <1>1
  <2> QED
    BY ONLY <2>2, <2>3
<1>9. \A k \in 0..n : upto[k] = f[k]
  <2>1. f[0] = 0
    BY <1>4 DEF Recursive
  <2>2. \A k \in 1..n : upto[k - 1] = f[k - 1] => upto[k] = f[k]
    BY ONLY <1>5, <1>8
  <2>3. upto[0] = f[0]
    BY ONLY <1>8, <2>1
  <2>4. n \in Nat
    BY ONLY <1>1
  <2> QED
    BY ONLY <2>2, <2>3, <2>4, AgreeUpto
<1>10. Number(bits) = upto[n]
  BY DEF Number, upto, n
<1>11. Number(bits) = f[n]
  BY <1>1, <1>9, <1>10
<1>12. f[0] = 0
  BY <1>4 DEF Recursive
<1> QED
  BY ONLY <1>4, <1>5, <1>11, <1>12 DEF n

LEMMA NumberType ==
  ASSUME NEW bits \in Seq(Bit)
  PROVE  Number(bits) \in Nat
<1>1. PICK f \in [0..Len(bits) -> Nat] : Number(bits) = f[Len(bits)]
  BY NumberIs
<1>2. Len(bits) \in 0..Len(bits)
  OBVIOUS
<1> QED
  BY <1>1, <1>2

(* The bits of a number of so many are those that Binary gives. *)
LEMMA NumberBinary ==
  ASSUME NEW n \in 0..30, NEW v \in Nat, v < 2 ^ n, NEW bits, bits = Binary(n, v)
  PROVE  /\ bits \in Seq(Bit) /\ Len(bits) = n
         /\ Number(bits) = v
<1>1. ASSUME NEW k \in 0..n
      PROVE  2 ^ k \in Nat \ {0}
  <2>1. k \in 0..30
    OBVIOUS
  <2> QED
    BY <2>1, Powers
<1>2. \A i \in 1..n : bits[i] = (v \div 2 ^ (n - i)) % 2
  BY DEF Binary
<1>3. bits \in Seq(Bit) /\ Len(bits) = n
  <2>1. ASSUME NEW i \in 1..n
        PROVE  (v \div 2 ^ (n - i)) % 2 \in Bit
    <3>1. 2 ^ (n - i) \in Nat \ {0}
      BY <1>1
    <3>2. \A d \in Nat \ {0} : (v \div d) % 2 \in {0, 1}
      OBVIOUS
    <3> QED
      BY <3>1, <3>2 DEF Bit
  <2>2. bits \in [1..n -> Bit]
    BY <2>1 DEF Binary
  <2> QED
    BY <2>2
<1>4. PICK f : /\ f \in [0..n -> Nat] /\ f[0] = 0
               /\ \A k \in 1..n : f[k] = 2 * f[k - 1] + bits[k]
               /\ Number(bits) = f[n]
  BY <1>3, NumberIs
<1> DEFINE S == {k \in 0..n : f[k] = v \div 2 ^ (n - k)}
<1>5. 0 \in S
  <2>1. 2 ^ n \in Nat \ {0}
    BY <1>1
  <2> DEFINE d == 2 ^ n
  <2>2. v \div d = 0
    <3>1. d \in Nat \ {0} /\ v < d
      BY <2>1
    <3> HIDE DEF d
    <3> QED
      BY ONLY <3>1, v \in Nat
  <2>3. n - 0 = n
    OBVIOUS
  <2> QED
    BY <1>4, <2>2, <2>3
<1>6. ASSUME NEW k \in 1..n, k - 1 \in S
      PROVE  k \in S
  <2> DEFINE d == 2 ^ (n - k)
             e == 2 ^ (n - (k - 1))
  <2>1. n - k \in 0..30 /\ n - k \in 0..n /\ (n - k) + 1 = n - (k - 1)
    OBVIOUS
  <2>2. e = 2 * d /\ d \in Nat \ {0}
    <3>1. 2 ^ ((n - k) + 1) = 2 * 2 ^ (n - k) /\ 2 ^ (n - k) \in Nat \ {0}
      BY <2>1, Powers
    <3> QED
      BY ONLY <2>1, <3>1
  <2>3. f[k - 1] = v \div e
    BY <1>6
  <2>4. f[k] = 2 * f[k - 1] + bits[k] /\ bits[k] = (v \div d) % 2
    BY <1>2, <1>4
  <2> HIDE DEF d, e
  <2>5. v \div e = (v \div d) \div 2
    BY <2>2, Halves
  <2> DEFINE q == v \div d
  <2>6. q \in Nat
    BY <2>2
  <2> HIDE DEF q
  <2>7. 2 * (q \div 2) + (q % 2) = q
    BY ONLY <2>6
  <2>8. f[k] = 2 * (q \div 2) + (q % 2)
    BY ONLY <2>3, <2>4, <2>5 DEF q
  <2>9. f[k] = v \div d
    BY <2>7, <2>8 DEF q
  <2> QED
    BY <2>9 DEF d
<1> HIDE DEF S
<1>7. n \in S
  <2>1. \A k \in 0..n : k \in S
    BY ONLY <1>5, <1>6, n \in Nat, BoundedInduction
  <2> QED
    BY <2>1
<1>8. f[n] = v
  <2>1. n - n = 0 /\ 2 ^ 0 = 1
    OBVIOUS
  <2>2. 2 ^ (n - n) = 1
    BY ONLY <2>1
  <2>3. f[n] = v \div 2 ^ (n - n)
    BY <1>7 DEF S
  <2> QED
    BY <2>2, <2>3
<1> QED
  BY <1>3, <1>4, <1>8

-----------------------------------------------------------------------------
LEMMA AsSequence ==
  ASSUME NEW S, NEW n \in Nat, NEW f \in [1..n -> S]
  PROVE  f \in Seq(S) /\ Len(f) = n
OBVIOUS

(* A read maps a context to a context of the same buffer. *)
Context == [bits : Seq(Bit), index : Nat, value : Int]

LEMMA InitContext ==
  ASSUME NEW bits \in Seq(Bit)
  PROVE  init_get_bits(bits) \in Context
BY DEF init_get_bits, Context

LEMMA CacheIs ==
  ASSUME NEW gb \in Context
  PROVE  /\ Cache(gb) \in [1..32 -> Bit]
         /\ Cache(gb) \in Seq(Bit) /\ Len(Cache(gb)) = 32
         /\ \A i \in 1..MIN_CACHE_BITS :
              Cache(gb)[i] = IF gb.index + i <= Len(gb.bits) THEN gb.bits[gb.index + i] ELSE 1
<1>1. /\ gb.bits \in Seq(Bit) /\ Len(gb.bits) \in Nat /\ gb.index \in Nat
      /\ \A i \in 1..Len(gb.bits) : gb.bits[i] \in Bit
  BY DEF Context
<1>2. gb.index % 8 \in 0..7
  BY <1>1
<1>3. ASSUME NEW i \in 1..32
      PROVE  (IF i > 32 - (gb.index % 8) THEN 0
              ELSE IF gb.index + i <= Len(gb.bits) THEN gb.bits[gb.index + i] ELSE 1) \in Bit
  BY <1>1 DEF Bit
<1>4. Cache(gb) \in [1..32 -> Bit]
  BY <1>3 DEF Cache
<1>6. Cache(gb) \in Seq(Bit) /\ Len(Cache(gb)) = 32
  <2> DEFINE c == Cache(gb)
  <2>1. c \in [1..32 -> Bit]
    BY <1>4
  <2> HIDE DEF c
  <2>2. 32 \in Nat
    OBVIOUS
  <2>3. c \in Seq(Bit) /\ Len(c) = 32
    BY ONLY <2>1, <2>2, AsSequence
  <2> QED
    BY <2>3 DEF c
<1>5. ASSUME NEW i \in 1..25
      PROVE  Cache(gb)[i] = IF gb.index + i <= Len(gb.bits) THEN gb.bits[gb.index + i] ELSE 1
  <2> DEFINE f(j) == IF j > 32 - (gb.index % 8) THEN 0
                     ELSE IF gb.index + j <= Len(gb.bits)
                          THEN gb.bits[gb.index + j] ELSE 1
  <2>1. i \in 1..32 /\ ~(i > 32 - (gb.index % 8))
    BY <1>2
  <2>2. f(i) = IF gb.index + i <= Len(gb.bits) THEN gb.bits[gb.index + i] ELSE 1
    BY <2>1
  <2>3. Cache(gb) = [j \in 1..32 |-> f(j)]
    BY DEF Cache
  <2> HIDE DEF f
  <2>4. Cache(gb)[i] = f(i)
    BY <2>1, <2>3
  <2> QED
    BY <2>2, <2>4
<1> QED
  BY <1>4, <1>5, <1>6 DEF MIN_CACHE_BITS

LEMMA ReadType ==
  ASSUME NEW gb \in Context, NEW n \in Nat, NEW v \in Int
  PROVE  /\ Read(gb, n, v) \in Context
         /\ Read(gb, n, v).bits = gb.bits /\ Read(gb, n, v).value = v
<1>1. gb.bits \in Seq(Bit) /\ Len(gb.bits) \in Nat /\ gb.index \in Nat
  BY DEF Context
<1>2. Skip(gb, n) \in Nat
  BY <1>1 DEF Skip
<1> QED
  BY <1>1, <1>2 DEF Read, Context

LEMMA InferredType ==
  ASSUME NEW gb \in Context, NEW v \in Int
  PROVE  /\ Inferred(gb, v) \in Context
         /\ Inferred(gb, v).bits = gb.bits /\ Inferred(gb, v).value = v
         /\ Inferred(gb, v).index = gb.index
BY DEF Inferred, Context

(* The end of the buffer is not reached. *)
LEMMA ReadIndex ==
  ASSUME NEW gb \in Context, NEW n \in Nat, NEW v, gb.index + n <= Len(gb.bits)
  PROVE  Read(gb, n, v).index = gb.index + n
<1>1. gb.bits \in Seq(Bit) /\ Len(gb.bits) \in Nat /\ gb.index \in Nat
  BY DEF Context
<1>2. Skip(gb, n) = gb.index + n
  BY <1>1 DEF Skip
<1> QED
  BY <1>1, <1>2 DEF Read, Context

(* The first bits of a cache, or of any other sequence of them. *)
LEMMA FirstBits ==
  ASSUME NEW cache \in Seq(Bit), NEW n \in 0..Len(cache)
  PROVE  /\ SubSeq(cache, 1, n) \in Seq(Bit) /\ Len(SubSeq(cache, 1, n)) = n
         /\ \A i \in 1..n : SubSeq(cache, 1, n)[i] = cache[i]
         /\ Number(SubSeq(cache, 1, n)) \in Nat
<1>1. \A i \in 1..n : cache[i] \in Bit
  OBVIOUS
<1>2. /\ SubSeq(cache, 1, n) \in Seq(Bit)
      /\ Len(SubSeq(cache, 1, n)) = IF 1 <= n THEN (n - 1) + 1 ELSE 0
      /\ \A i \in 1..((n - 1) + 1) : SubSeq(cache, 1, n)[i] = cache[(1 + i) - 1]
  <2>1. 1 \in Int /\ n \in Int
    OBVIOUS
  <2> QED
    BY ONLY <1>1, <2>1, SubSeqProperties
<1>3. Number(SubSeq(cache, 1, n)) \in Nat
  BY <1>2, NumberType
<1>4. Len(SubSeq(cache, 1, n)) = n
  BY <1>2
<1>5. \A i \in 1..n : SubSeq(cache, 1, n)[i] = cache[i]
  BY <1>2
<1> QED
  BY <1>2, <1>3, <1>4, <1>5

LEMMA LeadingZerosIs ==
  ASSUME NEW cache \in [1..32 -> Bit]
  PROVE  /\ LeadingZeros(cache) \in 0..31
         /\ \A i \in 1..LeadingZeros(cache) : cache[i] = 0
         /\ LeadingZeros(cache) = 31 \/ cache[LeadingZeros(cache) + 1] = 1
<1> DEFINE T == {i \in 0..31 : cache[i + 1] = 1}
           Zeros(z) == (\A i \in 1..z : cache[i] = 0) /\ (z = 31 \/ cache[z + 1] = 1)
<1>1. \E z \in 0..31 : Zeros(z)
  <2>1. CASE T = {}
    <3>1. ASSUME NEW i \in 1..31
          PROVE  cache[i] = 0
      <4>1. i - 1 \in 0..31 /\ (i - 1) + 1 = i /\ cache[i] \in {0, 1}
        BY DEF Bit
      <4>2. cache[(i - 1) + 1] # 1
        BY <2>1, <4>1
      <4> QED
        BY ONLY <4>1, <4>2
    <3>2. Zeros(31)
      BY <3>1
    <3>3. 31 \in 0..31
      OBVIOUS
    <3> QED
      BY <3>2, <3>3
  <2>2. CASE T # {}
    <3>1. T \in SUBSET Nat
      OBVIOUS
    <3>2. PICK z \in T : \A y \in T : z <= y
      BY <2>2, <3>1, LeastNumber
    <3>3. ASSUME NEW i \in 1..z
          PROVE  cache[i] = 0
      <4>1. i - 1 \in 0..31 /\ (i - 1) + 1 = i /\ i - 1 < z /\ i \in 1..32
        OBVIOUS
      <4>2. cache[i] \in {0, 1}
        BY <4>1 DEF Bit
      <4>3. i - 1 \notin T
        <5>1. i - 1 \in T => z <= i - 1
          BY <3>2
        <5> QED
          BY <3>2, <4>1, <5>1
      <4>4. cache[(i - 1) + 1] # 1
        BY <4>1, <4>3
      <4> QED
        BY ONLY <4>1, <4>2, <4>4
    <3> QED
      BY <3>2, <3>3
  <2> QED
    BY <2>1, <2>2
<1>2. LeadingZeros(cache) \in 0..31 /\ Zeros(LeadingZeros(cache))
  <2> DEFINE c == CHOOSE z \in 0..31 : Zeros(z)
  <2>1. c \in 0..31 /\ Zeros(c)
    BY <1>1
  <2>2. LeadingZeros(cache) = c
    BY DEF LeadingZeros
  <2> QED
    BY <2>1, <2>2
<1> QED
  BY <1>2

(* So many zeros and then a 1. *)
LEMMA LeadingZerosUnique ==
  ASSUME NEW cache \in [1..32 -> Bit], NEW z \in 0..31,
         \A i \in 1..z : cache[i] = 0, cache[z + 1] = 1
  PROVE  LeadingZeros(cache) = z
<1> DEFINE y == LeadingZeros(cache)
<1>1. y \in 0..31 /\ (\A i \in 1..y : cache[i] = 0) /\ (y = 31 \/ cache[y + 1] = 1)
  BY LeadingZerosIs
<1> HIDE DEF y
<1>2. CASE y < z
  <2>1. y + 1 \in 1..z /\ y # 31
    BY <1>1, <1>2
  <2> QED
    BY <1>1, <2>1
<1>3. CASE y > z
  <2>1. z + 1 \in 1..y
    BY <1>1, <1>3
  <2> QED
    BY <1>1, <2>1
<1>4. y = z
  BY <1>1, <1>2, <1>3
<1> QED
  BY <1>4 DEF y

-----------------------------------------------------------------------------
(* What the functions return is of the type they declare. *)
LEMMA NumberOne ==
  ASSUME NEW bits \in Seq(Bit), Len(bits) = 1
  PROVE  Number(bits) = bits[1]
<1>1. PICK f : /\ f[0] = 0
               /\ \A k \in 1..Len(bits) : f[k] = 2 * f[k - 1] + bits[k]
               /\ Number(bits) = f[Len(bits)]
  BY NumberIs
<1>2. 1 \in 1..Len(bits) /\ 1 - 1 = 0
  OBVIOUS
<1>3. f[1] = 2 * f[1 - 1] + bits[1] /\ Number(bits) = f[1]
  BY <1>1, <1>2
<1>4. bits[1] \in Int
  BY DEF Bit
<1> QED
  BY <1>1, <1>3, <1>4

LEMMA GetBitsType ==
  ASSUME NEW gb \in Context, NEW n \in 0..32
  PROVE  /\ get_bits(gb, n) \in Context /\ get_bits(gb, n).bits = gb.bits
         /\ get_bits(gb, n).value \in Nat
<1> DEFINE v == Number(SubSeq(Cache(gb), 1, n))
<1>1. v \in Nat
  BY CacheIs, FirstBits
<1>2. n \in Nat /\ v \in Int
  BY <1>1
<1>3. get_bits(gb, n) = Read(gb, n, v)
  BY DEF get_bits
<1> HIDE DEF v
<1> QED
  BY ONLY <1>1, <1>2, <1>3, gb \in Context, ReadType

LEMMA GetBits1Type ==
  ASSUME NEW gb \in Context
  PROVE  /\ get_bits1(gb) \in Context /\ get_bits1(gb).bits = gb.bits
         /\ get_bits1(gb).value \in Bit
         /\ get_bits1(gb).value = Cache(gb)[1]
<1> DEFINE one == SubSeq(Cache(gb), 1, 1)
<1>1. /\ Cache(gb) \in Seq(Bit) /\ Len(Cache(gb)) = 32
      /\ Cache(gb) \in [1..32 -> Bit]
  BY CacheIs
<1>2. one \in Seq(Bit) /\ Len(one) = 1 /\ one[1] = Cache(gb)[1]
  BY <1>1, FirstBits
<1>3. Number(one) = Cache(gb)[1]
  BY <1>2, NumberOne
<1>4. Cache(gb)[1] \in Bit
  BY <1>1
<1>5. Read(gb, 1, Number(one)) \in Context /\ Read(gb, 1, Number(one)).bits = gb.bits
      /\ Read(gb, 1, Number(one)).value = Number(one)
  <2>1. Number(one) \in Int
    BY <1>3, <1>4 DEF Bit
  <2> QED
    BY <2>1, ReadType
<1> QED
  BY <1>3, <1>4, <1>5 DEF get_bits1, get_bits

LEMMA GetUeType ==
  ASSUME NEW gb \in Context
  PROVE  get_ue_golomb(gb) \in Context /\ get_ue_golomb(gb).bits = gb.bits
<1> DEFINE cache == Cache(gb)
           length == CodeLength(LeadingZeros(cache))
           v == IF length > 32 THEN -1 ELSE Number(SubSeq(cache, 1, length)) - 1
<1>1. cache \in Seq(Bit) /\ Len(cache) = 32
  BY CacheIs
<1>2. LeadingZeros(cache) \in 0..31
  BY CacheIs, LeadingZerosIs
<1> HIDE DEF cache
<1>5. length \in Nat
  BY <1>2 DEF CodeLength
<1>3. v \in Int
  <2>1. CASE length > 32
    BY <2>1
  <2>2. CASE ~ (length > 32)
    <3> HIDE DEF length
    <3>1. length \in 0..32
      BY <1>5, <2>2
    <3>2. Number(SubSeq(cache, 1, length)) \in Nat
      BY <1>1, <3>1, FirstBits
    <3> QED
      BY <2>2, <3>2
  <2> QED
    BY <2>1, <2>2
<1>4. get_ue_golomb(gb) = Read(gb, length, v)
  BY DEF get_ue_golomb, cache
<1> HIDE DEF length, v
<1> QED
  BY ONLY <1>3, <1>4, <1>5, gb \in Context, ReadType

LEMMA GetUe31Type ==
  ASSUME NEW gb \in Context
  PROVE  get_ue_golomb_31(gb) \in Context /\ get_ue_golomb_31(gb).bits = gb.bits
<1> DEFINE nine == SubSeq(Cache(gb), 1, 9)
           all == LeadingZeros(Cache(gb))
           zeros == IF all < 9 THEN all ELSE 9
           length == CodeLength(zeros)
           v == IF zeros < 5 THEN Number(SubSeq(nine, 1, length)) - 1
                ELSE IF nine = <<0, 0, 0, 0, 0, 1, 0, 0, 0>> THEN 31 ELSE 32
<1>1. nine \in Seq(Bit) /\ Len(nine) = 9
  <2>1. Cache(gb) \in Seq(Bit) /\ Len(Cache(gb)) = 32
    BY CacheIs
  <2>2. 9 \in 0..Len(Cache(gb))
    BY <2>1
  <2> QED
    BY ONLY <2>1, <2>2, FirstBits
<1>5. all \in 0..31
  BY CacheIs, LeadingZerosIs
<1> HIDE DEF nine, all
<1>6. zeros \in 0..9
  BY <1>5
<1> HIDE DEF zeros
<1>2. length \in Nat
  BY <1>6 DEF CodeLength
<1>3. v \in Int
  <2>1. CASE zeros < 5
    <3>1. length \in 0..9
      BY <1>6, <2>1 DEF CodeLength
    <3>2. Number(SubSeq(nine, 1, length)) \in Nat
      BY <1>1, <3>1, FirstBits
    <3> HIDE DEF length
    <3> QED
      BY <2>1, <3>2
  <2>2. CASE ~ (zeros < 5)
    BY <2>2
  <2> QED
    BY <2>1, <2>2
<1>4. get_ue_golomb_31(gb) = Read(gb, length, v)
  BY DEF get_ue_golomb_31, nine, all, zeros
<1> HIDE DEF length, v
<1> QED
  BY ONLY <1>2, <1>3, <1>4, gb \in Context, ReadType

LEMMA GetSeType ==
  ASSUME NEW gb \in Context
  PROVE  get_se_golomb(gb) \in Context /\ get_se_golomb(gb).bits = gb.bits
<1> DEFINE zeros == LeadingZeros(Cache(gb))
           first == Read(gb, zeros, 0)
           rest == IF zeros < 5 THEN SubSeq(Cache(gb), 1, CodeLength(zeros))
                   ELSE SubSeq(Cache(first), 1, zeros + 1)
<1>1. Cache(gb) \in Seq(Bit) /\ Len(Cache(gb)) = 32
  BY CacheIs
<1>9. zeros \in 0..31
  BY CacheIs, LeadingZerosIs
<1> HIDE DEF zeros
<1>2. first \in Context /\ first.bits = gb.bits
  <2>1. zeros \in Nat /\ 0 \in Int
    BY <1>9
  <2> QED
    BY ONLY <2>1, gb \in Context, ReadType
<1>3. Cache(first) \in Seq(Bit) /\ Len(Cache(first)) = 32
  BY <1>2, CacheIs
<1> HIDE DEF zeros, first
<1>4. Number(rest) \in Nat
  <2>1. CASE zeros < 5
    <3>1. CodeLength(zeros) \in 0..32
      BY <1>9, <2>1 DEF CodeLength
    <3>2. Number(SubSeq(Cache(gb), 1, CodeLength(zeros))) \in Nat
      BY <1>1, <3>1, FirstBits
    <3> QED
      BY <2>1, <3>2
  <2>2. CASE ~ (zeros < 5)
    <3>1. zeros + 1 \in 0..32
      BY <1>9
    <3>2. Number(SubSeq(Cache(first), 1, zeros + 1)) \in Nat
      BY <1>3, <3>1, FirstBits
    <3> QED
      BY <2>2, <3>2
  <2> QED
    BY <2>1, <2>2
<1>5. Signed(Number(rest)) \in Int
  <2> DEFINE code == Number(rest)
  <2>1. code \in Nat
    BY <1>4
  <2> HIDE DEF code
  <2>2. Signed(code) \in Int
    BY <2>1 DEF Signed
  <2> QED
    BY <2>2 DEF code
<1>6. get_se_golomb(gb) = Read(first, zeros + 1, Signed(Number(rest)))
  BY DEF get_se_golomb, first, zeros
<1>7. zeros + 1 \in Nat
  BY <1>9
<1> HIDE DEF rest
<1> DEFINE w == Signed(Number(rest))
           m == zeros + 1
<1>8. w \in Int /\ m \in Nat
  BY <1>5, <1>7
<1>10. get_se_golomb(gb) = Read(first, m, w)
  BY <1>6
<1> HIDE DEF w, m
<1>11. Read(first, m, w) \in Context /\ Read(first, m, w).bits = first.bits
  BY ONLY <1>2, <1>8, ReadType
<1> QED
  BY ONLY <1>2, <1>10, <1>11

-----------------------------------------------------------------------------
(* What comes next in the buffer. *)
Ahead(gb, s) ==
  /\ gb.index + Len(s) <= Len(gb.bits)
  /\ \A i \in 1..Len(s) : gb.bits[gb.index + i] = s[i]

(* Behind what comes first is what comes then. *)
LEMMA AheadConcat ==
  ASSUME NEW gb \in Context, NEW s \in Seq(Bit), NEW t \in Seq(Bit), Ahead(gb, s \o t)
  PROVE  /\ Ahead(gb, s)
         /\ \A next \in Context :
              next.bits = gb.bits /\ next.index = gb.index + Len(s) => Ahead(next, t)
<1> DEFINE m == Len(s)
           n == Len(t)
<1>1. /\ Len(s \o t) = m + n
      /\ \A i \in 1..m : (s \o t)[i] = s[i]
      /\ \A i \in 1..n : (s \o t)[m + i] = t[i]
  <2>1. \A i \in 1..(m + n) : (s \o t)[i] = IF i <= m THEN s[i] ELSE t[i - m]
    BY ConcatProperties
  <2>2. m \in Nat /\ n \in Nat
    OBVIOUS
  <2>3. \A i \in 1..m : (s \o t)[i] = s[i]
    BY <2>1, <2>2
  <2>4. ASSUME NEW i \in 1..n
        PROVE  (s \o t)[m + i] = t[i]
    <3>1. m + i \in 1..(m + n) /\ ~ (m + i <= m) /\ (m + i) - m = i
      BY <2>2
    <3> QED
      BY ONLY <2>1, <3>1
  <2> QED
    BY <2>3, <2>4, ConcatProperties
<1>2. m \in Nat /\ n \in Nat /\ gb.index \in Nat /\ Len(gb.bits) \in Nat
  BY DEF Context
<1> DEFINE u == s \o t
<1>3. gb.index + (m + n) <= Len(gb.bits) /\ \A i \in 1..(m + n) : gb.bits[gb.index + i] = u[i]
  BY <1>1 DEF Ahead
<1>4. \A i \in 1..m : i \in 1..(m + n)
  BY <1>2
<1>5. Ahead(gb, s)
  <2>1. gb.index + m <= Len(gb.bits)
    BY <1>2, <1>3
  <2>2. \A i \in 1..m : gb.bits[gb.index + i] = s[i]
    BY <1>1, <1>3, <1>4
  <2> QED
    BY <2>1, <2>2 DEF Ahead
<1>6. ASSUME NEW next \in Context, next.bits = gb.bits, next.index = gb.index + m
      PROVE  Ahead(next, t)
  <2>1. next.index + n <= Len(next.bits)
    BY <1>2, <1>3, <1>6
  <2>2. ASSUME NEW i \in 1..n
        PROVE  next.bits[next.index + i] = t[i]
    <3>1. m + i \in 1..(m + n) /\ next.index + i = gb.index + (m + i)
      BY <1>2, <1>6
    <3>2. gb.bits[gb.index + (m + i)] = u[m + i] /\ u[m + i] = t[i]
      BY <1>1, <1>3, <3>1
    <3> QED
      BY ONLY <1>6, <3>1, <3>2
  <2> QED
    BY <2>1, <2>2 DEF Ahead
<1> QED
  BY <1>5, <1>6

(* What comes next is in the cache. *)
LEMMA CacheAhead ==
  ASSUME NEW gb \in Context, NEW s \in Seq(Bit), Ahead(gb, s), Len(s) <= MIN_CACHE_BITS
  PROVE  /\ \A i \in 1..Len(s) : Cache(gb)[i] = s[i]
         /\ SubSeq(Cache(gb), 1, Len(s)) = s
<1>1. Len(s) \in Nat /\ gb.index \in Nat /\ Len(gb.bits) \in Nat
  BY DEF Context
<1>2. ASSUME NEW i \in 1..Len(s)
      PROVE  Cache(gb)[i] = s[i]
  <2>1. i \in 1..MIN_CACHE_BITS /\ gb.index + i <= Len(gb.bits)
    BY <1>1 DEF Ahead, MIN_CACHE_BITS
  <2>2. Cache(gb)[i] = gb.bits[gb.index + i]
    BY <2>1, CacheIs
  <2> QED
    BY <2>2 DEF Ahead
<1>3. /\ SubSeq(Cache(gb), 1, Len(s)) \in Seq(Bit)
      /\ Len(SubSeq(Cache(gb), 1, Len(s))) = Len(s)
      /\ \A i \in 1..Len(s) : SubSeq(Cache(gb), 1, Len(s))[i] = Cache(gb)[i]
  <2>1. Cache(gb) \in Seq(Bit) /\ Len(Cache(gb)) = 32
    BY CacheIs
  <2>2. Len(s) \in 0..Len(Cache(gb))
    <3> DEFINE n == Len(s)
    <3>1. n <= 25 /\ n \in Nat
      BY <1>1 DEF MIN_CACHE_BITS
    <3> HIDE DEF n
    <3>2. n \in 0..32
      BY ONLY <3>1
    <3> QED
      BY <2>1, <3>2 DEF n
  <2> QED
    BY ONLY <2>1, <2>2, FirstBits
<1> DEFINE c == SubSeq(Cache(gb), 1, Len(s))
<1>4. \A i \in 1..Len(s) : c[i] = s[i]
  BY <1>2, <1>3
<1>5. c \in Seq(Bit) /\ Len(c) = Len(s)
  BY <1>3
<1> HIDE DEF c
<1>6. c = s
  BY ONLY <1>4, <1>5, s \in Seq(Bit), SeqEqual
<1> QED
  BY <1>2, <1>6 DEF c

(* get_bits() reads what an encoder writes as so many bits. *)
LEMMA GetBitsExact ==
  ASSUME NEW gb \in Context, NEW n \in 0..MIN_CACHE_BITS, NEW v \in Nat, v < 2 ^ n,
         Ahead(gb, Binary(n, v))
  PROVE  get_bits(gb, n).value = v /\ get_bits(gb, n).index = gb.index + n
<1> DEFINE s == Binary(n, v)
<1>0. n \in 0..30 /\ n \in Nat
  BY DEF MIN_CACHE_BITS
<1>1. s \in Seq(Bit) /\ Len(s) = n /\ Number(s) = v
  BY <1>0, NumberBinary
<1>2. n <= MIN_CACHE_BITS
  BY DEF MIN_CACHE_BITS
<1> HIDE DEF s
<1>3. Ahead(gb, s)
  BY DEF s
<1>4. SubSeq(Cache(gb), 1, n) = s
  BY <1>1, <1>2, <1>3, CacheAhead
<1>5. get_bits(gb, n) = Read(gb, n, v)
  BY <1>1, <1>4 DEF get_bits
<1>6. gb.index + n <= Len(gb.bits)
  BY <1>1, <1>3 DEF Ahead
<1>7. Read(gb, n, v).value = v
  BY <1>0, ReadType
<1>8. Read(gb, n, v).index = gb.index + n
  BY ONLY <1>0, <1>6, gb \in Context, ReadIndex
<1> QED
  BY <1>5, <1>7, <1>8

-----------------------------------------------------------------------------
(* Exp-Golomb codes. *)
LEMMA WidthIs ==
  ASSUME NEW v \in Nat \ {0}, v < 2 ^ 30
  PROVE  Width(v) \in 1..30 /\ 2 ^ (Width(v) - 1) <= v /\ v < 2 ^ Width(v)
<1> DEFINE T == {n \in 1..30 : v < 2 ^ n}
           Fits(n) == 2 ^ (n - 1) <= v /\ v < 2 ^ n
<1>1. \E n \in 1..30 : Fits(n)
  <2>1. 30 \in T
    OBVIOUS
  <2>2. T \in SUBSET Nat
    OBVIOUS
  <2>3. PICK n \in T : \A m \in T : n <= m
    BY ONLY <2>1, <2>2, LeastNumber
  <2>4. n \in 1..30 /\ v < 2 ^ n
    BY <2>3
  <2>5. CASE n = 1
    <3>1. n - 1 = 0
      BY <2>5
    <3>2. 2 ^ (n - 1) = 2 ^ 0
      BY ONLY <3>1
    <3>3. 2 ^ 0 = 1
      OBVIOUS
    <3>4. 2 ^ (n - 1) <= v
      BY <3>2, <3>3
    <3> QED
      BY <2>4, <3>4
  <2>6. CASE n # 1
    <3>1. n - 1 \in 1..30 /\ n - 1 < n
      BY <2>4, <2>6
    <3>2. n - 1 \notin T
      BY <2>3, <2>4, <3>1
    <3>3. ~ (v < 2 ^ (n - 1))
      BY ONLY <3>1, <3>2
    <3>4. 2 ^ (n - 1) \in Nat
      <4>1. n - 1 \in 0..30
        BY <3>1
      <4> QED
        BY ONLY <4>1, Powers
    <3> DEFINE d == 2 ^ (n - 1)
    <3> HIDE DEF d
    <3>5. d <= v
      BY <3>3, <3>4 DEF d
    <3> QED
      BY <2>4, <3>5 DEF d
  <2> QED
    BY <2>5, <2>6
<1> DEFINE c == CHOOSE n \in 1..30 : Fits(n)
<1>2. c \in 1..30 /\ Fits(c)
  BY <1>1
<1>3. Width(v) = c
  BY DEF Width
<1> QED
  BY <1>2, <1>3

(* A number less than a power of two has no more bits than that. *)
LEMMA WidthSmall ==
  ASSUME NEW k \in 1..30, NEW v \in Nat \ {0}, v < 2 ^ k
  PROVE  /\ Width(v) \in 1..k
         /\ 2 ^ (Width(v) - 1) <= v /\ v < 2 ^ Width(v)
<1> DEFINE w == Width(v)
<1>1. 2 ^ k \in Nat /\ 2 ^ k <= 2 ^ 30
  <2>1. 30 \in 0..31 /\ k \in 0..30
    OBVIOUS
  <2> QED
    BY ONLY <2>1, PowersGrow
<1>2. v < 2 ^ 30
  <2> DEFINE p == 2 ^ k
             q == 2 ^ 30
  <2>1. q \in Nat
    OBVIOUS
  <2>2. p \in Nat /\ p <= q /\ v < p
    BY <1>1
  <2> HIDE DEF p, q
  <2>3. v < q
    BY <2>1, <2>2
  <2> QED
    BY <2>3 DEF q
<1>3. w \in 1..30 /\ 2 ^ (w - 1) <= v /\ v < 2 ^ w
  BY <1>2, WidthIs
<1> HIDE DEF w
<1>4. w <= k
  <2> SUFFICES ASSUME ~ (w <= k)
               PROVE  FALSE
    OBVIOUS
  <2>1. w - 1 \in 0..31 /\ k \in 0..(w - 1)
    BY <1>3
  <2>2. 2 ^ k <= 2 ^ (w - 1)
    BY ONLY <2>1, PowersGrow
  <2>3. 2 ^ (w - 1) \in Nat
    <3>1. w - 1 \in 0..30
      BY <1>3
    <3> QED
      BY <3>1, Powers
  <2> DEFINE p == 2 ^ k
             q == 2 ^ (w - 1)
  <2>4. p \in Nat /\ q \in Nat /\ p <= q /\ q <= v /\ v < p
    BY <1>1, <1>3, <2>2, <2>3
  <2> HIDE DEF p, q
  <2> QED
    BY ONLY <2>4, v \in Nat
<1> QED
  BY <1>3, <1>4 DEF w

(* A code is zeros, as many as bits follow the first 1. *)
LEMMA UeParts ==
  ASSUME NEW v \in Nat, NEW w, w = Width(v + 1), v + 1 < 2 ^ 30
  PROVE  /\ w \in 1..30 /\ v + 1 < 2 ^ w /\ 2 ^ (w - 1) <= v + 1
         /\ Ue(v) = Binary(w - 1, 0) \o Binary(w, v + 1)
         /\ Binary(w - 1, 0) \in Seq(Bit) /\ Len(Binary(w - 1, 0)) = w - 1
         /\ Binary(w, v + 1) \in Seq(Bit) /\ Len(Binary(w, v + 1)) = w
         /\ Number(Binary(w, v + 1)) = v + 1
         /\ Ue(v) \in Seq(Bit) /\ Len(Ue(v)) = 2 * w - 1
         /\ \A i \in 1..(w - 1) : Ue(v)[i] = 0
         /\ \A i \in 1..w : Ue(v)[(w - 1) + i] = Binary(w, v + 1)[i]
         /\ Ue(v)[w] = 1
<1> DEFINE x == v + 1
           s == Binary(w - 1, 0)
           t == Binary(w, x)
<1>1. x \in Nat \ {0}
  OBVIOUS
<1>2. w \in 1..30 /\ 2 ^ (w - 1) <= x /\ x < 2 ^ w
  BY <1>1, WidthIs
<1>3. w - 1 \in 0..30 /\ w \in 0..30 /\ 0 \in Nat /\ w - 1 \in Nat
  BY <1>2
<1>4. 0 < 2 ^ (w - 1) /\ 2 ^ (w - 1) \in Nat \ {0}
  <2> DEFINE d == 2 ^ (w - 1)
  <2>1. d \in Nat \ {0}
    BY ONLY <1>3, Powers
  <2> HIDE DEF d
  <2>2. 0 < d
    BY <2>1
  <2> QED
    BY <2>1, <2>2 DEF d
<1>5. s \in Seq(Bit) /\ Len(s) = w - 1
  <2>1. s = Binary(w - 1, 0)
    OBVIOUS
  <2> HIDE DEF s
  <2> QED
    BY ONLY <1>3, <1>4, <2>1, NumberBinary
<1>6. t \in Seq(Bit) /\ Len(t) = w /\ Number(t) = x
  <2>1. x \in Nat
    BY <1>1
  <2> QED
    BY ONLY <1>2, <1>3, <2>1, NumberBinary
<1>7. Ue(v) = s \o t
  BY DEF Ue
<1>8. \A i \in 1..(w - 1) : s[i] = 0
  <2> SUFFICES ASSUME NEW i \in 1..(w - 1)
               PROVE  s[i] = 0
    OBVIOUS
  <2>1. s[i] = (0 \div 2 ^ ((w - 1) - i)) % 2
    BY DEF Binary
  <2> DEFINE d == 2 ^ ((w - 1) - i)
  <2>2. d \in Nat \ {0}
    <3>1. (w - 1) - i \in 0..30
      BY <1>3
    <3> QED
      BY ONLY <3>1, Powers
  <2> HIDE DEF d
  <2>3. (0 \div d) % 2 = 0
    BY <2>2
  <2> QED
    BY <2>1, <2>3 DEF d
<1>9. t[1] = 1
  <2>1. t[1] = (x \div 2 ^ (w - 1)) % 2
    <3>1. 1 \in 1..w
      BY <1>2
    <3> QED
      BY ONLY <3>1 DEF Binary
  <2> DEFINE d == 2 ^ (w - 1)
  <2>2. d <= x /\ x < 2 * d /\ d \in Nat \ {0}
    <3>1. 2 ^ ((w - 1) + 1) = 2 * 2 ^ (w - 1)
      BY ONLY <1>3, Powers
    <3>2. (w - 1) + 1 = w
      BY <1>2
    <3>3. 2 ^ w = 2 * 2 ^ (w - 1)
      BY ONLY <3>1, <3>2
    <3> QED
      BY <1>2, <1>4, <3>3
  <2> HIDE DEF d
  <2>3. x \div d = 1
    <3>1. x = d * 1 + (x - d) /\ x - d \in 0..(d - 1)
      BY <1>1, <2>2
    <3> QED
      BY <1>1, <2>2, <3>1
  <2> QED
    BY <2>1, <2>3 DEF d
<1> HIDE DEF s, t, x
<1>10. /\ s \o t \in Seq(Bit) /\ Len(s \o t) = (w - 1) + w
       /\ \A i \in 1..((w - 1) + w) : (s \o t)[i] = IF i <= w - 1 THEN s[i] ELSE t[i - (w - 1)]
  <2>1. s \o t \in Seq(Bit) /\ Len(s \o t) = Len(s) + Len(t)
    BY ONLY <1>5, <1>6, ConcatProperties
  <2>2. \A i \in 1..(Len(s) + Len(t)) : (s \o t)[i] = IF i <= Len(s) THEN s[i] ELSE t[i - Len(s)]
    BY ONLY <1>5, <1>6, ConcatProperties
  <2> QED
    BY ONLY <1>5, <1>6, <2>1, <2>2
<1>11. ASSUME NEW i \in 1..(w - 1)
       PROVE  (s \o t)[i] = 0
  <2>1. i \in 1..((w - 1) + w) /\ i <= w - 1
    BY <1>2
  <2> QED
    BY ONLY <1>8, <1>10, <2>1, i \in 1..(w - 1)
<1>12. ASSUME NEW i \in 1..w
       PROVE  (s \o t)[(w - 1) + i] = t[i]
  <2>1. (w - 1) + i \in 1..((w - 1) + w) /\ ~ ((w - 1) + i <= w - 1) /\ ((w - 1) + i) - (w - 1) = i
    BY <1>2
  <2> QED
    BY ONLY <1>10, <2>1
<1>13. (s \o t)[w] = 1
  <2>1. 1 \in 1..w /\ (w - 1) + 1 = w
    BY <1>2
  <2>2. (s \o t)[(w - 1) + 1] = t[1]
    BY ONLY <1>12, <2>1
  <2> QED
    BY ONLY <1>9, <2>1, <2>2
<1>14. (w - 1) + w = 2 * w - 1
  BY <1>2
<1> QED
  BY ONLY <1>2, <1>5, <1>6, <1>7, <1>10, <1>11, <1>12, <1>13, <1>14 DEF s, t, x

(* One that the cache is sure to hold is the number it stands for. *)
LEMMA UeNumber ==
  ASSUME NEW v \in Nat, v + 1 < 8192
  PROVE  /\ Width(v + 1) \in 1..13
         /\ Number(Ue(v)) = v + 1
<1> DEFINE w == Width(v + 1)
           x == v + 1
           n == 2 * w - 1
<1>1. x \in Nat \ {0} /\ x \in Nat
  OBVIOUS
<1>2. 8192 = 2 ^ 13 /\ 13 \in 1..30
  OBVIOUS
<1>3. w \in 1..13 /\ x < 2 ^ w
  BY <1>1, <1>2, WidthSmall
<1>4. /\ Ue(v) \in Seq(Bit) /\ Len(Ue(v)) = n
      /\ \A i \in 1..(w - 1) : Ue(v)[i] = 0
      /\ \A i \in 1..w : Ue(v)[(w - 1) + i] = Binary(w, x)[i]
  <2>1. x < 2 ^ 30
    OBVIOUS
  <2> QED
    BY <2>1, UeParts
<1> HIDE DEF w
<1>5. n \in 0..30 /\ n \in Nat
  BY <1>3
<1>6. ASSUME NEW k \in w..n
      PROVE  x < 2 ^ k /\ 2 ^ k \in Nat
  <2>1. k \in 0..31 /\ w \in 0..k /\ k \in 0..30
    BY <1>3
  <2>2. 2 ^ w <= 2 ^ k /\ 2 ^ w \in Nat
    BY ONLY <2>1, PowersGrow
  <2>3. 2 ^ k \in Nat
    BY ONLY <2>1, Powers
  <2> DEFINE p == 2 ^ w
             q == 2 ^ k
  <2>4. p <= q /\ x < p /\ p \in Nat /\ q \in Nat
    BY <1>3, <2>2, <2>3
  <2> HIDE DEF p, q
  <2>5. x < q /\ q \in Nat
    BY ONLY <1>1, <2>4
  <2> QED
    BY ONLY <2>5 DEF q
<1>7. n \in w..n
  BY <1>3
<1>8. x < 2 ^ n
  BY <1>6, <1>7
<1> DEFINE b == Binary(n, x)
<1>9. b \in Seq(Bit) /\ Len(b) = n /\ Number(b) = x
  BY ONLY <1>1, <1>5, <1>8, NumberBinary
<1>10. ASSUME NEW i \in 1..n
       PROVE  b[i] = Ue(v)[i]
  <2>1. b[i] = (x \div 2 ^ (n - i)) % 2
    BY DEF Binary
  <2>2. CASE i <= w - 1
    <3>1. n - i \in w..n /\ i \in 1..(w - 1)
      BY <1>3, <2>2
    <3> DEFINE d == 2 ^ (n - i)
    <3>2. x < d /\ d \in Nat
      BY <1>6, <3>1
    <3> HIDE DEF d
    <3>3. (x \div d) % 2 = 0
      <4>1. x \div d = 0
        BY ONLY <1>1, <3>2
      <4> QED
        BY ONLY <4>1
    <3> QED
      BY <1>4, <2>1, <3>1, <3>3 DEF d
  <2>3. CASE ~ (i <= w - 1)
    <3> DEFINE j == i - (w - 1)
    <3>1. j \in 1..w /\ (w - 1) + j = i /\ n - i = w - j
      BY <1>3, <2>3
    <3>2. Binary(w, x)[j] = (x \div 2 ^ (w - j)) % 2
      BY <3>1 DEF Binary
    <3>3. Ue(v)[(w - 1) + j] = Binary(w, x)[j]
      BY <1>4, <3>1
    <3> HIDE DEF j
    <3>4. 2 ^ (n - i) = 2 ^ (w - j)
      BY ONLY <3>1
    <3> QED
      BY ONLY <2>1, <3>1, <3>2, <3>3, <3>4
  <2> QED
    BY <2>2, <2>3
<1> HIDE DEF b, n
<1>11. b = Ue(v)
  BY ONLY <1>4, <1>9, <1>10, SeqEqual
<1> QED
  BY <1>3, <1>9, <1>11 DEF w

(* The zeros of a code that comes next are counted, if the cache holds them *)
(* and the 1 behind them.                                                   *)
LEMMA CodeZeros ==
  ASSUME NEW gb \in Context, NEW v \in Nat, NEW w, w = Width(v + 1), v + 1 < 2 ^ 30,
         w <= MIN_CACHE_BITS, Ahead(gb, Ue(v))
  PROVE  LeadingZeros(Cache(gb)) = w - 1
<1> DEFINE c == Cache(gb)
           s == Ue(v)
<1>1. w \in 1..30
  BY UeParts
<1>2. /\ s \in Seq(Bit) /\ Len(s) = 2 * w - 1
      /\ \A i \in 1..(w - 1) : s[i] = 0
      /\ s[w] = 1
  BY UeParts
<1>3. gb.index \in Nat /\ Len(gb.bits) \in Nat
  BY DEF Context
<1>4. w <= 25
  BY DEF MIN_CACHE_BITS
<1> HIDE DEF s
<1>5. ASSUME NEW i \in 1..w
      PROVE  c[i] = s[i]
  <2>1. i \in 1..25 /\ i \in 1..(2 * w - 1)
    BY <1>1, <1>4
  <2>2. gb.bits[gb.index + i] = s[i]
    BY <1>2, <2>1 DEF Ahead, s
  <2>5. gb.index + (2 * w - 1) <= Len(gb.bits)
    BY <1>2 DEF Ahead, s
  <2>3. gb.index + i <= Len(gb.bits)
    BY ONLY <1>1, <1>3, <2>1, <2>5
  <2>4. c[i] = gb.bits[gb.index + i]
    BY <2>1, <2>3, CacheIs DEF MIN_CACHE_BITS
  <2> QED
    BY <2>2, <2>4
<1>6. c \in [1..32 -> Bit]
  BY CacheIs
<1> HIDE DEF c
<1>7. w - 1 \in 0..31 /\ (w - 1) + 1 = w
  BY <1>1, <1>4
<1>8. \A i \in 1..(w - 1) : c[i] = 0
  <2> TAKE i \in 1..(w - 1)
  <2>1. i \in 1..w
    BY <1>1
  <2> QED
    BY <1>2, <1>5, <2>1
<1>9. c[(w - 1) + 1] = 1
  <2>1. w \in 1..w
    BY <1>1
  <2>2. c[w] = 1
    BY <1>2, <1>5, <2>1
  <2> QED
    BY ONLY <1>7, <2>2
<1>10. LeadingZeros(c) = w - 1
  BY ONLY <1>6, <1>7, <1>8, <1>9, LeadingZerosUnique
<1> QED
  BY <1>10 DEF c

(* get_ue_golomb() reads a code that the cache is sure to hold. *)
THEOREM GetUeExact ==
  ASSUME NEW gb \in Context, NEW v \in Nat, v + 1 < 8192, Ahead(gb, Ue(v))
  PROVE  /\ get_ue_golomb(gb).value = v
         /\ get_ue_golomb(gb).index = gb.index + Len(Ue(v))
<1> DEFINE w == Width(v + 1)
           s == Ue(v)
           length == CodeLength(LeadingZeros(Cache(gb)))
<1>1. w \in 1..13 /\ Number(s) = v + 1
  BY UeNumber
<1>2. v + 1 < 2 ^ 30 /\ w = Width(v + 1)
  OBVIOUS
<1> HIDE DEF w
<1>3. s \in Seq(Bit) /\ Len(s) = 2 * w - 1
  BY ONLY <1>2, v \in Nat, UeParts
<1>4. w <= MIN_CACHE_BITS
  BY <1>1 DEF MIN_CACHE_BITS
<1>5. LeadingZeros(Cache(gb)) = w - 1
  BY <1>2, <1>4, CodeZeros
<1>6. length = 2 * w - 1 /\ length <= 25 /\ length \in Nat
  BY <1>1, <1>5 DEF CodeLength
<1> HIDE DEF length, s
<1>7. SubSeq(Cache(gb), 1, length) = s
  <2>1. Len(s) <= MIN_CACHE_BITS
    BY <1>3, <1>6 DEF MIN_CACHE_BITS
  <2>2. Ahead(gb, s)
    BY DEF s
  <2> QED
    BY <1>3, <1>6, <2>1, <2>2, CacheAhead
<1>8. get_ue_golomb(gb) = Read(gb, length, v)
  <2>1. Number(s) - 1 = v
    BY <1>1
  <2>2. ~ (length > 32)
    BY <1>6
  <2>3. get_ue_golomb(gb) =
          Read(gb, length, IF length > 32 THEN -1 ELSE Number(SubSeq(Cache(gb), 1, length)) - 1)
    BY DEF get_ue_golomb, length
  <2> QED
    BY ONLY <1>7, <2>1, <2>2, <2>3
<1>9. gb.index + length <= Len(gb.bits)
  <2>1. Ahead(gb, s)
    BY DEF s
  <2> QED
    BY <1>3, <1>6, <2>1 DEF Ahead
<1>10. Read(gb, length, v).value = v
  BY <1>6, ReadType
<1>11. Read(gb, length, v).index = gb.index + length
  BY ONLY <1>6, <1>9, gb \in Context, ReadIndex
<1> QED
  BY <1>3, <1>6, <1>8, <1>10, <1>11 DEF s

(* get_ue_golomb_31() stops behind a code of up to nine bits, whatever it   *)
(* returns.                                                                 *)
LEMMA GetUe31Index ==
  ASSUME NEW gb \in Context, NEW v \in Nat, v + 1 < 32, Ahead(gb, Ue(v))
  PROVE  get_ue_golomb_31(gb).index = gb.index + Len(Ue(v))
<1> DEFINE w == Width(v + 1)
           s == Ue(v)
           all == LeadingZeros(Cache(gb))
           zeros == IF all < 9 THEN all ELSE 9
<1>1. w \in 1..5
  <2>1. 32 = 2 ^ 5 /\ 5 \in 1..30 /\ v + 1 \in Nat \ {0}
    OBVIOUS
  <2> QED
    BY <2>1, WidthSmall
<1>2. v + 1 < 2 ^ 30
  OBVIOUS
<1>3. s \in Seq(Bit) /\ Len(s) = 2 * w - 1
  BY <1>2, UeParts
<1>4. w <= MIN_CACHE_BITS
  BY <1>1 DEF MIN_CACHE_BITS
<1>5. all = w - 1
  BY <1>2, <1>4, CodeZeros
<1> HIDE DEF w, all
<1>6. zeros = w - 1
  BY <1>1, <1>5
<1> HIDE DEF zeros
<1>7. CodeLength(zeros) = 2 * w - 1 /\ CodeLength(zeros) \in Nat
  BY <1>1, <1>6 DEF CodeLength
<1>8. PICK r : get_ue_golomb_31(gb) = Read(gb, CodeLength(zeros), r)
  BY DEF get_ue_golomb_31, zeros, all
<1>9. gb.index + CodeLength(zeros) <= Len(gb.bits)
  BY <1>3, <1>7 DEF Ahead
<1>10. Read(gb, CodeLength(zeros), r).index = gb.index + CodeLength(zeros)
  BY ONLY <1>7, <1>9, gb \in Context, ReadIndex
<1> QED
  BY <1>3, <1>7, <1>8, <1>10

(* The sign is in the last bit. *)
LEMMA SignedCode ==
  ASSUME NEW v \in Int, NEW c, c = IF v > 0 THEN 2 * v - 1 ELSE -2 * v
  PROVE  c \in Nat /\ Signed(c + 1) = v /\ Se(v) = Ue(c)
<1>1. c \in Nat
  OBVIOUS
<1>2. Se(v) = Ue(c)
  BY DEF Se
<1>3. CASE v > 0
  <2>1. c + 1 = 2 * v
    BY <1>3
  <2>2. (2 * v) % 2 = 0 /\ (2 * v) \div 2 = v
    OBVIOUS
  <2> QED
    BY <1>1, <1>2, <2>1, <2>2 DEF Signed
<1>4. CASE ~ (v > 0)
  <2> DEFINE u == -v
  <2>1. u \in Nat /\ c + 1 = 2 * u + 1
    BY <1>4
  <2> HIDE DEF u
  <2>2. (2 * u + 1) % 2 # 0 /\ (2 * u + 1) \div 2 = u
    BY ONLY <2>1
  <2>3. Signed(c + 1) = -u
    BY ONLY <2>1, <2>2 DEF Signed
  <2>4. -u = v
    BY DEF u
  <2> QED
    BY ONLY <1>1, <1>2, <2>3, <2>4
<1> QED
  BY <1>3, <1>4

(* get_se_golomb() reads longer codes than the cache holds, in two. *)
LEMMA GetSeExact ==
  ASSUME NEW gb \in Context, NEW v \in Int, Ahead(gb, Se(v)),
         NEW c, c = IF v > 0 THEN 2 * v - 1 ELSE -2 * v, c + 1 < 2 ^ 24
  PROVE  /\ get_se_golomb(gb).value = v
         /\ get_se_golomb(gb).index = gb.index + Len(Se(v))
<1> DEFINE w == Width(c + 1)
           s == Se(v)
           t == Binary(w, c + 1)
           cache == Cache(gb)
           zeros == LeadingZeros(cache)
           first == Read(gb, zeros, 0)
           rest == IF zeros < 5 THEN SubSeq(cache, 1, CodeLength(zeros))
                   ELSE SubSeq(Cache(first), 1, zeros + 1)
<1>1. c \in Nat
  BY SignedCode
<1>2. Signed(c + 1) = v /\ s = Ue(c)
  BY SignedCode
<1>3. w \in 1..24
  <2>1. 24 \in 1..30
    OBVIOUS
  <2>2. c + 1 \in Nat \ {0}
    BY <1>1
  <2> QED
    BY <1>1, <2>1, <2>2, WidthSmall
<1>4. c + 1 < 2 ^ 30 /\ w = Width(c + 1)
  <2>1. 30 \in 0..31 /\ 24 \in 0..30
    OBVIOUS
  <2>2. 2 ^ 24 \in Nat \ {0} /\ 2 ^ 24 <= 2 ^ 30
    BY ONLY <2>1, PowersGrow
  <2>3. 2 ^ 30 \in Nat
    OBVIOUS
  <2> DEFINE p == 2 ^ 24
             q == 2 ^ 30
  <2>4. c + 1 < p /\ p <= q /\ p \in Nat /\ q \in Nat
    BY <2>2, <2>3
  <2> HIDE DEF p, q
  <2>5. c + 1 < q
    BY ONLY <1>1, <2>4
  <2> QED
    BY <2>5 DEF q
<1> HIDE DEF w, s, t
<1>5. /\ s \in Seq(Bit) /\ Len(s) = 2 * w - 1
      /\ \A i \in 1..w : s[(w - 1) + i] = t[i]
  <2>1. Ue(c) \in Seq(Bit) /\ Len(Ue(c)) = 2 * w - 1
    BY ONLY <1>1, <1>4, UeParts
  <2>2. \A i \in 1..w : Ue(c)[(w - 1) + i] = Binary(w, c + 1)[i]
    BY ONLY <1>1, <1>4, UeParts DEF w
  <2> QED
    BY ONLY <1>2, <2>1, <2>2 DEF t
<1>6. t \in Seq(Bit) /\ Len(t) = w /\ Number(t) = c + 1
  BY ONLY <1>1, <1>4, UeParts DEF t
<1>7. Ahead(gb, s) /\ Ahead(gb, Ue(c))
  BY <1>2 DEF s
<1>8. zeros = w - 1
  <2>1. w <= MIN_CACHE_BITS
    BY <1>3 DEF MIN_CACHE_BITS
  <2> QED
    BY <1>1, <1>4, <1>7, <2>1, CodeZeros
<1> HIDE DEF zeros, cache
<1>9. gb.index \in Nat /\ Len(gb.bits) \in Nat
  BY DEF Context
<1>10. gb.index + (2 * w - 1) <= Len(gb.bits)
  BY <1>5, <1>7 DEF Ahead
<1>11. first \in Context /\ first.bits = gb.bits /\ first.index = gb.index + zeros
  <2>1. zeros \in Nat /\ 0 \in Int
    BY <1>3, <1>8
  <2>2. gb.index + zeros <= Len(gb.bits)
    BY ONLY <1>3, <1>8, <1>9, <1>10
  <2>3. first.index = gb.index + zeros
    BY ONLY <2>1, <2>2, gb \in Context, ReadIndex
  <2> QED
    BY ONLY <2>1, <2>3, gb \in Context, ReadType
<1> HIDE DEF first
<1>12. Number(rest) = c + 1
  <2>1. CASE zeros < 5
    <3>1. CodeLength(zeros) = 2 * w - 1 /\ 2 * w - 1 <= 25
      BY <1>3, <1>8, <2>1 DEF CodeLength
    <3>2. Len(s) <= MIN_CACHE_BITS
      BY <1>5, <3>1 DEF MIN_CACHE_BITS
    <3>3. SubSeq(cache, 1, 2 * w - 1) = s
      BY <1>5, <1>7, <3>2, CacheAhead DEF cache
    <3>4. Number(s) = c + 1
      <4>1. c + 1 < 8192
        <5>1. w \in 0..13 /\ 13 \in 0..31
          BY <1>3, <1>8, <2>1
        <5>5. 2 ^ 13 = 8192
          OBVIOUS
        <5>2. 2 ^ w <= 2 ^ 13 /\ 2 ^ w \in Nat \ {0}
          BY ONLY <5>1, PowersGrow
        <5>3. c + 1 < 2 ^ w
          BY ONLY <1>1, <1>4, UeParts
        <5> DEFINE p == 2 ^ w
        <5>4. p <= 8192 /\ p \in Nat /\ c + 1 < p
          BY <5>2, <5>3, <5>5
        <5> HIDE DEF p
        <5> QED
          BY ONLY <1>1, <5>4
      <4> QED
        BY ONLY <1>1, <1>2, <4>1, UeNumber
    <3> QED
      BY <2>1, <3>1, <3>3, <3>4
  <2>2. CASE ~ (zeros < 5)
    <3>1. zeros + 1 = w
      BY <1>3, <1>8
    <3>2. Ahead(first, t)
      <4>1. first.index + w <= Len(first.bits)
        <5> DEFINE n == Len(gb.bits)
        <5>1. gb.index \in Nat /\ n \in Nat /\ gb.index + (2 * w - 1) <= n
          BY <1>9, <1>10
        <5> HIDE DEF n
        <5>2. (gb.index + zeros) + w <= n
          BY ONLY <1>3, <1>8, <5>1
        <5> QED
          BY <1>11, <5>2 DEF n
      <4>2. ASSUME NEW i \in 1..w
            PROVE  first.bits[first.index + i] = t[i]
        <5>1. zeros + i \in 1..(2 * w - 1) /\ zeros + i = (w - 1) + i
              /\ (gb.index + zeros) + i = gb.index + (zeros + i)
          BY ONLY <1>3, <1>8, <1>9, i \in 1..w
        <5>2. gb.bits[gb.index + (zeros + i)] = s[zeros + i]
          BY <1>5, <1>7, <5>1 DEF Ahead
        <5>3. s[(w - 1) + i] = t[i]
          BY <1>5
        <5>4. first.bits[first.index + i] = gb.bits[gb.index + (zeros + i)]
          BY ONLY <1>11, <5>1
        <5> QED
          BY ONLY <5>1, <5>2, <5>3, <5>4
      <4> QED
        BY <1>6, <4>1, <4>2 DEF Ahead
    <3>3. Len(t) <= MIN_CACHE_BITS
      BY <1>3, <1>6 DEF MIN_CACHE_BITS
    <3>4. SubSeq(Cache(first), 1, w) = t
      BY <1>6, <1>11, <3>2, <3>3, CacheAhead
    <3> QED
      BY <1>6, <2>2, <3>1, <3>4
  <2> QED
    BY <2>1, <2>2
<1>13. get_se_golomb(gb) = Read(first, zeros + 1, v)
  <2>1. get_se_golomb(gb) = Read(first, zeros + 1, Signed(Number(rest)))
    BY DEF get_se_golomb, first, zeros, cache
  <2> HIDE DEF rest
  <2> QED
    BY ONLY <1>2, <1>12, <2>1
<1>14. zeros + 1 \in Nat /\ v \in Int
  BY <1>3, <1>8
<1>15. Read(first, zeros + 1, v).value = v
  BY ONLY <1>11, <1>14, ReadType
<1>16. Read(first, zeros + 1, v).index = gb.index + (2 * w - 1)
  <2> DEFINE n == Len(first.bits)
  <2>1. n \in Nat /\ first.index + (zeros + 1) <= n
    <3> DEFINE l == Len(gb.bits)
    <3>1. gb.index \in Nat /\ l \in Nat /\ gb.index + (2 * w - 1) <= l
      BY <1>9, <1>10
    <3> HIDE DEF l
    <3>2. (gb.index + zeros) + (zeros + 1) <= l
      BY ONLY <1>3, <1>8, <3>1
    <3> QED
      BY <1>11, <3>1, <3>2 DEF l
  <2> HIDE DEF n
  <2>2. Read(first, zeros + 1, v).index = first.index + (zeros + 1)
    BY ONLY <1>11, <1>14, <2>1, ReadIndex DEF n
  <2>3. (gb.index + zeros) + (zeros + 1) = gb.index + (2 * w - 1)
    <3> DEFINE i == gb.index
    <3>1. i \in Nat
      BY <1>9
    <3> HIDE DEF i
    <3>2. (i + zeros) + (zeros + 1) = i + (2 * w - 1)
      BY ONLY <1>3, <1>8, <3>1
    <3> QED
      BY <3>2 DEF i
  <2> QED
    BY ONLY <1>11, <2>2, <2>3
<1> QED
  BY <1>5, <1>13, <1>15, <1>16 DEF s

-----------------------------------------------------------------------------
(* h is the context g with the bits s read. *)
Reads(g, h, s) ==
  /\ g \in Context /\ h \in Context
  /\ h.bits = g.bits
  /\ h.index = g.index + Len(s)

(* What is ahead in parts is read part by part. *)
LEMMA ReadsNext ==
  ASSUME NEW g, NEW h, NEW s \in Seq(Bit), NEW t \in Seq(Bit), Reads(g, h, s), Ahead(g, s \o t)
  PROVE  /\ s \o t \in Seq(Bit)
         /\ Ahead(g, s)
         /\ Ahead(h, t)
         /\ \A k : Reads(h, k, t) => Reads(g, k, s \o t)
<1>1. g \in Context /\ h \in Context /\ h.bits = g.bits /\ h.index = g.index + Len(s)
  BY DEF Reads
<1>2. Ahead(g, s) /\ Ahead(h, t)
  BY <1>1, AheadConcat
<1>3. s \o t \in Seq(Bit) /\ Len(s \o t) = Len(s) + Len(t)
  BY ONLY s \in Seq(Bit), t \in Seq(Bit), ConcatProperties
<1>4. ASSUME NEW k, Reads(h, k, t)
      PROVE  Reads(g, k, s \o t)
  <2> DEFINE i == g.index
             m == Len(s)
             n == Len(t)
  <2>1. k \in Context /\ k.bits = g.bits /\ k.index = (i + m) + n
    BY <1>1, <1>4 DEF Reads
  <2>2. i \in Nat /\ m \in Nat /\ n \in Nat
    BY <1>1 DEF Context
  <2> HIDE DEF i, m, n
  <2>3. (i + m) + n = i + (m + n)
    BY ONLY <2>2
  <2> QED
    BY <1>1, <1>3, <2>1, <2>3 DEF Reads, i, m, n
<1> QED
  BY <1>2, <1>3, <1>4

LEMMA ReadsNothing ==
  ASSUME NEW g \in Context
  PROVE  Reads(g, g, <<>>)
<1>1. g.index \in Nat
  BY DEF Context
<1>2. g.index + 0 = g.index
  BY <1>1
<1> QED
  BY <1>2 DEF Reads

LEMMA InferredReads ==
  ASSUME NEW g \in Context, NEW v \in Int
  PROVE  /\ Reads(g, Inferred(g, v), <<>>)
         /\ Inferred(g, v).value = v
<1>1. g.index \in Nat
  BY DEF Context
<1>2. g.index + 0 = g.index
  BY <1>1
<1> QED
  BY <1>2, InferredType DEF Reads

(* Each kind of element is read for what it is. *)
LEMMA ReadsBits ==
  ASSUME NEW g \in Context, NEW n \in 0..MIN_CACHE_BITS, NEW v \in Nat, v < 2 ^ n,
         Ahead(g, Binary(n, v))
  PROVE  /\ Binary(n, v) \in Seq(Bit)
         /\ Reads(g, get_bits(g, n), Binary(n, v))
         /\ get_bits(g, n).value = v
<1>1. n \in 0..32 /\ n \in 0..30
  BY DEF MIN_CACHE_BITS
<1>2. get_bits(g, n) \in Context /\ get_bits(g, n).bits = g.bits
  BY <1>1, GetBitsType
<1>3. get_bits(g, n).value = v /\ get_bits(g, n).index = g.index + n
  BY GetBitsExact
<1>4. Len(Binary(n, v)) = n /\ Binary(n, v) \in Seq(Bit)
  BY <1>1, NumberBinary
<1> QED
  BY <1>2, <1>3, <1>4 DEF Reads

LEMMA ReadsBit ==
  ASSUME NEW g \in Context, NEW b \in Bit, Ahead(g, <<b>>)
  PROVE  /\ Reads(g, get_bits1(g), <<b>>)
         /\ get_bits1(g).value = b
<1>1. get_bits1(g) \in Context /\ get_bits1(g).bits = g.bits
      /\ get_bits1(g).value = Cache(g)[1]
  BY GetBits1Type
<1>2. Len(<<b>>) = 1 /\ <<b>> \in Seq(Bit) /\ <<b>>[1] = b
  OBVIOUS
<1> DEFINE s == <<b>>
<1>3. s \in Seq(Bit) /\ Len(s) = 1 /\ s[1] = b /\ Ahead(g, s)
  BY <1>2
<1> HIDE DEF s
<1>4. Len(s) <= MIN_CACHE_BITS
  BY <1>3 DEF MIN_CACHE_BITS
<1>5. \A i \in 1..Len(s) : Cache(g)[i] = s[i]
  BY ONLY <1>3, <1>4, g \in Context, CacheAhead
<1>6. Cache(g)[1] = b
  BY <1>3, <1>5
<1>7. get_bits1(g).index = g.index + 1
  <2> DEFINE v == Number(SubSeq(Cache(g), 1, 1))
  <2>1. get_bits1(g) = Read(g, 1, v)
    BY DEF get_bits1, get_bits
  <2> HIDE DEF v
  <2>2. g.index + 1 <= Len(g.bits) /\ 1 \in Nat
    BY <1>3 DEF Ahead
  <2>3. Read(g, 1, v).index = g.index + 1
    BY ONLY <2>2, g \in Context, ReadIndex
  <2> QED
    BY <2>1, <2>3
<1> QED
  BY <1>1, <1>2, <1>6, <1>7 DEF Reads

LEMMA ReadsUe ==
  ASSUME NEW g \in Context, NEW v \in Nat, v + 1 < 8192, Ahead(g, Ue(v))
  PROVE  /\ Ue(v) \in Seq(Bit)
         /\ Reads(g, get_ue_golomb(g), Ue(v))
         /\ get_ue_golomb(g).value = v
<1>1. v + 1 < 2 ^ 30
  OBVIOUS
<1>2. Ue(v) \in Seq(Bit)
  BY <1>1, UeParts
<1>3. get_ue_golomb(g) \in Context /\ get_ue_golomb(g).bits = g.bits
  BY GetUeType
<1>4. get_ue_golomb(g).value = v /\ get_ue_golomb(g).index = g.index + Len(Ue(v))
  BY GetUeExact
<1> QED
  BY <1>2, <1>3, <1>4 DEF Reads

LEMMA ReadsUe31 ==
  ASSUME NEW g \in Context, NEW v \in Nat, v + 1 < 32, Ahead(g, Ue(v))
  PROVE  /\ Ue(v) \in Seq(Bit)
         /\ Reads(g, get_ue_golomb_31(g), Ue(v))
<1>1. v + 1 < 2 ^ 30
  OBVIOUS
<1>2. Ue(v) \in Seq(Bit)
  BY <1>1, UeParts
<1>3. get_ue_golomb_31(g) \in Context /\ get_ue_golomb_31(g).bits = g.bits
  BY GetUe31Type
<1>4. get_ue_golomb_31(g).index = g.index + Len(Ue(v))
  BY GetUe31Index
<1> QED
  BY <1>2, <1>3, <1>4 DEF Reads

(* Numbers with a sign are below 2^23. *)
LEMMA DifferenceCode ==
  ASSUME NEW v \in Differences, NEW c, c = IF v > 0 THEN 2 * v - 1 ELSE -2 * v
  PROVE  c \in Nat /\ c + 1 < 2 ^ 24 /\ c + 1 < 2 ^ 30 /\ Se(v) = Ue(c) /\ v \in Int
<1> DEFINE p == 2 ^ 23
           q == 2 ^ 24
           r == 2 ^ 30
<1>1. q = 2 * p /\ p \in Nat \ {0}
  <2>1. 23 \in 0..30 /\ 23 + 1 = 24
    OBVIOUS
  <2>2. 2 ^ (23 + 1) = 2 * 2 ^ 23 /\ 2 ^ 23 \in Nat \ {0}
    BY ONLY <2>1, Powers
  <2> QED
    BY ONLY <2>1, <2>2
<1>2. q <= r /\ r \in Nat
  <2>1. 24 \in 0..30 /\ 30 \in 0..31 /\ 30 \in 0..30
    OBVIOUS
  <2>2. 2 ^ 24 <= 2 ^ 30
    BY ONLY <2>1, PowersGrow
  <2>3. 2 ^ 30 \in Nat \ {0}
    BY ONLY <2>1, Powers
  <2> QED
    BY ONLY <2>2, <2>3
<1>3. v \in (1 - p)..(p - 1)
  BY DEF Differences
<1> HIDE DEF p, q, r
<1>4. v \in Int
  BY <1>1, <1>3
<1>5. c + 1 < q /\ c + 1 < r
  BY ONLY <1>1, <1>2, <1>3, c = IF v > 0 THEN 2 * v - 1 ELSE -2 * v
<1>6. c \in Nat /\ Se(v) = Ue(c)
  BY ONLY <1>4, c = IF v > 0 THEN 2 * v - 1 ELSE -2 * v, SignedCode
<1> QED
  BY <1>4, <1>5, <1>6 DEF q, r

LEMMA ReadsSe ==
  ASSUME NEW g \in Context, NEW v \in Differences, Ahead(g, Se(v))
  PROVE  /\ Se(v) \in Seq(Bit)
         /\ Reads(g, get_se_golomb(g), Se(v))
         /\ get_se_golomb(g).value = v
<1>1. PICK c : c = IF v > 0 THEN 2 * v - 1 ELSE -2 * v
  OBVIOUS
<1>2. c \in Nat /\ c + 1 < 2 ^ 24 /\ c + 1 < 2 ^ 30 /\ Se(v) = Ue(c) /\ v \in Int
  BY <1>1, DifferenceCode
<1>3. Se(v) \in Seq(Bit)
  BY <1>2, UeParts
<1>4. get_se_golomb(g) \in Context /\ get_se_golomb(g).bits = g.bits
  BY GetSeType
<1>5. get_se_golomb(g).value = v /\ get_se_golomb(g).index = g.index + Len(Se(v))
  BY <1>1, <1>2, GetSeExact
<1> QED
  BY <1>3, <1>4, <1>5 DEF Reads

(* The same behind what has been read. *)
LEMMA UeType ==
  ASSUME NEW v \in Nat, v + 1 < 2 ^ 30
  PROVE  Ue(v) \in Seq(Bit)
BY UeParts

LEMMA BinaryType ==
  ASSUME NEW n \in 0..30, NEW v \in Nat, v < 2 ^ n
  PROVE  Binary(n, v) \in Seq(Bit)
BY NumberBinary

LEMMA NextBits ==
  ASSUME NEW g, NEW h, NEW s \in Seq(Bit), Reads(g, h, s), NEW n \in 0..MIN_CACHE_BITS, NEW v \in Nat, v < 2 ^ n,
         Ahead(g, s \o Binary(n, v))
  PROVE  /\ Reads(g, get_bits(h, n), s \o Binary(n, v))
         /\ get_bits(h, n).value = v
<1>1. Binary(n, v) \in Seq(Bit)
  <2>1. n \in 0..30
    BY DEF MIN_CACHE_BITS
  <2> QED
    BY <2>1, BinaryType
<1>2. Ahead(h, Binary(n, v)) /\ (\A k : Reads(h, k, Binary(n, v)) => Reads(g, k, s \o Binary(n, v)))
  BY <1>1, ReadsNext
<1>3. h \in Context
  BY DEF Reads
<1>4. Reads(h, get_bits(h, n), Binary(n, v)) /\ get_bits(h, n).value = v
  BY <1>2, <1>3, ReadsBits
<1> QED
  BY <1>2, <1>4

LEMMA NextBit ==
  ASSUME NEW g, NEW h, NEW s \in Seq(Bit), Reads(g, h, s), NEW v \in Bit,
         Ahead(g, s \o <<v>>)
  PROVE  /\ Reads(g, get_bits1(h), s \o <<v>>)
         /\ get_bits1(h).value = v
<1>1. <<v>> \in Seq(Bit)
  OBVIOUS
<1>2. Ahead(h, <<v>>) /\ (\A k : Reads(h, k, <<v>>) => Reads(g, k, s \o <<v>>))
  BY <1>1, ReadsNext
<1>3. h \in Context
  BY DEF Reads
<1>4. Reads(h, get_bits1(h), <<v>>) /\ get_bits1(h).value = v
  BY <1>2, <1>3, ReadsBit
<1> QED
  BY <1>2, <1>4

LEMMA NextUe ==
  ASSUME NEW g, NEW h, NEW s \in Seq(Bit), Reads(g, h, s), NEW v \in Nat, v + 1 < 8192,
         Ahead(g, s \o Ue(v))
  PROVE  /\ Reads(g, get_ue_golomb(h), s \o Ue(v))
         /\ get_ue_golomb(h).value = v
<1>1. Ue(v) \in Seq(Bit)
  BY UeType
<1>2. Ahead(h, Ue(v)) /\ (\A k : Reads(h, k, Ue(v)) => Reads(g, k, s \o Ue(v)))
  BY <1>1, ReadsNext
<1>3. h \in Context
  BY DEF Reads
<1>4. Reads(h, get_ue_golomb(h), Ue(v)) /\ get_ue_golomb(h).value = v
  BY <1>2, <1>3, ReadsUe
<1> QED
  BY <1>2, <1>4

LEMMA NextUe31 ==
  ASSUME NEW g, NEW h, NEW s \in Seq(Bit), Reads(g, h, s), NEW v \in Nat, v + 1 < 32,
         Ahead(g, s \o Ue(v))
  PROVE  /\ Reads(g, get_ue_golomb_31(h), s \o Ue(v))
<1>1. Ue(v) \in Seq(Bit)
  BY UeType
<1>2. Ahead(h, Ue(v)) /\ (\A k : Reads(h, k, Ue(v)) => Reads(g, k, s \o Ue(v)))
  BY <1>1, ReadsNext
<1>3. h \in Context
  BY DEF Reads
<1>4. Reads(h, get_ue_golomb_31(h), Ue(v))
  BY <1>2, <1>3, ReadsUe31
<1> QED
  BY <1>2, <1>4

LEMMA SeType ==
  ASSUME NEW v \in Differences
  PROVE  Se(v) \in Seq(Bit)
<1>1. PICK c : c = IF v > 0 THEN 2 * v - 1 ELSE -2 * v
  OBVIOUS
<1>2. c \in Nat /\ c + 1 < 2 ^ 30 /\ Se(v) = Ue(c)
  BY <1>1, DifferenceCode
<1> QED
  BY <1>2, UeParts

LEMMA NextSe ==
  ASSUME NEW g, NEW h, NEW s \in Seq(Bit), Reads(g, h, s), NEW v \in Differences,
         Ahead(g, s \o Se(v))
  PROVE  /\ Reads(g, get_se_golomb(h), s \o Se(v))
         /\ get_se_golomb(h).value = v
<1>1. Se(v) \in Seq(Bit)
  BY SeType
<1>2. Ahead(h, Se(v)) /\ (\A k : Reads(h, k, Se(v)) => Reads(g, k, s \o Se(v)))
  BY <1>1, ReadsNext
<1>3. h \in Context
  BY DEF Reads
<1>4. Reads(h, get_se_golomb(h), Se(v)) /\ get_se_golomb(h).value = v
  BY <1>2, <1>3, ReadsSe
<1> QED
  BY <1>2, <1>4

LEMMA NextInferred ==
  ASSUME NEW g, NEW h, NEW s \in Seq(Bit), Reads(g, h, s), NEW v \in Int
  PROVE  /\ Reads(g, Inferred(h, v), s)
         /\ Inferred(h, v).value = v
<1>1. h \in Context /\ h.bits = g.bits /\ h.index = g.index + Len(s) /\ g \in Context
  BY DEF Reads
<1> QED
  BY <1>1, InferredType DEF Reads

-----------------------------------------------------------------------------
(* The access units *)

Nals == UNION Encoders

AccessUnit == [nalus : Seq(Nals), slices : Nat, key : {"IDR", "non-IDR", "unset"}]

(* What a step hands on: see Current. *)
Grouping == [au : AccessUnit, aus : Seq(AccessUnit), pending : BOOLEAN]

(* An access unit counts its slices, and its flag says which they are. *)
SlicesOf(nalus) == {j \in DOMAIN nalus : IsSlice(nalus[j])}

Flagged(au) ==
  /\ au.slices = Cardinality(SlicesOf(au.nalus))
  /\ au.key = "unset" <=> au.slices = 0
  /\ \A j \in SlicesOf(au.nalus) : au.nalus[j].type = SLICE_IDR <=> au.key = "IDR"

(* One that is finished has a slice; the one being collected has none until *)
(* its first, and then always.                                              *)
FlaggedUnits(u) ==
  /\ Flagged(u.au)
  /\ \A i \in DOMAIN u.aus : Flagged(u.aus[i]) /\ u.aus[i].slices > 0
  /\ u.pending => u.au.slices = 0
  /\ u.au.nalus # <<>> => u.pending \/ u.au.slices > 0

(* The NAL units in it, in their order. *)
NalusOf(aus) == [i \in DOMAIN aus |-> aus[i].nalus]
Contents(u) == FlattenSeq(NalusOf(u.aus)) \o u.au.nalus

-----------------------------------------------------------------------------
(* What is handed on is well typed. *)
LEMMA GroupingTypes ==
  ASSUME NEW u \in Grouping, NEW nal \in Nals
  PROVE  /\ NewAU \in AccessUnit
         /\ Finish(u) \in Grouping
         /\ SetPending(u) \in Grouping
         /\ FinishNalu(nal, u) \in Grouping
         /\ [u EXCEPT !.pending = FALSE] \in Grouping
<1>1. NewAU \in AccessUnit
  BY DEF NewAU, AccessUnit
<1>2. Finish(u) \in Grouping
  <2>1. Append(u.aus, u.au) \in Seq(AccessUnit)
    BY DEF Grouping
  <2>2. [u EXCEPT !.aus = Append(@, u.au), !.au = NewAU] \in Grouping
    BY <1>1, <2>1 DEF Grouping
  <2> QED
    BY <2>2 DEF Finish
<1>3. SetPending(u) \in Grouping
  <2>1. [Finish(u) EXCEPT !.pending = TRUE] \in Grouping
    BY <1>2 DEF Grouping
  <2> QED
    BY <2>1 DEF SetPending
<1>4. FinishNalu(nal, u) \in Grouping
  <2>1. u.au \in AccessUnit
    BY DEF Grouping
  <2> DEFINE slices == IF IsSlice(nal) THEN u.au.slices + 1 ELSE u.au.slices
             key == IF ~IsSlice(nal) THEN u.au.key
                    ELSE IF nal.type = SLICE_IDR THEN "IDR" ELSE "non-IDR"
  <2>2. Append(u.au.nalus, nal) \in Seq(Nals) /\ slices \in Nat
        /\ key \in {"IDR", "non-IDR", "unset"}
    BY <2>1 DEF AccessUnit
  <2> HIDE DEF slices, key
  <2>3. [u.au EXCEPT !.nalus = Append(u.au.nalus, nal), !.slices = slices, !.key = key] \in AccessUnit
    BY <2>1, <2>2 DEF AccessUnit
  <2>4. FinishNalu(nal, u) =
          [u EXCEPT !.au = [u.au EXCEPT !.nalus = Append(u.au.nalus, nal),
                                        !.slices = slices, !.key = key]]
    BY <2>1 DEF FinishNalu, slices, key, Grouping, AccessUnit
  <2> QED
    BY <2>3, <2>4 DEF Grouping
<1>5. [u EXCEPT !.pending = FALSE] \in Grouping
  BY DEF Grouping
<1> QED
  BY <1>1, <1>2, <1>3, <1>4, <1>5

(* What the operators do to the components. *)
LEMMA GroupingSteps ==
  ASSUME NEW u \in Grouping, NEW nal \in Nals
  PROVE  /\ Finish(u).pending = u.pending
         /\ u.au.nalus = <<>> => Finish(u) = u
         /\ u.au.nalus # <<>> => Finish(u).aus = Append(u.aus, u.au) /\ Finish(u).au = NewAU
         /\ SetPending(u).pending
         /\ u.pending => SetPending(u) = u
         /\ ~u.pending => SetPending(u).aus = Finish(u).aus /\ SetPending(u).au = Finish(u).au
         /\ FinishNalu(nal, u).aus = u.aus
         /\ FinishNalu(nal, u).pending = u.pending
         /\ FinishNalu(nal, u).au.nalus = Append(u.au.nalus, nal)
         /\ ~IsSlice(nal) => /\ FinishNalu(nal, u).au.slices = u.au.slices
                             /\ FinishNalu(nal, u).au.key = u.au.key
         /\ IsSlice(nal) =>
              /\ FinishNalu(nal, u).au.slices = u.au.slices + 1
              /\ FinishNalu(nal, u).au.key = IF nal.type = SLICE_IDR THEN "IDR" ELSE "non-IDR"
<1>1. /\ Finish(u).pending = u.pending
      /\ u.au.nalus = <<>> => Finish(u) = u
      /\ u.au.nalus # <<>> => Finish(u).aus = Append(u.aus, u.au) /\ Finish(u).au = NewAU
  BY DEF Finish, Grouping
<1>2. /\ SetPending(u).pending
      /\ u.pending => SetPending(u) = u
      /\ ~u.pending => SetPending(u).aus = Finish(u).aus /\ SetPending(u).au = Finish(u).au
  <2>1. Finish(u) \in Grouping
    BY GroupingTypes
  <2> QED
    BY <2>1 DEF SetPending, Grouping
<1>3. /\ FinishNalu(nal, u).aus = u.aus
      /\ FinishNalu(nal, u).pending = u.pending
      /\ FinishNalu(nal, u).au.nalus = Append(u.au.nalus, nal)
      /\ ~IsSlice(nal) => /\ FinishNalu(nal, u).au.slices = u.au.slices
                          /\ FinishNalu(nal, u).au.key = u.au.key
      /\ IsSlice(nal) =>
           /\ FinishNalu(nal, u).au.slices = u.au.slices + 1
           /\ FinishNalu(nal, u).au.key = IF nal.type = SLICE_IDR THEN "IDR" ELSE "non-IDR"
  <2>1. u.au \in AccessUnit
    BY DEF Grouping
  <2> QED
    BY <2>1 DEF FinishNalu, Grouping, AccessUnit
<1> QED
  BY <1>1, <1>2, <1>3

-----------------------------------------------------------------------------
LEMMA SlicesGrow ==
  ASSUME NEW nalus \in Seq(Nals), NEW nal \in Nals
  PROVE  /\ IsFiniteSet(SlicesOf(nalus)) /\ Cardinality(SlicesOf(nalus)) \in Nat
         /\ SlicesOf(<<>>) = {}
         /\ ~IsSlice(nal) => SlicesOf(Append(nalus, nal)) = SlicesOf(nalus)
         /\ IsSlice(nal) =>
              /\ SlicesOf(Append(nalus, nal)) = SlicesOf(nalus) \cup {Len(nalus) + 1}
              /\ Cardinality(SlicesOf(Append(nalus, nal))) = Cardinality(SlicesOf(nalus)) + 1
<1> DEFINE n == Len(nalus)
           more == Append(nalus, nal)
<1>1. /\ n \in Nat /\ DOMAIN nalus = 1..n /\ DOMAIN more = 1..(n + 1)
      /\ more[n + 1] = nal /\ \A i \in 1..n : more[i] = nalus[i]
  OBVIOUS
<1>2. IsFiniteSet(SlicesOf(nalus))
  <2>1. IsFiniteSet(1..n)
    BY <1>1, FS_Interval
  <2>2. SlicesOf(nalus) \subseteq 1..n
    BY <1>1 DEF SlicesOf
  <2> QED
    BY <2>1, <2>2, FS_Subset
<1>3. Cardinality(SlicesOf(nalus)) \in Nat
  BY <1>2, FS_CardinalityType
<1>4. SlicesOf(<<>>) = {}
  BY DEF SlicesOf
<1> HIDE DEF more
<1>5. ~IsSlice(nal) => SlicesOf(more) = SlicesOf(nalus)
  BY <1>1 DEF SlicesOf
<1>6. IsSlice(nal) => SlicesOf(more) = SlicesOf(nalus) \cup {n + 1}
  BY <1>1 DEF SlicesOf
<1>7. n + 1 \notin SlicesOf(nalus)
  BY <1>1 DEF SlicesOf
<1>8. IsSlice(nal) => Cardinality(SlicesOf(more)) = Cardinality(SlicesOf(nalus)) + 1
  BY <1>2, <1>6, <1>7, FS_AddElement
<1> QED
  BY <1>2, <1>3, <1>4, <1>5, <1>6, <1>8 DEF more

(* One more that is no slice leaves the flag right. *)
LEMMA FlaggedOther ==
  ASSUME NEW u \in Grouping, NEW nal \in Nals, Flagged(u.au), ~IsSlice(nal)
  PROVE  Flagged(FinishNalu(nal, u).au)
<1> DEFINE au == u.au
           more == FinishNalu(nal, u).au
<1>1. au.nalus \in Seq(Nals)
  BY DEF Grouping, AccessUnit
<1>2. /\ more.nalus = Append(au.nalus, nal)
      /\ more.slices = au.slices /\ more.key = au.key
  BY GroupingSteps
<1>3. SlicesOf(more.nalus) = SlicesOf(au.nalus)
  BY <1>1, <1>2, SlicesGrow
<1>4. \A j \in SlicesOf(au.nalus) : more.nalus[j] = au.nalus[j]
  BY <1>1, <1>2 DEF SlicesOf
<1> QED
  BY <1>2, <1>3, <1>4 DEF Flagged

(* One more slice: the flag is that of the last. *)
LEMMA FlaggedSlice ==
  ASSUME NEW u \in Grouping, NEW nal \in Nals, Flagged(u.au), IsSlice(nal),
         u.au.slices > 0 => (nal.type = SLICE_IDR <=> u.au.key = "IDR")
  PROVE  Flagged(FinishNalu(nal, u).au) /\ FinishNalu(nal, u).au.slices > 0
<1> DEFINE au == u.au
           more == FinishNalu(nal, u).au
           n == Len(au.nalus)
<1>1. au.nalus \in Seq(Nals) /\ au.slices \in Nat /\ au.key \in {"IDR", "non-IDR", "unset"}
  BY DEF Grouping, AccessUnit
<1>2. /\ more.nalus = Append(au.nalus, nal)
      /\ more.slices = au.slices + 1
      /\ more.key = IF nal.type = SLICE_IDR THEN "IDR" ELSE "non-IDR"
  BY GroupingSteps
<1>3. /\ SlicesOf(more.nalus) = SlicesOf(au.nalus) \cup {n + 1}
      /\ Cardinality(SlicesOf(more.nalus)) = Cardinality(SlicesOf(au.nalus)) + 1
  BY <1>1, <1>2, SlicesGrow
<1>4. more.nalus[n + 1] = nal
  BY <1>1, <1>2
<1>5. ASSUME NEW j \in SlicesOf(au.nalus)
      PROVE  more.nalus[j].type = SLICE_IDR <=> more.key = "IDR"
  <2>1. more.nalus[j] = au.nalus[j]
    BY <1>1, <1>2 DEF SlicesOf
  <2>2. au.slices > 0
    <3>1. IsFiniteSet(SlicesOf(au.nalus))
      BY <1>1, SlicesGrow
    <3>2. Cardinality(SlicesOf(au.nalus)) # 0
      BY <3>1, FS_EmptySet
    <3> QED
      BY <1>1, <3>2 DEF Flagged
  <2>3. au.nalus[j].type = SLICE_IDR <=> au.key = "IDR"
    BY DEF Flagged
  <2>4. nal.type = SLICE_IDR <=> au.key = "IDR"
    BY <2>2
  <2> QED
    BY <1>2, <2>1, <2>3, <2>4
<1>6. more.slices > 0 /\ more.key # "unset"
  BY <1>1, <1>2
<1>7. more.slices = Cardinality(SlicesOf(more.nalus))
  BY <1>2, <1>3 DEF Flagged
<1>8. \A j \in SlicesOf(more.nalus) : more.nalus[j].type = SLICE_IDR <=> more.key = "IDR"
  BY <1>2, <1>3, <1>4, <1>5
<1> QED
  BY <1>6, <1>7, <1>8 DEF Flagged

(* The steps keep what FlaggedUnits says. *)
LEMMA SetPendingFlags ==
  ASSUME NEW u \in Grouping, FlaggedUnits(u)
  PROVE  FlaggedUnits(SetPending(u))
<1> DEFINE v == SetPending(u)
<1>1. CASE u.pending
  <2>1. v = u
    BY <1>1 DEF SetPending
  <2> QED
    BY <2>1
<1>2. CASE ~u.pending /\ u.au.nalus = <<>>
  <2>1. v.pending /\ v.aus = u.aus /\ v.au = u.au
    BY <1>2 DEF SetPending, Finish, Grouping
  <2>2. u.au.slices = 0
    <3>1. SlicesOf(u.au.nalus) = {}
      BY <1>2 DEF SlicesOf
    <3> QED
      BY <3>1, FS_EmptySet DEF FlaggedUnits, Flagged
  <2> QED
    BY <2>1, <2>2 DEF FlaggedUnits
<1>3. CASE ~u.pending /\ u.au.nalus # <<>>
  <2>1. v.pending /\ v.aus = Append(u.aus, u.au) /\ v.au = NewAU
    BY <1>3 DEF SetPending, Finish, Grouping
  <2>2. Flagged(u.au) /\ u.au.slices > 0
    BY <1>3 DEF FlaggedUnits
  <2>3. Flagged(NewAU)
    <3>1. SlicesOf(<<>>) = {}
      BY DEF SlicesOf
    <3> QED
      BY <3>1, FS_EmptySet DEF Flagged, NewAU
  <2>4. \A i \in DOMAIN v.aus : Flagged(v.aus[i]) /\ v.aus[i].slices > 0
    <3>1. u.aus \in Seq(AccessUnit)
      BY DEF Grouping
    <3>2. /\ DOMAIN v.aus = 1..(Len(u.aus) + 1) /\ v.aus[Len(u.aus) + 1] = u.au
          /\ \A i \in DOMAIN u.aus : v.aus[i] = u.aus[i]
          /\ DOMAIN u.aus = 1..Len(u.aus) /\ Len(u.aus) \in Nat
      BY <2>1, <3>1
    <3>3. \A i \in DOMAIN u.aus : Flagged(u.aus[i]) /\ u.aus[i].slices > 0
      BY DEF FlaggedUnits
    <3> HIDE DEF v
    <3> QED
      BY <2>2, <3>2, <3>3
  <2>5. v.au.slices = 0 /\ v.au.nalus = <<>>
    BY <2>1 DEF NewAU
  <2> QED
    BY <2>1, <2>3, <2>4, <2>5 DEF FlaggedUnits
<1> QED
  BY <1>1, <1>2, <1>3

LEMMA FinishNaluFlags ==
  ASSUME NEW u \in Grouping, NEW nal \in Nals, FlaggedUnits(u), ~IsSlice(nal),
         u.pending \/ u.au.nalus # <<>>
  PROVE  FlaggedUnits(FinishNalu(nal, u))
<1> DEFINE v == FinishNalu(nal, u)
<1>1. /\ v.aus = u.aus /\ v.pending = u.pending
      /\ v.au.slices = u.au.slices
  BY GroupingSteps
<1>2. Flagged(v.au)
  BY FlaggedOther DEF FlaggedUnits
<1> HIDE DEF v
<1>3. \A i \in DOMAIN v.aus : Flagged(v.aus[i]) /\ v.aus[i].slices > 0
  BY <1>1 DEF FlaggedUnits
<1>4. v.pending => v.au.slices = 0
  BY <1>1 DEF FlaggedUnits
<1>5. v.pending \/ v.au.slices > 0
  BY <1>1 DEF FlaggedUnits
<1> QED
  BY <1>2, <1>3, <1>4, <1>5 DEF FlaggedUnits, v

LEMMA FinishSliceFlags ==
  ASSUME NEW u \in Grouping, NEW nal \in Nals, FlaggedUnits(u), IsSlice(nal),
         u.au.slices > 0 => (nal.type = SLICE_IDR <=> u.au.key = "IDR")
  PROVE  LET v == FinishNalu(nal, [u EXCEPT !.pending = FALSE])
         IN /\ FlaggedUnits(v) /\ ~v.pending /\ v.au.slices > 0
            /\ nal.type = SLICE_IDR <=> v.au.key = "IDR"
<1> DEFINE w == [u EXCEPT !.pending = FALSE]
           v == FinishNalu(nal, w)
<1>1. w \in Grouping /\ w.aus = u.aus /\ w.au = u.au /\ w.pending = FALSE
  BY DEF Grouping
<1> HIDE DEF w
<1>2. v.aus = w.aus /\ v.pending = w.pending
      /\ v.au.key = IF nal.type = SLICE_IDR THEN "IDR" ELSE "non-IDR"
  BY <1>1, GroupingSteps
<1>3. Flagged(v.au) /\ v.au.slices > 0
  BY <1>1, FlaggedSlice DEF FlaggedUnits
<1> HIDE DEF v
<1>4. FlaggedUnits(v)
  BY <1>1, <1>2, <1>3 DEF FlaggedUnits
<1>5. ~v.pending /\ (nal.type = SLICE_IDR <=> v.au.key = "IDR")
  BY <1>1, <1>2
<1> QED
  BY <1>3, <1>4, <1>5 DEF v, w

-----------------------------------------------------------------------------
(* How a parameter set or a header is parsed, one element after the other. *)
ParseStep(type, names, k, before) ==
  LET gb == Element(type, names[k], before.gb, before.e)
  IN [gb |-> gb, e |-> With(before.e, names[k], gb.value)]

Parsing(f, n, type, names, base) ==
  /\ f = [k \in 0..n |-> f[k]]
  /\ f[0] = base
  /\ \A k \in 1..n : f[k] = ParseStep(type, names, k, f[k - 1])

LEMMA ParsingExists ==
  ASSUME NEW n \in Nat, NEW type, NEW names, NEW base
  PROVE  \E f : Parsing(f, n, type, names, base)
<1> DEFINE S == {m \in 0..n : \E f : Parsing(f, m, type, names, base)}
<1>1. 0 \in S
  <2>1. Parsing([k \in 0..0 |-> base], 0, type, names, base)
    BY DEF Parsing
  <2> QED
    BY <2>1
<1>2. ASSUME NEW m \in 1..n, m - 1 \in S
      PROVE  m \in S
  <2>1. PICK f : Parsing(f, m - 1, type, names, base)
    BY <1>2
  <2> DEFINE g == [k \in 0..m |-> IF k = m THEN ParseStep(type, names, m, f[m - 1]) ELSE f[k]]
  <2>2. g = [k \in 0..m |-> g[k]] /\ g[0] = base
    BY <2>1 DEF Parsing
  <2>3. ASSUME NEW k \in 1..m
        PROVE  g[k] = ParseStep(type, names, k, g[k - 1])
    <3>1. g[k - 1] = f[k - 1]
      OBVIOUS
    <3>2. CASE k = m
      BY <3>1, <3>2
    <3>3. CASE k # m
      <4>1. k \in 1..(m - 1) /\ g[k] = f[k]
        BY <3>3
      <4>2. f[k] = ParseStep(type, names, k, f[k - 1])
        BY <2>1, <4>1 DEF Parsing
      <4> HIDE DEF g
      <4> QED
        BY ONLY <3>1, <4>1, <4>2
    <3> QED
      BY <3>2, <3>3
  <2> HIDE DEF g
  <2>4. Parsing(g, m, type, names, base)
    BY <2>2, <2>3 DEF Parsing
  <2> QED
    BY <2>4
<1> HIDE DEF S
<1>3. \A k \in 0..n : k \in S
  BY ONLY <1>1, <1>2, n \in Nat, BoundedInduction
<1> QED
  BY <1>3 DEF S

(* What is parsed is the result of such a sequence of steps. *)
LEMMA ParsedIs ==
  ASSUME NEW type, NEW names, NEW old, NEW bits, Len(names) \in Nat
  PROVE  \E f : /\ Parsing(f, Len(names), type, names,
                          [gb |-> init_get_bits(bits), e |-> old])
               /\ Parsed(type, names, old, bits)
                    = [x \in DOMAIN old |-> f[Len(names)].e[x]]
<1> DEFINE base == [gb |-> init_get_bits(bits), e |-> old]
           n == Len(names)
           Upto(g) ==
             g = [i \in 0..n |->
                   IF i = 0 THEN [gb |-> init_get_bits(bits), e |-> old]
                   ELSE LET before == g[i - 1]
                            gb == Element(type, names[i], before.gb, before.e)
                        IN [gb |-> gb, e |-> With(before.e, names[i], gb.value)]]
           upto == CHOOSE g : Upto(g)
<1>1. n \in Nat
  OBVIOUS
<1>2. PICK f : Parsing(f, n, type, names, base)
  BY ONLY <1>1, ParsingExists
<1>3. Parsed(type, names, old, bits) = [x \in DOMAIN old |-> upto[n].e[x]]
  BY DEF Parsed
<1> HIDE DEF n
<1>4. \A g : Upto(g) <=> Parsing(g, n, type, names, base)
  <2> TAKE g
  <2>1. ASSUME Upto(g)
        PROVE  Parsing(g, n, type, names, base)
    <3>1. g = [i \in 0..n |-> g[i]]
      BY ONLY <2>1
    <3>2. 0 \in 0..n /\ \A k \in 1..n : k \in 0..n /\ k # 0
      BY <1>1
    <3>3. g[0] = base
      BY ONLY <2>1, <3>2
    <3>4. ASSUME NEW k \in 1..n
          PROVE  g[k] = ParseStep(type, names, k, g[k - 1])
      BY ONLY <2>1, <3>2, k \in 1..n DEF ParseStep
    <3> QED
      BY ONLY <3>1, <3>3, <3>4 DEF Parsing
  <2>2. ASSUME Parsing(g, n, type, names, base)
        PROVE  Upto(g)
    <3>1. \A i \in 0..n : i # 0 => i \in 1..n
      BY <1>1
    <3>2. \A i \in 0..n :
            g[i] = IF i = 0 THEN [gb |-> init_get_bits(bits), e |-> old]
                   ELSE LET before == g[i - 1]
                            gb == Element(type, names[i], before.gb, before.e)
                        IN [gb |-> gb, e |-> With(before.e, names[i], gb.value)]
      BY ONLY <2>2, <3>1 DEF Parsing, ParseStep
    <3>3. g = [i \in 0..n |-> g[i]]
      BY ONLY <2>2 DEF Parsing
    <3> QED
      BY ONLY <3>2, <3>3
  <2> QED
    BY <2>1, <2>2
<1> HIDE DEF base
<1>5. Parsing(upto, n, type, names, base)
  <2>1. Upto(upto)
    <3> HIDE DEF Upto
    <3> QED
      BY <1>2, <1>4
  <2> HIDE DEF Upto, upto
  <2> QED
    BY <1>4, <2>1
<1> HIDE DEF upto
<1> QED
  BY <1>3, <1>5 DEF n, base

-----------------------------------------------------------------------------
(* What the elements are that are read over: the scaling lists.            *)
Scan == [at : Context, last : Int, next : Int]

ScanStep(before) ==
  LET delta == get_se_golomb(before.at)
      scale == (before.last + delta.value + 256) % 256
  IN IF before.next = 0 THEN before
     ELSE [at |-> delta, next |-> scale,
           last |-> IF scale = 0 THEN before.last ELSE scale]

LEMMA ScanStepType ==
  ASSUME NEW before \in Scan
  PROVE  ScanStep(before) \in Scan
<1> DEFINE delta == get_se_golomb(before.at)
           scale == (before.last + delta.value + 256) % 256
<1>1. before.at \in Context /\ before.last \in Int /\ before.next \in Int
  BY DEF Scan
<1>2. delta \in Context /\ delta.value \in Int
  <2>1. delta \in Context
    BY <1>1, GetSeType
  <2> QED
    BY <2>1 DEF Context
<1>3. scale \in Int
  <2> DEFINE v == before.last + delta.value + 256
  <2>1. v \in Int
    BY <1>1, <1>2
  <2> HIDE DEF v
  <2>2. v % 256 \in Int
    BY <2>1
  <2> QED
    BY <2>2 DEF v
<1> DEFINE after == [at |-> delta, next |-> scale,
                     last |-> IF scale = 0 THEN before.last ELSE scale]
<1>4. ScanStep(before) = IF before.next = 0 THEN before ELSE after
  BY DEF ScanStep
<1> HIDE DEF delta, scale
<1>5. after \in Scan
  BY <1>1, <1>2, <1>3 DEF Scan
<1> QED
  BY <1>4, <1>5

LEMMA AfterListIs ==
  ASSUME NEW gb \in Context, NEW n \in Nat
  PROVE  \E f \in [0..n -> Scan] :
           /\ f[0] = [at |-> gb, last |-> 8, next |-> 8]
           /\ \A k \in 1..n : f[k] = ScanStep(f[k - 1])
           /\ AfterList(gb, n) = f[n].at
<1> DEFINE base == [at |-> gb, last |-> 8, next |-> 8]
           F == [k \in 1..n |-> [s \in Scan |-> ScanStep(s)]]
           Upto(g) ==
             g = [i \in 0..n |->
                   IF i = 0 THEN [at |-> gb, last |-> 8, next |-> 8]
                   ELSE LET before == g[i - 1]
                            delta == get_se_golomb(before.at)
                            scale == (before.last + delta.value + 256) % 256
                        IN IF before.next = 0 THEN before
                           ELSE [at |-> delta, next |-> scale,
                                 last |-> IF scale = 0 THEN before.last ELSE scale]]
           upto == CHOOSE g : Upto(g)
<1>1. AfterList(gb, n) = upto[n].at
  BY DEF AfterList
<1>2. base \in Scan
  BY DEF Scan
<1>3. F \in [1..n -> [Scan -> Scan]]
  BY ScanStepType
<1>4. PICK f : f \in [0..n -> Scan] /\ Recursive(f, n, base, F)
  <2> HIDE DEF F, base
  <2> QED
    BY ONLY <1>2, <1>3, n \in Nat, RecursiveExists
<1>5. f[0] = base /\ \A k \in 1..n : f[k] = ScanStep(f[k - 1])
  <2>1. f[0] = base /\ \A k \in 1..n : f[k] = F[k][f[k - 1]]
    BY <1>4 DEF Recursive
  <2>2. \A k \in 1..n : f[k - 1] \in Scan
    BY <1>4
  <2> QED
    BY <2>1, <2>2
<1>6. \A g : Upto(g) <=> /\ g = [i \in 0..n |-> g[i]]
                         /\ g[0] = base
                         /\ \A k \in 1..n : g[k] = ScanStep(g[k - 1])
  <2> TAKE g
  <2>1. 0 \in 0..n /\ (\A i \in 1..n : i \in 0..n /\ i # 0) /\ (\A i \in 0..n : i # 0 => i \in 1..n)
    OBVIOUS
  <2>2. ASSUME Upto(g)
        PROVE  /\ g = [i \in 0..n |-> g[i]]
               /\ g[0] = base
               /\ \A k \in 1..n : g[k] = ScanStep(g[k - 1])
    <3>1. g = [i \in 0..n |-> g[i]]
      BY ONLY <2>2
    <3>2. g = [i \in 0..n |-> IF i = 0 THEN base ELSE ScanStep(g[i - 1])]
      BY ONLY <2>2, Zenon DEF ScanStep
    <3> HIDE DEF Upto, base
    <3>3. \A i \in 0..n : g[i] = IF i = 0 THEN base ELSE ScanStep(g[i - 1])
      BY ONLY <3>2
    <3> QED
      BY ONLY <2>1, <3>1, <3>3
  <2>3. ASSUME g = [i \in 0..n |-> g[i]], g[0] = base,
               \A k \in 1..n : g[k] = ScanStep(g[k - 1])
        PROVE  Upto(g)
    <3>1. \A i \in 0..n : g[i] = IF i = 0 THEN base ELSE ScanStep(g[i - 1])
      BY ONLY <2>1, <2>3
    <3>2. g = [i \in 0..n |-> IF i = 0 THEN base ELSE ScanStep(g[i - 1])]
      BY ONLY <2>3, <3>1
    <3> QED
      BY ONLY <3>2, Zenon DEF ScanStep
  <2> QED
    BY ONLY <2>2, <2>3
<1>7. Upto(upto)
  <2>1. f = [i \in 0..n |-> f[i]]
    BY <1>4
  <2> HIDE DEF Upto, base
  <2>2. Upto(f)
    BY ONLY <1>5, <1>6, <2>1
  <2> QED
    BY ONLY <2>2
<1> HIDE DEF Upto, upto
<1>8. upto[0] = base /\ \A k \in 1..n : upto[k] = ScanStep(upto[k - 1])
  BY ONLY <1>6, <1>7
<1>9. \A k \in 0..n : upto[k] = f[k]
  <2>1. \A k \in 1..n : upto[k - 1] = f[k - 1] => upto[k] = f[k]
    BY ONLY <1>5, <1>8
  <2>2. upto[0] = f[0]
    BY ONLY <1>5, <1>8
  <2> QED
    BY ONLY <2>1, <2>2, n \in Nat, AgreeUpto
<1>10. n \in 0..n
  OBVIOUS
<1> QED
  BY <1>1, <1>4, <1>5, <1>9, <1>10

LEMMA ScalesIs ==
  ASSUME NEW deltas \in Seq(Int)
  PROVE  /\ Scales(deltas)[0] = 8
         /\ \A k \in 0..Len(deltas) : Scales(deltas)[k] \in Int
         /\ \A k \in 1..Len(deltas) :
              Scales(deltas)[k] = (Scales(deltas)[k - 1] + deltas[k]) % 256
<1> DEFINE n == Len(deltas)
           F == [k \in 1..n |-> [s \in Int |-> (s + deltas[k]) % 256]]
           Upto(g) ==
             g = [i \in 0..n |-> IF i = 0 THEN 8 ELSE (g[i - 1] + deltas[i]) % 256]
           upto == CHOOSE g : Upto(g)
<1>1. Scales(deltas) = upto
  BY DEF Scales
<1>2. n \in Nat /\ 8 \in Int
  OBVIOUS
<1>3. F \in [1..n -> [Int -> Int]]
  <2>1. ASSUME NEW k \in 1..n, NEW s \in Int
        PROVE  (s + deltas[k]) % 256 \in Int
    <3> DEFINE v == s + deltas[k]
    <3>1. v \in Int
      OBVIOUS
    <3> HIDE DEF v
    <3>2. v % 256 \in Int
      BY <3>1
    <3> QED
      BY <3>2 DEF v
  <2> QED
    BY <2>1
<1> HIDE DEF n
<1>4. PICK f : f \in [0..n -> Int] /\ Recursive(f, n, 8, F)
  <2> HIDE DEF F
  <2> QED
    BY ONLY <1>2, <1>3, RecursiveExists
<1>5. f[0] = 8 /\ \A k \in 1..n : f[k] = (f[k - 1] + deltas[k]) % 256
  <2>1. f[0] = 8 /\ \A k \in 1..n : f[k] = F[k][f[k - 1]]
    BY <1>4 DEF Recursive
  <2>2. \A k \in 1..n : f[k - 1] \in Int
    BY <1>2, <1>4
  <2> QED
    BY <2>1, <2>2
<1>6. Upto(f)
  <2>1. f = [i \in 0..n |-> f[i]]
    BY <1>4
  <2>2. \A i \in 0..n : i # 0 => i \in 1..n
    BY <1>2
  <2>3. \A i \in 0..n : f[i] = IF i = 0 THEN 8 ELSE (f[i - 1] + deltas[i]) % 256
    BY ONLY <1>5, <2>2
  <2> QED
    BY ONLY <2>1, <2>3
<1>7. Upto(upto)
  <2> HIDE DEF Upto
  <2> QED
    BY ONLY <1>6
<1> HIDE DEF upto
<1>8. upto[0] = 8 /\ \A k \in 1..n : upto[k] = (upto[k - 1] + deltas[k]) % 256
  <2>1. 0 \in 0..n /\ (\A i \in 1..n : i \in 0..n /\ i # 0)
    BY <1>2
  <2> QED
    BY ONLY <1>7, <2>1
<1>9. \A k \in 0..n : upto[k] = f[k]
  <2>1. \A k \in 1..n : upto[k - 1] = f[k - 1] => upto[k] = f[k]
    BY ONLY <1>5, <1>8
  <2>2. upto[0] = f[0]
    BY ONLY <1>5, <1>8
  <2> QED
    BY ONLY <2>1, <2>2, <1>2, AgreeUpto
<1> QED
  BY ONLY <1>1, <1>4, <1>8, <1>9 DEF n

(* Codes that come one after the other. *)
LEMMA FlattenAhead ==
  ASSUME NEW seqs \in Seq(Seq(Bit)), NEW gb \in Context, Ahead(gb, FlattenSeq(seqs))
  PROVE  \E h \in [0..Len(seqs) -> Seq(Bit)] :
           /\ h[0] = <<>>
           /\ \A k \in 1..Len(seqs) : h[k] = h[k - 1] \o seqs[k]
           /\ FlattenSeq(seqs) = h[Len(seqs)]
           /\ \A k \in 0..Len(seqs) : Ahead(gb, h[k])
<1> DEFINE n == Len(seqs)
<1>1. PICK h \in [0..n -> Seq(Bit)] :
        /\ h[0] = <<>>
        /\ \A k \in 1..n : h[k] = h[k - 1] \o seqs[k]
        /\ FlattenSeq(seqs) = h[n]
  BY FlattenIs
<1>2. n \in Nat /\ \A k \in 1..n : seqs[k] \in Seq(Bit)
  OBVIOUS
<1> HIDE DEF n
<1> DEFINE S == {k \in 0..n : Ahead(gb, h[n - k])}
<1>3. 0 \in S
  <2>1. n - 0 = n
    BY <1>2
  <2> QED
    BY <1>1, <1>2, <2>1
<1>4. ASSUME NEW k \in 1..n, k - 1 \in S
      PROVE  k \in S
  <2> DEFINE i == n - k
             j == n - (k - 1)
  <2>1. j \in 1..n /\ j - 1 = i /\ i \in 0..n /\ k \in 0..n
    BY <1>2
  <2>2. Ahead(gb, h[j])
    BY <1>4
  <2> HIDE DEF i, j
  <2>3. h[j] = h[i] \o seqs[j]
    BY ONLY <1>1, <2>1
  <2>4. h[i] \in Seq(Bit) /\ seqs[j] \in Seq(Bit)
    BY <1>1, <1>2, <2>1
  <2>5. Ahead(gb, h[i] \o seqs[j])
    BY ONLY <2>2, <2>3
  <2>6. Ahead(gb, h[i])
    BY ONLY <2>4, <2>5, gb \in Context, AheadConcat
  <2> QED
    BY <2>1, <2>6 DEF i
<1> HIDE DEF S
<1>5. \A k \in 0..n : k \in S
  BY ONLY <1>2, <1>3, <1>4, BoundedInduction
<1>6. ASSUME NEW k \in 0..n
      PROVE  Ahead(gb, h[k])
  <2>1. n - k \in 0..n /\ n - (n - k) = k
    BY <1>2
  <2>2. Ahead(gb, h[n - (n - k)])
    BY <1>5, <2>1 DEF S
  <2> QED
    BY ONLY <2>1, <2>2
<1> QED
  BY <1>1, <1>6 DEF n

(* A list of scales is read over to its end, which its length or a scale of *)
(* 0 makes.                                                                 *)
LEMMA SmallDifferences ==
  ASSUME NEW v \in Int, v + 128 \in 0..255
  PROVE  v \in Differences
<1> DEFINE p == 2 ^ 23
<1>1. 256 <= p /\ p \in Nat
  <2>1. 23 \in 0..31 /\ 8 \in 0..23 /\ 23 \in 0..30
    OBVIOUS
  <2>2. 2 ^ 8 <= 2 ^ 23
    BY ONLY <2>1, PowersGrow
  <2>3. 2 ^ 23 \in Nat \ {0}
    BY ONLY <2>1, Powers
  <2>4. 2 ^ 8 = 256
    OBVIOUS
  <2> QED
    BY ONLY <2>2, <2>3, <2>4
<1> HIDE DEF p
<1>2. v \in (1 - p)..(p - 1)
  BY <1>1
<1> QED
  BY <1>2 DEF p, Differences

LEMMA CodesType ==
  ASSUME NEW deltas \in Seq(Differences), NEW codes, codes = [i \in DOMAIN deltas |-> Se(deltas[i])]
  PROVE  /\ codes \in Seq(Seq(Bit)) /\ Len(codes) = Len(deltas)
         /\ \A k \in 1..Len(deltas) : codes[k] = Se(deltas[k]) /\ codes[k] \in Seq(Bit)
         /\ FlattenSeq(codes) \in Seq(Bit)
<1>1. \A k \in 1..Len(deltas) : Se(deltas[k]) \in Seq(Bit)
  BY SeType
<1>2. codes \in [1..Len(deltas) -> Seq(Bit)]
  BY <1>1
<1>3. codes \in Seq(Seq(Bit)) /\ Len(codes) = Len(deltas)
  <2>1. Len(deltas) \in Nat
    OBVIOUS
  <2> QED
    BY ONLY <1>2, <2>1, AsSequence
<1>4. FlattenSeq(codes) \in Seq(Bit)
  <2>1. <<>> \in Seq(Bit)
    OBVIOUS
  <2> QED
    BY ONLY <1>3, <2>1, FlattenGrows
<1>5. \A k \in 1..Len(deltas) : codes[k] = Se(deltas[k]) /\ codes[k] \in Seq(Bit)
  BY <1>1
<1> QED
  BY <1>3, <1>4, <1>5

LEMMA ListRead ==
  ASSUME NEW gb \in Context, NEW n \in Nat, NEW deltas, CodableList(deltas, n), deltas # <<>>,
         NEW codes, codes = [i \in DOMAIN deltas |-> Se(deltas[i])],
         Ahead(gb, FlattenSeq(codes))
  PROVE  Reads(gb, AfterList(gb, n), FlattenSeq(codes))
<1> DEFINE m == Len(deltas)
           scale == Scales(deltas)
<1>1. /\ deltas \in Seq(Int) /\ m \in 1..n
      /\ \A i \in 1..m : deltas[i] + 128 \in 0..255
      /\ \A i \in 1..(m - 1) : scale[i] # 0
      /\ m < n => scale[m] = 0
  <2>1. m \in Nat \ {0} /\ m <= n
    BY DEF CodableList
  <2>2. m < n => m \in 1..(n - 1)
    BY <2>1
  <2> QED
    BY <2>1, <2>2 DEF CodableList
<1>2. deltas \in Seq(Differences) /\ deltas \in Seq(Int)
  <2>1. \A i \in 1..m : deltas[i] \in Differences /\ deltas[i] \in Int
    <3>1. \A i \in 1..m : deltas[i] \in Int /\ deltas[i] + 128 \in 0..255
      BY <1>1
    <3> QED
      BY ONLY <3>1, SmallDifferences
  <2>2. deltas = [i \in 1..m |-> deltas[i]] /\ m \in Nat
    BY <1>1
  <2>3. deltas \in [1..m -> Differences] /\ deltas \in [1..m -> Int]
    BY ONLY <2>1, <2>2
  <2> HIDE DEF m
  <2> QED
    BY ONLY <2>2, <2>3, AsSequence
<1>3. /\ codes \in Seq(Seq(Bit)) /\ Len(codes) = m
      /\ \A k \in 1..m : codes[k] = Se(deltas[k]) /\ codes[k] \in Seq(Bit)
  BY <1>2, CodesType
<1>4. /\ scale[0] = 8 /\ \A k \in 0..m : scale[k] \in Int
      /\ \A k \in 1..m : scale[k] = (scale[k - 1] + deltas[k]) % 256
  BY <1>2, ScalesIs
<1>5. PICK h \in [0..m -> Seq(Bit)] :
        /\ h[0] = <<>>
        /\ \A k \in 1..m : h[k] = h[k - 1] \o codes[k]
        /\ FlattenSeq(codes) = h[m]
        /\ \A k \in 0..m : Ahead(gb, h[k])
  <2> HIDE DEF m
  <2>1. \E h \in [0..Len(codes) -> Seq(Bit)] :
          /\ h[0] = <<>>
          /\ \A k \in 1..Len(codes) : h[k] = h[k - 1] \o codes[k]
          /\ FlattenSeq(codes) = h[Len(codes)]
          /\ \A k \in 0..Len(codes) : Ahead(gb, h[k])
    BY <1>3, FlattenAhead
  <2>2. Len(codes) = m
    BY <1>3
  <2> QED
    BY ONLY <2>1, <2>2
<1>6. PICK f \in [0..n -> Scan] :
        /\ f[0] = [at |-> gb, last |-> 8, next |-> 8]
        /\ \A k \in 1..n : f[k] = ScanStep(f[k - 1])
        /\ AfterList(gb, n) = f[n].at
  BY AfterListIs
<1>7. \A k \in 1..m : deltas[k] \in Int /\ deltas[k] \in Differences
  BY <1>2
<1> HIDE DEF m, scale
<1> DEFINE Good(k) == /\ Reads(gb, f[k].at, h[k])
                      /\ f[k].next = scale[k]
                      /\ f[k].next # 0 => f[k].last = f[k].next
           S == {k \in 0..m : Good(k)}
<1>8. 0 \in S
  <2>1. Reads(gb, gb, <<>>)
    BY ReadsNothing
  <2>2. 0 \in 0..m
    BY <1>1
  <2> QED
    BY <1>4, <1>5, <1>6, <2>1, <2>2
<1>9. ASSUME NEW k \in 1..m, k - 1 \in S
      PROVE  k \in S
  <2>1. k \in 1..n /\ k - 1 \in 0..m /\ k \in 0..m /\ k - 1 \in 0..n
    BY <1>1
  <2> DEFINE b == f[k - 1]
             delta == get_se_golomb(b.at)
             x == scale[k - 1]
             d == deltas[k]
             next == (b.last + delta.value + 256) % 256
  <2>2. Reads(gb, b.at, h[k - 1]) /\ b.next = x /\ (b.next # 0 => b.last = b.next)
    BY <1>9
  <2>3. x # 0
    <3>1. CASE k = 1
      BY <1>4, <3>1
    <3>2. CASE k # 1
      <4>1. k - 1 \in 1..(m - 1)
        BY <1>1, <3>2
      <4> QED
        BY <1>1, <4>1
    <3> QED
      BY <3>1, <3>2
  <2>4. /\ h[k - 1] \in Seq(Bit) /\ codes[k] \in Seq(Bit)
        /\ Ahead(gb, h[k - 1] \o codes[k])
    <3>1. h[k] = h[k - 1] \o codes[k] /\ Ahead(gb, h[k])
      BY <1>5, <2>1
    <3>2. codes[k] \in Seq(Bit)
      BY <1>3
    <3>3. h[k - 1] \in Seq(Bit)
      BY <1>5, <2>1
    <3> QED
      BY ONLY <3>1, <3>2, <3>3
  <2>5. Ahead(b.at, codes[k]) /\ (\A g : Reads(b.at, g, codes[k]) => Reads(gb, g, h[k]))
    <3>1. h[k] = h[k - 1] \o codes[k]
      BY <1>5
    <3> HIDE DEF b
    <3> QED
      BY ONLY <2>2, <2>4, <3>1, ReadsNext
  <2>6. b.at \in Context
    BY <2>2 DEF Reads
  <2>7. Reads(b.at, delta, codes[k]) /\ delta.value = d
    <3>1. codes[k] = Se(d) /\ d \in Differences
      BY <1>3, <1>7
    <3> HIDE DEF b, d
    <3> QED
      BY ONLY <2>5, <2>6, <3>1, ReadsSe
  <2>8. d \in Int /\ x \in Int /\ b.last = x
    BY <1>4, <1>7, <2>1, <2>2, <2>3
  <2>9. scale[k] = (x + d) % 256
    BY <1>4
  <2>10. f[k] = ScanStep(b)
    BY <1>6, <2>1
  <2> HIDE DEF x, d, b
  <2>11. next = (x + d) % 256
    <3>1. next = (x + d + 256) % 256
      BY <2>7, <2>8
    <3>2. (x + d + 256) % 256 = (x + d) % 256
      BY ONLY <2>8
    <3> QED
      BY ONLY <3>1, <3>2
  <2>12. f[k] = [at |-> delta, next |-> next, last |-> IF next = 0 THEN b.last ELSE next]
    BY <2>2, <2>3, <2>10 DEF ScanStep
  <2> HIDE DEF next, delta
  <2>13. f[k].at = delta /\ f[k].next = next /\ (next # 0 => f[k].last = next)
    BY ONLY <2>12
  <2>14. Good(k)
    BY ONLY <2>5, <2>7, <2>9, <2>11, <2>13
  <2> QED
    BY <2>1, <2>14
<1>10. Good(m)
  <2> HIDE DEF S
  <2>1. \A k \in 0..m : k \in S
    <3>1. m \in Nat
      BY <1>1
    <3> QED
      BY ONLY <1>8, <1>9, <3>1, BoundedInduction
  <2>2. m \in S
    BY <1>1, <2>1
  <2> QED
    BY <2>2 DEF S
<1>11. f[n].at = f[m].at
  <2>1. CASE m = n
    BY <2>1
  <2>2. CASE m # n
    <3>1. m < n /\ f[m].next = 0
      BY <1>1, <1>10, <2>2
    <3> DEFINE T == {k \in 0..(n - m) : f[m + k] = f[m]}
    <3>2. 0 \in T
      <4>1. m + 0 = m /\ 0 \in 0..(n - m)
        BY <1>1
      <4> QED
        BY <4>1
    <3>3. ASSUME NEW k \in 1..(n - m), k - 1 \in T
          PROVE  k \in T
      <4>1. m + k \in 1..n /\ (m + k) - 1 = m + (k - 1) /\ k \in 0..(n - m)
        BY <1>1
      <4>2. f[m + (k - 1)] = f[m]
        BY <3>3
      <4>3. f[m + k] = ScanStep(f[(m + k) - 1])
        BY <1>6, <4>1
      <4>4. f[m + k] = ScanStep(f[m])
        BY ONLY <4>1, <4>2, <4>3
      <4>5. ScanStep(f[m]) = f[m]
        BY <3>1 DEF ScanStep
      <4> QED
        BY <4>1, <4>4, <4>5
    <3> HIDE DEF T
    <3>4. n - m \in Nat
      BY <1>1
    <3>5. n - m \in T
      <4>1. \A k \in 0..(n - m) : k \in T
        BY ONLY <3>2, <3>3, <3>4, BoundedInduction
      <4> QED
        BY <3>4, <4>1
    <3>6. m + (n - m) = n
      BY <1>1
    <3> QED
      BY <3>5, <3>6 DEF T
  <2> QED
    BY <2>1, <2>2
<1> QED
  BY <1>5, <1>6, <1>10, <1>11

-----------------------------------------------------------------------------
(* The offsets are read over one by one.                                   *)
LEMMA AfterOffsetsIs ==
  ASSUME NEW gb \in Context, NEW n \in Nat
  PROVE  \E f \in [0..n -> Context] :
           /\ f[0] = gb
           /\ \A k \in 1..n : f[k] = get_se_golomb(f[k - 1])
           /\ AfterOffsets(gb, n) = f[n]
<1> DEFINE F == [k \in 1..n |-> [s \in Context |-> get_se_golomb(s)]]
           Upto(g) == g = [i \in 0..n |-> IF i = 0 THEN gb ELSE get_se_golomb(g[i - 1])]
           upto == CHOOSE g : Upto(g)
<1>1. AfterOffsets(gb, n) = upto[n]
  BY DEF AfterOffsets
<1>2. F \in [1..n -> [Context -> Context]]
  BY GetSeType
<1>3. PICK f : f \in [0..n -> Context] /\ Recursive(f, n, gb, F)
  <2> HIDE DEF F
  <2> QED
    BY ONLY <1>2, gb \in Context, n \in Nat, RecursiveExists
<1>4. f[0] = gb /\ \A k \in 1..n : f[k] = get_se_golomb(f[k - 1])
  <2>1. f[0] = gb /\ \A k \in 1..n : f[k] = F[k][f[k - 1]]
    BY <1>3 DEF Recursive
  <2>2. \A k \in 1..n : f[k - 1] \in Context
    BY <1>3
  <2> QED
    BY <2>1, <2>2
<1>5. Upto(f)
  <2>1. f = [i \in 0..n |-> f[i]]
    BY <1>3
  <2>2. \A i \in 0..n : i # 0 => i \in 1..n
    OBVIOUS
  <2>3. \A i \in 0..n : f[i] = IF i = 0 THEN gb ELSE get_se_golomb(f[i - 1])
    BY ONLY <1>4, <2>2
  <2> QED
    BY ONLY <2>1, <2>3
<1>6. Upto(upto)
  <2> HIDE DEF Upto
  <2> QED
    BY ONLY <1>5
<1> HIDE DEF upto
<1>7. upto[0] = gb /\ \A k \in 1..n : upto[k] = get_se_golomb(upto[k - 1])
  <2>1. 0 \in 0..n /\ (\A i \in 1..n : i \in 0..n /\ i # 0)
    OBVIOUS
  <2> QED
    BY ONLY <1>6, <2>1
<1>8. \A k \in 0..n : upto[k] = f[k]
  <2>1. \A k \in 1..n : upto[k - 1] = f[k - 1] => upto[k] = f[k]
    BY ONLY <1>4, <1>7
  <2>2. upto[0] = f[0]
    BY ONLY <1>4, <1>7
  <2> QED
    BY ONLY <2>1, <2>2, n \in Nat, AgreeUpto
<1>9. n \in 0..n
  OBVIOUS
<1> QED
  BY <1>1, <1>3, <1>4, <1>8, <1>9

LEMMA OffsetsRead ==
  ASSUME NEW gb \in Context, NEW offsets \in Seq(Differences),
         NEW codes, codes = [i \in DOMAIN offsets |-> Se(offsets[i])],
         Ahead(gb, FlattenSeq(codes))
  PROVE  Reads(gb, AfterOffsets(gb, Len(offsets)), FlattenSeq(codes))
<1> DEFINE m == Len(offsets)
<1>1. /\ codes \in Seq(Seq(Bit)) /\ Len(codes) = m
      /\ \A k \in 1..m : codes[k] = Se(offsets[k]) /\ codes[k] \in Seq(Bit)
  BY CodesType
<1>2. m \in Nat /\ \A k \in 1..m : offsets[k] \in Differences
  OBVIOUS
<1> HIDE DEF m
<1>3. PICK h \in [0..m -> Seq(Bit)] :
        /\ h[0] = <<>>
        /\ \A k \in 1..m : h[k] = h[k - 1] \o codes[k]
        /\ FlattenSeq(codes) = h[m]
        /\ \A k \in 0..m : Ahead(gb, h[k])
  <2>1. \E h \in [0..Len(codes) -> Seq(Bit)] :
          /\ h[0] = <<>>
          /\ \A k \in 1..Len(codes) : h[k] = h[k - 1] \o codes[k]
          /\ FlattenSeq(codes) = h[Len(codes)]
          /\ \A k \in 0..Len(codes) : Ahead(gb, h[k])
    BY <1>1, FlattenAhead
  <2>2. Len(codes) = m
    BY <1>1
  <2> QED
    BY ONLY <2>1, <2>2
<1>4. PICK f \in [0..m -> Context] :
        /\ f[0] = gb
        /\ \A k \in 1..m : f[k] = get_se_golomb(f[k - 1])
        /\ AfterOffsets(gb, m) = f[m]
  BY <1>2, AfterOffsetsIs
<1> DEFINE S == {k \in 0..m : Reads(gb, f[k], h[k])}
<1>5. 0 \in S
  BY <1>2, <1>3, <1>4, ReadsNothing
<1>6. ASSUME NEW k \in 1..m, k - 1 \in S
      PROVE  k \in S
  <2>1. k - 1 \in 0..m /\ k \in 0..m
    BY <1>2
  <2>2. Reads(gb, f[k - 1], h[k - 1])
    BY <1>6
  <2>3. h[k] = h[k - 1] \o codes[k] /\ Ahead(gb, h[k])
    BY <1>3, <2>1
  <2>4. h[k - 1] \in Seq(Bit) /\ codes[k] \in Seq(Bit)
    BY <1>1, <1>3, <2>1
  <2>5. Ahead(f[k - 1], codes[k]) /\ (\A g : Reads(f[k - 1], g, codes[k]) => Reads(gb, g, h[k]))
    BY ONLY <2>2, <2>3, <2>4, ReadsNext
  <2>6. Reads(f[k - 1], get_se_golomb(f[k - 1]), codes[k])
    <3>1. f[k - 1] \in Context
      BY <2>2 DEF Reads
    <3>2. codes[k] = Se(offsets[k]) /\ offsets[k] \in Differences
      BY <1>1, <1>2
    <3> QED
      BY ONLY <2>5, <3>1, <3>2, ReadsSe
  <2>7. f[k] = get_se_golomb(f[k - 1])
    BY <1>4
  <2> QED
    BY <2>1, <2>5, <2>6, <2>7
<1> HIDE DEF S
<1>7. m \in S
  <2>1. \A k \in 0..m : k \in S
    BY ONLY <1>2, <1>5, <1>6, BoundedInduction
  <2> QED
    BY <1>2, <2>1
<1> QED
  BY <1>3, <1>4, <1>7 DEF S, m

(* The lists of a matrix, those that are there.                            *)
ListStep(k, before) ==
  LET present == get_bits1(before)
  IN IF present.value = 0 THEN present
     ELSE AfterList(present, IF k <= 6 THEN 16 ELSE 64)

LEMMA ListStepType ==
  ASSUME NEW before \in Context, NEW k
  PROVE  ListStep(k, before) \in Context
<1> DEFINE present == get_bits1(before)
<1>1. present \in Context
  BY GetBits1Type
<1> HIDE DEF present
<1>2. ASSUME NEW n \in Nat
      PROVE  AfterList(present, n) \in Context
  <2>1. PICK f \in [0..n -> Scan] : AfterList(present, n) = f[n].at
    BY <1>1, AfterListIs
  <2>2. f[n] \in Scan
    OBVIOUS
  <2> QED
    BY <2>1, <2>2 DEF Scan
<1> QED
  BY <1>1, <1>2 DEF ListStep, present

LEMMA AfterListsIs ==
  ASSUME NEW gb \in Context, NEW n \in Nat
  PROVE  \E f \in [0..n -> Context] :
           /\ f[0] = gb
           /\ \A k \in 1..n : f[k] = ListStep(k, f[k - 1])
           /\ AfterLists(gb, n) = f[n]
<1> DEFINE F == [k \in 1..n |-> [s \in Context |-> ListStep(k, s)]]
           Upto(g) == g = [i \in 0..n |-> IF i = 0 THEN gb ELSE 
                     LET present == get_bits1(g[i - 1])
                     IN IF present.value = 0 THEN present
                        ELSE AfterList(present, IF i <= 6 THEN 16 ELSE 64)]
           upto == CHOOSE g : Upto(g)
<1>1. AfterLists(gb, n) = upto[n]
  BY DEF AfterLists
<1>2. F \in [1..n -> [Context -> Context]]
  BY ListStepType
<1>3. PICK f : f \in [0..n -> Context] /\ Recursive(f, n, gb, F)
  <2> HIDE DEF F
  <2> QED
    BY ONLY <1>2, gb \in Context, n \in Nat, RecursiveExists
<1>4. f[0] = gb /\ \A k \in 1..n : f[k] = ListStep(k, f[k - 1])
  <2>1. f[0] = gb /\ \A k \in 1..n : f[k] = F[k][f[k - 1]]
    BY <1>3 DEF Recursive
  <2>2. \A k \in 1..n : f[k - 1] \in Context
    BY <1>3
  <2> QED
    BY <2>1, <2>2
<1>5. Upto(f)
  <2>1. f = [i \in 0..n |-> f[i]]
    BY <1>3
  <2>2. \A i \in 0..n : i # 0 => i \in 1..n
    OBVIOUS
  <2>3. \A i \in 0..n : f[i] = IF i = 0 THEN gb ELSE ListStep(i, f[i - 1])
    BY ONLY <1>4, <2>2
  <2> QED
    BY ONLY <2>1, <2>3 DEF ListStep
<1>6. Upto(upto)
  <2> HIDE DEF Upto
  <2> QED
    BY ONLY <1>5
<1> HIDE DEF upto
<1>7. upto[0] = gb /\ \A k \in 1..n : upto[k] = ListStep(k, upto[k - 1])
  <2>1. 0 \in 0..n /\ (\A i \in 1..n : i \in 0..n /\ i # 0)
    OBVIOUS
  <2> QED
    BY ONLY <1>6, <2>1 DEF ListStep
<1>8. \A k \in 0..n : upto[k] = f[k]
  <2>1. \A k \in 1..n : upto[k - 1] = f[k - 1] => upto[k] = f[k]
    BY ONLY <1>4, <1>7
  <2>2. upto[0] = f[0]
    BY ONLY <1>4, <1>7
  <2> QED
    BY ONLY <2>1, <2>2, n \in Nat, AgreeUpto
<1>9. n \in 0..n
  OBVIOUS
<1> QED
  BY <1>1, <1>3, <1>4, <1>8, <1>9

LEMMA CodedListType ==
  ASSUME NEW deltas, NEW n, CodableList(deltas, n)
  PROVE  /\ deltas \in Seq(Differences)
         /\ CodedList(deltas) \in Seq(Bit)
<1> DEFINE m == Len(deltas)
           codes == [i \in DOMAIN deltas |-> Se(deltas[i])]
<1>1. deltas \in Seq(Int) /\ \A i \in 1..m : deltas[i] + 128 \in 0..255
  BY DEF CodableList
<1>2. \A i \in 1..m : deltas[i] \in Differences
  <2>1. \A i \in 1..m : deltas[i] \in Int /\ deltas[i] + 128 \in 0..255
    BY <1>1
  <2> QED
    BY ONLY <2>1, SmallDifferences
<1>3. deltas \in Seq(Differences)
  <2>1. deltas = [i \in 1..m |-> deltas[i]] /\ m \in Nat
    BY <1>1
  <2>2. deltas \in [1..m -> Differences]
    BY ONLY <1>2, <2>1
  <2> HIDE DEF m
  <2> QED
    BY ONLY <2>1, <2>2, AsSequence
<1>4. FlattenSeq(codes) \in Seq(Bit)
  BY <1>3, CodesType
<1> HIDE DEF codes
<1>5. <<1>> \o FlattenSeq(codes) \in Seq(Bit) /\ <<0>> \in Seq(Bit)
  <2>1. <<1>> \in Seq(Bit) /\ <<0>> \in Seq(Bit)
    BY DEF Bit
  <2> QED
    BY ONLY <1>4, <2>1, ConcatProperties
<1> QED
  BY <1>3, <1>5 DEF CodedList, codes

(* One list: a bit says whether it is there. *)
LEMMA OneListRead ==
  ASSUME NEW b \in Context, NEW k, NEW deltas, CodableList(deltas, IF k <= 6 THEN 16 ELSE 64),
         Ahead(b, CodedList(deltas))
  PROVE  Reads(b, ListStep(k, b), CodedList(deltas))
<1> DEFINE n == IF k <= 6 THEN 16 ELSE 64
           codes == [i \in DOMAIN deltas |-> Se(deltas[i])]
           present == get_bits1(b)
<1>1. n \in Nat
  OBVIOUS
<1>2. CASE deltas = <<>>
  <2>1. CodedList(deltas) = <<0>> /\ 0 \in Bit
    BY <1>2 DEF CodedList, Bit
  <2>2. Reads(b, present, <<0>>) /\ present.value = 0
    BY <2>1, ReadsBit
  <2> HIDE DEF present
  <2> QED
    BY <2>1, <2>2 DEF ListStep, present
<1>3. CASE deltas # <<>>
  <2>1. CodedList(deltas) = <<1>> \o FlattenSeq(codes) /\ 1 \in Bit
    BY <1>3 DEF CodedList, Bit
  <2>2. FlattenSeq(codes) \in Seq(Bit) /\ <<1>> \in Seq(Bit)
    <3>1. deltas \in Seq(Differences)
      BY CodedListType
    <3>2. FlattenSeq(codes) \in Seq(Bit)
      BY <3>1, CodesType
    <3>3. <<1>> \in Seq(Bit)
      BY DEF Bit
    <3> QED
      BY ONLY <3>2, <3>3
  <2>3. Reads(b, b, <<>>)
    BY ReadsNothing
  <2>4. Ahead(b, <<1>> \o FlattenSeq(codes))
    BY <2>1
  <2> HIDE DEF codes
  <2>5. Ahead(b, <<1>>)
    BY ONLY <2>2, <2>4, b \in Context, AheadConcat
  <2>6. Reads(b, present, <<1>>) /\ present.value = 1
    BY <2>1, <2>5, ReadsBit
  <2> HIDE DEF present
  <2>7. /\ Ahead(present, FlattenSeq(codes))
        /\ \A g : Reads(present, g, FlattenSeq(codes)) => Reads(b, g, CodedList(deltas))
    <3> DEFINE one == <<1>>
               rest == FlattenSeq(codes)
    <3>1. one \in Seq(Bit) /\ rest \in Seq(Bit) /\ Reads(b, present, one) /\ Ahead(b, one \o rest)
      BY <2>2, <2>4, <2>6
    <3> HIDE DEF one, rest
    <3>2. Ahead(present, rest) /\ \A g : Reads(present, g, rest) => Reads(b, g, one \o rest)
      BY ONLY <3>1, ReadsNext
    <3>3. CodedList(deltas) = one \o rest
      BY <2>1 DEF one, rest
    <3> QED
      BY <3>2, <3>3 DEF rest
  <2>8. Reads(present, AfterList(present, n), FlattenSeq(codes))
    <3>1. present \in Context
      BY <2>6 DEF Reads
    <3> HIDE DEF n
    <3> QED
      BY <1>1, <1>3, <2>7, <3>1, ListRead DEF n, codes
  <2>9. ListStep(k, b) = AfterList(present, n)
    BY <2>6 DEF ListStep, present
  <2> QED
    BY ONLY <2>7, <2>8, <2>9
<1> QED
  BY <1>2, <1>3

LEMMA ListsRead ==
  ASSUME NEW gb \in Context, NEW lists \in Seq(Seq(Int)),
         \A i \in 1..Len(lists) : CodableList(lists[i], IF i <= 6 THEN 16 ELSE 64),
         NEW codes, codes = [i \in DOMAIN lists |-> CodedList(lists[i])]
  PROVE  /\ FlattenSeq(codes) \in Seq(Bit)
         /\ Ahead(gb, FlattenSeq(codes)) =>
              Reads(gb, AfterLists(gb, Len(lists)), FlattenSeq(codes))
<1> DEFINE m == Len(lists)
<1>1. m \in Nat /\ DOMAIN lists = 1..m
  OBVIOUS
<1>2. /\ codes \in Seq(Seq(Bit)) /\ Len(codes) = m
      /\ \A k \in 1..m : codes[k] = CodedList(lists[k]) /\ codes[k] \in Seq(Bit)
  <2>1. \A k \in 1..m : CodedList(lists[k]) \in Seq(Bit)
    BY CodedListType
  <2>2. codes = [k \in 1..m |-> CodedList(lists[k])]
    BY <1>1
  <2> HIDE DEF m
  <2>3. codes \in [1..m -> Seq(Bit)] /\ \A k \in 1..m : codes[k] = CodedList(lists[k])
    BY ONLY <2>1, <2>2
  <2>4. codes \in Seq(Seq(Bit)) /\ Len(codes) = m
    BY ONLY <1>1, <2>3, AsSequence
  <2> QED
    BY ONLY <2>1, <2>3, <2>4
<1>3. FlattenSeq(codes) \in Seq(Bit)
  <2>1. <<>> \in Seq(Bit)
    OBVIOUS
  <2> QED
    BY ONLY <1>2, <2>1, FlattenGrows
<1>4. ASSUME Ahead(gb, FlattenSeq(codes))
      PROVE  Reads(gb, AfterLists(gb, m), FlattenSeq(codes))
  <2> HIDE DEF m
  <2>1. PICK h \in [0..m -> Seq(Bit)] :
          /\ h[0] = <<>>
          /\ \A k \in 1..m : h[k] = h[k - 1] \o codes[k]
          /\ FlattenSeq(codes) = h[m]
          /\ \A k \in 0..m : Ahead(gb, h[k])
    <3>1. \E h \in [0..Len(codes) -> Seq(Bit)] :
            /\ h[0] = <<>>
            /\ \A k \in 1..Len(codes) : h[k] = h[k - 1] \o codes[k]
            /\ FlattenSeq(codes) = h[Len(codes)]
            /\ \A k \in 0..Len(codes) : Ahead(gb, h[k])
      BY <1>2, <1>4, FlattenAhead
    <3>2. Len(codes) = m
      BY <1>2
    <3> QED
      BY ONLY <3>1, <3>2
  <2>2. PICK f \in [0..m -> Context] :
          /\ f[0] = gb
          /\ \A k \in 1..m : f[k] = ListStep(k, f[k - 1])
          /\ AfterLists(gb, m) = f[m]
    BY <1>1, AfterListsIs
  <2> DEFINE S == {k \in 0..m : Reads(gb, f[k], h[k])}
  <2>3. 0 \in S
    BY <1>1, <2>1, <2>2, ReadsNothing
  <2>4. ASSUME NEW k \in 1..m, k - 1 \in S
        PROVE  k \in S
    <3>1. k - 1 \in 0..m /\ k \in 0..m
      BY <1>1
    <3>2. Reads(gb, f[k - 1], h[k - 1])
      BY <2>4
    <3>3. h[k] = h[k - 1] \o codes[k] /\ Ahead(gb, h[k])
      BY <2>1, <3>1
    <3>4. h[k - 1] \in Seq(Bit) /\ codes[k] \in Seq(Bit)
      BY <1>2, <2>1, <3>1
    <3>5. Ahead(f[k - 1], codes[k]) /\ (\A g : Reads(f[k - 1], g, codes[k]) => Reads(gb, g, h[k]))
      BY ONLY <3>2, <3>3, <3>4, ReadsNext
    <3>6. Reads(f[k - 1], ListStep(k, f[k - 1]), codes[k])
      <4>1. f[k - 1] \in Context
        BY <3>2 DEF Reads
      <4>2. codes[k] = CodedList(lists[k])
        BY <1>2
      <4>3. CodableList(lists[k], IF k <= 6 THEN 16 ELSE 64)
        BY DEF m
      <4> QED
        BY ONLY <3>5, <4>1, <4>2, <4>3, OneListRead
    <3>7. f[k] = ListStep(k, f[k - 1])
      BY <2>2
    <3> QED
      BY <3>1, <3>5, <3>6, <3>7
  <2> HIDE DEF S
  <2>5. m \in S
    <3>1. \A k \in 0..m : k \in S
      BY ONLY <1>1, <2>3, <2>4, BoundedInduction
    <3> QED
      BY <1>1, <3>1
  <2> QED
    BY <2>1, <2>2, <2>5 DEF S
<1> QED
  BY <1>3, <1>4

-----------------------------------------------------------------------------
(* What a step of the parser does to the elements.                         *)
LEMMA ParseOne ==
  ASSUME NEW f, NEW n \in Nat, NEW type, NEW names, NEW base, Parsing(f, n, type, names, base),
         NEW k \in 1..n, NEW name, name = names[k]
  PROVE  /\ f[k].gb = Element(type, name, f[k - 1].gb, f[k - 1].e)
         /\ DOMAIN f[k].e = DOMAIN f[k - 1].e \cup {name}
         /\ f[k].e[name] = f[k].gb.value
         /\ \A y \in DOMAIN f[k - 1].e : y # name => f[k].e[y] = f[k - 1].e[y]
<1> DEFINE b == f[k - 1]
           gb == Element(type, name, b.gb, b.e)
           v == gb.value
           c == b.e
           e == With(c, name, v)
<1>1. f[k] = [gb |-> gb, e |-> e]
  BY DEF Parsing, ParseStep
<1> HIDE DEF v, c
<1>2. /\ DOMAIN e = DOMAIN c \cup {name}
      /\ e[name] = v
      /\ \A y \in DOMAIN c : y # name => e[y] = c[y]
  BY DEF With
<1> HIDE DEF e, gb
<1>3. f[k].gb = gb /\ f[k].e = e
  BY <1>1
<1> QED
  BY <1>2, <1>3 DEF v, c, gb

LEMMA SPSNames ==
  /\ Len(SPSElements) = 24
  /\ SPSElements[1] = "profile_idc" /\ SPSElements[2] = "constraint_flags"
  /\ SPSElements[3] = "level_idc" /\ SPSElements[4] = "seq_parameter_set_id"
  /\ SPSElements[5] = "chroma_format_idc" /\ SPSElements[6] = "separate_colour_plane_flag"
  /\ SPSElements[7] = "bit_depth_luma" /\ SPSElements[8] = "bit_depth_chroma"
  /\ SPSElements[9] = "qpprime_flag" /\ SPSElements[10] = "seq_scaling_matrix_present_flag"
  /\ SPSElements[11] = "lists" /\ SPSElements[12] = "log2_max_frame_num"
  /\ SPSElements[13] = "pic_order_cnt_type" /\ SPSElements[14] = "log2_max_pic_order_cnt_lsb"
  /\ SPSElements[15] = "delta_pic_order_always_zero_flag" /\ SPSElements[16] = "offset_for_non_ref_pic"
  /\ SPSElements[17] = "offset_for_top_to_bottom_field" /\ SPSElements[18] = "num_ref_frames_in_cycle"
  /\ SPSElements[19] = "offsets" /\ SPSElements[20] = "num_ref_frames"
  /\ SPSElements[21] = "gaps_flag" /\ SPSElements[22] = "pic_width"
  /\ SPSElements[23] = "pic_height" /\ SPSElements[24] = "frame_mbs_only_flag"
BY DEF SPSElements

(* What is set stays when no later element has the name. *)
LEMMA ParsedKept ==
  ASSUME NEW f, NEW n \in Nat, NEW type, NEW names, NEW base, Parsing(f, n, type, names, base),
         NEW j \in 0..n, NEW m \in j..n, NEW y \in DOMAIN f[j].e,
         \A k \in (j + 1)..m : names[k] # y
  PROVE  y \in DOMAIN f[m].e /\ f[m].e[y] = f[j].e[y]
<1> DEFINE S == {i \in 0..(m - j) : y \in DOMAIN f[j + i].e /\ f[j + i].e[y] = f[j].e[y]}
<1>1. 0 \in S
  <2>1. j + 0 = j /\ 0 \in 0..(m - j)
    OBVIOUS
  <2> QED
    BY <2>1
<1>2. ASSUME NEW i \in 1..(m - j), i - 1 \in S
      PROVE  i \in S
  <2> DEFINE k == j + i
             name == names[k]
  <2>1. k \in 1..n /\ k \in (j + 1)..m /\ j + (i - 1) = k - 1 /\ i \in 0..(m - j)
    OBVIOUS
  <2>2. y \in DOMAIN f[j + (i - 1)].e /\ f[j + (i - 1)].e[y] = f[j].e[y]
    BY <1>2
  <2> HIDE DEF k
  <2>3. y \in DOMAIN f[k - 1].e /\ f[k - 1].e[y] = f[j].e[y]
    BY ONLY <2>1, <2>2
  <2>4. y # name
    BY <2>1
  <2>5. /\ DOMAIN f[k].e = DOMAIN f[k - 1].e \cup {name}
        /\ \A x \in DOMAIN f[k - 1].e : x # name => f[k].e[x] = f[k - 1].e[x]
    BY <2>1, ParseOne
  <2>6. y \in DOMAIN f[k].e /\ f[k].e[y] = f[j].e[y]
    BY ONLY <2>3, <2>4, <2>5
  <2> QED
    BY <2>1, <2>6 DEF k
<1> HIDE DEF S
<1>3. m - j \in Nat /\ j + (m - j) = m
  OBVIOUS
<1>4. m - j \in S
  <2>1. \A i \in 0..(m - j) : i \in S
    BY ONLY <1>1, <1>2, <1>3, BoundedInduction
  <2> QED
    BY <1>3, <2>1
<1> QED
  BY ONLY <1>3, <1>4 DEF S

-----------------------------------------------------------------------------
(* A sequence parameter set is read.                                       *)
Ints(e) == \A x \in DOMAIN e : e[x] \in Int

Keeps(gb, name, e) == Inferred(gb, IF name \in DOMAIN e THEN e[name] ELSE 0)

LEMMA KeepsNext ==
  ASSUME NEW g, NEW h, NEW s \in Seq(Bit), Reads(g, h, s), NEW name, NEW e, Ints(e)
  PROVE  /\ Reads(g, Keeps(h, name, e), s)
         /\ name \in DOMAIN e => Keeps(h, name, e).value = e[name]
<1> DEFINE v == IF name \in DOMAIN e THEN e[name] ELSE 0
<1>1. v \in Int
  BY DEF Ints
<1> HIDE DEF v
<1>2. Reads(g, Inferred(h, v), s) /\ Inferred(h, v).value = v
  BY <1>1, NextInferred
<1> QED
  BY <1>2 DEF Keeps, v

(* The elements of the two parts that a set need not have. *)
LEMMA ElementsAlways ==
  ASSUME NEW gb, NEW e
  PROVE  /\ SPSElement("profile_idc", gb, e) = get_bits(gb, 8)
         /\ SPSElement("constraint_flags", gb, e) = get_bits(gb, 8)
         /\ SPSElement("level_idc", gb, e) = get_bits(gb, 8)
         /\ SPSElement("seq_parameter_set_id", gb, e) = get_ue_golomb(gb)
         /\ SPSElement("log2_max_frame_num", gb, e) =
              [get_ue_golomb(gb) EXCEPT !.value = @ + 4]
         /\ SPSElement("pic_order_cnt_type", gb, e) = get_ue_golomb(gb)
         /\ SPSElement("num_ref_frames", gb, e) = get_ue_golomb(gb)
         /\ SPSElement("gaps_flag", gb, e) = get_bits1(gb)
         /\ SPSElement("pic_width", gb, e) = get_ue_golomb(gb)
         /\ SPSElement("pic_height", gb, e) = get_ue_golomb(gb)
         /\ SPSElement("frame_mbs_only_flag", gb, e) = get_bits1(gb)
BY DEF SPSElement, Absent

LEMMA ElementsHigh ==
  ASSUME NEW gb, NEW e
  PROVE  /\ HighProfile(e.profile_idc) =>
              /\ SPSElement("chroma_format_idc", gb, e) = get_ue_golomb(gb)
              /\ e.chroma_format_idc = 3 =>
                   SPSElement("separate_colour_plane_flag", gb, e) = get_bits1(gb)
              /\ e.chroma_format_idc # 3 =>
                   SPSElement("separate_colour_plane_flag", gb, e)
                     = Keeps(gb, "separate_colour_plane_flag", e)
              /\ SPSElement("bit_depth_luma", gb, e) = get_ue_golomb(gb)
              /\ SPSElement("bit_depth_chroma", gb, e) = get_ue_golomb(gb)
              /\ SPSElement("qpprime_flag", gb, e) = get_bits1(gb)
              /\ SPSElement("seq_scaling_matrix_present_flag", gb, e) = get_bits1(gb)
              /\ e.seq_scaling_matrix_present_flag # 0 =>
                   SPSElement("lists", gb, e)
                     = AfterLists(gb, IF e.chroma_format_idc = 3 THEN 12 ELSE 8)
              /\ e.seq_scaling_matrix_present_flag = 0 =>
                   SPSElement("lists", gb, e) = Keeps(gb, "lists", e)
         /\ ~HighProfile(e.profile_idc) =>
              \A name \in {"chroma_format_idc", "separate_colour_plane_flag",
                           "bit_depth_luma", "bit_depth_chroma", "qpprime_flag",
                           "seq_scaling_matrix_present_flag", "lists"} :
                SPSElement(name, gb, e) = Keeps(gb, name, e)
BY DEF SPSElement, Absent, Keeps

LEMMA ElementsOrder ==
  ASSUME NEW gb, NEW e
  PROVE  /\ e.pic_order_cnt_type = 0 =>
              SPSElement("log2_max_pic_order_cnt_lsb", gb, e) =
                [get_ue_golomb(gb) EXCEPT !.value = @ + 4]
         /\ e.pic_order_cnt_type # 0 =>
              SPSElement("log2_max_pic_order_cnt_lsb", gb, e)
                = Keeps(gb, "log2_max_pic_order_cnt_lsb", e)
         /\ e.pic_order_cnt_type = 1 =>
              /\ SPSElement("delta_pic_order_always_zero_flag", gb, e) = get_bits1(gb)
              /\ SPSElement("offset_for_non_ref_pic", gb, e) = get_se_golomb(gb)
              /\ SPSElement("offset_for_top_to_bottom_field", gb, e) = get_se_golomb(gb)
              /\ SPSElement("num_ref_frames_in_cycle", gb, e) = get_ue_golomb(gb)
              /\ SPSElement("offsets", gb, e) = AfterOffsets(gb, e.num_ref_frames_in_cycle)
         /\ e.pic_order_cnt_type # 1 =>
              \A name \in {"delta_pic_order_always_zero_flag", "offset_for_non_ref_pic",
                           "offset_for_top_to_bottom_field", "num_ref_frames_in_cycle",
                           "offsets"} :
                SPSElement(name, gb, e) = Keeps(gb, name, e)
BY DEF SPSElement, Absent, Keeps

Stepped(f, j, k, name) ==
  /\ f[k].gb = SPSElement(name, f[j].gb, f[j].e)
  /\ DOMAIN f[k].e = DOMAIN f[j].e \cup {name}
  /\ f[k].e[name] = f[k].gb.value
  /\ \A y \in DOMAIN f[j].e : y # name => f[k].e[y] = f[j].e[y]

LEMMA SPSSteps ==
  ASSUME NEW f, NEW base, Parsing(f, 24, SPS, SPSElements, base)
  PROVE  /\ f[0] = base
         /\ Stepped(f, 0, 1, "profile_idc")
         /\ Stepped(f, 1, 2, "constraint_flags")
         /\ Stepped(f, 2, 3, "level_idc")
         /\ Stepped(f, 3, 4, "seq_parameter_set_id")
         /\ Stepped(f, 4, 5, "chroma_format_idc")
         /\ Stepped(f, 5, 6, "separate_colour_plane_flag")
         /\ Stepped(f, 6, 7, "bit_depth_luma")
         /\ Stepped(f, 7, 8, "bit_depth_chroma")
         /\ Stepped(f, 8, 9, "qpprime_flag")
         /\ Stepped(f, 9, 10, "seq_scaling_matrix_present_flag")
         /\ Stepped(f, 10, 11, "lists")
         /\ Stepped(f, 11, 12, "log2_max_frame_num")
         /\ Stepped(f, 12, 13, "pic_order_cnt_type")
         /\ Stepped(f, 13, 14, "log2_max_pic_order_cnt_lsb")
         /\ Stepped(f, 14, 15, "delta_pic_order_always_zero_flag")
         /\ Stepped(f, 15, 16, "offset_for_non_ref_pic")
         /\ Stepped(f, 16, 17, "offset_for_top_to_bottom_field")
         /\ Stepped(f, 17, 18, "num_ref_frames_in_cycle")
         /\ Stepped(f, 18, 19, "offsets")
         /\ Stepped(f, 19, 20, "num_ref_frames")
         /\ Stepped(f, 20, 21, "gaps_flag")
         /\ Stepped(f, 21, 22, "pic_width")
         /\ Stepped(f, 22, 23, "pic_height")
         /\ Stepped(f, 23, 24, "frame_mbs_only_flag")
<1>1. ASSUME NEW k \in 1..24, NEW name, name = SPSElements[k]
      PROVE  Stepped(f, k - 1, k, name)
  <2>1. /\ f[k].gb = Element(SPS, name, f[k - 1].gb, f[k - 1].e)
        /\ DOMAIN f[k].e = DOMAIN f[k - 1].e \cup {name}
        /\ f[k].e[name] = f[k].gb.value
        /\ \A y \in DOMAIN f[k - 1].e : y # name => f[k].e[y] = f[k - 1].e[y]
    <3>1. 24 \in Nat
      OBVIOUS
    <3> QED
      BY <1>1, <3>1, ParseOne
  <2> QED
    BY <2>1 DEF Stepped, Element
<1>2. ASSUME NEW j \in 0..23
      PROVE  Stepped(f, j, j + 1, SPSElements[j + 1])
  <2>1. j + 1 \in 1..24 /\ (j + 1) - 1 = j
    OBVIOUS
  <2>2. Stepped(f, (j + 1) - 1, j + 1, SPSElements[j + 1])
    BY <1>1, <2>1
  <2> QED
    BY ONLY <2>1, <2>2
<1>3. Stepped(f, 0, 1, "profile_idc")
  <2>1. 0 \in 0..23 /\ 0 + 1 = 1 /\ SPSElements[1] = "profile_idc"
    BY SPSNames
  <2>2. Stepped(f, 0, 0 + 1, SPSElements[0 + 1])
    BY <1>2, <2>1
  <2> QED
    BY ONLY <2>1, <2>2
<1>4. Stepped(f, 1, 2, "constraint_flags")
  <2>1. 1 \in 0..23 /\ 1 + 1 = 2 /\ SPSElements[2] = "constraint_flags"
    BY SPSNames
  <2>2. Stepped(f, 1, 1 + 1, SPSElements[1 + 1])
    BY <1>2, <2>1
  <2> QED
    BY ONLY <2>1, <2>2
<1>5. Stepped(f, 2, 3, "level_idc")
  <2>1. 2 \in 0..23 /\ 2 + 1 = 3 /\ SPSElements[3] = "level_idc"
    BY SPSNames
  <2>2. Stepped(f, 2, 2 + 1, SPSElements[2 + 1])
    BY <1>2, <2>1
  <2> QED
    BY ONLY <2>1, <2>2
<1>6. Stepped(f, 3, 4, "seq_parameter_set_id")
  <2>1. 3 \in 0..23 /\ 3 + 1 = 4 /\ SPSElements[4] = "seq_parameter_set_id"
    BY SPSNames
  <2>2. Stepped(f, 3, 3 + 1, SPSElements[3 + 1])
    BY <1>2, <2>1
  <2> QED
    BY ONLY <2>1, <2>2
<1>7. Stepped(f, 4, 5, "chroma_format_idc")
  <2>1. 4 \in 0..23 /\ 4 + 1 = 5 /\ SPSElements[5] = "chroma_format_idc"
    BY SPSNames
  <2>2. Stepped(f, 4, 4 + 1, SPSElements[4 + 1])
    BY <1>2, <2>1
  <2> QED
    BY ONLY <2>1, <2>2
<1>8. Stepped(f, 5, 6, "separate_colour_plane_flag")
  <2>1. 5 \in 0..23 /\ 5 + 1 = 6 /\ SPSElements[6] = "separate_colour_plane_flag"
    BY SPSNames
  <2>2. Stepped(f, 5, 5 + 1, SPSElements[5 + 1])
    BY <1>2, <2>1
  <2> QED
    BY ONLY <2>1, <2>2
<1>9. Stepped(f, 6, 7, "bit_depth_luma")
  <2>1. 6 \in 0..23 /\ 6 + 1 = 7 /\ SPSElements[7] = "bit_depth_luma"
    BY SPSNames
  <2>2. Stepped(f, 6, 6 + 1, SPSElements[6 + 1])
    BY <1>2, <2>1
  <2> QED
    BY ONLY <2>1, <2>2
<1>10. Stepped(f, 7, 8, "bit_depth_chroma")
  <2>1. 7 \in 0..23 /\ 7 + 1 = 8 /\ SPSElements[8] = "bit_depth_chroma"
    BY SPSNames
  <2>2. Stepped(f, 7, 7 + 1, SPSElements[7 + 1])
    BY <1>2, <2>1
  <2> QED
    BY ONLY <2>1, <2>2
<1>11. Stepped(f, 8, 9, "qpprime_flag")
  <2>1. 8 \in 0..23 /\ 8 + 1 = 9 /\ SPSElements[9] = "qpprime_flag"
    BY SPSNames
  <2>2. Stepped(f, 8, 8 + 1, SPSElements[8 + 1])
    BY <1>2, <2>1
  <2> QED
    BY ONLY <2>1, <2>2
<1>12. Stepped(f, 9, 10, "seq_scaling_matrix_present_flag")
  <2>1. 9 \in 0..23 /\ 9 + 1 = 10 /\ SPSElements[10] = "seq_scaling_matrix_present_flag"
    BY SPSNames
  <2>2. Stepped(f, 9, 9 + 1, SPSElements[9 + 1])
    BY <1>2, <2>1
  <2> QED
    BY ONLY <2>1, <2>2
<1>13. Stepped(f, 10, 11, "lists")
  <2>1. 10 \in 0..23 /\ 10 + 1 = 11 /\ SPSElements[11] = "lists"
    BY SPSNames
  <2>2. Stepped(f, 10, 10 + 1, SPSElements[10 + 1])
    BY <1>2, <2>1
  <2> QED
    BY ONLY <2>1, <2>2
<1>14. Stepped(f, 11, 12, "log2_max_frame_num")
  <2>1. 11 \in 0..23 /\ 11 + 1 = 12 /\ SPSElements[12] = "log2_max_frame_num"
    BY SPSNames
  <2>2. Stepped(f, 11, 11 + 1, SPSElements[11 + 1])
    BY <1>2, <2>1
  <2> QED
    BY ONLY <2>1, <2>2
<1>15. Stepped(f, 12, 13, "pic_order_cnt_type")
  <2>1. 12 \in 0..23 /\ 12 + 1 = 13 /\ SPSElements[13] = "pic_order_cnt_type"
    BY SPSNames
  <2>2. Stepped(f, 12, 12 + 1, SPSElements[12 + 1])
    BY <1>2, <2>1
  <2> QED
    BY ONLY <2>1, <2>2
<1>16. Stepped(f, 13, 14, "log2_max_pic_order_cnt_lsb")
  <2>1. 13 \in 0..23 /\ 13 + 1 = 14 /\ SPSElements[14] = "log2_max_pic_order_cnt_lsb"
    BY SPSNames
  <2>2. Stepped(f, 13, 13 + 1, SPSElements[13 + 1])
    BY <1>2, <2>1
  <2> QED
    BY ONLY <2>1, <2>2
<1>17. Stepped(f, 14, 15, "delta_pic_order_always_zero_flag")
  <2>1. 14 \in 0..23 /\ 14 + 1 = 15 /\ SPSElements[15] = "delta_pic_order_always_zero_flag"
    BY SPSNames
  <2>2. Stepped(f, 14, 14 + 1, SPSElements[14 + 1])
    BY <1>2, <2>1
  <2> QED
    BY ONLY <2>1, <2>2
<1>18. Stepped(f, 15, 16, "offset_for_non_ref_pic")
  <2>1. 15 \in 0..23 /\ 15 + 1 = 16 /\ SPSElements[16] = "offset_for_non_ref_pic"
    BY SPSNames
  <2>2. Stepped(f, 15, 15 + 1, SPSElements[15 + 1])
    BY <1>2, <2>1
  <2> QED
    BY ONLY <2>1, <2>2
<1>19. Stepped(f, 16, 17, "offset_for_top_to_bottom_field")
  <2>1. 16 \in 0..23 /\ 16 + 1 = 17 /\ SPSElements[17] = "offset_for_top_to_bottom_field"
    BY SPSNames
  <2>2. Stepped(f, 16, 16 + 1, SPSElements[16 + 1])
    BY <1>2, <2>1
  <2> QED
    BY ONLY <2>1, <2>2
<1>20. Stepped(f, 17, 18, "num_ref_frames_in_cycle")
  <2>1. 17 \in 0..23 /\ 17 + 1 = 18 /\ SPSElements[18] = "num_ref_frames_in_cycle"
    BY SPSNames
  <2>2. Stepped(f, 17, 17 + 1, SPSElements[17 + 1])
    BY <1>2, <2>1
  <2> QED
    BY ONLY <2>1, <2>2
<1>21. Stepped(f, 18, 19, "offsets")
  <2>1. 18 \in 0..23 /\ 18 + 1 = 19 /\ SPSElements[19] = "offsets"
    BY SPSNames
  <2>2. Stepped(f, 18, 18 + 1, SPSElements[18 + 1])
    BY <1>2, <2>1
  <2> QED
    BY ONLY <2>1, <2>2
<1>22. Stepped(f, 19, 20, "num_ref_frames")
  <2>1. 19 \in 0..23 /\ 19 + 1 = 20 /\ SPSElements[20] = "num_ref_frames"
    BY SPSNames
  <2>2. Stepped(f, 19, 19 + 1, SPSElements[19 + 1])
    BY <1>2, <2>1
  <2> QED
    BY ONLY <2>1, <2>2
<1>23. Stepped(f, 20, 21, "gaps_flag")
  <2>1. 20 \in 0..23 /\ 20 + 1 = 21 /\ SPSElements[21] = "gaps_flag"
    BY SPSNames
  <2>2. Stepped(f, 20, 20 + 1, SPSElements[20 + 1])
    BY <1>2, <2>1
  <2> QED
    BY ONLY <2>1, <2>2
<1>24. Stepped(f, 21, 22, "pic_width")
  <2>1. 21 \in 0..23 /\ 21 + 1 = 22 /\ SPSElements[22] = "pic_width"
    BY SPSNames
  <2>2. Stepped(f, 21, 21 + 1, SPSElements[21 + 1])
    BY <1>2, <2>1
  <2> QED
    BY ONLY <2>1, <2>2
<1>25. Stepped(f, 22, 23, "pic_height")
  <2>1. 22 \in 0..23 /\ 22 + 1 = 23 /\ SPSElements[23] = "pic_height"
    BY SPSNames
  <2>2. Stepped(f, 22, 22 + 1, SPSElements[22 + 1])
    BY <1>2, <2>1
  <2> QED
    BY ONLY <2>1, <2>2
<1>26. Stepped(f, 23, 24, "frame_mbs_only_flag")
  <2>1. 23 \in 0..23 /\ 23 + 1 = 24 /\ SPSElements[24] = "frame_mbs_only_flag"
    BY SPSNames
  <2>2. Stepped(f, 23, 23 + 1, SPSElements[23 + 1])
    BY <1>2, <2>1
  <2> QED
    BY ONLY <2>1, <2>2
<1>27. f[0] = base
  BY DEF Parsing
<1> QED
  BY <1>3, <1>4, <1>5, <1>6, <1>7, <1>8, <1>9, <1>10, <1>11, <1>12, <1>13, <1>14,
     <1>15, <1>16, <1>17, <1>18, <1>19, <1>20, <1>21, <1>22, <1>23, <1>24, <1>25, <1>26, <1>27

LEMMA SteppedInts ==
  ASSUME NEW f, NEW j, NEW k, NEW name, Stepped(f, j, k, name), Ints(f[j].e), f[k].gb \in Context
  PROVE  Ints(f[k].e)
<1>1. f[k].gb.value \in Int
  BY DEF Context
<1> QED
  BY <1>1 DEF Stepped, Ints

(* The part that only the high profiles have. *)
SPSHigh(s) ==
  Ue(s.chroma_format_idc)
  \o (IF s.chroma_format_idc = 3 THEN <<s.separate_colour_plane_flag>> ELSE <<>>)
  \o Ue(0) \o Ue(0) \o <<0>> \o CodedScaling(s.scaling)

LEMMA BitsTypes ==
  /\ <<>> \in Seq(Bit)
  /\ \A b \in Bit : <<b>> \in Seq(Bit)
  /\ 0 \in Bit /\ 1 \in Bit /\ <<0>> \in Seq(Bit) /\ <<1>> \in Seq(Bit)
  /\ \A v \in 0..300 : Ue(v) \in Seq(Bit)
<1>1. \A v \in 0..300 : Ue(v) \in Seq(Bit)
  <2>1. \A v \in 0..300 : v \in Nat /\ v + 1 < 2 ^ 30
    OBVIOUS
  <2> QED
    BY ONLY <2>1, UeType
<1>2. <<>> \in Seq(Bit) /\ \A b \in Bit : <<b>> \in Seq(Bit)
  OBVIOUS
<1>3. 0 \in Bit /\ 1 \in Bit
  BY DEF Bit
<1> QED
  BY ONLY <1>1, <1>2, <1>3

LEMMA CodedScalingType ==
  ASSUME NEW n, CodableSPS(n)
  PROVE  CodedScaling(n.scaling) \in Seq(Bit)
<1> DEFINE codes == [i \in DOMAIN n.scaling |-> CodedList(n.scaling[i])]
<1>1. /\ n.scaling \in Seq(Seq(Int))
      /\ \A i \in 1..Len(n.scaling) : CodableList(n.scaling[i], IF i <= 6 THEN 16 ELSE 64)
  BY DEF CodableSPS
<1>2. init_get_bits(<<>>) \in Context
  BY InitContext, BitsTypes
<1>3. FlattenSeq(codes) \in Seq(Bit)
  BY <1>1, <1>2, ListsRead
<1> HIDE DEF codes
<1>4. <<1>> \o FlattenSeq(codes) \in Seq(Bit)
  BY ONLY <1>3, BitsTypes, ConcatProperties
<1> QED
  BY <1>4, BitsTypes DEF CodedScaling, codes

LEMMA NotEmpty ==
  ASSUME NEW S, NEW s \in Seq(S), s # <<>>
  PROVE  Len(s) # 0
OBVIOUS

(* The flag for the lists and the lists themselves. *)
LEMMA ScalingRead ==
  ASSUME NEW n, CodableSPS(n), NEW b \in Context, Ahead(b, CodedScaling(n.scaling))
  PROVE  LET present == get_bits1(b)
         IN /\ present \in Context
            /\ present.value = 0 => Reads(b, present, CodedScaling(n.scaling))
            /\ present.value # 0 =>
                 Reads(b, AfterLists(present, IF n.chroma_format_idc = 3 THEN 12 ELSE 8),
                       CodedScaling(n.scaling))
<1> DEFINE present == get_bits1(b)
           codes == [i \in DOMAIN n.scaling |-> CodedList(n.scaling[i])]
           m == IF n.chroma_format_idc = 3 THEN 12 ELSE 8
           rest == FlattenSeq(codes)
           one == <<1>>
<1>1. /\ n.scaling \in Seq(Seq(Int)) /\ Len(n.scaling) \in {0, m}
      /\ \A i \in 1..Len(n.scaling) : CodableList(n.scaling[i], IF i <= 6 THEN 16 ELSE 64)
  BY DEF CodableSPS
<1>2. CASE n.scaling = <<>>
  <2>1. CodedScaling(n.scaling) = <<0>>
    BY <1>2 DEF CodedScaling
  <2>2. Reads(b, present, <<0>>) /\ present.value = 0
    BY <2>1, BitsTypes, ReadsBit
  <2>3. present \in Context
    BY <2>2 DEF Reads
  <2> QED
    BY <2>1, <2>2, <2>3
<1>3. CASE n.scaling # <<>>
  <2>1. CodedScaling(n.scaling) = one \o rest
    BY <1>3 DEF CodedScaling
  <2>2. rest \in Seq(Bit)
    BY <1>1, ListsRead
  <2>3. Len(n.scaling) = m
    <3>1. Len(n.scaling) # 0
      BY ONLY <1>1, <1>3, NotEmpty
    <3> QED
      BY <1>1, <3>1
  <2>4. one \in Seq(Bit)
    BY BitsTypes
  <2> HIDE DEF rest
  <2>5. Ahead(b, one)
    <3> HIDE DEF one
    <3>1. Ahead(b, one \o rest)
      BY <2>1
    <3> QED
      BY ONLY <2>2, <2>4, <3>1, b \in Context, AheadConcat
  <2>6. Reads(b, present, one) /\ present.value = 1
    BY <2>5, BitsTypes, ReadsBit
  <2> HIDE DEF present, one, m
  <2>7. Ahead(present, rest) /\ \A g : Reads(present, g, rest) => Reads(b, g, one \o rest)
    <3>1. Ahead(b, one \o rest)
      BY <2>1
    <3> QED
      BY ONLY <2>2, <2>4, <2>6, <3>1, ReadsNext
  <2>8. present \in Context
    BY <2>6 DEF Reads
  <2>9. Reads(present, AfterLists(present, m), rest)
    <3>1. Ahead(present, FlattenSeq(codes))
      BY <2>7 DEF rest
    <3>2. Reads(present, AfterLists(present, Len(n.scaling)), FlattenSeq(codes))
      BY <1>1, <2>8, <3>1, ListsRead
    <3> QED
      BY <2>3, <3>2 DEF rest
  <2>10. Reads(b, AfterLists(present, m), CodedScaling(n.scaling))
    BY <2>1, <2>7, <2>9
  <2> QED
    BY <2>6, <2>8, <2>10 DEF present, m
<1> QED
  BY <1>2, <1>3

LEMMA HighRead ==
  ASSUME NEW n, CodableSPS(n), HighProfile(n.profile_idc),
         NEW f, NEW base, Parsing(f, 24, SPS, SPSElements, base),
         f[4].gb \in Context, Ints(f[4].e), f[4].e["profile_idc"] = n.profile_idc,
         "profile_idc" \in DOMAIN f[4].e, "separate_colour_plane_flag" \in DOMAIN f[4].e,
         Ahead(f[4].gb, SPSHigh(n))
  PROVE  /\ Reads(f[4].gb, f[11].gb, SPSHigh(n)) /\ Ints(f[11].e)
         /\ f[11].e["separate_colour_plane_flag"]
              = IF n.chroma_format_idc = 3 THEN n.separate_colour_plane_flag
                ELSE f[4].e["separate_colour_plane_flag"]
<1> DEFINE g == f[4].gb
           chroma == n.chroma_format_idc
           flag == IF chroma = 3 THEN <<n.separate_colour_plane_flag>> ELSE <<>>
           scaling == CodedScaling(n.scaling)
           p1 == Ue(chroma)
           p2 == p1 \o flag
           p3 == p2 \o Ue(0)
           p4 == p3 \o Ue(0)
           p5 == p4 \o <<0>>
           p6 == p5 \o scaling
           planes == IF chroma = 3 THEN n.separate_colour_plane_flag
                     ELSE f[4].e["separate_colour_plane_flag"]
           Kept(k) == /\ Ints(f[k].e)
                      /\ "profile_idc" \in DOMAIN f[k].e
                      /\ f[k].e["profile_idc"] = n.profile_idc
                      /\ "chroma_format_idc" \in DOMAIN f[k].e
                      /\ f[k].e["chroma_format_idc"] = chroma
                      /\ "separate_colour_plane_flag" \in DOMAIN f[k].e
                      /\ f[k].e["separate_colour_plane_flag"]
                           = IF k = 5 THEN f[4].e["separate_colour_plane_flag"] ELSE planes
<1>1. chroma \in 0..3 /\ n.separate_colour_plane_flag \in Bit
  BY DEF CodableSPS, Bit
<1>2. /\ p1 \in Seq(Bit) /\ flag \in Seq(Bit) /\ Ue(0) \in Seq(Bit) /\ <<0>> \in Seq(Bit)
      /\ scaling \in Seq(Bit)
  <2>1. \A v \in 0..3 : v \in 0..300
    OBVIOUS
  <2>2. p1 \in Seq(Bit) /\ Ue(0) \in Seq(Bit) /\ <<0>> \in Seq(Bit)
    <3>1. chroma \in 0..300 /\ 0 \in 0..300
      BY <1>1, <2>1
    <3>2. \A v \in 0..300 : Ue(v) \in Seq(Bit)
      BY BitsTypes
    <3>3. <<0>> \in Seq(Bit)
      BY BitsTypes
    <3> HIDE DEF chroma
    <3> QED
      BY ONLY <3>1, <3>2, <3>3
  <2>3. flag \in Seq(Bit)
    BY <1>1, BitsTypes
  <2> QED
    BY <2>2, <2>3, CodedScalingType
<1>3. SPSHigh(n) = p6
  BY DEF SPSHigh
<1>4. /\ Stepped(f, 4, 5, "chroma_format_idc")
      /\ Stepped(f, 5, 6, "separate_colour_plane_flag")
      /\ Stepped(f, 6, 7, "bit_depth_luma")
      /\ Stepped(f, 7, 8, "bit_depth_chroma")
      /\ Stepped(f, 8, 9, "qpprime_flag")
      /\ Stepped(f, 9, 10, "seq_scaling_matrix_present_flag")
      /\ Stepped(f, 10, 11, "lists")
  BY SPSSteps
<1> HIDE DEF flag, scaling
<1>5. p2 \in Seq(Bit) /\ p3 \in Seq(Bit) /\ p4 \in Seq(Bit) /\ p5 \in Seq(Bit)
  BY ONLY <1>2, ConcatProperties
<1> HIDE DEF p1, p2, p3, p4, p5, p6
<1>6. Ahead(g, p6)
  BY <1>3
<1>7. Ahead(g, p5)
  BY ONLY <1>2, <1>5, <1>6, f[4].gb \in Context, AheadConcat DEF p6
<1>8. Ahead(g, p4)
  BY ONLY <1>2, <1>5, <1>7, f[4].gb \in Context, AheadConcat DEF p5
<1>9. Ahead(g, p3)
  BY ONLY <1>2, <1>5, <1>8, f[4].gb \in Context, AheadConcat DEF p4
<1>10. Ahead(g, p2)
  BY ONLY <1>2, <1>5, <1>9, f[4].gb \in Context, AheadConcat DEF p3
<1>11. Ahead(g, p1)
  BY ONLY <1>2, <1>5, <1>10, f[4].gb \in Context, AheadConcat DEF p2
<1>12. 0 \in Nat /\ 0 + 1 < 8192 /\ 0 \in Bit
  BY BitsTypes
<1>13. Reads(g, f[5].gb, p1) /\ Kept(5)
  <2>1. f[5].gb = get_ue_golomb(g)
    BY <1>4, ElementsHigh DEF Stepped
  <2>2. chroma \in Nat /\ chroma + 1 < 8192
    BY <1>1
  <2>3. Reads(g, f[5].gb, p1) /\ f[5].gb.value = chroma
    BY <1>11, <2>1, <2>2, ReadsUe DEF p1
  <2>4. f[5].gb \in Context
    BY <2>3 DEF Reads
  <2>5. Ints(f[5].e)
    BY <1>4, <2>4, SteppedInts
  <2> QED
    BY <1>4, <2>3, <2>5 DEF Stepped
<1>14. Reads(g, f[6].gb, p2) /\ Kept(6)
  <2> DEFINE b == f[5].gb
  <2>1. CASE chroma = 3
    <3>1. f[6].gb = get_bits1(b)
      BY <1>4, <1>13, <2>1, ElementsHigh DEF Stepped
    <3>2. flag = <<n.separate_colour_plane_flag>>
      BY <2>1 DEF flag
    <3>3. Ahead(g, p1 \o <<n.separate_colour_plane_flag>>)
      BY <1>10, <3>2 DEF p2
    <3> HIDE DEF b
    <3>4. Reads(g, f[6].gb, p1 \o <<n.separate_colour_plane_flag>>)
          /\ f[6].gb.value = n.separate_colour_plane_flag
      BY <1>1, <1>2, <1>13, <3>1, <3>3, NextBit DEF b
    <3>5. Reads(g, f[6].gb, p2) /\ f[6].gb.value = planes
      BY <2>1, <3>2, <3>4 DEF p2
    <3>6. f[6].gb \in Context
      BY <3>5 DEF Reads
    <3>7. Ints(f[6].e)
      BY <1>4, <1>13, <3>6, SteppedInts
    <3> QED
      BY <1>4, <1>13, <3>5, <3>7 DEF Stepped
  <2>2. CASE chroma # 3
    <3>1. f[6].gb = Keeps(b, "separate_colour_plane_flag", f[5].e)
      BY <1>4, <1>13, <2>2, ElementsHigh DEF Stepped
    <3>2. Reads(g, f[6].gb, p1) /\ f[6].gb.value = f[5].e["separate_colour_plane_flag"]
      BY <1>2, <1>13, <3>1, KeepsNext
    <3>3. p2 = p1
      <4>1. flag = <<>>
        BY <2>2 DEF flag
      <4> QED
        BY <1>2, <4>1, ConcatEmptySeq DEF p2
    <3>4. Reads(g, f[6].gb, p2) /\ f[6].gb.value = planes
      BY <1>13, <2>2, <3>2, <3>3
    <3>6. f[6].gb \in Context
      BY <3>4 DEF Reads
    <3>7. Ints(f[6].e)
      BY <1>4, <1>13, <3>6, SteppedInts
    <3> QED
      BY <1>4, <1>13, <3>4, <3>7 DEF Stepped
  <2> QED
    BY <2>1, <2>2
<1>15. Reads(g, f[7].gb, p3) /\ Kept(7)
  <2>1. f[7].gb = get_ue_golomb(f[6].gb)
    BY <1>4, <1>14, ElementsHigh DEF Stepped
  <2>2. Reads(g, f[7].gb, p3)
    BY <1>5, <1>9, <1>12, <1>14, <2>1, NextUe DEF p3
  <2>3. f[7].gb \in Context
    BY <2>2 DEF Reads
  <2>4. Ints(f[7].e)
    BY <1>4, <1>14, <2>3, SteppedInts
  <2> QED
    BY <1>4, <1>14, <2>2, <2>4 DEF Stepped
<1>16. Reads(g, f[8].gb, p4) /\ Kept(8)
  <2>1. f[8].gb = get_ue_golomb(f[7].gb)
    BY <1>4, <1>15, ElementsHigh DEF Stepped
  <2>2. Reads(g, f[8].gb, p4)
    BY <1>5, <1>8, <1>12, <1>15, <2>1, NextUe DEF p4
  <2>3. f[8].gb \in Context
    BY <2>2 DEF Reads
  <2>4. Ints(f[8].e)
    BY <1>4, <1>15, <2>3, SteppedInts
  <2> QED
    BY <1>4, <1>15, <2>2, <2>4 DEF Stepped
<1>17. Reads(g, f[9].gb, p5) /\ Kept(9)
  <2>1. f[9].gb = get_bits1(f[8].gb)
    BY <1>4, <1>16, ElementsHigh DEF Stepped
  <2>2. Reads(g, f[9].gb, p5)
    BY <1>5, <1>7, <1>12, <1>16, <2>1, NextBit DEF p5
  <2>3. f[9].gb \in Context
    BY <2>2 DEF Reads
  <2>4. Ints(f[9].e)
    BY <1>4, <1>16, <2>3, SteppedInts
  <2> QED
    BY <1>4, <1>16, <2>2, <2>4 DEF Stepped
<1>18. /\ f[9].gb \in Context /\ Ahead(f[9].gb, scaling)
       /\ \A h : Reads(f[9].gb, h, scaling) => Reads(g, h, p6)
  <2>1. Ahead(g, p5 \o scaling)
    BY <1>6 DEF p6
  <2>2. /\ Ahead(f[9].gb, scaling)
        /\ \A h : Reads(f[9].gb, h, scaling) => Reads(g, h, p5 \o scaling)
    BY ONLY <1>2, <1>5, <1>17, <2>1, ReadsNext
  <2>3. f[9].gb \in Context
    BY <1>17 DEF Reads
  <2> QED
    BY <2>2, <2>3 DEF p6
<1> DEFINE present == get_bits1(f[9].gb)
<1>19. /\ f[10].gb = present /\ Kept(10)
       /\ f[10].e["seq_scaling_matrix_present_flag"] = present.value
  <2>1. f[10].gb = present
    BY <1>4, <1>17, ElementsHigh DEF Stepped
  <2>2. f[10].gb \in Context
    BY <1>18, <2>1, GetBits1Type
  <2>3. Ints(f[10].e)
    BY <1>4, <1>17, <2>2, SteppedInts
  <2>4. f[10].e["seq_scaling_matrix_present_flag"] = present.value
    BY <1>4, <2>1 DEF Stepped
  <2> HIDE DEF present
  <2> QED
    BY <1>4, <1>17, <2>1, <2>3, <2>4 DEF Stepped
<1>20. /\ present \in Context
       /\ present.value = 0 => Reads(f[9].gb, present, scaling)
       /\ present.value # 0 =>
            Reads(f[9].gb, AfterLists(present, IF chroma = 3 THEN 12 ELSE 8), scaling)
  BY <1>18, ScalingRead DEF scaling
<1> HIDE DEF present
<1>21. Reads(f[9].gb, f[11].gb, scaling)
  <2>1. CASE present.value = 0
    <3>1. f[11].gb = Keeps(present, "lists", f[10].e)
      BY <1>4, <1>19, <2>1, ElementsHigh DEF Stepped
    <3> QED
      BY <1>2, <1>19, <1>20, <2>1, <3>1, KeepsNext
  <2>2. CASE present.value # 0
    <3>1. f[11].gb = AfterLists(present, IF chroma = 3 THEN 12 ELSE 8)
      BY <1>4, <1>19, <2>2, ElementsHigh DEF Stepped
    <3> QED
      BY <1>20, <2>2, <3>1
  <2> QED
    BY <2>1, <2>2
<1>22. f[11].gb \in Context
  BY <1>21 DEF Reads
<1>23. Ints(f[11].e)
  BY <1>4, <1>19, <1>22, SteppedInts
<1>24. f[11].e["separate_colour_plane_flag"] = planes
  BY <1>4, <1>19 DEF Stepped
<1>25. Reads(g, f[11].gb, p6)
  BY <1>18, <1>21
<1> QED
  BY <1>3, <1>23, <1>24, <1>25

(* The parts of the code of a sequence parameter set. *)
SPSStart(s) == Binary(8, s.profile_idc) \o Binary(8, 0) \o Binary(8, 31) \o Ue(0)

SPSMiddle(s) == IF s.profile_idc \notin HighProfiles THEN <<>> ELSE SPSHigh(s)

SPSCycle(s) ==
  <<s.delta_pic_order_always_zero_flag>> \o Se(-1) \o Se(1) \o Ue(Len(s.offsets))
  \o FlattenSeq([i \in DOMAIN s.offsets |-> Se(s.offsets[i])])

SPSOrder(s) ==
  CASE s.pic_order_cnt_type = 0 -> Ue(s.log2_max_pic_order_cnt_lsb - 4)
    [] s.pic_order_cnt_type = 1 -> SPSCycle(s)
    [] OTHER -> <<>>

LEMMA CodedSPSIs ==
  ASSUME NEW s
  PROVE  CodedSPS(s) =
           SPSStart(s) \o SPSMiddle(s) \o Ue(s.log2_max_frame_num - 4)
           \o Ue(s.pic_order_cnt_type) \o SPSOrder(s)
           \o Ue(2) \o <<0>> \o Ue(119) \o Ue(67) \o <<s.frame_mbs_only_flag>> \o Data
BY DEF CodedSPS, SPSStart, SPSMiddle, SPSOrder, SPSCycle, SPSHigh

LEMMA DataType == Data \in Seq(Bit)
<1>1. Data \in [1..40 -> Bit]
  BY DEF Data, Bit
<1> QED
  BY <1>1, AsSequence

(* The elements d have not changed since. *)
Extend(e, d) == \A y \in DOMAIN d : y \in DOMAIN e /\ e[y] = d[y]

(* A value that the parser keeps: nothing is read, and no element changes. *)
LEMMA KeepsStep ==
  ASSUME NEW f, NEW j, NEW k, NEW name, Stepped(f, j, k, name),
         NEW g, NEW s \in Seq(Bit), Reads(g, f[j].gb, s), Ints(f[j].e),
         f[k].gb = Keeps(f[j].gb, name, f[j].e)
  PROVE  Reads(g, f[k].gb, s) /\ Ints(f[k].e) /\ Extend(f[k].e, f[j].e)
<1>1. /\ Reads(g, f[k].gb, s)
      /\ name \in DOMAIN f[j].e => f[k].gb.value = f[j].e[name]
  BY KeepsNext
<1>2. f[k].gb \in Context
  BY <1>1 DEF Reads
<1>3. Ints(f[k].e)
  BY <1>2, SteppedInts
<1>4. ASSUME NEW y \in DOMAIN f[j].e
      PROVE  y \in DOMAIN f[k].e /\ f[k].e[y] = f[j].e[y]
  <2>1. CASE y = name
    BY <1>1, <2>1 DEF Stepped
  <2>2. CASE y # name
    BY <2>2 DEF Stepped
  <2> QED
    BY <2>1, <2>2
<1> QED
  BY <1>1, <1>3, <1>4 DEF Extend

(* A byte, and those before it. *)
LEMMA ByteFits ==
  ASSUME NEW v \in 0..255
  PROVE  v \in Nat /\ v < 2 ^ 8
<1>1. 2 ^ 8 = 256
  OBVIOUS
<1>2. v < 256
  OBVIOUS
<1> QED
  BY <1>1, <1>2

LEMMA ByteWidth == 8 \in 0..30 /\ 8 \in 0..MIN_CACHE_BITS
BY DEF MIN_CACHE_BITS

LEMMA ByteType ==
  ASSUME NEW v \in 0..255
  PROVE  Binary(8, v) \in Seq(Bit)
BY ONLY v \in 0..255, ByteFits, ByteWidth, BinaryType

LEMMA ReadsByte ==
  ASSUME NEW g \in Context, NEW v \in 0..255, Ahead(g, Binary(8, v))
  PROVE  /\ Reads(g, get_bits(g, 8), Binary(8, v))
         /\ get_bits(g, 8).value = v
<1>1. v \in Nat /\ v < 2 ^ 8
  BY ONLY v \in 0..255, ByteFits
<1> QED
  BY ONLY <1>1, g \in Context, Ahead(g, Binary(8, v)), ByteWidth, ReadsBits

LEMMA NextByte ==
  ASSUME NEW g, NEW h, NEW s \in Seq(Bit), Reads(g, h, s), NEW v \in 0..255,
         Ahead(g, s \o Binary(8, v))
  PROVE  Reads(g, get_bits(h, 8), s \o Binary(8, v))
<1>1. Binary(8, v) \in Seq(Bit)
  BY ByteType
<1>2. /\ Ahead(h, Binary(8, v))
      /\ \A k : Reads(h, k, Binary(8, v)) => Reads(g, k, s \o Binary(8, v))
  BY ONLY <1>1, s \in Seq(Bit), Reads(g, h, s), Ahead(g, s \o Binary(8, v)), ReadsNext
<1>3. h \in Context
  BY DEF Reads
<1>4. Reads(h, get_bits(h, 8), Binary(8, v))
  BY ONLY <1>2, <1>3, v \in 0..255, ReadsByte
<1> QED
  BY ONLY <1>2, <1>4

LEMMA LowRead ==
  ASSUME NEW n, ~HighProfile(n.profile_idc),
         NEW f, NEW base, Parsing(f, 24, SPS, SPSElements, base),
         NEW g, NEW s \in Seq(Bit), Reads(g, f[4].gb, s), Ints(f[4].e),
         "profile_idc" \in DOMAIN f[4].e, f[4].e["profile_idc"] = n.profile_idc
  PROVE  Reads(g, f[11].gb, s) /\ Ints(f[11].e) /\ Extend(f[11].e, f[4].e)
<1> DEFINE Kept(k) == Reads(g, f[k].gb, s) /\ Ints(f[k].e) /\ Extend(f[k].e, f[4].e)
<1>1. /\ Stepped(f, 4, 5, "chroma_format_idc")
      /\ Stepped(f, 5, 6, "separate_colour_plane_flag")
      /\ Stepped(f, 6, 7, "bit_depth_luma")
      /\ Stepped(f, 7, 8, "bit_depth_chroma")
      /\ Stepped(f, 8, 9, "qpprime_flag")
      /\ Stepped(f, 9, 10, "seq_scaling_matrix_present_flag")
      /\ Stepped(f, 10, 11, "lists")
  BY SPSSteps
<1>2. ASSUME NEW j, NEW k, NEW name \in
        {"chroma_format_idc", "separate_colour_plane_flag", "bit_depth_luma",
         "bit_depth_chroma", "qpprime_flag", "seq_scaling_matrix_present_flag", "lists"},
        Stepped(f, j, k, name), Kept(j)
      PROVE  Kept(k)
  <2>1. ~HighProfile(f[j].e.profile_idc)
    BY <1>2 DEF Extend
  <2>2. f[k].gb = Keeps(f[j].gb, name, f[j].e)
    BY <1>2, <2>1, ElementsHigh DEF Stepped
  <2> HIDE DEF Kept
  <2>3. Reads(g, f[k].gb, s) /\ Ints(f[k].e) /\ Extend(f[k].e, f[j].e)
    <3>1. Stepped(f, j, k, name) /\ Reads(g, f[j].gb, s) /\ Ints(f[j].e)
      BY <1>2 DEF Kept
    <3> QED
      BY ONLY <2>2, <3>1, s \in Seq(Bit), KeepsStep
  <2> USE DEF Kept
  <2> QED
    BY <1>2, <2>3 DEF Extend
<1>3. Kept(4)
  BY DEF Extend
<1> HIDE DEF Kept
<1>4. Kept(5)
  BY <1>1, <1>2, <1>3
<1>5. Kept(6)
  BY <1>1, <1>2, <1>4
<1>6. Kept(7)
  BY <1>1, <1>2, <1>5
<1>7. Kept(8)
  BY <1>1, <1>2, <1>6
<1>8. Kept(9)
  BY <1>1, <1>2, <1>7
<1>9. Kept(10)
  BY <1>1, <1>2, <1>8
<1>10. Kept(11)
  BY <1>1, <1>2, <1>9
<1> QED
  BY <1>10 DEF Kept

LEMMA StartRead ==
  ASSUME NEW n, CodableSPS(n),
         NEW f, NEW base, Parsing(f, 24, SPS, SPSElements, base),
         base.gb \in Context, Ints(base.e), Ahead(base.gb, SPSStart(n))
  PROVE  /\ Reads(base.gb, f[4].gb, SPSStart(n)) /\ Ints(f[4].e)
         /\ "profile_idc" \in DOMAIN f[4].e /\ f[4].e["profile_idc"] = n.profile_idc
<1> DEFINE g == base.gb
           p1 == Binary(8, n.profile_idc)
           p2 == p1 \o Binary(8, 0)
           p3 == p2 \o Binary(8, 31)
           p4 == p3 \o Ue(0)
<1>2. n.profile_idc \in 0..255 /\ 0 \in 0..255 /\ 31 \in 0..255 /\ 0 \in Nat /\ 0 + 1 < 8192
  BY DEF CodableSPS
<1>3. p1 \in Seq(Bit) /\ Binary(8, 0) \in Seq(Bit) /\ Binary(8, 31) \in Seq(Bit)
  <2> HIDE DEF p1
  <2>1. p1 \in Seq(Bit)
    <3>1. n.profile_idc \in 0..255
      BY <1>2
    <3> QED
      BY ONLY <3>1, ByteType, Zenon DEF p1
  <2>2. Binary(8, 0) \in Seq(Bit) /\ Binary(8, 31) \in Seq(Bit)
    BY ONLY <1>2, ByteType
  <2> QED
    BY <2>1, <2>2
<1>4. Ue(0) \in Seq(Bit)
  <2>1. 0 \in 0..300
    OBVIOUS
  <2> QED
    BY <2>1, BitsTypes
<1>5. /\ f[0] = base
      /\ Stepped(f, 0, 1, "profile_idc")
      /\ Stepped(f, 1, 2, "constraint_flags")
      /\ Stepped(f, 2, 3, "level_idc")
      /\ Stepped(f, 3, 4, "seq_parameter_set_id")
  BY SPSSteps
<1>6. Ahead(g, p4)
  BY DEF SPSStart
<1> HIDE DEF p1
<1>7. p2 \in Seq(Bit)
  BY ONLY <1>3, ConcatProperties
<1> HIDE DEF p2
<1>8. p3 \in Seq(Bit)
  BY ONLY <1>3, <1>7, ConcatProperties
<1> HIDE DEF p3
<1>9. Ahead(g, p3)
  BY ONLY <1>4, <1>6, <1>8, base.gb \in Context, AheadConcat DEF p4
<1>10. Ahead(g, p2)
  BY ONLY <1>3, <1>7, <1>9, base.gb \in Context, AheadConcat DEF p3
<1>11. Ahead(g, p1)
  BY ONLY <1>3, <1>10, base.gb \in Context, AheadConcat DEF p2
<1>12. f[1].gb = get_bits(g, 8) /\ f[2].gb = get_bits(f[1].gb, 8)
       /\ f[3].gb = get_bits(f[2].gb, 8) /\ f[4].gb = get_ue_golomb(f[3].gb)
  BY <1>5, ElementsAlways DEF Stepped
<1>13. Reads(g, f[1].gb, p1) /\ f[1].gb.value = n.profile_idc
  BY <1>2, <1>11, <1>12, ReadsByte DEF p1
<1>14. Reads(g, f[2].gb, p2)
  BY <1>2, <1>3, <1>10, <1>12, <1>13, NextByte DEF p2
<1>15. Reads(g, f[3].gb, p3)
  BY <1>2, <1>7, <1>9, <1>12, <1>14, NextByte DEF p3
<1>16. Reads(g, f[4].gb, p4)
  BY <1>2, <1>8, <1>6, <1>12, <1>15, NextUe
<1>17. f[1].gb \in Context /\ f[2].gb \in Context /\ f[3].gb \in Context /\ f[4].gb \in Context
  BY <1>13, <1>14, <1>15, <1>16 DEF Reads
<1>18. Ints(f[1].e)
  BY <1>5, <1>17, SteppedInts
<1>19. Ints(f[2].e)
  BY <1>5, <1>17, <1>18, SteppedInts
<1>20. Ints(f[3].e)
  BY <1>5, <1>17, <1>19, SteppedInts
<1>21. Ints(f[4].e)
  BY <1>5, <1>17, <1>20, SteppedInts
<1>22. "profile_idc" \in DOMAIN f[4].e /\ f[4].e["profile_idc"] = n.profile_idc
  BY <1>5, <1>13 DEF Stepped
<1>23. p4 = SPSStart(n)
  BY DEF SPSStart, p1, p2, p3
<1> HIDE DEF p4, g
<1> QED
  BY <1>16, <1>21, <1>22, <1>23 DEF g

(* A number that is coded as its difference from 4. *)
PlusFour(u) == [u EXCEPT !.value = @ + 4]

LEMMA NextPlusFour ==
  ASSUME NEW g, NEW h, NEW s \in Seq(Bit), Reads(g, h, s), NEW v \in 4..16,
         Ahead(g, s \o Ue(v - 4)), NEW k, k = PlusFour(get_ue_golomb(h))
  PROVE  /\ Reads(g, k, s \o Ue(v - 4))
         /\ k.value = v
<1> DEFINE c == v - 4
           u == get_ue_golomb(h)
<1>1. c \in Nat /\ c + 1 < 8192 /\ c + 4 = v
  OBVIOUS
<1> HIDE DEF c
<1>2. Reads(g, u, s \o Ue(c)) /\ u.value = c
  <2>1. Ahead(g, s \o Ue(c))
    BY DEF c
  <2> QED
    BY ONLY <1>1, <2>1, s \in Seq(Bit), Reads(g, h, s), NextUe
<1> HIDE DEF u
<1>3. u \in Context
  BY <1>2 DEF Reads
<1>4. k = [u EXCEPT !.value = @ + 4]
  BY DEF u, PlusFour
<1>5. k \in Context /\ k.value = v /\ k.bits = u.bits /\ k.index = u.index
  <2>1. u.value + 4 = v
    BY <1>1, <1>2
  <2>2. k.value = u.value + 4 /\ k.bits = u.bits /\ k.index = u.index
        /\ k = [bits |-> u.bits, index |-> u.index, value |-> u.value + 4]
    BY <1>3, <1>4 DEF Context
  <2>3. v \in Int
    OBVIOUS
  <2> QED
    BY ONLY <1>3, <2>1, <2>2, <2>3 DEF Context
<1>6. Reads(g, k, s \o Ue(c))
  BY <1>2, <1>5 DEF Reads
<1> QED
  BY <1>5, <1>6 DEF c

(* Without a cycle of offsets. *)
LEMMA NoCycleRead ==
  ASSUME NEW f, NEW base, Parsing(f, 24, SPS, SPSElements, base),
         NEW g, NEW s \in Seq(Bit), Reads(g, f[14].gb, s), Ints(f[14].e),
         "pic_order_cnt_type" \in DOMAIN f[14].e, f[14].e["pic_order_cnt_type"] # 1
  PROVE  Reads(g, f[19].gb, s) /\ Ints(f[19].e) /\ Extend(f[19].e, f[14].e)
<1> DEFINE Kept(k) == Reads(g, f[k].gb, s) /\ Ints(f[k].e) /\ Extend(f[k].e, f[14].e)
<1>1. /\ Stepped(f, 14, 15, "delta_pic_order_always_zero_flag")
      /\ Stepped(f, 15, 16, "offset_for_non_ref_pic")
      /\ Stepped(f, 16, 17, "offset_for_top_to_bottom_field")
      /\ Stepped(f, 17, 18, "num_ref_frames_in_cycle")
      /\ Stepped(f, 18, 19, "offsets")
  BY SPSSteps
<1>2. ASSUME NEW j, NEW k, NEW name \in
        {"delta_pic_order_always_zero_flag", "offset_for_non_ref_pic",
         "offset_for_top_to_bottom_field", "num_ref_frames_in_cycle", "offsets"},
        Stepped(f, j, k, name), Kept(j)
      PROVE  Kept(k)
  <2>1. f[j].e.pic_order_cnt_type # 1
    BY <1>2 DEF Extend
  <2>2. f[k].gb = Keeps(f[j].gb, name, f[j].e)
    BY <1>2, <2>1, ElementsOrder DEF Stepped
  <2> HIDE DEF Kept
  <2>3. Reads(g, f[k].gb, s) /\ Ints(f[k].e) /\ Extend(f[k].e, f[j].e)
    <3>1. Stepped(f, j, k, name) /\ Reads(g, f[j].gb, s) /\ Ints(f[j].e)
      BY <1>2 DEF Kept
    <3> QED
      BY ONLY <2>2, <3>1, s \in Seq(Bit), KeepsStep
  <2> USE DEF Kept
  <2> QED
    BY <1>2, <2>3 DEF Extend
<1>3. Kept(14)
  BY DEF Extend
<1> HIDE DEF Kept
<1>4. Kept(15)
  BY <1>1, <1>2, <1>3
<1>5. Kept(16)
  BY <1>1, <1>2, <1>4
<1>6. Kept(17)
  BY <1>1, <1>2, <1>5
<1>7. Kept(18)
  BY <1>1, <1>2, <1>6
<1>8. Kept(19)
  BY <1>1, <1>2, <1>7
<1> QED
  BY <1>8 DEF Kept

(* With one. *)
LEMMA CycleType ==
  ASSUME NEW n, CodableSPS(n)
  PROVE  /\ <<n.delta_pic_order_always_zero_flag>> \in Seq(Bit)
         /\ n.delta_pic_order_always_zero_flag \in Bit
         /\ Se(-1) \in Seq(Bit) /\ Se(1) \in Seq(Bit)
         /\ Len(n.offsets) \in Nat /\ Len(n.offsets) + 1 < 8192
         /\ Ue(Len(n.offsets)) \in Seq(Bit)
         /\ -1 \in Differences /\ 1 \in Differences
         /\ n.offsets \in Seq(Differences)
         /\ FlattenSeq([i \in DOMAIN n.offsets |-> Se(n.offsets[i])]) \in Seq(Bit)
<1>1. n.delta_pic_order_always_zero_flag \in Bit /\ n.offsets \in Seq(Differences)
      /\ Len(n.offsets) <= 255
  BY DEF CodableSPS, Bit
<1>2. -1 \in Differences /\ 1 \in Differences
  <2>1. -1 + 128 \in 0..255 /\ 1 + 128 \in 0..255 /\ -1 \in Int /\ 1 \in Int
    OBVIOUS
  <2> QED
    BY ONLY <2>1, SmallDifferences
<1>3. Se(-1) \in Seq(Bit) /\ Se(1) \in Seq(Bit)
  BY <1>2, SeType
<1>4. Len(n.offsets) \in 0..300 /\ Len(n.offsets) + 1 < 8192 /\ Len(n.offsets) \in Nat
  <2> DEFINE size == Len(n.offsets)
  <2>1. size \in Nat /\ size <= 255
    BY <1>1
  <2> HIDE DEF size
  <2>2. size \in 0..300 /\ size + 1 < 8192
    BY ONLY <2>1
  <2> QED
    BY <2>1, <2>2 DEF size
<1>5. Ue(Len(n.offsets)) \in Seq(Bit)
  <2>1. Len(n.offsets) \in 0..300
    BY <1>4
  <2> QED
    BY ONLY <2>1, BitsTypes
<1>6. FlattenSeq([i \in DOMAIN n.offsets |-> Se(n.offsets[i])]) \in Seq(Bit)
  BY <1>1, CodesType
<1>7. <<n.delta_pic_order_always_zero_flag>> \in Seq(Bit)
  BY <1>1, BitsTypes
<1> QED
  BY <1>1, <1>2, <1>3, <1>4, <1>5, <1>6, <1>7

LEMMA CycleRead ==
  ASSUME NEW n, CodableSPS(n), n.pic_order_cnt_type = 1,
         NEW f, NEW base, Parsing(f, 24, SPS, SPSElements, base),
         f[14].gb \in Context, Ints(f[14].e), "pic_order_cnt_type" \in DOMAIN f[14].e,
         f[14].e["pic_order_cnt_type"] = 1, Ahead(f[14].gb, SPSCycle(n))
  PROVE  /\ Reads(f[14].gb, f[19].gb, SPSCycle(n)) /\ Ints(f[19].e)
         /\ f[15].gb.value = n.delta_pic_order_always_zero_flag
<1> DEFINE g == f[14].gb
           codes == FlattenSeq([i \in DOMAIN n.offsets |-> Se(n.offsets[i])])
           p1 == <<n.delta_pic_order_always_zero_flag>>
           p2 == p1 \o Se(-1)
           p3 == p2 \o Se(1)
           p4 == p3 \o Ue(Len(n.offsets))
           p5 == p4 \o codes
           Cyclic(k) == "pic_order_cnt_type" \in DOMAIN f[k].e
                        /\ f[k].e["pic_order_cnt_type"] = 1
<1>1. /\ n.delta_pic_order_always_zero_flag \in Bit /\ p1 \in Seq(Bit)
      /\ Se(-1) \in Seq(Bit) /\ Se(1) \in Seq(Bit)
      /\ Len(n.offsets) \in Nat /\ Len(n.offsets) + 1 < 8192
      /\ Ue(Len(n.offsets)) \in Seq(Bit)
      /\ -1 \in Differences /\ 1 \in Differences
      /\ n.offsets \in Seq(Differences) /\ codes \in Seq(Bit)
  BY CycleType
<1>2. /\ Stepped(f, 14, 15, "delta_pic_order_always_zero_flag")
      /\ Stepped(f, 15, 16, "offset_for_non_ref_pic")
      /\ Stepped(f, 16, 17, "offset_for_top_to_bottom_field")
      /\ Stepped(f, 17, 18, "num_ref_frames_in_cycle")
      /\ Stepped(f, 18, 19, "offsets")
  BY SPSSteps
<1>3. Ahead(g, p5)
  BY DEF SPSCycle
<1>4. SPSCycle(n) = p5
  BY DEF SPSCycle
<1>5. Cyclic(14) /\ Cyclic(15) /\ Cyclic(16) /\ Cyclic(17) /\ Cyclic(18)
  BY <1>2 DEF Stepped
<1>6. /\ f[15].gb = get_bits1(g)
      /\ f[16].gb = get_se_golomb(f[15].gb)
      /\ f[17].gb = get_se_golomb(f[16].gb)
      /\ f[18].gb = get_ue_golomb(f[17].gb)
      /\ f[19].gb = AfterOffsets(f[18].gb, f[18].e["num_ref_frames_in_cycle"])
  BY <1>2, <1>5, ElementsOrder DEF Stepped
<1>7. f[18].e["num_ref_frames_in_cycle"] = f[18].gb.value
  BY <1>2 DEF Stepped
<1> HIDE DEF Cyclic, codes, p1
<1>8. p2 \in Seq(Bit)
  BY ONLY <1>1, ConcatProperties
<1> HIDE DEF p2
<1>9. p3 \in Seq(Bit)
  BY ONLY <1>1, <1>8, ConcatProperties
<1> HIDE DEF p3
<1>10. p4 \in Seq(Bit)
  BY ONLY <1>1, <1>9, ConcatProperties
<1> HIDE DEF p4
<1>11. Ahead(g, p4)
  BY ONLY <1>1, <1>3, <1>10, f[14].gb \in Context, AheadConcat DEF p5
<1>12. Ahead(g, p3)
  BY ONLY <1>1, <1>9, <1>11, f[14].gb \in Context, AheadConcat DEF p4
<1>13. Ahead(g, p2)
  BY ONLY <1>1, <1>8, <1>12, f[14].gb \in Context, AheadConcat DEF p3
<1>14. Ahead(g, p1)
  BY ONLY <1>1, <1>13, f[14].gb \in Context, AheadConcat DEF p2
<1>15. Reads(g, f[15].gb, p1) /\ f[15].gb.value = n.delta_pic_order_always_zero_flag
  BY <1>1, <1>6, <1>14, ReadsBit DEF p1
<1>16. Reads(g, f[16].gb, p2)
  BY <1>1, <1>6, <1>13, <1>15, NextSe DEF p2
<1>17. Reads(g, f[17].gb, p3)
  BY <1>1, <1>6, <1>8, <1>12, <1>16, NextSe DEF p3
<1>18. Reads(g, f[18].gb, p4) /\ f[18].gb.value = Len(n.offsets)
  BY <1>1, <1>6, <1>9, <1>11, <1>17, NextUe DEF p4
<1>19. /\ Ahead(f[18].gb, codes)
       /\ \A k : Reads(f[18].gb, k, codes) => Reads(g, k, p4 \o codes)
  BY ONLY <1>1, <1>3, <1>10, <1>18, ReadsNext DEF p5
<1>20. f[18].gb \in Context
  BY <1>18 DEF Reads
<1>21. Reads(f[18].gb, AfterOffsets(f[18].gb, Len(n.offsets)), codes)
  BY ONLY <1>1, <1>19, <1>20, OffsetsRead DEF codes
<1>22. Reads(g, f[19].gb, p5)
  BY <1>6, <1>7, <1>18, <1>19, <1>21
<1>23. /\ f[15].gb \in Context /\ f[16].gb \in Context /\ f[17].gb \in Context
       /\ f[19].gb \in Context
  BY <1>15, <1>16, <1>17, <1>22 DEF Reads
<1>24. Ints(f[15].e)
  BY <1>2, <1>23, SteppedInts
<1>25. Ints(f[16].e)
  BY <1>2, <1>23, <1>24, SteppedInts
<1>26. Ints(f[17].e)
  BY <1>2, <1>23, <1>25, SteppedInts
<1>27. Ints(f[18].e)
  BY <1>2, <1>20, <1>26, SteppedInts
<1>28. Ints(f[19].e)
  BY <1>2, <1>23, <1>27, SteppedInts
<1> QED
  BY <1>4, <1>15, <1>22, <1>28

LEMMA OrderType ==
  ASSUME NEW n, CodableSPS(n)
  PROVE  SPSOrder(n) \in Seq(Bit)
<1>1. CASE n.pic_order_cnt_type = 0
  <2>1. n.log2_max_pic_order_cnt_lsb - 4 \in 0..300
    BY DEF CodableSPS
  <2>2. Ue(n.log2_max_pic_order_cnt_lsb - 4) \in Seq(Bit)
    BY ONLY <2>1, BitsTypes
  <2> QED
    BY <1>1, <2>2 DEF SPSOrder
<1>2. CASE n.pic_order_cnt_type = 1
  <2> DEFINE codes == FlattenSeq([i \in DOMAIN n.offsets |-> Se(n.offsets[i])])
             p1 == <<n.delta_pic_order_always_zero_flag>>
  <2>1. /\ p1 \in Seq(Bit) /\ Se(-1) \in Seq(Bit) /\ Se(1) \in Seq(Bit)
        /\ Ue(Len(n.offsets)) \in Seq(Bit) /\ codes \in Seq(Bit)
    BY CycleType
  <2>2. SPSCycle(n) = p1 \o Se(-1) \o Se(1) \o Ue(Len(n.offsets)) \o codes
    BY DEF SPSCycle
  <2> HIDE DEF p1, codes
  <2>3. SPSCycle(n) \in Seq(Bit)
    BY ONLY <2>1, <2>2, ConcatProperties
  <2> QED
    BY <1>2, <2>3 DEF SPSOrder
<1>3. CASE n.pic_order_cnt_type \notin {0, 1}
  BY <1>3, BitsTypes DEF SPSOrder
<1> QED
  BY <1>1, <1>2, <1>3

(* The elements that depend on pic_order_cnt_type. *)
LEMMA OrderRead ==
  ASSUME NEW n, CodableSPS(n),
         NEW f, NEW base, Parsing(f, 24, SPS, SPSElements, base),
         f[13].gb \in Context, Ints(f[13].e), "pic_order_cnt_type" \in DOMAIN f[13].e,
         f[13].e["pic_order_cnt_type"] = n.pic_order_cnt_type,
         Ahead(f[13].gb, SPSOrder(n))
  PROVE  /\ Reads(f[13].gb, f[19].gb, SPSOrder(n)) /\ Ints(f[19].e)
         /\ n.pic_order_cnt_type = 0 =>
              f[14].e["log2_max_pic_order_cnt_lsb"] = n.log2_max_pic_order_cnt_lsb
         /\ n.pic_order_cnt_type = 1 =>
              f[15].e["delta_pic_order_always_zero_flag"]
                = n.delta_pic_order_always_zero_flag
<1> DEFINE g == f[13].gb
<1>1. /\ Stepped(f, 13, 14, "log2_max_pic_order_cnt_lsb")
      /\ Stepped(f, 14, 15, "delta_pic_order_always_zero_flag")
  BY SPSSteps
<1>2. Reads(g, g, <<>>) /\ <<>> \in Seq(Bit)
  BY ReadsNothing, BitsTypes
<1>3. "pic_order_cnt_type" \in DOMAIN f[14].e
      /\ f[14].e["pic_order_cnt_type"] = n.pic_order_cnt_type
  BY <1>1 DEF Stepped
<1>4. CASE n.pic_order_cnt_type = 0
  <2> DEFINE v == n.log2_max_pic_order_cnt_lsb
  <2>1. v \in 4..16
    BY DEF CodableSPS
  <2>2. SPSOrder(n) = Ue(v - 4)
    BY <1>4 DEF SPSOrder
  <2>3. SPSOrder(n) \in Seq(Bit)
    BY OrderType
  <2>4. <<>> \o SPSOrder(n) = SPSOrder(n)
    BY <2>3, ConcatEmptySeq
  <2>5. f[14].gb = PlusFour(get_ue_golomb(g))
    BY <1>1, <1>4, ElementsOrder DEF Stepped, PlusFour
  <2> HIDE DEF v
  <2>6. Reads(g, f[14].gb, SPSOrder(n)) /\ f[14].gb.value = v
    <3>1. Ahead(g, <<>> \o Ue(v - 4))
      BY <2>2, <2>4
    <3> HIDE DEF g
    <3>2. Reads(g, f[14].gb, <<>> \o Ue(v - 4)) /\ f[14].gb.value = v
      <4> DEFINE none == <<>>
      <4>1. none \in Seq(Bit) /\ Reads(g, g, none) /\ Ahead(g, none \o Ue(v - 4))
        BY <1>2, <3>1
      <4> HIDE DEF none
      <4>2. PICK k : k = f[14].gb
        OBVIOUS
      <4>3. k = PlusFour(get_ue_golomb(g))
        BY ONLY <2>5, <4>2
      <4>4. Reads(g, k, none \o Ue(v - 4)) /\ k.value = v
        BY ONLY <2>1, <4>1, <4>3, NextPlusFour
      <4>5. Reads(g, f[14].gb, none \o Ue(v - 4)) /\ f[14].gb.value = v
        BY ONLY <4>2, <4>4
      <4> QED
        BY <4>5 DEF none
    <3> QED
      BY <2>2, <2>4, <3>2
  <2>7. f[14].gb \in Context
    BY <2>6 DEF Reads
  <2>8. Ints(f[14].e)
    BY <1>1, <2>7, SteppedInts
  <2>9. Reads(g, f[19].gb, SPSOrder(n)) /\ Ints(f[19].e)
    BY <1>3, <1>4, <2>3, <2>6, <2>8, NoCycleRead
  <2> QED
    BY <1>1, <1>4, <2>6, <2>9 DEF Stepped, v
<1>5. CASE n.pic_order_cnt_type # 0
  <2>1. f[14].gb = Keeps(g, "log2_max_pic_order_cnt_lsb", f[13].e)
    BY <1>1, <1>5, ElementsOrder DEF Stepped
  <2>2. Reads(g, f[14].gb, <<>>) /\ Ints(f[14].e)
    <3> HIDE DEF g
    <3>1. f[14].gb = Keeps(f[13].gb, "log2_max_pic_order_cnt_lsb", f[13].e)
      BY <2>1 DEF g
    <3>2. Reads(g, f[13].gb, <<>>)
      BY <1>2 DEF g
    <3> QED
      BY ONLY <1>1, <1>2, <3>1, <3>2, Ints(f[13].e), KeepsStep
  <2>3. CASE n.pic_order_cnt_type = 1
    <3>1. SPSOrder(n) = SPSCycle(n)
      BY <2>3 DEF SPSOrder
    <3>2. SPSOrder(n) \in Seq(Bit)
      BY OrderType
    <3>3. <<>> \o SPSOrder(n) = SPSOrder(n)
      BY <3>2, ConcatEmptySeq
    <3> HIDE DEF g
    <3>4. /\ Ahead(f[14].gb, SPSOrder(n))
          /\ \A k : Reads(f[14].gb, k, SPSOrder(n)) => Reads(g, k, <<>> \o SPSOrder(n))
      <4>1. Ahead(g, <<>> \o SPSOrder(n))
        BY <3>3 DEF g
      <4> QED
        BY ONLY <1>2, <2>2, <3>2, <4>1, ReadsNext
    <3>5. f[14].gb \in Context
      BY <2>2 DEF Reads
    <3>6. /\ Reads(f[14].gb, f[19].gb, SPSCycle(n)) /\ Ints(f[19].e)
          /\ f[15].gb.value = n.delta_pic_order_always_zero_flag
      BY <1>3, <2>2, <2>3, <3>1, <3>4, <3>5, CycleRead
    <3>7. f[15].e["delta_pic_order_always_zero_flag"] = n.delta_pic_order_always_zero_flag
      BY <1>1, <3>6 DEF Stepped
    <3>8. Reads(g, f[19].gb, SPSOrder(n))
      BY <3>1, <3>3, <3>4, <3>6
    <3> QED
      BY <1>5, <3>6, <3>7, <3>8 DEF g
  <2>4. CASE n.pic_order_cnt_type # 1
    <3>1. SPSOrder(n) = <<>>
      BY <1>5, <2>4 DEF SPSOrder
    <3>2. Reads(g, f[19].gb, <<>>) /\ Ints(f[19].e)
      BY <1>2, <1>3, <2>2, <2>4, NoCycleRead
    <3> QED
      BY <1>5, <2>4, <3>1, <3>2
  <2> QED
    BY <2>3, <2>4
<1> QED
  BY <1>4, <1>5

(* The code up to an element. *)
SPSTo11(s) == SPSStart(s) \o SPSMiddle(s)
SPSTo12(s) == SPSTo11(s) \o Ue(s.log2_max_frame_num - 4)
SPSTo13(s) == SPSTo12(s) \o Ue(s.pic_order_cnt_type)
SPSTo19(s) == SPSTo13(s) \o SPSOrder(s)
SPSTo20(s) == SPSTo19(s) \o Ue(2)
SPSTo21(s) == SPSTo20(s) \o <<0>>
SPSTo22(s) == SPSTo21(s) \o Ue(119)
SPSTo23(s) == SPSTo22(s) \o Ue(67)
SPSTo24(s) == SPSTo23(s) \o <<s.frame_mbs_only_flag>>

LEMMA SPSParts ==
  ASSUME NEW n, CodableSPS(n)
  PROVE  /\ SPSStart(n) \in Seq(Bit) /\ SPSMiddle(n) \in Seq(Bit)
         /\ Ue(n.log2_max_frame_num - 4) \in Seq(Bit) /\ Ue(n.pic_order_cnt_type) \in Seq(Bit)
         /\ SPSOrder(n) \in Seq(Bit) /\ Ue(2) \in Seq(Bit) /\ <<0>> \in Seq(Bit)
         /\ Ue(119) \in Seq(Bit) /\ Ue(67) \in Seq(Bit)
         /\ <<n.frame_mbs_only_flag>> \in Seq(Bit) /\ Data \in Seq(Bit)
<1>1. SPSStart(n) \in Seq(Bit)
  <2>1. n.profile_idc \in 0..255 /\ 0 \in 0..255 /\ 31 \in 0..255 /\ 0 \in 0..300
    BY DEF CodableSPS
  <2>2. Binary(8, n.profile_idc) \in Seq(Bit)
    <3>1. n.profile_idc \in 0..255
      BY <2>1
    <3> QED
      BY ONLY <3>1, ByteType, Zenon
  <2>3. Binary(8, 0) \in Seq(Bit) /\ Binary(8, 31) \in Seq(Bit) /\ Ue(0) \in Seq(Bit)
    BY ONLY <2>1, ByteType, BitsTypes
  <2> QED
    BY ONLY <2>2, <2>3, ConcatProperties DEF SPSStart
<1>2. SPSMiddle(n) \in Seq(Bit)
  <2>1. SPSHigh(n) \in Seq(Bit)
    <3> DEFINE p1 == Ue(n.chroma_format_idc)
               p2 == IF n.chroma_format_idc = 3 THEN <<n.separate_colour_plane_flag>> ELSE <<>>
    <3>1. n.chroma_format_idc \in 0..300 /\ 0 \in 0..300 /\ n.separate_colour_plane_flag \in Bit
      BY DEF CodableSPS, Bit
    <3>2. p1 \in Seq(Bit)
      <4>1. n.chroma_format_idc \in 0..300
        BY <3>1
      <4> QED
        BY ONLY <4>1, BitsTypes
    <3>3. p2 \in Seq(Bit) /\ <<0>> \in Seq(Bit)
      BY <3>1, BitsTypes
    <3>4. Ue(0) \in Seq(Bit)
      BY ONLY <3>1, BitsTypes
    <3>5. CodedScaling(n.scaling) \in Seq(Bit)
      BY CodedScalingType
    <3>6. SPSHigh(n) = p1 \o p2 \o Ue(0) \o Ue(0) \o <<0>> \o CodedScaling(n.scaling)
      BY DEF SPSHigh
    <3> HIDE DEF p1, p2
    <3> QED
      BY ONLY <3>2, <3>3, <3>4, <3>5, <3>6, ConcatProperties
  <2> QED
    BY <2>1, BitsTypes DEF SPSMiddle
<1>3. SPSOrder(n) \in Seq(Bit)
  BY OrderType
<1>4. Ue(n.log2_max_frame_num - 4) \in Seq(Bit)
  <2>1. n.log2_max_frame_num - 4 \in 0..300
    BY DEF CodableSPS
  <2> QED
    BY ONLY <2>1, BitsTypes
<1>5. Ue(n.pic_order_cnt_type) \in Seq(Bit)
  <2>1. n.pic_order_cnt_type \in 0..300
    BY DEF CodableSPS
  <2> QED
    BY ONLY <2>1, BitsTypes
<1>6. Ue(2) \in Seq(Bit) /\ Ue(119) \in Seq(Bit) /\ Ue(67) \in Seq(Bit)
  <2>1. 2 \in 0..300 /\ 119 \in 0..300 /\ 67 \in 0..300
    OBVIOUS
  <2> QED
    BY ONLY <2>1, BitsTypes
<1>7. <<n.frame_mbs_only_flag>> \in Seq(Bit) /\ <<0>> \in Seq(Bit)
  BY BitsTypes DEF CodableSPS, Bit
<1> QED
  BY <1>1, <1>2, <1>3, <1>4, <1>5, <1>6, <1>7, DataType

LEMMA SPSPrefixes ==
  ASSUME NEW n, CodableSPS(n), NEW g \in Context, Ahead(g, CodedSPS(n))
  PROVE  /\ SPSTo11(n) \in Seq(Bit) /\ SPSTo12(n) \in Seq(Bit) /\ SPSTo13(n) \in Seq(Bit)
         /\ SPSTo19(n) \in Seq(Bit) /\ SPSTo20(n) \in Seq(Bit) /\ SPSTo21(n) \in Seq(Bit)
         /\ SPSTo22(n) \in Seq(Bit) /\ SPSTo23(n) \in Seq(Bit) /\ SPSTo24(n) \in Seq(Bit)
         /\ Ahead(g, SPSStart(n)) /\ Ahead(g, SPSTo11(n)) /\ Ahead(g, SPSTo12(n))
         /\ Ahead(g, SPSTo13(n)) /\ Ahead(g, SPSTo19(n)) /\ Ahead(g, SPSTo20(n))
         /\ Ahead(g, SPSTo21(n)) /\ Ahead(g, SPSTo22(n)) /\ Ahead(g, SPSTo23(n))
         /\ Ahead(g, SPSTo24(n))
<1>1. /\ SPSStart(n) \in Seq(Bit) /\ SPSMiddle(n) \in Seq(Bit)
      /\ Ue(n.log2_max_frame_num - 4) \in Seq(Bit) /\ Ue(n.pic_order_cnt_type) \in Seq(Bit)
      /\ SPSOrder(n) \in Seq(Bit) /\ Ue(2) \in Seq(Bit) /\ <<0>> \in Seq(Bit)
      /\ Ue(119) \in Seq(Bit) /\ Ue(67) \in Seq(Bit)
      /\ <<n.frame_mbs_only_flag>> \in Seq(Bit) /\ Data \in Seq(Bit)
  BY SPSParts
<1>2. SPSTo11(n) \in Seq(Bit)
  BY ONLY <1>1, ConcatProperties DEF SPSTo11
<1>3. SPSTo12(n) \in Seq(Bit)
  BY ONLY <1>1, <1>2, ConcatProperties DEF SPSTo12
<1>4. SPSTo13(n) \in Seq(Bit)
  BY ONLY <1>1, <1>3, ConcatProperties DEF SPSTo13
<1>5. SPSTo19(n) \in Seq(Bit)
  BY ONLY <1>1, <1>4, ConcatProperties DEF SPSTo19
<1>6. SPSTo20(n) \in Seq(Bit)
  BY ONLY <1>1, <1>5, ConcatProperties DEF SPSTo20
<1>7. SPSTo21(n) \in Seq(Bit)
  BY ONLY <1>1, <1>6, ConcatProperties DEF SPSTo21
<1>8. SPSTo22(n) \in Seq(Bit)
  BY ONLY <1>1, <1>7, ConcatProperties DEF SPSTo22
<1>9. SPSTo23(n) \in Seq(Bit)
  BY ONLY <1>1, <1>8, ConcatProperties DEF SPSTo23
<1>10. SPSTo24(n) \in Seq(Bit)
  BY ONLY <1>1, <1>9, ConcatProperties DEF SPSTo24
<1>11. Ahead(g, SPSTo24(n) \o Data)
  BY CodedSPSIs DEF SPSTo24, SPSTo23, SPSTo22, SPSTo21, SPSTo20, SPSTo19, SPSTo13, SPSTo12,
                    SPSTo11
<1>12. Ahead(g, SPSTo24(n))
  BY ONLY <1>1, <1>10, <1>11, g \in Context, AheadConcat
<1>13. Ahead(g, SPSTo23(n))
  BY ONLY <1>1, <1>9, <1>12, g \in Context, AheadConcat DEF SPSTo24
<1>14. Ahead(g, SPSTo22(n))
  BY ONLY <1>1, <1>8, <1>13, g \in Context, AheadConcat DEF SPSTo23
<1>15. Ahead(g, SPSTo21(n))
  BY ONLY <1>1, <1>7, <1>14, g \in Context, AheadConcat DEF SPSTo22
<1>16. Ahead(g, SPSTo20(n))
  BY ONLY <1>1, <1>6, <1>15, g \in Context, AheadConcat DEF SPSTo21
<1>17. Ahead(g, SPSTo19(n))
  BY ONLY <1>1, <1>5, <1>16, g \in Context, AheadConcat DEF SPSTo20
<1>18. Ahead(g, SPSTo13(n))
  BY ONLY <1>1, <1>4, <1>17, g \in Context, AheadConcat DEF SPSTo19
<1>19. Ahead(g, SPSTo12(n))
  BY ONLY <1>1, <1>3, <1>18, g \in Context, AheadConcat DEF SPSTo13
<1>20. Ahead(g, SPSTo11(n))
  BY ONLY <1>1, <1>2, <1>19, g \in Context, AheadConcat DEF SPSTo12
<1>21. Ahead(g, SPSStart(n))
  BY ONLY <1>1, <1>20, g \in Context, AheadConcat DEF SPSTo11
<1> QED
  BY <1>2, <1>3, <1>4, <1>5, <1>6, <1>7, <1>8, <1>9, <1>10, <1>12, <1>13, <1>14, <1>15,
     <1>16, <1>17, <1>18, <1>19, <1>20, <1>21

LEMMA CodedSPSType ==
  ASSUME NEW n, CodableSPS(n)
  PROVE  CodedSPS(n) \in Seq(Bit)
<1>1. /\ SPSStart(n) \in Seq(Bit) /\ SPSMiddle(n) \in Seq(Bit)
      /\ Ue(n.log2_max_frame_num - 4) \in Seq(Bit) /\ Ue(n.pic_order_cnt_type) \in Seq(Bit)
      /\ SPSOrder(n) \in Seq(Bit) /\ Ue(2) \in Seq(Bit) /\ <<0>> \in Seq(Bit)
      /\ Ue(119) \in Seq(Bit) /\ Ue(67) \in Seq(Bit)
      /\ <<n.frame_mbs_only_flag>> \in Seq(Bit) /\ Data \in Seq(Bit)
  BY SPSParts
<1> DEFINE a == <<n.frame_mbs_only_flag>>
           b == <<0>>
<1>2. CodedSPS(n) =
           SPSStart(n) \o SPSMiddle(n) \o Ue(n.log2_max_frame_num - 4)
           \o Ue(n.pic_order_cnt_type) \o SPSOrder(n)
           \o Ue(2) \o b \o Ue(119) \o Ue(67) \o a \o Data
  BY CodedSPSIs
<1>3. a \in Seq(Bit) /\ b \in Seq(Bit)
  BY <1>1
<1> HIDE DEF a, b
<1> QED
  BY ONLY <1>1, <1>2, <1>3, ConcatProperties

(* What the parser makes of the separate_colour_plane_flag, which it keeps *)
(* from an earlier set when this one has none.                             *)
ReadPlanes(s, old) ==
  IF HighProfile(s.profile_idc) /\ s.chroma_format_idc = 3
  THEN s.separate_colour_plane_flag ELSE old["separate_colour_plane_flag"]

LEMMA MiddleRead ==
  ASSUME NEW n, CodableSPS(n),
         NEW f, NEW base, Parsing(f, 24, SPS, SPSElements, base),
         base.gb \in Context, Ints(base.e), "separate_colour_plane_flag" \in DOMAIN base.e,
         Ahead(base.gb, CodedSPS(n))
  PROVE  /\ Reads(base.gb, f[11].gb, SPSTo11(n)) /\ Ints(f[11].e)
         /\ "separate_colour_plane_flag" \in DOMAIN f[11].e
         /\ f[11].e["separate_colour_plane_flag"] = ReadPlanes(n, base.e)
<1> DEFINE g == base.gb
           plane == "separate_colour_plane_flag"
<1>1. /\ Reads(g, f[4].gb, SPSStart(n)) /\ Ints(f[4].e)
      /\ "profile_idc" \in DOMAIN f[4].e /\ f[4].e["profile_idc"] = n.profile_idc
  <2>1. Ahead(g, SPSStart(n))
    BY SPSPrefixes
  <2> QED
    BY <2>1, StartRead
<1>2. f[4].gb \in Context
  BY <1>1 DEF Reads
<1>3. plane \in DOMAIN f[4].e /\ f[4].e[plane] = base.e[plane]
  <2>1. /\ f[0] = base
        /\ Stepped(f, 0, 1, "profile_idc")
        /\ Stepped(f, 1, 2, "constraint_flags")
        /\ Stepped(f, 2, 3, "level_idc")
        /\ Stepped(f, 3, 4, "seq_parameter_set_id")
    BY SPSSteps
  <2>2. plane \in DOMAIN f[1].e /\ f[1].e[plane] = base.e[plane]
    BY <2>1 DEF Stepped
  <2>3. plane \in DOMAIN f[2].e /\ f[2].e[plane] = base.e[plane]
    BY <2>1, <2>2 DEF Stepped
  <2>4. plane \in DOMAIN f[3].e /\ f[3].e[plane] = base.e[plane]
    BY <2>1, <2>3 DEF Stepped
  <2> QED
    BY <2>1, <2>4 DEF Stepped
<1>4. /\ Stepped(f, 5, 6, "separate_colour_plane_flag")
      /\ Stepped(f, 6, 7, "bit_depth_luma")
      /\ Stepped(f, 7, 8, "bit_depth_chroma")
      /\ Stepped(f, 8, 9, "qpprime_flag")
      /\ Stepped(f, 9, 10, "seq_scaling_matrix_present_flag")
      /\ Stepped(f, 10, 11, "lists")
  BY SPSSteps
<1>5. plane \in DOMAIN f[11].e
  BY <1>4 DEF Stepped
<1>6. /\ SPSStart(n) \in Seq(Bit) /\ SPSMiddle(n) \in Seq(Bit)
      /\ Ahead(g, SPSStart(n) \o SPSMiddle(n))
  BY SPSParts, SPSPrefixes DEF SPSTo11
<1>7. HighProfile(n.profile_idc) <=> n.profile_idc \in HighProfiles
  BY DEF HighProfile, HighProfiles
<1>8. CASE HighProfile(n.profile_idc)
  <2>1. SPSMiddle(n) = SPSHigh(n)
    BY <1>7, <1>8 DEF SPSMiddle
  <2>2. /\ Ahead(f[4].gb, SPSMiddle(n))
        /\ \A k : Reads(f[4].gb, k, SPSMiddle(n)) => Reads(g, k, SPSStart(n) \o SPSMiddle(n))
    <3> HIDE DEF g
    <3> QED
      BY ONLY <1>1, <1>6, ReadsNext
  <2>3. /\ Reads(f[4].gb, f[11].gb, SPSHigh(n)) /\ Ints(f[11].e)
        /\ f[11].e["separate_colour_plane_flag"]
             = IF n.chroma_format_idc = 3 THEN n.separate_colour_plane_flag
               ELSE f[4].e["separate_colour_plane_flag"]
    BY <1>1, <1>2, <1>3, <1>8, <2>1, <2>2, HighRead
  <2>4. Reads(g, f[11].gb, SPSTo11(n))
    BY <2>1, <2>2, <2>3 DEF SPSTo11
  <2> QED
    BY <1>3, <1>5, <1>8, <2>3, <2>4 DEF ReadPlanes
<1>9. CASE ~HighProfile(n.profile_idc)
  <2>1. SPSTo11(n) = SPSStart(n)
    <3>1. SPSMiddle(n) = <<>>
      BY <1>7, <1>9 DEF SPSMiddle
    <3> QED
      BY <1>6, <3>1, ConcatEmptySeq DEF SPSTo11
  <2>2. Reads(g, f[11].gb, SPSStart(n)) /\ Ints(f[11].e) /\ Extend(f[11].e, f[4].e)
    BY <1>1, <1>6, <1>9, LowRead
  <2>3. f[11].e[plane] = f[4].e[plane]
    BY <1>3, <2>2 DEF Extend
  <2> QED
    BY <1>3, <1>5, <1>9, <2>1, <2>2, <2>3 DEF ReadPlanes
<1> QED
  BY <1>8, <1>9

LEMMA OrderTypeRead ==
  ASSUME NEW n, CodableSPS(n),
         NEW f, NEW base, Parsing(f, 24, SPS, SPSElements, base),
         base.gb \in Context, Ints(base.e), "separate_colour_plane_flag" \in DOMAIN base.e,
         Ahead(base.gb, CodedSPS(n))
  PROVE  /\ Reads(base.gb, f[13].gb, SPSTo13(n)) /\ Ints(f[13].e)
         /\ f[12].gb.value = n.log2_max_frame_num
         /\ f[13].gb.value = n.pic_order_cnt_type
<1> DEFINE g == base.gb
<1>1. Reads(g, f[11].gb, SPSTo11(n)) /\ Ints(f[11].e)
  BY MiddleRead
<1>2. /\ Stepped(f, 11, 12, "log2_max_frame_num")
      /\ Stepped(f, 12, 13, "pic_order_cnt_type")
  BY SPSSteps
<1>3. f[12].gb = PlusFour(get_ue_golomb(f[11].gb)) /\ f[13].gb = get_ue_golomb(f[12].gb)
  BY <1>2, ElementsAlways DEF Stepped, PlusFour
<1>4. /\ SPSTo11(n) \in Seq(Bit) /\ SPSTo12(n) \in Seq(Bit)
      /\ Ahead(g, SPSTo12(n)) /\ Ahead(g, SPSTo13(n))
  BY SPSPrefixes
<1>5. Reads(g, f[12].gb, SPSTo12(n)) /\ f[12].gb.value = n.log2_max_frame_num
  <2> DEFINE v == n.log2_max_frame_num
  <2>1. v \in 4..16
    BY DEF CodableSPS
  <2>2. SPSTo12(n) = SPSTo11(n) \o Ue(v - 4)
    BY DEF SPSTo12
  <2> HIDE DEF v, g
  <2>3. Reads(g, f[12].gb, SPSTo11(n) \o Ue(v - 4)) /\ f[12].gb.value = v
    <3>1. Ahead(g, SPSTo11(n) \o Ue(v - 4))
      BY <1>4, <2>2
    <3> DEFINE h == f[11].gb
               k == f[12].gb
               s == SPSTo11(n)
    <3>2. k = PlusFour(get_ue_golomb(h)) /\ Reads(g, h, s) /\ s \in Seq(Bit)
          /\ Ahead(g, s \o Ue(v - 4))
      BY <1>1, <1>3, <1>4, <3>1
    <3> HIDE DEF h, k, s
    <3>3. Reads(g, k, s \o Ue(v - 4)) /\ k.value = v
      BY ONLY <2>1, <3>2, NextPlusFour
    <3> QED
      BY <3>3 DEF h, k, s
  <2> QED
    BY <2>2, <2>3 DEF v
<1>6. Reads(g, f[13].gb, SPSTo13(n)) /\ f[13].gb.value = n.pic_order_cnt_type
  <2> DEFINE v == n.pic_order_cnt_type
  <2>1. v \in Nat /\ v + 1 < 8192
    BY DEF CodableSPS
  <2>2. SPSTo13(n) = SPSTo12(n) \o Ue(v)
    BY DEF SPSTo13
  <2> HIDE DEF v, g
  <2>3. Reads(g, f[13].gb, SPSTo12(n) \o Ue(v)) /\ f[13].gb.value = v
    <3>1. Ahead(g, SPSTo12(n) \o Ue(v))
      BY <1>4, <2>2
    <3> QED
      BY ONLY <1>3, <1>4, <1>5, <2>1, <3>1, NextUe
  <2> QED
    BY <2>2, <2>3 DEF v
<1>7. f[12].gb \in Context /\ f[13].gb \in Context
  BY <1>5, <1>6 DEF Reads
<1>8. Ints(f[12].e)
  BY <1>1, <1>2, <1>7, SteppedInts
<1>9. Ints(f[13].e)
  BY <1>2, <1>7, <1>8, SteppedInts
<1> QED
  BY <1>5, <1>6, <1>9

LEMMA EndRead ==
  ASSUME NEW n, CodableSPS(n),
         NEW f, NEW base, Parsing(f, 24, SPS, SPSElements, base),
         base.gb \in Context, Ahead(base.gb, CodedSPS(n)),
         Reads(base.gb, f[19].gb, SPSTo19(n)), Ints(f[19].e)
  PROVE  Ints(f[24].e) /\ f[24].gb.value = n.frame_mbs_only_flag
<1> DEFINE g == base.gb
<1>1. /\ Stepped(f, 19, 20, "num_ref_frames")
      /\ Stepped(f, 20, 21, "gaps_flag")
      /\ Stepped(f, 21, 22, "pic_width")
      /\ Stepped(f, 22, 23, "pic_height")
      /\ Stepped(f, 23, 24, "frame_mbs_only_flag")
  BY SPSSteps
<1>2. /\ f[20].gb = get_ue_golomb(f[19].gb)
      /\ f[21].gb = get_bits1(f[20].gb)
      /\ f[22].gb = get_ue_golomb(f[21].gb)
      /\ f[23].gb = get_ue_golomb(f[22].gb)
      /\ f[24].gb = get_bits1(f[23].gb)
  BY <1>1, ElementsAlways DEF Stepped
<1>3. /\ SPSTo19(n) \in Seq(Bit) /\ SPSTo20(n) \in Seq(Bit) /\ SPSTo21(n) \in Seq(Bit)
      /\ SPSTo22(n) \in Seq(Bit) /\ SPSTo23(n) \in Seq(Bit)
      /\ Ahead(g, SPSTo20(n)) /\ Ahead(g, SPSTo21(n)) /\ Ahead(g, SPSTo22(n))
      /\ Ahead(g, SPSTo23(n)) /\ Ahead(g, SPSTo24(n))
  BY SPSPrefixes
<1>4. /\ 2 \in Nat /\ 2 + 1 < 8192 /\ 119 \in Nat /\ 119 + 1 < 8192
      /\ 67 \in Nat /\ 67 + 1 < 8192
  OBVIOUS
<1>5. 0 \in Bit /\ n.frame_mbs_only_flag \in Bit
  BY DEF Bit, CodableSPS
<1>6. Reads(g, f[20].gb, SPSTo20(n))
  BY <1>2, <1>3, <1>4, NextUe DEF SPSTo20
<1>7. Reads(g, f[21].gb, SPSTo21(n))
  BY <1>2, <1>3, <1>5, <1>6, NextBit DEF SPSTo21
<1>8. Reads(g, f[22].gb, SPSTo22(n))
  BY <1>2, <1>3, <1>4, <1>7, NextUe DEF SPSTo22
<1>9. Reads(g, f[23].gb, SPSTo23(n))
  BY <1>2, <1>3, <1>4, <1>8, NextUe DEF SPSTo23
<1>10. Reads(g, f[24].gb, SPSTo24(n)) /\ f[24].gb.value = n.frame_mbs_only_flag
  BY <1>2, <1>3, <1>5, <1>9, NextBit DEF SPSTo24
<1>11. /\ f[20].gb \in Context /\ f[21].gb \in Context /\ f[22].gb \in Context
       /\ f[23].gb \in Context /\ f[24].gb \in Context
  BY <1>6, <1>7, <1>8, <1>9, <1>10 DEF Reads
<1>12. Ints(f[20].e)
  BY <1>1, <1>11, SteppedInts
<1>13. Ints(f[21].e)
  BY <1>1, <1>11, <1>12, SteppedInts
<1>14. Ints(f[22].e)
  BY <1>1, <1>11, <1>13, SteppedInts
<1>15. Ints(f[23].e)
  BY <1>1, <1>11, <1>14, SteppedInts
<1>16. Ints(f[24].e)
  BY <1>1, <1>11, <1>15, SteppedInts
<1> QED
  BY <1>10, <1>16

(* What the parser has of a sequence parameter set is what the encoder      *)
(* wrote, except for what the set does not have.                            *)
ParameterNames ==
  {"separate_colour_plane_flag", "log2_max_frame_num", "pic_order_cnt_type",
   "log2_max_pic_order_cnt_lsb", "delta_pic_order_always_zero_flag", "frame_mbs_only_flag"}

Parameters == [ParameterNames -> Int]

LEMMA SPSRead ==
  ASSUME NEW n, CodableSPS(n), NEW old \in Parameters,
         NEW new, new = Parsed(SPS, SPSElements, old, CodedSPS(n))
  PROVE  /\ new \in Parameters
         /\ new["log2_max_frame_num"] = n.log2_max_frame_num
         /\ new["pic_order_cnt_type"] = n.pic_order_cnt_type
         /\ n.pic_order_cnt_type = 0 =>
              new["log2_max_pic_order_cnt_lsb"] = n.log2_max_pic_order_cnt_lsb
         /\ n.pic_order_cnt_type = 1 =>
              new["delta_pic_order_always_zero_flag"] = n.delta_pic_order_always_zero_flag
         /\ new["frame_mbs_only_flag"] = n.frame_mbs_only_flag
         /\ new["separate_colour_plane_flag"] = ReadPlanes(n, old)
<1> DEFINE base == [gb |-> init_get_bits(CodedSPS(n)), e |-> old]
<1>1. base.gb \in Context /\ Ahead(base.gb, CodedSPS(n))
  <2>1. CodedSPS(n) \in Seq(Bit)
    BY CodedSPSType
  <2>2. /\ init_get_bits(CodedSPS(n)).index = 0
        /\ init_get_bits(CodedSPS(n)).bits = CodedSPS(n)
    BY DEF init_get_bits
  <2> QED
    BY <2>1, <2>2, InitContext DEF Ahead
<1>2. PICK f : Parsing(f, 24, SPS, SPSElements, base)
               /\ new = [x \in DOMAIN old |-> f[24].e[x]]
  <2>1. Len(SPSElements) = 24 /\ Len(SPSElements) \in Nat
    BY SPSNames
  <2>2. PICK f : /\ Parsing(f, Len(SPSElements), SPS, SPSElements, base)
                 /\ new = [x \in DOMAIN old |-> f[Len(SPSElements)].e[x]]
    <3> DEFINE names == SPSElements
               bits == CodedSPS(n)
    <3>1. Len(names) \in Nat /\ new = Parsed(SPS, names, old, bits)
      BY <2>1
    <3> HIDE DEF names, bits
    <3>2. \E f : /\ Parsing(f, Len(names), SPS, names, [gb |-> init_get_bits(bits), e |-> old])
                /\ Parsed(SPS, names, old, bits) = [x \in DOMAIN old |-> f[Len(names)].e[x]]
      BY ONLY <3>1, ParsedIs
    <3> QED
      BY <3>1, <3>2 DEF names, bits
  <2> HIDE DEF base
  <2> QED
    BY <2>1, <2>2
<1>3. DOMAIN old = ParameterNames /\ Ints(old) /\ base.e = old
  BY DEF Parameters, Ints
<1>4. "separate_colour_plane_flag" \in DOMAIN base.e
  BY <1>3 DEF ParameterNames
<1> HIDE DEF base
<1>5. /\ "separate_colour_plane_flag" \in DOMAIN f[11].e
      /\ f[11].e["separate_colour_plane_flag"] = ReadPlanes(n, old)
  BY <1>1, <1>2, <1>3, <1>4, MiddleRead
<1>6. /\ Reads(base.gb, f[13].gb, SPSTo13(n)) /\ Ints(f[13].e)
      /\ f[12].gb.value = n.log2_max_frame_num
      /\ f[13].gb.value = n.pic_order_cnt_type
  BY <1>1, <1>2, <1>3, <1>4, OrderTypeRead
<1>7. /\ Stepped(f, 11, 12, "log2_max_frame_num")
      /\ Stepped(f, 12, 13, "pic_order_cnt_type")
      /\ Stepped(f, 13, 14, "log2_max_pic_order_cnt_lsb")
      /\ Stepped(f, 14, 15, "delta_pic_order_always_zero_flag")
      /\ Stepped(f, 23, 24, "frame_mbs_only_flag")
  BY <1>2, SPSSteps
<1>8. /\ "log2_max_frame_num" \in DOMAIN f[12].e
      /\ f[12].e["log2_max_frame_num"] = n.log2_max_frame_num
      /\ "pic_order_cnt_type" \in DOMAIN f[13].e
      /\ f[13].e["pic_order_cnt_type"] = n.pic_order_cnt_type
      /\ "log2_max_pic_order_cnt_lsb" \in DOMAIN f[14].e
      /\ "delta_pic_order_always_zero_flag" \in DOMAIN f[15].e
      /\ f[24].e["frame_mbs_only_flag"] = f[24].gb.value
  BY <1>6, <1>7 DEF Stepped
<1>9. /\ Reads(f[13].gb, f[19].gb, SPSOrder(n)) /\ Ints(f[19].e)
      /\ n.pic_order_cnt_type = 0 =>
           f[14].e["log2_max_pic_order_cnt_lsb"] = n.log2_max_pic_order_cnt_lsb
      /\ n.pic_order_cnt_type = 1 =>
           f[15].e["delta_pic_order_always_zero_flag"]
             = n.delta_pic_order_always_zero_flag
      /\ Reads(base.gb, f[19].gb, SPSTo19(n))
  <2>1. /\ SPSTo13(n) \in Seq(Bit) /\ SPSOrder(n) \in Seq(Bit)
        /\ Ahead(base.gb, SPSTo13(n) \o SPSOrder(n))
    BY <1>1, SPSParts, SPSPrefixes DEF SPSTo19
  <2>2. /\ Ahead(f[13].gb, SPSOrder(n))
        /\ \A k : Reads(f[13].gb, k, SPSOrder(n)) => Reads(base.gb, k, SPSTo13(n) \o SPSOrder(n))
    BY ONLY <1>6, <2>1, ReadsNext
  <2>3. f[13].gb \in Context
    BY <1>6 DEF Reads
  <2>4. /\ Reads(f[13].gb, f[19].gb, SPSOrder(n)) /\ Ints(f[19].e)
        /\ n.pic_order_cnt_type = 0 =>
             f[14].e["log2_max_pic_order_cnt_lsb"] = n.log2_max_pic_order_cnt_lsb
        /\ n.pic_order_cnt_type = 1 =>
             f[15].e["delta_pic_order_always_zero_flag"]
               = n.delta_pic_order_always_zero_flag
    BY <1>2, <1>6, <1>8, <2>2, <2>3, OrderRead
  <2> QED
    BY <2>2, <2>4 DEF SPSTo19
<1>10. Ints(f[24].e) /\ f[24].gb.value = n.frame_mbs_only_flag
  BY <1>1, <1>2, <1>9, EndRead
<1>11. ASSUME NEW y \in ParameterNames, NEW j \in {11, 12, 13, 14, 15}, y \in DOMAIN f[j].e,
              \A k \in (j + 1)..24 : SPSElements[k] # y
       PROVE  f[24].e[y] = f[j].e[y]
  <2>1. 24 \in Nat /\ j \in 0..24 /\ 24 \in j..24
    OBVIOUS
  <2> QED
    BY ONLY <1>2, <1>11, <2>1, ParsedKept
<1>12. /\ \A k \in 12..24 : SPSElements[k] # "separate_colour_plane_flag"
       /\ \A k \in 13..24 : SPSElements[k] # "log2_max_frame_num"
       /\ \A k \in 14..24 : SPSElements[k] # "pic_order_cnt_type"
       /\ \A k \in 15..24 : SPSElements[k] # "log2_max_pic_order_cnt_lsb"
       /\ \A k \in 16..24 : SPSElements[k] # "delta_pic_order_always_zero_flag"
  BY DEF SPSElements
<1>13. /\ f[24].e["separate_colour_plane_flag"] = ReadPlanes(n, old)
       /\ f[24].e["log2_max_frame_num"] = n.log2_max_frame_num
       /\ f[24].e["pic_order_cnt_type"] = n.pic_order_cnt_type
       /\ f[24].e["log2_max_pic_order_cnt_lsb"] = f[14].e["log2_max_pic_order_cnt_lsb"]
       /\ f[24].e["delta_pic_order_always_zero_flag"]
            = f[15].e["delta_pic_order_always_zero_flag"]
  <2>1. /\ 11 + 1 = 12 /\ 12 + 1 = 13 /\ 13 + 1 = 14 /\ 14 + 1 = 15 /\ 15 + 1 = 16
    OBVIOUS
  <2>2. f[24].e["separate_colour_plane_flag"] = f[11].e["separate_colour_plane_flag"]
    BY <1>5, <1>11, <1>12, <2>1 DEF ParameterNames
  <2>3. f[24].e["log2_max_frame_num"] = f[12].e["log2_max_frame_num"]
    BY <1>8, <1>11, <1>12, <2>1 DEF ParameterNames
  <2>4. f[24].e["pic_order_cnt_type"] = f[13].e["pic_order_cnt_type"]
    BY <1>8, <1>11, <1>12, <2>1 DEF ParameterNames
  <2>5. f[24].e["log2_max_pic_order_cnt_lsb"] = f[14].e["log2_max_pic_order_cnt_lsb"]
    BY <1>8, <1>11, <1>12, <2>1 DEF ParameterNames
  <2>6. f[24].e["delta_pic_order_always_zero_flag"]
          = f[15].e["delta_pic_order_always_zero_flag"]
    BY <1>8, <1>11, <1>12, <2>1 DEF ParameterNames
  <2> QED
    BY <1>5, <1>8, <2>2, <2>3, <2>4, <2>5, <2>6
<1>14. \A y \in ParameterNames : y \in DOMAIN f[24].e
  <2>1. \A k \in 0..24 : k \in 1..24 =>
          DOMAIN f[k].e = DOMAIN f[k - 1].e \cup {SPSElements[k]}
    <3>1. ASSUME NEW k \in 1..24
          PROVE  DOMAIN f[k].e = DOMAIN f[k - 1].e \cup {SPSElements[k]}
      BY <1>2, ParseOne
    <3> QED
      BY <3>1
  <2>2. \A k \in 0..24 : ParameterNames \subseteq DOMAIN f[k].e
    <3> DEFINE P(k) == ParameterNames \subseteq DOMAIN f[k].e
    <3>1. P(0)
      BY <1>2, <1>3 DEF Parsing
    <3>2. ASSUME NEW k \in 1..24, P(k - 1)
          PROVE  P(k)
      BY <2>1, <3>2
    <3> HIDE DEF P
    <3>3. \A k \in 0..24 : P(k)
      <4> DEFINE T == {k \in 0..24 : P(k)}
      <4>1. 0 \in T
        BY <3>1
      <4>2. \A k \in 1..24 : k - 1 \in T => k \in T
        BY <3>2
      <4>3. 24 \in Nat
        OBVIOUS
      <4> HIDE DEF T
      <4>4. \A k \in 0..24 : k \in T
        BY ONLY <4>1, <4>2, <4>3, BoundedInduction
      <4> QED
        BY <4>4 DEF T
    <3> QED
      BY <3>3 DEF P
  <2> QED
    BY <2>2
<1> QED
  <2>1. \A y \in ParameterNames : new[y] = f[24].e[y] /\ new[y] \in Int
    BY <1>2, <1>3, <1>10, <1>14 DEF Ints
  <2>2. new \in Parameters
    BY <1>2, <1>3, <2>1 DEF Parameters
  <2>3. /\ new["separate_colour_plane_flag"] = f[24].e["separate_colour_plane_flag"]
        /\ new["log2_max_frame_num"] = f[24].e["log2_max_frame_num"]
        /\ new["pic_order_cnt_type"] = f[24].e["pic_order_cnt_type"]
        /\ new["log2_max_pic_order_cnt_lsb"] = f[24].e["log2_max_pic_order_cnt_lsb"]
        /\ new["delta_pic_order_always_zero_flag"] = f[24].e["delta_pic_order_always_zero_flag"]
        /\ new["frame_mbs_only_flag"] = f[24].e["frame_mbs_only_flag"]
    BY <2>1 DEF ParameterNames
  <2> QED
    BY <1>8, <1>9, <1>10, <1>13, <2>2, <2>3

-----------------------------------------------------------------------------
(* The inductive invariant.                                                *)

HeaderNames ==
  {"frame_num", "pic_parameter_set_id", "field_pic_flag", "bottom_field_flag", "idr_pic_id",
   "pic_order_cnt_lsb", "delta_pic_order_cnt_bottom", "delta_pic_order_cnt_0",
   "delta_pic_order_cnt_1"}

Headers == [HeaderNames -> Int]

(* The stream without the NAL unit held back. *)
Done == SubSeq(input, 1, Len(input) - 1)

LastPlanes(s) ==
  SelectLastInSeq(s, LAMBDA n : n.type = SPS /\ n.profile_idc \in HighProfiles
                                /\ n.chroma_format_idc = 3)
LastPictureSet(s) == SelectLastInSeq(s, LAMBDA n : n.type = PPS)

(* The parser's parameters p are those of the set n. *)
SameParameters(p, n) ==
  /\ p["log2_max_frame_num"] = n.log2_max_frame_num
  /\ p["pic_order_cnt_type"] = n.pic_order_cnt_type
  /\ n.pic_order_cnt_type = 0 =>
       p["log2_max_pic_order_cnt_lsb"] = n.log2_max_pic_order_cnt_lsb
  /\ n.pic_order_cnt_type = 1 =>
       p["delta_pic_order_always_zero_flag"] = n.delta_pic_order_always_zero_flag
  /\ p["frame_mbs_only_flag"] = n.frame_mbs_only_flag

Typed ==
  /\ encoder \in Encoders
  /\ input \in Seq(Nals) /\ Len(input) <= MaxNals
  /\ m_nalu \in Seq(Nals) /\ Len(m_nalu) <= 1
  /\ Current \in Grouping
  /\ delivered \in Seq(AccessUnit)
  /\ sps \in Seq(Parameters)
  /\ m_pic_order_present_flag \in {-1, 0, 1}
  /\ header \in Headers
  /\ prev \in [HeaderNames \cup {"nal_ref_idc", "type"} -> Int]
  /\ aborted \in BOOLEAN

(* The last NAL unit is held back; a slice has its parameter sets before it. *)
HeldFrom(stream, held) ==
  IF stream = <<>> THEN held = <<>>
  ELSE LET nal == stream[Len(stream)]
           s == LastSPS(stream)
           p == LastPPS(stream, nal.pic_parameter_set_id)
       IN /\ held = <<nal>>
          /\ IsSlice(nal) => s # 0 /\ p # 0 /\ Codable(nal, stream[s], stream[p])

(* What is known of the parameter sets in the NAL units done. *)
KeptFrom(done, parameters, flag) ==
  LET s == LastSPS(done)
      planes == LastPlanes(done)
      p == LastPictureSet(done)
  IN /\ IF s = 0 THEN parameters = <<>>
        ELSE /\ parameters # <<>> /\ SameParameters(parameters[1], done[s])
             /\ parameters[1]["separate_colour_plane_flag"]
                  = IF planes = 0 THEN 0 ELSE done[planes].separate_colour_plane_flag
     /\ p # 0 => flag = done[p].pic_order_present_flag

Held == HeldFrom(input, m_nalu)
Kept == KeptFrom(Done, sps, m_pic_order_present_flag)

Grouped ==
  /\ FlaggedUnits(Current)
  /\ \A i \in DOMAIN delivered : Flagged(delivered[i]) /\ delivered[i].slices > 0
  /\ m_au.slices > 0 => /\ prev.frame_num # -1
                        /\ prev.type = SLICE_IDR <=> m_au.key = "IDR"
  /\ ~m_au_pending /\ m_au.nalus = <<>> /\ m_nalu # <<>> => m_nalu[1].type \in {SEI, SPS, PPS}

(* Nothing is lost, repeated or out of order. *)
Lossless ==
  ~aborted => FlattenSeq(NalusOf(Complete)) \o m_au.nalus \o m_nalu = input

IInv == Typed /\ Grouped /\ (~aborted => Held /\ Kept)

-----------------------------------------------------------------------------
(* The last of some positions. *)
LastIn(I) == IF I # {} THEN Max(I) ELSE 0

LEMMA LastInIs ==
  ASSUME NEW n \in Nat, NEW I, I \subseteq 1..n
  PROVE  /\ LastIn(I) \in 0..n
         /\ LastIn(I) = 0 <=> I = {}
         /\ I # {} => LastIn(I) \in I /\ \A i \in I : i <= LastIn(I)
<1>1. CASE I = {}
  BY <1>1 DEF LastIn
<1>2. CASE I # {}
  <2> DEFINE T == {k \in Nat : \A i \in I : i <= k}
  <2>1. n \in T /\ T \in SUBSET Nat /\ T # {}
    OBVIOUS
  <2> HIDE DEF T
  <2>2. PICK k \in T : \A y \in T : k <= y
    BY <2>1, LeastNumber
  <2>3. k \in Nat /\ \A i \in I : i <= k
    BY <2>2 DEF T
  <2>4. k \in I
    <3> SUFFICES ASSUME k \notin I PROVE FALSE
      OBVIOUS
    <3>1. \A i \in I : i \in Nat /\ i > 0 /\ i <= k - 1
      BY <2>3
    <3>2. k - 1 \in Nat
      <4>1. PICK i \in I : TRUE
        BY <1>2
      <4>2. i \in Nat /\ i > 0 /\ i <= k - 1
        BY <3>1, <4>1
      <4> QED
        BY ONLY <2>3, <4>2
    <3>3. k - 1 \in T
      BY <3>1, <3>2 DEF T
    <3> QED
      BY <2>2, <2>3, <3>2, <3>3
  <2>5. k \in I /\ \A i \in I : k >= i
    BY <2>3, <2>4
  <2>6. Max(I) \in I /\ \A i \in I : Max(I) >= i
    BY <2>5 DEF Max
  <2>7. LastIn(I) = Max(I)
    BY <1>2 DEF LastIn
  <2> HIDE DEF LastIn
  <2> DEFINE m == Max(I)
  <2>8. m \in I /\ LastIn(I) = m /\ \A i \in I : m >= i
    BY <2>6, <2>7
  <2> HIDE DEF m
  <2>9. m \in 1..n /\ \A i \in I : i \in 1..n
    BY <2>8
  <2>10. \A i \in I : i <= m
    BY <2>8, <2>9
  <2> QED
    BY ONLY <1>2, <2>8, <2>9, <2>10, n \in Nat
<1> QED
  BY <1>1, <1>2

(* The last NAL unit of a kind. *)
LastOf(s, K) == LastIn({i \in 1..Len(s) : s[i] \in K})

LEMMA LastOfIs ==
  ASSUME NEW s \in Seq(Nals), NEW K
  PROVE  /\ LastOf(s, K) \in 0..Len(s)
         /\ LastOf(s, K) # 0 => s[LastOf(s, K)] \in K
         /\ \A i \in 1..Len(s) : s[i] \in K => LastOf(s, K) # 0
<1> DEFINE I == {i \in 1..Len(s) : s[i] \in K}
<1>1. I \subseteq 1..Len(s) /\ Len(s) \in Nat
  OBVIOUS
<1>2. \A i \in I : i \in 1..Len(s) /\ s[i] \in K
  OBVIOUS
<1>3. \A i \in 1..Len(s) : s[i] \in K => I # {}
  OBVIOUS
<1> HIDE DEF I
<1>4. /\ LastIn(I) \in 0..Len(s)
      /\ LastIn(I) = 0 <=> I = {}
      /\ I # {} => LastIn(I) \in I
  BY ONLY <1>1, LastInIs
<1>5. LastOf(s, K) = LastIn(I)
  BY DEF LastOf, I
<1> QED
  BY <1>2, <1>3, <1>4, <1>5

LEMMA LastOfAppend ==
  ASSUME NEW s \in Seq(Nals), NEW n \in Nals, NEW K
  PROVE  LastOf(Append(s, n), K) = IF n \in K THEN Len(s) + 1 ELSE LastOf(s, K)
<1> DEFINE I == {i \in 1..Len(s) : s[i] \in K}
           J == {i \in 1..Len(Append(s, n)) : Append(s, n)[i] \in K}
<1>1. /\ Len(s) \in Nat /\ Len(Append(s, n)) = Len(s) + 1
      /\ \A i \in 1..Len(s) : Append(s, n)[i] = s[i]
      /\ Append(s, n)[Len(s) + 1] = n
  BY AppendProperties
<1>2. CASE n \in K
  <2>1. J \subseteq 1..(Len(s) + 1) /\ Len(s) + 1 \in J
    BY <1>1, <1>2
  <2>2. Len(s) + 1 \in Nat /\ J # {}
    BY <1>1, <2>1
  <2> HIDE DEF J
  <2>3. LastIn(J) \in 0..(Len(s) + 1) /\ \A i \in J : i <= LastIn(J)
    BY <2>1, <2>2, LastInIs
  <2>4. Len(s) + 1 <= LastIn(J)
    BY <2>1, <2>3
  <2>5. LastIn(J) = Len(s) + 1
    BY <1>1, <2>3, <2>4
  <2> QED
    BY <1>2, <2>5 DEF LastOf, J
<1>3. CASE n \notin K
  <2>1. J = I
    BY <1>1, <1>3
  <2> QED
    BY <1>3, <2>1 DEF LastOf
<1> QED
  BY <1>2, <1>3

LEMMA LastOfNothing ==
  ASSUME NEW K
  PROVE  LastOf(<<>>, K) = 0
<1>1. {i \in 1..Len(<<>>) : <<>>[i] \in K} = {}
  OBVIOUS
<1> QED
  BY <1>1 DEF LastOf, LastIn

SetsOfSequence == {n \in Nals : n.type = SPS}
SetsOfPlanes == {n \in Nals : n.type = SPS /\ n.profile_idc \in HighProfiles
                              /\ n.chroma_format_idc = 3}
SetsOfPicture == {n \in Nals : n.type = PPS}
SetsOf(id) == {n \in Nals : n.type = PPS /\ n.pic_parameter_set_id = id}
Slices == {n \in Nals : IsSlice(n)}

LEMMA LastsAre ==
  ASSUME NEW s \in Seq(Nals)
  PROVE  /\ LastSPS(s) = LastOf(s, SetsOfSequence)
         /\ LastPlanes(s) = LastOf(s, SetsOfPlanes)
         /\ LastPictureSet(s) = LastOf(s, SetsOfPicture)
         /\ \A id : LastPPS(s, id) = LastOf(s, SetsOf(id))
<1>1. \A i \in 1..Len(s) : s[i] \in Nals
  BY ElementOfSeq
<1>2. LastSPS(s) = LastOf(s, SetsOfSequence)
  <2>1. {i \in 1..Len(s) : s[i].type = SPS} = {i \in 1..Len(s) : s[i] \in SetsOfSequence}
    BY <1>1 DEF SetsOfSequence
  <2> QED
    BY <2>1 DEF LastSPS, SelectLastInSeq, LastOf, LastIn
<1>3. LastPlanes(s) = LastOf(s, SetsOfPlanes)
  <2>1. {i \in 1..Len(s) : s[i].type = SPS /\ s[i].profile_idc \in HighProfiles
                           /\ s[i].chroma_format_idc = 3}
          = {i \in 1..Len(s) : s[i] \in SetsOfPlanes}
    BY <1>1 DEF SetsOfPlanes
  <2> QED
    BY <2>1 DEF LastPlanes, SelectLastInSeq, LastOf, LastIn
<1>4. LastPictureSet(s) = LastOf(s, SetsOfPicture)
  <2>1. {i \in 1..Len(s) : s[i].type = PPS} = {i \in 1..Len(s) : s[i] \in SetsOfPicture}
    BY <1>1 DEF SetsOfPicture
  <2> QED
    BY <2>1 DEF LastPictureSet, SelectLastInSeq, LastOf, LastIn
<1>5. ASSUME NEW id
      PROVE  LastPPS(s, id) = LastOf(s, SetsOf(id))
  <2>1. {i \in 1..Len(s) : s[i].type = PPS /\ s[i].pic_parameter_set_id = id}
          = {i \in 1..Len(s) : s[i] \in SetsOf(id)}
    BY <1>1 DEF SetsOf
  <2> QED
    BY <2>1 DEF LastPPS, SelectLastInSeq, LastOf, LastIn
<1> QED
  BY <1>2, <1>3, <1>4, <1>5

-----------------------------------------------------------------------------
(* A slice header is read: the elements one by one.                        *)

LEMMA HeaderElementNames ==
  /\ Len(HeaderElements) = 12
  /\ HeaderElements[1] = "first_mb_in_slice" /\ HeaderElements[2] = "slice_type"
  /\ HeaderElements[3] = "pic_parameter_set_id" /\ HeaderElements[4] = "colour_plane_id"
  /\ HeaderElements[5] = "frame_num" /\ HeaderElements[6] = "field_pic_flag"
  /\ HeaderElements[7] = "bottom_field_flag" /\ HeaderElements[8] = "idr_pic_id"
  /\ HeaderElements[9] = "pic_order_cnt_lsb" /\ HeaderElements[10] = "delta_pic_order_cnt_bottom"
  /\ HeaderElements[11] = "delta_pic_order_cnt_0" /\ HeaderElements[12] = "delta_pic_order_cnt_1"
BY DEF HeaderElements

(* The elements of every slice. *)
LEMMA HeaderAlways ==
  ASSUME NEW type, NEW gb, NEW e
  PROVE  /\ HeaderElement(type, "first_mb_in_slice", gb, e) = get_ue_golomb(gb)
         /\ HeaderElement(type, "slice_type", gb, e) = get_ue_golomb_31(gb)
         /\ HeaderElement(type, "pic_parameter_set_id", gb, e) = get_ue_golomb(gb)
         /\ HeaderElement(type, "colour_plane_id", gb, e)
              = IF sps[1].separate_colour_plane_flag = 1 THEN get_bits(gb, 2)
                ELSE Inferred(gb, 0)
         /\ HeaderElement(type, "frame_num", gb, e) = get_bits(gb, sps[1].log2_max_frame_num)
BY DEF HeaderElement

LEMMA HeaderFields ==
  ASSUME NEW type, NEW gb, NEW e
  PROVE  /\ HeaderElement(type, "field_pic_flag", gb, e)
              = IF sps[1].frame_mbs_only_flag = 1 THEN Inferred(gb, 0) ELSE get_bits1(gb)
         /\ HeaderElement(type, "bottom_field_flag", gb, e)
              = IF sps[1].frame_mbs_only_flag = 1 THEN Inferred(gb, -1)
                ELSE IF e.field_pic_flag = 1 THEN get_bits1(gb) ELSE Inferred(gb, 0)
         /\ HeaderElement(type, "idr_pic_id", gb, e)
              = IF type = SLICE_IDR THEN get_ue_golomb(gb) ELSE Inferred(gb, e["idr_pic_id"])
BY DEF HeaderElement

(* A frame may have elements of its bottom field. *)
Both(e) == m_pic_order_present_flag = 1 /\ e.field_pic_flag = 0

LEMMA HeaderOrder ==
  ASSUME NEW type, NEW gb, NEW e
  PROVE  /\ HeaderElement(type, "pic_order_cnt_lsb", gb, e)
              = IF sps[1].pic_order_cnt_type = 0
                THEN get_bits(gb, sps[1].log2_max_pic_order_cnt_lsb)
                ELSE Inferred(gb, e["pic_order_cnt_lsb"])
         /\ HeaderElement(type, "delta_pic_order_cnt_bottom", gb, e)
              = IF sps[1].pic_order_cnt_type = 0 /\ Both(e) THEN get_se_golomb(gb)
                ELSE Inferred(gb, 0)
         /\ HeaderElement(type, "delta_pic_order_cnt_0", gb, e)
              = IF sps[1].delta_pic_order_always_zero_flag = 1 THEN Inferred(gb, 0)
                ELSE IF sps[1].pic_order_cnt_type # 1
                THEN Inferred(gb, e["delta_pic_order_cnt_0"])
                ELSE get_se_golomb(gb)
         /\ HeaderElement(type, "delta_pic_order_cnt_1", gb, e)
              = IF sps[1].delta_pic_order_always_zero_flag = 1 THEN Inferred(gb, 0)
                ELSE IF sps[1].pic_order_cnt_type # 1
                THEN Inferred(gb, e["delta_pic_order_cnt_1"])
                ELSE IF Both(e) THEN get_se_golomb(gb) ELSE Inferred(gb, 0)
BY DEF HeaderElement, Both

SliceStepped(f, type, j, k, name) ==
  /\ f[k].gb = HeaderElement(type, name, f[j].gb, f[j].e)
  /\ DOMAIN f[k].e = DOMAIN f[j].e \cup {name}
  /\ f[k].e[name] = f[k].gb.value
  /\ \A y \in DOMAIN f[j].e : y # name => f[k].e[y] = f[j].e[y]

LEMMA HeaderSteps ==
  ASSUME NEW type, type # SPS,
         NEW f, NEW base, Parsing(f, 12, type, HeaderElements, base)
  PROVE  /\ f[0] = base
         /\ SliceStepped(f, type, 0, 1, "first_mb_in_slice")
         /\ SliceStepped(f, type, 1, 2, "slice_type")
         /\ SliceStepped(f, type, 2, 3, "pic_parameter_set_id")
         /\ SliceStepped(f, type, 3, 4, "colour_plane_id")
         /\ SliceStepped(f, type, 4, 5, "frame_num")
         /\ SliceStepped(f, type, 5, 6, "field_pic_flag")
         /\ SliceStepped(f, type, 6, 7, "bottom_field_flag")
         /\ SliceStepped(f, type, 7, 8, "idr_pic_id")
         /\ SliceStepped(f, type, 8, 9, "pic_order_cnt_lsb")
         /\ SliceStepped(f, type, 9, 10, "delta_pic_order_cnt_bottom")
         /\ SliceStepped(f, type, 10, 11, "delta_pic_order_cnt_0")
         /\ SliceStepped(f, type, 11, 12, "delta_pic_order_cnt_1")
<1>1. ASSUME NEW k \in 1..12, NEW name, name = HeaderElements[k]
      PROVE  SliceStepped(f, type, k - 1, k, name)
  <2>1. /\ f[k].gb = Element(type, name, f[k - 1].gb, f[k - 1].e)
        /\ DOMAIN f[k].e = DOMAIN f[k - 1].e \cup {name}
        /\ f[k].e[name] = f[k].gb.value
        /\ \A y \in DOMAIN f[k - 1].e : y # name => f[k].e[y] = f[k - 1].e[y]
    <3>1. 12 \in Nat
      OBVIOUS
    <3> QED
      BY <1>1, <3>1, ParseOne
  <2> QED
    BY <2>1 DEF SliceStepped, Element
<1>2. ASSUME NEW j \in 0..11
      PROVE  SliceStepped(f, type, j, j + 1, HeaderElements[j + 1])
  <2>1. j + 1 \in 1..12 /\ (j + 1) - 1 = j
    OBVIOUS
  <2>2. SliceStepped(f, type, (j + 1) - 1, j + 1, HeaderElements[j + 1])
    BY <1>1, <2>1
  <2> QED
    BY ONLY <2>1, <2>2
<1>3. SliceStepped(f, type, 0, 1, "first_mb_in_slice")
  <2>1. 0 \in 0..11 /\ 0 + 1 = 1 /\ HeaderElements[1] = "first_mb_in_slice"
    BY HeaderElementNames
  <2>2. SliceStepped(f, type, 0, 0 + 1, HeaderElements[0 + 1])
    BY <1>2, <2>1
  <2> QED
    BY ONLY <2>1, <2>2
<1>4. SliceStepped(f, type, 1, 2, "slice_type")
  <2>1. 1 \in 0..11 /\ 1 + 1 = 2 /\ HeaderElements[2] = "slice_type"
    BY HeaderElementNames
  <2>2. SliceStepped(f, type, 1, 1 + 1, HeaderElements[1 + 1])
    BY <1>2, <2>1
  <2> QED
    BY ONLY <2>1, <2>2
<1>5. SliceStepped(f, type, 2, 3, "pic_parameter_set_id")
  <2>1. 2 \in 0..11 /\ 2 + 1 = 3 /\ HeaderElements[3] = "pic_parameter_set_id"
    BY HeaderElementNames
  <2>2. SliceStepped(f, type, 2, 2 + 1, HeaderElements[2 + 1])
    BY <1>2, <2>1
  <2> QED
    BY ONLY <2>1, <2>2
<1>6. SliceStepped(f, type, 3, 4, "colour_plane_id")
  <2>1. 3 \in 0..11 /\ 3 + 1 = 4 /\ HeaderElements[4] = "colour_plane_id"
    BY HeaderElementNames
  <2>2. SliceStepped(f, type, 3, 3 + 1, HeaderElements[3 + 1])
    BY <1>2, <2>1
  <2> QED
    BY ONLY <2>1, <2>2
<1>7. SliceStepped(f, type, 4, 5, "frame_num")
  <2>1. 4 \in 0..11 /\ 4 + 1 = 5 /\ HeaderElements[5] = "frame_num"
    BY HeaderElementNames
  <2>2. SliceStepped(f, type, 4, 4 + 1, HeaderElements[4 + 1])
    BY <1>2, <2>1
  <2> QED
    BY ONLY <2>1, <2>2
<1>8. SliceStepped(f, type, 5, 6, "field_pic_flag")
  <2>1. 5 \in 0..11 /\ 5 + 1 = 6 /\ HeaderElements[6] = "field_pic_flag"
    BY HeaderElementNames
  <2>2. SliceStepped(f, type, 5, 5 + 1, HeaderElements[5 + 1])
    BY <1>2, <2>1
  <2> QED
    BY ONLY <2>1, <2>2
<1>9. SliceStepped(f, type, 6, 7, "bottom_field_flag")
  <2>1. 6 \in 0..11 /\ 6 + 1 = 7 /\ HeaderElements[7] = "bottom_field_flag"
    BY HeaderElementNames
  <2>2. SliceStepped(f, type, 6, 6 + 1, HeaderElements[6 + 1])
    BY <1>2, <2>1
  <2> QED
    BY ONLY <2>1, <2>2
<1>10. SliceStepped(f, type, 7, 8, "idr_pic_id")
  <2>1. 7 \in 0..11 /\ 7 + 1 = 8 /\ HeaderElements[8] = "idr_pic_id"
    BY HeaderElementNames
  <2>2. SliceStepped(f, type, 7, 7 + 1, HeaderElements[7 + 1])
    BY <1>2, <2>1
  <2> QED
    BY ONLY <2>1, <2>2
<1>11. SliceStepped(f, type, 8, 9, "pic_order_cnt_lsb")
  <2>1. 8 \in 0..11 /\ 8 + 1 = 9 /\ HeaderElements[9] = "pic_order_cnt_lsb"
    BY HeaderElementNames
  <2>2. SliceStepped(f, type, 8, 8 + 1, HeaderElements[8 + 1])
    BY <1>2, <2>1
  <2> QED
    BY ONLY <2>1, <2>2
<1>12. SliceStepped(f, type, 9, 10, "delta_pic_order_cnt_bottom")
  <2>1. 9 \in 0..11 /\ 9 + 1 = 10 /\ HeaderElements[10] = "delta_pic_order_cnt_bottom"
    BY HeaderElementNames
  <2>2. SliceStepped(f, type, 9, 9 + 1, HeaderElements[9 + 1])
    BY <1>2, <2>1
  <2> QED
    BY ONLY <2>1, <2>2
<1>13. SliceStepped(f, type, 10, 11, "delta_pic_order_cnt_0")
  <2>1. 10 \in 0..11 /\ 10 + 1 = 11 /\ HeaderElements[11] = "delta_pic_order_cnt_0"
    BY HeaderElementNames
  <2>2. SliceStepped(f, type, 10, 10 + 1, HeaderElements[10 + 1])
    BY <1>2, <2>1
  <2> QED
    BY ONLY <2>1, <2>2
<1>14. SliceStepped(f, type, 11, 12, "delta_pic_order_cnt_1")
  <2>1. 11 \in 0..11 /\ 11 + 1 = 12 /\ HeaderElements[12] = "delta_pic_order_cnt_1"
    BY HeaderElementNames
  <2>2. SliceStepped(f, type, 11, 11 + 1, HeaderElements[11 + 1])
    BY <1>2, <2>1
  <2> QED
    BY ONLY <2>1, <2>2
<1>15. f[0] = base
  BY DEF Parsing
<1> QED
  BY <1>3, <1>4, <1>5, <1>6, <1>7, <1>8, <1>9, <1>10, <1>11, <1>12, <1>13, <1>14, <1>15

(* Parameters a slice header can be read with. *)
Usable(p) ==
  /\ p \in Parameters
  /\ p["log2_max_frame_num"] \in 4..16
  /\ p["pic_order_cnt_type"] = 0 => p["log2_max_pic_order_cnt_lsb"] \in 4..16

(* Whatever the bits are, each element is a number. *)
LEMMA HeaderElementType ==
  ASSUME NEW type, NEW name \in {HeaderElements[i] : i \in 1..12}, Usable(sps[1]),
         NEW gb \in Context, NEW e, Ints(e), HeaderNames \subseteq DOMAIN e
  PROVE  HeaderElement(type, name, gb, e) \in Context
<1>1. /\ get_ue_golomb(gb) \in Context /\ get_ue_golomb_31(gb) \in Context
      /\ get_bits1(gb) \in Context /\ get_se_golomb(gb) \in Context
      /\ \A n \in 0..32 : get_bits(gb, n) \in Context
      /\ \A v \in Int : Inferred(gb, v) \in Context
  BY GetUeType, GetUe31Type, GetBits1Type, GetSeType, GetBitsType, InferredType
<1>2. 2 \in 0..32 /\ sps[1].log2_max_frame_num \in 0..32
      /\ (sps[1].pic_order_cnt_type = 0 => sps[1].log2_max_pic_order_cnt_lsb \in 0..32)
  BY DEF Usable
<1>3. /\ e["idr_pic_id"] \in Int /\ e["pic_order_cnt_lsb"] \in Int
      /\ e["delta_pic_order_cnt_0"] \in Int /\ e["delta_pic_order_cnt_1"] \in Int
      /\ 0 \in Int /\ -1 \in Int
  BY DEF Ints, HeaderNames
<1> USE <1>1, <1>2, <1>3
<1>4. CASE name = "first_mb_in_slice"
  BY <1>4, HeaderAlways
<1>5. CASE name = "slice_type"
  BY <1>5, HeaderAlways
<1>6. CASE name = "pic_parameter_set_id"
  BY <1>6, HeaderAlways
<1>7. CASE name = "colour_plane_id"
  BY <1>7, HeaderAlways
<1>8. CASE name = "frame_num"
  BY <1>8, HeaderAlways
<1>9. CASE name = "field_pic_flag"
  BY <1>9, HeaderFields
<1>10. CASE name = "bottom_field_flag"
  BY <1>10, HeaderFields
<1>11. CASE name = "idr_pic_id"
  BY <1>11, HeaderFields
<1>12. CASE name = "pic_order_cnt_lsb"
  BY <1>12, HeaderOrder
<1>13. CASE name = "delta_pic_order_cnt_bottom"
  BY <1>13, HeaderOrder
<1>14. CASE name = "delta_pic_order_cnt_0"
  BY <1>14, HeaderOrder
<1>15. CASE name = "delta_pic_order_cnt_1"
  BY <1>15, HeaderOrder
<1> QED
  BY <1>4, <1>5, <1>6, <1>7, <1>8, <1>9, <1>10, <1>11, <1>12, <1>13, <1>14, <1>15,
     HeaderElementNames

LEMMA HeaderTyped ==
  ASSUME NEW type, type # SPS, Usable(sps[1]),
         NEW f, NEW base, Parsing(f, 12, type, HeaderElements, base),
         base.gb \in Context, base.e \in Headers
  PROVE  \A k \in 0..12 : /\ f[k].gb \in Context /\ Ints(f[k].e)
                          /\ HeaderNames \subseteq DOMAIN f[k].e
<1> DEFINE P(k) == f[k].gb \in Context /\ Ints(f[k].e) /\ HeaderNames \subseteq DOMAIN f[k].e
           S == {k \in 0..12 : P(k)}
<1>1. 0 \in S
  <2>1. f[0] = base
    BY DEF Parsing
  <2>2. Ints(base.e) /\ DOMAIN base.e = HeaderNames
    BY DEF Headers, Ints
  <2>3. 0 \in 0..12
    OBVIOUS
  <2> QED
    BY <2>1, <2>2, <2>3
<1>2. ASSUME NEW k \in 1..12, k - 1 \in S
      PROVE  k \in S
  <2> DEFINE name == HeaderElements[k]
  <2>1. k \in 0..12 /\ P(k - 1) /\ 12 \in Nat
    BY <1>2
  <2>2. /\ f[k].gb = Element(type, name, f[k - 1].gb, f[k - 1].e)
        /\ DOMAIN f[k].e = DOMAIN f[k - 1].e \cup {name}
        /\ f[k].e[name] = f[k].gb.value
        /\ \A y \in DOMAIN f[k - 1].e : y # name => f[k].e[y] = f[k - 1].e[y]
    <3> HIDE DEF P
    <3> QED
      BY <2>1, ParseOne
  <2>3. name \in {HeaderElements[i] : i \in 1..12}
    OBVIOUS
  <2> HIDE DEF name
  <2>4. f[k].gb = HeaderElement(type, name, f[k - 1].gb, f[k - 1].e)
    BY <2>2 DEF Element
  <2>5. f[k].gb \in Context
    BY <2>1, <2>3, <2>4, HeaderElementType
  <2>6. f[k].gb.value \in Int
    BY <2>5 DEF Context
  <2>7. Ints(f[k].e)
    BY <2>1, <2>2, <2>6 DEF Ints
  <2> QED
    BY <2>1, <2>2, <2>5, <2>7
<1> HIDE DEF S
<1>3. 12 \in Nat
  OBVIOUS
<1>4. \A k \in 0..12 : k \in S
  BY ONLY <1>1, <1>2, <1>3, BoundedInduction
<1> QED
  BY <1>4 DEF S

Decoding(f, type, bits) ==
  /\ Parsing(f, 12, type, HeaderElements, [gb |-> init_get_bits(bits), e |-> header])
  /\ \A k \in 0..12 : /\ f[k].gb \in Context /\ Ints(f[k].e)
                      /\ HeaderNames \subseteq DOMAIN f[k].e
  /\ Decoded(type, bits) \in Headers
  /\ \A y \in HeaderNames : Decoded(type, bits)[y] = f[12].e[y]

LEMMA DecodedIs ==
  ASSUME NEW type, type # SPS, sps # <<>>, Usable(sps[1]), header \in Headers,
         NEW bits \in Seq(Bit)
  PROVE  \E f : Decoding(f, type, bits)
<1> DEFINE base == [gb |-> init_get_bits(bits), e |-> header]
           names == HeaderElements
<1>1. Len(names) = 12 /\ Len(names) \in Nat
  BY HeaderElementNames
<1> HIDE DEF names
<1>2. \E f : /\ Parsing(f, Len(names), type, names, [gb |-> init_get_bits(bits), e |-> header])
             /\ Parsed(type, names, header, bits) = [x \in DOMAIN header |-> f[Len(names)].e[x]]
  <2>1. PICK old : old = header
    OBVIOUS
  <2>2. \E f : /\ Parsing(f, Len(names), type, names, [gb |-> init_get_bits(bits), e |-> old])
               /\ Parsed(type, names, old, bits) = [x \in DOMAIN old |-> f[Len(names)].e[x]]
    <3>1. Len(names) \in Nat
      BY <1>1
    <3> QED
      BY ONLY <3>1, ParsedIs
  <2> QED
    BY <2>1, <2>2
<1>3. PICK f : /\ Parsing(f, 12, type, names, base)
               /\ Parsed(type, names, header, bits) = [x \in DOMAIN header |-> f[12].e[x]]
  BY <1>1, <1>2
<1>4. base.gb \in Context /\ base.e \in Headers
  BY InitContext
<1>5. Decoded(type, bits) = [x \in HeaderNames |-> f[12].e[x]]
  BY <1>3 DEF Decoded, names, Headers
<1>6. \A k \in 0..12 : /\ f[k].gb \in Context /\ Ints(f[k].e)
                       /\ HeaderNames \subseteq DOMAIN f[k].e
  <2> HIDE DEF base
  <2> QED
    BY <1>3, <1>4, HeaderTyped DEF names
<1>7. \A y \in HeaderNames : f[12].e[y] \in Int
  <2>1. 12 \in 0..12
    OBVIOUS
  <2> QED
    BY <1>6, <2>1 DEF Ints
<1>8. Decoded(type, bits) \in Headers
  BY <1>5, <1>7 DEF Headers
<1> QED
  BY <1>3, <1>5, <1>6, <1>8 DEF names, Decoding

(* A frame_num that has been read is not the -1 of the beginning. *)
LEMMA DecodedType ==
  ASSUME NEW type, type # SPS, sps # <<>>, Usable(sps[1]), header \in Headers,
         NEW bits \in Seq(Bit)
  PROVE  Decoded(type, bits) \in Headers /\ Decoded(type, bits)["frame_num"] \in Nat
<1> DEFINE base == [gb |-> init_get_bits(bits), e |-> header]
<1>1. PICK f : /\ Parsing(f, 12, type, HeaderElements, base)
               /\ \A k \in 0..12 : /\ f[k].gb \in Context /\ Ints(f[k].e)
                                   /\ HeaderNames \subseteq DOMAIN f[k].e
               /\ Decoded(type, bits) \in Headers
               /\ \A y \in HeaderNames : Decoded(type, bits)[y] = f[12].e[y]
  <2>1. \E f : Decoding(f, type, bits)
    BY DecodedIs
  <2> QED
    BY <2>1 DEF Decoding
<1> HIDE DEF base
<1>2. SliceStepped(f, type, 4, 5, "frame_num")
  BY <1>1, HeaderSteps
<1>3. f[5].gb = get_bits(f[4].gb, sps[1].log2_max_frame_num)
  BY <1>2, HeaderAlways DEF SliceStepped
<1>4. f[5].gb.value \in Nat
  <2>1. sps[1].log2_max_frame_num \in 0..32
    BY DEF Usable
  <2>2. 4 \in 0..12
    OBVIOUS
  <2>3. f[4].gb \in Context
    BY <1>1, <2>2
  <2> QED
    BY <1>3, <2>1, <2>3, GetBitsType
<1>5. "frame_num" \in DOMAIN f[5].e /\ f[5].e["frame_num"] \in Nat
  BY <1>2, <1>4 DEF SliceStepped
<1>6. f[12].e["frame_num"] = f[5].e["frame_num"]
  <2>1. \A k \in (5 + 1)..12 : HeaderElements[k] # "frame_num"
    BY DEF HeaderElements
  <2>2. 12 \in Nat /\ 5 \in 0..12 /\ 12 \in 5..12
    OBVIOUS
  <2> QED
    BY ONLY <1>1, <1>5, <2>1, <2>2, ParsedKept
<1> QED
  BY <1>1, <1>5, <1>6 DEF HeaderNames

-----------------------------------------------------------------------------
(* A picture parameter set is read. *)
LEMMA PPSRead ==
  ASSUME NEW n, CodablePPS(n),
         NEW id, id = get_ue_golomb(init_get_bits(CodedPPS(n))),
         NEW present, present = get_bits1(get_bits1(get_ue_golomb(id)))
  PROVE  /\ id.value \in Int /\ id.value = n.pic_parameter_set_id
         /\ present.value = n.pic_order_present_flag
<1> DEFINE g == init_get_bits(CodedPPS(n))
           p1 == Ue(n.pic_parameter_set_id)
           p2 == p1 \o Ue(0)
           flag == n.pic_order_present_flag
           p3 == p2 \o <<1>>
           p4 == p3 \o <<flag>>
           h == get_ue_golomb(id)
           b == get_bits1(h)
<1>1. /\ n.pic_parameter_set_id \in Nat /\ n.pic_parameter_set_id + 1 < 8192
      /\ n.pic_parameter_set_id \in 0..300 /\ flag \in Bit /\ 1 \in Bit
      /\ 0 \in 0..300 /\ 0 \in Nat /\ 0 + 1 < 8192
  BY DEF CodablePPS, Bit
<1>2. p1 \in Seq(Bit) /\ Ue(0) \in Seq(Bit)
  <2>1. n.pic_parameter_set_id \in 0..300 /\ 0 \in 0..300
    BY <1>1
  <2> QED
    BY ONLY <2>1, BitsTypes
<1>3. <<1>> \in Seq(Bit) /\ <<flag>> \in Seq(Bit) /\ Data \in Seq(Bit)
  BY <1>1, BitsTypes, DataType
<1>4. CodedPPS(n) = p4 \o Data
  <2>1. CodedPPS(n) = p2 \o <<1, flag>> \o Data
    BY DEF CodedPPS
  <2>2. p2 \in Seq(Bit)
    <3> HIDE DEF p1
    <3> QED
      BY ONLY <1>2, ConcatProperties
  <2>3. p2 \o <<1, flag>> = (p2 \o <<1>>) \o <<flag>>
    <3> HIDE DEF p2, flag
    <3> QED
      BY <1>1, <2>2
  <2> QED
    BY <2>1, <2>3
<1> HIDE DEF p1, flag
<1>5. p2 \in Seq(Bit)
  BY ONLY <1>2, ConcatProperties
<1> HIDE DEF p2
<1>6. p3 \in Seq(Bit)
  BY ONLY <1>3, <1>5, ConcatProperties
<1> HIDE DEF p3
<1>7. p4 \in Seq(Bit)
  BY ONLY <1>3, <1>6, ConcatProperties
<1> HIDE DEF p4
<1>8. CodedPPS(n) \in Seq(Bit)
  BY ONLY <1>3, <1>4, <1>7, ConcatProperties
<1>9. g \in Context /\ Ahead(g, p4 \o Data)
  <2>1. g \in Context
    BY <1>8, InitContext
  <2> QED
    BY <1>4, <1>8, <2>1 DEF init_get_bits, Ahead
<1> HIDE DEF g
<1>10. Ahead(g, p4)
  BY ONLY <1>3, <1>7, <1>9, AheadConcat
<1>11. Ahead(g, p3)
  BY ONLY <1>3, <1>6, <1>9, <1>10, AheadConcat DEF p4
<1>12. Ahead(g, p2)
  BY ONLY <1>3, <1>5, <1>9, <1>11, AheadConcat DEF p3
<1>13. Ahead(g, p1)
  BY ONLY <1>2, <1>9, <1>12, AheadConcat DEF p2
<1>14. Reads(g, id, p1) /\ id.value = n.pic_parameter_set_id
  <2>1. id = get_ue_golomb(g)
    BY DEF g
  <2> QED
    BY <1>1, <1>9, <1>13, <2>1, ReadsUe DEF p1
<1>15. Reads(g, h, p2)
  BY <1>1, <1>2, <1>12, <1>14, NextUe DEF p2
<1> HIDE DEF h
<1>16. Reads(g, b, p3)
  BY <1>1, <1>5, <1>11, <1>15, NextBit DEF p3
<1>17. present = get_bits1(b)
  BY DEF h
<1> HIDE DEF b
<1>18. present.value = flag
  BY <1>1, <1>6, <1>10, <1>16, <1>17, NextBit DEF p4
<1> QED
  BY <1>1, <1>14, <1>18 DEF flag

-----------------------------------------------------------------------------
(* The code of a slice header, and what is before an element. *)
PlanesPart(s) == IF s.separate_colour_plane_flag = 1 THEN <<0, 1>> ELSE <<>>

FieldPart(n, s) ==
  IF s.frame_mbs_only_flag = 1 THEN <<>>
  ELSE IF n.field_pic_flag = 0 THEN <<0>> ELSE <<1, n.bottom_field_flag>>

IdrPart(n, idr) == IF idr THEN Ue(n.idr_pic_id) ELSE <<>>

Frame(n, p) == n.field_pic_flag = 0 /\ p.pic_order_present_flag = 1

LsbPart(n, s, p) ==
  Binary(s.log2_max_pic_order_cnt_lsb, n.pic_order_cnt_lsb)
  \o (IF Frame(n, p) THEN Se(n.delta_pic_order_cnt_bottom) ELSE <<>>)

DeltaPart(n, p) ==
  Se(n.delta_pic_order_cnt[1])
  \o (IF Frame(n, p) THEN Se(n.delta_pic_order_cnt[2]) ELSE <<>>)

OrderPart(n, s, p) ==
  CASE s.pic_order_cnt_type = 0 -> LsbPart(n, s, p)
    [] /\ s.pic_order_cnt_type = 1
       /\ s.delta_pic_order_always_zero_flag = 0 -> DeltaPart(n, p)
    [] OTHER -> <<>>

SliceTo2(n, idr) == Ue(n.first_mb_in_slice) \o Ue(IF idr THEN 7 ELSE 5)
SliceTo3(n, idr) == SliceTo2(n, idr) \o Ue(n.pic_parameter_set_id)
SliceTo4(n, idr, s) == SliceTo3(n, idr) \o PlanesPart(s)
SliceTo5(n, idr, s) == SliceTo4(n, idr, s) \o Binary(s.log2_max_frame_num, n.frame_num)
SliceTo7(n, idr, s) == SliceTo5(n, idr, s) \o FieldPart(n, s)
SliceTo8(n, idr, s) == SliceTo7(n, idr, s) \o IdrPart(n, idr)
SliceTo12(n, idr, s, p) == SliceTo8(n, idr, s) \o OrderPart(n, s, p)

LEMMA CodedSliceIs ==
  ASSUME NEW n, NEW idr, NEW s, NEW p
  PROVE  CodedSlice(n, idr, s, p) = SliceTo12(n, idr, s, p) \o Data
BY DEF CodedSlice, SliceTo12, SliceTo8, SliceTo7, SliceTo5, SliceTo4, SliceTo3, SliceTo2,
       PlanesPart, FieldPart, IdrPart, OrderPart, LsbPart, DeltaPart, Frame

LEMMA SliceParts ==
  ASSUME NEW n, CodableSlice(n), NEW s, CodableSPS(s), NEW p, CodablePPS(p), Codable(n, s, p),
         NEW idr \in BOOLEAN
  PROVE  /\ Ue(n.first_mb_in_slice) \in Seq(Bit) /\ Ue(IF idr THEN 7 ELSE 5) \in Seq(Bit)
         /\ Ue(n.pic_parameter_set_id) \in Seq(Bit) /\ PlanesPart(s) \in Seq(Bit)
         /\ Binary(s.log2_max_frame_num, n.frame_num) \in Seq(Bit)
         /\ FieldPart(n, s) \in Seq(Bit) /\ IdrPart(n, idr) \in Seq(Bit)
         /\ s.pic_order_cnt_type = 0 =>
              Binary(s.log2_max_pic_order_cnt_lsb, n.pic_order_cnt_lsb) \in Seq(Bit)
         /\ Se(n.delta_pic_order_cnt_bottom) \in Seq(Bit)
         /\ Se(n.delta_pic_order_cnt[1]) \in Seq(Bit)
         /\ Se(n.delta_pic_order_cnt[2]) \in Seq(Bit)
         /\ OrderPart(n, s, p) \in Seq(Bit)
<1>1. Ue(n.first_mb_in_slice) \in Seq(Bit) /\ Ue(n.idr_pic_id) \in Seq(Bit)
  <2>1. 18 \in 0..30 /\ 16 \in 0..30 /\ 30 \in 0..31
    OBVIOUS
  <2>2. /\ 2 ^ 18 \in Nat /\ 2 ^ 18 <= 2 ^ 30 /\ 2 ^ 16 \in Nat /\ 2 ^ 16 <= 2 ^ 30
        /\ 2 ^ 30 \in Nat
    BY <2>1, PowersGrow
  <2> DEFINE a == 2 ^ 18
             b == 2 ^ 16
             c == 2 ^ 30
             v == n.first_mb_in_slice
             w == n.idr_pic_id
  <2>3. v \in 0..(a - 1) /\ w \in 0..(b - 1)
    BY DEF CodableSlice
  <2>4. a \in Nat /\ a <= c /\ b \in Nat /\ b <= c /\ c \in Nat
    BY <2>2
  <2> HIDE DEF a, b, c, v, w
  <2>5. v \in Nat /\ w \in Nat /\ v + 1 < c + 1 /\ w + 1 < c + 1
    BY ONLY <2>3, <2>4
  <2>6. 2 ^ 18 < 2 ^ 30 /\ 2 ^ 16 < 2 ^ 30
    OBVIOUS
  <2>7. v + 1 < c /\ w + 1 < c
    BY <2>3, <2>4, <2>6 DEF a, b, c
  <2>8. v + 1 < 2 ^ 30 /\ w + 1 < 2 ^ 30
    BY ONLY <2>7 DEF c
  <2>9. Ue(v) \in Seq(Bit) /\ Ue(w) \in Seq(Bit)
    BY ONLY <2>5, <2>8, UeType
  <2> QED
    BY <2>9 DEF v, w
<1>2. Ue(IF idr THEN 7 ELSE 5) \in Seq(Bit) /\ Ue(n.pic_parameter_set_id) \in Seq(Bit)
  <2> DEFINE v == n.pic_parameter_set_id
             w == IF idr THEN 7 ELSE 5
  <2>1. v \in 0..300 /\ w \in 0..300
    BY DEF CodableSlice
  <2> HIDE DEF v, w
  <2>2. Ue(v) \in Seq(Bit) /\ Ue(w) \in Seq(Bit)
    BY ONLY <2>1, BitsTypes
  <2> QED
    BY <2>2 DEF v, w
<1>3. PlanesPart(s) \in Seq(Bit) /\ FieldPart(n, s) \in Seq(Bit)
  <2>1. n.bottom_field_flag \in Bit /\ 0 \in Bit /\ 1 \in Bit
    BY DEF CodableSlice, Bit
  <2> QED
    BY <2>1 DEF PlanesPart, FieldPart
<1>4. IdrPart(n, idr) \in Seq(Bit)
  BY <1>1, BitsTypes DEF IdrPart
<1>5. Binary(s.log2_max_frame_num, n.frame_num) \in Seq(Bit)
  <2>1. s.log2_max_frame_num \in 0..30 /\ n.frame_num \in Nat
        /\ n.frame_num < 2 ^ s.log2_max_frame_num
    BY DEF CodableSPS, CodableSlice, Codable
  <2> QED
    BY ONLY <2>1, BinaryType
<1>6. ASSUME s.pic_order_cnt_type = 0
      PROVE  Binary(s.log2_max_pic_order_cnt_lsb, n.pic_order_cnt_lsb) \in Seq(Bit)
  <2>1. s.log2_max_pic_order_cnt_lsb \in 0..30 /\ n.pic_order_cnt_lsb \in Nat
        /\ n.pic_order_cnt_lsb < 2 ^ s.log2_max_pic_order_cnt_lsb
    BY <1>6 DEF CodableSPS, CodableSlice, Codable
  <2> QED
    BY ONLY <2>1, BinaryType
<1>7. /\ Se(n.delta_pic_order_cnt_bottom) \in Seq(Bit)
      /\ Se(n.delta_pic_order_cnt[1]) \in Seq(Bit)
      /\ Se(n.delta_pic_order_cnt[2]) \in Seq(Bit)
  <2>1. /\ n.delta_pic_order_cnt_bottom \in Differences
        /\ n.delta_pic_order_cnt[1] \in Differences
        /\ n.delta_pic_order_cnt[2] \in Differences
    BY DEF CodableSlice
  <2> QED
    BY ONLY <2>1, SeType
<1>8. OrderPart(n, s, p) \in Seq(Bit)
  <2> DEFINE x == Binary(s.log2_max_pic_order_cnt_lsb, n.pic_order_cnt_lsb)
             y == IF Frame(n, p) THEN Se(n.delta_pic_order_cnt_bottom) ELSE <<>>
             z == IF Frame(n, p) THEN Se(n.delta_pic_order_cnt[2]) ELSE <<>>
             w == Se(n.delta_pic_order_cnt[1])
  <2>1. y \in Seq(Bit) /\ z \in Seq(Bit) /\ w \in Seq(Bit)
    BY <1>7, BitsTypes
  <2>2. s.pic_order_cnt_type = 0 => x \in Seq(Bit)
    BY <1>6
  <2>3. LsbPart(n, s, p) = x \o y /\ DeltaPart(n, p) = w \o z
    BY DEF LsbPart, DeltaPart
  <2> HIDE DEF x, y, z, w
  <2>4. DeltaPart(n, p) \in Seq(Bit)
    BY ONLY <2>1, <2>3, ConcatProperties
  <2>5. s.pic_order_cnt_type = 0 => LsbPart(n, s, p) \in Seq(Bit)
    BY ONLY <2>1, <2>2, <2>3, ConcatProperties
  <2> QED
    BY <2>4, <2>5, BitsTypes DEF OrderPart
<1> QED
  BY <1>1, <1>2, <1>3, <1>4, <1>5, <1>6, <1>7, <1>8

LEMMA SlicePrefixTypes ==
  ASSUME NEW n, CodableSlice(n), NEW s, CodableSPS(s), NEW p, CodablePPS(p), Codable(n, s, p),
         NEW idr \in BOOLEAN
  PROVE  /\ SliceTo2(n, idr) \in Seq(Bit) /\ SliceTo3(n, idr) \in Seq(Bit)
         /\ SliceTo4(n, idr, s) \in Seq(Bit) /\ SliceTo5(n, idr, s) \in Seq(Bit)
         /\ SliceTo7(n, idr, s) \in Seq(Bit) /\ SliceTo8(n, idr, s) \in Seq(Bit)
         /\ SliceTo12(n, idr, s, p) \in Seq(Bit)
         /\ CodedSlice(n, idr, s, p) \in Seq(Bit)
<1> DEFINE kind == IF idr THEN 7 ELSE 5
<1>1. /\ Ue(n.first_mb_in_slice) \in Seq(Bit) /\ Ue(kind) \in Seq(Bit)
      /\ Ue(n.pic_parameter_set_id) \in Seq(Bit) /\ PlanesPart(s) \in Seq(Bit)
      /\ Binary(s.log2_max_frame_num, n.frame_num) \in Seq(Bit)
      /\ FieldPart(n, s) \in Seq(Bit) /\ IdrPart(n, idr) \in Seq(Bit)
      /\ OrderPart(n, s, p) \in Seq(Bit)
  BY SliceParts
<1>2. SliceTo2(n, idr) = Ue(n.first_mb_in_slice) \o Ue(kind)
  BY DEF SliceTo2
<1> HIDE DEF kind
<1>3. SliceTo2(n, idr) \in Seq(Bit)
  BY ONLY <1>1, <1>2, ConcatProperties
<1>4. SliceTo3(n, idr) \in Seq(Bit)
  BY ONLY <1>1, <1>3, ConcatProperties DEF SliceTo3
<1>5. SliceTo4(n, idr, s) \in Seq(Bit)
  BY ONLY <1>1, <1>4, ConcatProperties DEF SliceTo4
<1>6. SliceTo5(n, idr, s) \in Seq(Bit)
  BY ONLY <1>1, <1>5, ConcatProperties DEF SliceTo5
<1>7. SliceTo7(n, idr, s) \in Seq(Bit)
  BY ONLY <1>1, <1>6, ConcatProperties DEF SliceTo7
<1>8. SliceTo8(n, idr, s) \in Seq(Bit)
  BY ONLY <1>1, <1>7, ConcatProperties DEF SliceTo8
<1>9. SliceTo12(n, idr, s, p) \in Seq(Bit)
  BY ONLY <1>1, <1>8, ConcatProperties DEF SliceTo12
<1>10. CodedSlice(n, idr, s, p) \in Seq(Bit)
  <2>1. CodedSlice(n, idr, s, p) = SliceTo12(n, idr, s, p) \o Data
    BY CodedSliceIs
  <2> QED
    BY ONLY <1>9, <2>1, DataType, ConcatProperties
<1> QED
  BY <1>3, <1>4, <1>5, <1>6, <1>7, <1>8, <1>9, <1>10

LEMMA SlicePrefixes ==
  ASSUME NEW n, CodableSlice(n), NEW s, CodableSPS(s), NEW p, CodablePPS(p), Codable(n, s, p),
         NEW idr \in BOOLEAN, NEW g \in Context, Ahead(g, CodedSlice(n, idr, s, p))
  PROVE  /\ Ahead(g, Ue(n.first_mb_in_slice)) /\ Ahead(g, SliceTo2(n, idr))
         /\ Ahead(g, SliceTo3(n, idr)) /\ Ahead(g, SliceTo4(n, idr, s))
         /\ Ahead(g, SliceTo5(n, idr, s)) /\ Ahead(g, SliceTo7(n, idr, s))
         /\ Ahead(g, SliceTo8(n, idr, s)) /\ Ahead(g, SliceTo12(n, idr, s, p))
<1> DEFINE kind == IF idr THEN 7 ELSE 5
<1>1. /\ Ue(n.first_mb_in_slice) \in Seq(Bit) /\ Ue(kind) \in Seq(Bit)
      /\ Ue(n.pic_parameter_set_id) \in Seq(Bit) /\ PlanesPart(s) \in Seq(Bit)
      /\ Binary(s.log2_max_frame_num, n.frame_num) \in Seq(Bit)
      /\ FieldPart(n, s) \in Seq(Bit) /\ IdrPart(n, idr) \in Seq(Bit)
      /\ OrderPart(n, s, p) \in Seq(Bit)
  BY SliceParts
<1>2. /\ SliceTo2(n, idr) \in Seq(Bit) /\ SliceTo3(n, idr) \in Seq(Bit)
      /\ SliceTo4(n, idr, s) \in Seq(Bit) /\ SliceTo5(n, idr, s) \in Seq(Bit)
      /\ SliceTo7(n, idr, s) \in Seq(Bit) /\ SliceTo8(n, idr, s) \in Seq(Bit)
      /\ SliceTo12(n, idr, s, p) \in Seq(Bit)
  BY SlicePrefixTypes
<1>3. SliceTo2(n, idr) = Ue(n.first_mb_in_slice) \o Ue(kind)
  BY DEF SliceTo2
<1> HIDE DEF kind
<1>4. Ahead(g, SliceTo12(n, idr, s, p) \o Data)
  BY CodedSliceIs
<1>5. Ahead(g, SliceTo12(n, idr, s, p))
  BY ONLY <1>2, <1>4, g \in Context, DataType, AheadConcat
<1>6. Ahead(g, SliceTo8(n, idr, s))
  BY ONLY <1>1, <1>2, <1>5, g \in Context, AheadConcat DEF SliceTo12
<1>7. Ahead(g, SliceTo7(n, idr, s))
  BY ONLY <1>1, <1>2, <1>6, g \in Context, AheadConcat DEF SliceTo8
<1>8. Ahead(g, SliceTo5(n, idr, s))
  BY ONLY <1>1, <1>2, <1>7, g \in Context, AheadConcat DEF SliceTo7
<1>9. Ahead(g, SliceTo4(n, idr, s))
  BY ONLY <1>1, <1>2, <1>8, g \in Context, AheadConcat DEF SliceTo5
<1>10. Ahead(g, SliceTo3(n, idr))
  BY ONLY <1>1, <1>2, <1>9, g \in Context, AheadConcat DEF SliceTo4
<1>11. Ahead(g, SliceTo2(n, idr))
  BY ONLY <1>1, <1>2, <1>10, g \in Context, AheadConcat DEF SliceTo3
<1>12. Ahead(g, Ue(n.first_mb_in_slice))
  BY ONLY <1>1, <1>3, <1>11, g \in Context, AheadConcat
<1> QED
  BY <1>5, <1>6, <1>7, <1>8, <1>9, <1>10, <1>11, <1>12

(* A code that the cache is sure to hold. *)
LEMMA ShortCode ==
  ASSUME NEW v \in Nat, v + 1 < 2 ^ 30, ~(Len(Ue(v)) > MIN_CACHE_BITS)
  PROVE  v + 1 < 8192
<1> DEFINE w == Width(v + 1)
<1>1. w \in 1..30 /\ v + 1 < 2 ^ w /\ Len(Ue(v)) = 2 * w - 1
  <2> HIDE DEF w
  <2>1. w = Width(v + 1)
    BY DEF w
  <2> QED
    BY ONLY <2>1, v \in Nat, v + 1 < 2 ^ 30, UeParts
<1>2. ~(Len(Ue(v)) > 25)
  BY DEF MIN_CACHE_BITS
<1> HIDE DEF w
<1>3. w \in 0..13 /\ 13 \in 0..31
  BY ONLY <1>1, <1>2
<1>4. 2 ^ w \in Nat /\ 2 ^ w <= 2 ^ 13
  BY ONLY <1>3, PowersGrow
<1>5. 2 ^ 13 = 8192
  OBVIOUS
<1> QED
  BY <1>1, <1>4, <1>5

(* The parameters of the parser are those that the slice has been coded with. *)
SameSets(s, p) ==
  /\ SameParameters(sps[1], s)
  /\ sps[1]["separate_colour_plane_flag"] = s.separate_colour_plane_flag
  /\ m_pic_order_present_flag = p.pic_order_present_flag

LEMMA SliceStartRead ==
  ASSUME NEW n, CodableSlice(n), NEW s, CodableSPS(s), NEW p, CodablePPS(p), Codable(n, s, p),
         n.first_mb_in_slice + 1 < 8192, SameSets(s, p),
         NEW type, type # SPS, NEW idr \in BOOLEAN,
         NEW f, NEW base, Parsing(f, 12, type, HeaderElements, base),
         base.gb \in Context, Ahead(base.gb, CodedSlice(n, idr, s, p))
  PROVE  /\ Reads(base.gb, f[5].gb, SliceTo5(n, idr, s))
         /\ f[3].gb.value = n.pic_parameter_set_id
         /\ f[5].gb.value = n.frame_num
<1> DEFINE g == base.gb
           kind == IF idr THEN 7 ELSE 5
           p1 == Ue(n.first_mb_in_slice)
<1>1. /\ f[0] = base
      /\ SliceStepped(f, type, 0, 1, "first_mb_in_slice")
      /\ SliceStepped(f, type, 1, 2, "slice_type")
      /\ SliceStepped(f, type, 2, 3, "pic_parameter_set_id")
      /\ SliceStepped(f, type, 3, 4, "colour_plane_id")
      /\ SliceStepped(f, type, 4, 5, "frame_num")
  BY HeaderSteps
<1>2. /\ f[1].gb = get_ue_golomb(g)
      /\ f[2].gb = get_ue_golomb_31(f[1].gb)
      /\ f[3].gb = get_ue_golomb(f[2].gb)
      /\ f[4].gb = IF s.separate_colour_plane_flag = 1 THEN get_bits(f[3].gb, 2)
                   ELSE Inferred(f[3].gb, 0)
      /\ f[5].gb = get_bits(f[4].gb, s.log2_max_frame_num)
  BY <1>1, HeaderAlways DEF SliceStepped, SameSets, SameParameters
<1>3. /\ p1 \in Seq(Bit) /\ Ue(kind) \in Seq(Bit)
      /\ Ue(n.pic_parameter_set_id) \in Seq(Bit) /\ PlanesPart(s) \in Seq(Bit)
      /\ Binary(s.log2_max_frame_num, n.frame_num) \in Seq(Bit)
  BY SliceParts
<1>4. /\ SliceTo2(n, idr) \in Seq(Bit) /\ SliceTo3(n, idr) \in Seq(Bit)
      /\ SliceTo4(n, idr, s) \in Seq(Bit) /\ SliceTo5(n, idr, s) \in Seq(Bit)
  BY SlicePrefixTypes
<1>5. /\ Ahead(g, p1) /\ Ahead(g, SliceTo2(n, idr))
      /\ Ahead(g, SliceTo3(n, idr)) /\ Ahead(g, SliceTo4(n, idr, s))
      /\ Ahead(g, SliceTo5(n, idr, s))
  BY SlicePrefixes
<1>6. SliceTo2(n, idr) = p1 \o Ue(kind)
  BY DEF SliceTo2
<1>7. kind \in Nat /\ kind + 1 < 32
  OBVIOUS
<1>8. /\ n.first_mb_in_slice \in Nat
      /\ n.pic_parameter_set_id \in Nat /\ n.pic_parameter_set_id + 1 < 8192
  <2>1. n.first_mb_in_slice \in Nat
    BY DEF CodableSlice
  <2>2. n.pic_parameter_set_id \in 0..255
    BY DEF CodableSlice
  <2> QED
    BY <2>1, <2>2
<1> HIDE DEF kind
<1>9. Reads(g, f[1].gb, p1)
  <2> DEFINE v == n.first_mb_in_slice
  <2>1. v \in Nat /\ v + 1 < 8192 /\ Ahead(g, Ue(v)) /\ f[1].gb = get_ue_golomb(g)
    BY <1>2, <1>5, <1>8
  <2>2. g \in Context
    OBVIOUS
  <2> HIDE DEF v, g
  <2>3. Reads(g, f[1].gb, Ue(v))
    BY ONLY <2>1, <2>2, ReadsUe
  <2> QED
    BY <2>3 DEF v
<1> HIDE DEF p1
<1>10. Reads(g, f[2].gb, SliceTo2(n, idr))
  BY <1>2, <1>3, <1>5, <1>6, <1>7, <1>9, NextUe31
<1>11. Reads(g, f[3].gb, SliceTo3(n, idr)) /\ f[3].gb.value = n.pic_parameter_set_id
  BY <1>2, <1>4, <1>5, <1>8, <1>10, NextUe DEF SliceTo3
<1>12. Reads(g, f[4].gb, SliceTo4(n, idr, s))
  <2>1. CASE s.separate_colour_plane_flag = 1
    <3>1. PlanesPart(s) = Binary(2, 1)
      <4>1. 2 ^ (2 - 1) = 2 /\ 2 ^ (2 - 2) = 1
        OBVIOUS
      <4>2. \A i \in 1..2 : Binary(2, 1)[i] = (1 \div 2 ^ (2 - i)) % 2
        BY DEF Binary
      <4>3. Binary(2, 1)[1] = (1 \div 2) % 2 /\ Binary(2, 1)[2] = (1 \div 1) % 2
        BY <4>1, <4>2
      <4>4. (1 \div 2) % 2 = 0 /\ (1 \div 1) % 2 = 1
        OBVIOUS
      <4>5. Binary(2, 1) = [i \in 1..2 |-> Binary(2, 1)[i]]
        BY DEF Binary
      <4>6. Binary(2, 1) = <<0, 1>>
        BY ONLY <4>3, <4>4, <4>5
      <4> QED
        BY <2>1, <4>6 DEF PlanesPart
    <3>2. 2 \in 0..MIN_CACHE_BITS /\ 1 \in Nat /\ 1 < 2 ^ 2
      <4>1. 2 ^ 2 = 4
        OBVIOUS
      <4> QED
        BY <4>1 DEF MIN_CACHE_BITS
    <3>3. f[4].gb = get_bits(f[3].gb, 2)
      BY <1>2, <2>1
    <3>4. SliceTo4(n, idr, s) = SliceTo3(n, idr) \o Binary(2, 1)
      BY <3>1 DEF SliceTo4
    <3>5. Ahead(g, SliceTo3(n, idr) \o Binary(2, 1))
      BY <1>5, <3>4
    <3> DEFINE w == 2
               v == 1
               x == SliceTo3(n, idr)
               h == f[3].gb
    <3>6. w \in 0..MIN_CACHE_BITS /\ v \in Nat /\ v < 2 ^ w
          /\ x \in Seq(Bit) /\ Reads(g, h, x) /\ Ahead(g, x \o Binary(w, v))
      BY <1>4, <1>11, <3>2, <3>5
    <3> HIDE DEF w, v, x, h, g
    <3>7. Reads(g, get_bits(h, w), x \o Binary(w, v))
      BY ONLY <3>6, NextBits
    <3> QED
      BY <3>3, <3>4, <3>7 DEF w, v, x, h
  <2>2. CASE s.separate_colour_plane_flag # 1
    <3>1. f[4].gb = Inferred(f[3].gb, 0) /\ PlanesPart(s) = <<>>
      BY <1>2, <2>2 DEF PlanesPart
    <3>2. SliceTo4(n, idr, s) = SliceTo3(n, idr)
      BY <1>4, <3>1, ConcatEmptySeq DEF SliceTo4
    <3>3. 0 \in Int
      OBVIOUS
    <3> QED
      BY <1>4, <1>11, <3>1, <3>2, <3>3, NextInferred
  <2> QED
    BY <2>1, <2>2
<1>13. Reads(g, f[5].gb, SliceTo5(n, idr, s)) /\ f[5].gb.value = n.frame_num
  <2> DEFINE w == s.log2_max_frame_num
             v == n.frame_num
             x == SliceTo4(n, idr, s)
             h == f[4].gb
  <2>1. w \in 0..MIN_CACHE_BITS /\ v \in Nat /\ v < 2 ^ w
    BY DEF CodableSPS, CodableSlice, Codable, MIN_CACHE_BITS
  <2>2. x \in Seq(Bit) /\ Reads(g, h, x) /\ Ahead(g, x \o Binary(w, v))
    BY <1>4, <1>5, <1>12 DEF SliceTo5
  <2>3. f[5].gb = get_bits(h, w)
    BY <1>2
  <2>4. SliceTo5(n, idr, s) = x \o Binary(w, v)
    BY DEF SliceTo5
  <2> HIDE DEF w, v, x, h, g
  <2>5. Reads(g, get_bits(h, w), x \o Binary(w, v)) /\ get_bits(h, w).value = v
    BY ONLY <2>1, <2>2, NextBits
  <2> QED
    BY <2>3, <2>4, <2>5 DEF v
<1> QED
  BY <1>11, <1>13

(* An element that is inferred to be 0. *)
LEMMA NextZero ==
  ASSUME NEW g, NEW h, NEW x \in Seq(Bit), Reads(g, h, x), NEW k, k = Inferred(h, 0)
  PROVE  Reads(g, k, x) /\ k.value = 0
<1> DEFINE v == 0
<1>1. v \in Int /\ k = Inferred(h, v)
  OBVIOUS
<1> HIDE DEF v
<1>2. Reads(g, k, x) /\ k.value = v
  BY ONLY <1>1, x \in Seq(Bit), Reads(g, h, x), NextInferred
<1> QED
  BY <1>2 DEF v

LEMMA FieldRead ==
  ASSUME NEW n, CodableSlice(n), NEW s, CodableSPS(s), NEW p, CodablePPS(p), Codable(n, s, p),
         SameSets(s, p), NEW type, type # SPS, NEW idr \in BOOLEAN,
         NEW f, NEW base, Parsing(f, 12, type, HeaderElements, base),
         NEW g, Reads(g, f[5].gb, SliceTo5(n, idr, s)), Ahead(g, SliceTo7(n, idr, s))
  PROVE  /\ Reads(g, f[7].gb, SliceTo7(n, idr, s))
         /\ f[6].gb.value = n.field_pic_flag
         /\ s.frame_mbs_only_flag = 0 => f[7].gb.value = n.bottom_field_flag
         /\ s.frame_mbs_only_flag = 1 => f[7].gb.value = -1
<1> DEFINE x == SliceTo5(n, idr, s)
           field == n.field_pic_flag
           bottom == n.bottom_field_flag
<1>1. /\ SliceStepped(f, type, 5, 6, "field_pic_flag")
      /\ SliceStepped(f, type, 6, 7, "bottom_field_flag")
  BY HeaderSteps
<1>2. /\ f[6].gb = IF s.frame_mbs_only_flag = 1 THEN Inferred(f[5].gb, 0)
                   ELSE get_bits1(f[5].gb)
      /\ f[7].gb = IF s.frame_mbs_only_flag = 1 THEN Inferred(f[6].gb, -1)
                   ELSE IF f[6].gb.value = 1 THEN get_bits1(f[6].gb) ELSE Inferred(f[6].gb, 0)
  BY <1>1, HeaderFields DEF SliceStepped, SameSets, SameParameters
<1>3. /\ x \in Seq(Bit) /\ field \in Bit /\ bottom \in Bit /\ 0 \in Bit /\ 1 \in Bit
      /\ 0 \in Int /\ -1 \in Int
      /\ (s.frame_mbs_only_flag = 1 => field = 0) /\ (field = 0 => bottom = 0)
  BY SlicePrefixTypes DEF CodableSlice, Codable, Bit
<1>4. SliceTo7(n, idr, s) = x \o FieldPart(n, s)
  BY DEF SliceTo7
<1>5. Reads(g, f[5].gb, x)
  OBVIOUS
<1> HIDE DEF x
<1>6. CASE s.frame_mbs_only_flag = 1
  <2>1. SliceTo7(n, idr, s) = x
    BY <1>3, <1>4, <1>6, ConcatEmptySeq DEF FieldPart
  <2>2. Reads(g, f[6].gb, x) /\ f[6].gb.value = 0
    <3>1. f[6].gb = Inferred(f[5].gb, 0) /\ x \in Seq(Bit) /\ 0 \in Int
      BY <1>2, <1>3, <1>6
    <3> QED
      BY ONLY <1>5, <3>1, NextZero
  <2>3. Reads(g, f[7].gb, x) /\ f[7].gb.value = -1
    <3> DEFINE v == -1
               h == f[6].gb
               k == f[7].gb
    <3>1. k = Inferred(h, v) /\ v \in Int /\ Reads(g, h, x) /\ x \in Seq(Bit)
      BY <1>2, <1>3, <1>6, <2>2
    <3> HIDE DEF v, h, k
    <3>2. Reads(g, k, x) /\ k.value = v
      BY ONLY <3>1, NextInferred
    <3> QED
      BY <3>2 DEF k, v
  <2> QED
    BY <1>3, <1>6, <2>1, <2>2, <2>3
<1>7. CASE s.frame_mbs_only_flag # 1 /\ field = 0
  <2>1. SliceTo7(n, idr, s) = x \o <<0>>
    BY <1>4, <1>7 DEF FieldPart
  <2>2. Reads(g, f[6].gb, x \o <<0>>) /\ f[6].gb.value = 0
    BY <1>2, <1>3, <1>5, <1>7, <2>1, NextBit
  <2>3. x \o <<0>> \in Seq(Bit)
    BY <1>3, BitsTypes, ConcatProperties
  <2>4. Reads(g, f[7].gb, x \o <<0>>) /\ f[7].gb.value = 0
    <3>1. f[7].gb = Inferred(f[6].gb, 0) /\ 0 \in Int
      BY <1>2, <1>7, <2>2
    <3> DEFINE y == x \o <<0>>
    <3>2. y \in Seq(Bit) /\ Reads(g, f[6].gb, y)
      BY <2>2, <2>3
    <3> HIDE DEF y
    <3>3. Reads(g, f[7].gb, y) /\ f[7].gb.value = 0
      BY ONLY <3>1, <3>2, NextZero
    <3> QED
      BY <3>3 DEF y
  <2> QED
    BY <1>3, <1>7, <2>1, <2>2, <2>4
<1>8. CASE s.frame_mbs_only_flag # 1 /\ field # 0
  <2> DEFINE y == x \o <<1>>
  <2>1. field = 1
    BY <1>3, <1>8 DEF Bit
  <2>2. SliceTo7(n, idr, s) = y \o <<bottom>>
    <3>1. SliceTo7(n, idr, s) = x \o <<1, bottom>>
      BY <1>4, <1>8 DEF FieldPart
    <3> HIDE DEF bottom
    <3>2. x \o <<1, bottom>> = (x \o <<1>>) \o <<bottom>>
      BY <1>3
    <3> QED
      BY <3>1, <3>2
  <2>3. <<1>> \in Seq(Bit) /\ <<bottom>> \in Seq(Bit)
    BY <1>3, BitsTypes
  <2>4. y \in Seq(Bit)
    BY ONLY <1>3, <2>3, ConcatProperties
  <2> HIDE DEF bottom
  <2>5. g \in Context
    BY DEF Reads
  <2>6. Ahead(g, y)
    <3> HIDE DEF y
    <3> QED
      BY <2>2, <2>3, <2>4, <2>5, AheadConcat
  <2>7. Reads(g, f[6].gb, y) /\ f[6].gb.value = 1
    BY <1>2, <1>3, <1>5, <1>8, <2>6, NextBit
  <2>8. f[7].gb = get_bits1(f[6].gb)
    BY <1>2, <1>8, <2>7
  <2> HIDE DEF y
  <2>9. Reads(g, f[7].gb, y \o <<bottom>>) /\ f[7].gb.value = bottom
    BY <1>3, <2>2, <2>4, <2>7, <2>8, NextBit
  <2> QED
    BY <1>8, <2>1, <2>2, <2>7, <2>9 DEF bottom
<1> QED
  BY <1>6, <1>7, <1>8

LEMMA IdrRead ==
  ASSUME NEW n, CodableSlice(n), NEW s, CodableSPS(s), NEW p, CodablePPS(p), Codable(n, s, p),
         n.idr_pic_id + 1 < 8192, NEW type, type # SPS,
         NEW idr \in BOOLEAN, idr <=> type = SLICE_IDR,
         NEW f, NEW base, Parsing(f, 12, type, HeaderElements, base),
         NEW g, Reads(g, f[7].gb, SliceTo7(n, idr, s)), Ahead(g, SliceTo8(n, idr, s)),
         Ints(f[7].e), HeaderNames \subseteq DOMAIN f[7].e
  PROVE  /\ Reads(g, f[8].gb, SliceTo8(n, idr, s))
         /\ idr => f[8].gb.value = n.idr_pic_id
<1> DEFINE x == SliceTo7(n, idr, s)
<1>1. SliceStepped(f, type, 7, 8, "idr_pic_id")
  BY HeaderSteps
<1>2. f[8].gb = IF idr THEN get_ue_golomb(f[7].gb) ELSE Inferred(f[7].gb, f[7].e["idr_pic_id"])
  BY <1>1, HeaderFields DEF SliceStepped
<1>3. x \in Seq(Bit) /\ n.idr_pic_id \in Nat
  BY SlicePrefixTypes DEF CodableSlice
<1>4. SliceTo8(n, idr, s) = x \o IdrPart(n, idr)
  BY DEF SliceTo8
<1>5. Reads(g, f[7].gb, x)
  OBVIOUS
<1>6. f[7].e["idr_pic_id"] \in Int
  BY DEF Ints, HeaderNames
<1> HIDE DEF x
<1>7. CASE idr
  BY <1>2, <1>3, <1>4, <1>5, <1>7, NextUe DEF IdrPart
<1>8. CASE ~idr
  <2>1. SliceTo8(n, idr, s) = x
    BY <1>3, <1>4, <1>8, ConcatEmptySeq DEF IdrPart
  <2> QED
    <3> DEFINE v == f[7].e["idr_pic_id"]
    <3>1. f[8].gb = Inferred(f[7].gb, v) /\ x \in Seq(Bit) /\ v \in Int
      BY <1>2, <1>3, <1>6, <1>8
    <3> HIDE DEF v
    <3>2. Reads(g, f[8].gb, x)
      BY ONLY <1>5, <3>1, NextInferred
    <3> QED
      BY <1>8, <2>1, <3>2
<1> QED
  BY <1>7, <1>8

(* The picture order count. *)
LEMMA LsbRead ==
  ASSUME NEW n, CodableSlice(n), NEW s, CodableSPS(s), NEW p, CodablePPS(p), Codable(n, s, p),
         SameSets(s, p), NEW type, type # SPS, s.pic_order_cnt_type = 0,
         NEW f, NEW base, Parsing(f, 12, type, HeaderElements, base),
         \A k \in 0..12 : Ints(f[k].e) /\ HeaderNames \subseteq DOMAIN f[k].e,
         f[9].e["field_pic_flag"] = n.field_pic_flag,
         NEW g, NEW x \in Seq(Bit), Reads(g, f[8].gb, x), Ahead(g, x \o LsbPart(n, s, p))
  PROVE  /\ f[9].gb.value = n.pic_order_cnt_lsb
         /\ f[10].gb.value = n.delta_pic_order_cnt_bottom
<1> DEFINE w == s.log2_max_pic_order_cnt_lsb
           v == n.pic_order_cnt_lsb
           d == n.delta_pic_order_cnt_bottom
           y == IF Frame(n, p) THEN Se(d) ELSE <<>>
           z == x \o Binary(w, v)
<1>1. /\ SliceStepped(f, type, 8, 9, "pic_order_cnt_lsb")
      /\ SliceStepped(f, type, 9, 10, "delta_pic_order_cnt_bottom")
  BY HeaderSteps
<1>2. /\ f[9].gb = get_bits(f[8].gb, w)
      /\ f[10].gb = IF Both(f[9].e) THEN get_se_golomb(f[9].gb) ELSE Inferred(f[9].gb, 0)
  BY <1>1, HeaderOrder DEF SliceStepped, SameSets, SameParameters
<1>3. Both(f[9].e) <=> Frame(n, p)
  BY DEF Both, Frame, SameSets
<1>4. w \in 0..MIN_CACHE_BITS /\ v \in Nat /\ v < 2 ^ w /\ w \in 0..30
  BY DEF CodableSPS, CodableSlice, Codable, MIN_CACHE_BITS
<1>5. d \in Differences /\ (~Frame(n, p) => d = 0)
  BY DEF CodableSlice, Codable, Frame
<1>6. LsbPart(n, s, p) = Binary(w, v) \o y
  BY DEF LsbPart
<1> HIDE DEF w, v, d
<1>7. Binary(w, v) \in Seq(Bit)
  BY ONLY <1>4, BinaryType
<1>8. y \in Seq(Bit)
  BY <1>5, SeType, BitsTypes
<1>9. x \o (Binary(w, v) \o y) = z \o y
  <2> DEFINE b == Binary(w, v)
  <2>1. b \in Seq(Bit) /\ y \in Seq(Bit) /\ x \in Seq(Bit)
    BY <1>7, <1>8
  <2> HIDE DEF b, y
  <2>2. x \o (b \o y) = (x \o b) \o y
    BY ONLY <2>1, ConcatAssociative
  <2> QED
    BY <2>2 DEF b
<1>10. z \in Seq(Bit)
  BY ONLY <1>7, x \in Seq(Bit), ConcatProperties
<1>11. Ahead(g, z \o y)
  BY <1>6, <1>9
<1>12. g \in Context
  BY DEF Reads
<1> HIDE DEF y, z
<1>13. Ahead(g, z)
  BY ONLY <1>8, <1>10, <1>11, <1>12, AheadConcat
<1>14. Reads(g, f[9].gb, z) /\ f[9].gb.value = v
  <2>1. Ahead(g, x \o Binary(w, v))
    BY <1>13 DEF z
  <2> DEFINE h == f[8].gb
  <2>2. Reads(g, h, x) /\ x \in Seq(Bit)
    OBVIOUS
  <2> HIDE DEF h
  <2>3. Reads(g, get_bits(h, w), x \o Binary(w, v)) /\ get_bits(h, w).value = v
    BY ONLY <1>4, <2>1, <2>2, NextBits
  <2> QED
    BY <1>2, <2>3 DEF h, z
<1>15. f[10].gb.value = d
  <2>1. CASE Frame(n, p)
    <3>1. Ahead(g, z \o Se(d)) /\ f[10].gb = get_se_golomb(f[9].gb)
      BY <1>2, <1>3, <1>11, <2>1 DEF y
    <3> QED
      BY <1>5, <1>10, <1>14, <3>1, NextSe
  <2>2. CASE ~Frame(n, p)
    <3>1. f[10].gb = Inferred(f[9].gb, 0) /\ d = 0
      BY <1>2, <1>3, <1>5, <2>2
    <3>2. f[10].gb.value = 0
      <4> DEFINE h == f[9].gb
                 k == f[10].gb
      <4>1. k = Inferred(h, 0) /\ Reads(g, h, z) /\ z \in Seq(Bit)
        BY <1>10, <1>14, <3>1
      <4> HIDE DEF h, k
      <4>2. k.value = 0
        BY ONLY <4>1, NextZero
      <4> QED
        BY <4>2 DEF k
    <3> QED
      BY <3>1, <3>2
  <2> QED
    BY <2>1, <2>2
<1> QED
  BY <1>14, <1>15 DEF v, d

LEMMA DeltaRead ==
  ASSUME NEW n, CodableSlice(n), NEW s, CodableSPS(s), NEW p, CodablePPS(p), Codable(n, s, p),
         SameSets(s, p), NEW type, type # SPS, s.pic_order_cnt_type = 1,
         NEW f, NEW base, Parsing(f, 12, type, HeaderElements, base),
         \A k \in 0..12 : Ints(f[k].e) /\ HeaderNames \subseteq DOMAIN f[k].e,
         f[11].e["field_pic_flag"] = n.field_pic_flag,
         NEW g, NEW x \in Seq(Bit), Reads(g, f[8].gb, x),
         s.delta_pic_order_always_zero_flag = 0 => Ahead(g, x \o DeltaPart(n, p))
  PROVE  /\ f[10].gb.value = 0
         /\ f[11].gb.value = n.delta_pic_order_cnt[1]
         /\ f[12].gb.value = n.delta_pic_order_cnt[2]
<1> DEFINE c == n.delta_pic_order_cnt[1]
           d == n.delta_pic_order_cnt[2]
           y == IF Frame(n, p) THEN Se(d) ELSE <<>>
           z == x \o Se(c)
           zero == s.delta_pic_order_always_zero_flag
           v == f[8].e["pic_order_cnt_lsb"]
<1>1. /\ SliceStepped(f, type, 8, 9, "pic_order_cnt_lsb")
      /\ SliceStepped(f, type, 9, 10, "delta_pic_order_cnt_bottom")
      /\ SliceStepped(f, type, 10, 11, "delta_pic_order_cnt_0")
      /\ SliceStepped(f, type, 11, 12, "delta_pic_order_cnt_1")
  BY HeaderSteps
<1>2. /\ sps[1].pic_order_cnt_type = 1 /\ sps[1].delta_pic_order_always_zero_flag = zero
      /\ sps[1].pic_order_cnt_type # 0
  BY DEF SameSets, SameParameters
<1>3. /\ f[9].gb = Inferred(f[8].gb, v)
      /\ f[10].gb = Inferred(f[9].gb, 0)
      /\ f[11].gb = IF zero = 1 THEN Inferred(f[10].gb, 0) ELSE get_se_golomb(f[10].gb)
      /\ f[12].gb = IF zero = 1 THEN Inferred(f[11].gb, 0)
                    ELSE IF Both(f[11].e) THEN get_se_golomb(f[11].gb)
                    ELSE Inferred(f[11].gb, 0)
  BY <1>1, <1>2, HeaderOrder DEF SliceStepped
<1>4. Both(f[11].e) <=> Frame(n, p)
  BY DEF Both, Frame, SameSets
<1>5. /\ c \in Differences /\ d \in Differences /\ zero \in {0, 1}
      /\ zero = 1 => c = 0 /\ d = 0
      /\ ~Frame(n, p) => d = 0
  BY DEF CodableSlice, CodableSPS, Codable, Frame
<1>6. v \in Int /\ 0 \in Int
  <2>1. 8 \in 0..12
    OBVIOUS
  <2>2. Ints(f[8].e) /\ HeaderNames \subseteq DOMAIN f[8].e
    BY <2>1
  <2>3. "pic_order_cnt_lsb" \in DOMAIN f[8].e
    BY <2>2 DEF HeaderNames
  <2> QED
    BY <2>2, <2>3 DEF Ints
<1>7. DeltaPart(n, p) = Se(c) \o y
  BY DEF DeltaPart
<1> HIDE DEF c, d, zero, v
<1>8. Reads(g, f[9].gb, x)
  <2>1. f[9].gb = Inferred(f[8].gb, v)
    BY <1>3
  <2>2. Reads(g, f[8].gb, x) /\ x \in Seq(Bit)
    OBVIOUS
  <2> QED
    BY ONLY <1>6, <2>1, <2>2, NextInferred
<1>9. Reads(g, f[10].gb, x) /\ f[10].gb.value = 0
  <2>1. f[10].gb = Inferred(f[9].gb, 0)
    BY <1>3
  <2>2. x \in Seq(Bit)
    OBVIOUS
  <2> QED
    BY ONLY <1>8, <2>1, <2>2, NextZero
<1>10. CASE zero = 1
  <2>1. f[11].gb = Inferred(f[10].gb, 0) /\ f[12].gb = Inferred(f[11].gb, 0)
        /\ x \in Seq(Bit) /\ 0 \in Int
    BY <1>3, <1>6, <1>10
  <2>2. Reads(g, f[11].gb, x) /\ f[11].gb.value = 0
    BY ONLY <1>9, <2>1, NextZero
  <2>3. f[12].gb.value = 0
    BY ONLY <2>1, <2>2, NextZero
  <2> QED
    BY <1>5, <1>9, <1>10, <2>2, <2>3 DEF c, d
<1>11. CASE zero = 0
  <2>1. Se(c) \in Seq(Bit) /\ y \in Seq(Bit)
    BY <1>5, SeType, BitsTypes
  <2>2. x \o (Se(c) \o y) = z \o y
    <3> DEFINE b == Se(c)
    <3>1. b \in Seq(Bit) /\ y \in Seq(Bit) /\ x \in Seq(Bit)
      BY <2>1
    <3> HIDE DEF b, y
    <3>2. x \o (b \o y) = (x \o b) \o y
      BY ONLY <3>1, ConcatAssociative
    <3> QED
      BY <3>2 DEF b
  <2>3. z \in Seq(Bit)
    BY ONLY <2>1, x \in Seq(Bit), ConcatProperties
  <2>4. Ahead(g, z \o y)
    BY <1>7, <1>11, <2>2 DEF zero
  <2>5. g \in Context
    BY DEF Reads
  <2> HIDE DEF y, z
  <2>6. Ahead(g, z)
    BY ONLY <2>1, <2>3, <2>4, <2>5, AheadConcat
  <2>7. Reads(g, f[11].gb, z) /\ f[11].gb.value = c
    <3>1. Ahead(g, x \o Se(c)) /\ f[11].gb = get_se_golomb(f[10].gb)
      BY <1>3, <1>11, <2>6 DEF z
    <3>2. Reads(g, f[11].gb, x \o Se(c)) /\ f[11].gb.value = c
      BY <1>5, <1>9, <3>1, NextSe
    <3> QED
      BY <3>2 DEF z
  <2>8. f[12].gb.value = d
    <3>1. CASE Frame(n, p)
      <4>1. Ahead(g, z \o Se(d)) /\ f[12].gb = get_se_golomb(f[11].gb)
        BY <1>3, <1>4, <1>11, <2>4, <3>1 DEF y
      <4> QED
        BY <1>5, <2>3, <2>7, <4>1, NextSe
    <3>2. CASE ~Frame(n, p)
      <4>1. f[12].gb = Inferred(f[11].gb, 0) /\ d = 0 /\ 0 \in Int
        BY <1>3, <1>4, <1>5, <1>6, <1>11, <3>2
      <4> QED
        BY ONLY <2>3, <2>7, <4>1, NextZero
    <3> QED
      BY <3>1, <3>2
  <2> QED
    BY <1>9, <2>7, <2>8 DEF c, d
<1> QED
  BY <1>5, <1>10, <1>11

(* An element keeps what has been read of it. *)
LEMMA HeaderKept ==
  ASSUME NEW type, NEW f, NEW base, Parsing(f, 12, type, HeaderElements, base),
         NEW j \in 1..12, NEW m \in j..12, NEW name, name = HeaderElements[j]
  PROVE  name \in DOMAIN f[m].e /\ f[m].e[name] = f[j].gb.value
<1> DEFINE names == HeaderElements
<1>1. 12 \in Nat /\ j \in 1..12 /\ j \in 0..12
  OBVIOUS
<1>2. DOMAIN f[j].e = DOMAIN f[j - 1].e \cup {name} /\ f[j].e[name] = f[j].gb.value
  BY ONLY <1>1, Parsing(f, 12, type, HeaderElements, base), name = HeaderElements[j], ParseOne
<1>3. \A k \in (j + 1)..12 : names[k] # name
  <2>1. \A i \in 1..12 : \A k \in 1..12 : i < k => names[k] # names[i]
    BY DEF HeaderElements
  <2> HIDE DEF names
  <2>2. name = names[j]
    BY DEF names
  <2> QED
    BY ONLY <1>1, <2>1, <2>2
<1>4. name \in DOMAIN f[j].e /\ \A k \in (j + 1)..m : names[k] # name
  BY <1>2, <1>3
<1>5. name \in DOMAIN f[m].e /\ f[m].e[name] = f[j].e[name]
  BY ONLY <1>1, <1>4, Parsing(f, 12, type, HeaderElements, base), m \in j..12, ParsedKept
<1> QED
  BY <1>2, <1>5

(* What the parser has of a slice is what the encoder wrote, except for what *)
(* the slice does not have.                                                  *)
LEMMA SliceRead ==
  ASSUME NEW n, CodableSlice(n), NEW s, CodableSPS(s), NEW p, CodablePPS(p), Codable(n, s, p),
         n.first_mb_in_slice + 1 < 8192, n.idr_pic_id + 1 < 8192,
         sps # <<>>, Usable(sps[1]), SameSets(s, p), header \in Headers,
         NEW type, type # SPS, NEW idr \in BOOLEAN, idr <=> type = SLICE_IDR,
         NEW d, d = Decoded(type, CodedSlice(n, idr, s, p))
  PROVE  /\ d["frame_num"] = n.frame_num
         /\ d["pic_parameter_set_id"] = n.pic_parameter_set_id
         /\ d["field_pic_flag"] = n.field_pic_flag
         /\ s.frame_mbs_only_flag = 0 => d["bottom_field_flag"] = n.bottom_field_flag
         /\ s.frame_mbs_only_flag = 1 => d["bottom_field_flag"] = -1
         /\ idr => d["idr_pic_id"] = n.idr_pic_id
         /\ s.pic_order_cnt_type = 0 => d["pic_order_cnt_lsb"] = n.pic_order_cnt_lsb
         /\ d["delta_pic_order_cnt_bottom"] = n.delta_pic_order_cnt_bottom
         /\ s.pic_order_cnt_type = 1 =>
              /\ d["delta_pic_order_cnt_0"] = n.delta_pic_order_cnt[1]
              /\ d["delta_pic_order_cnt_1"] = n.delta_pic_order_cnt[2]
<1> DEFINE bits == CodedSlice(n, idr, s, p)
           g == init_get_bits(bits)
           base == [gb |-> g, e |-> header]
           x == SliceTo8(n, idr, s)
<1>1. bits \in Seq(Bit)
  BY SlicePrefixTypes
<1>2. g \in Context /\ Ahead(g, bits)
  <2>1. g \in Context
    BY <1>1, InitContext
  <2> HIDE DEF bits
  <2> QED
    BY <1>1, <2>1 DEF init_get_bits, Ahead
<1>3. PICK f : /\ Parsing(f, 12, type, HeaderElements, base)
               /\ \A k \in 0..12 : /\ f[k].gb \in Context /\ Ints(f[k].e)
                                   /\ HeaderNames \subseteq DOMAIN f[k].e
               /\ Decoded(type, bits) \in Headers
               /\ \A y \in HeaderNames : Decoded(type, bits)[y] = f[12].e[y]
  <2> HIDE DEF bits
  <2>1. type # SPS /\ sps # <<>> /\ Usable(sps[1]) /\ header \in Headers
    OBVIOUS
  <2>2. \E f : Decoding(f, type, bits)
    BY ONLY <1>1, <2>1, DecodedIs
  <2> QED
    BY <2>2 DEF Decoding
<1>4. base.gb = g
  OBVIOUS
<1>5. /\ Ahead(g, SliceTo7(n, idr, s)) /\ Ahead(g, SliceTo8(n, idr, s))
      /\ Ahead(g, SliceTo12(n, idr, s, p))
  <2> HIDE DEF g
  <2> QED
    BY <1>2, SlicePrefixes
<1> HIDE DEF g, base
<1>6. /\ Reads(g, f[5].gb, SliceTo5(n, idr, s))
      /\ f[3].gb.value = n.pic_parameter_set_id
      /\ f[5].gb.value = n.frame_num
  <2>1. base.gb \in Context /\ Ahead(base.gb, CodedSlice(n, idr, s, p))
    BY <1>2, <1>4
  <2> QED
    BY <1>3, <1>4, <2>1, SliceStartRead
<1>7. /\ Reads(g, f[7].gb, SliceTo7(n, idr, s))
      /\ f[6].gb.value = n.field_pic_flag
      /\ s.frame_mbs_only_flag = 0 => f[7].gb.value = n.bottom_field_flag
      /\ s.frame_mbs_only_flag = 1 => f[7].gb.value = -1
  BY <1>3, <1>5, <1>6, FieldRead
<1>8. Reads(g, f[8].gb, x) /\ (idr => f[8].gb.value = n.idr_pic_id)
  <2>1. 7 \in 0..12
    OBVIOUS
  <2>2. Ints(f[7].e) /\ HeaderNames \subseteq DOMAIN f[7].e
    BY <1>3, <2>1
  <2> QED
    BY <1>3, <1>5, <1>7, <2>2, IdrRead
<1>9. x \in Seq(Bit) /\ SliceTo12(n, idr, s, p) = x \o OrderPart(n, s, p)
  BY SlicePrefixTypes DEF SliceTo12
<1>10. /\ f[12].e["pic_parameter_set_id"] = f[3].gb.value
       /\ f[12].e["frame_num"] = f[5].gb.value
       /\ f[12].e["field_pic_flag"] = f[6].gb.value
       /\ f[12].e["bottom_field_flag"] = f[7].gb.value
       /\ f[12].e["idr_pic_id"] = f[8].gb.value
       /\ f[12].e["pic_order_cnt_lsb"] = f[9].gb.value
       /\ f[12].e["delta_pic_order_cnt_bottom"] = f[10].gb.value
       /\ f[12].e["delta_pic_order_cnt_0"] = f[11].gb.value
       /\ f[12].e["delta_pic_order_cnt_1"] = f[12].gb.value
  <2>1. \A j \in 1..12 : f[12].e[HeaderElements[j]] = f[j].gb.value
    <3>1. Parsing(f, 12, type, HeaderElements, base)
      BY <1>3
    <3>2. \A j \in 1..12 : 12 \in j..12
      OBVIOUS
    <3> QED
      BY ONLY <3>1, <3>2, HeaderKept
  <2> QED
    BY <2>1, HeaderElementNames
<1>11. /\ f[9].e["field_pic_flag"] = n.field_pic_flag
       /\ f[11].e["field_pic_flag"] = n.field_pic_flag
  <2>1. Parsing(f, 12, type, HeaderElements, base)
    BY <1>3
  <2>2. 6 \in 1..12 /\ 9 \in 6..12 /\ 11 \in 6..12 /\ HeaderElements[6] = "field_pic_flag"
    BY HeaderElementNames
  <2>3. f[9].e["field_pic_flag"] = f[6].gb.value
    BY ONLY <2>1, <2>2, HeaderKept
  <2>4. f[11].e["field_pic_flag"] = f[6].gb.value
    BY ONLY <2>1, <2>2, HeaderKept
  <2> QED
    BY <1>7, <2>3, <2>4
<1>12. \A k \in 0..12 : Ints(f[k].e) /\ HeaderNames \subseteq DOMAIN f[k].e
  BY <1>3
<1> HIDE DEF x, bits
<1>13. /\ f[10].gb.value = n.delta_pic_order_cnt_bottom
       /\ s.pic_order_cnt_type = 0 => f[9].gb.value = n.pic_order_cnt_lsb
       /\ s.pic_order_cnt_type = 1 => /\ f[11].gb.value = n.delta_pic_order_cnt[1]
                                      /\ f[12].gb.value = n.delta_pic_order_cnt[2]
  <2>1. CASE s.pic_order_cnt_type = 0
    <3>1. OrderPart(n, s, p) = LsbPart(n, s, p)
      BY <2>1 DEF OrderPart
    <3>2. Ahead(g, x \o LsbPart(n, s, p))
      BY <1>5, <1>9, <3>1
    <3>3. /\ CodableSlice(n) /\ CodableSPS(s) /\ CodablePPS(p) /\ Codable(n, s, p)
          /\ SameSets(s, p) /\ type # SPS /\ Parsing(f, 12, type, HeaderElements, base)
          /\ x \in Seq(Bit) /\ Reads(g, f[8].gb, x)
      BY <1>3, <1>8, <1>9
    <3>4. f[9].gb.value = n.pic_order_cnt_lsb /\ f[10].gb.value = n.delta_pic_order_cnt_bottom
      BY ONLY <1>11, <1>12, <2>1, <3>2, <3>3, LsbRead
    <3> QED
      BY <2>1, <3>4
  <2>2. CASE s.pic_order_cnt_type = 1
    <3>1. s.delta_pic_order_always_zero_flag = 0 => OrderPart(n, s, p) = DeltaPart(n, p)
      BY <2>2 DEF OrderPart
    <3>2. s.delta_pic_order_always_zero_flag = 0 => Ahead(g, x \o DeltaPart(n, p))
      BY <1>5, <1>9, <3>1
    <3>3. /\ CodableSlice(n) /\ CodableSPS(s) /\ CodablePPS(p) /\ Codable(n, s, p)
          /\ SameSets(s, p) /\ type # SPS /\ Parsing(f, 12, type, HeaderElements, base)
          /\ x \in Seq(Bit) /\ Reads(g, f[8].gb, x)
      BY <1>3, <1>8, <1>9
    <3>4. /\ f[10].gb.value = 0
          /\ f[11].gb.value = n.delta_pic_order_cnt[1]
          /\ f[12].gb.value = n.delta_pic_order_cnt[2]
      BY ONLY <1>11, <1>12, <2>2, <3>2, <3>3, DeltaRead
    <3>5. n.delta_pic_order_cnt_bottom = 0
      BY <2>2 DEF Codable
    <3> QED
      BY <2>2, <3>4, <3>5
  <2>3. CASE s.pic_order_cnt_type = 2
    <3>1. SliceStepped(f, type, 9, 10, "delta_pic_order_cnt_bottom")
      BY <1>3, HeaderSteps
    <3>2. sps[1].pic_order_cnt_type # 0
      BY <2>3 DEF SameSets, SameParameters
    <3>3. f[10].gb = Inferred(f[9].gb, 0)
      BY <3>1, <3>2, HeaderOrder DEF SliceStepped
    <3>4. f[10].gb.value = 0
      BY <3>3 DEF Inferred
    <3>5. n.delta_pic_order_cnt_bottom = 0
      BY <2>3 DEF Codable
    <3> QED
      BY <2>3, <3>4, <3>5
  <2> QED
    BY <2>1, <2>2, <2>3 DEF CodableSPS
<1> QED
  <2>1. \A y \in HeaderNames : d[y] = f[12].e[y]
    BY <1>3 DEF bits
  <2>2. /\ d["frame_num"] = f[5].gb.value
        /\ d["pic_parameter_set_id"] = f[3].gb.value
        /\ d["field_pic_flag"] = f[6].gb.value
        /\ d["bottom_field_flag"] = f[7].gb.value
        /\ d["idr_pic_id"] = f[8].gb.value
        /\ d["pic_order_cnt_lsb"] = f[9].gb.value
        /\ d["delta_pic_order_cnt_bottom"] = f[10].gb.value
        /\ d["delta_pic_order_cnt_0"] = f[11].gb.value
        /\ d["delta_pic_order_cnt_1"] = f[12].gb.value
    BY <1>10, <2>1 DEF HeaderNames
  <2> QED
    BY <1>6, <1>7, <1>8, <1>13, <2>2

-----------------------------------------------------------------------------
(* What the encoder's NAL units are. *)
LEMMA NalType ==
  ASSUME NEW n \in Nals
  PROVE  /\ n.type \in 1..31 /\ n.nal_ref_idc \in 0..3
         /\ n.type = SPS => CodableSPS(n)
         /\ n.type = PPS => CodablePPS(n)
         /\ IsSlice(n) => CodableSlice(n)
BY NalsAssumption DEF Nals, IsSlice

(* The parameter sets before a slice, of those before it. *)
LEMMA LastSets ==
  ASSUME NEW s \in Seq(Nals), NEW id
  PROVE  /\ LastSPS(s) \in 0..Len(s) /\ LastPlanes(s) \in 0..Len(s)
         /\ LastPictureSet(s) \in 0..Len(s) /\ LastPPS(s, id) \in 0..Len(s)
         /\ LastSPS(s) # 0 => s[LastSPS(s)] \in SetsOfSequence
         /\ LastPlanes(s) # 0 => s[LastPlanes(s)] \in SetsOfPlanes
         /\ LastPictureSet(s) # 0 => s[LastPictureSet(s)] \in SetsOfPicture
         /\ LastPPS(s, id) # 0 => s[LastPPS(s, id)] \in SetsOf(id)
BY LastsAre, LastOfIs

LEMMA SetsAppend ==
  ASSUME NEW s \in Seq(Nals), NEW n \in Nals, NEW id
  PROVE  /\ LastSPS(Append(s, n)) = IF n.type = SPS THEN Len(s) + 1 ELSE LastSPS(s)
         /\ LastPlanes(Append(s, n)) = IF n \in SetsOfPlanes THEN Len(s) + 1 ELSE LastPlanes(s)
         /\ LastPictureSet(Append(s, n)) = IF n.type = PPS THEN Len(s) + 1 ELSE LastPictureSet(s)
         /\ LastPPS(Append(s, n), id)
              = IF n.type = PPS /\ n.pic_parameter_set_id = id THEN Len(s) + 1 ELSE LastPPS(s, id)
<1>1. Append(s, n) \in Seq(Nals)
  BY AppendProperties
<1>2. /\ n \in SetsOfSequence <=> n.type = SPS
      /\ n \in SetsOfPicture <=> n.type = PPS
      /\ n \in SetsOf(id) <=> n.type = PPS /\ n.pic_parameter_set_id = id
  BY DEF SetsOfSequence, SetsOfPicture, SetsOf
<1>3. /\ LastSPS(Append(s, n)) = LastOf(Append(s, n), SetsOfSequence)
      /\ LastPlanes(Append(s, n)) = LastOf(Append(s, n), SetsOfPlanes)
      /\ LastPictureSet(Append(s, n)) = LastOf(Append(s, n), SetsOfPicture)
      /\ LastPPS(Append(s, n), id) = LastOf(Append(s, n), SetsOf(id))
  BY <1>1, LastsAre
<1>4. /\ LastSPS(s) = LastOf(s, SetsOfSequence)
      /\ LastPlanes(s) = LastOf(s, SetsOfPlanes)
      /\ LastPictureSet(s) = LastOf(s, SetsOfPicture)
      /\ LastPPS(s, id) = LastOf(s, SetsOf(id))
  BY LastsAre
<1> QED
  BY <1>2, <1>3, <1>4, LastOfAppend

(* One more NAL unit is done: a parameter set has been read. *)
LEMMA KeptAppend ==
  ASSUME NEW done \in Seq(Nals), NEW nal \in Nals,
         NEW parameters \in Seq(Parameters), NEW flag, KeptFrom(done, parameters, flag),
         NEW old, old = IF parameters = <<>> THEN UnparsedSPS ELSE parameters[1],
         NEW next, next = IF nal.type = SPS THEN <<Parsed(SPS, SPSElements, old, CodedSPS(nal))>>
                          ELSE parameters,
         NEW nextFlag, nextFlag = IF nal.type = PPS THEN nal.pic_order_present_flag ELSE flag
  PROVE  next \in Seq(Parameters) /\ KeptFrom(Append(done, nal), next, nextFlag)
<1> DEFINE s == LastSPS(done)
           planes == LastPlanes(done)
           p == LastPictureSet(done)
           then == Append(done, nal)
<1>1. /\ Len(then) = Len(done) + 1 /\ then[Len(done) + 1] = nal /\ Len(done) \in Nat
      /\ \A i \in 1..Len(done) : then[i] = done[i]
  BY AppendProperties
<1>2. /\ s \in 0..Len(done) /\ planes \in 0..Len(done) /\ p \in 0..Len(done)
  BY LastSets
<1>3. /\ LastSPS(then) = IF nal.type = SPS THEN Len(done) + 1 ELSE s
      /\ LastPlanes(then) = IF nal \in SetsOfPlanes THEN Len(done) + 1 ELSE planes
      /\ LastPictureSet(then) = IF nal.type = PPS THEN Len(done) + 1 ELSE p
  BY SetsAppend
<1>4. /\ IF s = 0 THEN parameters = <<>>
         ELSE /\ parameters # <<>> /\ SameParameters(parameters[1], done[s])
              /\ parameters[1]["separate_colour_plane_flag"]
                   = IF planes = 0 THEN 0 ELSE done[planes].separate_colour_plane_flag
      /\ p # 0 => flag = done[p].pic_order_present_flag
  BY DEF KeptFrom
<1>5. planes # 0 => s # 0
  <2>1. planes # 0 => done[planes] \in SetsOfPlanes
    BY LastSets
  <2>2. planes # 0 => planes \in 1..Len(done) /\ done[planes] \in SetsOfSequence
    BY <1>1, <1>2, <2>1 DEF SetsOfPlanes, SetsOfSequence
  <2> QED
    BY <2>2, LastsAre, LastOfIs
<1> HIDE DEF s, planes, p, then
<1>6. CASE nal.type = SPS
  <2>1. nal.type # PPS /\ nextFlag = flag /\ next = <<Parsed(SPS, SPSElements, old, CodedSPS(nal))>>
    BY <1>6 DEF SPS, PPS
  <2>2. old \in Parameters
    <3>1. UnparsedSPS \in Parameters
      BY DEF UnparsedSPS, Parameters, ParameterNames
    <3>2. parameters # <<>> => parameters[1] \in Parameters
      OBVIOUS
    <3> QED
      BY <3>1, <3>2
  <2>3. CodableSPS(nal)
    BY <1>6, NalType
  <2> DEFINE new == Parsed(SPS, SPSElements, old, CodedSPS(nal))
  <2>4. /\ new \in Parameters /\ SameParameters(new, nal)
        /\ new["separate_colour_plane_flag"] = ReadPlanes(nal, old)
    BY <2>2, <2>3, SPSRead DEF SameParameters
  <2>5. nal \in SetsOfPlanes <=> nal.profile_idc \in HighProfiles /\ nal.chroma_format_idc = 3
    BY <1>6 DEF SetsOfPlanes
  <2>6. nal \notin SetsOfPlanes =>
          old["separate_colour_plane_flag"]
            = IF planes = 0 THEN 0 ELSE done[planes].separate_colour_plane_flag
    <3>1. CASE s = 0
      BY <1>4, <1>5, <3>1 DEF UnparsedSPS
    <3>2. CASE s # 0
      BY <1>4, <3>2
    <3> QED
      BY <3>1, <3>2
  <2>7. new["separate_colour_plane_flag"]
          = IF LastPlanes(then) = 0 THEN 0
            ELSE then[LastPlanes(then)].separate_colour_plane_flag
    BY <1>1, <1>2, <1>3, <2>4, <2>5, <2>6 DEF ReadPlanes, HighProfile, HighProfiles
  <2>8. next \in Seq(Parameters) /\ next # <<>> /\ next[1] = new
    BY <2>1, <2>4
  <2>9. LastSPS(then) # 0 /\ then[LastSPS(then)] = nal
    BY <1>1, <1>3, <1>6
  <2>10. LastPictureSet(then) # 0 => nextFlag = then[LastPictureSet(then)].pic_order_present_flag
    BY <1>1, <1>2, <1>3, <1>4, <2>1
  <2> HIDE DEF new
  <2> QED
    BY <2>4, <2>7, <2>8, <2>9, <2>10 DEF KeptFrom, then
<1>7. CASE nal.type # SPS
  <2>1. next = parameters /\ nal \notin SetsOfPlanes
    BY <1>7 DEF SetsOfPlanes
  <2>2. LastSPS(then) = s /\ LastPlanes(then) = planes
    BY <1>3, <1>7, <2>1
  <2>3. /\ s # 0 => then[s] = done[s]
        /\ planes # 0 => then[planes] = done[planes]
        /\ p # 0 => then[p] = done[p]
    BY <1>1, <1>2
  <2>4. LastPictureSet(then) # 0 => nextFlag = then[LastPictureSet(then)].pic_order_present_flag
    BY <1>1, <1>3, <1>4, <2>3
  <2> QED
    BY <1>4, <2>1, <2>2, <2>3, <2>4 DEF KeptFrom, then
<1> QED
  BY <1>6, <1>7

(* The NAL unit that arrives is held back. *)
LEMMA HeldAppend ==
  ASSUME NEW stream \in Seq(Nals), NEW next \in Nals, NEW id, id = next.pic_parameter_set_id,
         NEW s, s = LastSPS(stream), NEW p, p = LastPPS(stream, id),
         IsSlice(next) => s # 0 /\ p # 0 /\ Codable(next, stream[s], stream[p])
  PROVE  HeldFrom(Append(stream, next), <<next>>)
<1> DEFINE then == Append(stream, next)
<1>1. /\ Len(then) = Len(stream) + 1 /\ then[Len(stream) + 1] = next /\ Len(stream) \in Nat
      /\ \A i \in 1..Len(stream) : then[i] = stream[i]
      /\ then \in Seq(Nals)
  BY AppendProperties
<1>2. then # <<>> /\ then[Len(then)] = next
  BY <1>1
<1>3. IsSlice(next) => /\ LastSPS(then) = s /\ LastPPS(then, id) = p
                       /\ s # 0 => then[s] = stream[s]
                       /\ p # 0 => then[p] = stream[p]
  <2>1. IsSlice(next) => next.type # SPS /\ next.type # PPS
    BY DEF IsSlice, SLICE, SLICE_DPA, SLICE_IDR, SPS, PPS
  <2>2. s \in 0..Len(stream) /\ p \in 0..Len(stream)
    BY LastSets
  <2>3. IsSlice(next) => LastSPS(then) = s /\ LastPPS(then, id) = p
    BY <2>1, SetsAppend
  <2> QED
    BY <1>1, <2>2, <2>3
<1> HIDE DEF then
<1> QED
  BY <1>2, <1>3 DEF HeldFrom, then

(* What Done and the NAL unit held back are. *)
LEMMA HeldBack ==
  ASSUME input \in Seq(Nals), Held
  PROVE  /\ m_nalu = <<>> <=> input = <<>>
         /\ input # <<>> => /\ m_nalu = <<input[Len(input)]>> /\ input[Len(input)] \in Nals
                            /\ Done \in Seq(Nals) /\ input = Append(Done, input[Len(input)])
<1>1. m_nalu = <<>> <=> input = <<>>
  <2>1. input # <<>> => m_nalu = <<input[Len(input)]>>
    BY DEF Held, HeldFrom
  <2>2. \A x : <<x>> # <<>>
    OBVIOUS
  <2>3. input = <<>> => m_nalu = <<>>
    BY DEF Held, HeldFrom
  <2> QED
    BY <2>1, <2>2, <2>3
<1>2. ASSUME input # <<>>
      PROVE  /\ m_nalu = <<input[Len(input)]>> /\ input[Len(input)] \in Nals
             /\ Done \in Seq(Nals) /\ input = Append(Done, input[Len(input)])
  <2>1. m_nalu = <<input[Len(input)]>>
    BY <1>2 DEF Held, HeldFrom
  <2>2. Len(input) \in Nat /\ Len(input) > 0
    BY <1>2, EmptySeq
  <2>3. PICK n \in Nat : n = Len(input) - 1
    BY <2>2
  <2>4. /\ Done \in Seq(Nals) /\ Len(Done) = n
        /\ \A i \in 1..n : Done[i] = input[i]
    <3>1. 1 \in 1..(Len(input) + 1) /\ n \in 0..Len(input)
      BY <2>2, <2>3
    <3> QED
      BY <2>2, <2>3 DEF Done
  <2>5. input = Append(Done, input[Len(input)])
    BY <2>2, <2>3, <2>4
  <2> QED
    BY <2>1, <2>2, <2>4, <2>5
<1> QED
  BY <1>1, <1>2

(* The slice held back can be parsed: its parameter sets are those that the *)
(* parser has, except for what Unreadable says.                             *)
LEMMA SliceReady ==
  ASSUME Typed, Held, Kept, NEW nal, m_nalu = <<nal>>, IsSlice(nal)
  PROVE  /\ nal \in Nals /\ CodableSlice(nal)
         /\ sps # <<>> /\ Usable(sps[1])
         /\ \E s, p \in Nals :
              /\ s = input[LastSPS(input)] /\ p = input[LastPPS(input, nal.pic_parameter_set_id)]
              /\ CodableSPS(s) /\ CodablePPS(p) /\ Codable(nal, s, p)
              /\ SameParameters(sps[1], s)
              /\ sps[1]["separate_colour_plane_flag"]
                   = IF LastPlanes(Done) = 0 THEN 0
                     ELSE Done[LastPlanes(Done)].separate_colour_plane_flag
              /\ Coded(nal) = CodedSlice(nal, nal.type = SLICE_IDR, s, p)
              /\ Coded(nal) \in Seq(Bit)
<1> DEFINE id == nal.pic_parameter_set_id
           i == LastSPS(input)
           j == LastPPS(input, id)
           s == input[i]
           p == input[j]
<1>1. input \in Seq(Nals) /\ input # <<>> /\ nal = input[Len(input)] /\ nal \in Nals
      /\ Done \in Seq(Nals) /\ input = Append(Done, nal)
  <2>1. input \in Seq(Nals)
    BY DEF Typed
  <2>2. <<nal>> # <<>> /\ <<nal>>[1] = nal
    OBVIOUS
  <2>3. \A x : <<x>>[1] = x
    OBVIOUS
  <2> QED
    BY <2>1, <2>2, <2>3, HeldBack
<1>2. i # 0 /\ j # 0 /\ Codable(nal, s, p)
  BY <1>1 DEF Held, HeldFrom
<1>3. nal.type # SPS /\ nal.type # PPS
  BY DEF IsSlice, SLICE, SLICE_DPA, SLICE_IDR, SPS, PPS
<1>4. /\ LastSPS(Append(Done, nal)) = LastSPS(Done)
      /\ LastPPS(Append(Done, nal), id) = LastPPS(Done, id)
  BY <1>1, <1>3, SetsAppend
<1>5. i = LastSPS(Done) /\ j = LastPPS(Done, id)
  BY <1>1, <1>4
<1>6. i \in 1..Len(Done) /\ j \in 1..Len(Done) /\ Len(Done) \in Nat
      /\ Done[i] \in SetsOfSequence /\ Done[j] \in SetsOf(id)
  <2>1. i \in 0..Len(Done) /\ j \in 0..Len(Done) /\ Len(Done) \in Nat
    BY <1>1, <1>5, LastSets
  <2>2. Done[i] \in SetsOfSequence /\ Done[j] \in SetsOf(id)
    BY <1>1, <1>2, <1>5, LastSets
  <2> QED
    BY <1>2, <2>1, <2>2
<1> HIDE DEF i, j
<1>7. s = Done[i] /\ p = Done[j]
  <2>1. \A k \in 1..Len(Done) : Append(Done, nal)[k] = Done[k]
    BY <1>1, AppendProperties
  <2>2. Append(Done, nal)[i] = Done[i] /\ Append(Done, nal)[j] = Done[j]
    BY <1>6, <2>1
  <2> QED
    BY <1>1, <2>2
<1>8. s \in Nals /\ p \in Nals /\ s.type = SPS /\ p.type = PPS
  BY <1>6, <1>7 DEF SetsOfSequence, SetsOf
<1>9. CodableSPS(s) /\ CodablePPS(p) /\ CodableSlice(nal)
  BY <1>1, <1>8, NalType
<1>10. /\ sps # <<>> /\ SameParameters(sps[1], s)
       /\ sps[1]["separate_colour_plane_flag"]
            = IF LastPlanes(Done) = 0 THEN 0
              ELSE Done[LastPlanes(Done)].separate_colour_plane_flag
  BY <1>2, <1>5, <1>7 DEF Kept, KeptFrom
<1>11. Usable(sps[1])
  <2>1. sps \in Seq(Parameters)
    BY DEF Typed
  <2>2. sps[1] \in Parameters
    BY <1>10, <2>1
  <2> HIDE DEF s
  <2> QED
    BY <1>9, <1>10, <2>2 DEF Usable, SameParameters, CodableSPS
<1>12. Coded(nal) = CodedSlice(nal, nal.type = SLICE_IDR, s, p)
  BY <1>3 DEF Coded, i, j
<1> HIDE DEF s, p
<1>13. CodedSlice(nal, nal.type = SLICE_IDR, s, p) \in Seq(Bit)
  <2> DEFINE idr == nal.type = SLICE_IDR
  <2>1. idr \in BOOLEAN
    OBVIOUS
  <2> HIDE DEF idr
  <2>2. CodedSlice(nal, idr, s, p) \in Seq(Bit)
    BY <1>2, <1>9, <2>1, SlicePrefixTypes
  <2> QED
    BY <2>2 DEF idr
<1> HIDE DEF id
<1>14. s = input[LastSPS(input)] /\ p = input[LastPPS(input, nal.pic_parameter_set_id)]
  BY DEF s, p, i, j, id
<1> QED
  BY <1>1, <1>2, <1>8, <1>9, <1>10, <1>11, <1>12, <1>13, <1>14

-----------------------------------------------------------------------------
(* What every step of addBytes() does: what arrives, and what it begins. *)
LEMMA ArrivesTypes ==
  ASSUME Typed, NEW next \in encoder, Arrives(next)
  PROVE  /\ next \in Nals /\ ~aborted
         /\ input' = Append(input, next) /\ encoder' = encoder /\ delivered' = delivered
         /\ input' \in Seq(Nals) /\ Len(input') <= MaxNals
<1>1. next \in Nals
  BY DEF Typed, Nals
<1>2. /\ ~aborted /\ input' = Append(input, next)
      /\ encoder' = encoder /\ delivered' = delivered /\ Len(input) < MaxNals
  BY DEF Arrives
<1>3. input \in Seq(Nals) /\ Len(input) \in Nat /\ MaxNals \in Nat
  BY MaxNalsAssumption DEF Typed
<1>4. input' \in Seq(Nals) /\ Len(input') = Len(input) + 1
  BY <1>1, <1>2, <1>3, AppendProperties
<1> QED
  BY <1>1, <1>2, <1>3, <1>4

LEMMA DoneNext ==
  ASSUME input \in Seq(Nals), NEW next \in Nals, input' = Append(input, next)
  PROVE  Done' = input
<1>1. /\ Len(input) \in Nat /\ Len(input') = Len(input) + 1 /\ input' \in Seq(Nals)
      /\ \A i \in 1..Len(input) : input'[i] = input[i]
  BY AppendProperties
<1>2. Done' = SubSeq(input', 1, Len(input))
  BY <1>1 DEF Done
<1>3. /\ SubSeq(input', 1, Len(input)) \in Seq(Nals)
      /\ Len(SubSeq(input', 1, Len(input))) = Len(input)
      /\ \A i \in 1..Len(input) : SubSeq(input', 1, Len(input))[i] = input'[i]
  BY <1>1
<1> QED
  BY <1>1, <1>2, <1>3

LEMMA HeldNext ==
  ASSUME Typed, NEW next \in encoder, Arrives(next), m_nalu' = <<next>>
  PROVE  Held'
<1> DEFINE id == next.pic_parameter_set_id
           s == LastSPS(input)
           p == LastPPS(input, id)
<1>1. input \in Seq(Nals) /\ next \in Nals /\ input' = Append(input, next)
  BY ArrivesTypes DEF Typed
<1>2. IsSlice(next) => s # 0 /\ p # 0 /\ Codable(next, input[s], input[p])
  BY DEF Arrives, Conforming
<1> HIDE DEF s, p
<1>3. HeldFrom(Append(input, next), <<next>>)
  BY <1>1, <1>2, HeldAppend DEF s, p
<1>4. HeldFrom(input', m_nalu')
  BY <1>1, <1>3
<1> QED
  BY <1>4 DEF Held

LEMMA KeptNext ==
  ASSUME Typed, Held, Kept, NEW next \in encoder, Arrives(next),
         NEW nal, m_nalu = <<nal>>, NEW flag, m_pic_order_present_flag' = flag,
         sps' = IF nal.type = SPS THEN <<DecodedSPS(Coded(nal))>> ELSE sps,
         flag = IF nal.type = PPS THEN nal.pic_order_present_flag ELSE m_pic_order_present_flag
  PROVE  sps' \in Seq(Parameters) /\ Kept'
<1>1. input \in Seq(Nals) /\ nal \in Nals /\ Done \in Seq(Nals) /\ input = Append(Done, nal)
      /\ next \in Nals /\ input' = Append(input, next)
  <2>1. \A x : <<x>> # <<>> /\ <<x>>[1] = x
    OBVIOUS
  <2> QED
    BY <2>1, HeldBack, ArrivesTypes DEF Typed
<1>2. Done' = input
  BY <1>1, DoneNext
<1> DEFINE old == IF sps = <<>> THEN UnparsedSPS ELSE sps[1]
           new == IF nal.type = SPS THEN <<Parsed(SPS, SPSElements, old, CodedSPS(nal))>>
                  ELSE sps
<1>3. sps' = new
  <2>1. CASE nal.type = SPS
    <3>1. Coded(nal) = CodedSPS(nal)
      BY <2>1 DEF Coded, SPS, PPS
    <3> QED
      BY <2>1, <3>1 DEF DecodedSPS
  <2>2. CASE nal.type # SPS
    BY <2>2
  <2> QED
    BY <2>1, <2>2
<1>4. sps \in Seq(Parameters)
  BY DEF Typed
<1>5. KeptFrom(Done, sps, m_pic_order_present_flag)
  BY DEF Kept
<1>6. new \in Seq(Parameters) /\ KeptFrom(Append(Done, nal), new, flag)
  <2> DEFINE before == m_pic_order_present_flag
  <2>1. flag = IF nal.type = PPS THEN nal.pic_order_present_flag ELSE before
    OBVIOUS
  <2>2. old = IF sps = <<>> THEN UnparsedSPS ELSE sps[1]
    OBVIOUS
  <2>3. Done \in Seq(Nals) /\ nal \in Nals /\ KeptFrom(Done, sps, before)
    BY <1>1, <1>5
  <2> HIDE DEF before, old
  <2>4. new = IF nal.type = SPS THEN <<Parsed(SPS, SPSElements, old, CodedSPS(nal))>> ELSE sps
    OBVIOUS
  <2> HIDE DEF new
  <2> QED
    BY ONLY <1>4, <2>1, <2>2, <2>3, <2>4, KeptAppend
<1> HIDE DEF new
<1>7. KeptFrom(Done', sps', m_pic_order_present_flag')
  BY <1>1, <1>2, <1>3, <1>6
<1> QED
  BY <1>3, <1>6, <1>7 DEF Kept

LEMMA Began ==
  ASSUME NEW u \in Grouping, FlaggedUnits(u), NEW next,
         NEW v, v = IF StartsAtOnce(next) THEN SetPending(u) ELSE u
  PROVE  /\ v \in Grouping /\ FlaggedUnits(v)
         /\ StartsAtOnce(next) => v.pending
         /\ ~v.pending => v = u
         /\ v.au.slices > 0 => v.au = u.au
<1>1. CASE StartsAtOnce(next)
  <2>1. v = SetPending(u)
    BY <1>1
  <2>2. v \in Grouping
    <3>1. CASE u.pending
      BY <2>1, <3>1 DEF SetPending
    <3>2. CASE ~u.pending
      <4>1. NewAU \in AccessUnit
        BY DEF NewAU, AccessUnit
      <4>2. Finish(u) \in Grouping
        <5>1. Append(u.aus, u.au) \in Seq(AccessUnit)
          BY DEF Grouping
        <5>2. [u EXCEPT !.aus = Append(@, u.au), !.au = NewAU] \in Grouping
          BY <4>1, <5>1 DEF Grouping
        <5> QED
          BY <5>2 DEF Finish
      <4>3. v = [Finish(u) EXCEPT !.pending = TRUE]
        BY <2>1, <3>2 DEF SetPending
      <4> QED
        BY <4>2, <4>3 DEF Grouping
    <3> QED
      BY <3>1, <3>2
  <2>3. FlaggedUnits(v)
    BY <2>1, SetPendingFlags
  <2>4. v.pending /\ v.au.slices = 0
    <3>1. v.pending
      BY <2>1 DEF SetPending, Grouping
    <3> QED
      BY <2>3, <3>1 DEF FlaggedUnits
  <2> QED
    BY <2>2, <2>3, <2>4
<1>2. CASE ~StartsAtOnce(next)
  BY <1>2
<1> QED
  BY <1>1, <1>2

LEMMA HandedOn ==
  ASSUME NEW u, NEW next, Begin(next, u),
         NEW v \in Grouping, v = IF StartsAtOnce(next) THEN SetPending(u) ELSE u
  PROVE  Current' = v /\ m_nalu' = <<next>>
<1>1. m_nalu' = <<next>> /\ m_au' = v.au /\ m_aus' = v.aus /\ m_au_pending' = v.pending
  BY DEF Begin
<1>2. v = [au |-> v.au, aus |-> v.aus, pending |-> v.pending]
  BY DEF Grouping
<1> QED
  BY <1>1, <1>2 DEF Current

-----------------------------------------------------------------------------
(* The invariant is inductive: action by action. *)
LEMMA FirstStep ==
  ASSUME IInv, NEW next \in encoder, FirstNal(next)
  PROVE  IInv'
<1>1. /\ m_nalu = <<>> /\ Arrives(next) /\ Begin(next, Current)
      /\ sps' = sps /\ m_pic_order_present_flag' = m_pic_order_present_flag
      /\ header' = header /\ prev' = prev /\ aborted' = aborted /\ ~aborted
  BY DEF FirstNal, Arrives
<1>2. Typed /\ Grouped /\ Held /\ Kept /\ Current \in Grouping
  BY <1>1 DEF IInv, Typed
<1>3. /\ next \in Nals /\ input' = Append(input, next) /\ encoder' = encoder
      /\ delivered' = delivered /\ input' \in Seq(Nals) /\ Len(input') <= MaxNals
      /\ input \in Seq(Nals)
  BY <1>1, <1>2, ArrivesTypes DEF Typed
<1>4. PICK v : v = IF StartsAtOnce(next) THEN SetPending(Current) ELSE Current
  OBVIOUS
<1>5. /\ v \in Grouping /\ FlaggedUnits(v) /\ (StartsAtOnce(next) => v.pending)
      /\ v.au.slices > 0 => v.au = m_au
  <2>1. FlaggedUnits(Current) /\ Current.au = m_au
    BY <1>2 DEF Grouped, Current
  <2> QED
    BY <1>2, <1>4, <2>1, Began
<1>6. Current' = v /\ m_nalu' = <<next>>
  BY <1>1, <1>4, <1>5, HandedOn
<1>7. input = <<>>
  BY <1>1, <1>2, <1>3, HeldBack
<1>8. Held'
  BY <1>1, <1>2, <1>6, HeldNext
<1>9. Kept'
  <2>1. Done' = input
    BY <1>3, DoneNext
  <2>2. Done = <<>>
    BY <1>7 DEF Done
  <2>3. KeptFrom(Done', sps', m_pic_order_present_flag')
    BY <1>1, <1>2, <1>7, <2>1, <2>2 DEF Kept
  <2> QED
    BY <2>3 DEF Kept
<1>10. Typed'
  <2>1. m_nalu' \in Seq(Nals) /\ Len(m_nalu') <= 1
    BY <1>3, <1>6
  <2> QED
    BY <1>1, <1>2, <1>3, <1>5, <1>6, <2>1 DEF Typed
<1>11. Grouped'
  <2>1. v.au = m_au' /\ v.aus = m_aus' /\ v.pending = m_au_pending'
    BY <1>6 DEF Current
  <2>2. next.type \in SEI..AU_DELIMITER
    BY <1>1, <1>7 DEF Arrives, Conforming
  <2>3. ~v.pending => next.type \in {SEI, SPS, PPS}
    BY <1>5, <2>2 DEF StartsAtOnce, SEI, SPS, PPS, AU_DELIMITER
  <2>4. m_nalu'[1] = next
    BY <1>6
  <2>5. FlaggedUnits(Current')
    BY <1>5, <1>6
  <2>6. m_au'.slices > 0 => m_au' = m_au
    BY <1>5, <2>1
  <2> QED
    BY <1>1, <1>2, <1>3, <2>1, <2>3, <2>4, <2>5, <2>6 DEF Grouped
<1> QED
  BY <1>8, <1>9, <1>10, <1>11 DEF IInv

LEMMA ParametersStep ==
  ASSUME IInv, NEW nal, NEW next \in encoder, ParametersComplete(nal, next)
  PROVE  IInv'
<1>1. /\ m_nalu = <<nal>> /\ nal.type \in {SEI, SPS, PPS} /\ Arrives(next)
      /\ Begin(next, FinishNalu(nal, SetPending(Current)))
      /\ sps' = IF nal.type = SPS THEN <<DecodedSPS(Coded(nal))>> ELSE sps
      /\ IF nal.type = PPS THEN DecodePPS(Coded(nal))
         ELSE m_pic_order_present_flag' = m_pic_order_present_flag /\ header' = header
      /\ prev' = prev /\ aborted' = aborted /\ ~aborted
  BY DEF ParametersComplete, Arrives
<1>2. Typed /\ Grouped /\ Held /\ Kept /\ Current \in Grouping
  BY <1>1 DEF IInv, Typed
<1>3. /\ next \in Nals /\ input' = Append(input, next) /\ encoder' = encoder
      /\ delivered' = delivered /\ input' \in Seq(Nals) /\ Len(input') <= MaxNals
      /\ input \in Seq(Nals)
  BY <1>1, <1>2, ArrivesTypes DEF Typed
<1>4. nal \in Nals /\ ~IsSlice(nal)
  <2>1. \A x : <<x>> # <<>> /\ <<x>>[1] = x
    OBVIOUS
  <2>2. nal \in Nals
    BY <1>1, <1>2, <1>3, <2>1, HeldBack
  <2> QED
    BY <1>1, <2>2 DEF IsSlice, SLICE, SLICE_DPA, SLICE_IDR, SEI, SPS, PPS
<1>5. PICK u : u = FinishNalu(nal, SetPending(Current))
  OBVIOUS
<1>6. u \in Grouping /\ FlaggedUnits(u) /\ u.pending
  <2>1. SetPending(Current) \in Grouping /\ SetPending(Current).pending
    BY <1>2, <1>4, GroupingTypes, GroupingSteps
  <2>2. FlaggedUnits(SetPending(Current))
    BY <1>2, SetPendingFlags DEF Grouped
  <2> DEFINE w == SetPending(Current)
  <2>3. w \in Grouping /\ w.pending /\ FlaggedUnits(w) /\ u = FinishNalu(nal, w)
    BY <1>5, <2>1, <2>2
  <2> HIDE DEF w
  <2> QED
    BY <1>4, <2>3, GroupingTypes, GroupingSteps, FinishNaluFlags
<1>7. PICK v : v = IF StartsAtOnce(next) THEN SetPending(u) ELSE u
  OBVIOUS
<1>8. v \in Grouping /\ FlaggedUnits(v) /\ v.pending
  BY <1>6, <1>7, Began
<1>9. Current' = v /\ m_nalu' = <<next>>
  BY <1>1, <1>5, <1>7, <1>8, HandedOn
<1>10. Held'
  BY <1>1, <1>2, <1>9, HeldNext
<1>11. PICK flag : /\ m_pic_order_present_flag' = flag
                   /\ flag = IF nal.type = PPS THEN nal.pic_order_present_flag
                             ELSE m_pic_order_present_flag
                   /\ flag \in {-1, 0, 1} /\ header' \in Headers
  <2>1. CASE nal.type = PPS
    <3>1. Coded(nal) = CodedPPS(nal) /\ CodablePPS(nal)
      BY <1>4, <2>1, NalType DEF Coded, SPS, PPS
    <3>2. PICK id : id = get_ue_golomb(init_get_bits(CodedPPS(nal)))
      OBVIOUS
    <3>3. PICK present : present = get_bits1(get_bits1(get_ue_golomb(id)))
      OBVIOUS
    <3>4. id.value \in Int /\ present.value = nal.pic_order_present_flag
      BY <3>1, <3>2, <3>3, PPSRead
    <3>5. /\ m_pic_order_present_flag' = present.value
          /\ header' = [header EXCEPT !.pic_parameter_set_id = id.value]
      BY <1>1, <2>1, <3>1, <3>2, <3>3 DEF DecodePPS
    <3>6. header' \in Headers
      BY <1>2, <3>4, <3>5 DEF Typed, Headers
    <3>7. nal.pic_order_present_flag \in 0..1
      BY <3>1 DEF CodablePPS
    <3> QED
      BY <2>1, <3>4, <3>5, <3>6, <3>7
  <2>2. CASE nal.type # PPS
    BY <1>1, <1>2, <2>2 DEF Typed
  <2> QED
    BY <2>1, <2>2
<1>12. sps' \in Seq(Parameters) /\ Kept'
  <2>1. sps' = IF nal.type = SPS THEN <<DecodedSPS(Coded(nal))>> ELSE sps
    BY <1>1
  <2> QED
    BY ONLY <1>1, <1>2, <1>11, <2>1, next \in encoder, KeptNext
<1>13. Typed'
  <2>1. m_nalu' \in Seq(Nals) /\ Len(m_nalu') <= 1
    BY <1>3, <1>9
  <2> QED
    BY <1>1, <1>2, <1>3, <1>8, <1>9, <1>11, <1>12, <2>1 DEF Typed
<1>14. Grouped'
  <2>1. v.au = m_au' /\ v.aus = m_aus' /\ v.pending = m_au_pending'
    BY <1>9 DEF Current
  <2>2. FlaggedUnits(Current')
    BY <1>8, <1>9
  <2>3. m_au'.slices = 0
    BY <1>8, <2>1 DEF FlaggedUnits
  <2> QED
    BY <1>2, <1>3, <1>8, <2>1, <2>2, <2>3 DEF Grouped
<1> QED
  BY <1>10, <1>12, <1>13, <1>14 DEF IInv

(* A slice that starts no access unit is of the same kind of picture as the *)
(* one before.                                                              *)
LEMMA SameKind ==
  ASSUME NEW h, prev.frame_num # -1, ~IsNewAU(h)
  PROVE  h.type = SLICE_IDR <=> prev.type = SLICE_IDR
BY DEF IsNewAU

LEMMA SliceStep ==
  ASSUME IInv, NEW nal, SliceComplete(nal)
  PROVE  IInv'
<1> DEFINE decoded == Decoded(nal.type, Coded(nal))
           h == With(With(decoded, "nal_ref_idc", nal.nal_ref_idc), "type", nal.type)
           u0 == IF IsNewAU(h) THEN SetPending(Current) ELSE Current
           u1 == FinishNalu(nal, [u0 EXCEPT !.pending = FALSE])
<1>1. PICK next \in encoder : Arrives(next) /\ Begin(next, u1)
  BY DEF SliceComplete
<1>2. /\ m_nalu = <<nal>> /\ IsSlice(nal)
      /\ header' = decoded /\ prev' = h
      /\ sps' = sps /\ m_pic_order_present_flag' = m_pic_order_present_flag
      /\ aborted' = aborted /\ ~aborted
  BY <1>1 DEF SliceComplete, Arrives
<1>3. Typed /\ Grouped /\ Held /\ Kept /\ Current \in Grouping
  BY <1>2 DEF IInv, Typed
<1>4. /\ next \in Nals /\ input' = Append(input, next) /\ encoder' = encoder
      /\ delivered' = delivered /\ input' \in Seq(Nals) /\ Len(input') <= MaxNals
      /\ input \in Seq(Nals)
  BY <1>1, <1>3, ArrivesTypes DEF Typed
<1>5. /\ nal \in Nals /\ nal.type # SPS /\ nal.type # PPS
      /\ nal.type \in Int /\ nal.nal_ref_idc \in Int
      /\ sps # <<>> /\ Usable(sps[1]) /\ Coded(nal) \in Seq(Bit)
  <2>1. /\ nal \in Nals /\ sps # <<>> /\ Usable(sps[1]) /\ Coded(nal) \in Seq(Bit)
    BY <1>2, <1>3, SliceReady
  <2>2. nal.type # SPS /\ nal.type # PPS
    BY <1>2 DEF IsSlice, SLICE, SLICE_DPA, SLICE_IDR, SPS, PPS
  <2>3. nal.type \in 1..31 /\ nal.nal_ref_idc \in 0..3
    BY ONLY <2>1, NalType
  <2>4. nal.type \in Int /\ nal.nal_ref_idc \in Int
    BY ONLY <2>3
  <2> QED
    BY ONLY <2>1, <2>2, <2>4
<1>6. decoded \in Headers /\ decoded["frame_num"] \in Nat
  <2> DEFINE type == nal.type
             bits == Coded(nal)
  <2>1. type # SPS /\ sps # <<>> /\ Usable(sps[1]) /\ header \in Headers /\ bits \in Seq(Bit)
    BY <1>3, <1>5 DEF Typed
  <2> HIDE DEF type, bits
  <2>2. Decoded(type, bits) \in Headers /\ Decoded(type, bits)["frame_num"] \in Nat
    <3> PICK code \in Seq(Bit) : code = bits
      BY <2>1
    <3>1. Decoded(type, code) \in Headers /\ Decoded(type, code)["frame_num"] \in Nat
      BY ONLY <2>1, code \in Seq(Bit), DecodedType
    <3> QED
      BY ONLY <3>1, code = bits
  <2> QED
    BY <2>2 DEF type, bits
<1> HIDE DEF decoded
<1>7. /\ h \in [HeaderNames \cup {"nal_ref_idc", "type"} -> Int]
      /\ h.type = nal.type /\ h.frame_num = decoded["frame_num"]
  BY <1>5, <1>6 DEF With, Headers, HeaderNames
<1> HIDE DEF h
<1>8. /\ u0 \in Grouping /\ FlaggedUnits(u0)
      /\ u0.au.slices > 0 => (nal.type = SLICE_IDR <=> u0.au.key = "IDR")
  <2>1. FlaggedUnits(Current)
    BY <1>3 DEF Grouped
  <2>2. CASE IsNewAU(h)
    <3>1. u0 = SetPending(Current)
      BY <2>2
    <3>2. u0 \in Grouping /\ u0.pending /\ FlaggedUnits(u0)
      <4> DEFINE w == Current
      <4>1. w \in Grouping /\ FlaggedUnits(w) /\ u0 = SetPending(w) /\ nal \in Nals
        BY <1>3, <1>5, <2>1, <3>1
      <4> HIDE DEF w, u0
      <4>2. SetPending(w) \in Grouping /\ SetPending(w).pending
        BY ONLY <4>1, GroupingTypes, GroupingSteps
      <4>3. FlaggedUnits(SetPending(w))
        BY ONLY <4>1, SetPendingFlags
      <4> QED
        BY ONLY <4>1, <4>2, <4>3
    <3>3. u0.au.slices = 0
      BY <3>2 DEF FlaggedUnits
    <3> QED
      BY <3>2, <3>3
  <2>3. CASE ~IsNewAU(h)
    <3>1. u0 = Current /\ u0.au = m_au
      BY <2>3 DEF Current
    <3>2. m_au.slices > 0 => (nal.type = SLICE_IDR <=> m_au.key = "IDR")
      BY <1>3, <1>7, <2>3, SameKind DEF Grouped
    <3> QED
      BY <1>3, <2>1, <3>1, <3>2
  <2> QED
    BY <2>2, <2>3
<1> HIDE DEF u0
<1>9. /\ u1 \in Grouping /\ FlaggedUnits(u1) /\ ~u1.pending /\ u1.au.slices > 0
      /\ nal.type = SLICE_IDR <=> u1.au.key = "IDR"
  <2>1. [u0 EXCEPT !.pending = FALSE] \in Grouping
    BY <1>5, <1>8, GroupingTypes
  <2>2. u1 \in Grouping
    BY <1>5, <2>1, GroupingTypes
  <2> QED
    BY <1>2, <1>5, <1>8, <2>2, FinishSliceFlags
<1> HIDE DEF u1
<1>10. PICK v : v = IF StartsAtOnce(next) THEN SetPending(u1) ELSE u1
  OBVIOUS
<1>11. /\ v \in Grouping /\ FlaggedUnits(v)
       /\ ~v.pending => v = u1
       /\ v.au.slices > 0 => v.au = u1.au
  BY <1>9, <1>10, Began
<1>12. Current' = v /\ m_nalu' = <<next>>
  BY <1>1, <1>10, <1>11, HandedOn
<1>13. Held'
  BY <1>1, <1>3, <1>12, HeldNext
<1>14. sps' \in Seq(Parameters) /\ Kept'
  <2>1. sps' = IF nal.type = SPS THEN <<DecodedSPS(Coded(nal))>> ELSE sps
    BY <1>2, <1>5
  <2> DEFINE flag == m_pic_order_present_flag
  <2>2. flag = IF nal.type = PPS THEN nal.pic_order_present_flag ELSE m_pic_order_present_flag
    BY <1>5
  <2>3. m_pic_order_present_flag' = flag
    BY <1>2
  <2>4. PICK f : f = flag
    OBVIOUS
  <2> HIDE DEF flag
  <2>5. /\ m_pic_order_present_flag' = f
        /\ f = IF nal.type = PPS THEN nal.pic_order_present_flag ELSE m_pic_order_present_flag
    BY <2>2, <2>3, <2>4
  <2> QED
    BY ONLY <1>1, <1>2, <1>3, <2>1, <2>5, KeptNext
<1>15. Typed'
  <2>1. m_nalu' \in Seq(Nals) /\ Len(m_nalu') <= 1
    BY <1>4, <1>12
  <2> QED
    BY <1>2, <1>3, <1>4, <1>6, <1>7, <1>11, <1>12, <1>14, <2>1 DEF Typed
<1>16. Grouped'
  <2>1. v.au = m_au' /\ v.aus = m_aus' /\ v.pending = m_au_pending'
    BY <1>12 DEF Current
  <2>2. FlaggedUnits(Current')
    BY <1>11, <1>12
  <2>3. m_au'.slices > 0 => /\ prev'.frame_num # -1
                            /\ prev'.type = SLICE_IDR <=> m_au'.key = "IDR"
    BY <1>2, <1>6, <1>7, <1>9, <1>11, <2>1
  <2>4. m_au_pending' \/ m_au'.nalus # <<>>
    <3>1. SlicesOf(<<>>) = {}
      BY DEF SlicesOf
    <3>2. u1.au.nalus # <<>>
      <4>1. u1.au.slices = Cardinality(SlicesOf(u1.au.nalus))
        BY <1>9 DEF FlaggedUnits, Flagged
      <4>2. Cardinality({}) = 0
        BY FS_EmptySet
      <4>3. u1.au.nalus = <<>> => u1.au.slices = 0
        BY ONLY <3>1, <4>1, <4>2
      <4> QED
        BY <1>9, <4>3
    <3> QED
      BY <1>11, <2>1, <3>2
  <2>5. \A i \in DOMAIN delivered' : Flagged(delivered'[i]) /\ delivered'[i].slices > 0
    BY <1>3, <1>4 DEF Grouped
  <2> QED
    BY <2>2, <2>3, <2>4, <2>5 DEF Grouped
<1> QED
  BY <1>13, <1>14, <1>15, <1>16 DEF IInv

LEMMA OtherStep ==
  ASSUME IInv, NEW nal, NEW next \in encoder, OtherComplete(nal, next)
  PROVE  IInv'
<1>1. /\ m_nalu = <<nal>> /\ ~IsSlice(nal) /\ nal.type \notin {SEI, SPS, PPS}
      /\ Arrives(next) /\ Begin(next, FinishNalu(nal, Current))
      /\ sps' = sps /\ m_pic_order_present_flag' = m_pic_order_present_flag
      /\ header' = header /\ prev' = prev /\ aborted' = aborted /\ ~aborted
  BY DEF OtherComplete, Arrives
<1>2. Typed /\ Grouped /\ Held /\ Kept /\ Current \in Grouping
  BY <1>1 DEF IInv, Typed
<1>3. /\ next \in Nals /\ input' = Append(input, next) /\ encoder' = encoder
      /\ delivered' = delivered /\ input' \in Seq(Nals) /\ Len(input') <= MaxNals
      /\ input \in Seq(Nals)
  BY <1>1, <1>2, ArrivesTypes DEF Typed
<1>4. nal \in Nals /\ m_nalu # <<>> /\ m_nalu[1] = nal
  <2>1. \A x : <<x>> # <<>> /\ <<x>>[1] = x
    OBVIOUS
  <2> QED
    BY <1>1, <1>2, <1>3, <2>1, HeldBack
<1>5. PICK u : u = FinishNalu(nal, Current)
  OBVIOUS
<1>6. /\ u \in Grouping /\ FlaggedUnits(u)
      /\ u.pending = m_au_pending /\ u.au.slices = m_au.slices /\ u.au.key = m_au.key
      /\ u.au.nalus # <<>>
  <2>1. /\ Current.au = m_au /\ Current.pending = m_au_pending /\ FlaggedUnits(Current)
        /\ m_au.nalus \in Seq(Nals)
    BY <1>2 DEF Grouped, Current, Grouping, AccessUnit
  <2>2. Current.pending \/ Current.au.nalus # <<>>
    BY <1>1, <1>2, <1>4, <2>1 DEF Grouped
  <2> DEFINE w == Current
  <2>3. /\ w \in Grouping /\ w.au = m_au /\ w.pending = m_au_pending /\ FlaggedUnits(w)
        /\ w.pending \/ w.au.nalus # <<>>
        /\ u = FinishNalu(nal, w)
    BY <1>2, <1>5, <2>1, <2>2
  <2> HIDE DEF w
  <2>4. u \in Grouping
    BY <1>4, <2>3, GroupingTypes
  <2>5. /\ u.pending = w.pending /\ u.au.nalus = Append(w.au.nalus, nal)
        /\ u.au.slices = w.au.slices /\ u.au.key = w.au.key
    BY <1>1, <1>4, <2>3, GroupingSteps
  <2>6. FlaggedUnits(u)
    BY <1>1, <1>4, <2>3, FinishNaluFlags
  <2>7. Append(w.au.nalus, nal) # <<>>
    BY <1>4, <2>1, <2>3, AppendProperties
  <2> QED
    BY <2>3, <2>4, <2>5, <2>6, <2>7
<1>7. PICK v : v = IF StartsAtOnce(next) THEN SetPending(u) ELSE u
  OBVIOUS
<1>8. /\ v \in Grouping /\ FlaggedUnits(v)
      /\ ~v.pending => v = u
      /\ v.au.slices > 0 => v.au = u.au
  BY <1>6, <1>7, Began
<1>9. Current' = v /\ m_nalu' = <<next>>
  BY <1>1, <1>5, <1>7, <1>8, HandedOn
<1>10. Held'
  BY <1>1, <1>2, <1>9, HeldNext
<1>11. sps' \in Seq(Parameters) /\ Kept'
  <2>1. nal.type # SPS /\ nal.type # PPS
    BY <1>1
  <2>2. sps' = IF nal.type = SPS THEN <<DecodedSPS(Coded(nal))>> ELSE sps
    BY <1>1, <2>1
  <2>3. PICK f : f = m_pic_order_present_flag
    OBVIOUS
  <2>4. /\ m_pic_order_present_flag' = f
        /\ f = IF nal.type = PPS THEN nal.pic_order_present_flag ELSE m_pic_order_present_flag
    BY <1>1, <2>1, <2>3
  <2> QED
    BY ONLY <1>1, <1>2, <2>2, <2>4, next \in encoder, KeptNext
<1>12. Typed'
  <2>1. m_nalu' \in Seq(Nals) /\ Len(m_nalu') <= 1
    BY <1>3, <1>9
  <2> QED
    BY <1>1, <1>2, <1>3, <1>8, <1>9, <1>11, <2>1 DEF Typed
<1>13. Grouped'
  <2>1. v.au = m_au' /\ v.aus = m_aus' /\ v.pending = m_au_pending'
    BY <1>9 DEF Current
  <2>2. FlaggedUnits(Current')
    BY <1>8, <1>9
  <2>3. m_au'.slices > 0 => /\ prev'.frame_num # -1
                            /\ prev'.type = SLICE_IDR <=> m_au'.key = "IDR"
    BY <1>1, <1>2, <1>6, <1>8, <2>1 DEF Grouped
  <2>4. m_au_pending' \/ m_au'.nalus # <<>>
    BY <1>6, <1>8, <2>1
  <2>5. \A i \in DOMAIN delivered' : Flagged(delivered'[i]) /\ delivered'[i].slices > 0
    BY <1>2, <1>3 DEF Grouped
  <2> QED
    BY <2>2, <2>3, <2>4, <2>5 DEF Grouped
<1> QED
  BY <1>10, <1>11, <1>12, <1>13 DEF IInv

LEMMA MalformedStep ==
  ASSUME IInv, NEW next \in encoder, MalformedNal(next)
  PROVE  IInv'
<1>1. /\ Arrives(next) /\ aborted' = TRUE
      /\ m_nalu' = m_nalu /\ m_au' = m_au /\ m_aus' = m_aus /\ m_au_pending' = m_au_pending
      /\ sps' = sps /\ m_pic_order_present_flag' = m_pic_order_present_flag
      /\ header' = header /\ prev' = prev
  BY DEF MalformedNal
<1>2. Typed /\ Grouped
  BY DEF IInv
<1>3. /\ input' \in Seq(Nals) /\ Len(input') <= MaxNals /\ encoder' = encoder
      /\ delivered' = delivered
  BY <1>1, <1>2, ArrivesTypes
<1>4. Current' = Current
  BY <1>1 DEF Current
<1>5. Typed'
  BY <1>1, <1>2, <1>3, <1>4 DEF Typed
<1>6. Grouped'
  BY <1>1, <1>2, <1>3, <1>4 DEF Grouped
<1> QED
  BY <1>1, <1>5, <1>6 DEF IInv

LEMMA GetStep ==
  ASSUME IInv, GetAU
  PROVE  IInv'
<1>1. /\ ~aborted /\ aborted' = aborted /\ m_aus # <<>>
      /\ delivered' = Append(delivered, Head(m_aus)) /\ m_aus' = Tail(m_aus)
      /\ encoder' = encoder /\ input' = input
      /\ m_nalu' = m_nalu /\ m_au' = m_au /\ m_au_pending' = m_au_pending
      /\ sps' = sps /\ m_pic_order_present_flag' = m_pic_order_present_flag
      /\ header' = header /\ prev' = prev
  BY DEF GetAU
<1>2. Typed /\ Grouped /\ Held /\ Kept /\ Current \in Grouping
  BY <1>1 DEF IInv, Typed
<1>3. m_aus \in Seq(AccessUnit) /\ m_au \in AccessUnit /\ m_au_pending \in BOOLEAN
  BY <1>2 DEF Current, Grouping
<1>4. /\ Tail(m_aus) \in Seq(AccessUnit) /\ Head(m_aus) = m_aus[1] /\ 1 \in DOMAIN m_aus
      /\ \A i \in DOMAIN Tail(m_aus) : i + 1 \in DOMAIN m_aus /\ Tail(m_aus)[i] = m_aus[i + 1]
      /\ Head(m_aus) \in AccessUnit
  BY <1>1, <1>3, HeadTailProperties
<1>5. FlaggedUnits(Current)
  BY <1>2 DEF Grouped
<1>6. FlaggedUnits(Current')
  BY <1>1, <1>4, <1>5 DEF FlaggedUnits, Current
<1>7. \A i \in DOMAIN delivered' : Flagged(delivered'[i]) /\ delivered'[i].slices > 0
  <2>1. /\ DOMAIN delivered' = 1..(Len(delivered) + 1) /\ delivered'[Len(delivered) + 1] = Head(m_aus)
        /\ \A i \in DOMAIN delivered : delivered'[i] = delivered[i]
        /\ DOMAIN delivered = 1..Len(delivered) /\ Len(delivered) \in Nat
    BY <1>1, <1>2, <1>4, AppendProperties DEF Typed
  <2>2. Flagged(Head(m_aus)) /\ Head(m_aus).slices > 0
    BY <1>4, <1>5 DEF FlaggedUnits, Current
  <2>3. \A i \in DOMAIN delivered : Flagged(delivered[i]) /\ delivered[i].slices > 0
    BY <1>2 DEF Grouped
  <2> QED
    BY ONLY <2>1, <2>2, <2>3
<1>8. Typed'
  <2>1. delivered' \in Seq(AccessUnit)
    BY <1>1, <1>2, <1>4, AppendProperties DEF Typed
  <2>2. Current' \in Grouping
    BY <1>1, <1>3, <1>4 DEF Current, Grouping
  <2> QED
    BY <1>1, <1>2, <2>1, <2>2 DEF Typed
<1>9. Grouped'
  BY <1>1, <1>2, <1>6, <1>7 DEF Grouped
<1>10. Held'
  BY <1>1, <1>2 DEF Held
<1>11. Kept'
  BY <1>1, <1>2 DEF Kept, Done
<1> QED
  BY <1>8, <1>9, <1>10, <1>11 DEF IInv

LEMMA InitIInv ==
  ASSUME Init
  PROVE  IInv
<1>1. /\ encoder \in Encoders /\ input = <<>> /\ m_nalu = <<>> /\ delivered = <<>> /\ sps = <<>>
      /\ m_pic_order_present_flag = -1 /\ aborted = FALSE
      /\ m_au = NewAU /\ m_aus = <<>> /\ m_au_pending = FALSE
  BY DEF Init
<1>2. header \in Headers
  BY DEF Init, Headers, HeaderNames
<1>3. prev \in [HeaderNames \cup {"nal_ref_idc", "type"} -> Int]
  BY DEF Init, With, HeaderNames
<1>4. Current \in Grouping
  <2>1. NewAU \in AccessUnit
    BY DEF NewAU, AccessUnit
  <2>2. m_aus \in Seq(AccessUnit)
    <3>1. <<>> \in Seq(AccessUnit)
      OBVIOUS
    <3> QED
      BY ONLY <1>1, <3>1
  <2>3. m_au \in AccessUnit /\ m_au_pending \in BOOLEAN
    BY ONLY <1>1, <2>1
  <2> QED
    BY <2>2, <2>3 DEF Current, Grouping
<1>5. Typed
  <2>1. /\ input \in Seq(Nals) /\ Len(input) = 0 /\ m_nalu \in Seq(Nals) /\ Len(m_nalu) = 0
        /\ delivered \in Seq(AccessUnit) /\ sps \in Seq(Parameters)
    BY <1>1
  <2>2. Len(input) <= MaxNals /\ Len(m_nalu) <= 1
    BY <2>1, MaxNalsAssumption
  <2>3. m_pic_order_present_flag \in {-1, 0, 1} /\ aborted \in BOOLEAN /\ encoder \in Encoders
    BY <1>1
  <2> QED
    BY ONLY <1>2, <1>3, <1>4, <2>1, <2>2, <2>3 DEF Typed
<1>6. Grouped
  <2>1. SlicesOf(<<>>) = {} /\ Cardinality({}) = 0
    BY FS_EmptySet DEF SlicesOf
  <2>2. Flagged(NewAU)
    BY <2>1 DEF Flagged, NewAU
  <2>3. NewAU.slices = 0 /\ NewAU.nalus = <<>>
    BY DEF NewAU
  <2>4. FlaggedUnits(Current)
    BY <1>1, <2>2, <2>3 DEF FlaggedUnits, Current
  <2> QED
    BY <1>1, <2>3, <2>4 DEF Grouped
<1>7. Held
  BY <1>1 DEF Held, HeldFrom
<1>8. Kept
  <2>1. Done = <<>>
    BY <1>1 DEF Done
  <2>2. <<>> \in Seq(Nals)
    OBVIOUS
  <2>3. LastSPS(<<>>) = 0 /\ LastPictureSet(<<>>) = 0
    BY <2>2, LastsAre, LastOfNothing
  <2> QED
    BY <1>1, <2>1, <2>3 DEF Kept, KeptFrom
<1> QED
  BY <1>5, <1>6, <1>7, <1>8 DEF IInv

LEMMA StepIInv ==
  ASSUME IInv, [Next]_vars
  PROVE  IInv'
<1>1. ASSUME NEW nal \in encoder, SliceComplete(nal) PROVE IInv'
  BY <1>1, SliceStep
<1>2. ASSUME NEW next \in encoder, FirstNal(next) PROVE IInv'
  BY <1>2, FirstStep
<1>3. ASSUME NEW next \in encoder, NEW nal \in encoder, ParametersComplete(nal, next) PROVE IInv'
  BY <1>3, ParametersStep
<1>4. ASSUME NEW next \in encoder, NEW nal \in encoder, OtherComplete(nal, next) PROVE IInv'
  BY <1>4, OtherStep
<1>5. ASSUME NEW next \in encoder, MalformedNal(next) PROVE IInv'
  BY <1>5, MalformedStep
<1>6. CASE GetAU
  BY <1>6, GetStep
<1>7. CASE UNCHANGED vars
  BY <1>7 DEF vars, IInv, Typed, Grouped, Held, Kept, Done, Current
<1> QED
  BY <1>1, <1>2, <1>3, <1>4, <1>5, <1>6, <1>7 DEF Next, AddBytes

(* In every reachable state the parser has the parameter sets and the header *)
(* that the NAL units before left it with, and its access units are counted  *)
(* and flagged right.                                                        *)
THEOREM IInvInvariant == Spec => []IInv
<1>1. Init => IInv
  BY InitIInv
<1>2. IInv /\ [Next]_vars => IInv'
  BY StepIInv
<1> QED
  BY <1>1, <1>2, PTL DEF Spec

(* The types, and: while an access unit waits for its first slice, it has    *)
(* none.                                                                     *)
THEOREM TypeCorrect == Spec => []TypeOK
<1>1. IInv => TypeOK
  <2> SUFFICES ASSUME IInv PROVE TypeOK
    OBVIOUS
  <2>1. Typed /\ Grouped
    BY DEF IInv
  <2>2. Len(m_nalu) <= 1 /\ m_pic_order_present_flag \in {-1, 0, 1} /\ aborted \in BOOLEAN
        /\ Len(input) <= MaxNals
    BY <2>1 DEF Typed
  <2>3. m_au.key \in {"IDR", "non-IDR", "unset"}
    BY <2>1 DEF Typed, Current, Grouping, AccessUnit
  <2>4. m_au_pending => m_au.slices = 0
    BY <2>1 DEF Grouped, FlaggedUnits, Current
  <2> QED
    BY <2>2, <2>3, <2>4 DEF TypeOK
<1> QED
  BY <1>1, IInvInvariant, PTL

(* What goes to the segmenter as a key frame is an access unit of an IDR    *)
(* picture and nothing else, and every access unit has a picture.           *)
THEOREM KeyFramesInvariant == Spec => []KeyFrames
<1>1. IInv => KeyFrames
  <2> SUFFICES ASSUME IInv, NEW i \in DOMAIN Complete
               PROVE  LET au == Complete[i]
                      IN Flagged(au) /\ au.slices > 0
    BY DEF KeyFrames, Flagged, SlicesOf
  <2>1. Typed /\ Grouped
    BY DEF IInv
  <2>2. delivered \in Seq(AccessUnit) /\ m_aus \in Seq(AccessUnit)
    BY <2>1 DEF Typed, Current, Grouping
  <2>3. \A j \in DOMAIN delivered : Flagged(delivered[j]) /\ delivered[j].slices > 0
    BY <2>1 DEF Grouped
  <2>4. \A j \in DOMAIN m_aus : Flagged(m_aus[j]) /\ m_aus[j].slices > 0
    BY <2>1 DEF Grouped, FlaggedUnits, Current
  <2>5. CASE i \in DOMAIN delivered
    <3>1. Complete[i] = delivered[i]
      BY <2>2, <2>5 DEF Complete
    <3> QED
      BY <2>3, <2>5, <3>1
  <2>6. CASE i \notin DOMAIN delivered
    <3>1. i - Len(delivered) \in DOMAIN m_aus /\ Complete[i] = m_aus[i - Len(delivered)]
      BY <2>2, <2>6 DEF Complete
    <3> QED
      BY <2>4, <3>1
  <2> QED
    BY <2>5, <2>6
<1> QED
  BY <1>1, IInvInvariant, PTL

-----------------------------------------------------------------------------

(* The encoder's part: a stream begins with parameters or a delimiter, and  *)
(* every slice has its parameter sets before it.                            *)
ConformsAt(stream, i) ==
  LET nal == stream[i]
      before == SubSeq(stream, 1, i - 1)
      s == LastSPS(before)
      p == LastPPS(before, nal.pic_parameter_set_id)
  IN /\ i = 1 => nal.type \in SEI..AU_DELIMITER
     /\ IsSlice(nal) => s # 0 /\ p # 0 /\ Codable(nal, stream[s], stream[p])

Conformed(stream) == \A i \in 1..Len(stream) : ConformsAt(stream, i)

(* What is before a position stays. *)
LEMMA BeforeAppend ==
  ASSUME NEW stream \in Seq(Nals), NEW next \in Nals
  PROVE  /\ Append(stream, next) \in Seq(Nals)
         /\ Len(Append(stream, next)) = Len(stream) + 1
         /\ Append(stream, next)[Len(stream) + 1] = next
         /\ SubSeq(stream, 1, Len(stream)) = stream
         /\ SubSeq(Append(stream, next), 1, Len(stream)) = stream
         /\ \A i \in 1..Len(stream) :
              /\ Append(stream, next)[i] = stream[i]
              /\ SubSeq(stream, 1, i - 1) \in Seq(Nals) /\ Len(SubSeq(stream, 1, i - 1)) = i - 1
              /\ SubSeq(Append(stream, next), 1, i - 1) = SubSeq(stream, 1, i - 1)
              /\ SubSeq(Append(stream, next), 1, i) = SubSeq(stream, 1, i)
              /\ \A k \in 1..(i - 1) : SubSeq(stream, 1, i - 1)[k] = stream[k]
<1> DEFINE then == Append(stream, next)
           n == Len(stream)
<1>1. /\ n \in Nat /\ then \in Seq(Nals) /\ Len(then) = n + 1 /\ then[n + 1] = next
      /\ \A i \in 1..n : then[i] = stream[i]
  BY AppendProperties
<1> HIDE DEF then
<1>2. ASSUME NEW m \in 0..n
      PROVE  /\ SubSeq(stream, 1, m) \in Seq(Nals) /\ Len(SubSeq(stream, 1, m)) = m
             /\ \A k \in 1..m : SubSeq(stream, 1, m)[k] = stream[k]
             /\ SubSeq(then, 1, m) = SubSeq(stream, 1, m)
  <2>1. m \in Nat /\ m <= n
    BY <1>1
  <2>2. /\ SubSeq(stream, 1, m) \in Seq(Nals) /\ Len(SubSeq(stream, 1, m)) = m
        /\ \A k \in 1..m : SubSeq(stream, 1, m)[k] = stream[k]
    BY <1>1, <2>1
  <2>3. /\ SubSeq(then, 1, m) \in Seq(Nals) /\ Len(SubSeq(then, 1, m)) = m
        /\ \A k \in 1..m : SubSeq(then, 1, m)[k] = then[k]
    BY <1>1, <2>1
  <2>4. \A k \in 1..m : SubSeq(then, 1, m)[k] = SubSeq(stream, 1, m)[k]
    BY <1>1, <2>1, <2>2, <2>3
  <2> DEFINE a == SubSeq(then, 1, m)
             b == SubSeq(stream, 1, m)
  <2>5. a \in Seq(Nals) /\ b \in Seq(Nals) /\ Len(a) = m /\ Len(b) = m
        /\ \A k \in 1..m : a[k] = b[k]
    BY <2>2, <2>3, <2>4
  <2> HIDE DEF a, b
  <2>6. a = b
    BY ONLY <2>5, SeqEqual
  <2> QED
    BY <2>2, <2>6 DEF a, b
<1>3. SubSeq(stream, 1, n) = stream
  <2>1. n \in 0..n
    BY <1>1
  <2> DEFINE b == SubSeq(stream, 1, n)
  <2>2. b \in Seq(Nals) /\ Len(b) = n /\ \A k \in 1..n : b[k] = stream[k]
    BY <1>2, <2>1
  <2> HIDE DEF b
  <2>3. b = stream
    BY ONLY <1>1, <2>2, stream \in Seq(Nals), SeqEqual
  <2> QED
    BY <2>3 DEF b
<1>4. SubSeq(then, 1, n) = stream
  <2>1. n \in 0..n
    BY <1>1
  <2> QED
    BY <1>2, <1>3, <2>1
<1>5. ASSUME NEW i \in 1..n
      PROVE  /\ SubSeq(stream, 1, i - 1) \in Seq(Nals) /\ Len(SubSeq(stream, 1, i - 1)) = i - 1
             /\ SubSeq(then, 1, i - 1) = SubSeq(stream, 1, i - 1)
             /\ SubSeq(then, 1, i) = SubSeq(stream, 1, i)
             /\ \A k \in 1..(i - 1) : SubSeq(stream, 1, i - 1)[k] = stream[k]
  <2>1. i - 1 \in 0..n /\ i \in 0..n
    BY <1>1
  <2> QED
    BY ONLY <1>2, <2>1
<1> QED
  BY <1>1, <1>3, <1>4, <1>5 DEF then

LEMMA ConformedAppend ==
  ASSUME NEW stream \in Seq(Nals), Conformed(stream), NEW next \in Nals,
         stream = <<>> => next.type \in SEI..AU_DELIMITER,
         NEW s, s = LastSPS(stream), NEW p, p = LastPPS(stream, next.pic_parameter_set_id),
         IsSlice(next) => s # 0 /\ p # 0 /\ Codable(next, stream[s], stream[p])
  PROVE  Conformed(Append(stream, next))
<1> DEFINE then == Append(stream, next)
           n == Len(stream)
<1>1. /\ then \in Seq(Nals) /\ Len(then) = n + 1 /\ then[n + 1] = next /\ n \in Nat
      /\ SubSeq(then, 1, n) = stream
      /\ \A i \in 1..n : /\ then[i] = stream[i]
                         /\ SubSeq(stream, 1, i - 1) \in Seq(Nals)
                         /\ Len(SubSeq(stream, 1, i - 1)) = i - 1
                         /\ SubSeq(then, 1, i - 1) = SubSeq(stream, 1, i - 1)
  BY BeforeAppend
<1> HIDE DEF then
<1>2. ASSUME NEW i \in 1..n
      PROVE  ConformsAt(then, i)
  <2> DEFINE nal == stream[i]
             before == SubSeq(stream, 1, i - 1)
             s1 == LastSPS(before)
             p1 == LastPPS(before, nal.pic_parameter_set_id)
  <2>1. ConformsAt(stream, i)
    BY DEF Conformed
  <2>2. before \in Seq(Nals) /\ Len(before) = i - 1
    BY <1>1
  <2> HIDE DEF before
  <2>3. s1 \in 0..(i - 1) /\ p1 \in 0..(i - 1)
    <3> DEFINE id == nal.pic_parameter_set_id
    <3> HIDE DEF id
    <3>1. LastSPS(before) \in 0..Len(before) /\ LastPPS(before, id) \in 0..Len(before)
      BY <2>2, LastSets
    <3> QED
      BY <2>2, <3>1 DEF id
  <2>4. /\ s1 # 0 => then[s1] = stream[s1]
        /\ p1 # 0 => then[p1] = stream[p1]
    <3>1. s1 # 0 => s1 \in 1..n
      BY <1>1, <2>3
    <3>2. p1 # 0 => p1 \in 1..n
      BY <1>1, <2>3
    <3> HIDE DEF s1, p1
    <3> QED
      BY <1>1, <3>1, <3>2
  <2>5. then[i] = nal /\ SubSeq(then, 1, i - 1) = before
    BY <1>1 DEF before
  <2>6. /\ i = 1 => nal.type \in SEI..AU_DELIMITER
        /\ IsSlice(nal) => s1 # 0 /\ p1 # 0 /\ Codable(nal, stream[s1], stream[p1])
    BY <2>1 DEF ConformsAt, before
  <2> QED
    BY <2>4, <2>5, <2>6 DEF ConformsAt
<1>3. ConformsAt(then, n + 1)
  <2>1. n + 1 - 1 = n
    BY <1>1
  <2>2. n + 1 = 1 => stream = <<>>
    BY <1>1
  <2>3. s \in 0..n /\ p \in 0..n
    BY LastSets
  <2>4. IsSlice(next) => then[s] = stream[s] /\ then[p] = stream[p]
    BY <1>1, <2>3
  <2>5. SubSeq(then, 1, n + 1 - 1) = stream /\ then[n + 1] = next
    BY <1>1, <2>1
  <2>6. /\ n + 1 = 1 => next.type \in SEI..AU_DELIMITER
        /\ IsSlice(next) => s # 0 /\ p # 0 /\ Codable(next, then[s], then[p])
    BY <2>2, <2>4
  <2>7. PICK m : m = n + 1
    OBVIOUS
  <2>8. SubSeq(then, 1, m - 1) = stream /\ then[m] = next
        /\ (m = 1 => next.type \in SEI..AU_DELIMITER)
    BY <2>5, <2>6, <2>7
  <2>9. ConformsAt(then, m)
    BY <2>6, <2>8 DEF ConformsAt
  <2> QED
    BY <2>7, <2>9
<1>4. \A i \in 1..Len(then) : i \in 1..n \/ i = n + 1
  BY <1>1
<1>5. Conformed(then)
  BY <1>2, <1>3, <1>4 DEF Conformed
<1> QED
  BY <1>5 DEF then

(* The sequence parameter set of the slice at a position. *)
SPSOf(stream, i) == stream[LastSPS(SubSeq(stream, 1, i - 1))]

(* Unreadable, of any stream. *)
UnreadableIn(stream, i) ==
  LET nal == stream[i]
      before == SubSeq(stream, 1, i - 1)
      p == LastPPS(before, nal.pic_parameter_set_id)
      last == LastPictureSet(before)
      planes == LastPlanes(before)
  IN \/ \E v \in {nal.first_mb_in_slice, nal.idr_pic_id} : Len(Ue(v)) > MIN_CACHE_BITS
     \/ stream[last].pic_order_present_flag # stream[p].pic_order_present_flag
     \/ /\ planes # 0
        /\ stream[planes].separate_colour_plane_flag
             # SPSOf(stream, i).separate_colour_plane_flag

LEMMA UnreadableIs ==
  ASSUME NEW i
  PROVE  Unreadable(i) <=> UnreadableIn(input, i)
BY DEF Unreadable, UnreadableIn, SPSOf, LastPictureSet, LastPlanes

LEMMA UnreadableAppend ==
  ASSUME NEW stream \in Seq(Nals), Conformed(stream), NEW next \in Nals,
         NEW i \in 1..Len(stream), IsSlice(stream[i])
  PROVE  /\ UnreadableIn(Append(stream, next), i) <=> UnreadableIn(stream, i)
         /\ SPSOf(Append(stream, next), i) = SPSOf(stream, i)
         /\ LastSPS(SubSeq(stream, 1, i - 1)) \in 1..(i - 1)
         /\ LastPPS(SubSeq(stream, 1, i - 1), stream[i].pic_parameter_set_id) \in 1..(i - 1)
<1> DEFINE then == Append(stream, next)
           before == SubSeq(stream, 1, i - 1)
           id == stream[i].pic_parameter_set_id
           s == LastSPS(before)
           p == LastPPS(before, id)
           last == LastPictureSet(before)
           planes == LastPlanes(before)
<1>1. /\ then[i] = stream[i] /\ SubSeq(then, 1, i - 1) = before
      /\ before \in Seq(Nals) /\ Len(before) = i - 1
      /\ \A k \in 1..Len(stream) : then[k] = stream[k]
      /\ Len(stream) \in Nat
  BY BeforeAppend
<1>2. s # 0 /\ p # 0
  BY DEF Conformed, ConformsAt
<1> HIDE DEF then, before, id
<1>3. /\ s \in 0..(i - 1) /\ p \in 0..(i - 1) /\ last \in 0..(i - 1) /\ planes \in 0..(i - 1)
      /\ p # 0 => before[p] \in SetsOf(id)
  BY <1>1, LastSets
<1>4. last # 0
  <2>1. p \in 1..Len(before) /\ before[p] \in SetsOfPicture
    BY <1>1, <1>2, <1>3 DEF SetsOf, SetsOfPicture
  <2> QED
    BY <1>1, <2>1, LastsAre, LastOfIs
<1> HIDE DEF s, p, last, planes
<1>5. /\ s \in 1..Len(stream) /\ p \in 1..Len(stream) /\ last \in 1..Len(stream)
      /\ planes # 0 => planes \in 1..Len(stream)
      /\ s \in 1..(i - 1) /\ p \in 1..(i - 1)
  BY <1>1, <1>2, <1>3, <1>4
<1>6. /\ then[s] = stream[s] /\ then[p] = stream[p] /\ then[last] = stream[last]
      /\ planes # 0 => then[planes] = stream[planes]
  BY <1>1, <1>5
<1>7. SPSOf(then, i) = then[s] /\ SPSOf(stream, i) = stream[s]
  BY <1>1 DEF SPSOf, s, before
<1>8. UnreadableIn(stream, i) <=>
        \/ \E v \in {stream[i].first_mb_in_slice, stream[i].idr_pic_id} : Len(Ue(v)) > MIN_CACHE_BITS
        \/ stream[last].pic_order_present_flag # stream[p].pic_order_present_flag
        \/ planes # 0 /\ stream[planes].separate_colour_plane_flag
                           # SPSOf(stream, i).separate_colour_plane_flag
  BY DEF UnreadableIn, before, last, p, planes, id
<1>9. UnreadableIn(then, i) <=>
        \/ \E v \in {stream[i].first_mb_in_slice, stream[i].idr_pic_id} : Len(Ue(v)) > MIN_CACHE_BITS
        \/ then[last].pic_order_present_flag # then[p].pic_order_present_flag
        \/ planes # 0 /\ then[planes].separate_colour_plane_flag
                           # SPSOf(then, i).separate_colour_plane_flag
  BY <1>1 DEF UnreadableIn, last, p, planes, id
<1>10. UnreadableIn(then, i) <=> UnreadableIn(stream, i)
  BY <1>6, <1>7, <1>8, <1>9
<1> QED
  BY <1>5, <1>6, <1>7, <1>10 DEF then, s, p, before, id

(* What the parser has of a slice n, with the sequence parameter set s: what *)
(* the encoder wrote; frames have no bottom_field_flag, which is then -1.    *)
HeaderOf(h, n, s) ==
  /\ h.type = n.type /\ h.nal_ref_idc = n.nal_ref_idc
  /\ h.frame_num = n.frame_num
  /\ h.pic_parameter_set_id = n.pic_parameter_set_id
  /\ h.field_pic_flag = n.field_pic_flag
  /\ s.frame_mbs_only_flag = 0 => h.bottom_field_flag = n.bottom_field_flag
  /\ s.frame_mbs_only_flag = 1 => h.bottom_field_flag = -1
  /\ n.type = SLICE_IDR => h.idr_pic_id = n.idr_pic_id
  /\ s.pic_order_cnt_type = 0 => h.pic_order_cnt_lsb = n.pic_order_cnt_lsb
  /\ h.delta_pic_order_cnt_bottom = n.delta_pic_order_cnt_bottom
  /\ s.pic_order_cnt_type = 1 => /\ h.delta_pic_order_cnt_0 = n.delta_pic_order_cnt[1]
                                 /\ h.delta_pic_order_cnt_1 = n.delta_pic_order_cnt[2]

(* The slice held back, if it can be read, is read exactly. *)
LEMMA SliceExact ==
  ASSUME Typed, Held, Kept, NEW nal, m_nalu = <<nal>>, IsSlice(nal),
         ~UnreadableIn(input, Len(input)),
         NEW d, d = Decoded(nal.type, Coded(nal)),
         NEW h, h = With(With(d, "nal_ref_idc", nal.nal_ref_idc), "type", nal.type)
  PROVE  /\ HeaderOf(h, nal, SPSOf(input, Len(input)))
         /\ sps[1].pic_order_cnt_type = SPSOf(input, Len(input)).pic_order_cnt_type
<1> DEFINE id == nal.pic_parameter_set_id
           n == Len(input)
           last == LastPictureSet(Done)
           planes == LastPlanes(Done)
           type == nal.type
           idr == type = SLICE_IDR
<1>1. /\ nal \in Nals /\ CodableSlice(nal) /\ sps # <<>> /\ Usable(sps[1])
      /\ header \in Headers
  BY SliceReady DEF Typed
<1>2. PICK s, p \in Nals :
        /\ s = input[LastSPS(input)] /\ p = input[LastPPS(input, id)]
        /\ CodableSPS(s) /\ CodablePPS(p) /\ Codable(nal, s, p)
        /\ SameParameters(sps[1], s)
        /\ sps[1]["separate_colour_plane_flag"]
             = IF LastPlanes(Done) = 0 THEN 0
               ELSE Done[LastPlanes(Done)].separate_colour_plane_flag
        /\ Coded(nal) = CodedSlice(nal, nal.type = SLICE_IDR, s, p)
  BY SliceReady
<1>3. /\ input \in Seq(Nals) /\ Done \in Seq(Nals) /\ input = Append(Done, nal)
      /\ input # <<>> /\ n = Len(Done) + 1 /\ Len(Done) \in Nat /\ input[n] = nal
      /\ \A k \in 1..Len(Done) : input[k] = Done[k]
  <2>1. input \in Seq(Nals)
    BY DEF Typed
  <2>2. \A x : <<x>> # <<>> /\ <<x>>[1] = x
    OBVIOUS
  <2>3. Done \in Seq(Nals) /\ input = Append(Done, nal) /\ input # <<>>
    BY <2>1, <2>2, HeldBack
  <2> QED
    BY <1>1, <2>1, <2>3, AppendProperties
<1>4. SubSeq(input, 1, n - 1) = Done
  BY DEF Done
<1>5. nal.type # SPS /\ nal.type # PPS
  BY DEF IsSlice, SLICE, SLICE_DPA, SLICE_IDR, SPS, PPS
<1>6. LastSPS(input) = LastSPS(Done) /\ LastPPS(input, id) = LastPPS(Done, id)
  BY <1>1, <1>3, <1>5, SetsAppend
<1>7. s = input[LastSPS(Done)] /\ p = input[LastPPS(Done, id)] /\ s = SPSOf(input, n)
  BY <1>2, <1>4, <1>6 DEF SPSOf
<1>8. LastSPS(Done) # 0 /\ LastPPS(Done, id) # 0
  BY <1>3, <1>6 DEF Held, HeldFrom
<1>9. /\ nal.first_mb_in_slice + 1 < 8192 /\ nal.idr_pic_id + 1 < 8192
      /\ input[last].pic_order_present_flag = p.pic_order_present_flag
      /\ planes # 0 => input[planes].separate_colour_plane_flag = s.separate_colour_plane_flag
  <2>1. /\ ~(Len(Ue(nal.first_mb_in_slice)) > MIN_CACHE_BITS)
        /\ ~(Len(Ue(nal.idr_pic_id)) > MIN_CACHE_BITS)
        /\ input[last].pic_order_present_flag = p.pic_order_present_flag
        /\ planes # 0 => input[planes].separate_colour_plane_flag = s.separate_colour_plane_flag
    BY <1>3, <1>4, <1>7 DEF UnreadableIn
  <2>2. /\ nal.first_mb_in_slice \in Nat /\ nal.first_mb_in_slice + 1 < 2 ^ 30
        /\ nal.idr_pic_id \in Nat /\ nal.idr_pic_id + 1 < 2 ^ 30
    BY <1>1 DEF CodableSlice
  <2>3. nal.first_mb_in_slice + 1 < 8192 /\ nal.idr_pic_id + 1 < 8192
    BY <2>1, <2>2, ShortCode
  <2> QED
    BY <2>1, <2>3
<1>10. /\ last \in 1..Len(Done)
       /\ planes \in 0..Len(Done)
       /\ LastSPS(Done) \in 1..Len(Done)
  <2>1. /\ last \in 0..Len(Done) /\ planes \in 0..Len(Done) /\ LastSPS(Done) \in 0..Len(Done)
        /\ LastPPS(Done, id) \in 0..Len(Done) /\ Done[LastPPS(Done, id)] \in SetsOf(id)
    BY <1>3, <1>8, LastSets
  <2>2. Done[LastPPS(Done, id)] \in SetsOfPicture
    BY <2>1 DEF SetsOf, SetsOfPicture
  <2>3. LastPPS(Done, id) \in 1..Len(Done)
    BY <1>8, <2>1
  <2>4. last # 0
    BY <1>3, <2>2, <2>3, LastsAre, LastOfIs
  <2> QED
    BY <1>8, <2>1, <2>4
<1> HIDE DEF last, planes
<1>11. m_pic_order_present_flag = p.pic_order_present_flag
  <2>1. m_pic_order_present_flag = Done[last].pic_order_present_flag
    BY <1>10 DEF Kept, KeptFrom, last
  <2> QED
    BY <1>3, <1>9, <1>10, <2>1
<1>12. sps[1]["separate_colour_plane_flag"] = s.separate_colour_plane_flag
  <2>1. CASE planes = 0
    <3>1. s \notin SetsOfPlanes
      <4>1. LastSPS(Done) \in 1..Len(Done) /\ s = Done[LastSPS(Done)]
        BY <1>3, <1>7, <1>10
      <4> QED
        BY <1>3, <2>1, <4>1, LastsAre, LastOfIs DEF planes
    <3>2. s.type = SPS
      <4>1. Done[LastSPS(Done)] \in SetsOfSequence
        BY <1>3, <1>8, LastSets
      <4> QED
        BY <1>3, <1>7, <1>10, <4>1 DEF SetsOfSequence
    <3>3. s.separate_colour_plane_flag \in 0..1 /\ s.separate_colour_plane_flag # 1
      BY <1>2, <3>1, <3>2 DEF CodableSPS, SetsOfPlanes
    <3>4. sps[1]["separate_colour_plane_flag"] = 0
      BY <1>2, <2>1 DEF planes
    <3> QED
      BY <3>3, <3>4
  <2>2. CASE planes # 0
    <3>1. sps[1]["separate_colour_plane_flag"] = Done[planes].separate_colour_plane_flag
      BY <1>2, <2>2 DEF planes
    <3>2. input[planes] = Done[planes]
      BY <1>3, <1>10, <2>2
    <3> QED
      BY <1>9, <2>2, <3>1, <3>2
  <2> QED
    BY <2>1, <2>2
<1>13. SameSets(s, p)
  BY <1>2, <1>11, <1>12 DEF SameSets
<1>14. idr \in BOOLEAN /\ (idr <=> type = SLICE_IDR) /\ type # SPS
       /\ d = Decoded(type, CodedSlice(nal, idr, s, p))
  BY <1>2, <1>5
<1>15. d \in Headers
  <2>1. Coded(nal) \in Seq(Bit)
    BY SliceReady
  <2>2. PICK code \in Seq(Bit) : code = Coded(nal)
    BY <2>1
  <2>3. type # SPS /\ sps # <<>> /\ Usable(sps[1]) /\ header \in Headers
    BY <1>1, <1>14
  <2> HIDE DEF type
  <2>4. Decoded(type, code) \in Headers
    BY ONLY <2>2, <2>3, DecodedType
  <2> QED
    BY <2>2, <2>4 DEF type
<1> HIDE DEF idr, type
<1>16. /\ d["frame_num"] = nal.frame_num
       /\ d["pic_parameter_set_id"] = nal.pic_parameter_set_id
       /\ d["field_pic_flag"] = nal.field_pic_flag
       /\ s.frame_mbs_only_flag = 0 => d["bottom_field_flag"] = nal.bottom_field_flag
       /\ s.frame_mbs_only_flag = 1 => d["bottom_field_flag"] = -1
       /\ idr => d["idr_pic_id"] = nal.idr_pic_id
       /\ s.pic_order_cnt_type = 0 => d["pic_order_cnt_lsb"] = nal.pic_order_cnt_lsb
       /\ d["delta_pic_order_cnt_bottom"] = nal.delta_pic_order_cnt_bottom
       /\ s.pic_order_cnt_type = 1 =>
            /\ d["delta_pic_order_cnt_0"] = nal.delta_pic_order_cnt[1]
            /\ d["delta_pic_order_cnt_1"] = nal.delta_pic_order_cnt[2]
  <2>1. CodableSPS(s) /\ CodablePPS(p) /\ Codable(nal, s, p)
    BY <1>2
  <2> QED
    BY ONLY <1>1, <1>9, <1>13, <1>14, <2>1, SliceRead
<1>17. /\ h.type = nal.type /\ h.nal_ref_idc = nal.nal_ref_idc
       /\ \A y \in HeaderNames : h[y] = d[y]
  BY <1>15 DEF With, Headers, HeaderNames
<1>18. /\ h.frame_num = d["frame_num"] /\ h.pic_parameter_set_id = d["pic_parameter_set_id"]
       /\ h.field_pic_flag = d["field_pic_flag"] /\ h.bottom_field_flag = d["bottom_field_flag"]
       /\ h.idr_pic_id = d["idr_pic_id"] /\ h.pic_order_cnt_lsb = d["pic_order_cnt_lsb"]
       /\ h.delta_pic_order_cnt_bottom = d["delta_pic_order_cnt_bottom"]
       /\ h.delta_pic_order_cnt_0 = d["delta_pic_order_cnt_0"]
       /\ h.delta_pic_order_cnt_1 = d["delta_pic_order_cnt_1"]
  BY <1>17 DEF HeaderNames
<1>19. HeaderOf(h, nal, s)
  BY <1>14, <1>16, <1>17, <1>18 DEF HeaderOf, type
<1>20. sps[1].pic_order_cnt_type = s.pic_order_cnt_type
  BY <1>2 DEF SameParameters
<1> QED
  BY <1>7, <1>19, <1>20

(* The last slice that has been parsed. *)
LastSlice == LastOf(Done, Slices)

Exact ==
  ~aborted /\ LastSlice # 0 /\ ~UnreadableIn(input, LastSlice) =>
    HeaderOf(prev, input[LastSlice], SPSOf(input, LastSlice))

XInv == Conformed(input) /\ Exact

LEMMA LastSliceIs ==
  ASSUME input \in Seq(Nals), Held, LastSlice # 0
  PROVE  /\ LastSlice \in 1..Len(input) /\ LastSlice < Len(input)
         /\ input[LastSlice] \in Nals /\ IsSlice(input[LastSlice])
<1>1. input # <<>>
  <2> SUFFICES ASSUME input = <<>> PROVE FALSE
    OBVIOUS
  <2>1. Done = <<>>
    BY DEF Done
  <2> QED
    BY <2>1, LastOfNothing DEF LastSlice
<1>2. PICK nal \in Nals : Done \in Seq(Nals) /\ input = Append(Done, nal)
  BY <1>1, HeldBack
<1>3. /\ Len(input) = Len(Done) + 1 /\ Len(Done) \in Nat
      /\ \A k \in 1..Len(Done) : input[k] = Done[k]
  BY <1>2, AppendProperties
<1>4. LastSlice \in 0..Len(Done) /\ Done[LastSlice] \in Slices
  BY <1>2, LastOfIs DEF LastSlice
<1>5. LastSlice \in 1..Len(Done)
  BY <1>3, <1>4
<1> QED
  BY <1>3, <1>4, <1>5 DEF Slices

LEMMA ArrivesMore ==
  ASSUME Typed, Held, Conformed(input), NEW next \in encoder, Arrives(next)
  PROVE  /\ Conformed(input')
         /\ LastSlice' = IF m_nalu # <<>> /\ IsSlice(m_nalu[1]) THEN Len(input) ELSE LastSlice
<1> DEFINE id == next.pic_parameter_set_id
           s == LastSPS(input)
           p == LastPPS(input, id)
<1>1. input \in Seq(Nals) /\ next \in Nals /\ input' = Append(input, next)
  BY ArrivesTypes DEF Typed
<1>2. /\ input = <<>> => next.type \in SEI..AU_DELIMITER
      /\ IsSlice(next) => s # 0 /\ p # 0 /\ Codable(next, input[s], input[p])
  BY DEF Arrives, Conforming
<1> HIDE DEF s, p
<1>3. Conformed(Append(input, next))
  <2>1. PICK stream : stream = input
    OBVIOUS
  <2>2. /\ stream \in Seq(Nals) /\ Conformed(stream) /\ s = LastSPS(stream)
        /\ p = LastPPS(stream, next.pic_parameter_set_id)
        /\ stream = <<>> => next.type \in SEI..AU_DELIMITER
        /\ IsSlice(next) => s # 0 /\ p # 0 /\ Codable(next, stream[s], stream[p])
    BY <1>1, <1>2, <2>1 DEF s, p, id
  <2>3. PICK s1, p1 : s1 = s /\ p1 = p
    OBVIOUS
  <2>4. Conformed(Append(stream, next))
    BY ONLY <1>1, <2>2, <2>3, ConformedAppend
  <2> QED
    BY <2>1, <2>4
<1>4. Conformed(input')
  BY <1>1, <1>3
<1>5. Done' = input
  BY <1>1, DoneNext
<1>6. LastSlice' = LastOf(input, Slices)
  BY <1>5 DEF LastSlice
<1>7. CASE input = <<>>
  <2>1. m_nalu = <<>> /\ Done = <<>>
    BY <1>1, <1>7, HeldBack DEF Done
  <2> QED
    BY <1>4, <1>6, <1>7, <2>1 DEF LastSlice
<1>8. CASE input # <<>>
  <2>1. PICK nal \in Nals : m_nalu = <<nal>> /\ Done \in Seq(Nals) /\ input = Append(Done, nal)
    BY <1>1, <1>8, HeldBack
  <2>2. Len(input) = Len(Done) + 1
    BY <2>1, AppendProperties
  <2>3. LastOf(input, Slices) = IF nal \in Slices THEN Len(Done) + 1 ELSE LastOf(Done, Slices)
    BY <2>1, LastOfAppend
  <2>4. nal \in Slices <=> IsSlice(nal)
    BY DEF Slices
  <2>5. m_nalu # <<>> /\ m_nalu[1] = nal
    BY <2>1
  <2> QED
    BY <1>4, <1>6, <2>2, <2>3, <2>4, <2>5 DEF LastSlice
<1> QED
  BY <1>7, <1>8

(* A NAL unit that is no slice leaves what is known of the last slice. *)
LEMMA ExactKept ==
  ASSUME Typed, Held, XInv, NEW next \in encoder, Arrives(next),
         m_nalu # <<>> => ~IsSlice(m_nalu[1]), prev' = prev, aborted' = aborted
  PROVE  XInv'
<1>1. input \in Seq(Nals) /\ next \in Nals /\ input' = Append(input, next) /\ Conformed(input)
  BY ArrivesTypes DEF Typed, XInv
<1>2. Conformed(input') /\ LastSlice' = LastSlice
  BY <1>1, ArrivesMore
<1>3. Exact'
  <2> SUFFICES ASSUME ~aborted, LastSlice # 0, ~UnreadableIn(input', LastSlice)
               PROVE  HeaderOf(prev, input'[LastSlice], SPSOf(input', LastSlice))
    BY <1>2 DEF Exact
  <2> DEFINE i == LastSlice
  <2>1. i \in 1..Len(input) /\ IsSlice(input[i])
    BY <1>1, LastSliceIs
  <2> HIDE DEF i
  <2>2. /\ UnreadableIn(Append(input, next), i) <=> UnreadableIn(input, i)
        /\ SPSOf(Append(input, next), i) = SPSOf(input, i)
    BY <1>1, <2>1, UnreadableAppend
  <2>3. Append(input, next)[i] = input[i]
    BY <1>1, <2>1, AppendProperties
  <2>4. ~UnreadableIn(input, i)
    BY <1>1, <2>2 DEF i
  <2>5. HeaderOf(prev, input[i], SPSOf(input, i))
    BY <2>4 DEF XInv, Exact, i
  <2>6. HeaderOf(prev, input'[i], SPSOf(input', i))
    BY <1>1, <2>2, <2>3, <2>5
  <2> QED
    BY <2>6 DEF i
<1> QED
  BY <1>2, <1>3 DEF XInv

LEMMA ExactSlice ==
  ASSUME IInv, XInv, NEW nal, SliceComplete(nal)
  PROVE  XInv'
<1> DEFINE decoded == Decoded(nal.type, Coded(nal))
           h == With(With(decoded, "nal_ref_idc", nal.nal_ref_idc), "type", nal.type)
<1>1. PICK next \in encoder : Arrives(next)
  BY DEF SliceComplete
<1>2. m_nalu = <<nal>> /\ IsSlice(nal) /\ prev' = h /\ ~aborted
  BY <1>1 DEF SliceComplete, Arrives
<1>3. Typed /\ Held /\ Kept
  BY <1>2 DEF IInv
<1>4. input \in Seq(Nals) /\ next \in Nals /\ input' = Append(input, next) /\ Conformed(input)
  BY <1>1, <1>3, ArrivesTypes DEF Typed, XInv
<1>5. m_nalu # <<>> /\ m_nalu[1] = nal
  BY <1>2
<1>6. Conformed(input') /\ LastSlice' = Len(input)
  BY <1>1, <1>2, <1>3, <1>4, <1>5, ArrivesMore
<1> DEFINE i == Len(input)
<1>7. i \in 1..Len(input) /\ input[i] = nal
  <2>1. i \in Nat /\ input # <<>>
    BY <1>3, <1>4, <1>5, HeldBack
  <2>2. i > 0
    BY <1>4, <2>1, EmptySeq
  <2>3. m_nalu = <<input[i]>>
    BY <1>3, <1>4, <2>1, HeldBack
  <2>4. m_nalu[1] = input[i]
    BY <2>3
  <2> QED
    BY <1>5, <2>1, <2>2, <2>4
<1>8. /\ UnreadableIn(Append(input, next), i) <=> UnreadableIn(input, i)
      /\ SPSOf(Append(input, next), i) = SPSOf(input, i)
      /\ Append(input, next)[i] = nal
  <2> HIDE DEF i
  <2>1. IsSlice(input[i])
    BY <1>2, <1>7
  <2> QED
    BY <1>4, <1>7, <2>1, UnreadableAppend, AppendProperties
<1>9. ~UnreadableIn(input, i) => HeaderOf(h, nal, SPSOf(input, i))
  BY <1>2, <1>3, SliceExact
<1> HIDE DEF h, i
<1>10. ~UnreadableIn(input', i) => HeaderOf(prev', input'[i], SPSOf(input', i))
  BY <1>2, <1>4, <1>8, <1>9
<1>11. LastSlice' = i
  BY <1>6 DEF i
<1>12. Exact'
  BY <1>10, <1>11 DEF Exact
<1> QED
  BY <1>6, <1>12 DEF XInv

LEMMA InitXInv ==
  ASSUME Init
  PROVE  XInv
<1>1. input = <<>>
  BY DEF Init
<1>2. Conformed(input)
  BY <1>1 DEF Conformed
<1>3. Done = <<>>
  BY <1>1 DEF Done
<1>4. LastSlice = 0
  BY <1>3, LastOfNothing DEF LastSlice
<1> QED
  BY <1>2, <1>4 DEF XInv, Exact

LEMMA StepXInv ==
  ASSUME IInv, XInv, [Next]_vars
  PROVE  XInv'
<1>1. Typed /\ Conformed(input) /\ (~aborted => Held)
  BY DEF IInv, XInv
<1>2. ASSUME NEW nal \in encoder, SliceComplete(nal) PROVE XInv'
  BY <1>2, ExactSlice
<1>3. ASSUME NEW next \in encoder, FirstNal(next) PROVE XInv'
  <2>1. m_nalu = <<>> /\ Arrives(next) /\ prev' = prev /\ aborted' = aborted /\ ~aborted
    BY <1>3 DEF FirstNal, Arrives
  <2> QED
    BY <1>1, <2>1, ExactKept
<1>4. ASSUME NEW next \in encoder, NEW nal \in encoder, ParametersComplete(nal, next) PROVE XInv'
  <2>1. /\ m_nalu = <<nal>> /\ nal.type \in {SEI, SPS, PPS} /\ Arrives(next)
        /\ prev' = prev /\ aborted' = aborted /\ ~aborted
    BY <1>4 DEF ParametersComplete, Arrives
  <2>2. ~IsSlice(nal) /\ m_nalu[1] = nal
    BY <2>1 DEF IsSlice, SLICE, SLICE_DPA, SLICE_IDR, SEI, SPS, PPS
  <2> QED
    BY <1>1, <2>1, <2>2, ExactKept
<1>5. ASSUME NEW next \in encoder, NEW nal \in encoder, OtherComplete(nal, next) PROVE XInv'
  <2>1. /\ m_nalu = <<nal>> /\ ~IsSlice(nal) /\ Arrives(next)
        /\ prev' = prev /\ aborted' = aborted /\ ~aborted
    BY <1>5 DEF OtherComplete, Arrives
  <2>2. m_nalu[1] = nal
    BY <2>1
  <2> QED
    BY <1>1, <2>1, <2>2, ExactKept
<1>6. ASSUME NEW next \in encoder, MalformedNal(next) PROVE XInv'
  <2>1. Arrives(next) /\ aborted' /\ ~aborted
    BY <1>6 DEF MalformedNal, Arrives
  <2>2. Conformed(input')
    BY <1>1, <2>1, ArrivesMore
  <2> QED
    BY <2>1, <2>2 DEF XInv, Exact
<1>7. CASE GetAU
  BY <1>7 DEF GetAU, XInv, Exact, LastSlice, Done
<1>8. CASE UNCHANGED vars
  BY <1>8 DEF vars, XInv, Exact, LastSlice, Done
<1> QED
  BY <1>2, <1>3, <1>4, <1>5, <1>6, <1>7, <1>8 DEF Next, AddBytes

(* What the parser has of the last slice it has parsed is what the encoder   *)
(* wrote, whatever its parameter sets are and whatever came before.          *)
THEOREM HeaderExactInvariant == Spec => []HeaderExact
<1>1. Init => IInv /\ XInv
  BY InitIInv, InitXInv
<1>2. IInv /\ XInv /\ [Next]_vars => IInv' /\ XInv'
  BY StepIInv, StepXInv
<1>3. IInv /\ XInv => HeaderExact
  <2> SUFFICES ASSUME IInv, XInv PROVE HeaderExact
    OBVIOUS
  <2> DEFINE i == SelectLastInSubSeq(input, 1, Len(input) - 1, IsSlice)
  <2>1. input \in Seq(Nals)
    BY DEF IInv, Typed
  <2>2. SUFFICES ASSUME ~aborted, i # 0, ~Unreadable(i)
                 PROVE  /\ prev.type = input[i].type
                        /\ HeaderOf(prev, input[i], input[LastSPS(SubSeq(input, 1, i))])
                        /\ input[i].delta_pic_order_cnt
                             = <<input[i].delta_pic_order_cnt[1], input[i].delta_pic_order_cnt[2]>>
    BY DEF HeaderExact, HeaderOf
  <2>3. Held
    BY <2>2 DEF IInv
  <2>4. i = LastSlice
    <3>1. SelectLastInSubSeq(input, 1, Len(input) - 1, IsSlice)
            = LastIn({k \in 1..(Len(input) - 1) : IsSlice(input[k])})
      BY DEF SelectLastInSubSeq, LastIn
    <3>2. CASE input = <<>>
      <4>1. Done = <<>> /\ {k \in 1..(Len(input) - 1) : IsSlice(input[k])} = {}
        BY <3>2 DEF Done
      <4> QED
        BY <3>1, <4>1, LastOfNothing DEF LastSlice, LastIn
    <3>3. CASE input # <<>>
      <4>1. PICK nal \in Nals : Done \in Seq(Nals) /\ input = Append(Done, nal)
        BY <2>1, <2>3, <3>3, HeldBack
      <4>2. /\ Len(input) = Len(Done) + 1 /\ Len(Done) \in Nat
            /\ \A k \in 1..Len(Done) : input[k] = Done[k] /\ Done[k] \in Nals
        BY <4>1, AppendProperties, ElementOfSeq
      <4>3. Len(input) - 1 = Len(Done)
        BY <4>2
      <4>4. {k \in 1..Len(Done) : IsSlice(input[k])} = {k \in 1..Len(Done) : Done[k] \in Slices}
        BY <4>2 DEF Slices
      <4> QED
        BY <3>1, <4>3, <4>4 DEF LastSlice, LastOf
    <3> QED
      BY <3>2, <3>3
  <2> HIDE DEF i
  <2>5. i \in 1..Len(input) /\ i < Len(input) /\ input[i] \in Nals /\ IsSlice(input[i])
    BY <2>1, <2>2, <2>3, <2>4, LastSliceIs
  <2>6. HeaderOf(prev, input[i], SPSOf(input, i))
    BY <2>2, <2>4, UnreadableIs DEF XInv, Exact
  <2>7. SPSOf(input, i) = input[LastSPS(SubSeq(input, 1, i))]
    <3> DEFINE before == SubSeq(input, 1, i - 1)
               upto == SubSeq(input, 1, i)
               nal == input[i]
    <3>1. /\ before \in Seq(Nals) /\ Len(before) = i - 1 /\ upto \in Seq(Nals) /\ Len(upto) = i
          /\ \A k \in 1..(i - 1) : before[k] = input[k]
          /\ \A k \in 1..i : upto[k] = input[k]
      <4>1. Len(input) \in Nat /\ i \in Nat /\ i > 0 /\ i <= Len(input)
        BY <2>1, <2>5
      <4> QED
        BY <2>1, <4>1
    <3>2. i \in Nat /\ i > 0
      BY <2>5
    <3>3. upto = Append(before, nal)
      <4>1. /\ Append(before, nal) \in Seq(Nals) /\ Len(Append(before, nal)) = i
            /\ \A k \in 1..(i - 1) : Append(before, nal)[k] = before[k]
            /\ Append(before, nal)[i] = nal
        <5> HIDE DEF before, nal
        <5>1. nal \in Nals
          BY <2>5 DEF nal
        <5>2. Len(before) + 1 = i
          BY <3>1, <3>2
        <5> QED
          BY <3>1, <5>1, <5>2, AppendProperties
      <4>2. \A k \in 1..i : k \in 1..(i - 1) \/ k = i
        BY <3>2
      <4> DEFINE a == Append(before, nal)
      <4>3. \A k \in 1..i : a[k] = upto[k]
        BY <3>1, <4>1, <4>2
      <4>4. a \in Seq(Nals) /\ Len(a) = i /\ upto \in Seq(Nals) /\ Len(upto) = i
        BY <3>1, <4>1
      <4> HIDE DEF a, upto
      <4>5. a = upto
        BY ONLY <4>3, <4>4, SeqEqual
      <4> QED
        BY <4>5 DEF a
    <3>4. nal.type # SPS
      BY <2>5 DEF IsSlice, SLICE, SLICE_DPA, SLICE_IDR, SPS
    <3> HIDE DEF before, upto, nal
    <3>5. LastSPS(upto) = LastSPS(before)
      <4>1. nal \in Nals
        BY <2>5 DEF nal
      <4> QED
        BY <3>1, <3>3, <3>4, <4>1, SetsAppend
    <3> QED
      BY <3>5 DEF SPSOf, before, upto
  <2>8. input[i].delta_pic_order_cnt \in Differences \X Differences
    BY <2>5, NalType DEF CodableSlice
  <2> QED
    BY <2>6, <2>7, <2>8 DEF HeaderOf
<1> QED
  BY <1>1, <1>2, <1>3, PTL DEF Spec

-----------------------------------------------------------------------------

(* The NAL units of the access units given up so far, and the positions at  *)
(* which they and the one being collected start.                            *)
UnitsOf(d, u) == NalusOf(d \o u.aus)
CutsOf(units) == {Len(FlattenSeq(SubSeq(units, 1, k))) + 1 : k \in 0..Len(units)}

(* The NAL units done are split into access units at the positions cuts. *)
Split(d, u, done, cuts) ==
  /\ FlattenSeq(UnitsOf(d, u)) \o u.au.nalus = done
  /\ \A k \in DOMAIN UnitsOf(d, u) : UnitsOf(d, u)[k] # <<>>
  /\ CutsOf(UnitsOf(d, u)) = cuts

LEMMA CutsAppend ==
  ASSUME NEW A, NEW units \in Seq(Seq(A)), NEW x \in Seq(A)
  PROVE  /\ CutsOf(<<>>) = {1}
         /\ Len(FlattenSeq(units)) + 1 \in CutsOf(units)
         /\ CutsOf(Append(units, x)) = CutsOf(units) \cup {Len(FlattenSeq(units) \o x) + 1}
<1> DEFINE n == Len(units)
           more == Append(units, x)
           Cut(s, k) == Len(FlattenSeq(SubSeq(s, 1, k))) + 1
<1>1. n \in Nat /\ more \in Seq(Seq(A)) /\ Len(more) = n + 1
  BY AppendProperties
<1>2. CutsOf(<<>>) = {1}
  <2>1. Len(<<>>) = 0
    OBVIOUS
  <2>2. 0..0 = {0}
    OBVIOUS
  <2>3. SubSeq(<<>>, 1, 0) = <<>>
    OBVIOUS
  <2>4. CutsOf(<<>>) = {Len(FlattenSeq(<<>>)) + 1}
    BY <2>1, <2>2, <2>3 DEF CutsOf
  <2>5. FlattenSeq(<<>>) = <<>>
    BY FlattenGrows
  <2> QED
    BY <2>1, <2>4, <2>5
<1>3. SubSeq(units, 1, n) = units /\ SubSeq(more, 1, n + 1) = more
  BY <1>1
<1>4. \A k \in 0..n : SubSeq(more, 1, k) = SubSeq(units, 1, k)
  OBVIOUS
<1>5. FlattenSeq(more) = FlattenSeq(units) \o x
  BY FlattenGrows
<1> HIDE DEF more
<1>6. Len(FlattenSeq(units)) + 1 \in CutsOf(units)
  <2>1. \A k \in 0..n : Len(FlattenSeq(SubSeq(units, 1, k))) + 1 \in CutsOf(units)
    BY DEF CutsOf
  <2>2. n \in 0..n
    BY <1>1
  <2> QED
    BY <1>3, <2>1, <2>2
<1>7. CutsOf(more) = {Cut(more, k) : k \in 0..n} \cup {Cut(more, n + 1)}
  <2>1. 0..Len(more) = 0..n \cup {n + 1}
    BY <1>1
  <2> QED
    BY <2>1 DEF CutsOf
<1>8. {Cut(more, k) : k \in 0..n} = CutsOf(units)
  BY <1>4 DEF CutsOf
<1>9. Cut(more, n + 1) = Len(FlattenSeq(units) \o x) + 1
  BY <1>3, <1>5
<1> QED
  BY <1>2, <1>6, <1>7, <1>8, <1>9 DEF more

(* One more finished. *)
LEMMA UnitsAppend ==
  ASSUME NEW d \in Seq(AccessUnit), NEW aus \in Seq(AccessUnit), NEW au \in AccessUnit
  PROVE  /\ NalusOf(d \o aus) \in Seq(Seq(Nals))
         /\ NalusOf(d \o Append(aus, au)) = Append(NalusOf(d \o aus), au.nalus)
<1> DEFINE s == d \o aus
<1>1. s \in Seq(AccessUnit) /\ d \o Append(aus, au) = Append(s, au)
  BY ConcatProperties, AppendProperties
<1> HIDE DEF s
<1>2. DOMAIN s = 1..Len(s) /\ Len(s) \in Nat /\ \A i \in 1..Len(s) : s[i].nalus \in Seq(Nals)
  <2>1. DOMAIN s = 1..Len(s) /\ Len(s) \in Nat /\ \A i \in 1..Len(s) : s[i] \in AccessUnit
    BY <1>1
  <2> QED
    BY <2>1 DEF AccessUnit
<1>3. NalusOf(s) \in Seq(Seq(Nals)) /\ Len(NalusOf(s)) = Len(s)
  BY <1>2 DEF NalusOf
<1>4. NalusOf(Append(s, au)) = Append(NalusOf(s), au.nalus)
  <2>1. /\ DOMAIN Append(s, au) = 1..(Len(s) + 1) /\ Append(s, au)[Len(s) + 1] = au
        /\ \A i \in 1..Len(s) : Append(s, au)[i] = s[i]
    BY <1>1
  <2>2. /\ DOMAIN Append(NalusOf(s), au.nalus) = 1..(Len(s) + 1)
        /\ Append(NalusOf(s), au.nalus)[Len(s) + 1] = au.nalus
        /\ \A i \in 1..Len(s) : Append(NalusOf(s), au.nalus)[i] = s[i].nalus
    BY <1>2, <1>3 DEF NalusOf
  <2>3. Append(NalusOf(s), au.nalus) = [i \in 1..(Len(s) + 1) |-> Append(s, au)[i].nalus]
    <3>1. \A i \in 1..(Len(s) + 1) : Append(NalusOf(s), au.nalus)[i] = Append(s, au)[i].nalus
      BY <1>2, <2>1, <2>2
    <3>2. Append(NalusOf(s), au.nalus)
            = [i \in 1..(Len(s) + 1) |-> Append(NalusOf(s), au.nalus)[i]]
      BY <1>2, <1>3, <2>2
    <3> QED
      BY <3>1, <3>2
  <2> QED
    BY <2>1, <2>3 DEF NalusOf
<1> QED
  BY <1>1, <1>3, <1>4 DEF s

LEMMA SplitCut ==
  ASSUME NEW d \in Seq(AccessUnit), NEW u \in Grouping, NEW done \in Seq(Nals), NEW cuts,
         Split(d, u, done, cuts), NEW v, v = SetPending(u),
         NEW more, more = IF u.pending THEN cuts ELSE cuts \cup {Len(done) + 1}
  PROVE  Split(d, v, done, more)
<1> DEFINE units == UnitsOf(d, u)
<1>1. /\ u.aus \in Seq(AccessUnit) /\ u.au \in AccessUnit /\ u.au.nalus \in Seq(Nals)
      /\ u.pending \in BOOLEAN
  BY DEF Grouping, AccessUnit
<1>2. units \in Seq(Seq(Nals)) /\ FlattenSeq(units) \in Seq(Nals)
  <2>1. units \in Seq(Seq(Nals))
    BY <1>1, UnitsAppend DEF UnitsOf
  <2> QED
    BY <2>1, FlattenGrows
<1>3. /\ FlattenSeq(units) \o u.au.nalus = done
      /\ \A k \in DOMAIN units : units[k] # <<>>
      /\ CutsOf(units) = cuts
  BY DEF Split
<1>4. CASE u.pending
  BY <1>4 DEF SetPending
<1>5. CASE ~u.pending /\ u.au.nalus = <<>>
  <2>1. v = [u EXCEPT !.pending = TRUE]
    BY <1>5 DEF SetPending, Finish
  <2>2. v.aus = u.aus /\ v.au = u.au
    BY <2>1 DEF Grouping
  <2> HIDE DEF units
  <2>3. FlattenSeq(units) = done
    BY <1>2, <1>3, <1>5, ConcatEmptySeq
  <2>4. Len(done) + 1 \in cuts
    BY <1>2, <1>3, <2>3, CutsAppend
  <2>5. more = cuts
    BY <1>5, <2>4
  <2> QED
    BY <2>2, <2>5 DEF Split, UnitsOf
<1>6. CASE ~u.pending /\ u.au.nalus # <<>>
  <2>1. v = [[u EXCEPT !.aus = Append(@, u.au), !.au = NewAU] EXCEPT !.pending = TRUE]
    BY <1>6 DEF SetPending, Finish
  <2>2. v.aus = Append(u.aus, u.au) /\ v.au.nalus = <<>>
    BY <2>1 DEF Grouping, NewAU
  <2>3. UnitsOf(d, v) = Append(units, u.au.nalus)
    BY <1>1, <2>2, UnitsAppend DEF UnitsOf
  <2> HIDE DEF units
  <2>4. FlattenSeq(Append(units, u.au.nalus)) = done
    BY <1>1, <1>2, <1>3, FlattenGrows
  <2>5. FlattenSeq(UnitsOf(d, v)) \o v.au.nalus = done
    BY <2>2, <2>3, <2>4, ConcatEmptySeq
  <2>6. CutsOf(UnitsOf(d, v)) = cuts \cup {Len(done) + 1}
    <3>1. PICK x \in Seq(Nals) : x = u.au.nalus
      BY <1>1
    <3>2. CutsOf(Append(units, x)) = CutsOf(units) \cup {Len(FlattenSeq(units) \o x) + 1}
      BY <1>2, CutsAppend
    <3> QED
      BY <1>3, <2>3, <3>1, <3>2
  <2>7. \A k \in DOMAIN UnitsOf(d, v) : UnitsOf(d, v)[k] # <<>>
    BY <1>1, <1>2, <1>3, <1>6, <2>3
  <2> QED
    BY <1>6, <2>5, <2>6, <2>7 DEF Split
<1> QED
  BY <1>1, <1>4, <1>5, <1>6

LEMMA SplitAppend ==
  ASSUME NEW d \in Seq(AccessUnit), NEW u \in Grouping, NEW done \in Seq(Nals), NEW cuts,
         Split(d, u, done, cuts), NEW nal \in Nals
  PROVE  /\ Split(d, FinishNalu(nal, u), Append(done, nal), cuts)
         /\ Split(d, [u EXCEPT !.pending = FALSE], done, cuts)
<1>1. /\ u.aus \in Seq(AccessUnit) /\ u.au \in AccessUnit /\ u.au.nalus \in Seq(Nals)
  BY DEF Grouping, AccessUnit
<1>2. Split(d, [u EXCEPT !.pending = FALSE], done, cuts)
  BY DEF Split, UnitsOf, Grouping
<1> DEFINE v == FinishNalu(nal, u)
           units == UnitsOf(d, u)
<1>3. v.aus = u.aus /\ v.au.nalus = Append(u.au.nalus, nal)
  BY GroupingSteps
<1> HIDE DEF v
<1>4. UnitsOf(d, v) = units
  BY <1>3 DEF UnitsOf
<1>5. units \in Seq(Seq(Nals)) /\ FlattenSeq(units) \in Seq(Nals)
  <2>1. units \in Seq(Seq(Nals))
    BY <1>1, UnitsAppend DEF UnitsOf
  <2> QED
    BY <2>1, FlattenGrows
<1>6. FlattenSeq(units) \o Append(u.au.nalus, nal) = Append(FlattenSeq(units) \o u.au.nalus, nal)
  <2> HIDE DEF units
  <2> QED
    <3>1. \A s, x \in Seq(Nals) : s \o Append(x, nal) = Append(s \o x, nal)
      OBVIOUS
    <3> QED
      BY <1>1, <1>5, <3>1
<1>7. Split(d, v, Append(done, nal), cuts)
  BY <1>3, <1>4, <1>6 DEF Split
<1> QED
  BY <1>2, <1>7 DEF v

(* Taking one over does not change the stream of them. *)
LEMMA SplitTaken ==
  ASSUME NEW d \in Seq(AccessUnit), NEW aus \in Seq(AccessUnit), aus # <<>>
  PROVE  Append(d, Head(aus)) \o Tail(aus) = d \o aus
<1>1. /\ Len(aus) \in Nat /\ Len(aus) > 0 /\ Head(aus) = aus[1] /\ Tail(aus) \in Seq(AccessUnit)
      /\ Len(Tail(aus)) = Len(aus) - 1
      /\ \A i \in 1..(Len(aus) - 1) : Tail(aus)[i] = aus[i + 1]
  BY EmptySeq, HeadTailProperties
<1> QED
  BY <1>1

(* Nothing since the last slice announces an access unit. *)
Quiet(done) == \A k \in (LastOf(done, Slices) + 1)..Len(done) : ~Leading(done[k])

(* KnownStarts, of any stream that is not empty. *)
Known(stream) ==
  {1} \cup {i \in 1..Len(stream) : /\ Starts(stream, i)
                                   /\ i = Len(stream) => StartsAtOnce(stream[i])}

(* A slice that differs from the one before it in delta_pic_order_cnt differs *)
(* in something else too: is_new_au() does not tell the two apart otherwise.  *)
NeverDeltaAlone(stream) ==
  \A j \in 1..Len(stream), i \in 1..Len(stream) :
    /\ i < j /\ IsSlice(stream[i]) /\ IsSlice(stream[j])
    /\ \A k \in (i + 1)..(j - 1) : ~IsSlice(stream[k])
    /\ stream[i].delta_pic_order_cnt # stream[j].delta_pic_order_cnt
    => OtherPicture(stream[i], stream[j])

(* What the parser reads and compares tells the pictures apart. *)
Readable(stream) ==
  /\ NeverDeltaAlone(stream)
  /\ \A i \in 1..(Len(stream) - 1) : IsSlice(stream[i]) => ~UnreadableIn(stream, i)

LEMMA NoneAfterLast ==
  ASSUME NEW s \in Seq(Nals), NEW K
  PROVE  \A i \in (LastOf(s, K) + 1)..Len(s) : s[i] \notin K
<1> DEFINE I == {i \in 1..Len(s) : s[i] \in K}
<1>1. I \subseteq 1..Len(s) /\ Len(s) \in Nat
  OBVIOUS
<1>2. \A i \in 1..Len(s) : s[i] \in K => i \in I
  OBVIOUS
<1>3. LastOf(s, K) = LastIn(I)
  BY DEF LastOf
<1> HIDE DEF I
<1>4. LastIn(I) \in 0..Len(s) /\ \A i \in I : i <= LastIn(I)
  BY ONLY <1>1, LastInIs
<1> QED
  BY <1>1, <1>2, <1>3, <1>4

LEMMA QuietAppend ==
  ASSUME NEW done \in Seq(Nals), NEW nal \in Nals
  PROVE  /\ Quiet(<<>>)
         /\ Quiet(Append(done, nal)) <=> IsSlice(nal) \/ (Quiet(done) /\ ~Leading(nal))
<1> DEFINE then == Append(done, nal)
           n == Len(done)
           last == LastOf(done, Slices)
<1>1. /\ n \in Nat /\ Len(then) = n + 1 /\ then[n + 1] = nal
      /\ \A i \in 1..n : then[i] = done[i]
  BY AppendProperties
<1>2. LastOf(then, Slices) = IF IsSlice(nal) THEN n + 1 ELSE last
  BY LastOfAppend DEF Slices
<1>3. last \in 0..n
  BY LastOfIs
<1>4. Quiet(<<>>)
  <2>1. Len(<<>>) = 0 /\ LastOf(<<>>, Slices) = 0 /\ 1..0 = {}
    BY LastOfNothing
  <2> QED
    BY <2>1 DEF Quiet
<1> HIDE DEF then, last
<1>5. CASE IsSlice(nal)
  <2>1. (LastOf(then, Slices) + 1)..Len(then) = {}
    BY <1>1, <1>2, <1>5
  <2> QED
    BY <1>4, <1>5, <2>1 DEF Quiet, then
<1>6. CASE ~IsSlice(nal)
  <2>1. LastOf(then, Slices) = last
    BY <1>2, <1>6
  <2>2. (last + 1)..(n + 1) = (last + 1)..n \cup {n + 1}
    BY <1>1, <1>3
  <2>3. \A k \in (last + 1)..n : k \in 1..n
    BY <1>1, <1>3
  <2>4. Quiet(then) <=> /\ \A k \in (last + 1)..n : ~Leading(then[k])
                        /\ ~Leading(then[n + 1])
    BY <1>1, <2>1, <2>2 DEF Quiet
  <2>5. (\A k \in (last + 1)..n : ~Leading(then[k])) <=> Quiet(done)
    BY <1>1, <2>3 DEF Quiet, last
  <2> QED
    BY <1>1, <1>4, <1>6, <2>4, <2>5 DEF then
<1> QED
  BY <1>5, <1>6

(* Whether an access unit starts at a position depends on what is before. *)
LEMMA StartsAppend ==
  ASSUME NEW stream \in Seq(Nals), NEW next \in Nals, NEW i \in 1..Len(stream)
  PROVE  Starts(Append(stream, next), i) <=> Starts(stream, i)
<1> DEFINE then == Append(stream, next)
<1>1. Len(stream) \in Nat /\ \A k \in 1..Len(stream) : then[k] = stream[k]
  BY AppendProperties
<1> HIDE DEF then
<1>2. \A k \in 1..i : then[k] = stream[k]
  BY <1>1
<1>3. \A j \in 1..(i - 1) : j \in 1..i /\ \A k \in (j + 1)..(i - 1) : k \in 1..i
  OBVIOUS
<1>4. i \in 1..i
  OBVIOUS
<1>5. \A j \in 1..(i - 1) : then[j] = stream[j] /\ \A k \in (j + 1)..(i - 1) : then[k] = stream[k]
  BY <1>2, <1>3
<1>6. then[i] = stream[i]
  BY <1>2, <1>4
<1>7. Starts(then, i) <=> Starts(stream, i)
  BY <1>5, <1>6 DEF Starts
<1> QED
  BY <1>7 DEF then

LEMMA StartsQuiet ==
  ASSUME NEW stream \in Seq(Nals), stream # <<>>, Leading(stream[1]), NEW next \in Nals,
         NEW last, last = LastOf(stream, Slices)
  PROVE  /\ Quiet(stream) => last \in 1..Len(stream) /\ stream[last] \in Slices
         /\ Starts(Append(stream, next), Len(stream) + 1) <=>
              /\ Quiet(stream)
              /\ \/ Leading(next)
                 \/ IsSlice(next) /\ FirstOfPicture(stream[last], next)
<1> DEFINE then == Append(stream, next)
           n == Len(stream)
<1>1. /\ n \in Nat /\ n > 0 /\ then[n + 1] = next
      /\ \A i \in 1..n : then[i] = stream[i] /\ stream[i] \in Nals
  BY AppendProperties, EmptySeq
<1>2. /\ last \in 0..n /\ (last # 0 => stream[last] \in Slices)
      /\ \A k \in (last + 1)..n : stream[k] \notin Slices
  BY LastOfIs, NoneAfterLast
<1>3. Quiet(stream) => last # 0
  <2>1. last = 0 => 1 \in (last + 1)..n
    BY <1>1
  <2> QED
    BY <2>1 DEF Quiet
<1>4. \A i \in 1..n : stream[i] \in Slices <=> IsSlice(stream[i])
  BY <1>1 DEF Slices
<1> HIDE DEF then
<1>5. ASSUME Starts(then, n + 1)
      PROVE  /\ Quiet(stream)
             /\ \/ Leading(next)
                \/ IsSlice(next) /\ FirstOfPicture(stream[last], next)
  <2>1. PICK j \in 1..n :
          /\ IsSlice(then[j])
          /\ \A k \in (j + 1)..n : ~IsSlice(then[k]) /\ ~Leading(then[k])
          /\ \/ Leading(then[n + 1])
             \/ IsSlice(then[n + 1]) /\ FirstOfPicture(then[j], then[n + 1])
    <3>1. n + 1 # 1 /\ (n + 1) - 1 = n
      BY <1>1
    <3> QED
      BY <1>5, <3>1 DEF Starts
  <2>2. j \in 1..n /\ IsSlice(stream[j])
    BY <1>1, <2>1
  <2>3. ~(last < j)
    <3>1. last < j => j \in (last + 1)..n
      BY <1>1, <1>2, <2>2
    <3> QED
      BY <1>2, <1>4, <2>2, <3>1
  <2>4. ~(j < last)
    <3> SUFFICES ASSUME j < last PROVE FALSE
      OBVIOUS
    <3>1. last \in (j + 1)..n /\ last \in 1..n /\ last # 0
      BY <1>1, <1>2, <2>2
    <3> QED
      BY <1>1, <1>2, <1>4, <2>1, <3>1
  <2>5. j = last
    BY <1>1, <1>2, <2>2, <2>3, <2>4
  <2>6. Quiet(stream)
    <3>1. \A k \in (last + 1)..n : k \in 1..n
      BY <1>1, <1>2
    <3> QED
      BY <1>1, <2>1, <2>5, <3>1 DEF Quiet
  <2> QED
    BY <1>1, <2>1, <2>5, <2>6
<1>6. ASSUME Quiet(stream), Leading(next) \/ (IsSlice(next) /\ FirstOfPicture(stream[last], next))
      PROVE  Starts(then, n + 1)
  <2>1. last \in 1..n /\ IsSlice(stream[last])
    BY <1>1, <1>2, <1>3, <1>4, <1>6
  <2>2. \A k \in (last + 1)..n : k \in 1..n
    BY <1>1, <1>2
  <2>3. \A k \in (last + 1)..n : ~IsSlice(then[k]) /\ ~Leading(then[k])
    BY <1>1, <1>2, <1>4, <1>6, <2>2 DEF Quiet
  <2>4. (n + 1) - 1 = n
    BY <1>1
  <2>5. IsSlice(then[last]) /\ (Leading(then[n + 1])
          \/ (IsSlice(then[n + 1]) /\ FirstOfPicture(then[last], then[n + 1])))
    BY <1>1, <1>6, <2>1
  <2> QED
    BY <2>1, <2>3, <2>4, <2>5 DEF Starts
<1> QED
  BY <1>1, <1>2, <1>3, <1>5, <1>6 DEF then

LEMMA KnownAppend ==
  ASSUME NEW stream \in Seq(Nals), NEW next \in Nals, NEW n, n = Len(stream)
  PROVE  /\ stream = <<>> => Known(Append(stream, next)) = {1}
         /\ stream # <<>> =>
              Known(Append(stream, next))
                = Known(stream)
                  \cup (IF Starts(stream, n) THEN {n} ELSE {})
                  \cup (IF Starts(Append(stream, next), n + 1) /\ StartsAtOnce(next)
                        THEN {n + 1} ELSE {})
<1> DEFINE then == Append(stream, next)
<1>1. /\ n \in Nat /\ Len(then) = n + 1 /\ then[n + 1] = next
      /\ \A i \in 1..n : then[i] = stream[i]
  BY AppendProperties
<1>2. \A i \in 1..n : Starts(then, i) <=> Starts(stream, i)
  BY StartsAppend
<1> HIDE DEF then
<1>3. CASE stream = <<>>
  <2>1. n = 0
    BY <1>3
  <2>2. 1..Len(then) = {1}
    BY <1>1, <2>1
  <2> QED
    BY <1>3, <2>2 DEF Known, then
<1>4. CASE stream # <<>>
  <2>1. n > 0
    BY <1>1, <1>4, EmptySeq
  <2>2. 1..(n + 1) = 1..n \cup {n + 1} /\ n \in 1..n
    BY <1>1, <2>1
  <2>3. \A i \in 1..n : i # n + 1
    BY <1>1
  <2>4. Known(then) = {1} \cup {i \in 1..n : Starts(then, i)}
                      \cup (IF Starts(then, n + 1) /\ StartsAtOnce(next) THEN {n + 1} ELSE {})
    BY <1>1, <2>2, <2>3 DEF Known
  <2>5. {i \in 1..n : Starts(then, i)} = {i \in 1..n : Starts(stream, i)}
    BY <1>2
  <2>6. {1} \cup {i \in 1..n : Starts(stream, i)}
          = Known(stream) \cup (IF Starts(stream, n) THEN {n} ELSE {})
    BY <2>2 DEF Known
  <2> QED
    BY <1>4, <2>4, <2>5, <2>6 DEF then
<1> QED
  BY <1>3, <1>4

LEMMA ReadableAppend ==
  ASSUME NEW stream \in Seq(Nals), Conformed(stream), NEW next \in Nals,
         Readable(Append(stream, next))
  PROVE  /\ Readable(stream)
         /\ \A i \in 1..Len(stream) : IsSlice(stream[i]) => ~UnreadableIn(stream, i)
<1> DEFINE then == Append(stream, next)
<1>1. /\ Len(stream) \in Nat /\ Len(then) = Len(stream) + 1
      /\ \A i \in 1..Len(stream) : then[i] = stream[i]
  BY AppendProperties
<1>2. ASSUME NEW i \in 1..Len(stream), IsSlice(stream[i])
      PROVE  ~UnreadableIn(stream, i)
  <2>1. UnreadableIn(then, i) <=> UnreadableIn(stream, i)
    BY <1>2, UnreadableAppend
  <2> HIDE DEF then
  <2>2. i \in 1..(Len(then) - 1) /\ IsSlice(then[i])
    BY <1>1, <1>2
  <2>3. Readable(then)
    BY DEF then
  <2> QED
    BY <2>1, <2>2, <2>3 DEF Readable
<1>3. \A i \in 1..(Len(stream) - 1) : i \in 1..Len(stream)
  BY <1>1
<1>4. NeverDeltaAlone(stream)
  <2>1. NeverDeltaAlone(then)
    BY DEF Readable
  <2> HIDE DEF then
  <2>2. SUFFICES ASSUME NEW j \in 1..Len(stream), NEW i \in 1..Len(stream),
                        i < j, IsSlice(stream[i]), IsSlice(stream[j]),
                        \A k \in (i + 1)..(j - 1) : ~IsSlice(stream[k]),
                        stream[i].delta_pic_order_cnt # stream[j].delta_pic_order_cnt
                 PROVE  OtherPicture(stream[i], stream[j])
    BY DEF NeverDeltaAlone
  <2>3. /\ i \in 1..Len(then) /\ j \in 1..Len(then)
        /\ \A k \in (i + 1)..(j - 1) : k \in 1..Len(stream)
    BY <1>1
  <2>4. /\ then[i] = stream[i] /\ then[j] = stream[j]
        /\ \A k \in (i + 1)..(j - 1) : ~IsSlice(then[k])
    BY <1>1, <2>2, <2>3
  <2> QED
    BY <2>1, <2>2, <2>3, <2>4 DEF NeverDeltaAlone
<1> QED
  BY <1>2, <1>3, <1>4 DEF Readable

(* An access unit has been announced, and its first slice not been seen. *)
Announced(done, held) == ~Quiet(done) \/ (held # <<>> /\ StartsAtOnce(held[1]))

(* The cuts are those of the standard, as far as they can be known. *)
CutRight(stream, done, held, d, u) ==
  /\ u.pending <=> Announced(done, held)
  /\ \E cuts : Split(d, u, done, cuts) /\ (Readable(stream) => cuts = Known(stream))

LEMMA Kinds ==
  ASSUME NEW n \in Nals
  PROVE  /\ StartsAtOnce(n) => Leading(n)
         /\ n.type \in {SEI, SPS, PPS} => Leading(n) /\ ~StartsAtOnce(n) /\ ~IsSlice(n)
         /\ n.type \notin {SEI, SPS, PPS} /\ Leading(n) => StartsAtOnce(n)
         /\ IsSlice(n) => ~Leading(n) /\ ~StartsAtOnce(n) /\ n.type # SPS
         /\ n.type \in SEI..AU_DELIMITER => Leading(n)
BY NalType DEF StartsAtOnce, Leading, IsSlice, SEI, SPS, PPS, SLICE, SLICE_DPA, SLICE_IDR,
               AU_DELIMITER, SPS_EXT, AUXILIARY_SLICE

(* The type of the next NAL unit may start an access unit. *)
LEMMA CutNext ==
  ASSUME NEW stream \in Seq(Nals), stream # <<>>, Leading(stream[1]), NEW next \in Nals,
         NEW d \in Seq(AccessUnit), NEW u \in Grouping, NEW cuts, Split(d, u, stream, cuts),
         NEW n, n = Len(stream),
         Readable(Append(stream, next)) =>
           cuts = Known(stream) \cup (IF Starts(stream, n) THEN {n} ELSE {}),
         u.pending <=> ~Quiet(stream),
         NEW v, v = IF StartsAtOnce(next) THEN SetPending(u) ELSE u
  PROVE  CutRight(Append(stream, next), stream, <<next>>, d, v)
<1> DEFINE more == IF StartsAtOnce(next) /\ ~u.pending THEN cuts \cup {n + 1} ELSE cuts
<1>1. Split(d, v, stream, more)
  <2>1. CASE StartsAtOnce(next)
    <3>1. more = IF u.pending THEN cuts ELSE cuts \cup {n + 1}
      BY <2>1
    <3> HIDE DEF more
    <3> QED
      BY <2>1, <3>1, SplitCut
  <2>2. CASE ~StartsAtOnce(next)
    BY <2>2
  <2> QED
    BY <2>1, <2>2
<1>2. Starts(Append(stream, next), n + 1) /\ StartsAtOnce(next)
        <=> Quiet(stream) /\ StartsAtOnce(next)
  <2>1. StartsAtOnce(next) => Leading(next)
    BY Kinds
  <2>2. PICK last : last = LastOf(stream, Slices)
    OBVIOUS
  <2> QED
    BY <2>1, <2>2, StartsQuiet
<1>3. Readable(Append(stream, next)) => more = Known(Append(stream, next))
  <2> SUFFICES ASSUME Readable(Append(stream, next)) PROVE more = Known(Append(stream, next))
    OBVIOUS
  <2>1. cuts = Known(stream) \cup (IF Starts(stream, n) THEN {n} ELSE {})
    OBVIOUS
  <2>2. Known(Append(stream, next))
          = Known(stream)
            \cup (IF Starts(stream, n) THEN {n} ELSE {})
            \cup (IF Starts(Append(stream, next), n + 1) /\ StartsAtOnce(next)
                  THEN {n + 1} ELSE {})
    BY KnownAppend
  <2> QED
    BY <1>2, <2>1, <2>2
<1>4. v.pending <=> Announced(stream, <<next>>)
  <2>1. <<next>> # <<>> /\ <<next>>[1] = next
    OBVIOUS
  <2>2. Announced(stream, <<next>>) <=> ~Quiet(stream) \/ StartsAtOnce(next)
    BY <2>1 DEF Announced
  <2>3. StartsAtOnce(next) => v.pending
    BY GroupingSteps
  <2> QED
    BY <2>2, <2>3
<1> HIDE DEF more
<1> QED
  BY <1>1, <1>3, <1>4 DEF CutRight

LEMMA CutFirst ==
  ASSUME NEW next \in Nals, NEW d \in Seq(AccessUnit), NEW u \in Grouping,
         CutRight(<<>>, <<>>, <<>>, d, u),
         NEW v, v = IF StartsAtOnce(next) THEN SetPending(u) ELSE u
  PROVE  CutRight(<<next>>, <<>>, <<next>>, d, v)
<1>1. PICK empty \in Seq(Nals) : empty = <<>>
  <2>1. <<>> \in Seq(Nals)
    OBVIOUS
  <2> QED
    BY <2>1
<1>2. Len(empty) = 0 /\ Append(empty, next) = <<next>>
  BY <1>1
<1>3. Readable(empty) /\ Known(empty) = {1}
  <2>1. 1..(Len(empty) - 1) = {} /\ 1..Len(empty) = {}
    BY <1>2
  <2> QED
    BY <2>1 DEF Readable, NeverDeltaAlone, Known
<1>4. PICK cuts : Split(d, u, empty, cuts) /\ cuts = {1}
  BY <1>1, <1>3 DEF CutRight
<1>5. ~u.pending
  BY <1>1, QuietAppend DEF CutRight, Announced
<1>6. Known(<<next>>) = {1}
  <2>1. PICK n : n = Len(empty)
    OBVIOUS
  <2> QED
    BY <1>1, <1>2, <2>1, KnownAppend
<1>7. PICK more : Split(d, v, empty, more) /\ more = {1}
  <2>1. CASE StartsAtOnce(next)
    <3>1. PICK more : more = IF u.pending THEN cuts ELSE cuts \cup {Len(empty) + 1}
      OBVIOUS
    <3>2. more = {1}
      BY <1>2, <1>4, <3>1
    <3>3. v = SetPending(u)
      BY <2>1
    <3>4. Split(d, v, empty, more)
      BY <1>1, <1>4, <3>1, <3>3, SplitCut
    <3> QED
      BY <3>2, <3>4
  <2>2. CASE ~StartsAtOnce(next)
    BY <1>4, <2>2
  <2> QED
    BY <2>1, <2>2
<1>8. v.pending <=> StartsAtOnce(next)
  BY <1>5, GroupingSteps
<1>9. <<next>> # <<>> /\ <<next>>[1] = next
  OBVIOUS
<1>10. Announced(<<>>, <<next>>) <=> StartsAtOnce(next)
  BY <1>9, QuietAppend DEF Announced
<1> QED
  BY <1>1, <1>6, <1>7, <1>8, <1>10 DEF CutRight

(* What is known of the stream and of the flag when the NAL unit nal is      *)
(* dealt with.                                                               *)
LEMMA CutBefore ==
  ASSUME NEW done \in Seq(Nals), NEW nal \in Nals, NEW stream, stream = Append(done, nal),
         Conformed(stream), NEW n, n = Len(stream)
  PROVE  /\ stream \in Seq(Nals) /\ stream # <<>> /\ Leading(stream[1])
         /\ n = Len(done) + 1 /\ stream[n] = nal /\ n \in 1..Len(stream)
         /\ done = <<>> => Starts(stream, n) /\ n = 1 /\ Leading(nal)
         /\ done # <<>> => Leading(done[1])
<1>1. /\ Len(done) \in Nat /\ stream \in Seq(Nals) /\ n = Len(done) + 1 /\ stream[n] = nal
      /\ \A i \in 1..Len(done) : stream[i] = done[i]
  BY AppendProperties
<1>2. stream # <<>> /\ 1 \in 1..Len(stream) /\ n \in 1..Len(stream)
  BY <1>1
<1>3. stream[1] \in Nals /\ stream[1].type \in SEI..AU_DELIMITER
  <2>1. ConformsAt(stream, 1)
    BY <1>2 DEF Conformed
  <2> QED
    BY <1>1, <1>2, <2>1 DEF ConformsAt
<1>4. Leading(stream[1])
  BY <1>3, Kinds
<1>5. done = <<>> => n = 1
  BY <1>1
<1>6. done = <<>> => Starts(stream, n)
  BY <1>5 DEF Starts
<1>7. done # <<>> => 1 \in 1..Len(done)
  BY <1>1, EmptySeq
<1> QED
  BY <1>1, <1>2, <1>4, <1>5, <1>6, <1>7

LEMMA CutParameters ==
  ASSUME NEW done \in Seq(Nals), NEW nal \in Nals, NEW stream, stream = Append(done, nal),
         Conformed(stream), nal.type \in {SEI, SPS, PPS},
         NEW d \in Seq(AccessUnit), NEW u \in Grouping, CutRight(stream, done, <<nal>>, d, u),
         NEW next \in Nals, NEW w, w = FinishNalu(nal, SetPending(u)),
         NEW v, v = IF StartsAtOnce(next) THEN SetPending(w) ELSE w
  PROVE  CutRight(Append(stream, next), stream, <<next>>, d, v)
<1>1. PICK n : n = Len(stream)
  OBVIOUS
<1>2. /\ stream \in Seq(Nals) /\ stream # <<>> /\ Leading(stream[1]) /\ n = Len(done) + 1
      /\ done = <<>> => Starts(stream, n)
      /\ done # <<>> => Leading(done[1])
  BY <1>1, CutBefore
<1>3. PICK cuts : Split(d, u, done, cuts) /\ (Readable(stream) => cuts = Known(stream))
  BY DEF CutRight
<1>4. Leading(nal) /\ ~StartsAtOnce(nal) /\ ~IsSlice(nal)
  BY Kinds
<1>5. u.pending <=> ~Quiet(done)
  <2>1. <<nal>>[1] = nal
    OBVIOUS
  <2> QED
    BY <1>4, <2>1 DEF CutRight, Announced
<1>6. Starts(stream, n) <=> Quiet(done)
  <2>1. CASE done = <<>>
    BY <1>2, <2>1, QuietAppend
  <2>2. CASE done # <<>>
    <3>1. PICK last : last = LastOf(done, Slices)
      OBVIOUS
    <3> QED
      BY <1>2, <1>4, <2>2, <3>1, StartsQuiet
  <2> QED
    BY <2>1, <2>2
<1>7. PICK more : more = IF u.pending THEN cuts ELSE cuts \cup {Len(done) + 1}
  OBVIOUS
<1>8. PICK x : x = SetPending(u)
  OBVIOUS
<1>9. x \in Grouping /\ x.pending /\ Split(d, x, done, more)
  <2>1. x \in Grouping /\ x.pending
    BY <1>8, GroupingTypes, GroupingSteps
  <2>2. Split(d, x, done, more)
    BY <1>3, <1>7, <1>8, SplitCut
  <2> QED
    BY <2>1, <2>2
<1>10. w \in Grouping /\ w.pending /\ Split(d, w, stream, more)
  BY <1>8, <1>9, GroupingTypes, GroupingSteps, SplitAppend
<1>11. w.pending <=> ~Quiet(stream)
  BY <1>4, <1>10, QuietAppend
<1>12. Readable(Append(stream, next)) =>
         more = Known(stream) \cup (IF Starts(stream, n) THEN {n} ELSE {})
  BY <1>2, <1>3, <1>5, <1>6, <1>7, ReadableAppend
<1> QED
  BY <1>1, <1>2, <1>10, <1>11, <1>12, CutNext

LEMMA CutOther ==
  ASSUME NEW done \in Seq(Nals), NEW nal \in Nals, NEW stream, stream = Append(done, nal),
         Conformed(stream), nal.type \notin {SEI, SPS, PPS}, ~IsSlice(nal),
         NEW d \in Seq(AccessUnit), NEW u \in Grouping, CutRight(stream, done, <<nal>>, d, u),
         NEW next \in Nals, NEW w, w = FinishNalu(nal, u),
         NEW v, v = IF StartsAtOnce(next) THEN SetPending(w) ELSE w
  PROVE  CutRight(Append(stream, next), stream, <<next>>, d, v)
<1>1. PICK n : n = Len(stream)
  OBVIOUS
<1>2. /\ stream \in Seq(Nals) /\ stream # <<>> /\ Leading(stream[1]) /\ n = Len(done) + 1
      /\ done = <<>> => n = 1
      /\ done # <<>> => Leading(done[1])
      /\ stream[n] = nal /\ n \in 1..Len(stream)
  <2>1. /\ done \in Seq(Nals) /\ nal \in Nals /\ stream = Append(done, nal)
        /\ Conformed(stream) /\ n = Len(stream)
    BY <1>1
  <2> QED
    <3>1. stream \in Seq(Nals) /\ stream # <<>> /\ n = Len(done) + 1
      BY ONLY <2>1, CutBefore
    <3>2. Leading(stream[1]) /\ (done # <<>> => Leading(done[1]))
      BY ONLY <2>1, CutBefore
    <3>3. stream[n] = nal /\ n \in 1..Len(stream) /\ (done = <<>> => n = 1)
      BY ONLY <2>1, CutBefore
    <3> QED
      BY <3>1, <3>2, <3>3
<1>3. PICK cuts : Split(d, u, done, cuts) /\ (Readable(stream) => cuts = Known(stream))
  BY DEF CutRight
<1>4. Leading(nal) <=> StartsAtOnce(nal)
  BY Kinds
<1>5. u.pending <=> ~Quiet(done) \/ StartsAtOnce(nal)
  <2>1. <<nal>>[1] = nal /\ <<nal>> # <<>>
    OBVIOUS
  <2> QED
    BY <2>1 DEF CutRight, Announced
<1>6. Starts(stream, n) => n \in Known(stream)
  <2>1. CASE done = <<>>
    BY <1>2, <2>1 DEF Known
  <2>2. CASE done # <<>>
    <3>1. PICK last : last = LastOf(done, Slices)
      OBVIOUS
    <3>2. Starts(stream, n) => StartsAtOnce(stream[n])
      BY <1>2, <1>4, <2>2, <3>1, StartsQuiet
    <3> QED
      BY <1>2, <3>2 DEF Known
  <2> QED
    BY <2>1, <2>2
<1>7. w \in Grouping /\ w.pending = u.pending /\ Split(d, w, stream, cuts)
  BY <1>3, GroupingTypes, GroupingSteps, SplitAppend
<1>8. w.pending <=> ~Quiet(stream)
  BY <1>4, <1>5, <1>7, QuietAppend
<1>9. Readable(Append(stream, next)) =>
         cuts = Known(stream) \cup (IF Starts(stream, n) THEN {n} ELSE {})
  BY <1>2, <1>3, <1>6, ReadableAppend
<1> QED
  BY <1>1, <1>2, <1>7, <1>8, <1>9, CutNext

(* A slice starts an access unit where the parser, having read it, thinks so. *)
LEMMA CutSlice ==
  ASSUME NEW done \in Seq(Nals), NEW nal \in Nals, NEW stream, stream = Append(done, nal),
         Conformed(stream), IsSlice(nal),
         NEW d \in Seq(AccessUnit), NEW u \in Grouping, CutRight(stream, done, <<nal>>, d, u),
         NEW next \in Nals, NEW new \in BOOLEAN,
         Readable(Append(stream, next)) /\ Quiet(done) =>
           (new <=> FirstOfPicture(done[LastOf(done, Slices)], nal)),
         NEW x, x = IF new THEN SetPending(u) ELSE u,
         NEW w, w = FinishNalu(nal, [x EXCEPT !.pending = FALSE]),
         NEW v, v = IF StartsAtOnce(next) THEN SetPending(w) ELSE w
  PROVE  CutRight(Append(stream, next), stream, <<next>>, d, v)
<1>1. PICK n : n = Len(stream)
  OBVIOUS
<1>2. /\ stream \in Seq(Nals) /\ stream # <<>> /\ Leading(stream[1]) /\ n = Len(done) + 1
      /\ done = <<>> => Leading(nal)
      /\ done # <<>> => Leading(done[1])
  BY <1>1, CutBefore
<1>3. PICK cuts : Split(d, u, done, cuts) /\ (Readable(stream) => cuts = Known(stream))
  BY DEF CutRight
<1>4. ~Leading(nal) /\ ~StartsAtOnce(nal)
  BY Kinds
<1>5. u.pending <=> ~Quiet(done)
  <2>1. <<nal>>[1] = nal
    OBVIOUS
  <2> QED
    BY <1>4, <2>1 DEF CutRight, Announced
<1>6. PICK last : last = LastOf(done, Slices)
  OBVIOUS
<1>7. Starts(stream, n) <=> Quiet(done) /\ FirstOfPicture(done[last], nal)
  BY <1>2, <1>4, <1>6, StartsQuiet
<1>8. PICK more : more = IF new /\ ~u.pending THEN cuts \cup {Len(done) + 1} ELSE cuts
  OBVIOUS
<1>9. x \in Grouping /\ Split(d, x, done, more)
  <2>1. CASE new
    <3>1. more = IF u.pending THEN cuts ELSE cuts \cup {Len(done) + 1}
      BY <1>8, <2>1
    <3> QED
      BY <1>3, <2>1, <3>1, GroupingTypes, SplitCut
  <2>2. CASE ~new
    BY <1>3, <1>8, <2>2
  <2> QED
    BY <2>1, <2>2
<1>10. PICK y : y = [x EXCEPT !.pending = FALSE]
  OBVIOUS
<1>11. y \in Grouping /\ ~y.pending /\ Split(d, y, done, more)
  <2>1. y \in Grouping /\ Split(d, y, done, more)
    BY <1>9, <1>10, GroupingTypes, SplitAppend
  <2>2. ~y.pending
    BY <1>9, <1>10 DEF Grouping
  <2> QED
    BY <2>1, <2>2
<1>12. w \in Grouping /\ w.pending = y.pending /\ Split(d, w, stream, more)
  <2>1. w = FinishNalu(nal, y)
    BY <1>10
  <2>2. w \in Grouping /\ w.pending = y.pending
    <3>1. y \in Grouping /\ nal \in Nals
      BY <1>11
    <3> QED
      BY ONLY <2>1, <3>1, GroupingTypes, GroupingSteps
  <2>3. Split(d, w, stream, more)
    BY <1>11, <2>1, SplitAppend
  <2> QED
    BY <2>2, <2>3
<1>13. w.pending <=> ~Quiet(stream)
  BY <1>11, <1>12, QuietAppend
<1>14. Readable(Append(stream, next)) =>
         more = Known(stream) \cup (IF Starts(stream, n) THEN {n} ELSE {})
  BY <1>2, <1>3, <1>5, <1>6, <1>7, <1>8, ReadableAppend
<1> QED
  BY <1>1, <1>2, <1>12, <1>13, <1>14, CutNext

(* Of two slices with the same sequence parameter set, the parser compares  *)
(* what the standard does.                                                  *)
LEMMA SamePicture ==
  ASSUME NEW nals \in Encoders, NEW p \in nals, NEW q \in nals,
         p.delta_pic_order_cnt # q.delta_pic_order_cnt => OtherPicture(p, q),
         IsSlice(p), IsSlice(q), NEW s, CodableSPS(s),
         NEW pp, Codable(p, s, pp), NEW qq, Codable(q, s, qq),
         HeaderOf(prev, p, s), NEW h, HeaderOf(h, q, s),
         sps # <<>>, sps[1].pic_order_cnt_type = s.pic_order_cnt_type
  PROVE  IsNewAU(h) <=> FirstOfPicture(p, q)
<1>1. FirstOfPicture(p, q) <=> OtherPicture(p, q)
  BY DEF FirstOfPicture
<1>2. /\ CodableSlice(p) /\ CodableSlice(q)
      /\ p.type = SLICE_IDR => p.frame_num = 0
      /\ q.type = SLICE_IDR => q.frame_num = 0
      /\ p.type # SLICE_IDR => p.idr_pic_id = 0
      /\ q.type # SLICE_IDR => q.idr_pic_id = 0
  BY NalsAssumption DEF IsSlice
<1>3. prev.frame_num # -1 /\ prev.pic_parameter_set_id # -1
  <2>1. prev.frame_num = p.frame_num /\ prev.pic_parameter_set_id = p.pic_parameter_set_id
    BY DEF HeaderOf
  <2>2. p.frame_num \in Nat /\ p.pic_parameter_set_id \in 0..255
    BY <1>2 DEF CodableSlice
  <2> QED
    BY ONLY <2>1, <2>2
<1>4. /\ PrevPicOrderCntType = 0
      /\ PicOrderCntType = s.pic_order_cnt_type
  BY DEF PrevPicOrderCntType, PicOrderCntType
<1>5. /\ prev.type = p.type /\ h.type = q.type
      /\ prev.nal_ref_idc = p.nal_ref_idc /\ h.nal_ref_idc = q.nal_ref_idc
      /\ prev.frame_num = p.frame_num /\ h.frame_num = q.frame_num
      /\ prev.pic_parameter_set_id = p.pic_parameter_set_id
      /\ h.pic_parameter_set_id = q.pic_parameter_set_id
      /\ prev.field_pic_flag = p.field_pic_flag /\ h.field_pic_flag = q.field_pic_flag
      /\ prev.delta_pic_order_cnt_bottom = p.delta_pic_order_cnt_bottom
      /\ h.delta_pic_order_cnt_bottom = q.delta_pic_order_cnt_bottom
  BY DEF HeaderOf
<1>6. ((q.type # SLICE_IDR /\ p.frame_num # q.frame_num)
         \/ (p.type # q.type /\ SLICE_IDR \in {p.type, q.type}))
        <=> (p.frame_num # q.frame_num \/ (p.type # q.type /\ SLICE_IDR \in {p.type, q.type}))
  BY <1>2
<1>7. (-1 \notin {h.bottom_field_flag, prev.bottom_field_flag}
         /\ h.bottom_field_flag # prev.bottom_field_flag)
        <=> p.bottom_field_flag # q.bottom_field_flag
  <2>1. CASE s.frame_mbs_only_flag = 1
    <3>1. h.bottom_field_flag = -1
      BY <2>1 DEF HeaderOf
    <3>2. p.bottom_field_flag = 0 /\ q.bottom_field_flag = 0
      BY <2>1 DEF Codable
    <3> QED
      BY <3>1, <3>2
  <2>2. CASE s.frame_mbs_only_flag = 0
    <3>1. h.bottom_field_flag = q.bottom_field_flag /\ prev.bottom_field_flag = p.bottom_field_flag
      BY <2>2 DEF HeaderOf
    <3>2. h.bottom_field_flag # -1 /\ prev.bottom_field_flag # -1
      BY <1>2, <3>1 DEF CodableSlice
    <3> QED
      BY <3>1, <3>2
  <2> QED
    BY <2>1, <2>2 DEF CodableSPS
<1>8. (s.pic_order_cnt_type = 0
         /\ (h.pic_order_cnt_lsb # prev.pic_order_cnt_lsb
               \/ h.delta_pic_order_cnt_bottom # prev.delta_pic_order_cnt_bottom))
        <=> (p.pic_order_cnt_lsb # q.pic_order_cnt_lsb
               \/ p.delta_pic_order_cnt_bottom # q.delta_pic_order_cnt_bottom)
  <2>1. CASE s.pic_order_cnt_type = 0
    <3>1. h.pic_order_cnt_lsb = q.pic_order_cnt_lsb /\ prev.pic_order_cnt_lsb = p.pic_order_cnt_lsb
      BY <2>1 DEF HeaderOf
    <3> QED
      BY <1>5, <2>1, <3>1
  <2>2. CASE s.pic_order_cnt_type # 0
    <3>1. p.pic_order_cnt_lsb = 0 /\ q.pic_order_cnt_lsb = 0
      BY <2>2 DEF Codable
    <3>2. p.delta_pic_order_cnt_bottom = 0 /\ q.delta_pic_order_cnt_bottom = 0
      BY <2>2 DEF Codable
    <3> QED
      BY <2>2, <3>1, <3>2
  <2> QED
    BY <2>1, <2>2
<1>9. ((p.type = SLICE_IDR /\ q.type = SLICE_IDR /\ h.idr_pic_id # prev.idr_pic_id)
         \/ (p.type # q.type /\ SLICE_IDR \in {p.type, q.type}))
        <=> (p.idr_pic_id # q.idr_pic_id
               \/ (p.type # q.type /\ SLICE_IDR \in {p.type, q.type}))
  <2>1. CASE p.type = SLICE_IDR /\ q.type = SLICE_IDR
    <3>1. h.idr_pic_id = q.idr_pic_id /\ prev.idr_pic_id = p.idr_pic_id
      BY <2>1 DEF HeaderOf
    <3> QED
      BY <2>1, <3>1
  <2>2. CASE p.type # SLICE_IDR /\ q.type # SLICE_IDR
    BY <1>2, <2>2
  <2>3. CASE p.type # q.type /\ SLICE_IDR \in {p.type, q.type}
    BY <2>3
  <2> QED
    BY <2>1, <2>2, <2>3
<1> DEFINE kinds == p.type # q.type /\ SLICE_IDR \in {p.type, q.type}
           frames == p.frame_num # q.frame_num
           references == p.nal_ref_idc # q.nal_ref_idc /\ 0 \in {p.nal_ref_idc, q.nal_ref_idc}
           sets == p.pic_parameter_set_id # q.pic_parameter_set_id
           fields == p.field_pic_flag # q.field_pic_flag
           bottoms == p.bottom_field_flag # q.bottom_field_flag
           orders == p.pic_order_cnt_lsb # q.pic_order_cnt_lsb
                     \/ p.delta_pic_order_cnt_bottom # q.delta_pic_order_cnt_bottom
           numbers == p.idr_pic_id # q.idr_pic_id
<1>10. OtherPicture(p, q) <=> frames \/ sets \/ fields \/ bottoms \/ references \/ orders
                              \/ kinds \/ numbers
  BY DEF OtherPicture
<1> DEFINE framesRead == q.type # SLICE_IDR /\ p.frame_num # q.frame_num
           bottomsRead == -1 \notin {h.bottom_field_flag, prev.bottom_field_flag}
                          /\ h.bottom_field_flag # prev.bottom_field_flag
           ordersRead == s.pic_order_cnt_type = 0
                         /\ (h.pic_order_cnt_lsb # prev.pic_order_cnt_lsb
                               \/ h.delta_pic_order_cnt_bottom # prev.delta_pic_order_cnt_bottom)
           numbersRead == p.type = SLICE_IDR /\ q.type = SLICE_IDR
                          /\ h.idr_pic_id # prev.idr_pic_id
<1>11. IsNewAU(h) <=> framesRead \/ sets \/ fields \/ bottomsRead \/ references \/ ordersRead
                      \/ kinds \/ numbersRead
  BY <1>3, <1>4, <1>5 DEF IsNewAU
<1>12. /\ framesRead \/ kinds <=> frames \/ kinds
       /\ bottomsRead <=> bottoms
       /\ ordersRead <=> orders
       /\ numbersRead \/ kinds <=> numbers \/ kinds
  BY <1>6, <1>7, <1>8, <1>9
<1> HIDE DEF kinds, frames, references, sets, fields, bottoms, orders, numbers, framesRead,
             bottomsRead, ordersRead, numbersRead
<1> QED
  BY <1>1, <1>10, <1>11, <1>12

(* While nothing announces an access unit, the parameter set in force is    *)
(* that of the last slice.                                                  *)
LEMMA QuietSets ==
  ASSUME NEW done \in Seq(Nals), Quiet(done), NEW last \in 1..Len(done),
         last = LastOf(done, Slices), done[last] \in Slices
  PROVE  LastSPS(SubSeq(done, 1, last - 1)) = LastSPS(done)
<1> DEFINE before == SubSeq(done, 1, last - 1)
           n == Len(done)
<1>1. /\ before \in Seq(Nals) /\ Len(before) = last - 1 /\ n \in Nat
      /\ \A k \in 1..(last - 1) : before[k] = done[k]
  <2>1. PICK m \in Nat : m = last - 1
    OBVIOUS
  <2>2. m \in 0..n
    BY <2>1
  <2>3. /\ SubSeq(done, 1, m) \in Seq(Nals) /\ Len(SubSeq(done, 1, m)) = m
        /\ \A k \in 1..m : SubSeq(done, 1, m)[k] = done[k]
    BY <2>2
  <2> QED
    BY <2>1, <2>3
<1>2. \A k \in 1..n : done[k] \in Nals
  OBVIOUS
<1>3. \A k \in last..n : done[k] \notin SetsOfSequence
  <2> SUFFICES ASSUME NEW k \in last..n PROVE done[k].type # SPS
    BY DEF SetsOfSequence
  <2>1. CASE k = last
    BY <2>1, Kinds DEF Slices
  <2>2. CASE k # last
    <3>1. k \in (last + 1)..n /\ k \in 1..n
      BY <1>1, <2>2
    <3>2. ~Leading(done[k]) /\ done[k] \in Nals
      BY <1>2, <3>1 DEF Quiet
    <3> QED
      BY <3>2, Kinds
  <2> QED
    BY <2>1, <2>2
<1>4. {i \in 1..Len(before) : before[i] \in SetsOfSequence} = {i \in 1..n : done[i] \in SetsOfSequence}
  <2> HIDE DEF before
  <2>1. 1..Len(before) = 1..(last - 1)
    BY <1>1
  <2>2. \A i \in 1..n : done[i] \in SetsOfSequence => i \in 1..(last - 1)
    <3>1. \A i \in 1..n : i \notin 1..(last - 1) => i \in last..n
      BY <1>1
    <3> QED
      BY <1>3, <3>1
  <2>3. \A i \in 1..(last - 1) : i \in 1..n
    BY <1>1
  <2> QED
    BY <1>1, <2>1, <2>2, <2>3
<1>5. LastOf(before, SetsOfSequence) = LastOf(done, SetsOfSequence)
  BY <1>4 DEF LastOf
<1> QED
  BY <1>1, <1>5, LastsAre

PInv ==
  /\ input \in Seq(encoder)
  /\ ~aborted => CutRight(input, Done, m_nalu, delivered, Current)

LEMMA InitPInv ==
  ASSUME Init
  PROVE  PInv
<1>1. /\ input = <<>> /\ m_nalu = <<>> /\ delivered = <<>>
      /\ Current.pending = FALSE /\ Current.aus = <<>> /\ Current.au.nalus = <<>>
  BY DEF Init, Current, NewAU
<1>2. Done = <<>> /\ input \in Seq(encoder)
  BY <1>1 DEF Done
<1>3. UnitsOf(<<>>, Current) = <<>>
  <2>1. <<>> \o <<>> = <<>>
    OBVIOUS
  <2>2. NalusOf(<<>>) = <<>>
    BY DEF NalusOf
  <2> QED
    BY <1>1, <2>1, <2>2 DEF UnitsOf
<1>4. Split(<<>>, Current, <<>>, {1})
  <2>1. FlattenSeq(<<>>) = <<>>
    <3>1. \E A : <<>> \in Seq(Seq(A)) /\ <<>> \in Seq(A)
      OBVIOUS
    <3> QED
      BY <3>1, FlattenGrows
  <2>2. CutsOf(<<>>) = {1}
    <3>1. \E A : <<>> \in Seq(Seq(A)) /\ <<>> \in Seq(A)
      OBVIOUS
    <3> QED
      BY <3>1, CutsAppend
  <2>3. <<>> \o <<>> = <<>> /\ DOMAIN <<>> = {}
    OBVIOUS
  <2> QED
    BY <1>1, <1>3, <2>1, <2>2, <2>3 DEF Split
<1>5. Known(<<>>) = {1}
  <2>1. 1..Len(<<>>) = {}
    OBVIOUS
  <2> QED
    BY <2>1 DEF Known
<1>6. ~Announced(<<>>, <<>>)
  <2>1. Len(<<>>) = 0 /\ LastOf(<<>>, Slices) = 0 /\ 1..0 = {}
    BY LastOfNothing
  <2> QED
    BY <2>1 DEF Announced, Quiet
<1>7. CutRight(<<>>, <<>>, <<>>, <<>>, Current)
  BY <1>1, <1>4, <1>5, <1>6 DEF CutRight
<1> QED
  BY <1>1, <1>2, <1>7 DEF PInv

(* What a step that deals with the NAL unit held back starts from. *)
LEMMA Dealt ==
  ASSUME IInv, XInv, PInv, NEW next \in encoder, Arrives(next), NEW nal, m_nalu = <<nal>>
  PROVE  /\ nal \in Nals /\ next \in Nals /\ Done \in Seq(Nals) /\ input \in Seq(Nals)
         /\ input = Append(Done, nal) /\ input' = Append(input, next) /\ Done' = input
         /\ Conformed(input) /\ delivered \in Seq(AccessUnit) /\ Current \in Grouping
         /\ CutRight(input, Done, <<nal>>, delivered, Current)
         /\ delivered' = delivered /\ encoder' = encoder /\ input' \in Seq(encoder)
         /\ Typed /\ Held /\ Kept /\ Exact /\ nal \in encoder
<1>1. ~aborted /\ Typed /\ Held /\ Kept /\ Conformed(input) /\ Exact
  BY DEF Arrives, IInv, XInv
<1>2. /\ next \in Nals /\ input' = Append(input, next) /\ encoder' = encoder
      /\ delivered' = delivered /\ input \in Seq(Nals)
  BY <1>1, ArrivesTypes DEF Typed
<1>3. nal \in Nals /\ Done \in Seq(Nals) /\ input = Append(Done, nal) /\ input # <<>>
      /\ nal = input[Len(input)]
  <2>1. \A x : <<x>> # <<>> /\ <<x>>[1] = x
    OBVIOUS
  <2> QED
    BY <1>1, <1>2, <2>1, HeldBack
<1>4. input \in Seq(encoder) /\ CutRight(input, Done, <<nal>>, delivered, Current)
  BY <1>1 DEF PInv
<1>5. Done' = input
  BY <1>2, DoneNext
<1>6. input' \in Seq(encoder)
  BY <1>2, <1>4, AppendProperties
<1>7. nal \in encoder
  BY <1>3, <1>4, EmptySeq
<1> QED
  BY <1>1, <1>2, <1>3, <1>4, <1>5, <1>6, <1>7 DEF Typed

(* And what it is to show. *)
LEMMA DealtNext ==
  ASSUME NEW next, NEW u, Begin(next, u), NEW v \in Grouping,
         v = IF StartsAtOnce(next) THEN SetPending(u) ELSE u,
         encoder' = encoder, delivered' = delivered, input' \in Seq(encoder),
         input' = Append(input, next), Done' = input,
         CutRight(Append(input, next), input, <<next>>, delivered, v)
  PROVE  PInv'
<1>1. Current' = v /\ m_nalu' = <<next>>
  BY HandedOn
<1>2. CutRight(input', Done', m_nalu', delivered', Current')
  BY <1>1
<1> QED
  BY <1>2 DEF PInv

LEMMA FirstPInv ==
  ASSUME IInv, XInv, PInv, NEW next \in encoder, FirstNal(next)
  PROVE  PInv'
<1>1. m_nalu = <<>> /\ Arrives(next) /\ Begin(next, Current) /\ ~aborted
  BY DEF FirstNal, Arrives
<1>2. Typed /\ Held /\ Current \in Grouping /\ delivered \in Seq(AccessUnit)
  BY <1>1 DEF IInv, Typed
<1>3. /\ next \in Nals /\ input' = Append(input, next) /\ encoder' = encoder
      /\ delivered' = delivered /\ input \in Seq(Nals)
  BY <1>1, <1>2, ArrivesTypes DEF Typed
<1>4. input = <<>> /\ Done = <<>> /\ Done' = input
  <2>1. input = <<>>
    BY <1>1, <1>2, <1>3, HeldBack
  <2> QED
    BY <1>3, <2>1, DoneNext DEF Done
<1>5. input' \in Seq(encoder)
  BY <1>3, AppendProperties DEF PInv
<1>6. CutRight(<<>>, <<>>, <<>>, delivered, Current)
  BY <1>1, <1>4 DEF PInv
<1>7. PICK v : v = IF StartsAtOnce(next) THEN SetPending(Current) ELSE Current
  OBVIOUS
<1>8. v \in Grouping
  BY <1>2, <1>3, <1>7, GroupingTypes
<1>9. CutRight(<<next>>, <<>>, <<next>>, delivered, v)
  BY <1>2, <1>3, <1>6, <1>7, CutFirst
<1>10. Append(input, next) = <<next>>
  BY <1>4
<1>11. CutRight(Append(input, next), input, <<next>>, delivered, v)
  BY <1>4, <1>9, <1>10
<1>12. PICK u : u = Current
  OBVIOUS
<1> QED
  BY <1>1, <1>3, <1>4, <1>5, <1>7, <1>8, <1>11, <1>12, DealtNext

LEMMA ParametersPInv ==
  ASSUME IInv, XInv, PInv, NEW nal, NEW next \in encoder, ParametersComplete(nal, next)
  PROVE  PInv'
<1>1. /\ m_nalu = <<nal>> /\ nal.type \in {SEI, SPS, PPS} /\ Arrives(next)
      /\ Begin(next, FinishNalu(nal, SetPending(Current)))
  BY DEF ParametersComplete
<1>2. PICK u : u = Current
  OBVIOUS
<1>3. /\ nal \in Nals /\ next \in Nals /\ Done \in Seq(Nals) /\ input \in Seq(Nals)
      /\ input = Append(Done, nal) /\ input' = Append(input, next) /\ Done' = input
      /\ Conformed(input) /\ delivered \in Seq(AccessUnit) /\ u \in Grouping
      /\ CutRight(input, Done, <<nal>>, delivered, u)
      /\ delivered' = delivered /\ encoder' = encoder /\ input' \in Seq(encoder)
  BY <1>1, <1>2, Dealt
<1>4. PICK w : w = FinishNalu(nal, SetPending(u))
  OBVIOUS
<1>5. PICK v : v = IF StartsAtOnce(next) THEN SetPending(w) ELSE w
  OBVIOUS
<1>6. v \in Grouping
  <2>1. w \in Grouping
    BY <1>3, <1>4, GroupingTypes
  <2> QED
    BY <1>3, <1>5, <2>1, GroupingTypes
<1>7. Begin(next, w)
  BY <1>1, <1>2, <1>4
<1>8. PICK stream, done : stream = input /\ done = Done
  OBVIOUS
<1>9. CutRight(Append(stream, next), stream, <<next>>, delivered, v)
  BY <1>1, <1>3, <1>4, <1>5, <1>8, CutParameters
<1> QED
  BY <1>3, <1>5, <1>6, <1>7, <1>8, <1>9, DealtNext

LEMMA OtherPInv ==
  ASSUME IInv, XInv, PInv, NEW nal, NEW next \in encoder, OtherComplete(nal, next)
  PROVE  PInv'
<1>1. /\ m_nalu = <<nal>> /\ nal.type \notin {SEI, SPS, PPS} /\ ~IsSlice(nal) /\ Arrives(next)
      /\ Begin(next, FinishNalu(nal, Current))
  BY DEF OtherComplete
<1>2. PICK u : u = Current
  OBVIOUS
<1>3. /\ nal \in Nals /\ next \in Nals /\ Done \in Seq(Nals) /\ input \in Seq(Nals)
      /\ input = Append(Done, nal) /\ input' = Append(input, next) /\ Done' = input
      /\ Conformed(input) /\ delivered \in Seq(AccessUnit) /\ u \in Grouping
      /\ CutRight(input, Done, <<nal>>, delivered, u)
      /\ delivered' = delivered /\ encoder' = encoder /\ input' \in Seq(encoder)
  BY <1>1, <1>2, Dealt
<1>4. PICK w : w = FinishNalu(nal, u)
  OBVIOUS
<1>5. PICK v : v = IF StartsAtOnce(next) THEN SetPending(w) ELSE w
  OBVIOUS
<1>6. v \in Grouping
  <2>1. w \in Grouping
    BY <1>3, <1>4, GroupingTypes
  <2> QED
    BY <1>3, <1>5, <2>1, GroupingTypes
<1>7. Begin(next, w)
  BY <1>1, <1>2, <1>4
<1>8. PICK stream, done : stream = input /\ done = Done
  OBVIOUS
<1>9. CutRight(Append(stream, next), stream, <<next>>, delivered, v)
  BY <1>1, <1>3, <1>4, <1>5, <1>8, CutOther
<1> QED
  BY <1>3, <1>5, <1>6, <1>7, <1>8, <1>9, DealtNext

(* A slice of a conforming stream, and its sequence parameter set. *)
LEMMA SliceSets ==
  ASSUME NEW stream \in Seq(Nals), Conformed(stream), NEW i \in 1..Len(stream), IsSlice(stream[i])
  PROVE  /\ CodableSPS(SPSOf(stream, i))
         /\ \E p : Codable(stream[i], SPSOf(stream, i), p)
<1> DEFINE nal == stream[i]
           before == SubSeq(stream, 1, i - 1)
           s == LastSPS(before)
           p == LastPPS(before, nal.pic_parameter_set_id)
<1>1. s # 0 /\ p # 0 /\ Codable(nal, stream[s], stream[p])
  BY DEF Conformed, ConformsAt
<1>2. /\ before \in Seq(Nals) /\ Len(before) = i - 1
      /\ \A k \in 1..(i - 1) : before[k] = stream[k]
  <2>1. PICK m \in Nat : m = i - 1
    OBVIOUS
  <2>2. m \in 0..Len(stream)
    BY <2>1
  <2>3. /\ SubSeq(stream, 1, m) \in Seq(Nals) /\ Len(SubSeq(stream, 1, m)) = m
        /\ \A k \in 1..m : SubSeq(stream, 1, m)[k] = stream[k]
    BY <2>2
  <2> QED
    BY <2>1, <2>3
<1> HIDE DEF before
<1>3. s \in 1..(i - 1) /\ before[s] \in SetsOfSequence
  BY <1>1, <1>2, LastSets
<1>4. stream[s] \in Nals /\ stream[s].type = SPS
  BY <1>2, <1>3 DEF SetsOfSequence
<1>5. CodableSPS(stream[s])
  BY <1>4, NalType
<1>6. SPSOf(stream, i) = stream[s]
  BY DEF SPSOf, before
<1> HIDE DEF s, p
<1> QED
  BY <1>1, <1>5, <1>6

(* The parser calls a slice the first of a picture when it is. *)
LEMMA NewExact ==
  ASSUME IInv, XInv, PInv, NEW next \in encoder, Arrives(next),
         NEW nal, m_nalu = <<nal>>, IsSlice(nal),
         Readable(Append(input, next)), Quiet(Done),
         NEW decoded, decoded = Decoded(nal.type, Coded(nal)),
         NEW h, h = With(With(decoded, "nal_ref_idc", nal.nal_ref_idc), "type", nal.type)
  PROVE  IsNewAU(h) <=> FirstOfPicture(Done[LastOf(Done, Slices)], nal)
<1>1. /\ nal \in Nals /\ next \in Nals /\ Done \in Seq(Nals) /\ input \in Seq(Nals)
      /\ input = Append(Done, nal) /\ Conformed(input) /\ Typed /\ Held /\ Kept /\ Exact
      /\ nal \in encoder /\ ~aborted /\ input \in Seq(encoder) /\ encoder \in Encoders
  BY Dealt DEF Arrives, PInv, Typed
<1>2. PICK done, n : done = Done /\ n = Len(input)
  OBVIOUS
<1>3. PICK last : last = LastOf(done, Slices)
  OBVIOUS
<1>4. PICK stream : stream = input
  OBVIOUS
<1>5. /\ n = Len(done) + 1 /\ Len(done) \in Nat /\ stream[n] = nal /\ n \in 1..Len(stream)
      /\ stream \in Seq(Nals) /\ stream = Append(done, nal) /\ done \in Seq(Nals)
      /\ Conformed(stream)
      /\ \A i \in 1..Len(done) : stream[i] = done[i]
  BY <1>1, <1>2, <1>4, AppendProperties
<1>6. last \in 1..Len(done) /\ done[last] \in Slices
  <2>1. ~Leading(nal)
    BY <1>1, Kinds
  <2>2. done = <<>> => Leading(nal)
    BY <1>1, <1>2, <1>4, <1>5, CutBefore
  <2>3. done # <<>> => Leading(done[1])
    BY <1>1, <1>2, <1>4, <1>5, CutBefore
  <2>4. done # <<>> /\ Leading(done[1]) /\ Quiet(done)
    BY <1>2, <2>1, <2>2, <2>3
  <2> QED
    BY <1>1, <1>3, <1>5, <2>4, StartsQuiet
<1>7. /\ last \in 1..Len(stream) /\ stream[last] = done[last] /\ IsSlice(stream[last])
      /\ last # 0
  BY <1>5, <1>6 DEF Slices
<1>8. ~UnreadableIn(stream, last) /\ ~UnreadableIn(stream, n)
  BY <1>1, <1>4, <1>5, <1>7, ReadableAppend
<1>9. HeaderOf(prev, stream[last], SPSOf(stream, last))
  <2>1. LastSlice = last
    BY <1>2, <1>3 DEF LastSlice
  <2> QED
    BY <1>1, <1>4, <1>7, <1>8, <2>1 DEF Exact
<1>10. /\ HeaderOf(h, nal, SPSOf(stream, n))
       /\ sps[1].pic_order_cnt_type = SPSOf(stream, n).pic_order_cnt_type
  BY <1>1, <1>2, <1>4, <1>8, SliceExact
<1>11. sps # <<>>
  BY <1>1, SliceReady
<1>12. SPSOf(stream, last) = SPSOf(stream, n)
  <2>1. SubSeq(stream, 1, n - 1) = done
    BY <1>2, <1>4 DEF Done
  <2>2. SubSeq(stream, 1, last - 1) = SubSeq(done, 1, last - 1)
    BY <1>1, <1>5, <1>6, BeforeAppend
  <2>3. LastSPS(SubSeq(done, 1, last - 1)) = LastSPS(done)
    BY <1>2, <1>3, <1>5, <1>6, QuietSets
  <2> QED
    BY <2>1, <2>2, <2>3 DEF SPSOf
<1>13. PICK s : s = SPSOf(stream, n)
  OBVIOUS
<1>14. PICK pp : CodableSPS(s) /\ Codable(stream[last], s, pp)
  BY <1>5, <1>7, <1>12, <1>13, SliceSets
<1>15. PICK qq : Codable(nal, s, qq)
  BY <1>5, <1>13, SliceSets
<1>16. /\ stream[last] \in encoder
       /\ stream[last].delta_pic_order_cnt # nal.delta_pic_order_cnt
            => OtherPicture(stream[last], nal)
  <2>1. stream[last] \in encoder
    BY <1>1, <1>4, <1>7
  <2>2. NeverDeltaAlone(stream)
    BY <1>1, <1>4, ReadableAppend DEF Readable
  <2>3. \A k \in (last + 1)..Len(done) : done[k] \notin Slices
    BY <1>3, <1>5, NoneAfterLast
  <2>4. \A k \in (last + 1)..(n - 1) :
          k \in (last + 1)..Len(done) /\ k \in 1..Len(done) /\ k \in 1..Len(stream)
    BY <1>5, <1>6
  <2>5. \A k \in (last + 1)..(n - 1) : ~IsSlice(stream[k])
    <3>1. \A k \in 1..Len(stream) : stream[k] \in Nals
      BY <1>5
    <3> QED
      BY <1>5, <2>3, <2>4, <3>1 DEF Slices
  <2>6. last < n
    BY <1>5, <1>6
  <2> QED
    BY <1>1, <1>5, <1>7, <2>1, <2>2, <2>5, <2>6 DEF NeverDeltaAlone
<1>17. PICK p : p = stream[last]
  OBVIOUS
<1>18. IsNewAU(h) <=> FirstOfPicture(p, nal)
  BY <1>1, <1>7, <1>9, <1>10, <1>11, <1>12, <1>13, <1>14, <1>15, <1>16, <1>17, SamePicture
<1> QED
  BY <1>2, <1>3, <1>7, <1>17, <1>18

LEMMA SlicePInv ==
  ASSUME IInv, XInv, PInv, NEW nal, SliceComplete(nal)
  PROVE  PInv'
<1>1. PICK decoded : decoded = Decoded(nal.type, Coded(nal))
  OBVIOUS
<1>2. PICK h : h = With(With(decoded, "nal_ref_idc", nal.nal_ref_idc), "type", nal.type)
  OBVIOUS
<1>3. PICK new \in BOOLEAN : new <=> IsNewAU(h)
  OBVIOUS
<1>4. PICK u : u = Current
  OBVIOUS
<1>5. PICK x : x = IF new THEN SetPending(u) ELSE u
  OBVIOUS
<1>6. PICK w : w = FinishNalu(nal, [x EXCEPT !.pending = FALSE])
  OBVIOUS
<1>7. PICK next \in encoder : Arrives(next) /\ Begin(next, w) /\ m_nalu = <<nal>> /\ IsSlice(nal)
  BY <1>1, <1>2, <1>3, <1>4, <1>5, <1>6 DEF SliceComplete
<1>8. /\ nal \in Nals /\ next \in Nals /\ Done \in Seq(Nals) /\ input \in Seq(Nals)
      /\ input = Append(Done, nal) /\ input' = Append(input, next) /\ Done' = input
      /\ Conformed(input) /\ delivered \in Seq(AccessUnit) /\ u \in Grouping
      /\ CutRight(input, Done, <<nal>>, delivered, u)
      /\ delivered' = delivered /\ encoder' = encoder /\ input' \in Seq(encoder)
  BY <1>4, <1>7, Dealt
<1>9. PICK v : v = IF StartsAtOnce(next) THEN SetPending(w) ELSE w
  OBVIOUS
<1>10. v \in Grouping
  <2>1. x \in Grouping
    BY <1>5, <1>8, GroupingTypes
  <2>2. PICK y : y = [x EXCEPT !.pending = FALSE]
    OBVIOUS
  <2>3. y \in Grouping
    BY <1>8, <2>1, <2>2, GroupingTypes
  <2>4. w \in Grouping
    BY <1>6, <1>8, <2>2, <2>3, GroupingTypes
  <2> QED
    BY <1>8, <1>9, <2>4, GroupingTypes
<1>11. Readable(Append(input, next)) /\ Quiet(Done) =>
         (new <=> FirstOfPicture(Done[LastOf(Done, Slices)], nal))
  BY <1>1, <1>2, <1>3, <1>7, NewExact
<1>12. PICK stream, done : stream = input /\ done = Done
  OBVIOUS
<1>13. CutRight(Append(stream, next), stream, <<next>>, delivered, v)
  <2>1. Readable(Append(stream, next)) /\ Quiet(done) =>
          (new <=> FirstOfPicture(done[LastOf(done, Slices)], nal))
    BY <1>11, <1>12
  <2>2. /\ done \in Seq(Nals) /\ nal \in Nals /\ stream = Append(done, nal) /\ Conformed(stream)
        /\ IsSlice(nal) /\ delivered \in Seq(AccessUnit) /\ u \in Grouping /\ next \in Nals
        /\ CutRight(stream, done, <<nal>>, delivered, u) /\ new \in BOOLEAN
    BY <1>7, <1>8, <1>12
  <2> QED
    BY ONLY <1>5, <1>6, <1>9, <2>1, <2>2, CutSlice
<1> QED
  BY <1>7, <1>8, <1>9, <1>10, <1>12, <1>13, DealtNext

LEMMA GetPInv ==
  ASSUME IInv, PInv, GetAU
  PROVE  PInv'
<1>1. /\ ~aborted /\ m_aus # <<>> /\ delivered' = Append(delivered, Head(m_aus))
      /\ m_aus' = Tail(m_aus) /\ encoder' = encoder /\ m_nalu' = m_nalu /\ m_au' = m_au
      /\ m_au_pending' = m_au_pending /\ input' = input
  BY DEF GetAU
<1>2. delivered \in Seq(AccessUnit) /\ m_aus \in Seq(AccessUnit)
  BY DEF IInv, Typed, Current, Grouping
<1>3. delivered' \o m_aus' = delivered \o m_aus
  BY <1>1, <1>2, SplitTaken
<1>4. UnitsOf(delivered', Current') = UnitsOf(delivered, Current)
  BY <1>3 DEF UnitsOf, Current
<1>5. Current'.au = Current.au /\ Current'.pending = Current.pending
  BY <1>1 DEF Current
<1>6. Done' = Done
  BY <1>1 DEF Done
<1>7. CutRight(input, Done, m_nalu, delivered', Current')
  BY <1>1, <1>4, <1>5 DEF PInv, CutRight, Split
<1>8. CutRight(input', Done', m_nalu', delivered', Current')
  BY <1>1, <1>6, <1>7
<1> QED
  BY <1>1, <1>8 DEF PInv

LEMMA StepPInv ==
  ASSUME IInv, XInv, PInv, [Next]_vars
  PROVE  PInv'
<1>1. ASSUME NEW nal \in encoder, SliceComplete(nal) PROVE PInv'
  BY <1>1, SlicePInv
<1>2. ASSUME NEW next \in encoder, FirstNal(next) PROVE PInv'
  BY <1>2, FirstPInv
<1>3. ASSUME NEW next \in encoder, NEW nal \in encoder, ParametersComplete(nal, next) PROVE PInv'
  BY <1>3, ParametersPInv
<1>4. ASSUME NEW next \in encoder, NEW nal \in encoder, OtherComplete(nal, next) PROVE PInv'
  BY <1>4, OtherPInv
<1>5. ASSUME NEW next \in encoder, MalformedNal(next) PROVE PInv'
  <2>1. Typed /\ Arrives(next) /\ aborted'
    BY <1>5 DEF MalformedNal, IInv
  <2>2. input' = Append(input, next) /\ encoder' = encoder
    BY <2>1, ArrivesTypes
  <2>3. input' \in Seq(encoder')
    BY <2>2, AppendProperties DEF PInv
  <2> QED
    BY <2>1, <2>3 DEF PInv
<1>6. CASE GetAU
  BY <1>6, GetPInv
<1>7. CASE UNCHANGED vars
  <2>1. Current' = Current /\ Done' = Done
    BY <1>7 DEF vars, Current, Done
  <2> QED
    BY <1>7, <2>1 DEF vars, PInv
<1> QED
  BY <1>1, <1>2, <1>3, <1>4, <1>5, <1>6, <1>7 DEF Next, AddBytes

(* The access units handed over, those waiting, the one being collected and  *)
(* the NAL unit held back are the stream, whatever the parser can read.      *)
THEOREM LosslessInvariant == Spec => []Lossless
<1>1. Init => IInv /\ XInv /\ PInv
  BY InitIInv, InitXInv, InitPInv
<1>2. IInv /\ XInv /\ PInv /\ [Next]_vars => IInv' /\ XInv' /\ PInv'
  BY StepIInv, StepXInv, StepPInv
<1>3. IInv /\ PInv => Lossless
  <2> SUFFICES ASSUME IInv, PInv, ~aborted
               PROVE  FlattenSeq(NalusOf(Complete)) \o m_au.nalus \o m_nalu = input
    BY DEF Lossless
  <2>1. input \in Seq(Nals) /\ Held
    BY DEF IInv, Typed
  <2>2. FlattenSeq(NalusOf(Complete)) \o m_au.nalus = Done
    BY DEF PInv, CutRight, Split, UnitsOf, Complete, Current
  <2>3. Done \o m_nalu = input
    <3>1. CASE input = <<>>
      <4>1. m_nalu = <<>> /\ Done = <<>>
        BY <2>1, <3>1, HeldBack DEF Done
      <4> QED
        BY <3>1, <4>1
    <3>2. CASE input # <<>>
      <4>1. PICK nal \in Nals : m_nalu = <<nal>> /\ Done \in Seq(Nals) /\ input = Append(Done, nal)
        BY <2>1, <3>2, HeldBack
      <4> QED
        BY <4>1
    <3> QED
      BY <3>1, <3>2
  <2> QED
    BY <2>2, <2>3
<1> QED
  BY <1>1, <1>2, <1>3, PTL DEF Spec

(* And they are cut where the standard says, unless a picture differs from   *)
(* the one before it in delta_pic_order_cnt alone.                           *)
THEOREM PartitionInvariant == Spec => [](NeverDeltaAlone(input) => Partition)
<1>1. Init => IInv /\ XInv /\ PInv
  BY InitIInv, InitXInv, InitPInv
<1>2. IInv /\ XInv /\ PInv /\ [Next]_vars => IInv' /\ XInv' /\ PInv'
  BY StepIInv, StepXInv, StepPInv
<1>3. IInv /\ PInv /\ Lossless => (NeverDeltaAlone(input) => Partition)
  <2> SUFFICES ASSUME IInv, PInv, Lossless, NeverDeltaAlone(input), ~aborted,
                      \A i \in ParsedSlices : ~Unreadable(i)
               PROVE  LET units == [i \in DOMAIN Complete |-> Complete[i].nalus]
                          all   == FlattenSeq(units) \o m_au.nalus \o m_nalu
                      IN /\ Documented(all) = Documented(input)
                         /\ \A k \in DOMAIN units : units[k] # <<>>
                         /\ input # <<>> => {Place(all, c) : c \in CutsOf(units)}
                                              = {Place(input, i) : i \in KnownStarts}
    BY DEF Partition, CutsOf
  <2> DEFINE units == NalusOf(Complete)
             all == FlattenSeq(units) \o m_au.nalus \o m_nalu
  <2>1. /\ input \in Seq(Nals) /\ Held /\ m_nalu \in Seq(Nals) /\ m_au.nalus \in Seq(Nals)
        /\ delivered \in Seq(AccessUnit) /\ m_aus \in Seq(AccessUnit)
    BY DEF IInv, Typed, Current, Grouping, AccessUnit
  <2>2. units = UnitsOf(delivered, Current)
    BY DEF UnitsOf, Complete, Current
  <2>3. units = [i \in DOMAIN Complete |-> Complete[i].nalus]
    BY DEF NalusOf
  <2>4. Readable(input)
    BY UnreadableIs DEF Readable, ParsedSlices
  <2>5. (\A k \in DOMAIN units : units[k] # <<>>) /\ CutsOf(units) = Known(input)
    BY <2>2, <2>4 DEF PInv, CutRight, Split
  <2>6. all = input
    BY DEF Lossless
  <2>7. input # <<>> => Known(input) = KnownStarts
    <3> SUFFICES ASSUME input # <<>> PROVE Known(input) = KnownStarts
      OBVIOUS
    <3>1. DOMAIN input = 1..Len(input) /\ 1 \in 1..Len(input)
      BY <2>1, EmptySeq
    <3>2. Starts(input, 1)
      BY DEF Starts
    <3> QED
      BY <3>1, <3>2 DEF Known, KnownStarts
  <2> HIDE DEF units, all
  <2>9. /\ Documented(all) = Documented(input)
        /\ \A k \in DOMAIN units : units[k] # <<>>
        /\ input # <<>> => {Place(all, c) : c \in CutsOf(units)}
                             = {Place(input, i) : i \in KnownStarts}
    BY <2>5, <2>6, <2>7
  <2> QED
    BY <2>3, <2>9 DEF all
<1> QED
  BY <1>1, <1>2, <1>3, LosslessInvariant, PTL DEF Spec
=============================================================================
