---------------------------- MODULE CommonLemmas ----------------------------
(***************************************************************************)
(* Facts several proofs need: induction over the natural numbers, stated   *)
(* for a set instead of a predicate, so that the provers can instantiate   *)
(* it; what a recursive function over a sequence is, and what FlattenSeq   *)
(* is; and arithmetic modulo n, which is how the sources number what       *)
(* passes through their queues.                                            *)
(***************************************************************************)
EXTENDS Integers, SequencesExt, SequenceTheorems, WellFoundedInduction, TLAPS

(* There is a least number in a set that is not empty. *)
LEMMA LeastNumber ==
  ASSUME NEW T \in SUBSET Nat, T # {}
  PROVE  \E x \in T : \A y \in T : x <= y
<1> DEFINE R == OpToRel(<, Nat)
<1>1. IsWellFoundedOn(R, Nat)
  BY NatLessThanWellFounded
<1>2. \A x, y \in Nat : <<y, x>> \in R <=> y < x
  BY DEF OpToRel
<1> HIDE DEF R
<1>3. PICK x \in T : \A y \in T : ~ (<<y, x>> \in R)
  BY <1>1, WFMin
<1>4. ASSUME NEW y \in T
      PROVE  x <= y
  <2>1. x \in Nat /\ y \in Nat
    OBVIOUS
  <2>2. ~ (y < x)
    BY ONLY <1>2, <1>3, <2>1, y \in T, Zenon
  <2> QED
    BY ONLY <2>1, <2>2
<1> QED
  BY <1>4

(* A set that has 0, and every successor of what it has, has all numbers. *)
LEMMA SetInduction ==
  ASSUME NEW S, 0 \in S, \A n \in Nat : n \in S => n + 1 \in S
  PROVE  \A n \in Nat : n \in S
<1> DEFINE T == {n \in Nat : n \notin S}
<1>1. CASE T = {}
  BY <1>1
<1>2. CASE T # {}
  <2>1. PICK x \in T : \A y \in T : x <= y
    BY <1>2, LeastNumber
  <2>2. x \in Nat /\ x # 0
    BY <2>1
  <2>3. x - 1 \in Nat /\ x - 1 \in S
    BY <2>1, <2>2
  <2> QED
    BY <2>1, <2>3
<1> QED
  BY <1>1, <1>2

(* The same up to a bound. *)
LEMMA BoundedInduction ==
  ASSUME NEW m \in Nat, NEW S, 0 \in S, \A n \in 1..m : n - 1 \in S => n \in S
  PROVE  \A n \in 0..m : n \in S
<1> DEFINE T == {n \in Nat : n <= m => n \in S}
<1>1. 0 \in T
  OBVIOUS
<1>2. ASSUME NEW n \in Nat, n \in T
      PROVE  n + 1 \in T
  <2>1. CASE n + 1 <= m
    <3>1. n + 1 \in 1..m /\ n + 1 - 1 = n /\ n \in S
      BY <1>2, <2>1
    <3> QED
      BY <3>1
  <2>2. CASE ~(n + 1 <= m)
    BY <2>2
  <2> QED
    BY <2>1, <2>2
<1> HIDE DEF T
<1>3. \A n \in Nat : n \in T
  BY <1>1, <1>2, SetInduction
<1> QED
  BY <1>3 DEF T

(* What a step of a recursive function over 1..n does to the value before    *)
(* is given as a function F.                                                 *)
Recursive(f, n, base, F) ==
  /\ DOMAIN f = 0..n
  /\ f[0] = base
  /\ \A k \in 1..n : f[k] = F[k][f[k - 1]]

(* Such a function exists. *)
LEMMA RecursiveExists ==
  ASSUME NEW n \in Nat, NEW A, NEW base \in A, NEW F \in [1..n -> [A -> A]]
  PROVE  \E f \in [0..n -> A] : Recursive(f, n, base, F)
<1> DEFINE Upto(m, f) == /\ f \in [0..m -> A] /\ f[0] = base
                         /\ \A k \in 1..m : f[k] = F[k][f[k - 1]]
           S == {m \in 0..n : \E f : Upto(m, f)}
<1>1. 0 \in S
  <2>1. Upto(0, [k \in 0..0 |-> base])
    OBVIOUS
  <2>2. 0 \in 0..n
    OBVIOUS
  <2> HIDE DEF Upto
  <2> QED
    BY ONLY <2>1, <2>2
<1>2. ASSUME NEW m \in 1..n, m - 1 \in S
      PROVE  m \in S
  <2>1. PICK f : Upto(m - 1, f)
    BY <1>2
  <2> DEFINE g == [k \in 0..m |-> IF k = m THEN F[m][f[m - 1]] ELSE f[k]]
  <2>2. m - 1 \in 0..(m - 1) /\ f[m - 1] \in A /\ F[m][f[m - 1]] \in A
    BY <2>1
  <2>3. g \in [0..m -> A]
    <3>1. ASSUME NEW k \in 0..m
          PROVE  (IF k = m THEN F[m][f[m - 1]] ELSE f[k]) \in A
      <4>1. k # m => k \in 0..(m - 1)
        OBVIOUS
      <4> QED
        BY <2>1, <2>2, <4>1
    <3> QED
      BY <3>1
  <2>4. g[0] = base
    BY <2>1
  <2>5. ASSUME NEW k \in 1..m
        PROVE  g[k] = F[k][g[k - 1]]
    <3>1. g[k - 1] = f[k - 1]
      OBVIOUS
    <3>2. CASE k = m
      BY <3>1, <3>2
    <3>3. CASE k # m
      <4>1. k \in 1..(m - 1) /\ g[k] = f[k]
        BY <3>3
      <4>2. f[k] = F[k][f[k - 1]]
        BY <2>1, <4>1
      <4> HIDE DEF g
      <4> QED
        BY ONLY <3>1, <4>1, <4>2
    <3> QED
      BY <3>2, <3>3
  <2> HIDE DEF g
  <2>6. Upto(m, g)
    BY <2>3, <2>4, <2>5
  <2>7. m \in 0..n
    OBVIOUS
  <2> HIDE DEF Upto
  <2> QED
    BY ONLY <2>6, <2>7
<1> HIDE DEF S
<1>3. n \in S
  <2>1. \A k \in 0..n : k \in S
    BY ONLY <1>1, <1>2, n \in Nat, BoundedInduction
  <2> QED
    BY <2>1
<1>4. PICK f : Upto(n, f)
  BY <1>3 DEF S
<1>5. f \in [0..n -> A] /\ Recursive(f, n, base, F)
  BY <1>4 DEF Recursive
<1> QED
  BY <1>5

(* Two functions that go on alike from where they are alike are alike. *)
LEMMA AgreeUpto ==
  ASSUME NEW n \in Nat, NEW f, NEW g, f[0] = g[0],
         \A k \in 1..n : f[k - 1] = g[k - 1] => f[k] = g[k]
  PROVE  \A k \in 0..n : f[k] = g[k]
<1> DEFINE S == {k \in 0..n : f[k] = g[k]}
<1>1. 0 \in S
  OBVIOUS
<1>2. \A k \in 1..n : k - 1 \in S => k \in S
  OBVIOUS
<1> HIDE DEF S
<1>3. \A k \in 0..n : k \in S
  BY ONLY <1>1, <1>2, n \in Nat, BoundedInduction
<1> QED
  BY <1>3 DEF S

-----------------------------------------------------------------------------
(* Sequences are joined one by one. *)
FlattenStep(A, seqs) ==
  [k \in 1..Len(seqs) |-> [s \in Seq(A) |-> s \o seqs[k]]]

LEMMA FlattenIs ==
  ASSUME NEW A, NEW seqs \in Seq(Seq(A))
  PROVE  \E f \in [0..Len(seqs) -> Seq(A)] :
           /\ f[0] = <<>>
           /\ \A k \in 1..Len(seqs) : f[k] = f[k - 1] \o seqs[k]
           /\ FlattenSeq(seqs) = f[Len(seqs)]
<1> DEFINE n == Len(seqs)
           F == FlattenStep(A, seqs)
           Flattening(g) == g = [i \in 1..n |-> IF i = 1 THEN seqs[i] ELSE g[i - 1] \o seqs[i]]
           flatten == CHOOSE g : Flattening(g)
<1>1. n \in Nat /\ \A k \in 1..n : seqs[k] \in Seq(A)
  OBVIOUS
<1>2. F \in [1..n -> [Seq(A) -> Seq(A)]]
  <2>1. \A k \in 1..n, s \in Seq(A) : s \o seqs[k] \in Seq(A)
    BY <1>1, ConcatProperties
  <2> QED
    BY <2>1 DEF FlattenStep
<1>3. <<>> \in Seq(A)
  OBVIOUS
<1> HIDE DEF F, n
<1>4. PICK f : f \in [0..n -> Seq(A)] /\ Recursive(f, n, <<>>, F)
  BY ONLY <1>1, <1>2, <1>3, RecursiveExists
<1>5. ASSUME NEW k \in 1..n
      PROVE  f[k] = f[k - 1] \o seqs[k]
  <2>1. k - 1 \in 0..n
    BY <1>1
  <2>2. f[k] = F[k][f[k - 1]] /\ f[k - 1] \in Seq(A)
    BY <1>4, <2>1 DEF Recursive
  <2> QED
    BY <2>2 DEF F, FlattenStep, n
<1>6. f[0] = <<>>
  BY <1>4 DEF Recursive
<1>7. n > 0 => f[1] = seqs[1]
  <2> SUFFICES ASSUME n > 0
               PROVE  f[1] = seqs[1]
    OBVIOUS
  <2>1. 1 \in 1..n /\ 1 - 1 = 0
    BY <1>1
  <2>2. f[1] = f[0] \o seqs[1] /\ seqs[1] \in Seq(A)
    BY ONLY <1>1, <1>5, <2>1
  <2> QED
    BY ONLY <1>6, <2>2, ConcatEmptySeq
<1>8. Flattening([i \in 1..n |-> f[i]])
  <2> DEFINE g == [i \in 1..n |-> f[i]]
  <2>1. ASSUME NEW i \in 1..n
        PROVE  g[i] = IF i = 1 THEN seqs[i] ELSE g[i - 1] \o seqs[i]
    <3>1. CASE i = 1
      BY <1>1, <1>7, <3>1
    <3>2. CASE i # 1
      <4>1. i - 1 \in 1..n
        BY <1>1, <3>2
      <4>2. g[i - 1] = f[i - 1] /\ g[i] = f[i]
        BY <4>1
      <4> HIDE DEF g
      <4> QED
        BY ONLY <1>5, <3>2, <4>2, i \in 1..n
    <3> QED
      BY <3>1, <3>2
  <2>2. g = [i \in 1..n |-> g[i]]
    OBVIOUS
  <2> HIDE DEF g
  <2>3. g = [i \in 1..n |-> IF i = 1 THEN seqs[i] ELSE g[i - 1] \o seqs[i]]
    BY ONLY <2>1, <2>2
  <2> QED
    BY <2>3 DEF g
<1>9. Flattening(flatten)
  <2> HIDE DEF Flattening
  <2> QED
    BY ONLY <1>8
<1> HIDE DEF flatten
<1>10. \A i \in 1..n : flatten[i] = IF i = 1 THEN seqs[i] ELSE flatten[i - 1] \o seqs[i]
  <2>1. flatten = [i \in 1..n |-> IF i = 1 THEN seqs[i] ELSE flatten[i - 1] \o seqs[i]]
    BY ONLY <1>9
  <2> QED
    BY ONLY <2>1
<1>11. \A k \in 0..n : k = 0 \/ flatten[k] = f[k]
  <2> DEFINE S == {k \in 0..n : k = 0 \/ flatten[k] = f[k]}
  <2>1. 0 \in S
    BY <1>1
  <2>2. ASSUME NEW k \in 1..n, k - 1 \in S
        PROVE  k \in S
    <3>1. CASE k = 1
      <4>1. flatten[1] = seqs[1] /\ f[1] = seqs[1]
        BY <1>1, <1>7, <1>10, <3>1
      <4> QED
        BY <3>1, <4>1
    <3>2. CASE k # 1
      <4>1. k - 1 # 0
        BY <3>2
      <4>2. flatten[k - 1] = f[k - 1]
        BY <2>2, <4>1
      <4>3. flatten[k] = flatten[k - 1] \o seqs[k] /\ f[k] = f[k - 1] \o seqs[k]
        BY ONLY <1>5, <1>10, <3>2, k \in 1..n
      <4>4. flatten[k] = f[k]
        BY ONLY <4>2, <4>3
      <4> QED
        BY <4>4
    <3> QED
      BY <3>1, <3>2
  <2> HIDE DEF S
  <2>3. \A k \in 0..n : k \in S
    BY ONLY <1>1, <2>1, <2>2, BoundedInduction
  <2> QED
    BY <2>3 DEF S
<1>12. FlattenSeq(seqs) = f[n]
  <2>1. CASE n = 0
    <3>1. seqs = <<>>
      BY <2>1 DEF n
    <3> QED
      BY <1>6, <2>1, <3>1 DEF FlattenSeq, n
  <2>2. CASE n # 0
    <3>1. FlattenSeq(seqs) = flatten[n]
      BY <2>2 DEF FlattenSeq, flatten, n
    <3> QED
      BY <1>1, <1>11, <2>2, <3>1
  <2> QED
    BY <2>1, <2>2
<1> QED
  BY ONLY <1>4, <1>5, <1>6, <1>12 DEF n

(* One more sequence goes to the end. *)
LEMMA FlattenGrows ==
  ASSUME NEW A, NEW seqs \in Seq(Seq(A)), NEW x \in Seq(A)
  PROVE  /\ FlattenSeq(<<>>) = <<>>
         /\ FlattenSeq(seqs) \in Seq(A)
         /\ FlattenSeq(Append(seqs, x)) = FlattenSeq(seqs) \o x
<1> DEFINE n == Len(seqs)
           more == Append(seqs, x)
<1>1. /\ n \in Nat /\ more \in Seq(Seq(A)) /\ Len(more) = n + 1
      /\ more[n + 1] = x /\ \A k \in 1..n : more[k] = seqs[k]
  OBVIOUS
<1>2. PICK f :
        /\ f \in [0..n -> Seq(A)]
        /\ f[0] = <<>>
        /\ \A k \in 1..n : f[k] = f[k - 1] \o seqs[k]
        /\ FlattenSeq(seqs) = f[n]
  BY FlattenIs
<1> HIDE DEF more
<1>3. PICK g :
        /\ g \in [0..Len(more) -> Seq(A)]
        /\ g[0] = <<>>
        /\ \A k \in 1..Len(more) : g[k] = g[k - 1] \o more[k]
        /\ FlattenSeq(more) = g[Len(more)]
  BY ONLY <1>1, FlattenIs
<1> HIDE DEF n
<1>4. \A k \in 1..n : g[k] = g[k - 1] \o seqs[k]
  <2>1. \A k \in 1..n : k \in 1..Len(more)
    BY <1>1
  <2> QED
    BY ONLY <1>1, <1>3, <2>1
<1>5. \A k \in 0..n : f[k] = g[k]
  <2>1. f[0] = g[0]
    BY ONLY <1>2, <1>3
  <2>2. \A k \in 1..n : f[k - 1] = g[k - 1] => f[k] = g[k]
    BY ONLY <1>2, <1>4
  <2>3. n \in Nat
    BY ONLY <1>1
  <2> QED
    BY ONLY <2>1, <2>2, <2>3, AgreeUpto
<1>6. g[n + 1] = g[n] \o x
  <2> DEFINE m == Len(more)
  <2>1. m \in 1..m /\ m - 1 = n /\ m = n + 1
    BY ONLY <1>1
  <2>2. \A k \in 1..m : g[k] = g[k - 1] \o more[k]
    BY ONLY <1>3
  <2> HIDE DEF m
  <2>3. g[m] = g[m - 1] \o more[m]
    BY ONLY <2>1, <2>2
  <2>4. more[m] = x
    BY ONLY <1>1, <2>1
  <2> QED
    BY ONLY <2>1, <2>3, <2>4
<1>7. FlattenSeq(seqs) \in Seq(A) /\ FlattenSeq(more) = FlattenSeq(seqs) \o x
  <2>1. n \in 0..n
    BY <1>1
  <2>2. f[n] \in Seq(A) /\ FlattenSeq(seqs) = f[n]
    BY ONLY <1>2, <2>1
  <2>3. FlattenSeq(more) = g[n + 1] /\ f[n] = g[n]
    BY ONLY <1>1, <1>3, <1>5, <2>1
  <2> QED
    BY ONLY <1>6, <2>2, <2>3
<1>8. FlattenSeq(<<>>) = <<>>
  <2>1. <<>> \in Seq(Seq(A)) /\ Len(<<>>) = 0
    OBVIOUS
  <2>2. PICK h \in [0..0 -> Seq(A)] : h[0] = <<>> /\ FlattenSeq(<<>>) = h[0]
    BY <2>1, FlattenIs
  <2> QED
    BY ONLY <2>2
<1> QED
  BY ONLY <1>7, <1>8 DEF more

(* What goes to the end of the last sequence goes to the end of all. *)
LEMMA FlattenLast ==
  ASSUME NEW A, NEW seqs \in Seq(Seq(A)), seqs # <<>>, NEW x \in Seq(A)
  PROVE  FlattenSeq([seqs EXCEPT ![Len(seqs)] = @ \o x]) = FlattenSeq(seqs) \o x
<1> DEFINE n == Len(seqs)
           file == seqs[n]
           front == [k \in 1..(n - 1) |-> seqs[k]]
           new == [seqs EXCEPT ![n] = @ \o x]
<1>1. /\ n \in Nat /\ n > 0 /\ \A k \in 1..n : seqs[k] \in Seq(A)
      /\ file \in Seq(A) /\ file \o x \in Seq(A)
  BY ConcatProperties
<1>2. front \in Seq(Seq(A)) /\ Len(front) = n - 1
  BY <1>1
<1>3. seqs = Append(front, file)
  <2>1. Len(Append(front, file)) = n
    BY <1>1, <1>2
  <2>2. \A k \in 1..n : Append(front, file)[k] = seqs[k]
    BY <1>1, <1>2
  <2>3. Append(front, file) \in Seq(Seq(A))
    BY <1>1, <1>2
  <2> HIDE DEF front, file
  <2> QED
    BY ONLY <2>1, <2>2, <2>3, seqs \in Seq(Seq(A)), SeqEqual DEF n
<1>4. new = Append(front, file \o x)
  <2> DEFINE y == file \o x
  <2>0. y \in Seq(A)
    BY <1>1
  <2>5. new = [seqs EXCEPT ![n] = y]
    OBVIOUS
  <2> HIDE DEF y
  <2>1. Len(Append(front, y)) = n /\ Append(front, y) \in Seq(Seq(A))
    BY <1>1, <1>2, <2>0
  <2>2. new \in Seq(Seq(A)) /\ Len(new) = n
    BY <1>1, <2>0, <2>5
  <2>3. ASSUME NEW k \in 1..n
        PROVE  new[k] = IF k = n THEN y ELSE seqs[k]
    <3>1. DOMAIN seqs = 1..n
      OBVIOUS
    <3> HIDE DEF new, n
    <3> QED
      BY ONLY <2>5, <3>1, k \in 1..n
  <2>4. \A k \in 1..n : Append(front, y)[k] = IF k = n THEN y ELSE seqs[k]
    BY <1>1, <1>2, <2>0
  <2> HIDE DEF front, file, new, n
  <2> QED
    BY ONLY <2>1, <2>2, <2>3, <2>4, SeqEqual DEF y
<1> HIDE DEF front, file, new
<1>5. FlattenSeq(seqs) = FlattenSeq(front) \o file /\ FlattenSeq(front) \in Seq(A)
  BY ONLY <1>1, <1>2, <1>3, FlattenGrows
<1>6. FlattenSeq(new) = FlattenSeq(front) \o (file \o x)
  BY ONLY <1>1, <1>2, <1>4, FlattenGrows
<1>7. (FlattenSeq(front) \o file) \o x = FlattenSeq(front) \o (file \o x)
  BY ONLY <1>1, <1>5, x \in Seq(A)
<1> QED
  BY ONLY <1>5, <1>6, <1>7 DEF new, n
-----------------------------------------------------------------------------
(* n times what does not vanish is not less than n. *)
LEMMA MultipleAtLeast ==
  ASSUME NEW n \in Nat \ {0}, NEW k \in Int, k > 0
  PROVE  n * k >= n
  OBVIOUS

(* Multiplication distributes over addition and subtraction. *)
LEMMA Distributes ==
  ASSUME NEW n \in Int, NEW p \in Int, NEW q \in Int
  PROVE  /\ n * (p + q) = n * p + n * q
         /\ n * (p - q) = n * p - n * q
  OBVIOUS

(* There is only one remainder. *)
LEMMA RemainderUnique ==
  ASSUME NEW n \in Nat \ {0},
         NEW q \in Int, NEW r \in 0..(n - 1), NEW p \in Int, NEW s \in 0..(n - 1),
         n * q + r = n * p + s
  PROVE  r = s
<1>1. CASE q = p
  BY <1>1
<1>2. CASE q > p
  <2>1. n * (q - p) = s - r
    BY Distributes
  <2>2. n * (q - p) >= n
    BY <1>2, MultipleAtLeast
  <2> QED
    BY <2>1, <2>2
<1>3. CASE q < p
  <2>1. n * (p - q) = r - s
    BY Distributes
  <2>2. n * (p - q) >= n
    BY <1>3, MultipleAtLeast
  <2> QED
    BY <2>1, <2>2
<1> QED
  BY <1>1, <1>2, <1>3

(* Every number has a quotient and a remainder. *)
LEMMA DivMod ==
  ASSUME NEW n \in Nat \ {0}, NEW a \in Nat
  PROVE  \E q \in Int : a = n * q + (a % n) /\ a % n \in 0..(n - 1)
<1>1. a = n * (a \div n) + (a % n) /\ a % n \in 0..(n - 1) /\ a \div n \in Int
  OBVIOUS
<1> QED
  BY <1>1

(* The remainder of a summand can be taken first. *)
LEMMA ModPlus ==
  ASSUME NEW n \in Nat \ {0}, NEW a \in Nat, NEW b \in Nat
  PROVE  ((a % n) + b) % n = (a + b) % n
<1> DEFINE c == (a % n) + b
           d == a + b
<1>1. PICK p \in Int : a = n * p + (a % n) /\ a % n \in 0..(n - 1)
  BY DivMod
<1>2. c \in Nat /\ d \in Nat
  BY <1>1
<1>3. d = n * p + c
  BY <1>1
<1> HIDE DEF c, d
<1>4. PICK q \in Int : c = n * q + (c % n) /\ c % n \in 0..(n - 1)
  BY <1>2, DivMod
<1>5. PICK r \in Int : d = n * r + (d % n) /\ d % n \in 0..(n - 1)
  BY <1>2, DivMod
<1>6. n * (p + q) = n * p + n * q
  BY Distributes
<1>7. n * (p + q) + (c % n) = n * r + (d % n)
  BY <1>2, <1>3, <1>4, <1>5, <1>6
<1>8. c % n = d % n
  <2>1. p + q \in Int
    OBVIOUS
  <2> QED
    BY <1>4, <1>5, <1>7, <2>1, RemainderUnique
<1> QED
  BY <1>8 DEF c, d

(* A number that is small enough is its own remainder. *)
LEMMA ModSmall ==
  ASSUME NEW n \in Nat \ {0}, NEW a \in 0..(n - 1)
  PROVE  a % n = a
  OBVIOUS

(* Going on from a number by less than n does not come back to it. *)
LEMMA ModMoves ==
  ASSUME NEW n \in Nat \ {0}, NEW a \in 0..(n - 1), NEW j \in 1..(n - 1)
  PROVE  (a + j) % n # a
<1> SUFFICES ASSUME (a + j) % n = a
             PROVE  FALSE
  OBVIOUS
<1>1. a + j \in Nat
  OBVIOUS
<1>2. PICK q \in Int : a + j = n * q + ((a + j) % n)
  BY <1>1, DivMod
<1>3. n * q \in Int /\ n * 0 = 0
  OBVIOUS
<1>4. n * q + 0 = n * 0 + j
  BY <1>2, <1>3
<1>5. 0 \in 0..(n - 1) /\ j \in 0..(n - 1)
  OBVIOUS
<1>6. 0 = j
  BY <1>4, <1>5, RemainderUnique
<1> QED
  BY <1>6
=============================================================================
