-------------------------- MODULE SerializeProofs --------------------------
(***************************************************************************)
(* Proofs about Serialize, for every number of bits of a byte, every size  *)
(* of a node and all values of the types.                                  *)
(***************************************************************************)
EXTENDS Serialize, SequenceTheorems, WellFoundedInduction, TLAPS
-----------------------------------------------------------------------------
(* What is not built in: induction over numbers and functions defined by   *)
(* recursion, whose equations hold because a solution exists.              *)

LEMMA LeastNatural ==
    ASSUME NEW T, T \subseteq Nat, T # {}
    PROVE  \E k \in T : \A j \in T : k <= j
<1>1. IsWellFoundedOn(OpToRel(<, Nat), Nat)
  BY NatLessThanWellFounded
<1>2. PICK k \in T : \A j \in T : ~(<<j, k>> \in OpToRel(<, Nat))
  BY <1>1, WFMin
<1>3. \A j \in T : j \in Nat /\ k \in Nat /\ ~(j < k)
  BY <1>2 DEF OpToRel
<1> QED
  BY <1>3

LEMMA Induction ==
    ASSUME NEW P, 0 \in P, \A n \in Nat : n \in P => n + 1 \in P
    PROVE  Nat \subseteq P
<1> SUFFICES ASSUME Nat \ P # {} PROVE FALSE
  OBVIOUS
<1>1. PICK k \in Nat \ P : \A j \in Nat \ P : k <= j
  <2> DEFINE T == Nat \ P
  <2>1. T \subseteq Nat /\ T # {}
    OBVIOUS
  <2> HIDE DEF T
  <2>2. \E k \in T : \A j \in T : k <= j
    BY <2>1, LeastNatural
  <2> QED
    BY <2>2 DEF T
<1>2. k # 0 /\ k - 1 \in Nat
  BY <1>1
<1>3. k - 1 \in P
  BY <1>1, <1>2
<1> QED
  BY <1>1, <1>2, <1>3

(* f is the sequence that begins with base and continues by step.          *)
Iterates(f, T, base, step) ==
    /\ f \in [Nat -> T]
    /\ f[0] = base
    /\ \A k \in Nat : f[k + 1] = step[<<k, f[k]>>]

LEMMA Recursion ==
    ASSUME NEW T, NEW base \in T, NEW step \in [Nat \X T -> T]
    PROVE  \E f : Iterates(f, T, base, step)
<1> DEFINE Upto(f, n) == /\ f \in [0..n -> T] /\ f[0] = base
                         /\ \A k \in 0..(n - 1) : f[k + 1] = step[<<k, f[k]>>]
           P == {n \in Nat : \E f : Upto(f, n)}
<1>1. Nat \subseteq P
  <2>1. 0 \in P
    <3>1. Upto([k \in 0..0 |-> base], 0)
      OBVIOUS
    <3> QED
      BY <3>1
  <2>2. ASSUME NEW n \in Nat, n \in P PROVE n + 1 \in P
    <3>1. PICK f : Upto(f, n)
      BY <2>2
    <3> DEFINE g == [k \in 0..(n + 1) |->
                        IF k = n + 1 THEN step[<<n, f[n]>>] ELSE f[k]]
    <3>2. f[n] \in T
      BY <3>1
    <3>3. g \in [0..(n + 1) -> T] /\ g[0] = base
      BY <3>1, <3>2
    <3>4. ASSUME NEW k \in 0..((n + 1) - 1)
          PROVE  g[k + 1] = step[<<k, g[k]>>]
      <4>1. CASE k = n
        <5>1. g[n + 1] = step[<<n, f[n]>>] /\ g[n] = f[n]
          BY n + 1 \in 0..(n + 1), n \in 0..(n + 1)
        <5> QED
          BY <4>1, <5>1
      <4>2. CASE k # n
        <5>1. k \in 0..(n - 1)
          BY <4>2
        <5>2. f[k + 1] = step[<<k, f[k]>>]
          BY <3>1, <5>1
        <5>3. g[k + 1] = f[k + 1] /\ g[k] = f[k]
          BY <5>1
        <5> QED
          BY <5>2, <5>3
      <4> QED
        BY <4>1, <4>2
    <3> HIDE DEF g
    <3>5. n + 1 \in Nat /\ Upto(g, n + 1)
      BY <3>3, <3>4
    <3> HIDE DEF Upto
    <3> QED
      BY <3>5
  <2> HIDE DEF P
  <2> QED
    BY <2>1, <2>2, Induction
<1>2. ASSUME NEW n \in Nat, NEW m \in Nat, n <= m,
             NEW f, NEW g, Upto(f, n), Upto(g, m)
      PROVE  f[n] = g[n]
  <2> DEFINE Q == {k \in Nat : k <= n => f[k] = g[k]}
  <2>1. 0 \in Q
    BY <1>2
  <2>2. ASSUME NEW k \in Nat, k \in Q PROVE k + 1 \in Q
    <3>1. CASE k + 1 <= n
      <4>1. f[k] = g[k] /\ k \in 0..(n - 1) /\ k \in 0..(m - 1)
        BY <2>2, <3>1, <1>2
      <4>2. f[k + 1] = step[<<k, f[k]>>] /\ g[k + 1] = step[<<k, g[k]>>]
        BY <4>1, <1>2
      <4> QED
        BY <4>1, <4>2
    <3> QED
      BY <3>1
  <2> HIDE DEF Q
  <2>3. n \in Q
    BY <2>1, <2>2, Induction
  <2> QED
    BY <2>3 DEF Q
<1> DEFINE F(n) == CHOOSE f : Upto(f, n)
           h == [n \in Nat |-> F(n)[n]]
<1>3. \A n \in Nat : Upto(F(n), n)
  BY <1>1
<1> HIDE DEF F
<1>4. h \in [Nat -> T]
  BY <1>3
<1>5. h[0] = base
  BY <1>3
<1>6. ASSUME NEW k \in Nat PROVE h[k + 1] = step[<<k, h[k]>>]
  <2>1. Upto(F(k + 1), k + 1) /\ Upto(F(k), k)
    BY <1>3
  <2> HIDE DEF Upto
  <2>2. F(k)[k] = F(k + 1)[k]
    BY <1>2, <2>1
  <2>3. F(k + 1)[k + 1] = step[<<k, F(k + 1)[k]>>]
    BY <2>1 DEF Upto
  <2> QED
    BY <2>2, <2>3
<1> QED
  BY <1>4, <1>5, <1>6 DEF Iterates

LEMMA TwoToIs ==
    /\ TwoTo \in [Nat -> Nat \ {0}]
    /\ TwoTo[0] = 1
    /\ \A k \in Nat : TwoTo[k + 1] = 2 * TwoTo[k]
<1> DEFINE T == Nat \ {0}
           one == 1
           step == [a \in Nat \X T |-> 2 * a[2]]
<1>1. step \in [Nat \X T -> T] /\ one \in T
  OBVIOUS
<1>2. PICK f : Iterates(f, T, one, step)
  <2> HIDE DEF T, one, step
  <2> QED
    BY <1>1, Recursion
<1>3. f \in [Nat -> T] /\ f[0] = 1 /\ \A k \in Nat : f[k + 1] = 2 * f[k]
  BY <1>2 DEF Iterates
<1>4. f = [k \in Nat |-> IF k = 0 THEN 1 ELSE 2 * f[k - 1]]
  <2>1. ASSUME NEW k \in Nat, k # 0 PROVE f[k] = 2 * f[k - 1]
    BY <1>3, <2>1, k - 1 \in Nat, (k - 1) + 1 = k
  <2> QED
    BY <1>3, <2>1
<1>5. TwoTo = [k \in Nat |-> IF k = 0 THEN 1 ELSE 2 * TwoTo[k - 1]]
  BY <1>4 DEF TwoTo
<1>6. TwoTo[0] = 1
  BY <1>5
<1>7. \A k \in Nat : TwoTo[k + 1] = 2 * TwoTo[k]
  <2> TAKE k \in Nat
  <2>1. k + 1 \in Nat /\ k + 1 # 0 /\ (k + 1) - 1 = k
    OBVIOUS
  <2> QED
    BY <1>5, <2>1
<1>8. \A k \in Nat : TwoTo[k] \in Nat \ {0}
  <2> DEFINE P == {k \in Nat : TwoTo[k] \in Nat \ {0}}
  <2>1. 0 \in P
    BY <1>6
  <2>2. ASSUME NEW k \in Nat, k \in P PROVE k + 1 \in P
    BY <1>7, <2>2
  <2> HIDE DEF P
  <2>3. Nat \subseteq P
    BY <2>1, <2>2, Induction
  <2> QED
    BY <2>3 DEF P
<1> QED
  BY <1>5, <1>6, <1>7, <1>8

-----------------------------------------------------------------------------
(* Powers of two, quotients and remainders.                                *)

LEMMA TwoToPlus ==
    \A a, b \in Nat : TwoTo[a + b] = TwoTo[a] * TwoTo[b]
<1> SUFFICES ASSUME NEW a \in Nat PROVE \A b \in Nat : TwoTo[a + b] = TwoTo[a] * TwoTo[b]
  OBVIOUS
<1> DEFINE P == {b \in Nat : TwoTo[a + b] = TwoTo[a] * TwoTo[b]}
<1>1. 0 \in P
  BY TwoToIs
<1>2. ASSUME NEW b \in Nat, b \in P PROVE b + 1 \in P
  <2>1. TwoTo[a + (b + 1)] = 2 * TwoTo[a + b]
    BY TwoToIs, a + b \in Nat, a + (b + 1) = (a + b) + 1
  <2>2. TwoTo[b + 1] = 2 * TwoTo[b] /\ TwoTo[a] \in Nat /\ TwoTo[b] \in Nat
    BY TwoToIs
  <2>3. TwoTo[a + b] = TwoTo[a] * TwoTo[b]
    BY <1>2
  <2>4. TwoTo[a + (b + 1)] = TwoTo[a] * TwoTo[b + 1]
    BY <2>1, <2>2, <2>3
  <2> QED
    BY <2>4
<1> HIDE DEF P
<1>3. Nat \subseteq P
  BY <1>1, <1>2, Induction
<1> QED
  BY <1>3 DEF P

LEMMA TwoToGrows ==
    \A a, b \in Nat : a <= b => TwoTo[a] <= TwoTo[b]
<1> SUFFICES ASSUME NEW a \in Nat, NEW b \in Nat, a <= b
             PROVE  TwoTo[a] <= TwoTo[b]
  OBVIOUS
<1>1. b - a \in Nat /\ a + (b - a) = b
  OBVIOUS
<1>2. TwoTo[b] = TwoTo[a] * TwoTo[b - a]
  BY <1>1, TwoToPlus
<1>3. TwoTo[a] \in Nat /\ TwoTo[b - a] \in Nat \ {0}
  BY <1>1, TwoToIs
<1> HIDE <1>1
<1>4. ASSUME NEW x \in Nat, NEW y \in Nat \ {0} PROVE x <= x * y
  OBVIOUS
<1> QED
  BY <1>2, <1>3, <1>4

(* Quotients and remainders.                                               *)
LEMMA Division ==
    ASSUME NEW a \in Int, NEW b \in Nat \ {0}
    PROVE  /\ a = b * (a \div b) + (a % b)
           /\ a % b \in 0..(b - 1)
           /\ a \div b \in Int
           /\ a \in Nat => a \div b \in Nat
<1>1. a = b * (a \div b) + (a % b) /\ a \div b \in Int
  OBVIOUS
<1>3. a % b \in 0..(b - 1)
  OBVIOUS
<1>2. ASSUME a \in Nat PROVE a \div b \in Nat
  BY <1>2
<1> QED
  BY <1>1, <1>2, <1>3

LEMMA DivisionUnique ==
    ASSUME NEW a \in Int, NEW b \in Nat \ {0},
           NEW q \in Int, NEW r \in 0..(b - 1), a = b * q + r
    PROVE  a \div b = q /\ a % b = r
  OBVIOUS

LEMMA DivDiv ==
    ASSUME NEW v \in Nat, NEW a \in Nat \ {0}, NEW b \in Nat \ {0}
    PROVE  /\ (v \div a) \div b = v \div (a * b)
           /\ v % (a * b) = (v % a) + ((v \div a) % b) * a
<1> DEFINE q == v \div a  r == v % a  p == q \div b  s == q % b
<1>1. v = a * q + r /\ r \in 0..(a - 1) /\ q \in Nat
  <2>1. v \in Int
    OBVIOUS
  <2> QED
    BY <2>1, Division
<1> HIDE DEF q, r
<1>2. q = b * p + s /\ s \in 0..(b - 1) /\ p \in Nat
  <2>1. q \in Int /\ q \in Nat
    BY <1>1
  <2> QED
    BY <2>1, Division
<1> HIDE DEF p, s
<1>3. a * b \in Nat \ {0}
  OBVIOUS
<1>4. v = (a * b) * p + (r + s * a)
  BY <1>1, <1>2
<1>5. r + s * a \in 0..(a * b - 1)
  <2>1. s * a <= (b - 1) * a
    BY <1>2
  <2>2. s * a \in Nat /\ (b - 1) * a = a * b - a
    BY <1>2
  <2> QED
    BY <1>1, <1>3, <2>1, <2>2
<1> DEFINE c == a * b
           t == r + s * a
<1>6. c \in Nat \ {0} /\ t \in 0..(c - 1) /\ v = c * p + t
  BY <1>3, <1>4, <1>5
<1> HIDE DEF c, t
<1>7. v \div c = p /\ v % c = t
  BY <1>2, <1>6, DivisionUnique
<1> QED
  BY <1>7 DEF c, t, p, s, q, r

LEMMA DivLess ==
    ASSUME NEW v \in Nat, NEW a \in Nat \ {0}, NEW b \in Nat, v < a * b
    PROVE  v \div a < b
<1> DEFINE q == v \div a  r == v % a
<1>1. v = a * q + r /\ r \in 0..(a - 1) /\ q \in Nat
  <2>1. v \in Int
    OBVIOUS
  <2> QED
    BY <2>1, Division
<1> HIDE DEF q, r
<1>2. SUFFICES ASSUME q >= b PROVE FALSE
  BY <1>1 DEF q
<1>3. a * q >= a * b
  BY <1>1, <1>2
<1> QED
  BY <1>1, <1>3

LEMMA DivSmall ==
    ASSUME NEW v \in Nat, NEW a \in Nat \ {0}, v < a
    PROVE  v \div a = 0 /\ v % a = v
<1>1. v = a * 0 + v /\ v \in 0..(a - 1) /\ 0 \in Int
  OBVIOUS
<1> QED
  OBVIOUS

-----------------------------------------------------------------------------
(* FlattenSeq(), by what it does to one more sequence, and to nodes of one *)
(* length.                                                                 *)

(* The prefixes that FlattenSeq() concatenates.                            *)
Flattens(f, S, seqs) ==
    /\ f \in [0..Len(seqs) -> Seq(S)]
    /\ f[0] = <<>>
    /\ \A k \in 1..Len(seqs) : f[k] = f[k - 1] \o seqs[k]
    /\ FlattenSeq(seqs) = f[Len(seqs)]

LEMMA FlattenFolds ==
    ASSUME NEW S, NEW seqs \in Seq(Seq(S))
    PROVE  \E f : Flattens(f, S, seqs)
<1> DEFINE n == Len(seqs)
           T == Seq(S)
           empty == <<>>
           step == [a \in Nat \X T |->
                      IF a[1] + 1 \in 1..n THEN a[2] \o seqs[a[1] + 1] ELSE a[2]]
<1>1. n \in Nat /\ \A k \in 1..n : seqs[k] \in Seq(S)
  BY LenProperties, ElementOfSeq
<1>2. empty \in T /\ step \in [Nat \X T -> T]
  <2>1. \A s, t \in Seq(S) : s \o t \in Seq(S)
    BY ConcatProperties
  <2>2. empty \in T
    BY EmptySeq
  <2>3. ASSUME NEW a \in Nat \X T PROVE step[a] \in T
    <3>1. a[1] \in Nat /\ a[2] \in Seq(S)
      OBVIOUS
    <3> QED
      BY <1>1, <2>1, <3>1
  <2> QED
    BY <2>2, <2>3
<1>3. PICK f : Iterates(f, T, empty, step)
  <2> HIDE DEF T, empty, step
  <2> QED
    BY <1>2, Recursion
<1>4. f[0] = <<>> /\ \A k \in Nat : f[k] \in Seq(S)
  BY <1>3 DEF Iterates
<1>5. \A k \in 1..n : f[k] = f[k - 1] \o seqs[k]
  <2> TAKE k \in 1..n
  <2>1. k - 1 \in Nat /\ (k - 1) + 1 = k
    BY <1>1
  <2>2. f[k] = step[<<k - 1, f[k - 1]>>]
    BY <1>3, <2>1 DEF Iterates
  <2>3. <<k - 1, f[k - 1]>> \in Nat \X T
    BY <1>4, <2>1
  <2> QED
    BY <2>1, <2>2, <2>3
<1> DEFINE g == [k \in 0..n |-> f[k]]
<1>6. /\ g \in [0..n -> Seq(S)] /\ g[0] = <<>>
      /\ \A k \in 1..n : g[k] = g[k - 1] \o seqs[k]
  <2>1. g \in [0..n -> Seq(S)] /\ g[0] = <<>>
    BY <1>1, <1>4
  <2>2. \A k \in 1..n : g[k] = f[k] /\ g[k - 1] = f[k - 1]
    BY <1>1
  <2> QED
    BY <2>1, <2>2, <1>5
<1>7. FlattenSeq(seqs) = g[n]
  <2>1. CASE n = 0
    <3>1. seqs = <<>>
      BY <2>1, EmptySeq
    <3> QED
      BY <2>1, <3>1, <1>6 DEF FlattenSeq
  <2>2. CASE n # 0
    <3> DEFINE flatten ==
            CHOOSE flatten : flatten =
               [i \in 1..Len(seqs) |->
                  IF i = 1 THEN seqs[i] ELSE flatten[i - 1] \o seqs[i]]
    <3>1. FlattenSeq(seqs) = flatten[n]
      BY <2>2 DEF FlattenSeq
    <3> DEFINE h == [k \in 1..n |-> f[k]]
    <3>2. \A k \in 1..n : h[k] = IF k = 1 THEN seqs[k] ELSE h[k - 1] \o seqs[k]
      <4> TAKE k \in 1..n
      <4>1. CASE k = 1
        <5>1. f[k] = f[k - 1] \o seqs[k]
          BY <1>5
        <5>2. f[k - 1] = <<>> /\ seqs[k] \in Seq(S)
          BY <1>1, <1>4, <4>1
        <5>3. f[k] = seqs[k]
          BY <5>1, <5>2, ConcatEmptySeq
        <5> QED
          BY <4>1, <5>3
      <4>2. CASE k # 1
        <5>1. f[k] = f[k - 1] \o seqs[k]
          BY <1>5
        <5>2. k - 1 \in 1..n
          BY <4>2, <1>1
        <5>3. h[k] = f[k] /\ h[k - 1] = f[k - 1]
          BY <5>2
        <5> HIDE DEF h
        <5> QED
          BY <4>2, <5>1, <5>3
      <4> QED
        BY <4>1, <4>2
    <3>3. h = [i \in 1..Len(seqs) |->
                  IF i = 1 THEN seqs[i] ELSE h[i - 1] \o seqs[i]]
      BY <3>2
    <3>4. flatten = [i \in 1..Len(seqs) |->
                  IF i = 1 THEN seqs[i] ELSE flatten[i - 1] \o seqs[i]]
      BY <3>3
    <3> HIDE DEF flatten
    <3> DEFINE P == {k \in Nat : k + 1 \in 1..n => flatten[k + 1] = f[k + 1]}
    <3>5. 0 \in P
      <4>1. 1 \in 1..n
        BY <2>2, <1>1
      <4>2. flatten[1] = seqs[1] /\ h[1] = seqs[1]
        BY <3>2, <3>4, <4>1
      <4> QED
        BY <4>1, <4>2
    <3>6. ASSUME NEW k \in Nat, k \in P PROVE k + 1 \in P
      <4> SUFFICES ASSUME (k + 1) + 1 \in 1..n
                   PROVE  flatten[(k + 1) + 1] = f[(k + 1) + 1]
        OBVIOUS
      <4>1. k + 1 \in 1..n /\ (k + 1) + 1 # 1 /\ ((k + 1) + 1) - 1 = k + 1
        BY <1>1
      <4>2. flatten[(k + 1) + 1] = flatten[k + 1] \o seqs[(k + 1) + 1]
        BY <3>4, <4>1
      <4>3. f[(k + 1) + 1] = f[k + 1] \o seqs[(k + 1) + 1]
        BY <1>5, <4>1
      <4> QED
        BY <3>6, <4>1, <4>2, <4>3
    <3> HIDE DEF P
    <3>7. n - 1 \in P
      <4>1. n - 1 \in Nat
        BY <1>1, <2>2
      <4>2. Nat \subseteq P
        BY <3>5, <3>6, Induction
      <4> QED
        BY <4>1, <4>2
    <3>8. flatten[n] = f[n]
      BY <3>7, <1>1, <2>2 DEF P
    <3> QED
      BY <3>1, <3>8, <1>1
  <2> QED
    BY <2>1, <2>2
<1> QED
  BY <1>6, <1>7 DEF Flattens

LEMMA FlattenType ==
    ASSUME NEW S, NEW seqs \in Seq(Seq(S))
    PROVE  FlattenSeq(seqs) \in Seq(S)
<1>1. PICK f : Flattens(f, S, seqs)
  BY FlattenFolds
<1>2. Len(seqs) \in 0..Len(seqs)
  BY LenProperties
<1> QED
  BY <1>1, <1>2 DEF Flattens

LEMMA FlattenAppend ==
    ASSUME NEW S, NEW seqs \in Seq(Seq(S)), NEW s \in Seq(S)
    PROVE  FlattenSeq(Append(seqs, s)) = FlattenSeq(seqs) \o s
<1> DEFINE n == Len(seqs)
           t == Append(seqs, s)
<1>1. n \in Nat /\ t \in Seq(Seq(S)) /\ Len(t) = n + 1 /\ t[n + 1] = s
      /\ \A k \in 1..n : t[k] = seqs[k]
  BY LenProperties
<1> HIDE DEF t
<1>2. PICK f : Flattens(f, S, seqs)
  BY FlattenFolds
<1>3. PICK g : Flattens(g, S, t)
  BY <1>1, FlattenFolds
<1> DEFINE P == {k \in Nat : k <= n => f[k] = g[k]}
<1>4. 0 \in P
  BY <1>2, <1>3 DEF Flattens
<1>5. ASSUME NEW k \in Nat, k \in P PROVE k + 1 \in P
  <2> SUFFICES ASSUME k + 1 <= n PROVE f[k + 1] = g[k + 1]
    OBVIOUS
  <2>1. k + 1 \in 1..n /\ k + 1 \in 1..Len(t) /\ (k + 1) - 1 = k
    BY <1>1
  <2>2. f[k + 1] = f[k] \o seqs[k + 1] /\ g[k + 1] = g[k] \o t[k + 1]
    BY <1>2, <1>3, <2>1 DEF Flattens
  <2>3. f[k] = g[k]
    BY <1>1, <1>5, <2>1
  <2>4. t[k + 1] = seqs[k + 1]
    BY <1>1, <2>1
  <2> QED
    BY <2>2, <2>3, <2>4
<1> HIDE DEF P
<1>6. f[n] = g[n]
  <2>1. n \in P
    BY <1>1, <1>4, <1>5, Induction
  <2> QED
    BY <2>1, <1>1 DEF P
<1>7. FlattenSeq(t) = g[n] \o s
  <2>1. n + 1 \in 1..Len(t) /\ (n + 1) - 1 = n
    BY <1>1
  <2> QED
    BY <1>1, <1>3, <2>1 DEF Flattens
<1> QED
  BY <1>2, <1>6, <1>7 DEF Flattens, t

(* Nodes of one length.                                                    *)
LEMMA FlattenNodes ==
    ASSUME NEW S, NEW seqs \in Seq(Seq(S)), NEW size \in Nat,
           \A k \in 1..Len(seqs) : Len(seqs[k]) = size
    PROVE  /\ Len(FlattenSeq(seqs)) = Len(seqs) * size
           /\ \A i \in 1..Len(seqs) : \A j \in 1..size :
                 FlattenSeq(seqs)[(i - 1) * size + j] = seqs[i][j]
<1>1. PICK f : Flattens(f, S, seqs)
  BY FlattenFolds
<1> DEFINE n == Len(seqs)
<1>2. n \in Nat /\ \A k \in 1..n : seqs[k] \in Seq(S)
  BY LenProperties, ElementOfSeq
<1>3. /\ f[0] = <<>> /\ FlattenSeq(seqs) = f[n]
      /\ \A k \in 0..n : f[k] \in Seq(S)
      /\ \A k \in 1..n : f[k] = f[k - 1] \o seqs[k]
  BY <1>1 DEF Flattens
<1> DEFINE Good(k) ==
        /\ Len(f[k]) = k * size
        /\ \A i \in 1..k : \A j \in 1..size : f[k][(i - 1) * size + j] = seqs[i][j]
           P == {k \in Nat : k <= n => Good(k)}
<1>4. 0 \in P
  BY <1>3
<1>5. ASSUME NEW k \in Nat, k \in P PROVE k + 1 \in P
  <2> SUFFICES ASSUME k + 1 <= n PROVE Good(k + 1)
    OBVIOUS
  <2>1. k + 1 \in 1..n /\ k \in 0..n /\ (k + 1) - 1 = k
    BY <1>2
  <2>2. f[k + 1] = f[k] \o seqs[k + 1] /\ f[k] \in Seq(S)
        /\ seqs[k + 1] \in Seq(S) /\ Len(seqs[k + 1]) = size
    BY <1>2, <1>3, <2>1
  <2>3. Good(k)
    BY <1>5, <2>1
  <2>4. /\ Len(f[k + 1]) = k * size + size
        /\ \A m \in 1..(k * size + size) :
              f[k + 1][m] = IF m <= k * size THEN f[k][m]
                            ELSE seqs[k + 1][m - k * size]
    <3> DEFINE u == f[k]
               w == seqs[k + 1]
    <3>1. Len(u) = k * size /\ Len(w) = size
      BY <2>2, <2>3
    <3>. u \in Seq(S) /\ w \in Seq(S)
      BY <2>2
    <3>2. f[k + 1] = u \o w
      BY <2>2
    <3> HIDE DEF u, w
    <3>3. /\ Len(u \o w) = Len(u) + Len(w)
          /\ \A m \in 1..(Len(u) + Len(w)) :
                (u \o w)[m] = IF m <= Len(u) THEN u[m] ELSE w[m - Len(u)]
      OBVIOUS
    <3>4. /\ Len(u \o w) = k * size + size
          /\ \A m \in 1..(k * size + size) :
                (u \o w)[m] = IF m <= k * size THEN u[m] ELSE w[m - k * size]
      BY <3>1, <3>3
    <3> QED
      BY <3>2, <3>4 DEF u, w
  <2>5. k * size + size = (k + 1) * size /\ k * size \in Nat
    OBVIOUS
  <2>6. ASSUME NEW i \in 1..(k + 1), NEW j \in 1..size
        PROVE  f[k + 1][(i - 1) * size + j] = seqs[i][j]
    <3> DEFINE m == (i - 1) * size + j
    <3>1. CASE i = k + 1
      <4>1. m = k * size + j
        BY <3>1
      <4>2. m \in 1..(k * size + size) /\ ~(m <= k * size) /\ m - k * size = j
        <5> DEFINE x == k * size
        <5>1. x \in Nat /\ m = x + j
          BY <2>5, <4>1
        <5> HIDE DEF x, m
        <5>2. m \in 1..(x + size) /\ ~(m <= x) /\ m - x = j
          BY <5>1
        <5> QED
          BY <5>2 DEF x
      <4> HIDE DEF m
      <4>3. f[k + 1][m] = seqs[k + 1][j]
        BY <4>2, <2>4
      <4> QED
        BY <4>3, <3>1 DEF m
    <3>2. CASE i # k + 1
      <4>1. i \in 1..k
        BY <3>2
      <4>2. i * size <= k * size /\ i * size = (i - 1) * size + size
            /\ (i - 1) * size \in Nat
        BY <4>1
      <4>3. m \in 1..(k * size + size) /\ m <= k * size
        <5> DEFINE x == k * size
                   y == (i - 1) * size
        <5>1. x \in Nat /\ y \in Nat /\ y + size <= x /\ m = y + j
          BY <2>5, <4>2
        <5> HIDE DEF x, y, m
        <5>2. m \in 1..(x + size) /\ m <= x
          BY <5>1
        <5> QED
          BY <5>2 DEF x
      <4>4. f[k][m] = seqs[i][j]
        BY <2>3, <4>1
      <4> HIDE DEF m
      <4>5. f[k + 1][m] = f[k][m]
        BY <4>3, <2>4
      <4> QED
        BY <4>4, <4>5 DEF m
    <3> QED
      BY <3>1, <3>2
  <2> QED
    BY <2>4, <2>5, <2>6
<1> HIDE DEF P
<1>6. n \in P
  BY <1>2, <1>4, <1>5, Induction
<1> QED
  BY <1>2, <1>3, <1>6 DEF P

-----------------------------------------------------------------------------
(* The chain of nodes.                                                     *)

LEMMA Extremes ==
    ASSUME NEW a \in Int, NEW b \in Int
    PROVE  /\ Max({a, b}) = IF a <= b THEN b ELSE a
           /\ Min({a, b}) = IF a <= b THEN a ELSE b
<1>1. Max({a, b}) = IF a <= b THEN b ELSE a
  <2>1. \E x \in {a, b} : \A y \in {a, b} : x >= y
    OBVIOUS
  <2>2. Max({a, b}) \in {a, b} /\ \A y \in {a, b} : Max({a, b}) >= y
    BY <2>1 DEF Max
  <2> QED
    BY <2>2
<1>2. Min({a, b}) = IF a <= b THEN a ELSE b
  <2>1. \E x \in {a, b} : \A y \in {a, b} : x <= y
    OBVIOUS
  <2>2. Min({a, b}) \in {a, b} /\ \A y \in {a, b} : Min({a, b}) <= y
    BY <2>1 DEF Min
  <2> QED
    BY <2>2
<1> QED
  BY <1>1, <1>2

(* The numbers of nodes and of bytes in the last one.                      *)
LEMMA NewNodes ==
    ASSUME NEW B \in Nat \ {0}, NEW r \in Nat
    PROVE  LET more == Max({1, (r + B - 1) \div B})
               last == r - (more - 1) * B
           IN more \in Nat \ {0} /\ last \in 0..B
<1> DEFINE d == (r + B - 1) \div B
           e == (r + B - 1) % B
           more == Max({1, d})
<1>1. r + B - 1 = B * d + e /\ e \in 0..(B - 1) /\ d \in Nat
  <2>1. r + B - 1 \in Nat /\ r + B - 1 \in Int
    OBVIOUS
  <2> QED
    BY <2>1, Division
<1>2. more = IF 1 <= d THEN d ELSE 1
  BY <1>1, Extremes
<1> HIDE DEF d, e, more
<1>3. CASE d = 0
  <2>1. r = 0 /\ more = 1
    BY <1>1, <1>2, <1>3
  <2> QED
    BY <2>1 DEF more, d
<1>4. CASE d # 0
  <2>1. more = d
    BY <1>1, <1>2, <1>4
  <2>2. (d - 1) * B = B * d - B /\ B * d \in Nat
    BY <1>1
  <2>3. r - (d - 1) * B \in 0..B
    BY <1>1, <2>2
  <2> QED
    BY <1>1, <1>4, <2>1, <2>3 DEF more, d
<1> QED
  BY <1>3, <1>4

Cells == Bytes \cup {Unset}

(* The nodes of a serializer, and what counts their bytes.                 *)
Chain(s) ==
    /\ s.nodes \in Seq(Seq(Cells)) /\ Len(s.nodes) >= 1
    /\ \A k \in 1..Len(s.nodes) : Len(s.nodes[k]) = BaseSize
    /\ s.cur \in Nat /\ s.capacity \in 0..BaseSize /\ s.size \in Nat
    /\ s.astray \in BOOLEAN
    /\ s.size + s.capacity = Len(s.nodes) * BaseSize

(* _cur points behind the last byte while there is one node.               *)
AtEnd(s) == ~s.astray /\ (Len(s.nodes) = 1 => s.cur = s.size)

LEMMA ChainStarts ==
    ASSUME NEW s, s = [nodes |-> <<NewNode>>, cur |-> 0, capacity |-> BaseSize,
                       size |-> 0, astray |-> FALSE]
    PROVE  Chain(s) /\ AtEnd(s) /\ toString(s) = <<>>
<1> USE SerializeAssumption
<1>1. NewNode \in Seq(Cells) /\ Len(NewNode) = BaseSize
  BY DEF NewNode, Cells
<1> HIDE DEF NewNode
<1>2. Chain(s) /\ AtEnd(s)
  BY <1>1 DEF Chain, AtEnd
<1>3. toString(s) = <<>>
  BY SubSeqEmpty DEF toString
<1> QED
  BY <1>2, <1>3

LEMMA MovedType ==
    ASSUME NEW node \in Seq(Cells), Len(node) = BaseSize,
           NEW at \in Nat, NEW p \in Seq(Bytes)
    PROVE  /\ Moved(node, at, p) \in Seq(Cells)
           /\ Len(Moved(node, at, p)) = BaseSize
           /\ \A i \in 1..BaseSize : Moved(node, at, p)[i] =
                 IF i - at \in 1..Len(p) THEN p[i - at] ELSE node[i]
<1> USE SerializeAssumption
<1>1. DOMAIN p = 1..Len(p) /\ \A i \in 1..Len(p) : p[i] \in Cells
  BY ElementOfSeq DEF Cells
<1>2. \A i \in 1..BaseSize : node[i] \in Cells
  BY ElementOfSeq
<1>3. \A i \in 1..BaseSize :
         (IF i - at \in DOMAIN p THEN p[i - at] ELSE node[i]) \in Cells
  BY <1>1, <1>2
<1> HIDE DEF Cells
<1>4. Moved(node, at, p) \in [1..BaseSize -> Cells]
  BY <1>3 DEF Moved
<1>5. Moved(node, at, p) \in Seq(Cells) /\ Len(Moved(node, at, p)) = BaseSize
  BY <1>4
<1> QED
  BY <1>1, <1>5 DEF Moved

LEMMA NewNodeType ==
    NewNode \in Seq(Cells) /\ Len(NewNode) = BaseSize
  BY SerializeAssumption DEF NewNode, Cells

(* How write() cuts the bytes p into here, for the nodes there are, and    *)
(* more nodes, the last of which takes last bytes.                         *)
Piece(p, here, j) ==
    SubSeq(p, here + (j - 1) * BaseSize + 1, Min({here + j * BaseSize, Len(p)}))

Cuts(s, p, t, here, more, last) ==
    /\ here \in 0..Len(p) /\ more \in Nat /\ last \in 0..BaseSize
    /\ \/ /\ s.capacity > Len(p) /\ here = Len(p) /\ more = 0
          /\ t.capacity = s.capacity - Len(p) /\ t.cur = s.cur + Len(p)
       \/ /\ s.capacity <= Len(p) /\ here = s.capacity /\ more >= 1
          /\ Len(p) - here = (more - 1) * BaseSize + last
          /\ t.capacity = BaseSize - last /\ t.cur = s.cur + last
    /\ t.size = s.size + Len(p)
    /\ t.astray = (s.astray \/ (here > 0 /\ Len(s.nodes) > 1))
    /\ t.nodes \in Seq(Seq(Cells))
    /\ Len(t.nodes) = Len(s.nodes) + more
    /\ \A k \in 1..Len(t.nodes) : Len(t.nodes[k]) = BaseSize
    /\ \A k \in 1..Len(s.nodes) : t.nodes[k] =
          IF k = 1 THEN Moved(s.nodes[1], s.cur, SubSeq(p, 1, here))
          ELSE s.nodes[k]
    /\ \A j \in 1..more :
          t.nodes[Len(s.nodes) + j] = Moved(NewNode, 0, Piece(p, here, j))

LEMMA WriteCuts ==
    ASSUME NEW s, Chain(s), NEW p \in Seq(Bytes)
    PROVE  \E here, more, last : Cuts(s, p, write(s, p), here, more, last)
<1> USE SerializeAssumption
<1> DEFINE fits == s.capacity > Len(p)
           here == IF fits THEN Len(p) ELSE s.capacity
           remain == Len(p) - here
           more == IF fits THEN 0 ELSE NodesFor(remain)
           last == remain - (more - 1) * BaseSize
           first == Moved(s.nodes[1], s.cur, SubSeq(p, 1, here))
           old == [s.nodes EXCEPT ![1] = first]
           new == [j \in 1..more |-> Moved(NewNode, 0, Piece(p, here, j))]
           t == write(s, p)
<1>1. t = [nodes |-> old \o new,
           cur |-> s.cur + (IF fits THEN Len(p) ELSE last),
           capacity |-> IF fits THEN s.capacity - Len(p) ELSE BaseSize - last,
           size |-> s.size + Len(p),
           astray |-> s.astray \/ (here > 0 /\ Len(s.nodes) > 1)]
  BY DEF write, Advance, Piece
<1>2. Len(p) \in Nat /\ s.capacity \in Nat /\ here \in 0..Len(p) /\ remain \in Nat
  BY DEF Chain
<1>3. more \in Nat /\ (~fits => more >= 1 /\ last \in 0..BaseSize)
  <2> HIDE DEF here, remain
  <2>1. CASE fits
    BY <2>1
  <2>2. CASE ~fits
    <3>1. more = Max({1, (remain + BaseSize - 1) \div BaseSize})
      BY <2>2 DEF NodesFor
    <3> HIDE DEF more, last
    <3>2. more \in Nat \ {0} /\ remain - (more - 1) * BaseSize \in 0..BaseSize
      BY <1>2, <3>1, NewNodes
    <3> QED
      BY <3>2 DEF last
  <2> HIDE DEF more, last
  <2> QED
    BY <2>1, <2>2
<1>4. \A m, n \in Int : 1 <= m /\ n <= Len(p) => SubSeq(p, m, n) \in Seq(Bytes)
  OBVIOUS
<1>5. \A j \in 1..more : Piece(p, here, j) \in Seq(Bytes)
  <2> TAKE j \in 1..more
  <2> DEFINE a == here + (j - 1) * BaseSize + 1
             c == here + j * BaseSize
             b == Min({c, Len(p)})
  <2>1. a \in Nat \ {0} /\ c \in Nat
    <3> HIDE DEF here, more
    <3>1. j - 1 \in Nat /\ j \in Nat /\ here \in Nat
      BY <1>2, <1>3
    <3>2. ASSUME NEW x \in Nat, NEW y \in Nat PROVE x * y \in Nat
      OBVIOUS
    <3>3. (j - 1) * BaseSize \in Nat /\ j * BaseSize \in Nat
      BY <3>1, <3>2
    <3> QED
      BY <3>1, <3>3
  <2> HIDE DEF a, c
  <2>2. b \in Int /\ b <= Len(p)
    <3> DEFINE l == Len(p)
    <3>1. l \in Int /\ c \in Int
      BY <2>1, <1>2
    <3> HIDE DEF l
    <3>2. Min({c, l}) = IF c <= l THEN c ELSE l
      BY <3>1, Extremes
    <3>3. Min({c, l}) \in Int /\ Min({c, l}) <= l
      BY <3>1, <3>2
    <3> QED
      BY <3>3 DEF l
  <2> HIDE DEF b
  <2>3. SubSeq(p, a, b) \in Seq(Bytes)
    BY <1>4, <2>1, <2>2
  <2> QED
    BY <2>3 DEF Piece, a, b, c
<1>6. SubSeq(p, 1, here) \in Seq(Bytes)
  BY <1>2, <1>4
<1>7. s.nodes \in Seq(Seq(Cells)) /\ Len(s.nodes) \in Nat /\ 1 \in 1..Len(s.nodes)
      /\ s.nodes[1] \in Seq(Cells)
      /\ \A k \in 1..Len(s.nodes) : Len(s.nodes[k]) = BaseSize
  BY ElementOfSeq DEF Chain
<1>8. first \in Seq(Cells) /\ Len(first) = BaseSize
  <2> DEFINE node == s.nodes[1]
             part == SubSeq(p, 1, here)
             at == s.cur
  <2>1. at \in Nat
    BY DEF Chain
  <2>2. node \in Seq(Cells) /\ Len(node) = BaseSize /\ part \in Seq(Bytes)
    BY <1>6, <1>7
  <2> HIDE DEF node, part, at
  <2>3. Moved(node, at, part) \in Seq(Cells) /\ Len(Moved(node, at, part)) = BaseSize
    BY <2>1, <2>2, MovedType
  <2> QED
    BY <2>3 DEF node, part, at
<1>9. \A j \in 1..more : /\ Moved(NewNode, 0, Piece(p, here, j)) \in Seq(Cells)
                         /\ Len(Moved(NewNode, 0, Piece(p, here, j))) = BaseSize
  BY <1>5, NewNodeType, MovedType
<1> HIDE DEF first, here, more, last, t, Cells
<1>10. old \in Seq(Seq(Cells)) /\ Len(old) = Len(s.nodes)
       /\ \A k \in 1..Len(s.nodes) : old[k] = IF k = 1 THEN first ELSE s.nodes[k]
  <2> DEFINE ns == s.nodes
             one == 1
  <2>1. ns \in Seq(Seq(Cells)) /\ one \in 1..Len(ns) /\ first \in Seq(Cells)
    BY <1>7, <1>8
  <2>2. old = [ns EXCEPT ![one] = first]
    OBVIOUS
  <2> HIDE DEF old, ns, one
  <2>3. old \in Seq(Seq(Cells)) /\ Len(old) = Len(ns)
        /\ \A k \in 1..Len(ns) : old[k] = IF k = one THEN first ELSE ns[k]
    BY <2>1, <2>2, ExceptSeq
  <2> QED
    BY <2>3 DEF ns, one
<1>11. new \in Seq(Seq(Cells)) /\ Len(new) = more
       /\ \A j \in 1..more : new[j] = Moved(NewNode, 0, Piece(p, here, j))
  BY <1>3, <1>9
<1> HIDE DEF old, new
<1>12. /\ old \o new \in Seq(Seq(Cells)) /\ Len(old \o new) = Len(s.nodes) + more
       /\ \A k \in 1..Len(s.nodes) : (old \o new)[k] = old[k]
       /\ \A j \in 1..more : (old \o new)[Len(s.nodes) + j] = new[j]
  <2> DEFINE T == Seq(Cells)
             l == Len(s.nodes)
  <2>1. old \in Seq(T) /\ new \in Seq(T)
    BY <1>10, <1>11
  <2>2. l \in Nat /\ Len(old) = l /\ Len(new) = more
    BY <1>7, <1>10, <1>11
  <2> HIDE DEF T, l
  <2>3. /\ old \o new \in Seq(T) /\ Len(old \o new) = l + more
        /\ \A k \in 1..l : (old \o new)[k] = old[k]
        /\ \A j \in 1..more : (old \o new)[l + j] = new[j]
    BY <2>1, <2>2, <1>3
  <2> QED
    BY <2>3 DEF T, l
<1>13. t.nodes \in Seq(Seq(Cells)) /\ Len(t.nodes) = Len(s.nodes) + more
       /\ (\A k \in 1..Len(s.nodes) : t.nodes[k] = IF k = 1 THEN first ELSE s.nodes[k])
       /\ \A j \in 1..more : t.nodes[Len(s.nodes) + j] = Moved(NewNode, 0, Piece(p, here, j))
  BY <1>1, <1>10, <1>11, <1>12
<1>14. \A k \in 1..Len(t.nodes) : Len(t.nodes[k]) = BaseSize
  <2> TAKE k \in 1..Len(t.nodes)
  <2>1. CASE k <= Len(s.nodes)
    <3>1. k \in 1..Len(s.nodes)
      BY <2>1, <1>7, <1>13
    <3> QED
      BY <3>1, <1>7, <1>8, <1>13
  <2>2. CASE k > Len(s.nodes)
    <3>1. k - Len(s.nodes) \in 1..more /\ k = Len(s.nodes) + (k - Len(s.nodes))
      BY <2>2, <1>3, <1>7, <1>13
    <3> QED
      BY <3>1, <1>9, <1>13
  <2> QED
    BY <2>1, <2>2, <1>3, <1>7, <1>13
<1>15. CASE fits
  <2>1. Cuts(s, p, t, here, more, 0)
    <3>1. here = Len(p) /\ more = 0 /\ 0 \in 0..BaseSize
      BY <1>15 DEF here, more
    <3>2. t.capacity = s.capacity - Len(p) /\ t.cur = s.cur + Len(p)
      BY <1>15, <1>1
    <3>3. t.size = s.size + Len(p)
          /\ t.astray = (s.astray \/ (here > 0 /\ Len(s.nodes) > 1))
      BY <1>1
    <3> QED
      BY <1>15, <3>1, <3>2, <3>3, <1>2, <1>3, <1>13, <1>14 DEF Cuts, first
  <2> QED
    BY <2>1 DEF t
<1>16. CASE ~fits
  <2>1. Cuts(s, p, t, here, more, last)
    <3>1. here = s.capacity /\ s.capacity <= Len(p)
      BY <1>16, <1>2 DEF here
    <3>2. Len(p) - here = (more - 1) * BaseSize + last
      <4>1. (more - 1) * BaseSize \in Int
        BY <1>3
      <4> QED
        BY <4>1, <1>2 DEF last
    <3>3. t.capacity = BaseSize - last /\ t.cur = s.cur + last
      BY <1>16, <1>1
    <3>4. t.size = s.size + Len(p)
          /\ t.astray = (s.astray \/ (here > 0 /\ Len(s.nodes) > 1))
      BY <1>1
    <3> QED
      BY <1>16, <3>1, <3>2, <3>3, <3>4, <1>2, <1>3, <1>13, <1>14 DEF Cuts, first
  <2> QED
    BY <2>1 DEF t
<1> QED
  BY <1>15, <1>16

LEMMA WriteKeepsChain ==
    ASSUME NEW s, Chain(s), NEW p \in Seq(Bytes)
    PROVE  /\ Chain(write(s, p))
           /\ write(s, p).size = s.size + Len(p)
           /\ s.astray => write(s, p).astray
<1> DEFINE t == write(s, p)
           L == Len(s.nodes)
<1>1. PICK here, more, last : Cuts(s, p, t, here, more, last)
  BY WriteCuts
<1> HIDE DEF t
<1>2. BaseSize \in Nat \ {0}
  BY SerializeAssumption
<1>3. L \in Nat /\ L >= 1 /\ Len(p) \in Nat /\ s.size \in Nat /\ s.cur \in Nat
      /\ s.capacity \in 0..BaseSize /\ s.size + s.capacity = L * BaseSize
      /\ s.astray \in BOOLEAN
  BY DEF Chain
<1>4. here \in Nat /\ more \in Nat /\ last \in 0..BaseSize
      /\ t.size = s.size + Len(p) /\ Len(t.nodes) = L + more
      /\ t.nodes \in Seq(Seq(Cells))
      /\ (\A k \in 1..Len(t.nodes) : Len(t.nodes[k]) = BaseSize)
      /\ t.astray = (s.astray \/ (here > 0 /\ L > 1))
  BY <1>1, <1>3 DEF Cuts
<1> HIDE DEF L
<1>5. t.cur \in Nat /\ t.capacity \in 0..BaseSize
      /\ t.size + t.capacity = (L + more) * BaseSize
  <2> DEFINE x == (more - 1) * BaseSize
             y == L * BaseSize
             z == (L + more) * BaseSize
             l == Len(p)
  <2>1. more = 0 => z = y
    BY <1>3
  <2>2. z = y + x + BaseSize /\ x \in Int /\ y \in Int
    BY <1>2, <1>3, <1>4
  <2>3. /\ BaseSize \in Nat \ {0} /\ s.size + s.capacity = y
        /\ s.size \in Nat /\ s.cur \in Nat /\ s.capacity \in 0..BaseSize
        /\ here \in Nat /\ last \in 0..BaseSize /\ t.size = s.size + l /\ l \in Nat
    BY <1>2, <1>3, <1>4
  <2>4. \/ /\ s.capacity > l /\ more = 0
           /\ t.capacity = s.capacity - l /\ t.cur = s.cur + l
        \/ /\ here = s.capacity /\ l - here = x + last
           /\ t.capacity = BaseSize - last /\ t.cur = s.cur + last
    BY <1>1 DEF Cuts
  <2> HIDE DEF x, y, z, l
  <2>5. t.cur \in Nat /\ t.capacity \in 0..BaseSize
    <3>1. s.capacity > l => s.capacity - l \in 0..BaseSize /\ s.cur + l \in Nat
      BY <2>3
    <3>2. BaseSize - last \in 0..BaseSize /\ s.cur + last \in Nat
      BY <2>3
    <3> QED
      BY <2>4, <3>1, <3>2
  <2>6. t.size + t.capacity = z
    <3>1. CASE /\ s.capacity > l /\ more = 0
               /\ t.capacity = s.capacity - l /\ t.cur = s.cur + l
      <4>1. s.size + l + (s.capacity - l) = y
        BY <2>3
      <4> QED
        BY <2>1, <2>3, <3>1, <4>1
    <3>2. CASE /\ here = s.capacity /\ l - here = x + last
               /\ t.capacity = BaseSize - last /\ t.cur = s.cur + last
      <4>1. s.size + l = y + x + last
        BY <2>2, <2>3, <3>2
      <4>2. y + x + last + (BaseSize - last) = z
        BY <2>2, <2>3
      <4> QED
        BY <2>3, <3>2, <4>1, <4>2
    <3> QED
      BY <2>4, <3>1, <3>2
  <2> QED
    BY <2>5, <2>6 DEF z
<1>6. Chain(t)
  BY <1>3, <1>4, <1>5 DEF Chain
<1> QED
  BY <1>3, <1>4, <1>6 DEF t

(* A place in a chain of n nodes.                                          *)
LEMMA Place ==
    ASSUME NEW n \in Nat, NEW B \in Nat \ {0}, NEW i \in 1..(n * B)
    PROVE  \E k \in 1..n : \E j \in 1..B : i = (k - 1) * B + j
<1> DEFINE d == (i - 1) \div B
           r == (i - 1) % B
<1>1. n * B \in Nat /\ i - 1 \in Nat /\ i - 1 \in Int /\ i - 1 < B * n
  <2>1. n * B \in Nat /\ n * B = B * n
    OBVIOUS
  <2> QED
    BY <2>1
<1>2. i - 1 = B * d + r /\ r \in 0..(B - 1) /\ d \in Nat
  BY <1>1, Division
<1>3. d < n
  BY <1>1, DivLess
<1> HIDE DEF d, r
<1>4. d + 1 \in 1..n /\ r + 1 \in 1..B
  BY <1>2, <1>3
<1>5. i = ((d + 1) - 1) * B + (r + 1)
  <2>1. ((d + 1) - 1) * B = B * d
    BY <1>2
  <2> QED
    BY <1>2, <2>1
<1> QED
  BY <1>4, <1>5

LEMMA ChainFlat ==
    ASSUME NEW s, Chain(s)
    PROVE  LET L == Len(s.nodes)
               G == FlattenSeq(s.nodes)
           IN /\ L \in Nat /\ L >= 1 /\ BaseSize \in Nat \ {0}
              /\ G \in Seq(Cells) /\ Len(G) = L * BaseSize
              /\ s.size \in 0..Len(G)
              /\ \A k \in 1..L : \A j \in 1..BaseSize :
                    G[(k - 1) * BaseSize + j] = s.nodes[k][j]
<1> DEFINE L == Len(s.nodes)
           G == FlattenSeq(s.nodes)
<1>1. L \in Nat /\ L >= 1 /\ BaseSize \in Nat \ {0}
  BY SerializeAssumption DEF Chain
<1>2. s.nodes \in Seq(Seq(Cells)) /\ \A k \in 1..L : Len(s.nodes[k]) = BaseSize
  BY DEF Chain
<1>3. G \in Seq(Cells) /\ Len(G) = L * BaseSize
      /\ \A k \in 1..L : \A j \in 1..BaseSize :
                    G[(k - 1) * BaseSize + j] = s.nodes[k][j]
  <2> DEFINE ns == s.nodes
  <2>1. ns \in Seq(Seq(Cells)) /\ BaseSize \in Nat
        /\ \A k \in 1..Len(ns) : Len(ns[k]) = BaseSize
    BY <1>1, <1>2
  <2> HIDE DEF ns
  <2>2. /\ FlattenSeq(ns) \in Seq(Cells)
        /\ Len(FlattenSeq(ns)) = Len(ns) * BaseSize
        /\ \A i \in 1..Len(ns) : \A j \in 1..BaseSize :
                 FlattenSeq(ns)[(i - 1) * BaseSize + j] = ns[i][j]
    BY <2>1, FlattenType, FlattenNodes
  <2> QED
    BY <2>2 DEF ns
<1>4. s.size \in 0..Len(G)
  <2>1. s.size \in Nat /\ s.capacity \in 0..BaseSize /\ s.size + s.capacity = L * BaseSize
    BY DEF Chain
  <2> HIDE DEF L, G
  <2> QED
    BY <1>1, <1>3, <2>1
<1> QED
  BY <1>1, <1>3, <1>4

LEMMA PrefixAppended ==
    ASSUME NEW S, NEW u \in Seq(S), NEW w \in Seq(S), NEW p \in Seq(S),
           NEW n \in 0..Len(u), n + Len(p) <= Len(w),
           \A i \in 1..n : w[i] = u[i],
           \A m \in 1..Len(p) : w[n + m] = p[m]
    PROVE  SubSeq(w, 1, n + Len(p)) = SubSeq(u, 1, n) \o p
<1> DEFINE l == Len(p)
           a == SubSeq(w, 1, n + l)
           b == SubSeq(u, 1, n)
<1>1. l \in Nat /\ n \in Nat /\ Len(u) \in Nat /\ Len(w) \in Nat
  OBVIOUS
<1>2. a \in Seq(S) /\ Len(a) = n + l /\ \A i \in 1..(n + l) : a[i] = w[i]
  BY <1>1
<1>3. b \in Seq(S) /\ Len(b) = n /\ \A i \in 1..n : b[i] = u[i]
  BY <1>1
<1> HIDE DEF a, b
<1>4. b \o p \in Seq(S) /\ Len(b \o p) = n + l
      /\ (\A i \in 1..n : (b \o p)[i] = b[i])
      /\ \A m \in 1..l : (b \o p)[n + m] = p[m]
  <2>1. b \o p \in Seq(S) /\ Len(b \o p) = Len(b) + Len(p)
        /\ \A i \in 1..(Len(b) + Len(p)) :
              (b \o p)[i] = IF i <= Len(b) THEN b[i] ELSE p[i - Len(b)]
    BY <1>3, ConcatProperties
  <2>2. \A m \in 1..l : n + m \in 1..(n + l) /\ ~(n + m <= n) /\ (n + m) - n = m
    BY <1>1
  <2> HIDE DEF l
  <2>3. Len(b) = n /\ Len(p) = l
    BY <1>3 DEF l
  <2>4. b \o p \in Seq(S) /\ Len(b \o p) = n + l
        /\ \A i \in 1..(n + l) :
              (b \o p)[i] = IF i <= n THEN b[i] ELSE p[i - n]
    BY <2>1, <2>3
  <2>5. \A i \in 1..n : i \in 1..(n + l) /\ i <= n
    BY <1>1
  <2> QED
    BY <2>2, <2>4, <2>5
<1>5. \A i \in 1..(n + l) : a[i] = (b \o p)[i]
  <2> TAKE i \in 1..(n + l)
  <2>1. CASE i <= n
    <3>1. i \in 1..n
      BY <2>1, <1>1
    <3> QED
      BY <3>1, <1>2, <1>3, <1>4
  <2>2. CASE i > n
    <3>1. i - n \in 1..l /\ i = n + (i - n)
      BY <2>2, <1>1
    <3> QED
      BY <3>1, <1>2, <1>4
  <2>3. i <= n \/ i > n
    BY <1>1
  <2> QED
    BY <2>1, <2>2, <2>3
<1>6. a = b \o p
  BY <1>2, <1>4, <1>5, SeqEqual
<1> QED
  BY <1>6 DEF a, b

LEMMA WriteAppends ==
    ASSUME NEW s, Chain(s), AtEnd(s), NEW p \in Seq(Bytes),
           ~write(s, p).astray
    PROVE  /\ AtEnd(write(s, p))
           /\ ~Outside(s, p)
           /\ toString(write(s, p)) = toString(s) \o p
<1> DEFINE t == write(s, p)
           L == Len(s.nodes)
           M == Len(t.nodes)
           B == BaseSize
           G == FlattenSeq(s.nodes)
           H == FlattenSeq(t.nodes)
           n == s.size
           l == Len(p)
<1>1. PICK here, more, last : Cuts(s, p, t, here, more, last)
  BY WriteCuts
<1>2. Chain(t) /\ t.size = n + l
  BY WriteKeepsChain
<1> HIDE DEF t
<1>3. /\ L \in Nat /\ L >= 1 /\ B \in Nat \ {0}
      /\ G \in Seq(Cells) /\ Len(G) = L * B /\ n \in 0..Len(G)
      /\ \A k \in 1..L : \A j \in 1..B : G[(k - 1) * B + j] = s.nodes[k][j]
  BY ChainFlat
<1>4. /\ M \in Nat
      /\ H \in Seq(Cells) /\ Len(H) = M * B /\ n + l \in 0..Len(H)
      /\ \A k \in 1..M : \A j \in 1..B : H[(k - 1) * B + j] = t.nodes[k][j]
  BY <1>2, ChainFlat
<1>5. l \in Nat /\ n \in Nat /\ s.cur \in Nat /\ s.capacity \in 0..B
      /\ n + s.capacity = L * B
      /\ \A k \in 1..L : s.nodes[k] \in Seq(Cells) /\ Len(s.nodes[k]) = B
  BY ElementOfSeq DEF Chain
<1>6. /\ here \in 0..l /\ more \in Nat /\ last \in 0..B
      /\ here = 0 \/ L = 1
      /\ L = 1 => s.cur = n
      /\ M = L + more
  <2>1. /\ here \in 0..l /\ more \in Nat /\ last \in 0..B /\ M = L + more
        /\ t.astray = (s.astray \/ (here > 0 /\ L > 1))
    BY <1>1 DEF Cuts
  <2>2. ~s.astray /\ ~t.astray /\ (L = 1 => s.cur = n)
    BY DEF AtEnd, t
  <2> HIDE DEF L, M, B, n, l
  <2>3. ~(here > 0 /\ L > 1)
    BY <2>1, <2>2
  <2>4. here = 0 \/ L = 1
    BY <2>1, <2>3, <1>3, <1>5
  <2> QED
    BY <2>1, <2>2, <2>4
<1>7. \/ /\ s.capacity > l /\ here = l /\ more = 0 /\ t.cur = s.cur + l
      \/ /\ s.capacity <= l /\ here = s.capacity /\ more >= 1
         /\ l - here = (more - 1) * B + last
  BY <1>1 DEF Cuts
<1>8. /\ \A k \in 1..L : t.nodes[k] =
            IF k = 1 THEN Moved(s.nodes[1], s.cur, SubSeq(p, 1, here))
            ELSE s.nodes[k]
      /\ \A j \in 1..more : t.nodes[L + j] = Moved(NewNode, 0, Piece(p, here, j))
  BY <1>1 DEF Cuts
<1>9. \A i \in 1..B : t.nodes[1][i] =
         IF i - s.cur \in 1..here THEN p[i - s.cur] ELSE s.nodes[1][i]
  <2> DEFINE node == s.nodes[1]
             part == SubSeq(p, 1, here)
             at == s.cur
  <2>1. node \in Seq(Cells) /\ Len(node) = BaseSize /\ at \in Nat
    BY <1>3, <1>5
  <2>2. part \in Seq(Bytes) /\ Len(part) = here
        /\ \A i \in 1..here : part[i] = p[i]
    BY <1>5, <1>6
  <2>3. t.nodes[1] = Moved(node, at, part)
    BY <1>3, <1>8
  <2> HIDE DEF node, part, at
  <2>4. \A i \in 1..BaseSize : Moved(node, at, part)[i] =
                 IF i - at \in 1..Len(part) THEN part[i - at] ELSE node[i]
    BY <2>1, <2>2, MovedType
  <2>5. \A i \in 1..BaseSize : t.nodes[1][i] =
                 IF i - at \in 1..here THEN p[i - at] ELSE node[i]
    BY <2>2, <2>3, <2>4
  <2> QED
    BY <2>5 DEF node, at
<1>10. \A i \in 1..n : H[i] = G[i]
  <2> TAKE i \in 1..n
  <2>1. i \in 1..(L * B)
    BY <1>3, <1>5
  <2>2. PICK k \in 1..L, j \in 1..B : i = (k - 1) * B + j
    BY <1>3, <2>1, Place
  <2>3. k \in 1..M /\ G[i] = s.nodes[k][j] /\ H[i] = t.nodes[k][j]
    <3>1. k \in 1..M
      BY <1>3, <1>4, <1>6
    <3> HIDE DEF G, H, M, L, B
    <3> QED
      BY <3>1, <2>2, <1>3, <1>4
  <2>4. CASE k = 1
    <3>1. i = j
      BY <1>3, <2>2, <2>4
    <3>2. ~(j - s.cur \in 1..here)
      BY <3>1, <1>5, <1>6
    <3>3. t.nodes[1][j] = s.nodes[1][j]
      BY <1>9, <3>2
    <3> QED
      BY <2>3, <2>4, <3>3
  <2>5. CASE k # 1
    BY <1>8, <2>3, <2>5
  <2> QED
    BY <2>4, <2>5
<1>11. \A m \in 1..l : H[n + m] = p[m]
  <2> TAKE m \in 1..l
  <2>1. CASE m <= here
    <3>1. L = 1 /\ s.cur = n /\ n + m \in 1..B /\ 1 \in 1..M
      <4> HIDE DEF L, M, B, n, l
      <4>1. L = 1 /\ s.cur = n /\ M = 1 + more /\ L * B = B
        <5>1. here # 0
          BY <2>1, <1>5, <1>6
        <5>2. L = 1 /\ s.cur = n /\ M = L + more
          BY <5>1, <1>6
        <5> QED
          BY <5>2, <1>3
      <4>2. here <= s.capacity
        BY <1>5, <1>6, <1>7
      <4> QED
        BY <4>1, <4>2, <2>1, <1>3, <1>5, <1>6
    <3>2. (n + m) - s.cur = m /\ m \in 1..here
      BY <3>1, <2>1, <1>5, <1>6
    <3>3. t.nodes[1][n + m] = p[m]
      BY <1>9, <3>1, <3>2
    <3>4. H[(1 - 1) * B + (n + m)] = t.nodes[1][n + m]
      BY <1>4, <3>1
    <3>5. (1 - 1) * B + (n + m) = n + m
      BY <1>3, <1>5
    <3> QED
      BY <3>3, <3>4, <3>5
  <2>2. CASE m > here
    <3>1. /\ n + here = L * B /\ more >= 1
          /\ l - here = (more - 1) * B + last
      BY <2>2, <1>5, <1>6, <1>7
    <3>2. m - here \in 1..(more * B)
      <4>1. (more - 1) * B + B = more * B /\ more * B \in Nat
            /\ (more - 1) * B \in Int
        BY <1>3, <1>6
      <4> DEFINE x == (more - 1) * B
                 y == more * B
      <4>2. x + B = y /\ y \in Nat /\ x \in Int /\ l - here = x + last
        BY <3>1, <4>1
      <4> HIDE DEF x, y
      <4>3. m - here \in 1..y
        <5> HIDE DEF l, B
        <5>1. last \in 0..B /\ l \in Nat /\ here \in Nat /\ B \in Nat
          BY <1>3, <1>5, <1>6
        <5> QED
          BY <2>2, <4>2, <5>1
      <4> QED
        BY <4>3 DEF y
    <3>3. PICK q \in 1..more, j \in 1..B : m - here = (q - 1) * B + j
      BY <1>3, <1>6, <3>2, Place
    <3>4. n + m = ((L + q) - 1) * B + j /\ L + q \in 1..M
      <4> HIDE DEF L, M, B, n, l
      <4>1. ((L + q) - 1) * B = L * B + (q - 1) * B /\ (q - 1) * B \in Int
        <5>1. q \in Int /\ L \in Int /\ B \in Int
          BY <1>3, <1>6
        <5> QED
          BY <5>1
      <4> DEFINE x == L * B
                 y == (q - 1) * B
                 z == ((L + q) - 1) * B
      <4>2. z = x + y /\ x = n + here /\ m - here = y + j /\ y \in Int
        BY <3>1, <3>3, <4>1
      <4> HIDE DEF x, y, z
      <4>3. n + m = z + j
        <5>1. n \in Int /\ here \in Int /\ m \in Int /\ j \in Int
          BY <1>3, <1>5, <1>6
        <5> QED
          BY <4>2, <5>1
      <4>4. L + q \in 1..M
        BY <1>3, <1>6
      <4> QED
        BY <4>3, <4>4 DEF z
    <3>5. H[n + m] = t.nodes[L + q][j]
      <4> HIDE DEF H, M, L, B, n
      <4> QED
        BY <3>4, <1>4
    <3>6. t.nodes[L + q] = Moved(NewNode, 0, Piece(p, here, q))
      BY <1>8
    <3> DEFINE a == here + (q - 1) * B + 1
               b == Min({here + q * B, l})
               part == Piece(p, here, q)
    <3>7. a \in Nat \ {0} /\ b \in Nat /\ b <= l /\ j - 0 \in 1..((b - a) + 1)
          /\ (a + j) - 1 = m
      <4>1. q * B = (q - 1) * B + B /\ (q - 1) * B \in Nat
        BY <1>3, <1>6
      <4> DEFINE x == (q - 1) * B
                 y == q * B
      <4>2. y = x + B /\ x \in Nat /\ m - here = x + j
        BY <3>3, <4>1
      <4> HIDE DEF x, y
      <4>3. here + y \in Int /\ l \in Int
        BY <4>2, <1>3, <1>5, <1>6
      <4>4. Min({here + y, l}) = IF here + y <= l THEN here + y ELSE l
        BY <4>3, Extremes
      <4>5. b = IF here + y <= l THEN here + y ELSE l
        BY <4>4 DEF y
      <4>6. a = here + x + 1
        BY DEF x
      <4> HIDE DEF a, b
      <4> QED
        BY <4>2, <4>5, <4>6, <1>3, <1>5, <1>6
    <3> HIDE DEF a, b
    <3>8. part = SubSeq(p, a, b)
      BY DEF Piece, a, b
    <3>9. part \in Seq(Bytes) /\ j - 0 \in 1..Len(part) /\ part[j - 0] = p[m]
      <4>1. /\ SubSeq(p, a, b) \in Seq(Bytes)
            /\ Len(SubSeq(p, a, b)) = (b - a) + 1
            /\ SubSeq(p, a, b)[j - 0] = p[(a + (j - 0)) - 1]
        BY <3>7, <1>5
      <4> QED
        BY <3>7, <3>8, <4>1
    <3> HIDE DEF part
    <3>10. Moved(NewNode, 0, part)[j] = p[m]
      <4> DEFINE zero == 0
      <4>1. zero \in Nat
        OBVIOUS
      <4> HIDE DEF zero
      <4>2. \A i \in 1..BaseSize : Moved(NewNode, zero, part)[i] =
                 IF i - zero \in 1..Len(part) THEN part[i - zero] ELSE NewNode[i]
        BY <3>9, <4>1, NewNodeType, MovedType
      <4> QED
        BY <3>9, <4>2 DEF zero
    <3> QED
      BY <3>5, <3>6, <3>10 DEF part
  <2> QED
    BY <2>1, <2>2, <1>5, <1>6
<1>12. toString(t) = toString(s) \o p
  <2>1. p \in Seq(Cells)
    BY DEF Cells
  <2>2. SubSeq(H, 1, n + l) = SubSeq(G, 1, n) \o p
    <3> HIDE DEF G, H, n, L, M, B
    <3>1. n \in 0..Len(G) /\ n + Len(p) <= Len(H)
      BY <1>3, <1>4
    <3> QED
      BY <2>1, <3>1, <1>3, <1>4, <1>10, <1>11, PrefixAppended
  <2> QED
    BY <2>2, <1>2 DEF toString
<1>13. AtEnd(t)
  <2>1. ~t.astray
    BY DEF t
  <2>2. ASSUME M = 1 PROVE t.cur = t.size
    <3> HIDE DEF L, M, n, l
    <3>1. L = 1 /\ more = 0
      BY <2>2, <1>3, <1>6
    <3>2. t.cur = s.cur + l /\ s.cur = n
      BY <3>1, <1>6, <1>7
    <3> QED
      BY <3>2, <1>2
  <2> QED
    BY <2>1, <2>2 DEF AtEnd
<1>14. ~Outside(s, p)
  <2>1. Min({s.capacity, l}) = IF s.capacity <= l THEN s.capacity ELSE l
    <3> DEFINE c == s.capacity
    <3>1. c \in Int /\ l \in Int
      BY <1>5
    <3> HIDE DEF c, l
    <3> QED
      BY <3>1, Extremes DEF c
  <2>2. Min({s.capacity, l}) = here
    <3> HIDE DEF l
    <3> QED
      BY <2>1, <1>5, <1>6, <1>7
  <2>3. ASSUME here > 0 PROVE s.cur + here <= B
    <3> HIDE DEF L, B, n, l
    <3>1. L = 1 /\ s.cur = n /\ L * B = B
      <4>1. L = 1 /\ s.cur = n
        BY <2>3, <1>5, <1>6
      <4> QED
        BY <4>1, <1>3
    <3>2. here <= s.capacity
      BY <1>5, <1>6, <1>7
    <3> QED
      BY <3>1, <3>2, <1>3, <1>5, <1>6
  <2>4. ~(here > 0 /\ s.cur + here > B)
    <3>1. s.cur + here \in Int /\ B \in Int
      BY <1>3, <1>5, <1>6
    <3> QED
      BY <2>3, <3>1
  <2> QED
    BY <2>2, <2>4 DEF Outside
<1> QED
  BY <1>12, <1>13, <1>14 DEF t

-----------------------------------------------------------------------------
(* The bytes of a value.                                                   *)

LEMMA HalfAndBase ==
    /\ Half \in Nat /\ Half >= 2 /\ Base = 2 * Half
    /\ ByteBits - 1 \in Nat \ {0}
    /\ Bytes = 0..(2 * Half - 1)
<1>1. ByteBits - 1 \in Nat \ {0} /\ ByteBits - 2 \in Nat
      /\ (ByteBits - 2) + 1 = ByteBits - 1 /\ (ByteBits - 1) + 1 = ByteBits
  BY SerializeAssumption
<1>2. TwoTo[ByteBits] = 2 * TwoTo[ByteBits - 1]
      /\ TwoTo[ByteBits - 1] = 2 * TwoTo[ByteBits - 2]
      /\ TwoTo[ByteBits - 2] \in Nat \ {0}
  BY <1>1, TwoToIs
<1> QED
  BY <1>1, <1>2 DEF Half, Base, Bytes

LEMMA VarBytesIs ==
    /\ VarBytes \in [Nat -> Seq(Bytes)]
    /\ \A v \in Nat : VarBytes[v] =
          IF v < Half THEN <<v>> ELSE <<(v % Half) + Half>> \o VarBytes[v \div Half]
<1> DEFINE T == [Nat -> Seq(Bytes)]
           H == Half
           Body(v, g) == IF v < H THEN <<v>>
                         ELSE <<(v % H) + H>> \o g[v \div H]
           base == [v \in Nat |-> <<>>]
           step == [a \in Nat \X T |-> [v \in Nat |-> Body(v, a[2])]]
<1>1. H \in Nat \ {0} /\ H >= 2 /\ Bytes = 0..(2 * H - 1)
  BY HalfAndBase
<1> HIDE DEF H
<1>2. \A v \in Nat : v \div H \in Nat /\ v % H \in 0..(H - 1) /\ (v >= H => v \div H < v)
  <2> TAKE v \in Nat
  <2>1. v \in Int
    OBVIOUS
  <2> DEFINE q == v \div H
             r == v % H
  <2>2. v = H * q + r /\ r \in 0..(H - 1) /\ q \in Nat
    BY <1>1, <2>1, Division
  <2> HIDE DEF q, r
  <2>3. ASSUME v >= H PROVE q < v
    <3>1. q # 0
      BY <1>1, <2>2, <2>3
    <3>2. H * q >= 2 * q
      BY <1>1, <2>2
    <3> QED
      BY <1>1, <2>2, <3>1, <3>2
  <2> QED
    BY <2>2, <2>3 DEF q, r
<1> DEFINE Rest(v) == v \div H
           Low(v) == v % H
<1>2a. \A v \in Nat : Low(v) + H \in Bytes
  <2> TAKE v \in Nat
  <2>1. Low(v) \in 0..(H - 1)
    BY <1>2
  <2> HIDE DEF Low
  <2> QED
    BY <1>1, <2>1
<1>2b. \A v \in Nat : ~(v < H) => Rest(v) \in Nat /\ Rest(v) < v
  <2> TAKE v \in Nat
  <2> HAVE ~(v < H)
  <2>1. v >= H
    BY <1>1
  <2> QED
    BY <1>2, <2>1
<1>2c. \A v \in Nat : Rest(v) \in Nat
  BY <1>2
<1>2d. \A v, g : Body(v, g) = IF v < H THEN <<v>> ELSE <<Low(v) + H>> \o g[Rest(v)]
  OBVIOUS
<1> HIDE DEF Rest, Low, Body
<1>3. \A v \in Nat, g \in T : Body(v, g) \in Seq(Bytes)
  <2> TAKE v \in Nat, g \in T
  <2>1. v < H => v \in Bytes
    BY <1>1
  <2>2. Low(v) + H \in Bytes
    BY <1>2a
  <2>3. g[Rest(v)] \in Seq(Bytes)
    BY <1>2c
  <2>4. \A x \in Bytes : <<x>> \in Seq(Bytes)
    OBVIOUS
  <2> QED
    BY <1>2d, <2>1, <2>2, <2>3, <2>4, ConcatProperties
<1>4. base \in T
  BY EmptySeq
<1>5. step \in [Nat \X T -> T]
  <2>1. ASSUME NEW a \in Nat \X T PROVE step[a] \in T
    <3>1. a[2] \in T
      BY <2>1
    <3> HIDE DEF T
    <3>2. step[a] = [v \in Nat |-> Body(v, a[2])]
      BY <2>1
    <3> HIDE DEF step
    <3>3. \A v \in Nat : Body(v, a[2]) \in Seq(Bytes)
      BY <1>3, <3>1
    <3> QED
      BY <3>2, <3>3 DEF T
  <2> HIDE DEF T
  <2> QED
    BY <2>1
<1>6. PICK G : Iterates(G, T, base, step)
  <2> HIDE DEF T, base, step
  <2> QED
    BY <1>4, <1>5, Recursion
<1>7. \A k \in Nat : G[k] \in T /\ \A v \in Nat : G[k + 1][v] = Body(v, G[k])
  <2> TAKE k \in Nat
  <2>1. G[k] \in T
    BY <1>6 DEF Iterates
  <2>2. G[k + 1] = step[<<k, G[k]>>]
    BY <1>6 DEF Iterates
  <2>3. <<k, G[k]>> \in Nat \X T
    BY <2>1
  <2>4. G[k + 1] = [v \in Nat |-> Body(v, G[k])]
    BY <2>2, <2>3
  <2> QED
    BY <2>1, <2>4
<1> HIDE DEF T, step, base
<1>8. \A k \in Nat : \A v \in Nat : v < k => G[k + 1][v] = G[k][v]
  <2> DEFINE P == {k \in Nat : \A v \in Nat : v < k => G[k + 1][v] = G[k][v]}
  <2>1. 0 \in P
    OBVIOUS
  <2>2. ASSUME NEW k \in Nat, k \in P PROVE k + 1 \in P
    <3> SUFFICES ASSUME NEW v \in Nat, v < k + 1
                 PROVE  G[(k + 1) + 1][v] = G[k + 1][v]
      OBVIOUS
    <3>1. k + 1 \in Nat
      OBVIOUS
    <3>2. G[(k + 1) + 1][v] = Body(v, G[k + 1]) /\ G[k + 1][v] = Body(v, G[k])
      BY <1>7, <3>1
    <3>3. CASE v < H
      BY <1>2d, <3>2, <3>3
    <3>4. CASE ~(v < H)
      <4> DEFINE w == Rest(v)
      <4>1. w \in Nat /\ w < v
        BY <1>2b, <3>4
      <4>3. Body(v, G[k + 1]) = <<Low(v) + H>> \o G[k + 1][w]
            /\ Body(v, G[k]) = <<Low(v) + H>> \o G[k][w]
        BY <1>2d, <3>4
      <4> HIDE DEF w
      <4>4. w < k
        BY <4>1
      <4>2. G[k + 1][w] = G[k][w]
        BY <2>2, <4>1, <4>4
      <4> QED
        BY <3>2, <4>2, <4>3
    <3> QED
      BY <3>3, <3>4
  <2> HIDE DEF P
  <2>3. Nat \subseteq P
    BY <2>1, <2>2, Induction
  <2> QED
    BY <2>3 DEF P
<1> DEFINE h == [v \in Nat |-> G[v + 1][v]]
<1>9. \A w, i \in Nat : G[(w + 1) + i][w] = h[w]
  <2> TAKE w \in Nat
  <2> DEFINE P == {i \in Nat : G[(w + 1) + i][w] = h[w]}
  <2>1. 0 \in P
    OBVIOUS
  <2>2. ASSUME NEW i \in Nat, i \in P PROVE i + 1 \in P
    <3>1. (w + 1) + i \in Nat /\ w < (w + 1) + i
          /\ ((w + 1) + i) + 1 = (w + 1) + (i + 1)
      OBVIOUS
    <3>2. G[((w + 1) + i) + 1][w] = G[(w + 1) + i][w]
      BY <1>8, <3>1
    <3>3. G[(w + 1) + i][w] = h[w]
      BY <2>2
    <3> QED
      BY <3>1, <3>2, <3>3
  <2> HIDE DEF P
  <2>3. Nat \subseteq P
    BY <2>1, <2>2, Induction
  <2> QED
    BY <2>3 DEF P
<1>10. h \in [Nat -> Seq(Bytes)]
  <2>1. ASSUME NEW v \in Nat PROVE G[v + 1][v] \in Seq(Bytes)
    <3>1. G[v + 1] \in T
      BY <1>7, v + 1 \in Nat
    <3> QED
      BY <3>1 DEF T
  <2> QED
    BY <2>1
<1>11. \A v \in Nat : h[v] = Body(v, h)
  <2> TAKE v \in Nat
  <2>1. h[v] = Body(v, G[v])
    BY <1>7
  <2>2. CASE v < H
    BY <1>2d, <2>1, <2>2
  <2>3. CASE ~(v < H)
    <3> DEFINE w == Rest(v)
    <3>1. w \in Nat /\ w < v
      BY <1>2b, <2>3
    <3> HIDE DEF w
    <3>2. (v - w) - 1 \in Nat /\ (w + 1) + ((v - w) - 1) = v
      BY <3>1
    <3>3. G[v][w] = h[w]
      BY <1>9, <3>1, <3>2
    <3> HIDE DEF h
    <3> QED
      BY <1>2d, <2>1, <2>3, <3>3 DEF w
  <2> QED
    BY <2>2, <2>3
<1>12. h = [v \in Nat |-> IF v < Half THEN <<v>>
                         ELSE <<(v % Half) + Half>> \o h[v \div Half]]
  <2>1. h = [v \in Nat |-> h[v]]
    BY <1>10
  <2> HIDE DEF h
  <2>2. \A v \in Nat : h[v] = IF v < Half THEN <<v>>
                         ELSE <<(v % Half) + Half>> \o h[v \div Half]
    BY <1>11 DEF H, Body
  <2> QED
    BY <2>1, <2>2
<1> HIDE DEF h
<1>13. VarBytes = [v \in Nat |-> IF v < Half THEN <<v>>
                         ELSE <<(v % Half) + Half>> \o VarBytes[v \div Half]]
  BY <1>12 DEF VarBytes
<1>14. \A v \in Nat : VarBytes[v] = Body(v, VarBytes)
  BY <1>13 DEF H, Body
<1>15. \A k \in Nat : \A v \in Nat : v < k => VarBytes[v] \in Seq(Bytes)
  <2> DEFINE P == {k \in Nat : \A v \in Nat : v < k => VarBytes[v] \in Seq(Bytes)}
  <2>1. 0 \in P
    OBVIOUS
  <2>2. ASSUME NEW k \in Nat, k \in P PROVE k + 1 \in P
    <3> SUFFICES ASSUME NEW v \in Nat, v < k + 1
                 PROVE  VarBytes[v] \in Seq(Bytes)
      OBVIOUS
    <3>1. VarBytes[v] = Body(v, VarBytes)
      BY <1>14
    <3>2. CASE v < H
      <4>1. v \in Bytes
        BY <1>1, <3>2
      <4> QED
        <5>1. VarBytes[v] = <<v>>
          BY <1>2d, <3>1, <3>2
        <5>2. <<v>> \in Seq(Bytes)
          BY <4>1
        <5> QED
          BY <5>1, <5>2
    <3>3. CASE ~(v < H)
      <4> DEFINE w == Rest(v)
      <4>1. w \in Nat /\ w < v
        BY <1>2b, <3>3
      <4>2. VarBytes[v] = <<Low(v) + H>> \o VarBytes[w]
        BY <1>2d, <3>1, <3>3
      <4> HIDE DEF w
      <4>3. w < k
        BY <4>1
      <4>4. VarBytes[w] \in Seq(Bytes)
        BY <2>2, <4>1, <4>3
      <4>5. <<Low(v) + H>> \in Seq(Bytes)
        BY <1>2a
      <4> QED
        BY <4>2, <4>4, <4>5, ConcatProperties
    <3> QED
      BY <3>2, <3>3
  <2> HIDE DEF P
  <2>3. Nat \subseteq P
    BY <2>1, <2>2, Induction
  <2> QED
    BY <2>3 DEF P
<1>16. \A v \in Nat : VarBytes[v] \in Seq(Bytes)
  <2> TAKE v \in Nat
  <2>1. v + 1 \in Nat /\ v < v + 1
    OBVIOUS
  <2> QED
    BY <2>1, <1>15
<1> QED
  BY <1>13, <1>16

LEMMA SizePositive ==
    \A n \in Nat : Size(n) \in Nat \ {0}
<1> TAKE n \in Nat
<1>1. n * ByteBits \in Nat
  BY SerializeAssumption
<1> QED
  BY <1>1, TwoToIs DEF Size

LEMMA SizeStep ==
    ASSUME NEW n \in Nat
    PROVE  Size(n + 1) = Size(n) * Base
<1>1. ByteBits \in Nat
  BY SerializeAssumption
<1>2. n * ByteBits \in Nat /\ (n + 1) * ByteBits = n * ByteBits + ByteBits
  BY <1>1
<1> QED
  BY <1>1, <1>2, TwoToPlus DEF Size, Base

LEMMA ZigZagNat ==
    ASSUME NEW v \in Int, NEW n \in Nat
    PROVE  encodeZigZag(v, n) \in 0..(Size(n) - 1)
<1> DEFINE a == IF v < 0 THEN -v * 2 - 1 ELSE v * 2
           b == Size(n)
<1>1. a \in Int /\ b \in Nat \ {0}
  BY SizePositive
<1>2. encodeZigZag(v, n) = a % b
  BY DEF encodeZigZag
<1> HIDE DEF a, b
<1>3. a % b \in 0..(b - 1)
  BY <1>1, Division
<1> QED
  BY <1>2, <1>3 DEF b

LEMMA FixedBytesType ==
    ASSUME NEW v \in Int, NEW n \in Nat
    PROVE  FixedBytes(v, n) \in Seq(Bytes) /\ Len(FixedBytes(v, n)) = n
<1>1. \A k \in 1..n : (v \div Size(n - k)) % Base \in Bytes
  <2> TAKE k \in 1..n
  <2> DEFINE b == Size(n - k)
             q == v \div b
  <2>1. b \in Nat \ {0}
    BY SizePositive, n - k \in Nat
  <2> HIDE DEF b
  <2>2. q \in Int
    BY <2>1, Division
  <2> HIDE DEF q
  <2>3. Base \in Nat \ {0}
    BY HalfAndBase
  <2>4. q % Base \in 0..(Base - 1)
    BY <2>2, <2>3, Division
  <2> QED
    BY <2>4 DEF q, b, Bytes
<1>2. FixedBytes(v, n) \in [1..n -> Bytes]
  BY <1>1 DEF FixedBytes
<1> HIDE DEF Bytes
<1> QED
  BY <1>2

LEMMA ValueTypes ==
    ASSUME NEW x, IsValue(x)
    PROVE  /\ x.kind \in Kinds /\ x.width \in Nat \ {0}
           /\ x.kind # "string" => x.val \in Int
           /\ x.kind \in {"byte", "var", "fixed"} => x.val \in Nat
           /\ x.kind = "string" => x.val \in Seq(Bytes)
<1>1. x.kind \in Kinds /\ x.width \in Nat \ {0}
  BY DEF IsValue
<1>2. Size(x.width) \in Nat \ {0} /\ Half \in Nat /\ Base \in Nat
  <2>1. x.width \in Nat
    BY <1>1
  <2>2. Size(x.width) \in Nat \ {0}
    BY <2>1, SizePositive
  <2>3. Half \in Nat /\ Base \in Nat
    BY HalfAndBase
  <2> QED
    BY <2>2, <2>3
<1>3. Size(x.width) \div 2 \in Int
  BY <1>2
<1>4. x.kind \in {"byte", "var", "fixed"} => x.val \in Nat
  BY <1>2, HalfAndBase DEF IsValue
<1>5. x.kind = "sbyte" => x.val \in Int
  BY <1>2 DEF IsValue
<1>6. x.kind \in {"svar", "sfixed"} => x.val \in Int
  <2> DEFINE h == Size(x.width) \div 2
  <2>1. h \in Int
    BY <1>3
  <2>2. x.kind \in {"svar", "sfixed"} => x.val \in -h..(h - 1)
    BY DEF IsValue
  <2> HIDE DEF h
  <2> QED
    BY <2>1, <2>2
<1> QED
  BY <1>1, <1>4, <1>5, <1>6 DEF Kinds, IsValue

LEMMA WrittenType ==
    ASSUME NEW x, IsValue(x)
    PROVE  /\ Written(x) \in Seq(Seq(Bytes))
           /\ Len(Written(x)) \in {1, 2}
<1>1. /\ x.kind \in Kinds /\ x.width \in Nat
      /\ x.kind # "string" => x.val \in Int
      /\ x.kind \in {"byte", "var", "fixed"} => x.val \in Nat
      /\ x.kind = "string" => x.val \in Seq(Bytes)
  BY ValueTypes
<1>2. \A p \in Seq(Bytes) : <<p>> \in Seq(Seq(Bytes)) /\ Len(<<p>>) = 1
  OBVIOUS
<1>3. \A v \in Nat : VarBytes[v] \in Seq(Bytes)
  BY VarBytesIs
<1> HIDE DEF Bytes
<1>4. CASE x.kind \in {"byte", "sbyte"}
  <2>1. x.val % Base \in Bytes
    <3>1. x.val \in Int /\ Base \in Nat \ {0}
      BY <1>1, <1>4, HalfAndBase
    <3>2. x.val % Base \in 0..(Base - 1)
      BY <3>1, Division
    <3> QED
      BY <3>2 DEF Bytes
  <2>2. <<x.val % Base>> \in Seq(Bytes)
    BY <2>1
  <2>3. Written(x) = <<<<x.val % Base>>>>
    BY <1>4 DEF Written
  <2> QED
    BY <1>2, <2>2, <2>3
<1>5. CASE x.kind = "var"
  <2>1. Written(x) = <<VarBytes[x.val]>>
    BY <1>5 DEF Written
  <2> QED
    BY <1>1, <1>2, <1>3, <1>5, <2>1
<1>6. CASE x.kind = "svar"
  <2>1. Written(x) = <<VarBytes[encodeZigZag(x.val, x.width)]>>
    BY <1>6 DEF Written
  <2>2. encodeZigZag(x.val, x.width) \in Nat
    <3>1. x.val \in Int /\ x.width \in Nat
      BY <1>1, <1>6
    <3> QED
      <4>1. encodeZigZag(x.val, x.width) \in 0..(Size(x.width) - 1)
        BY <3>1, ZigZagNat
      <4>2. Size(x.width) \in Nat
        BY <3>1, SizePositive
      <4> QED
        BY <4>1, <4>2
  <2> QED
    BY <1>2, <1>3, <2>1, <2>2
<1>7. CASE x.kind = "fixed"
  <2>1. Written(x) = <<FixedBytes(x.val, x.width)>>
    BY <1>7 DEF Written
  <2>2. x.val \in Int /\ x.width \in Nat
    BY <1>1, <1>7
  <2>3. FixedBytes(x.val, x.width) \in Seq(Bytes)
    BY <2>2, FixedBytesType
  <2> QED
    BY <1>2, <2>1, <2>3
<1>8. CASE x.kind = "sfixed"
  <2> DEFINE v == encodeZigZag(x.val, x.width)
  <2>1. Written(x) = <<FixedBytes(v, x.width)>>
    BY <1>8 DEF Written
  <2>2. v \in Int /\ x.width \in Nat
    <3>1. x.val \in Int /\ x.width \in Nat
      BY <1>1, <1>8
    <3> QED
      <4>1. encodeZigZag(x.val, x.width) \in 0..(Size(x.width) - 1)
        BY <3>1, ZigZagNat
      <4>2. Size(x.width) \in Nat
        BY <3>1, SizePositive
      <4> QED
        BY <3>1, <4>1, <4>2
  <2> HIDE DEF v
  <2>3. FixedBytes(v, x.width) \in Seq(Bytes)
    BY <2>2, FixedBytesType
  <2> QED
    BY <1>2, <2>1, <2>3
<1>9. CASE x.kind = "string"
  <2> DEFINE p == VarBytes[Len(x.val)]
             q == x.val
  <2>1. q \in Seq(Bytes) /\ p \in Seq(Bytes)
    BY <1>1, <1>3, <1>9
  <2>2. Written(x) = <<p>> \o (IF q = <<>> THEN <<>> ELSE <<q>>)
    BY <1>9 DEF Written
  <2> HIDE DEF p, q
  <2>3. q = <<>> => Written(x) = <<p>>
    BY <2>1, <2>2
  <2>4. q # <<>> => Written(x) = <<p, q>>
    <3> DEFINE P == Seq(Bytes)
               u == <<p>> \o <<q>>
    <3>0. p \in P /\ q \in P
      BY <2>1
    <3> HIDE DEF P
    <3>2. u \in Seq(P) /\ Len(u) = 2 /\ u[1] = p /\ u[2] = q
      BY <3>0
    <3>3. <<p, q>> \in Seq(P) /\ Len(<<p, q>>) = 2 /\ <<p, q>>[1] = p /\ <<p, q>>[2] = q
      BY <3>0
    <3>1. u = <<p, q>>
      <4> DEFINE z == <<p, q>>
      <4>1. \A i \in 1..Len(u) : u[i] = z[i]
        BY <3>2, <3>3
      <4> HIDE DEF u, z
      <4> QED
        BY <3>2, <3>3, <4>1, SeqEqual DEF z
    <3> QED
      BY <2>2, <3>1
  <2>5. <<p, q>> \in Seq(Seq(Bytes)) /\ Len(<<p, q>>) = 2
    BY <2>1
  <2> QED
    BY <1>2, <2>1, <2>3, <2>4, <2>5
<1> QED
  BY <1>1, <1>4, <1>5, <1>6, <1>7, <1>8, <1>9 DEF Kinds

(* The bytes of one value, and of a sequence of values.                    *)
ValueBytes(x) == FlattenSeq(Written(x))
AllBytes(xs) == FlattenSeq(FlattenSeq([k \in DOMAIN xs |-> Written(xs[k])]))

LEMMA FlattenShort ==
    ASSUME NEW S, NEW w \in Seq(Seq(S)), Len(w) \in {1, 2}
    PROVE  /\ FlattenSeq(w) \in Seq(S)
           /\ Len(w) = 1 => w = <<w[1]>> /\ w[1] \in Seq(S) /\ FlattenSeq(w) = w[1]
           /\ Len(w) = 2 => /\ w = <<w[1], w[2]>> /\ w[1] \in Seq(S) /\ w[2] \in Seq(S)
                            /\ FlattenSeq(w) = w[1] \o w[2]
           /\ \A f \in Seq(Seq(S)) :
                 FlattenSeq(f \o w) = FlattenSeq(f) \o FlattenSeq(w)
<1> DEFINE T == Seq(S)
           empty == <<>>
<1>1. empty \in Seq(T) /\ FlattenSeq(empty) = <<>>
  BY EmptySeq DEF FlattenSeq
<1>2. \A f \in Seq(T), s \in T : FlattenSeq(Append(f, s)) = FlattenSeq(f) \o s
  BY FlattenAppend
<1>3. \A f \in Seq(T) : FlattenSeq(f) \in T
  BY FlattenType
<1>4. \A s \in T : <<>> \o s = s
  BY ConcatEmptySeq
<1>5. CASE Len(w) = 1
  <2> DEFINE a == w[1]
  <2>1. a \in T /\ w = <<a>>
    BY <1>5
  <2> HIDE DEF a
  <2>2. w = Append(empty, a) /\ \A f \in Seq(T) : f \o w = Append(f, a)
    BY <2>1
  <2> HIDE DEF T, empty
  <2>3. FlattenSeq(w) = a
    BY <1>1, <1>2, <1>4, <2>1, <2>2
  <2>4. \A f \in Seq(T) : FlattenSeq(f \o w) = FlattenSeq(f) \o FlattenSeq(w)
    BY <1>2, <2>1, <2>2, <2>3
  <2> QED
    BY <1>5, <2>1, <2>3, <2>4 DEF a, T
<1>6. CASE Len(w) = 2
  <2> DEFINE a == w[1]
             b == w[2]
  <2>1. a \in T /\ b \in T /\ w = <<a, b>>
    <3>1. a \in T /\ b \in T
      <4>1. 1 \in 1..Len(w) /\ 2 \in 1..Len(w)
        BY <1>6
      <4>2. w \in Seq(T)
        OBVIOUS
      <4> HIDE DEF T
      <4>3. \A i \in 1..Len(w) : w[i] \in T
        BY <4>2, ElementOfSeq
      <4> QED
        BY <4>1, <4>3
    <3> HIDE DEF T
    <3>2. <<a, b>> \in Seq(T) /\ Len(<<a, b>>) = 2 /\ <<a, b>>[1] = a /\ <<a, b>>[2] = b
      BY <3>1
    <3>3. w \in Seq(T)
      BY DEF T
    <3> DEFINE u == <<a, b>>
    <3>4. \A i \in 1..Len(w) : w[i] = u[i]
      BY <1>6, <3>2
    <3> HIDE DEF u, a, b
    <3>5. w = u
      BY <1>6, <3>2, <3>3, <3>4, SeqEqual DEF u
    <3> QED
      BY <3>1, <3>5 DEF u
  <2> HIDE DEF a, b
  <2>2. w = Append(Append(empty, a), b) /\ Append(empty, a) \in Seq(T)
        /\ \A f \in Seq(T) : f \o w = Append(Append(f, a), b) /\ Append(f, a) \in Seq(T)
    BY <2>1
  <2>3. \A s, t, u \in T : (s \o t) \o u = s \o (t \o u)
    BY ConcatAssociative
  <2> HIDE DEF T, empty
  <2>4. FlattenSeq(w) = a \o b
    <3>1. FlattenSeq(Append(empty, a)) = a
      BY <1>1, <1>2, <1>4, <2>1
    <3>2. FlattenSeq(Append(Append(empty, a), b)) = FlattenSeq(Append(empty, a)) \o b
      BY <1>2, <2>1, <2>2
    <3> QED
      BY <2>2, <3>1, <3>2
  <2>5. \A f \in Seq(T) : FlattenSeq(f \o w) = FlattenSeq(f) \o FlattenSeq(w)
    <3> TAKE f \in Seq(T)
    <3> DEFINE g == FlattenSeq(f)
    <3>1. FlattenSeq(f \o w) = (g \o a) \o b
      <4>1. FlattenSeq(Append(f, a)) = g \o a
        BY <1>2, <2>1
      <4>2. Append(f, a) \in Seq(T)
        BY <2>2
      <4>3. FlattenSeq(Append(Append(f, a), b)) = FlattenSeq(Append(f, a)) \o b
        BY <1>2, <2>1, <4>2
      <4> QED
        BY <2>2, <4>1, <4>3
    <3>2. g \in T
      BY <1>3
    <3> HIDE DEF g
    <3>3. (g \o a) \o b = g \o (a \o b)
      BY <2>1, <2>3, <3>2
    <3> QED
      BY <2>4, <3>1, <3>3 DEF g
  <2>6. FlattenSeq(w) \in T
    BY <1>3 DEF T
  <2> QED
    BY <1>6, <2>1, <2>4, <2>5, <2>6 DEF a, b, T
<1> QED
  BY <1>5, <1>6

LEMMA AllBytesAppend ==
    ASSUME NEW xs \in Seq(Values), NEW x \in Values
    PROVE  /\ AllBytes(xs) \in Seq(Bytes) /\ ValueBytes(x) \in Seq(Bytes)
           /\ AllBytes(Append(xs, x)) = AllBytes(xs) \o ValueBytes(x)
<1> DEFINE P == Seq(Bytes)
           W == Seq(P)
           ws == [k \in DOMAIN xs |-> Written(xs[k])]
           ys == Append(xs, x)
           vs == [k \in DOMAIN ys |-> Written(ys[k])]
           w == Written(x)
<1>1. \A y \in Values : Written(y) \in W /\ Len(Written(y)) \in {1, 2}
  BY WrittenType, SerializeAssumption
<1>2. ws \in Seq(W)
  <2>1. \A k \in 1..Len(xs) : xs[k] \in Values
    OBVIOUS
  <2>2. DOMAIN xs = 1..Len(xs) /\ Len(xs) \in Nat
    OBVIOUS
  <2> HIDE DEF W
  <2>3. ws \in [1..Len(xs) -> W]
    BY <1>1, <2>1, <2>2
  <2> QED
    BY <2>2, <2>3
<1>3. vs = Append(ws, w)
  <2>1. Len(xs) \in Nat /\ DOMAIN xs = 1..Len(xs) /\ DOMAIN ys = 1..(Len(xs) + 1)
        /\ ys[Len(xs) + 1] = x /\ \A k \in 1..Len(xs) : ys[k] = xs[k]
    OBVIOUS
  <2>2. w \in W
    BY <1>1
  <2> HIDE DEF ys, W
  <2>3. DOMAIN vs = 1..(Len(xs) + 1) /\ vs[Len(xs) + 1] = w
        /\ \A k \in 1..Len(xs) : vs[k] = ws[k]
    BY <2>1
  <2>4. Len(ws) = Len(xs)
    BY <1>2, <2>1
  <2> DEFINE us == Append(ws, w)
  <2>5. us \in Seq(W) /\ Len(us) = Len(xs) + 1 /\ us[Len(xs) + 1] = w
        /\ \A k \in 1..Len(xs) : us[k] = ws[k]
    <3> HIDE DEF ws, w
    <3> QED
      BY <1>2, <2>2, <2>4
  <2>6. vs \in [1..(Len(xs) + 1) -> W]
    <3>1. \A k \in 1..(Len(xs) + 1) : ys[k] \in Values
      <4>1. \A k \in 1..Len(xs) : xs[k] \in Values
        OBVIOUS
      <4>2. \A k \in 1..(Len(xs) + 1) : k \in 1..Len(xs) \/ k = Len(xs) + 1
        BY <2>1
      <4> QED
        BY <2>1, <4>1, <4>2
    <3> QED
      BY <1>1, <2>1, <3>1
  <2> HIDE DEF ws, vs, us, w
  <2>7. vs \in Seq(W) /\ Len(vs) = Len(xs) + 1
    BY <2>1, <2>6
  <2>8. \A k \in 1..Len(vs) : vs[k] = us[k]
    <3>1. \A k \in 1..Len(vs) : k \in 1..Len(xs) \/ k = Len(xs) + 1
      BY <2>1, <2>7
    <3> QED
      BY <2>3, <2>5, <3>1
  <2>9. vs = us
    BY <2>5, <2>7, <2>8, SeqEqual
  <2> QED
    BY <2>9 DEF us
<1>4. w \in W /\ Len(w) \in {1, 2}
  BY <1>1
<1> HIDE DEF ws, vs, w
<1>5. FlattenSeq(ws) \in W /\ FlattenSeq(vs) = FlattenSeq(ws) \o w
  BY <1>2, <1>3, <1>4, FlattenAppend, FlattenType
<1>6. FlattenSeq(FlattenSeq(vs)) = FlattenSeq(FlattenSeq(ws)) \o FlattenSeq(w)
      /\ FlattenSeq(w) \in P /\ FlattenSeq(FlattenSeq(ws)) \in P
  BY <1>4, <1>5, FlattenShort, FlattenType
<1> QED
  BY <1>6 DEF AllBytes, ValueBytes, ws, vs, w

-----------------------------------------------------------------------------
(* The string is what was written.                                         *)

LEMMA AllBytesEmpty == AllBytes(<<>>) = <<>>
<1> DEFINE e == <<>>
           ws == [k \in DOMAIN e |-> Written(e[k])]
<1>1. DOMAIN e = 1..0 /\ Len(e) = 0 /\ e \in Seq({})
  OBVIOUS
<1>2. ws = e
  <2>1. ws \in [1..0 -> {}]
    BY <1>1
  <2> HIDE DEF ws
  <2>2. ws \in Seq({}) /\ Len(ws) = 0
    BY <2>1
  <2> QED
    BY <2>2
<1>3. FlattenSeq(e) = e
  BY <1>1 DEF FlattenSeq
<1> HIDE DEF ws
<1>4. FlattenSeq(FlattenSeq(ws)) = e
  BY <1>2, <1>3
<1> QED
  BY <1>4 DEF AllBytes, ws

(* The nodes and their counters, and while nothing went astray also the    *)
(* place of _cur and the string.                                           *)
StringInv ==
    /\ sent \in Seq(Values)
    /\ undefined \in BOOLEAN
    /\ Chain(se) /\ se.size = Len(AllBytes(sent))
    /\ ~se.astray => AtEnd(se) /\ ~undefined /\ toString(se) = AllBytes(sent)

LEMMA StringInit == Init => StringInv
<1> SUFFICES ASSUME Init PROVE StringInv
  OBVIOUS
<1>1. Chain(se) /\ AtEnd(se) /\ toString(se) = <<>>
  BY ChainStarts DEF Init
<1>2. sent = <<>> /\ sent \in Seq(Values) /\ undefined = FALSE /\ se.size = 0
  BY DEF Init
<1>3. AllBytes(sent) = <<>>
  BY <1>2, AllBytesEmpty
<1> QED
  BY <1>1, <1>2, <1>3 DEF StringInv

LEMMA StringWrite ==
    ASSUME StringInv, NEW x \in Values, Write(x)
    PROVE  StringInv'
<1> DEFINE w == Written(x)
           p == w[1]
           q == w[2]
           s == write(se, p)
           A == AllBytes(sent)
<1>1. sent' = Append(sent, x) /\ sent \in Seq(Values)
      /\ undefined \in BOOLEAN /\ Chain(se) /\ se.size = Len(A)
      /\ (~se.astray => AtEnd(se) /\ ~undefined /\ toString(se) = A)
  BY DEF Write, StringInv
<1>2. A \in Seq(Bytes) /\ ValueBytes(x) \in Seq(Bytes)
      /\ AllBytes(sent') = A \o ValueBytes(x)
  BY <1>1, AllBytesAppend
<1>3. w \in Seq(Seq(Bytes)) /\ Len(w) \in {1, 2}
  BY WrittenType, SerializeAssumption
<1>4. /\ Len(w) = 1 => p \in Seq(Bytes) /\ ValueBytes(x) = p
      /\ Len(w) = 2 => p \in Seq(Bytes) /\ q \in Seq(Bytes) /\ ValueBytes(x) = p \o q
  BY <1>3, FlattenShort DEF ValueBytes
<1>5. /\ se' = IF Len(w) = 1 THEN s ELSE write(s, q)
      /\ undefined' = (Outside(se, p) \/ (Len(w) = 2 /\ Outside(s, q)))
  BY DEF Write
<1>6. sent' \in Seq(Values) /\ undefined' \in BOOLEAN
  <2>1. sent' \in Seq(Values)
    BY <1>1
  <2>2. Outside(se, p) \in BOOLEAN /\ Outside(s, q) \in BOOLEAN
    BY DEF Outside
  <2> QED
    BY <2>1, <2>2, <1>5
<1> HIDE DEF A, w
<1>7. p \in Seq(Bytes)
  BY <1>3, <1>4
<1>8. /\ Chain(s) /\ s.size = Len(A) + Len(p)
      /\ se.astray => s.astray
  BY <1>1, <1>7, WriteKeepsChain
<1>9. ASSUME ~s.astray
      PROVE  AtEnd(s) /\ ~Outside(se, p) /\ toString(s) = A \o p
  <2>1. ~se.astray
    BY <1>8, <1>9
  <2> QED
    BY <1>1, <1>7, <1>9, <2>1, WriteAppends
<1> HIDE DEF p, q, s
<1>10. CASE Len(w) = 1
  <2>1. se' = s /\ (~Outside(se, p) => ~undefined') /\ AllBytes(sent') = A \o p
    <3>1. se' = s /\ AllBytes(sent') = A \o p
      BY <1>2, <1>4, <1>5, <1>10
    <3>2. ~(Len(w) = 2)
      BY <1>10
    <3> QED
      BY <1>5, <3>1, <3>2
  <2>2. Len(A \o p) = Len(A) + Len(p)
    BY <1>2, <1>7
  <2>3. (StringInv)' <=>
          /\ sent' \in Seq(Values)
          /\ undefined' \in BOOLEAN
          /\ Chain(se') /\ se'.size = Len(AllBytes(sent'))
          /\ ~se'.astray =>
                AtEnd(se') /\ ~undefined' /\ toString(se') = AllBytes(sent')
    BY DEF StringInv, Chain, AtEnd, AllBytes, toString
  <2> QED
    BY <1>6, <1>8, <1>9, <2>1, <2>2, <2>3
<1>11. CASE Len(w) = 2
  <2> DEFINE t == write(s, q)
  <2>1. se' = t /\ (~Outside(se, p) /\ ~Outside(s, q) => ~undefined')
        /\ q \in Seq(Bytes) /\ AllBytes(sent') = A \o (p \o q)
    <3>1. q \in Seq(Bytes) /\ AllBytes(sent') = A \o (p \o q)
      BY <1>2, <1>4, <1>11
    <3>2. ~(Len(w) = 1)
      BY <1>11
    <3> QED
      BY <1>5, <3>1, <3>2
  <2>2. A \o (p \o q) = (A \o p) \o q /\ Len((A \o p) \o q) = Len(A) + Len(p) + Len(q)
    BY <1>2, <1>7, <2>1
  <2>3. Chain(t) /\ t.size = s.size + Len(q) /\ (s.astray => t.astray)
    BY <1>8, <2>1, WriteKeepsChain
  <2>4. ASSUME ~t.astray
        PROVE  AtEnd(t) /\ ~Outside(se, p) /\ ~Outside(s, q)
               /\ toString(t) = (A \o p) \o q
    <3>1. ~s.astray
      BY <2>3, <2>4
    <3>2. AtEnd(s) /\ ~Outside(se, p) /\ toString(s) = A \o p
      BY <1>9, <3>1
    <3>3. AtEnd(t) /\ ~Outside(s, q) /\ toString(t) = toString(s) \o q
      BY <1>8, <2>1, <2>4, <3>2, WriteAppends
    <3> QED
      BY <3>2, <3>3
  <2> HIDE DEF t
  <2>5. (StringInv)' <=>
          /\ sent' \in Seq(Values)
          /\ undefined' \in BOOLEAN
          /\ Chain(se') /\ se'.size = Len(AllBytes(sent'))
          /\ ~se'.astray =>
                AtEnd(se') /\ ~undefined' /\ toString(se') = AllBytes(sent')
    BY DEF StringInv, Chain, AtEnd, AllBytes, toString
  <2>6. se'.size = Len(AllBytes(sent'))
    BY <1>8, <2>1, <2>2, <2>3
  <2> QED
    BY <1>6, <2>1, <2>2, <2>3, <2>4, <2>5, <2>6
<1> QED
  BY <1>3, <1>10, <1>11

LEMMA StringKept ==
    ASSUME StringInv, UNCHANGED <<se, sent, undefined>>
    PROVE  StringInv'
  BY DEF StringInv, Chain, AtEnd, AllBytes, toString

LEMMA StringStep == StringInv /\ [Next]_vars => StringInv'
<1> SUFFICES ASSUME StringInv, [Next]_vars PROVE StringInv'
  OBVIOUS
<1>1. ASSUME NEW x \in Values, Write(x) PROVE StringInv'
  BY <1>1, StringWrite
<1>2. CASE Load \/ Reset \/ Read \/ Over \/ UNCHANGED vars
           \/ \E x \in Values : ReadAborts(x)
  <2>1. UNCHANGED <<se, sent, undefined>>
    BY <1>2 DEF Load, Reset, Read, Over, ReadAborts, vars
  <2> QED
    BY <2>1, StringKept
<1> QED
  BY <1>1, <1>2 DEF Next

(* The sizes of the serializer are right after any sequence of writes, and *)
(* up to the first write that goes through _cur after a node was added     *)
(* (serialize.cpp:123) nothing is stored outside a node and toString()     *)
(* gives the bytes that were written, in order.                            *)
THEOREM StringIntact == Spec => []StringUntilAstray
<1>1. StringInv => StringUntilAstray
  <2>1. AllBytes(sent) = SentBytes
    BY DEF AllBytes, SentBytes
  <2> QED
    BY <2>1 DEF StringInv, StringUntilAstray, Chain
<1> QED
  BY <1>1, StringInit, StringStep, PTL DEF Spec

-----------------------------------------------------------------------------
(* A varint is read as it was written.                                     *)

(* The weight of the bit group k of a varint.                              *)
Weight(k) == TwoTo[k * (ByteBits - 1)]

LEMMA WeightIs ==
    /\ Weight(0) = 1 /\ Weight(1) = Half
    /\ \A k \in Nat : Weight(k) \in Nat \ {0}
    /\ \A k \in Nat : Weight(k + 1) = Weight(k) * Half
<1> DEFINE c == ByteBits - 1
<1>1. c \in Nat
  BY HalfAndBase
<1>2. Weight(0) = 1 /\ Weight(1) = Half
  <2>1. 0 * c = 0 /\ 1 * c = c
    BY <1>1
  <2> HIDE DEF c
  <2> QED
    BY <2>1, TwoToIs DEF Weight, Half, c
<1>3. \A k \in Nat : k * c \in Nat /\ (k + 1) * c = k * c + c
  BY <1>1
<1>4. \A k \in Nat : Weight(k) \in Nat \ {0}
  <2> TAKE k \in Nat
  <2>1. k * c \in Nat
    BY <1>3
  <2> QED
    BY <2>1, TwoToIs DEF Weight
<1>5. \A k \in Nat : Weight(k + 1) = Weight(k) * Half
  <2> TAKE k \in Nat
  <2>1. k * c \in Nat /\ (k + 1) * c = k * c + c
    BY <1>3
  <2>2. TwoTo[k * c + c] = TwoTo[k * c] * TwoTo[c]
    BY <1>1, <2>1, TwoToPlus
  <2> QED
    BY <2>1, <2>2 DEF Weight, Half
<1> QED
  BY <1>2, <1>4, <1>5

(* What the bytes of a varint say of the number.                           *)
Codes(b, v) ==
    /\ b \in Seq(Bytes) /\ Len(b) >= 1
    /\ b[Len(b)] < Half
    /\ \A j \in 1..(Len(b) - 1) : b[j] >= Half
    /\ v < Weight(Len(b))
    /\ \A k \in 1..Len(b) : b[k] % Half = (v \div Weight(k - 1)) % Half

LEMMA CodesOne ==
    ASSUME NEW v \in Nat, v < Half
    PROVE  Codes(<<v>>, v)
<1>1. v \in Bytes /\ Half \in Nat /\ v \in Int
  BY HalfAndBase
<1>2. <<v>> \in Seq(Bytes) /\ Len(<<v>>) = 1 /\ <<v>>[1] = v
  BY <1>1
<1>3. v \div Weight(0) = v
  <2>1. v = 1 * v + 0 /\ 0 \in 0..(1 - 1)
    OBVIOUS
  <2>2. v \div 1 = v
    OBVIOUS
  <2> QED
    BY <2>2, WeightIs
<1>4. v < Weight(1)
  BY WeightIs
<1>5. \A k \in 1..1 : k = 1 /\ k - 1 = 0
  OBVIOUS
<1> DEFINE b == <<v>>
<1>6. \A k \in 1..Len(b) : b[k] % Half = (v \div Weight(k - 1)) % Half
  <2> HIDE DEF b
  <2>1. b[1] = v /\ Len(b) = 1
    BY <1>2 DEF b
  <2> TAKE k \in 1..Len(b)
  <2>2. k = 1 /\ k - 1 = 0
    BY <2>1
  <2> QED
    BY <1>3, <2>1, <2>2
<1>7. \A j \in 1..(Len(b) - 1) : b[j] >= Half
  BY <1>2
<1> HIDE DEF b
<1> QED
  BY <1>2, <1>4, <1>6, <1>7 DEF Codes, b

LEMMA CodesMore ==
    ASSUME NEW v \in Nat, v >= Half, NEW c, Codes(c, v \div Half)
    PROVE  Codes(<<(v % Half) + Half>> \o c, v)
<1> DEFINE H == Half
           w == v \div H
           r == v % H
           d == r + H
           b == <<d>> \o c
           l == Len(c)
<1>1. H \in Nat \ {0} /\ H \in Nat /\ Bytes = 0..(2 * H - 1)
  BY HalfAndBase
<1>2. v = H * w + r /\ r \in 0..(H - 1) /\ w \in Nat
  <2>1. v \in Int /\ v \in Nat
    OBVIOUS
  <2> HIDE DEF H
  <2> QED
    BY <1>1, <2>1, Division
<1>3. /\ c \in Seq(Bytes) /\ l \in Nat /\ l >= 1 /\ c[l] < H
      /\ \A j \in 1..(l - 1) : c[j] >= H
      /\ w < Weight(l)
      /\ \A k \in 1..l : c[k] % H = (w \div Weight(k - 1)) % H
  BY DEF Codes
<1> HIDE DEF H, w, r
<1>4. d \in Bytes /\ d \in Nat /\ d >= H
  BY <1>1, <1>2
<1>5. d % H = r
  <2>1. d \in Int /\ 1 \in Int /\ d = H * 1 + r
    BY <1>1, <1>2
  <2> HIDE DEF d
  <2> DEFINE one == 1
  <2>2. one \in Int /\ d = H * one + r
    BY <2>1
  <2> HIDE DEF one
  <2> QED
    BY <1>1, <1>2, <2>1, <2>2, DivisionUnique
<1> HIDE DEF d
<1>6. /\ b \in Seq(Bytes) /\ Len(b) = l + 1 /\ b[1] = d
      /\ \A k \in 1..l : b[k + 1] = c[k]
  <2> HIDE DEF Bytes
  <2> QED
    BY <1>3, <1>4
<1> HIDE DEF b, l
<1>7. v < Weight(l + 1)
  <2> DEFINE W == Weight(l)
  <2>1. W \in Nat \ {0} /\ Weight(l + 1) = W * H
    BY <1>3, WeightIs DEF H
  <2>2. w + 1 <= W
    BY <1>2, <1>3, <2>1
  <2> HIDE DEF W
  <2>3. H * (w + 1) <= W * H
    BY <1>1, <1>2, <2>1, <2>2
  <2>4. H * (w + 1) = H * w + H
    BY <1>1, <1>2
  <2> DEFINE x == H * w
             y == W * H
             z == H * (w + 1)
  <2>5. x \in Int /\ y \in Int /\ z \in Int /\ z <= y /\ z = x + H /\ v = x + r
    BY <1>1, <1>2, <2>1, <2>3, <2>4
  <2> HIDE DEF x, y, z
  <2>6. v < y
    BY <1>1, <1>2, <2>5
  <2> QED
    BY <2>1, <2>6 DEF y
<1>8. ASSUME NEW k \in 1..(l + 1)
      PROVE  b[k] % H = (v \div Weight(k - 1)) % H
  <2>1. CASE k = 1
    <3>1. Weight(k - 1) = 1 /\ v \div 1 = v
      BY <2>1, WeightIs
    <3>2. b[k] % H = r
      BY <1>5, <1>6, <2>1
    <3> QED
      BY <3>1, <3>2 DEF r
  <2>2. CASE k # 1
    <3> DEFINE m == k - 1
    <3>1. m \in 1..l /\ m - 1 \in Nat /\ k = m + 1 /\ (m - 1) + 1 = m
      BY <1>3, <2>2
    <3> HIDE DEF m
    <3>2. b[k] % H = (w \div Weight(m - 1)) % H
      BY <1>3, <1>6, <3>1
    <3>3. Weight(m - 1) \in Nat \ {0} /\ Weight(m) = Weight(m - 1) * H
      BY <3>1, WeightIs DEF H
    <3> DEFINE W == Weight(m - 1)
    <3>4. (v \div H) \div W = v \div (H * W)
      <4> HIDE DEF W
      <4>1. W \in Nat \ {0}
        BY <3>3 DEF W
      <4> QED
        BY <1>1, <4>1, DivDiv
    <3>5. H * W = W * H
      BY <1>1, <3>3
    <3> QED
      BY <3>1, <3>2, <3>3, <3>4, <3>5 DEF w, m
  <2> QED
    BY <2>1, <2>2
<1>9. b[l + 1] < H /\ \A j \in 1..((l + 1) - 1) : b[j] >= H
  <2>1. b[l + 1] = c[l]
    BY <1>3, <1>6
  <2>2. ASSUME NEW j \in 1..l PROVE b[j] >= H
    <3>1. CASE j = 1
      BY <1>4, <1>6, <3>1
    <3>2. CASE j # 1
      <4>1. j - 1 \in 1..(l - 1) /\ j - 1 \in 1..l /\ (j - 1) + 1 = j
        BY <1>3, <3>2
      <4>2. b[j] = c[j - 1]
        BY <1>6, <4>1
      <4> QED
        BY <1>3, <4>1, <4>2
    <3> QED
      BY <3>1, <3>2
  <2>3. (l + 1) - 1 = l
    BY <1>3
  <2> QED
    BY <1>3, <2>1, <2>2, <2>3
<1>10. Codes(b, v)
  <2>1. Len(b) = l + 1 /\ Len(b) >= 1
    BY <1>3, <1>6
  <2> QED
    BY <1>6, <1>7, <1>8, <1>9, <2>1 DEF Codes, H
<1> QED
  BY <1>10 DEF b, d, r, H

LEMMA VarCodes ==
    \A v \in Nat : Codes(VarBytes[v], v)
<1> DEFINE P == {k \in Nat : \A v \in Nat : v < k => Codes(VarBytes[v], v)}
<1>1. 0 \in P
  OBVIOUS
<1>2. ASSUME NEW k \in Nat, k \in P PROVE k + 1 \in P
  <2> SUFFICES ASSUME NEW v \in Nat, v < k + 1
               PROVE  Codes(VarBytes[v], v)
    OBVIOUS
  <2>1. CASE v < Half
    <3>1. VarBytes[v] = <<v>>
      BY <2>1, VarBytesIs
    <3> QED
      BY <2>1, <3>1, CodesOne
  <2>2. CASE ~(v < Half)
    <3> DEFINE w == v \div Half
    <3>1. w \in Nat /\ w < v /\ v >= Half
      <4> DEFINE H == Half
                 r == v % H
                 q == v \div H
      <4>1. H \in Nat \ {0} /\ H >= 2 /\ v \in Int /\ v >= H
        BY <2>2, HalfAndBase
      <4> HIDE DEF H
      <4>2. v = H * q + r /\ r \in 0..(H - 1) /\ q \in Nat
        BY <4>1, Division
      <4> HIDE DEF q, r
      <4>3. q # 0
        BY <4>1, <4>2
      <4>4. H * q >= 2 * q
        BY <4>1, <4>2
      <4>5. q < v
        BY <4>1, <4>2, <4>3, <4>4
      <4> QED
        BY <4>1, <4>2, <4>5 DEF q, H
    <3>2. VarBytes[v] = <<(v % Half) + Half>> \o VarBytes[w]
      BY <2>2, VarBytesIs
    <3> HIDE DEF w
    <3>3. w < k
      BY <3>1
    <3>4. Codes(VarBytes[w], w)
      BY <1>2, <3>1, <3>3
    <3> QED
      BY <3>1, <3>2, <3>4, CodesMore DEF w
  <2> QED
    BY <2>1, <2>2
<1> HIDE DEF P
<1>3. Nat \subseteq P
  BY <1>1, <1>2, Induction
<1> QED
  <2> TAKE v \in Nat
  <2>1. v + 1 \in P /\ v < v + 1
    BY <1>3, v + 1 \in Nat
  <2> QED
    BY <2>1 DEF P

LEMMA VarShort ==
    \A m \in Nat : \A v \in Nat : v < Weight(m + 1) => Len(VarBytes[v]) <= m + 1
<1> DEFINE P == {m \in Nat : \A v \in Nat : v < Weight(m + 1) => Len(VarBytes[v]) <= m + 1}
<1>0. \A v \in Nat : v < Half => Len(VarBytes[v]) = 1
  <2> TAKE v \in Nat
  <2> HAVE v < Half
  <2>1. VarBytes[v] = <<v>>
    BY VarBytesIs
  <2> QED
    BY <2>1
<1>1. 0 \in P
  <2>1. Weight(0 + 1) = Half
    BY WeightIs
  <2>2. ASSUME NEW v \in Nat, v < Weight(0 + 1)
        PROVE  Len(VarBytes[v]) <= 0 + 1
    <3>1. Len(VarBytes[v]) = 1
      BY <1>0, <2>1, <2>2
    <3> QED
      BY <3>1
  <2> QED
    BY <2>2
<1>2. ASSUME NEW m \in Nat, m \in P PROVE m + 1 \in P
  <2> SUFFICES ASSUME NEW v \in Nat, v < Weight((m + 1) + 1)
               PROVE  Len(VarBytes[v]) <= (m + 1) + 1
    OBVIOUS
  <2>1. CASE v < Half
    <3>1. Len(VarBytes[v]) = 1
      BY <1>0, <2>1
    <3> QED
      BY <3>1
  <2>2. CASE ~(v < Half)
    <3> DEFINE W == Weight(m + 1)
               H == Half
               w == v \div H
    <3>1. W \in Nat \ {0} /\ Weight((m + 1) + 1) = W * H /\ m + 1 \in Nat
      BY WeightIs, m + 1 \in Nat
    <3>2. H \in Nat \ {0}
      BY HalfAndBase
    <3>3. VarBytes[v] = <<(v % H) + H>> \o VarBytes[w]
      BY <2>2, VarBytesIs
    <3>4. W * H = H * W
      BY <3>1, <3>2
    <3>5. v < H * W /\ W \in Nat
      BY <3>1, <3>4
    <3> HIDE DEF W, H
    <3>6. w < W
      BY <3>2, <3>5, DivLess
    <3>7. w \in Nat /\ v % H \in Int
      <4>1. v \in Int /\ v \in Nat
        OBVIOUS
      <4>2. w \in Nat /\ v % H \in 0..(H - 1)
        BY <3>2, <4>1, Division
      <4> QED
        BY <3>2, <4>2
    <3> HIDE DEF w
    <3>8. Len(VarBytes[w]) <= m + 1 /\ Len(VarBytes[w]) \in Nat
      <4>1. VarBytes[w] \in Seq(Bytes)
        BY <3>7, VarBytesIs
      <4>2. Len(VarBytes[w]) <= m + 1
        BY <1>2, <3>6, <3>7 DEF W
      <4> QED
        BY <4>1, <4>2
    <3>9. Len(VarBytes[v]) = 1 + Len(VarBytes[w])
      <4> DEFINE d == (v % H) + H
                 c == VarBytes[w]
      <4>1. d \in Int /\ c \in Seq(Int)
        <5>1. c \in Seq(Bytes) /\ Bytes \subseteq Int
          BY <3>7, VarBytesIs, HalfAndBase
        <5>2. d \in Int
          BY <3>2, <3>7
        <5> HIDE DEF c
        <5> QED
          BY <5>1, <5>2, SeqMonotonic
      <4> HIDE DEF d, c
      <4>2. Len(<<d>> \o c) = 1 + Len(c)
        BY <4>1
      <4> QED
        BY <3>3, <4>2 DEF d, c
    <3> QED
      BY <3>8, <3>9
  <2> QED
    BY <2>1, <2>2
<1> HIDE DEF P
<1>3. Nat \subseteq P
  BY <1>1, <1>2, Induction
<1> QED
  BY <1>3 DEF P

LEMMA GroupsEnough ==
    ASSUME NEW n \in Nat \ {0}
    PROVE  Groups(n) \in Nat \ {0} /\ Size(n) <= Weight(Groups(n))
<1> DEFINE c == ByteBits - 1
           y == n * ByteBits
           g == (y + c - 1) \div c
           e == (y + c - 1) % c
<1>1. c \in Nat \ {0} /\ y \in Nat \ {0} /\ ByteBits \in Nat \ {0}
  BY SerializeAssumption
<1>2. Groups(n) = g
  <2>1. n * ByteBits + ByteBits - 2 = y + c - 1
    BY <1>1, SerializeAssumption
  <2> QED
    BY <2>1 DEF Groups
<1> HIDE DEF c, y
<1>3. y + c - 1 = c * g + e /\ e \in 0..(c - 1) /\ g \in Nat
  <2>1. y + c - 1 \in Nat /\ y + c - 1 \in Int
    BY <1>1
  <2> QED
    BY <1>1, <2>1, Division
<1> HIDE DEF g, e
<1>4. c * g >= y /\ g # 0 /\ c * g = g * c /\ g * c \in Nat
  <2>1. c * g \in Nat /\ c * g = g * c
    BY <1>1, <1>3
  <2>2. c * g >= y
    BY <1>1, <1>3, <2>1
  <2> QED
    BY <1>1, <1>3, <2>1, <2>2
<1>5. TwoTo[y] <= TwoTo[g * c]
  BY <1>1, <1>4, TwoToGrows
<1> QED
  BY <1>2, <1>3, <1>4, <1>5 DEF Size, Weight, y, c

LEMMA MinIs ==
    ASSUME NEW T, NEW m \in T, T \subseteq Int, \A y \in T : m <= y
    PROVE  Min(T) = m
<1>1. Min(T) \in T /\ \A y \in T : Min(T) <= y
  BY DEF Min
<1> DEFINE k == Min(T)
<1>2. k \in T /\ k <= m /\ m <= k
  BY <1>1
<1> HIDE DEF k
<1>3. k \in Int /\ m \in Int
  BY <1>2
<1>4. k = m
  BY <1>2, <1>3
<1> QED
  BY <1>4 DEF k

(* The bytes of b, between others.                                         *)
Within(s, p, b) ==
    /\ s \in Seq(Bytes) /\ b \in Seq(Bytes)
    /\ p \in Nat /\ p + Len(b) <= Len(s)
    /\ \A i \in 1..Len(b) : s[p + i] = b[i]

LEMMA VarEndIs ==
    ASSUME NEW s, NEW p, NEW n \in Nat \ {0}, NEW v \in 0..(Size(n) - 1),
           Within(s, p, VarBytes[v])
    PROVE  VarEnd(s, p, n) = p + Len(VarBytes[v])
<1> DEFINE b == VarBytes[v]
           l == Len(b)
           g == Groups(n)
           T == {p + g} \cup { q \in (p + 1)..Len(s) : s[q] < Half }
<1>1. v \in Nat /\ v < Size(n) /\ Size(n) \in Nat
  BY SizePositive
<1>2. Codes(b, v)
  BY <1>1, VarCodes
<1>3. g \in Nat \ {0} /\ Size(n) <= Weight(g) /\ Weight(g) \in Nat
  BY GroupsEnough, WeightIs
<1>4. l \in Nat /\ l >= 1 /\ b[l] < Half /\ \A j \in 1..(l - 1) : b[j] >= Half
  BY <1>2 DEF Codes
<1>5. l <= g
  <2> DEFINE m == g - 1
  <2>1. m \in Nat /\ m + 1 = g
    BY <1>3
  <2>2. v < Weight(m + 1)
    BY <1>1, <1>3, <2>1
  <2> HIDE DEF m, g
  <2>3. Len(VarBytes[v]) <= m + 1
    BY <1>1, <2>1, <2>2, VarShort
  <2> QED
    BY <2>1, <2>3
<1>6. p \in Nat /\ Len(s) \in Nat /\ p + l <= Len(s)
      /\ (\A i \in 1..l : s[p + i] = b[i])
      /\ \A i \in 1..Len(s) : s[i] \in Nat
  BY HalfAndBase, ElementOfSeq DEF Within
<1> HIDE DEF b, l, g
<1>7. p + l \in T
  <2>1. s[p + l] = b[l] /\ p + l \in (p + 1)..Len(s)
    BY <1>4, <1>6
  <2> QED
    BY <1>4, <2>1
<1>8. \A y \in T : p + l <= y
  <2> TAKE y \in T
  <2>1. CASE y = p + g
    BY <2>1, <1>3, <1>4, <1>5, <1>6
  <2>2. CASE y \in (p + 1)..Len(s) /\ s[y] < Half
    <3> SUFFICES ASSUME y < p + l PROVE FALSE
      BY <2>2, <1>4, <1>6
    <3>1. y - p \in 1..(l - 1) /\ y - p \in 1..l /\ p + (y - p) = y
      BY <2>2, <1>4, <1>6
    <3>2. s[y] >= Half
      BY <3>1, <1>4, <1>6
    <3>3. s[y] \in Nat /\ Half \in Nat
      BY <2>2, <1>6, HalfAndBase
    <3> QED
      BY <2>2, <3>2, <3>3
  <2> QED
    BY <2>1, <2>2
<1>9. T \subseteq Int
  BY <1>3, <1>6
<1> HIDE DEF T
<1>10. Min(T) = p + l
  BY <1>7, <1>8, <1>9, MinIs
<1> QED
  BY <1>10 DEF VarEnd, T, g, l, b

LEMMA VarValueIs ==
    ASSUME NEW n \in Nat, NEW v \in 0..(Size(n) - 1)
    PROVE  VarValue(VarBytes[v], n) = v
<1> DEFINE b == VarBytes[v]
           l == Len(b)
           H == Half
           f == [k \in 0..l |-> v % Weight(k)]
           ret == CHOOSE ret : ret = [k \in 0..Len(b) |->
                     IF k = 0 THEN 0
                     ELSE ret[k - 1] + (b[k] % Half) * TwoTo[(k - 1) * (ByteBits - 1)]]
<1>1. v \in Nat /\ v \in Int /\ v < Size(n) /\ Size(n) \in Nat \ {0}
  BY SizePositive
<1>2. Codes(b, v)
  BY <1>1, VarCodes
<1>3. l \in Nat /\ v < Weight(l) /\ H \in Nat \ {0}
      /\ \A k \in 1..l : b[k] % H = (v \div Weight(k - 1)) % H
  BY <1>2, HalfAndBase DEF Codes
<1>4. VarValue(b, n) = ret[l] % Size(n)
  BY DEF VarValue
<1> HIDE DEF b, l, H
<1>5. f[0] = 0
  <2>1. v % 1 = 0
    BY <1>1
  <2> QED
    BY <1>3, <2>1, WeightIs
<1>6. \A k \in 1..l : f[k] = f[k - 1] + (b[k] % H) * Weight(k - 1)
  <2> TAKE k \in 1..l
  <2> DEFINE W == Weight(k - 1)
  <2>1. k - 1 \in Nat /\ k - 1 \in 0..l /\ k \in 0..l /\ (k - 1) + 1 = k
    BY <1>3
  <2>2. W \in Nat \ {0} /\ Weight(k) = W * H
    BY <2>1, WeightIs DEF H
  <2>3. b[k] % H = (v \div W) % H
    BY <1>3
  <2> HIDE DEF W
  <2>4. v % (W * H) = (v % W) + ((v \div W) % H) * W
    BY <1>1, <1>3, <2>2, DivDiv
  <2>5. f[k] = v % (W * H) /\ f[k - 1] = v % W
    BY <2>1, <2>2 DEF W
  <2> HIDE DEF f
  <2> QED
    BY <2>3, <2>4, <2>5 DEF W
<1>7. f = [k \in 0..l |-> IF k = 0 THEN 0
             ELSE f[k - 1] + (b[k] % Half) * TwoTo[(k - 1) * (ByteBits - 1)]]
  <2>1. f = [k \in 0..l |-> f[k]]
    OBVIOUS
  <2>2. \A k \in 0..l : k # 0 => k \in 1..l
    BY <1>3
  <2> HIDE DEF f
  <2>3. \A k \in 0..l : f[k] = IF k = 0 THEN 0
             ELSE f[k - 1] + (b[k] % Half) * TwoTo[(k - 1) * (ByteBits - 1)]
    BY <1>5, <1>6, <2>2 DEF Weight, H
  <2> QED
    BY <2>1, <2>3
<1> HIDE DEF f
<1>8. ret = [k \in 0..l |-> IF k = 0 THEN 0
             ELSE ret[k - 1] + (b[k] % Half) * TwoTo[(k - 1) * (ByteBits - 1)]]
  BY <1>7 DEF l
<1> HIDE DEF ret
<1>9. ret[l] = f[l]
  <2> DEFINE P == {k \in Nat : k <= l => ret[k] = f[k]}
  <2>1. 0 \in P
    BY <1>3, <1>5, <1>8
  <2>2. ASSUME NEW k \in Nat, k \in P PROVE k + 1 \in P
    <3> SUFFICES ASSUME k + 1 <= l PROVE ret[k + 1] = f[k + 1]
      OBVIOUS
    <3>1. k + 1 \in 0..l /\ k + 1 \in 1..l /\ k + 1 # 0 /\ (k + 1) - 1 = k
      BY <1>3
    <3>2. ret[k + 1] = ret[k] + (b[k + 1] % Half) * TwoTo[k * (ByteBits - 1)]
      BY <1>8, <3>1
    <3>3. f[k + 1] = f[k] + (b[k + 1] % Half) * TwoTo[k * (ByteBits - 1)]
      BY <1>6, <3>1 DEF Weight, H
    <3>4. ret[k] = f[k]
      BY <2>2, <3>1, <1>3
    <3> QED
      BY <3>2, <3>3, <3>4
  <2> HIDE DEF P
  <2>3. l \in P
    BY <1>3, <2>1, <2>2, Induction
  <2> QED
    BY <2>3 DEF P
<1>10. f[l] = v
  <2> DEFINE W == Weight(l)
  <2>1. W \in Nat \ {0} /\ v < W
    BY <1>3, WeightIs
  <2>2. f[l] = v % W
    BY <1>3 DEF f
  <2> HIDE DEF W
  <2> QED
    BY <1>1, <2>1, <2>2, DivSmall
<1>11. v % Size(n) = v
  <2> DEFINE W == Size(n)
  <2>1. W \in Nat \ {0} /\ v < W
    BY <1>1
  <2> HIDE DEF W
  <2> QED
    BY <1>1, <2>1, DivSmall DEF W
<1> QED
  BY <1>4, <1>9, <1>10, <1>11 DEF b

LEMMA FixedValueIs ==
    ASSUME NEW n \in Nat, NEW v \in 0..(Size(n) - 1), LittleEndian
    PROVE  FixedValue(FixedBytes(v, n)) = v
<1> DEFINE b == FixedBytes(v, n)
           f == [k \in 0..n |-> v \div Size(n - k)]
           ret == CHOOSE ret : ret = [k \in 0..Len(b) |->
                     IF k = 0 THEN 0 ELSE ret[k - 1] * Base + b[k]]
<1>1. v \in Nat /\ v \in Int /\ v < Size(n) /\ Size(n) \in Nat \ {0}
  BY SizePositive
<1>2. Len(b) = n /\ \A k \in 1..n : b[k] = (v \div Size(n - k)) % Base
  <2>1. Len(b) = n
    BY <1>1, FixedBytesType
  <2> QED
    BY <2>1 DEF FixedBytes
<1>3. FixedValue(b) = ret[n]
  BY <1>2 DEF FixedValue
<1> HIDE DEF b
<1>4. f[0] = 0
  <2>1. n - 0 = n
    OBVIOUS
  <2>2. f[0] = v \div Size(n)
    BY <2>1
  <2> DEFINE W == Size(n)
  <2>3. W \in Nat \ {0} /\ v < W
    BY <1>1
  <2> HIDE DEF W, f
  <2>4. v \div W = 0
    BY <1>1, <2>3, DivSmall
  <2> QED
    BY <2>2, <2>4 DEF W
<1>5. \A k \in 1..n : f[k] = f[k - 1] * Base + b[k]
  <2> TAKE k \in 1..n
  <2> DEFINE W == Size(n - k)
             B == Base
             q == v \div W
  <2>1. n - k \in Nat /\ k \in 0..n /\ k - 1 \in 0..n /\ n - (k - 1) = (n - k) + 1
    OBVIOUS
  <2>2. W \in Nat \ {0} /\ Size((n - k) + 1) = W * B
    BY <2>1, SizePositive, SizeStep
  <2>3. B \in Nat \ {0}
    BY HalfAndBase
  <2>4. f[k] = q /\ f[k - 1] = v \div Size((n - k) + 1) /\ b[k] = q % B
    BY <1>2, <2>1
  <2> HIDE DEF f, W, B
  <2>5. f[k - 1] = q \div B /\ q \in Nat
    <3>1. (v \div W) \div B = v \div (W * B)
      BY <1>1, <2>2, <2>3, DivDiv
    <3>2. q \in Nat
      BY <1>1, <2>2, Division
    <3> QED
      BY <2>2, <2>4, <3>1, <3>2
  <2> HIDE DEF q
  <2>6. q = B * (q \div B) + (q % B) /\ q \div B \in Int
    BY <2>3, <2>5, q \in Int, Division
  <2>7. (q \div B) * B = B * (q \div B)
    BY <2>3, <2>6
  <2> QED
    BY <2>4, <2>5, <2>6, <2>7 DEF B
<1>6. f = [k \in 0..n |-> IF k = 0 THEN 0 ELSE f[k - 1] * Base + b[k]]
  <2>1. f = [k \in 0..n |-> f[k]]
    OBVIOUS
  <2>2. \A k \in 0..n : k # 0 => k \in 1..n
    OBVIOUS
  <2> HIDE DEF f
  <2>3. \A k \in 0..n : f[k] = IF k = 0 THEN 0 ELSE f[k - 1] * Base + b[k]
    BY <1>4, <1>5, <2>2
  <2> QED
    BY <2>1, <2>3
<1> HIDE DEF f
<1>7. ret = [k \in 0..n |-> IF k = 0 THEN 0 ELSE ret[k - 1] * Base + b[k]]
  BY <1>2, <1>6
<1> HIDE DEF ret
<1>8. ret[n] = f[n]
  <2> DEFINE P == {k \in Nat : k <= n => ret[k] = f[k]}
  <2>1. 0 \in P
    BY <1>4, <1>7
  <2>2. ASSUME NEW k \in Nat, k \in P PROVE k + 1 \in P
    <3> SUFFICES ASSUME k + 1 <= n PROVE ret[k + 1] = f[k + 1]
      OBVIOUS
    <3>1. k + 1 \in 0..n /\ k + 1 \in 1..n /\ k + 1 # 0 /\ (k + 1) - 1 = k
      OBVIOUS
    <3>2. ret[k + 1] = ret[k] * Base + b[k + 1]
      BY <1>7, <3>1
    <3>3. f[k + 1] = f[k] * Base + b[k + 1]
      BY <1>5, <3>1
    <3>4. ret[k] = f[k]
      BY <2>2, <3>1
    <3> QED
      BY <3>2, <3>3, <3>4
  <2> HIDE DEF P
  <2>3. n \in P
    BY <2>1, <2>2, Induction
  <2> QED
    BY <2>3 DEF P
<1>9. f[n] = v
  <2>1. n - n = 0 /\ n \in 0..n /\ v \div 1 = v /\ 0 * ByteBits = 0
    BY <1>1, SerializeAssumption
  <2>2. Size(0) = 1
    BY <2>1, TwoToIs DEF Size
  <2>3. f[n] = v \div Size(n - n)
    BY <2>1 DEF f
  <2> QED
    BY <2>1, <2>2, <2>3
<1> QED
  BY <1>3, <1>8, <1>9 DEF b

LEMMA ZigZagBack ==
    ASSUME NEW n \in Nat \ {0},
           NEW v \in -(Size(n) \div 2)..(Size(n) \div 2 - 1)
    PROVE  decodeZigZag(encodeZigZag(v, n), n) = v
<1> DEFINE S == Size(n)
           h == S \div 2
           a == IF v < 0 THEN -v * 2 - 1 ELSE v * 2
<1>1. S \in Nat \ {0} /\ S \in Int
  BY SizePositive
<1>2. encodeZigZag(v, n) = a % S
  BY DEF encodeZigZag
<1> HIDE DEF S
<1>3. h \in Int /\ 2 * h <= S
  BY <1>1
<1>4. v \in -h..(h - 1)
  BY DEF S
<1> HIDE DEF h
<1>5. v \in Int /\ a \in Nat /\ a < S
  BY <1>1, <1>3, <1>4
<1>6. a % S = a
  <2> HIDE DEF a
  <2> QED
    BY <1>1, <1>5, DivSmall
<1>7. decodeZigZag(a, n) = v
  <2>1. CASE v < 0
    <3>1. a = -v * 2 - 1
      BY <2>1
    <3>2. a % 2 = 1 /\ a \div 2 = -v - 1
      BY <3>1, <1>5
    <3> QED
      BY <3>2, <1>5 DEF decodeZigZag
  <2>2. CASE ~(v < 0)
    <3>1. a = v * 2
      BY <2>2
    <3>2. a % 2 = 0 /\ a \div 2 = v
      BY <3>1, <1>5
    <3> QED
      BY <3>2, <1>5 DEF decodeZigZag
  <2> QED
    BY <2>1, <2>2
<1> QED
  BY <1>2, <1>6, <1>7

LEMMA SignBack ==
    ASSUME NEW v \in -Half..(Half - 1)
    PROVE  ToSigned(v % Base, 1) = v
<1>1. Half \in Nat /\ Half >= 2 /\ Base = 2 * Half
  BY HalfAndBase
<1>2. Size(1) = Base
  <2>1. 1 * ByteBits = ByteBits
    BY SerializeAssumption
  <2> QED
    BY <2>1 DEF Size, Base
<1> DEFINE H == Half
           B == Base
           u == v % B
<1>3. v \in -H..(H - 1) /\ H \in Nat /\ H >= 2 /\ B = 2 * H /\ B \in Nat \ {0} /\ v \in Int
  BY <1>1
<1> HIDE DEF H, B
<1>4. u = IF v < 0 THEN v + B ELSE v
  <2>1. CASE v < 0
    <3> DEFINE r == v + B
               q == -1
    <3>1. q \in Int /\ r \in 0..(B - 1) /\ v = B * q + r
      BY <1>3, <2>1
    <3> HIDE DEF r, q
    <3>2. v % B = r
      BY <1>3, <3>1, DivisionUnique
    <3> QED
      BY <2>1, <3>2 DEF r
  <2>2. CASE ~(v < 0)
    <3>1. v \in Nat /\ v < B
      BY <1>3, <2>2
    <3>2. v % B = v
      BY <1>3, <3>1, DivSmall
    <3> QED
      BY <2>2, <3>2
  <2> QED
    BY <2>1, <2>2
<1> HIDE DEF u
<1>5. ToSigned(u, 1) = IF 2 * u < B THEN u ELSE u - B
  BY <1>2 DEF ToSigned, B
<1>6. ToSigned(u, 1) = v
  BY <1>3, <1>4, <1>5
<1> QED
  BY <1>6 DEF u, B

-----------------------------------------------------------------------------
(* Any value is read as it was written, wherever it lies in the string.    *)

LEMMA SubSeqWithin ==
    ASSUME NEW s, NEW p, NEW b, Within(s, p, b)
    PROVE  SubSeq(s, p + 1, p + Len(b)) = b
<1> DEFINE l == Len(b)
           u == SubSeq(s, p + 1, p + l)
<1>1. s \in Seq(Bytes) /\ b \in Seq(Bytes) /\ p \in Nat /\ l \in Nat
      /\ p + l <= Len(s) /\ \A i \in 1..l : s[p + i] = b[i]
  BY DEF Within
<1> HIDE DEF Bytes
<1>2. u \in Seq(Bytes) /\ Len(u) = l /\ \A i \in 1..l : u[i] = s[p + i]
  <2> HIDE DEF l
  <2>1. \A i \in (p + 1)..(p + l) : i \in 1..Len(s) /\ s[i] \in Bytes
    BY <1>1
  <2> DEFINE m == p + 1
             n == p + l
  <2>2. m \in Int /\ n \in Int /\ \A i \in m..n : s[i] \in Bytes
    BY <1>1, <2>1
  <2>3. m + l = n + 1 /\ m >= 1
    BY <1>1
  <2> HIDE DEF m, n
  <2>4. SubSeq(s, m, n) \in Seq(Bytes)
        /\ Len(SubSeq(s, m, n)) = (IF m <= n THEN n - m + 1 ELSE 0)
        /\ \A i \in 1..(n - m + 1) : SubSeq(s, m, n)[i] = s[m + i - 1]
    BY <2>2, SubSeqProperties
  <2>5. n - m + 1 = l /\ (m <= n \/ l = 0)
    BY <1>1, <2>2, <2>3
  <2>6. \A i \in 1..l : m + i - 1 = p + i
    BY <1>1 DEF m
  <2> QED
    BY <2>2, <2>4, <2>5, <2>6, <1>1 DEF m, n
<1> HIDE DEF u, l
<1>3. \A i \in 1..Len(u) : u[i] = b[i]
  BY <1>1, <1>2
<1>4. Len(u) = Len(b)
  BY <1>2 DEF l
<1>5. u = b
  BY <1>1, <1>2, <1>3, <1>4, SeqEqual
<1> QED
  BY <1>5 DEF u, l

LEMMA ShortRange ==
    ASSUME NEW x, IsValue(x), x.kind = "string"
    PROVE  Len(x.val) \in 0..(Size(x.width) - 1)
<1>1. x.val \in Seq(Bytes) /\ Len(x.val) < Size(x.width) /\ x.width \in Nat
  BY ValueTypes DEF IsValue
<1>2. Size(x.width) \in Nat /\ Len(x.val) \in Nat
  BY <1>1, SizePositive
<1> QED
  BY <1>1, <1>2

(* The bytes of a value, by its kind.                                      *)
LEMMA BytesOfKinds ==
    ASSUME NEW x, IsValue(x)
    PROVE  /\ ValueBytes(x) \in Seq(Bytes)
           /\ x.kind \in {"byte", "sbyte"} => ValueBytes(x) = <<x.val % Base>>
           /\ x.kind = "var" => ValueBytes(x) = VarBytes[x.val]
           /\ x.kind = "svar" =>
                 ValueBytes(x) = VarBytes[encodeZigZag(x.val, x.width)]
           /\ x.kind = "fixed" => ValueBytes(x) = FixedBytes(x.val, x.width)
           /\ x.kind = "sfixed" =>
                 ValueBytes(x) = FixedBytes(encodeZigZag(x.val, x.width), x.width)
           /\ x.kind = "string" => ValueBytes(x) = VarBytes[Len(x.val)] \o x.val
<1> DEFINE w == Written(x)
<1>1. w \in Seq(Seq(Bytes)) /\ Len(w) \in {1, 2}
  BY WrittenType
<1>2. ValueBytes(x) = FlattenSeq(w)
  BY DEF ValueBytes
<1> HIDE DEF w, Bytes
<1>3. /\ FlattenSeq(w) \in Seq(Bytes)
      /\ Len(w) = 1 => FlattenSeq(w) = w[1]
      /\ Len(w) = 2 => FlattenSeq(w) = w[1] \o w[2]
  BY <1>1, FlattenShort
<1>4. \A p : Len(<<p>>) = 1 /\ <<p>>[1] = p
  OBVIOUS
<1>5. \A p : w = <<p>> => ValueBytes(x) = p
  BY <1>2, <1>3, <1>4
<1>6. x.kind \in {"byte", "sbyte"} => w = <<<<x.val % Base>>>>
  BY DEF w, Written
<1>7. x.kind = "var" => w = <<VarBytes[x.val]>>
  BY DEF w, Written
<1>8. x.kind = "svar" => w = <<VarBytes[encodeZigZag(x.val, x.width)]>>
  BY DEF w, Written
<1>9. x.kind = "fixed" => w = <<FixedBytes(x.val, x.width)>>
  BY DEF w, Written
<1>10. x.kind = "sfixed" =>
          w = <<FixedBytes(encodeZigZag(x.val, x.width), x.width)>>
  BY DEF w, Written
<1>11. ASSUME x.kind = "string" PROVE ValueBytes(x) = VarBytes[Len(x.val)] \o x.val
  <2> DEFINE q == x.val
             p == VarBytes[Len(q)]
  <2>1. q \in Seq(Bytes) /\ p \in Seq(Bytes)
    BY <1>11, ValueTypes, VarBytesIs, Len(q) \in Nat
  <2>2. w = <<p>> \o (IF q = <<>> THEN <<>> ELSE <<q>>)
    BY <1>11 DEF w, Written
  <2> DEFINE P == Seq(Bytes)
  <2>3. p \in P /\ q \in P /\ p \o <<>> = p
    BY <2>1, ConcatEmptySeq
  <2> HIDE DEF p, q, P
  <2>4. CASE q = <<>>
    <3>1. w = <<p>>
      BY <2>2, <2>3, <2>4
    <3>2. ValueBytes(x) = p
      BY <1>5, <3>1
    <3>3. p \o q = p
      BY <2>3, <2>4
    <3> QED
      BY <3>2, <3>3 DEF p, q
  <2>5. CASE q # <<>>
    <3>1. w = <<p>> \o <<q>>
      BY <2>2, <2>5
    <3>2. Len(<<p>> \o <<q>>) = 2 /\ (<<p>> \o <<q>>)[1] = p /\ (<<p>> \o <<q>>)[2] = q
      BY <2>3
    <3> QED
      BY <1>2, <1>3, <3>1, <3>2 DEF p, q
  <2> QED
    BY <2>4, <2>5
<1>12. ValueBytes(x) \in Seq(Bytes)
  BY <1>2, <1>3
<1> HIDE DEF w
<1> QED
  BY <1>5, <1>6, <1>7, <1>8, <1>9, <1>10, <1>11, <1>12

LEMMA WithinParts ==
    ASSUME NEW s, NEW p, NEW a \in Seq(Bytes), NEW b \in Seq(Bytes),
           Within(s, p, a \o b)
    PROVE  Within(s, p, a) /\ Within(s, p + Len(a), b)
           /\ Len(a \o b) = Len(a) + Len(b)
<1> HIDE DEF Bytes
<1> DEFINE c == a \o b
           l == Len(a)
           m == Len(b)
<1>1. l \in Nat /\ m \in Nat /\ Len(c) = l + m
      /\ (\A i \in 1..l : c[i] = a[i]) /\ \A i \in 1..m : c[l + i] = b[i]
  OBVIOUS
<1> HIDE DEF c, l, m
<1>2. s \in Seq(Bytes) /\ p \in Nat /\ p + Len(c) <= Len(s) /\ Len(s) \in Nat
      /\ \A i \in 1..Len(c) : s[p + i] = c[i]
  BY DEF Within, c
<1>3. p + l <= Len(s) /\ (p + l) + m <= Len(s) /\ p + l \in Nat
  BY <1>1, <1>2
<1>4. \A i \in 1..l : s[p + i] = a[i]
  <2> TAKE i \in 1..l
  <2>1. i \in 1..Len(c)
    BY <1>1
  <2> QED
    BY <1>1, <1>2, <2>1
<1>5. \A i \in 1..m : s[(p + l) + i] = b[i]
  <2> TAKE i \in 1..m
  <2>1. l + i \in 1..Len(c) /\ p + (l + i) = (p + l) + i
    BY <1>1, <1>2
  <2>2. s[p + (l + i)] = c[l + i]
    BY <1>2, <2>1
  <2> QED
    BY <1>1, <2>1, <2>2
<1> QED
  BY <1>1, <1>2, <1>3, <1>4, <1>5 DEF Within, c, l, m

LEMMA WithinItself ==
    ASSUME NEW b \in Seq(Bytes)
    PROVE  Within(b, 0, b)
<1> HIDE DEF Bytes
<1>1. Len(b) \in Nat /\ \A i \in 1..Len(b) : 0 + i = i
  OBVIOUS
<1> QED
  BY <1>1 DEF Within

(* readBit32() reads a number of fixed length aright only on a machine     *)
(* whose lowest byte comes first.                                          *)
Readable(x) == LittleEndian \/ x.kind \notin {"fixed", "sfixed"}

(* What a read of a value's type finds at the value's bytes, wherever they *)
(* lie in a string: it ends behind them (EndOf), and gives the value       *)
(* (ValueOf).  Every kind of integer and string, of every width.           *)
THEOREM Decodes ==
    ASSUME NEW x, IsValue(x), Readable(x), NEW s, NEW p,
           Within(s, p, ValueBytes(x))
    PROVE  /\ EndOf(x, s, p) = p + Len(ValueBytes(x))
           /\ ValueOf(x, s, p) = x.val
<1> DEFINE b == ValueBytes(x)
           l == Len(b)
           n == x.width
           v == x.val
           z == encodeZigZag(v, n)
<1>1. p \in Nat /\ l \in Nat /\ p + l <= Len(s) /\ b \in Seq(Bytes)
  BY BytesOfKinds DEF Within
<1>2. SubSeq(s, p + 1, p + l) = b
  BY SubSeqWithin
<1>3. x.kind \in Kinds /\ n \in Nat \ {0} /\ n \in Nat
  BY ValueTypes
<1>4. EndOf(x, s, p) = p + l => ValueOf(x, s, p) =
         CASE x.kind = "byte"   -> b[1]
           [] x.kind = "sbyte"  -> ToSigned(b[1], 1)
           [] x.kind = "var"    -> VarValue(b, n)
           [] x.kind = "svar"   -> decodeZigZag(VarValue(b, n), n)
           [] x.kind = "fixed"  -> FixedValue(b)
           [] x.kind = "sfixed" -> decodeZigZag(FixedValue(b), n)
           [] x.kind = "string" -> SubSeq(b, VarEnd(b, 0, n) + 1, Len(b))
  <2> HIDE DEF b, l
  <2> QED
    BY <1>2 DEF ValueOf
<1>5. CASE x.kind = "byte"
  <2>1. v \in Bytes
    BY <1>5 DEF IsValue
  <2>2. v % Base = v
    <3>1. v \in Nat /\ v < Base /\ Base \in Nat \ {0}
      BY <2>1, HalfAndBase
    <3> QED
      BY <3>1, DivSmall
  <2>3. b = <<v>>
    BY <1>5, <2>2, BytesOfKinds
  <2>4. l = 1 /\ b[1] = v
    BY <2>3
  <2>5. EndOf(x, s, p) = p + l
    BY <1>5, <2>4 DEF EndOf
  <2> HIDE DEF b, l, v
  <2>6. ValueOf(x, s, p) = v
    BY <1>4, <1>5, <2>4, <2>5
  <2> QED
    BY <2>5, <2>6 DEF b, l, v
<1>6. CASE x.kind = "sbyte"
  <2>1. v \in -Half..(Half - 1)
    BY <1>6 DEF IsValue
  <2>2. ToSigned(v % Base, 1) = v
    BY <2>1, SignBack
  <2>3. b = <<v % Base>>
    BY <1>6, BytesOfKinds
  <2>4. l = 1 /\ b[1] = v % Base
    BY <2>3
  <2>5. EndOf(x, s, p) = p + l
    BY <1>6, <2>4 DEF EndOf
  <2> HIDE DEF b, l, v
  <2>6. ValueOf(x, s, p) = v
    BY <1>4, <1>6, <2>2, <2>4, <2>5
  <2> QED
    BY <2>5, <2>6 DEF b, l, v
<1>7. CASE x.kind \in {"var", "svar"}
  <2> DEFINE u == IF x.kind = "var" THEN v ELSE z
  <2>1. u \in 0..(Size(n) - 1)
    <3>1. x.kind = "var" => v \in 0..(Size(n) - 1)
      BY DEF IsValue
    <3>2. x.kind = "svar" => v \in Int
      BY ValueTypes
    <3>3. x.kind = "svar" => z \in 0..(Size(n) - 1)
      BY <1>3, <3>2, ZigZagNat
    <3> QED
      BY <1>7, <3>1, <3>3
  <2>2. b = VarBytes[u]
    BY <1>7, BytesOfKinds
  <2> HIDE DEF u
  <2>3. VarEnd(s, p, n) = p + l
    BY <1>3, <2>1, <2>2, VarEndIs
  <2>4. EndOf(x, s, p) = p + l
    BY <1>7, <2>3 DEF EndOf
  <2>5. VarValue(b, n) = u
    BY <1>3, <2>1, <2>2, VarValueIs
  <2>6. x.kind = "svar" => decodeZigZag(u, n) = v
    <3> HAVE x.kind = "svar"
    <3>1. v \in -(Size(n) \div 2)..(Size(n) \div 2 - 1)
      BY DEF IsValue
    <3>2. decodeZigZag(z, n) = v
      BY <1>3, <3>1, ZigZagBack
    <3> QED
      BY <3>2 DEF u
  <2>7. x.kind = "var" => u = v
    BY DEF u
  <2> HIDE DEF b, l, v, n, z
  <2>8. ValueOf(x, s, p) = v
    BY <1>4, <1>7, <2>4, <2>5, <2>6, <2>7
  <2> QED
    BY <2>4, <2>8 DEF b, l, v
<1>8. CASE x.kind \in {"fixed", "sfixed"}
  <2> DEFINE u == IF x.kind = "fixed" THEN v ELSE z
  <2>1. u \in 0..(Size(n) - 1)
    <3>1. x.kind = "fixed" => v \in 0..(Size(n) - 1)
      BY DEF IsValue
    <3>2. x.kind = "sfixed" => v \in Int
      BY ValueTypes
    <3>3. x.kind = "sfixed" => z \in 0..(Size(n) - 1)
      BY <1>3, <3>2, ZigZagNat
    <3> QED
      BY <1>8, <3>1, <3>3
  <2>2. b = FixedBytes(u, n)
    BY <1>8, BytesOfKinds
  <2> HIDE DEF u
  <2>3. u \in Int
    <3>1. Size(n) \in Nat
      BY <1>3, SizePositive
    <3> QED
      BY <2>1, <3>1
  <2>4. l = n
    BY <1>3, <2>2, <2>3, FixedBytesType
  <2>5. EndOf(x, s, p) = p + l
    BY <1>8, <2>4 DEF EndOf
  <2>6. FixedValue(b) = u
    <3>1. LittleEndian
      BY <1>8 DEF Readable
    <3> QED
      BY <1>3, <2>1, <2>2, <3>1, FixedValueIs
  <2>7. x.kind = "sfixed" => decodeZigZag(u, n) = v
    <3> HAVE x.kind = "sfixed"
    <3>1. v \in -(Size(n) \div 2)..(Size(n) \div 2 - 1)
      BY DEF IsValue
    <3>2. decodeZigZag(z, n) = v
      BY <1>3, <3>1, ZigZagBack
    <3> QED
      BY <3>2 DEF u
  <2>8. x.kind = "fixed" => u = v
    BY DEF u
  <2> HIDE DEF b, l, v, n, z
  <2>9. ValueOf(x, s, p) = v
    BY <1>4, <1>8, <2>5, <2>6, <2>7, <2>8
  <2> QED
    BY <2>5, <2>9 DEF b, l, v
<1>9. CASE x.kind = "string"
  <2> DEFINE w == VarBytes[Len(v)]
  <2>1. v \in Seq(Bytes) /\ Len(v) \in 0..(Size(n) - 1) /\ Len(v) \in Nat
    BY <1>9, ValueTypes, ShortRange
  <2>2. w \in Seq(Bytes) /\ b = w \o v /\ Len(w) \in Nat
    <3>1. w \in Seq(Bytes)
      BY <2>1, VarBytesIs
    <3>2. b = w \o v
      BY <1>9, BytesOfKinds
    <3> HIDE DEF w
    <3>3. Len(w) \in Nat
      BY <3>1
    <3> QED
      BY <3>1, <3>2, <3>3
  <2> HIDE DEF w, v, n, b
  <2>3. Within(s, p, b)
    BY DEF b
  <2>4. Within(s, p, w) /\ l = Len(w) + Len(v)
    BY <2>1, <2>2, <2>3, WithinParts
  <2> DEFINE e == p + Len(w)
  <2>5. VarEnd(s, p, n) = e
    BY <1>3, <2>1, <2>4, VarEndIs DEF w
  <2>6. SubSeq(s, p + 1, e) = w
    BY <2>4, SubSeqWithin
  <2>7. VarValue(w, n) = Len(v)
    BY <1>3, <2>1, VarValueIs DEF w
  <2>8. e <= Len(s) /\ Len(s) \in Nat /\ e \in Nat
    BY <1>1, <2>2, <2>4 DEF Within
  <2>9. EndOf(x, s, p) = p + l
    <3>1. EndOf(x, s, p) = e + Len(v)
      <4> HIDE DEF e
      <4>1. ~(e > Len(s))
        BY <2>8
      <4> QED
        BY <1>9, <2>5, <2>6, <2>7, <4>1 DEF EndOf, n
    <3> QED
      BY <1>1, <2>1, <2>2, <2>4, <3>1
  <2> DEFINE zero == 0
  <2>10. Within(b, zero, w) /\ Within(b, zero + Len(w), v)
    <3>1. Within(b, zero, b)
      BY <1>1, WithinItself
    <3> HIDE DEF zero
    <3> QED
      BY <2>1, <2>2, <3>1, WithinParts
  <2>11. VarEnd(b, 0, n) = Len(w)
    <3> HIDE DEF zero
    <3>1. VarEnd(b, zero, n) = zero + Len(w)
      BY <1>3, <2>1, <2>10, VarEndIs DEF w
    <3> QED
      BY <2>2, <3>1 DEF zero
  <2>12. SubSeq(b, Len(w) + 1, Len(b)) = v
    <3> DEFINE m == Len(w)
    <3>1. Within(b, m, v) /\ Len(b) = m + Len(v)
      <4>1. zero + Len(w) = m
        BY <2>2
      <4> QED
        BY <2>4, <2>10, <4>1
    <3> HIDE DEF m
    <3>2. SubSeq(b, m + 1, m + Len(v)) = v
      BY <3>1, SubSeqWithin
    <3> QED
      BY <3>1, <3>2 DEF m
  <2> HIDE DEF l, zero, e
  <2>13. ValueOf(x, s, p) = v
    BY <1>4, <1>9, <2>9, <2>11, <2>12
  <2> QED
    BY <2>9, <2>13 DEF b, l, v
<1> QED
  BY <1>3, <1>5, <1>6, <1>7, <1>8, <1>9 DEF Kinds

(* What lies behind a prefix of a sequence of values.                      *)
LEMMA BytesSplit ==
    ASSUME NEW xs \in Seq(Values), NEW n \in 0..(Len(xs) - 1)
    PROVE  /\ AllBytes(xs) \in Seq(Bytes)
           /\ xs[n + 1] \in Values
           /\ Within(AllBytes(xs), Len(AllBytes(SubSeq(xs, 1, n))),
                     ValueBytes(xs[n + 1]))
           /\ Len(AllBytes(SubSeq(xs, 1, n + 1))) =
                 Len(AllBytes(SubSeq(xs, 1, n))) + Len(ValueBytes(xs[n + 1]))
<1> HIDE DEF Bytes
<1> DEFINE N == Len(xs)
           A(k) == AllBytes(SubSeq(xs, 1, k))
           B(k) == ValueBytes(xs[k])
           x == xs[n + 1]
<1>1. N \in Nat /\ n \in Nat /\ n + 1 \in 1..N /\ \A k \in 1..N : xs[k] \in Values
  OBVIOUS
<1>2. \A k \in 0..N : SubSeq(xs, 1, k) \in Seq(Values)
  OBVIOUS
<1>3. \A k \in 0..N : A(k) \in Seq(Bytes)
  <2> TAKE k \in 0..N
  <2> DEFINE ys == SubSeq(xs, 1, k)
  <2>1. ys \in Seq(Values) /\ x \in Values
    BY <1>1, <1>2
  <2> HIDE DEF ys, x
  <2>2. AllBytes(ys) \in Seq(Bytes)
    BY <2>1, AllBytesAppend
  <2> QED
    BY <2>2 DEF ys
<1>4. \A k \in 0..(N - 1) : B(k + 1) \in Seq(Bytes) /\ A(k + 1) = A(k) \o B(k + 1)
  <2> TAKE k \in 0..(N - 1)
  <2> DEFINE ys == SubSeq(xs, 1, k)
             y == xs[k + 1]
  <2>1. k + 1 \in 1..N /\ k \in 0..N /\ k + 1 \in 0..N
    BY <1>1
  <2>2. ys \in Seq(Values) /\ y \in Values
    BY <1>1, <1>2, <2>1
  <2>3. SubSeq(xs, 1, k + 1) = Append(ys, y)
    <3> DEFINE us == SubSeq(xs, 1, k + 1)
               vs == Append(ys, y)
    <3>1. us \in Seq(Values) /\ Len(us) = k + 1 /\ \A i \in 1..(k + 1) : us[i] = xs[i]
      BY <2>1, <1>1
    <3>2. Len(ys) = k /\ \A i \in 1..k : ys[i] = xs[i]
      BY <2>1, <1>1
    <3> HIDE DEF us, ys, y
    <3>3. vs \in Seq(Values) /\ Len(vs) = k + 1 /\ vs[k + 1] = y
          /\ \A i \in 1..k : vs[i] = ys[i]
      BY <2>2, <3>2
    <3>4. \A i \in 1..Len(us) : us[i] = vs[i]
      <4> TAKE i \in 1..Len(us)
      <4>1. i \in 1..k \/ i = k + 1
        BY <3>1
      <4>2. i \in 1..(k + 1)
        BY <3>1
      <4> HIDE DEF vs
      <4> QED
        BY <3>1, <3>2, <3>3, <4>1, <4>2 DEF y
    <3> HIDE DEF vs
    <3>5. us = vs
      BY <3>1, <3>3, <3>4, SeqEqual
    <3> QED
      BY <3>5 DEF us, vs, ys, y
  <2> HIDE DEF ys, y
  <2>4. ValueBytes(y) \in Seq(Bytes)
        /\ AllBytes(Append(ys, y)) = AllBytes(ys) \o ValueBytes(y)
    BY <2>2, AllBytesAppend
  <2> QED
    BY <2>3, <2>4 DEF ys, y
<1> HIDE DEF A, B, N
<1> DEFINE m == n + 1
           Begins(c, s) == /\ c \in Seq(Bytes) /\ s \in Seq(Bytes) /\ Len(c) <= Len(s)
                           /\ \A i \in 1..Len(c) : s[i] = c[i]
           P == {i \in Nat : m + i <= N => Begins(A(m), A(m + i))}
<1>5. m \in 0..N /\ m \in Nat
  BY <1>1 DEF N
<1>6. 0 \in P
  <2>1. m + 0 = m /\ A(m) \in Seq(Bytes)
    BY <1>3, <1>5
  <2>2. Len(A(m)) <= Len(A(m))
    BY <2>1
  <2> QED
    BY <2>1, <2>2
<1>7. ASSUME NEW i \in Nat, i \in P PROVE i + 1 \in P
  <2> SUFFICES ASSUME m + (i + 1) <= N PROVE Begins(A(m), A(m + (i + 1)))
    OBVIOUS
  <2> DEFINE k == m + i
             c == A(m)
             s == A(k)
             d == B(k + 1)
             t == A(k + 1)
  <2>1. k \in 0..(N - 1) /\ m + (i + 1) = k + 1 /\ k <= N
    BY <1>1, <1>5
  <2>2. c \in Seq(Bytes) /\ s \in Seq(Bytes) /\ Len(c) <= Len(s)
        /\ \A j \in 1..Len(c) : s[j] = c[j]
    BY <1>7, <2>1
  <2>3. d \in Seq(Bytes) /\ t = s \o d
    BY <1>4, <2>1
  <2> HIDE DEF k, c, s, d, t
  <2>4. Begins(c, t)
    <3>1. t \in Seq(Bytes) /\ Len(t) = Len(s) + Len(d)
          /\ Len(s) \in Nat /\ Len(d) \in Nat /\ Len(c) \in Nat
          /\ \A j \in 1..Len(s) : t[j] = s[j]
      BY <2>2, <2>3
    <3>2. Len(c) <= Len(t)
      BY <2>2, <3>1
    <3>3. \A j \in 1..Len(c) : j \in 1..Len(s)
      BY <2>2, <3>1
    <3>4. \A j \in 1..Len(c) : t[j] = c[j]
      BY <2>2, <3>1, <3>3
    <3> QED
      BY <2>2, <3>1, <3>2, <3>4
  <2> QED
    BY <2>1, <2>4 DEF c, t
<1> HIDE DEF P
<1>8. Begins(A(m), A(N))
  <2>1. Nat \subseteq P
    BY <1>6, <1>7, Induction
  <2>2. N - m \in Nat /\ m + (N - m) = N /\ m + (N - m) <= N
    BY <1>1, <1>5
  <2>3. N - m \in P
    BY <2>1, <2>2
  <2> QED
    BY <2>2, <2>3 DEF P
<1>9. A(N) = AllBytes(xs)
  <2>1. SubSeq(xs, 1, N) = xs
    BY SubSeqFull DEF N
  <2> QED
    BY <2>1 DEF A
<1>10. A(m) = A(n) \o B(m) /\ A(n) \in Seq(Bytes) /\ B(m) \in Seq(Bytes)
  <2>1. n \in 0..(N - 1) /\ n \in 0..N
    BY <1>1 DEF N
  <2> QED
    BY <1>3, <1>4, <2>1
<1> DEFINE a == A(n)
           b == B(m)
           c == A(m)
           s == AllBytes(xs)
<1>11. c = a \o b /\ a \in Seq(Bytes) /\ b \in Seq(Bytes)
       /\ s \in Seq(Bytes) /\ Len(c) <= Len(s) /\ \A i \in 1..Len(c) : s[i] = c[i]
  BY <1>8, <1>9, <1>10
<1> HIDE DEF a, b, c, s
<1>12. Len(c) = Len(a) + Len(b)
  BY <1>11
<1>13. Within(s, Len(a), b)
  <2>1. Len(a) \in Nat /\ Len(b) \in Nat /\ \A i \in 1..Len(b) : c[Len(a) + i] = b[i]
    BY <1>11
  <2>2. \A i \in 1..Len(b) : Len(a) + i \in 1..Len(c)
    BY <1>12, <2>1
  <2>3. \A i \in 1..Len(b) : s[Len(a) + i] = b[i]
    BY <1>11, <2>1, <2>2
  <2> QED
    BY <1>11, <1>12, <2>1, <2>3 DEF Within
<1> QED
  BY <1>1, <1>11, <1>12, <1>13 DEF a, b, c, s, A, B

-----------------------------------------------------------------------------
(* The values come back.                                                   *)

LEMMA FileKeepsWord ==
    ASSUME NEW s \in Seq(Bytes), Blanks \cap ToSet(s) = {}
    PROVE  fromFile(s) = s
<1> DEFINE l == Len(s)
           S == { i \in DOMAIN s : s[i] \notin Blanks } \cup {l + 1}
           first == Min(S)
           T == { i \in first..l : s[i] \in Blanks } \cup {l + 1}
<1>1. l \in Nat /\ DOMAIN s = 1..l
  BY LenProperties
<1>2. \A i \in 1..l : s[i] \notin Blanks
  BY <1>1 DEF ToSet
<1> HIDE DEF l
<1>3. first = 1
  <2> DEFINE one == 1
  <2>1. one \in S /\ S \subseteq Int /\ \A y \in S : one <= y
    <3>1. CASE l = 0
      BY <1>1, <3>1
    <3>2. CASE l # 0
      BY <1>1, <1>2, <3>2
    <3> QED
      BY <3>1, <3>2
  <2> HIDE DEF one, S
  <2> QED
    BY <2>1, MinIs DEF one
<1> HIDE DEF first
<1>4. Min(T) = l + 1
  <2> DEFINE m == l + 1
  <2>1. T = {m}
    BY <1>2, <1>3
  <2>2. m \in T /\ T \subseteq Int /\ \A y \in T : m <= y
    BY <1>1, <2>1
  <2> HIDE DEF m, T
  <2> QED
    BY <2>2, MinIs DEF m
<1>5. fromFile(s) = SubSeq(s, 1, (l + 1) - 1)
  <2>1. fromFile(s) = SubSeq(s, first, Min(T) - 1)
    BY DEF fromFile, first, l
  <2> HIDE DEF T
  <2> QED
    BY <1>3, <1>4, <2>1
<1>6. (l + 1) - 1 = l
  BY <1>1
<1> QED
  BY <1>5, <1>6, SubSeqFull DEF l

(* How far the deserializer is, in the values its string holds.            *)
ReadInv ==
    /\ cut \in BOOLEAN
    /\ ~cut =>
          /\ given \in Seq(Values)
          /\ Len(got) \in 0..Len(given)
          /\ got = SubSeq(given, 1, Len(got))
          /\ buf = AllBytes(given)
          /\ readed = Len(AllBytes(SubSeq(given, 1, Len(got))))
          /\ aborted => got = given

LEMMA ReadFresh ==
    ASSUME NEW g \in Seq(Values)
    PROVE  Len(<<>>) \in 0..Len(g) /\ SubSeq(g, 1, 0) = <<>>
           /\ Len(AllBytes(SubSeq(g, 1, Len(<<>>)))) = 0 /\ Len(<<>>) = 0
<1>1. SubSeq(g, 1, 0) = <<>> /\ Len(<<>>) = 0 /\ Len(g) \in Nat
  BY SubSeqEmpty
<1>2. SubSeq(g, 1, Len(<<>>)) = <<>>
  BY <1>1
<1> DEFINE e == <<>>
           w == AllBytes(SubSeq(g, 1, Len(e)))
<1>3. w = e
  BY <1>2, AllBytesEmpty
<1>4. Len(e) = 0
  BY <1>1
<1> HIDE DEF w
<1>5. Len(w) = 0
  BY <1>3, <1>4
<1>6. Len(e) \in 0..Len(g)
  BY <1>1
<1> QED
  BY <1>1, <1>5, <1>6 DEF w

LEMMA ReadInit == Init => ReadInv
<1> SUFFICES ASSUME Init PROVE ReadInv
  OBVIOUS
<1>1. given = <<>> /\ got = <<>> /\ buf = <<>> /\ readed = 0 /\ cut = FALSE /\ aborted = FALSE
  BY DEF Init
<1>2. given \in Seq(Values)
  BY <1>1, EmptySeq
<1>3. Len(got) \in 0..Len(given) /\ SubSeq(given, 1, Len(got)) = <<>>
      /\ Len(AllBytes(SubSeq(given, 1, Len(got)))) = 0
  BY <1>1, <1>2, ReadFresh
<1> QED
  BY <1>1, <1>2, <1>3, AllBytesEmpty DEF ReadInv

LEMMA NextValue ==
    ASSUME \A x \in Values : Readable(x), ReadInv, ~cut, Len(got) < Len(given)
    PROVE  LET x == given[Len(got) + 1]
           IN /\ x \in Values
              /\ EndOf(x, buf, readed) <= Len(buf)
              /\ EndOf(x, buf, readed) =
                    Len(AllBytes(SubSeq(given, 1, Len(got) + 1)))
              /\ ValueOf(x, buf, readed) = x.val
<1> DEFINE n == Len(got)
           x == given[n + 1]
           p == Len(AllBytes(SubSeq(given, 1, n)))
           b == ValueBytes(x)
           s == AllBytes(given)
<1>1. given \in Seq(Values) /\ n \in 0..(Len(given) - 1) /\ buf = s /\ readed = p
  BY DEF ReadInv
<1> HIDE DEF n
<1>2. x \in Values /\ Within(s, p, b)
      /\ Len(AllBytes(SubSeq(given, 1, n + 1))) = p + Len(b)
  BY <1>1, BytesSplit
<1>3. IsValue(x) /\ Readable(x)
  BY <1>2, SerializeAssumption
<1> HIDE DEF x, p, s
<1>4. EndOf(x, s, p) = p + Len(b) /\ ValueOf(x, s, p) = x.val
  BY <1>2, <1>3, Decodes
<1>5. p + Len(b) <= Len(s)
  BY <1>2 DEF Within
<1> QED
  BY <1>1, <1>2, <1>4, <1>5 DEF x, n

LEMMA ReadRead ==
    ASSUME \A x \in Values : Readable(x), ReadInv, Read
    PROVE  ReadInv'
<1> DEFINE n == Len(got)
           x == given[n + 1]
<1>1. /\ n < Len(given)
      /\ readed' = EndOf(x, buf, readed)
      /\ got' = Append(got, [x EXCEPT !.val = ValueOf(x, buf, readed)])
      /\ given' = given /\ cut' = cut /\ buf' = buf /\ aborted' = aborted
      /\ ~aborted
  BY DEF Read
<1>2. cut \in BOOLEAN
  BY DEF ReadInv
<1>3. CASE cut
  BY <1>1, <1>2, <1>3 DEF ReadInv
<1>4. CASE ~cut
  <2>1. /\ given \in Seq(Values) /\ n \in 0..Len(given)
        /\ got = SubSeq(given, 1, n) /\ buf = AllBytes(given)
    BY <1>4 DEF ReadInv
  <2>2. /\ x \in Values
        /\ EndOf(x, buf, readed) = Len(AllBytes(SubSeq(given, 1, n + 1)))
        /\ ValueOf(x, buf, readed) = x.val
    BY <1>1, <1>4, NextValue
  <2>3. [x EXCEPT !.val = ValueOf(x, buf, readed)] = x
    <3>1. IsValue(x)
      BY <2>2, SerializeAssumption
    <3>2. x \in [kind : Kinds, width : Nat \ {0}, val : {x.val}]
      BY <3>1 DEF IsValue
    <3> HIDE DEF x
    <3>3. [x EXCEPT !.val = x.val] = x
      BY <3>2
    <3> QED
      BY <2>2, <3>3
  <2>4. got' = Append(got, x)
    BY <1>1, <2>3
  <2>5. Len(got') = n + 1 /\ n + 1 \in 0..Len(given)
        /\ got' = SubSeq(given, 1, n + 1)
    <3> DEFINE ys == SubSeq(given, 1, n)
               us == SubSeq(given, 1, n + 1)
               vs == Append(ys, x)
    <3>1. n \in Nat /\ n + 1 \in 1..Len(given) /\ Len(given) \in Nat
          /\ \A i \in 1..Len(given) : given[i] \in Values
      BY <1>1, <2>1
    <3>1a. got' = vs
      BY <2>1, <2>4
    <3> HIDE DEF n
    <3>2. us \in Seq(Values) /\ Len(us) = n + 1 /\ \A i \in 1..(n + 1) : us[i] = given[i]
      BY <2>1, <3>1
    <3>3. ys \in Seq(Values) /\ Len(ys) = n /\ \A i \in 1..n : ys[i] = given[i]
      BY <2>1, <3>1
    <3> HIDE DEF us, ys, x
    <3>4. vs \in Seq(Values) /\ Len(vs) = n + 1 /\ vs[n + 1] = x
          /\ \A i \in 1..n : vs[i] = ys[i]
      BY <2>2, <3>1, <3>3
    <3>5. \A i \in 1..Len(us) : us[i] = vs[i]
      <4> TAKE i \in 1..Len(us)
      <4>1. i \in 1..n \/ i = n + 1
        BY <3>1, <3>2
      <4>2. i \in 1..(n + 1)
        BY <3>2
      <4> HIDE DEF vs
      <4> QED
        BY <3>2, <3>3, <3>4, <4>1, <4>2 DEF x
    <3> HIDE DEF vs
    <3>6. us = vs
      BY <3>2, <3>4, <3>5, SeqEqual
    <3>7. n + 1 \in 0..Len(given)
      BY <3>1
    <3> QED
      BY <3>1a, <3>2, <3>6, <3>7 DEF us
  <2>6. readed' = Len(AllBytes(SubSeq(given, 1, n + 1)))
    BY <1>1, <2>2
  <2> HIDE DEF n, x
  <2>7. /\ given' \in Seq(Values) /\ Len(got') \in 0..Len(given')
        /\ got' = SubSeq(given', 1, Len(got'))
        /\ buf' = AllBytes(given')
        /\ readed' = Len(AllBytes(SubSeq(given', 1, Len(got'))))
        /\ ~aborted'
    <3>1. ~aborted' /\ given' \in Seq(Values) /\ buf' = AllBytes(given')
      BY <1>1, <2>1
    <3>2. Len(got') \in 0..Len(given') /\ got' = SubSeq(given', 1, Len(got'))
      BY <1>1, <2>5
    <3> QED
      BY <1>1, <2>5, <2>6, <3>1, <3>2
  <2> QED
    BY <1>1, <1>2, <2>7 DEF ReadInv, AllBytes
<1> QED
  BY <1>2, <1>3, <1>4

LEMMA ReadAborting ==
    ASSUME \A x \in Values : Readable(x), ReadInv, NEW x \in Values, ReadAborts(x)
    PROVE  ReadInv'
<1>1. UNCHANGED <<buf, readed, given, cut, got>> /\ cut \in BOOLEAN
  BY DEF ReadAborts, ReadInv
<1>2. ASSUME ~cut PROVE got = given
  <2>1. /\ given \in Seq(Values) /\ Len(got) \in 0..Len(given)
        /\ got = SubSeq(given, 1, Len(got))
    BY <1>2 DEF ReadInv
  <2>2. ~(Len(got) < Len(given))
    <3> SUFFICES ASSUME Len(got) < Len(given) PROVE FALSE
      OBVIOUS
    <3>1. x = given[Len(got) + 1] /\ EndOf(x, buf, readed) > Len(buf)
      BY DEF ReadAborts
    <3>2. EndOf(x, buf, readed) <= Len(buf)
          /\ EndOf(x, buf, readed) = Len(AllBytes(SubSeq(given, 1, Len(got) + 1)))
      BY <1>2, <3>1, NextValue
    <3>3. EndOf(x, buf, readed) \in Int /\ Len(buf) \in Int
      <4> DEFINE n == Len(got)
                 ys == SubSeq(given, 1, n + 1)
      <4>1. n \in Nat /\ n + 1 \in 1..Len(given)
        BY <2>1
      <4>2. ys \in Seq(Values)
        <5> HIDE DEF n
        <5> QED
          BY <2>1, <4>1
      <4> HIDE DEF ys
      <4>3. AllBytes(ys) \in Seq(Bytes)
        BY <4>2, AllBytesAppend
      <4>4. AllBytes(given) \in Seq(Bytes)
        BY <2>1, AllBytesAppend
      <4>5. buf = AllBytes(given)
        BY <1>2 DEF ReadInv
      <4> HIDE DEF Bytes
      <4>6. Len(AllBytes(ys)) \in Int /\ Len(buf) \in Int
        BY <4>3, <4>4, <4>5
      <4> QED
        BY <3>2, <4>6 DEF ys
    <3> QED
      BY <3>1, <3>2, <3>3
  <2>3. Len(got) = Len(given)
    BY <2>1, <2>2
  <2> QED
    BY <2>1, <2>3, SubSeqFull
<1>3. CASE cut
  BY <1>1, <1>3 DEF ReadInv
<1>4. CASE ~cut
  BY <1>1, <1>2, <1>4 DEF ReadInv, AllBytes
<1> QED
  BY <1>1, <1>3, <1>4

LEMMA ReadLoad ==
    ASSUME StringInv, Load
    PROVE  ReadInv'
<1> DEFINE s == toString(se)
<1>1. sent \in Seq(Values) /\ s = AllBytes(sent)
  BY DEF StringInv, Load
<1>2. readed' = 0 /\ given' = sent /\ got' = <<>> /\ aborted' = aborted /\ ~aborted
  BY DEF Load
<1>3. AllBytes(sent) \in Seq(Bytes)
  <2>1. CASE Values = {}
    <3>1. sent = <<>>
      <4>1. Len(sent) = 0
        BY <1>1, <2>1
      <4> QED
        BY <1>1, <4>1, EmptySeq
    <3> QED
      BY <3>1, AllBytesEmpty, EmptySeq
  <2>2. CASE Values # {}
    BY <1>1, <2>2, AllBytesAppend
  <2> QED
    BY <2>1, <2>2
<1>4. cut' \in BOOLEAN /\ (~cut' => buf' = AllBytes(sent))
  <2>1. CASE buf' = s /\ cut' = FALSE
    BY <1>1, <2>1
  <2>2. CASE buf' = fromFile(s) /\ cut' = (Blanks \cap ToSet(s) # {})
    <3>1. ASSUME ~cut' PROVE buf' = AllBytes(sent)
      <4>1. Blanks \cap ToSet(s) = {}
        BY <2>2, <3>1
      <4> HIDE DEF s
      <4>2. fromFile(s) = s
        BY <1>1, <1>3, <4>1, FileKeepsWord
      <4> QED
        BY <1>1, <2>2, <4>2
    <3>2. cut' \in BOOLEAN
      BY <2>2
    <3> QED
      BY <3>1, <3>2
  <2> QED
    BY <2>1, <2>2 DEF Load
<1>5. Len(got') \in 0..Len(given') /\ SubSeq(given', 1, Len(got')) = got'
      /\ Len(AllBytes(SubSeq(given', 1, Len(got')))) = readed'
  BY <1>1, <1>2, ReadFresh
<1> QED
  BY <1>1, <1>2, <1>4, <1>5 DEF ReadInv, AllBytes

LEMMA ReadReset == Reset => ReadInv'
<1> SUFFICES ASSUME Reset PROVE ReadInv'
  OBVIOUS
<1>1. given' = <<>> /\ got' = <<>> /\ buf' = <<>> /\ readed' = 0 /\ cut' = FALSE
      /\ aborted' = aborted /\ ~aborted
  BY DEF Reset
<1>2. given' \in Seq(Values)
  BY <1>1, EmptySeq
<1>3. Len(got') \in 0..Len(given') /\ SubSeq(given', 1, Len(got')) = <<>>
      /\ Len(AllBytes(SubSeq(given', 1, Len(got')))) = 0
  BY <1>1, <1>2, ReadFresh
<1>4. AllBytes(given') = <<>>
  BY <1>1, AllBytesEmpty
<1> QED
  BY <1>1, <1>2, <1>3, <1>4 DEF ReadInv, AllBytes

LEMMA ReadStep ==
    ASSUME \A x \in Values : Readable(x), StringInv, ReadInv, [Next]_vars
    PROVE  ReadInv'
<1>1. CASE Read
  BY <1>1, ReadRead
<1>2. CASE Load
  BY <1>2, ReadLoad
<1>3. CASE Reset
  BY <1>3, ReadReset
<1>4. ASSUME NEW x \in Values, ReadAborts(x) PROVE ReadInv'
  BY <1>4, ReadAborting
<1>5. CASE (\E x \in Values : Write(x)) \/ Over \/ UNCHANGED vars
  <2>1. UNCHANGED <<buf, readed, given, cut, got, aborted>>
    BY <1>5 DEF Write, Over, vars, reader
  <2> QED
    BY <2>1 DEF ReadInv, AllBytes
<1> QED
  BY <1>1, <1>2, <1>3, <1>4, <1>5 DEF Next

(* What is read from the string is what was written, and the assertion of  *)
(* read() fails only once everything has been read: for all values, unless *)
(* numbers of fixed length are read on a machine whose highest byte comes  *)
(* first, where readBit32() and readBit64() take the wrong branch          *)
(* (serialize.cpp:268).                                                    *)
THEOREM ValuesComeBack ==
    (\A x \in Values : Readable(x)) => (Spec => []ReadsBack)
<1> SUFFICES ASSUME \A x \in Values : Readable(x) PROVE Spec => []ReadsBack
  OBVIOUS
<1>1. StringInv /\ ReadInv /\ [Next]_vars => (StringInv /\ ReadInv)'
  BY StringStep, ReadStep
<1>2. ReadInv => ReadsBack
  BY DEF ReadInv, ReadsBack
<1> QED
  BY <1>1, <1>2, StringInit, ReadInit, PTL DEF Spec
=============================================================================
