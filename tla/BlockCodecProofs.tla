-------------------------- MODULE BlockCodecProofs --------------------------
(***************************************************************************)
(* What the encoders return means the block they were given, and           *)
(* minLZDecodeGo decodes an input exactly if it means a block of the size  *)
(* announced: for every block, every choice of matches, and all widths.    *)
(***************************************************************************)
EXTENDS BlockCodec, FormatProofs

-----------------------------------------------------------------------------
(* Least and greatest numbers                                              *)

LEMMA MinIs ==
  ASSUME NEW A \in SUBSET Nat, A # {}
  PROVE  Min(A) \in A /\ \A y \in A : Min(A) <= y
<1>1. \E x \in A : \A y \in A : x <= y
  BY LeastNat
<1> QED
  BY <1>1 DEF Min

LEMMA MinOfTwo ==
  ASSUME NEW a \in Int, NEW b \in Int
  PROVE  Min({a, b}) \in {a, b} /\ Min({a, b}) <= a /\ Min({a, b}) <= b
<1>1. \E x \in {a, b} : \A y \in {a, b} : x <= y
  OBVIOUS
<1> QED
  BY <1>1 DEF Min

LEMMA MaxOfTwo ==
  ASSUME NEW a \in Int, NEW b \in Int
  PROVE  Max({a, b}) \in {a, b} /\ Max({a, b}) >= a /\ Max({a, b}) >= b
<1>1. \E x \in {a, b} : \A y \in {a, b} : x >= y
  OBVIOUS
<1> QED
  BY <1>1 DEF Max

LEMMA MaxIs ==
  ASSUME NEW A \in SUBSET Int, A # {}, NEW most \in Int, \A y \in A : y <= most
  PROVE  Max(A) \in A /\ \A y \in A : y <= Max(A)
<1> DEFINE T == {most - y : y \in A}
<1>1. T \in SUBSET Nat /\ T # {}
  <2>1. \A y \in A : most - y \in Nat
    OBVIOUS
  <2> QED
    BY <2>1
<1>2. PICK x \in T : \A y \in T : x <= y
  BY <1>1, LeastNat
<1>3. PICK z \in A : x = most - z
  BY <1>2
<1>4. ASSUME NEW y \in A PROVE y <= z
  <2>1. most - y \in T
    OBVIOUS
  <2>2. x <= most - y
    BY <1>2, <2>1
  <2> QED
    BY <1>3, <2>2
<1>5. \E v \in A : \A y \in A : v >= y
  BY <1>3, <1>4
<1> QED
  BY <1>5 DEF Max

-----------------------------------------------------------------------------
(* Remainders                                                              *)

LEMMA Remainder ==
  ASSUME NEW a \in Nat, NEW b \in Nat \ {0}
  PROVE  a % b \in 0 .. b - 1
BY SMT

LEMMA RemainderBack ==
  ASSUME NEW a \in Nat, NEW b \in Nat \ {0}
  PROVE  (a + b) % b = a % b
<1> DEFINE q == a \div b
           r == a % b
           q1 == (a + b) \div b
           r1 == (a + b) % b
<1>1. q \in Int /\ r \in 0 .. b - 1 /\ a = q * b + r
  BY SMT
<1>2. q1 \in Int /\ r1 \in 0 .. b - 1 /\ a + b = q1 * b + r1
  BY SMT
<1> HIDE DEF q, r, q1, r1
<1>3. (q1 - q - 1) * b = q1 * b - q * b - b
  BY <1>1, <1>2, SMT
<1> DEFINE k == q1 - q - 1
           m == k * b
<1>4. m = r - r1 /\ k \in Int
  BY <1>1, <1>2, <1>3, SMT
<1>5. k >= 1 => m >= b
  BY <1>4, SMT
<1>6. k <= -1 => m <= -b
  BY <1>4, SMT
<1> HIDE DEF m
<1>7. k = 0
  BY <1>1, <1>2, <1>4, <1>5, <1>6, SMT
<1>8. m = 0
  BY <1>7 DEF m
<1> QED
  BY <1>1, <1>2, <1>4, <1>8, SMT DEF r, r1

-----------------------------------------------------------------------------
(* Going along a list                                                      *)

Along(n, x, G, f) == f[0] = x /\ \A k \in 1 .. n : f[k] = G[k][f[k - 1]]

LEMMA AlongExists ==
  ASSUME NEW n \in Nat, NEW X, NEW x \in X, NEW G \in [1 .. n -> [X -> X]]
  PROVE  \E f \in [0 .. n -> X] : Along(n, x, G, f)
<1> DEFINE Some(m) == m <= n => \E f \in [0 .. m -> X] : Along(m, x, G, f)
           A == {m \in Nat : Some(m)}
<1>1. Some(0)
  <2> DEFINE f == [k \in 0 .. 0 |-> x]
  <2>1. f \in [0 .. 0 -> X] /\ Along(0, x, G, f)
    BY DEF Along
  <2> QED
    BY <2>1
<1>2. ASSUME NEW m \in Nat, Some(m) PROVE Some(m + 1)
  <2> SUFFICES ASSUME m + 1 <= n PROVE \E f \in [0 .. m + 1 -> X] : Along(m + 1, x, G, f)
    OBVIOUS
  <2>1. PICK g \in [0 .. m -> X] : Along(m, x, G, g)
    BY <1>2
  <2> DEFINE new == G[m + 1][g[m]]
             f == [k \in 0 .. m + 1 |-> IF k = m + 1 THEN new ELSE g[k]]
  <2>2. new \in X
    <3>1. g[m] \in X /\ G[m + 1] \in [X -> X]
      BY <2>1
    <3> QED
      BY <3>1
  <2>3. f \in [0 .. m + 1 -> X]
    BY <2>1, <2>2
  <2>4. f[0] = x
    BY <2>1 DEF Along
  <2>5. ASSUME NEW k \in 1 .. m + 1 PROVE f[k] = G[k][f[k - 1]]
    <3>1. CASE k = m + 1
      BY <3>1
    <3>2. CASE k # m + 1
      <4>1. k \in 1 .. m /\ k - 1 \in 0 .. m
        BY <3>2
      <4>2. f[k] = g[k] /\ f[k - 1] = g[k - 1]
        BY <4>1
      <4> QED
        BY <2>1, <4>1, <4>2 DEF Along
    <3> QED
      BY <3>1, <3>2
  <2> HIDE DEF f
  <2> QED
    BY <2>3, <2>4, <2>5 DEF Along
<1> HIDE DEF Some
<1>3. 0 \in A /\ \A m \in Nat : m \in A => m + 1 \in A
  BY <1>1, <1>2
<1> HIDE DEF A
<1>4. n \in A
  BY <1>3, NatSet
<1> QED
  BY <1>4 DEF A, Some

LEMMA AlongTyped ==
  ASSUME NEW n \in Nat, NEW X, NEW x \in X, NEW G \in [1 .. n -> [X -> X]], NEW f, Along(n, x, G, f)
  PROVE  \A k \in 0 .. n : f[k] \in X
<1> DEFINE A == {m \in Nat : m <= n => f[m] \in X}
<1>1. 0 \in A
  BY DEF Along
<1>2. ASSUME NEW m \in Nat, m \in A PROVE m + 1 \in A
  <2> SUFFICES ASSUME m + 1 <= n PROVE f[m + 1] \in X
    OBVIOUS
  <2>1. f[m] \in X /\ G[m + 1] \in [X -> X] /\ f[m + 1] = G[m + 1][f[m]]
    BY <1>2 DEF Along
  <2> QED
    BY <2>1
<1> HIDE DEF A
<1>3. Nat \subseteq A
  BY <1>1, <1>2, NatSet
<1> QED
  BY <1>3 DEF A

\* Two lists that are the same at the beginning.
LEMMA AlongSame ==
  ASSUME NEW n \in Nat, NEW x, NEW F, NEW f, Along(n, x, F, f), NEW G, NEW g, Along(n, x, G, g),
         \A k \in 1 .. n : F[k] = G[k]
  PROVE  \A k \in 0 .. n : f[k] = g[k]
<1> DEFINE A == {m \in Nat : m <= n => f[m] = g[m]}
<1>1. 0 \in A
  BY DEF Along
<1>2. ASSUME NEW m \in Nat, m \in A PROVE m + 1 \in A
  <2> SUFFICES ASSUME m + 1 <= n PROVE f[m + 1] = g[m + 1]
    OBVIOUS
  <2>1. f[m] = g[m] /\ F[m + 1] = G[m + 1]
    BY <1>2
  <2>2. f[m + 1] = F[m + 1][f[m]] /\ g[m + 1] = G[m + 1][g[m]]
    BY DEF Along
  <2> QED
    BY <2>1, <2>2
<1> HIDE DEF A
<1>3. Nat \subseteq A
  BY <1>1, <1>2, NatSet
<1> QED
  BY <1>3 DEF A

-----------------------------------------------------------------------------
(* Operations, and the bytes of a list of them                             *)

LEMMA OpIs ==
  ASSUME NEW op \in Operations
  PROVE  /\ op.tag \in Tags /\ op.code \in Nat /\ op.ext \in Nat /\ op.off \in Nat
         /\ op.lits \in Seq(Bytes) /\ Len(op.lits) \in Nat
         /\ op.tag = "literal" => Len(op.lits) = ReadLength(op)
         /\ op.tag = "fused2" => Len(op.lits) \in 1 .. 4
         /\ op.tag = "copy3" => Len(op.lits) \in 0 .. 3
         /\ op.tag \in {"repeat", "copy1", "copy2"} => op.lits = <<>> /\ Len(op.lits) = 0
<1>1. /\ op \in [tag : Tags, code : Nat, ext : Nat, off : Nat, lits : Seq(Bytes)]
      /\ op.tag = "literal" => Len(op.lits) = ReadLength(op)
      /\ op.tag = "fused2" => Len(op.lits) \in 1..MaxCopy2Lits
      /\ op.tag = "copy3" => Len(op.lits) \in 0..MaxCopy3Lits
      /\ op.tag \in {"repeat", "copy1", "copy2"} => op.lits = <<>>
  BY DEF Operations
<1> DEFINE n == Len(op.lits)
<1>2. op.lits \in Seq(Bytes) /\ n \in Nat
  BY <1>1
<1>3. MaxCopy2Lits \in 1 .. 4 /\ MaxCopy3Lits \in 1 .. 3
  BY OffsetAssumption
<1>4. op.tag = "literal" => Len(op.lits) = ReadLength(op)
  BY <1>1
<1>5. ASSUME op.tag = "fused2" PROVE n \in 1 .. 4
  <2>1. n \in 1 .. MaxCopy2Lits
    BY <1>1, <1>5
  <2> HIDE DEF n
  <2> QED
    BY <1>2, <1>3, <2>1
<1>6. ASSUME op.tag = "copy3" PROVE n \in 0 .. 3
  <2>1. n \in 0 .. MaxCopy3Lits
    BY <1>1, <1>6
  <2> HIDE DEF n
  <2> QED
    BY <1>2, <1>3, <2>1
<1>7. op.tag \in {"repeat", "copy1", "copy2"} => op.lits = <<>>
  BY <1>1
<1> QED
  BY <1>1, <1>2, <1>4, <1>5, <1>6, <1>7

LEMMA OpReads ==
  ASSUME NEW op \in Operations
  PROVE  /\ ReadLength(op) \in Nat \ {0}
         /\ op.tag \in CopyTags => ReadLength(op) >= MinMatch
         /\ ReadOffset(op) \in Nat \ {0}
<1> USE LengthAssumption, OffsetAssumption
<1>1. op.code \in Nat /\ op.ext \in Nat /\ op.off \in Nat /\ op.tag \in Tags
  BY OpIs
<1>2. ReadOffset(op) \in Nat \ {0}
  BY <1>1 DEF ReadOffset
<1>3. CASE op.tag \in {"literal", "repeat"}
  BY <1>1, <1>2, <1>3 DEF ReadLength, CopyTags
<1>4. CASE op.tag = "copy1"
  BY <1>1, <1>2, <1>4 DEF ReadLength, Copy1Max, MinMatch
<1>5. CASE op.tag \in {"copy2", "fused2", "copy3"}
  BY <1>1, <1>2, <1>5 DEF ReadLength, MinMatch
<1> QED
  BY <1>1, <1>3, <1>4, <1>5 DEF Tags

LEMMA OpTakes ==
  ASSUME NEW op \in Operations
  PROVE  /\ ExtraBytes(op) \in 0 .. 3
         /\ HeadBytes(op) \in 1 .. 7 /\ OpBytes(op) \in Nat \ {0}
         /\ OpBytes(op) = HeadBytes(op) + Len(op.lits)
         /\ op.tag = "fused2" => HeadBytes(op) = 3
         /\ op.tag \in {"copy1", "copy2"} => HeadBytes(op) <= 6
<1> USE LengthAssumption
<1>1. op.code \in Nat /\ op.tag \in Tags /\ Len(op.lits) \in Nat
  BY OpIs
<1>2. op.tag # "fused2" => op.code <= Inline(op.tag) + 2
  BY DEF Operations
<1>3. Inline(op.tag) \in Nat
  BY DEF Inline
<1>4. ExtraBytes(op) \in 0 .. 3 /\ (op.tag = "fused2" => ExtraBytes(op) = 0)
  <2>1. CASE op.tag = "fused2"
    BY <2>1 DEF ExtraBytes
  <2>2. CASE op.tag # "fused2"
    BY <1>1, <1>2, <1>3, <2>2 DEF ExtraBytes
  <2> QED
    BY <2>1, <2>2
<1>5. HeadBytes(op) = ExtraBytes(op) + (IF op.tag \in {"literal", "repeat"} THEN 1
                                        ELSE IF op.tag = "copy1" THEN 2
                                        ELSE IF op.tag \in {"copy2", "fused2"} THEN 3 ELSE 4)
  <2>1. CASE op.tag \in {"literal", "repeat"}
    BY <2>1 DEF HeadBytes
  <2>2. CASE op.tag = "copy1"
    BY <2>2 DEF HeadBytes
  <2>3. CASE op.tag \in {"copy2", "fused2"}
    BY <2>3 DEF HeadBytes
  <2>4. CASE op.tag = "copy3"
    BY <2>4 DEF HeadBytes
  <2> QED
    BY <1>1, <2>1, <2>2, <2>3, <2>4 DEF Tags
<1>6. HeadBytes(op) \in 1 .. 7
  BY <1>4, <1>5
<1>7. op.tag = "fused2" => HeadBytes(op) = 3
  BY <1>4, <1>5
<1>8. op.tag \in {"copy1", "copy2"} => HeadBytes(op) <= 6
  BY <1>4, <1>5
<1>9. OpBytes(op) = HeadBytes(op) + Len(op.lits)
  BY DEF OpBytes
<1>10. OpBytes(op) \in Nat \ {0}
  <2> DEFINE n == Len(op.lits)
  <2>1. n \in Nat /\ OpBytes(op) = HeadBytes(op) + n
    BY <1>1, <1>9
  <2> HIDE DEF n
  <2> QED
    BY <1>6, <2>1
<1> QED
  BY <1>4, <1>6, <1>7, <1>8, <1>9, <1>10

\* The beginning of a list.
LEMMA Part ==
  ASSUME NEW T, NEW ops \in Seq(T), NEW k \in 0 .. Len(ops)
  PROVE  /\ SubSeq(ops, 1, k) \in Seq(T) /\ Len(SubSeq(ops, 1, k)) = k
         /\ \A j \in 1 .. k : SubSeq(ops, 1, k)[j] = ops[j] /\ ops[j] \in T
         /\ SubSeq(ops, 1, Len(ops)) = ops
         /\ SubSeq(ops, 1, 0) = <<>>
OBVIOUS

Adds(ops) == [k \in 1 .. Len(ops) |-> [x \in Nat |-> x + OpBytes(ops[k])]]

LEMMA AddsTyped ==
  ASSUME NEW ops \in Seq(Operations)
  PROVE  Adds(ops) \in [1 .. Len(ops) -> [Nat -> Nat]]
<1>1. ASSUME NEW k \in 1 .. Len(ops), NEW x \in Nat PROVE x + OpBytes(ops[k]) \in Nat
  <2>1. OpBytes(ops[k]) \in Nat
    BY OpTakes
  <2> QED
    BY <2>1
<1> QED
  BY <1>1 DEF Adds

LEMMA BytesAlong ==
  ASSUME NEW ops \in Seq(Operations)
  PROVE  \E f \in [0 .. Len(ops) -> Nat] :
           Along(Len(ops), 0, Adds(ops), f) /\ CodeBytes(ops) = f[Len(ops)]
<1> DEFINE n == Len(ops)
           Sum(f) == [k \in 0 .. n |-> IF k = 0 THEN 0 ELSE f[k - 1] + OpBytes(ops[k])]
           h == CHOOSE f : f = Sum(f)
<1>1. n \in Nat /\ 0 \in Nat /\ Adds(ops) \in [1 .. n -> [Nat -> Nat]]
  BY AddsTyped
<1>2. PICK f \in [0 .. n -> Nat] : Along(n, 0, Adds(ops), f)
  BY <1>1, AlongExists
<1>3. f = Sum(f)
  <2>1. ASSUME NEW k \in 0 .. n PROVE f[k] = IF k = 0 THEN 0 ELSE f[k - 1] + OpBytes(ops[k])
    <3>1. CASE k = 0
      BY <1>2, <3>1 DEF Along
    <3>2. CASE k # 0
      <4>1. k \in 1 .. n /\ f[k - 1] \in Nat
        BY <3>2
      <4>2. f[k] = Adds(ops)[k][f[k - 1]]
        BY <1>2, <4>1 DEF Along
      <4>3. Adds(ops)[k] = [x \in Nat |-> x + OpBytes(ops[k])]
        BY <4>1 DEF Adds
      <4> QED
        BY <3>2, <4>1, <4>2, <4>3
    <3> QED
      BY <3>1, <3>2
  <2> QED
    BY <2>1
<1>4. h = Sum(h)
  BY <1>3
<1>5. CodeBytes(ops) = h[n]
  BY DEF CodeBytes
<1> HIDE DEF h
<1>6. \A k \in 0 .. n : h[k] = IF k = 0 THEN 0 ELSE h[k - 1] + OpBytes(ops[k])
  BY <1>4
<1>7. \A k \in 0 .. n : h[k] \in Nat
  <2> DEFINE A == {m \in Nat : m <= n => h[m] \in Nat}
  <2>1. 0 \in A
    BY <1>1, <1>6
  <2>2. ASSUME NEW m \in Nat, m \in A PROVE m + 1 \in A
    <3> SUFFICES ASSUME m + 1 <= n PROVE h[m + 1] \in Nat
      OBVIOUS
    <3>1. h[m] \in Nat /\ h[m + 1] = h[m] + OpBytes(ops[m + 1]) /\ ops[m + 1] \in Operations
      BY <1>1, <1>6, <2>2
    <3>2. OpBytes(ops[m + 1]) \in Nat
      BY <3>1, OpTakes
    <3> QED
      BY <3>1, <3>2
  <2> HIDE DEF A
  <2>3. Nat \subseteq A
    BY <2>1, <2>2, NatSet
  <2> QED
    BY <2>3 DEF A
<1>8. h \in [0 .. n -> Nat]
  BY <1>4, <1>7
<1>9. Along(n, 0, Adds(ops), h)
  <2>1. ASSUME NEW k \in 1 .. n PROVE h[k] = Adds(ops)[k][h[k - 1]]
    <3>1. h[k] = h[k - 1] + OpBytes(ops[k]) /\ h[k - 1] \in Nat
      BY <1>6, <1>7
    <3> QED
      BY <3>1 DEF Adds
  <2> QED
    BY <1>1, <1>6, <2>1 DEF Along
<1> QED
  BY <1>5, <1>8, <1>9

\* As many operations as have been read, and one more.
LEMMA BytesOfPart ==
  ASSUME NEW ops \in Seq(Operations)
  PROVE  \E f \in [0 .. Len(ops) -> Nat] :
           /\ Along(Len(ops), 0, Adds(ops), f)
           /\ \A k \in 0 .. Len(ops) : CodeBytes(SubSeq(ops, 1, k)) = f[k]
<1>1. PICK f \in [0 .. Len(ops) -> Nat] : Along(Len(ops), 0, Adds(ops), f)
  BY BytesAlong
<1>2. ASSUME NEW k \in 0 .. Len(ops) PROVE CodeBytes(SubSeq(ops, 1, k)) = f[k]
  <2> DEFINE p == SubSeq(ops, 1, k)
  <2>1. p \in Seq(Operations) /\ Len(p) = k /\ \A j \in 1 .. k : p[j] = ops[j]
    BY Part
  <2> HIDE DEF p
  <2>2. PICK g \in [0 .. k -> Nat] : Along(k, 0, Adds(p), g) /\ CodeBytes(p) = g[k]
    BY <2>1, BytesAlong
  <2>3. ASSUME NEW j \in 1 .. k PROVE Adds(p)[j] = Adds(ops)[j]
    <3>1. j \in 1 .. Len(p) /\ j \in 1 .. Len(ops) /\ p[j] = ops[j]
      BY <2>1
    <3>2. Adds(p)[j] = [x \in Nat |-> x + OpBytes(p[j])]
      BY <3>1 DEF Adds
    <3>3. Adds(ops)[j] = [x \in Nat |-> x + OpBytes(ops[j])]
      BY <3>1 DEF Adds
    <3> QED
      BY <3>1, <3>2, <3>3
  <2>4. Along(k, 0, Adds(ops), f)
    BY <1>1 DEF Along
  <2>5. g[k] = f[k]
    BY <2>2, <2>3, <2>4, AlongSame
  <2> QED
    BY <2>2, <2>5 DEF p
<1> QED
  BY <1>1, <1>2

\* The bytes in front of an operation, and behind it.
LEMMA BytesStep ==
  ASSUME NEW ops \in Seq(Operations), NEW k \in 1 .. Len(ops)
  PROVE  CodeBytes(SubSeq(ops, 1, k)) = CodeBytes(SubSeq(ops, 1, k - 1)) + OpBytes(ops[k])
<1>1. PICK f \in [0 .. Len(ops) -> Nat] :
        /\ Along(Len(ops), 0, Adds(ops), f)
        /\ \A j \in 0 .. Len(ops) : CodeBytes(SubSeq(ops, 1, j)) = f[j]
  BY BytesOfPart
<1>2. f[k] = f[k - 1] + OpBytes(ops[k])
  <2>1. f[k] = Adds(ops)[k][f[k - 1]] /\ f[k - 1] \in Nat
    BY <1>1 DEF Along
  <2> QED
    BY <2>1 DEF Adds
<1> QED
  BY <1>1, <1>2

LEMMA BytesTyped ==
  ASSUME NEW ops \in Seq(Operations)
  PROVE  CodeBytes(ops) \in Nat
BY BytesAlong

LEMMA BytesOfNone == CodeBytes(<<>>) = 0
<1>1. <<>> \in Seq(Operations) /\ Len(<<>>) = 0
  OBVIOUS
<1>2. \E f \in [0 .. 0 -> Nat] : Along(0, 0, Adds(<<>>), f) /\ CodeBytes(<<>>) = f[0]
  BY <1>1, BytesAlong
<1> QED
  BY <1>2 DEF Along

\* No more operations, no more bytes.
LEMMA BytesGrow ==
  ASSUME NEW ops \in Seq(Operations), NEW k \in 0 .. Len(ops)
  PROVE  /\ CodeBytes(SubSeq(ops, 1, k)) \in Nat
         /\ CodeBytes(SubSeq(ops, 1, k)) <= CodeBytes(ops)
         /\ k < Len(ops) =>
              CodeBytes(SubSeq(ops, 1, k)) + OpBytes(ops[Len(ops)]) <= CodeBytes(ops)
<1> DEFINE n == Len(ops)
           B(j) == CodeBytes(SubSeq(ops, 1, j))
<1>1. n \in Nat /\ \A j \in 0 .. n : B(j) \in Nat
  <2>1. ASSUME NEW j \in 0 .. n PROVE B(j) \in Nat
    BY Part, BytesTyped
  <2> QED
    BY <2>1
<1>2. \A j \in 1 .. n : B(j) = B(j - 1) + OpBytes(ops[j]) /\ OpBytes(ops[j]) \in Nat
  BY BytesStep, OpTakes
<1>3. B(n) = CodeBytes(ops)
  BY Part
<1> DEFINE U == {m \in Nat : k + m <= n => B(k + m) >= B(k)}
<1> HIDE DEF B
<1>4. 0 \in U
  BY <1>1
<1>5. ASSUME NEW m \in Nat, m \in U PROVE m + 1 \in U
  <2> SUFFICES ASSUME k + (m + 1) <= n PROVE B(k + (m + 1)) >= B(k)
    OBVIOUS
  <2>1. k + m \in 0 .. n /\ B(k + m) >= B(k) /\ k + (m + 1) \in 1 .. n /\ k + (m + 1) - 1 = k + m
    BY <1>1, <1>5
  <2>2. B(k + (m + 1)) = B(k + m) + OpBytes(ops[k + (m + 1)])
        /\ OpBytes(ops[k + (m + 1)]) \in Nat /\ B(k + m) \in Nat /\ B(k) \in Nat
    BY <1>1, <1>2, <2>1
  <2> QED
    BY <2>1, <2>2
<1> HIDE DEF U
<1>6. Nat \subseteq U
  BY <1>4, <1>5, NatSet
<1>7. \A j \in k .. n : B(k) <= B(j)
  <2>1. ASSUME NEW j \in k .. n PROVE B(k) <= B(j)
    <3>1. j - k \in Nat /\ j - k \in U /\ k + (j - k) = j
      BY <1>1, <1>6
    <3> QED
      BY <1>1, <3>1 DEF U
  <2> QED
    BY <2>1
<1>8. ASSUME k < n PROVE B(k) + OpBytes(ops[n]) <= B(n)
  <2>1. B(k) <= B(n - 1) /\ B(n) = B(n - 1) + OpBytes(ops[n]) /\ OpBytes(ops[n]) \in Nat
        /\ B(n - 1) \in Nat /\ B(k) \in Nat
    BY <1>1, <1>2, <1>7, <1>8
  <2> QED
    BY <2>1
<1>9. B(k) <= B(n) /\ B(k) \in Nat
  BY <1>1, <1>7
<1> QED
  BY <1>3, <1>8, <1>9 DEF B

-----------------------------------------------------------------------------
(* What a list of operations means                                         *)

Meanings == [ok : BOOLEAN, off : Nat \ {0}, out : Seq(Bytes)]
FirstMeaning == [ok |-> TRUE, off |-> 1, out |-> <<>>]

LEMMA CopiedIs ==
  ASSUME NEW T, NEW p \in Seq(T), NEW off \in 1 .. Len(p), NEW n \in Nat
  PROVE  /\ Copied(p, off, n) \in Seq(T) /\ Len(Copied(p, off, n)) = n
         /\ \A i \in 1 .. n : Copied(p, off, n)[i] = p[Len(p) - off + 1 + ((i - 1) % off)]
<1>1. ASSUME NEW i \in 1 .. n PROVE p[Len(p) - off + 1 + ((i - 1) % off)] \in T
  <2>1. i - 1 \in Nat /\ off \in Nat \ {0}
    OBVIOUS
  <2>2. (i - 1) % off \in 0 .. off - 1
    BY <2>1, Remainder
  <2> DEFINE r == (i - 1) % off
  <2> HIDE DEF r
  <2>3. r \in 0 .. off - 1
    BY <2>2 DEF r
  <2>4. Len(p) - off + 1 + r \in 1 .. Len(p)
    BY <2>3
  <2> QED
    BY <2>4 DEF r
<1>2. Copied(p, off, n) \in [1 .. n -> T]
  BY <1>1 DEF Copied
<1>3. \A i \in 1 .. n : Copied(p, off, n)[i] = p[Len(p) - off + 1 + ((i - 1) % off)]
  BY DEF Copied
<1> HIDE DEF Copied
<1>4. Copied(p, off, n) \in Seq(T) /\ Len(Copied(p, off, n)) = n
  BY <1>2
<1> QED
  BY <1>3, <1>4

LEMMA StepIs ==
  ASSUME NEW m \in Meanings, NEW op \in Operations
  PROVE  LET lits == m.out \o op.lits
             off  == IF op.tag \in {"literal", "repeat"} THEN m.off ELSE ReadOffset(op)
         IN  /\ MeaningStep(m, op) \in Meanings
             /\ ~m.ok => ~MeaningStep(m, op).ok
             /\ IsCopy(op) /\ off > Len(lits) => ~MeaningStep(m, op).ok
             /\ Len(MeaningStep(m, op).out) >= Len(m.out)
             /\ m.ok /\ ~(IsCopy(op) /\ off > Len(lits)) =>
                  /\ MeaningStep(m, op).ok /\ MeaningStep(m, op).off = off
                  /\ MeaningStep(m, op).out =
                       IF IsCopy(op) THEN lits \o Copied(lits, off, ReadLength(op)) ELSE lits
                  /\ Len(MeaningStep(m, op).out) =
                       Len(lits) + (IF IsCopy(op) THEN ReadLength(op) ELSE 0)
<1> DEFINE lits == m.out \o op.lits
           off  == IF op.tag \in {"literal", "repeat"} THEN m.off ELSE ReadOffset(op)
           len  == ReadLength(op)
           out  == IF IsCopy(op) THEN lits \o Copied(lits, off, len) ELSE lits
           step == MeaningStep(m, op)
           bad  == ~m.ok \/ (IsCopy(op) /\ off > Len(lits))
<1>1. /\ lits \in Seq(Bytes) /\ Len(lits) \in Nat /\ Len(lits) >= Len(m.out) /\ Len(m.out) \in Nat
      /\ m.out \in Seq(Bytes)
  <2>1. m.out \in Seq(Bytes) /\ op.lits \in Seq(Bytes)
    BY OpIs DEF Meanings
  <2> DEFINE x == m.out
             y == op.lits
  <2> HIDE DEF x, y
  <2>2. x \in Seq(Bytes) /\ y \in Seq(Bytes)
    BY <2>1 DEF x, y
  <2>3. x \o y \in Seq(Bytes) /\ Len(x \o y) = Len(x) + Len(y) /\ Len(x) \in Nat /\ Len(y) \in Nat
    BY <2>2
  <2>4. Len(x \o y) \in Nat /\ Len(x \o y) >= Len(x)
    BY <2>3
  <2> QED
    BY <2>2, <2>3, <2>4 DEF x, y
<1>2. off \in Nat \ {0} /\ len \in Nat \ {0}
  BY OpReads DEF Meanings
<1>3. step = IF bad THEN [m EXCEPT !.ok = FALSE] ELSE [ok |-> TRUE, off |-> off, out |-> out]
  BY DEF MeaningStep
<1> HIDE DEF lits, off, len, step
<1> DEFINE Goal ==
           /\ step \in Meanings
           /\ ~m.ok => ~step.ok
           /\ IsCopy(op) /\ off > Len(lits) => ~step.ok
           /\ Len(step.out) >= Len(m.out)
           /\ ~bad => /\ step.ok /\ step.off = off /\ step.out = out
                      /\ Len(step.out) = Len(lits) + (IF IsCopy(op) THEN len ELSE 0)
<1>4. ASSUME bad PROVE Goal
  <2>1. step = [m EXCEPT !.ok = FALSE]
    BY <1>3, <1>4
  <2>2. step \in Meanings /\ ~step.ok /\ step.out = m.out
    BY <2>1 DEF Meanings
  <2>3. Len(step.out) >= Len(m.out)
    BY <1>1, <2>2
  <2> HIDE DEF bad
  <2> QED
    BY <1>4, <2>2, <2>3
<1>5. ASSUME ~bad PROVE Goal
  <2>1. step = [ok |-> TRUE, off |-> off, out |-> out]
    BY <1>3, <1>5
  <2>2. out \in Seq(Bytes) /\ Len(out) = Len(lits) + (IF IsCopy(op) THEN len ELSE 0)
    <3>1. CASE IsCopy(op)
      <4>1. off \in 1 .. Len(lits) /\ len \in Nat
        BY <1>1, <1>2, <1>5, <3>1
      <4>2. Copied(lits, off, len) \in Seq(Bytes) /\ Len(Copied(lits, off, len)) = len
        BY <1>1, <4>1, CopiedIs
      <4>3. lits \o Copied(lits, off, len) \in Seq(Bytes)
            /\ Len(lits \o Copied(lits, off, len)) = Len(lits) + len
        BY <1>1, <4>2
      <4> QED
        BY <3>1, <4>3
    <3>2. CASE ~IsCopy(op)
      BY <1>1, <3>2
    <3> QED
      BY <3>1, <3>2
  <2> HIDE DEF out
  <2>3. step \in Meanings
    BY <1>2, <2>1, <2>2 DEF Meanings
  <2>4. step.ok /\ step.off = off /\ step.out = out
    BY <2>1
  <2>5. Len(step.out) = Len(lits) + (IF IsCopy(op) THEN len ELSE 0) /\ Len(step.out) >= Len(m.out)
    BY <1>1, <1>2, <2>2, <2>4
  <2> QED
    BY <1>5, <2>3, <2>4, <2>5
<1>6. Goal
  BY <1>4, <1>5
<1> QED
  BY <1>6 DEF step, lits, off, len, out

Steps(ops) == [k \in 1 .. Len(ops) |-> [m \in Meanings |-> MeaningStep(m, ops[k])]]

LEMMA StepsTyped ==
  ASSUME NEW ops \in Seq(Operations)
  PROVE  Steps(ops) \in [1 .. Len(ops) -> [Meanings -> Meanings]] /\ FirstMeaning \in Meanings
<1>1. ASSUME NEW k \in 1 .. Len(ops), NEW m \in Meanings PROVE MeaningStep(m, ops[k]) \in Meanings
  <2>1. ops[k] \in Operations
    OBVIOUS
  <2> QED
    BY <2>1, StepIs
<1>2. FirstMeaning \in Meanings
  BY DEF Meanings, FirstMeaning
<1> QED
  BY <1>1, <1>2 DEF Steps

LEMMA MeaningAlong ==
  ASSUME NEW ops \in Seq(Operations)
  PROVE  \E f \in [0 .. Len(ops) -> Meanings] :
           Along(Len(ops), FirstMeaning, Steps(ops), f) /\ Meaning(ops) = f[Len(ops)]
<1> DEFINE n == Len(ops)
           After(f) == [k \in 0 .. n |-> IF k = 0 THEN FirstMeaning ELSE MeaningStep(f[k - 1], ops[k])]
           h == CHOOSE f : f = After(f)
<1>1. n \in Nat /\ FirstMeaning \in Meanings /\ Steps(ops) \in [1 .. n -> [Meanings -> Meanings]]
  BY StepsTyped
<1>2. PICK f \in [0 .. n -> Meanings] : Along(n, FirstMeaning, Steps(ops), f)
  BY <1>1, AlongExists
<1>3. f = After(f)
  <2>1. ASSUME NEW k \in 0 .. n
        PROVE  f[k] = IF k = 0 THEN FirstMeaning ELSE MeaningStep(f[k - 1], ops[k])
    <3>1. CASE k = 0
      BY <1>2, <3>1 DEF Along
    <3>2. CASE k # 0
      <4>1. k \in 1 .. n /\ f[k - 1] \in Meanings
        BY <3>2
      <4>2. f[k] = Steps(ops)[k][f[k - 1]]
        BY <1>2, <4>1 DEF Along
      <4>3. Steps(ops)[k] = [m \in Meanings |-> MeaningStep(m, ops[k])]
        BY <4>1 DEF Steps
      <4> QED
        BY <3>2, <4>1, <4>2, <4>3
    <3> QED
      BY <3>1, <3>2
  <2> QED
    BY <2>1
<1>4. h = After(h)
  BY <1>3
<1>5. Meaning(ops) = h[n]
  BY DEF Meaning, FirstMeaning
<1> HIDE DEF h
<1>6. \A k \in 0 .. n : h[k] = IF k = 0 THEN FirstMeaning ELSE MeaningStep(h[k - 1], ops[k])
  BY <1>4
<1>7. \A k \in 0 .. n : h[k] \in Meanings
  <2> DEFINE A == {m \in Nat : m <= n => h[m] \in Meanings}
  <2>1. 0 \in A
    BY <1>1, <1>6
  <2>2. ASSUME NEW m \in Nat, m \in A PROVE m + 1 \in A
    <3> SUFFICES ASSUME m + 1 <= n PROVE h[m + 1] \in Meanings
      OBVIOUS
    <3>1. h[m] \in Meanings /\ h[m + 1] = MeaningStep(h[m], ops[m + 1]) /\ ops[m + 1] \in Operations
      BY <1>1, <1>6, <2>2
    <3>2. MeaningStep(h[m], ops[m + 1]) \in Meanings
      BY <3>1, StepIs
    <3> QED
      BY <3>1, <3>2
  <2> HIDE DEF A
  <2>3. Nat \subseteq A
    BY <2>1, <2>2, NatSet
  <2> QED
    BY <2>3 DEF A
<1>8. h \in [0 .. n -> Meanings]
  BY <1>4, <1>7
<1>9. Along(n, FirstMeaning, Steps(ops), h)
  <2>1. ASSUME NEW k \in 1 .. n PROVE h[k] = Steps(ops)[k][h[k - 1]]
    <3>1. h[k] = MeaningStep(h[k - 1], ops[k]) /\ h[k - 1] \in Meanings
      BY <1>6, <1>7
    <3> QED
      BY <3>1 DEF Steps
  <2> QED
    BY <1>1, <1>6, <2>1 DEF Along
<1> QED
  BY <1>5, <1>8, <1>9

LEMMA MeaningTyped ==
  ASSUME NEW ops \in Seq(Operations)
  PROVE  Meaning(ops) \in Meanings
BY MeaningAlong

LEMMA MeaningOfNone == Meaning(<<>>) = FirstMeaning
<1>1. <<>> \in Seq(Operations) /\ Len(<<>>) = 0
  OBVIOUS
<1>2. \E f \in [0 .. 0 -> Meanings] : Along(0, FirstMeaning, Steps(<<>>), f) /\ Meaning(<<>>) = f[0]
  BY <1>1, MeaningAlong
<1> QED
  BY <1>2 DEF Along

\* What is meant in front of an operation, and behind it.
LEMMA MeaningOfPart ==
  ASSUME NEW ops \in Seq(Operations), NEW k \in 1 .. Len(ops)
  PROVE  Meaning(SubSeq(ops, 1, k)) = MeaningStep(Meaning(SubSeq(ops, 1, k - 1)), ops[k])
<1>1. PICK f \in [0 .. Len(ops) -> Meanings] : Along(Len(ops), FirstMeaning, Steps(ops), f)
  BY MeaningAlong
<1>2. ASSUME NEW j \in 0 .. Len(ops) PROVE Meaning(SubSeq(ops, 1, j)) = f[j]
  <2> DEFINE p == SubSeq(ops, 1, j)
  <2>1. p \in Seq(Operations) /\ Len(p) = j /\ \A i \in 1 .. j : p[i] = ops[i]
    BY Part
  <2> HIDE DEF p
  <2>2. PICK g \in [0 .. j -> Meanings] : Along(j, FirstMeaning, Steps(p), g) /\ Meaning(p) = g[j]
    BY <2>1, MeaningAlong
  <2>3. \A i \in 1 .. j : Steps(p)[i] = Steps(ops)[i]
    BY <2>1 DEF Steps
  <2>4. Along(j, FirstMeaning, Steps(ops), f)
    BY <1>1 DEF Along
  <2>5. g[j] = f[j]
    BY <2>2, <2>3, <2>4, AlongSame
  <2> QED
    BY <2>2, <2>5 DEF p
<1>3. f[k] = MeaningStep(f[k - 1], ops[k])
  <2>1. f[k] = Steps(ops)[k][f[k - 1]] /\ f[k - 1] \in Meanings
    BY <1>1 DEF Along
  <2> QED
    BY <2>1 DEF Steps
<1> QED
  BY <1>2, <1>3

\* What is wrong stays wrong, and what is there stays there.
LEMMA MeaningGrows ==
  ASSUME NEW ops \in Seq(Operations), NEW k \in 0 .. Len(ops)
  PROVE  /\ ~Meaning(SubSeq(ops, 1, k)).ok => ~Meaning(ops).ok
         /\ Len(Meaning(SubSeq(ops, 1, k)).out) \in Nat
         /\ Len(Meaning(SubSeq(ops, 1, k)).out) <= Len(Meaning(ops).out)
<1> DEFINE n == Len(ops)
           M(j) == Meaning(SubSeq(ops, 1, j))
           L(j) == Len(M(j).out)
           U == {m \in Nat : k + m <= n => (~M(k).ok => ~M(k + m).ok) /\ L(k) <= L(k + m)}
<1>1. n \in Nat /\ \A j \in 0 .. n : M(j) \in Meanings /\ L(j) \in Nat
  <2>1. ASSUME NEW j \in 0 .. n PROVE M(j) \in Meanings /\ L(j) \in Nat
    <3>1. M(j) \in Meanings
      BY Part, MeaningTyped
    <3> HIDE DEF M
    <3>2. M(j).out \in Seq(Bytes)
      BY <3>1 DEF Meanings
    <3> QED
      BY <3>1, <3>2
  <2> QED
    BY <2>1
<1>2. ASSUME NEW j \in 1 .. n PROVE (~M(j - 1).ok => ~M(j).ok) /\ L(j - 1) <= L(j)
  <2>1. M(j) = MeaningStep(M(j - 1), ops[j]) /\ ops[j] \in Operations
    BY MeaningOfPart
  <2>2. M(j - 1) \in Meanings
    BY <1>1
  <2> HIDE DEF M
  <2>3. (~M(j - 1).ok => ~MeaningStep(M(j - 1), ops[j]).ok)
        /\ Len(MeaningStep(M(j - 1), ops[j]).out) >= Len(M(j - 1).out)
    BY <2>1, <2>2, StepIs
  <2>4. L(j) >= L(j - 1) /\ L(j) \in Nat /\ L(j - 1) \in Nat
    BY <1>1, <2>1, <2>3
  <2> QED
    BY <2>1, <2>3, <2>4
<1>3. M(n) = Meaning(ops)
  BY Part
<1> HIDE DEF M, L
<1>4. 0 \in U
  BY <1>1
<1>5. ASSUME NEW m \in Nat, m \in U PROVE m + 1 \in U
  <2> SUFFICES ASSUME k + (m + 1) <= n
               PROVE  (~M(k).ok => ~M(k + (m + 1)).ok) /\ L(k) <= L(k + (m + 1))
    OBVIOUS
  <2>1. k + m \in 0 .. n /\ k + (m + 1) \in 1 .. n /\ k + (m + 1) - 1 = k + m
    BY <1>1
  <2>2. (~M(k).ok => ~M(k + m).ok) /\ L(k) <= L(k + m)
    BY <1>1, <1>5
  <2>3. (~M(k + m).ok => ~M(k + (m + 1)).ok) /\ L(k + m) <= L(k + (m + 1))
    BY <1>2, <2>1
  <2>4. L(k) \in Nat /\ L(k + m) \in Nat /\ L(k + (m + 1)) \in Nat
    BY <1>1, <2>1
  <2>5. L(k) <= L(k + (m + 1))
    BY <2>2, <2>3, <2>4
  <2> QED
    BY <2>2, <2>3, <2>5
<1> HIDE DEF U
<1>6. n - k \in Nat /\ n - k \in U /\ k + (n - k) = n
  BY <1>1, <1>4, <1>5, NatSet
<1>7. (~M(k).ok => ~M(n).ok) /\ L(k) <= L(n) /\ L(k) \in Nat
  BY <1>1, <1>6 DEF U
<1> QED
  BY <1>3, <1>7 DEF M, L

\* Lists.
LEMMA Joined ==
  ASSUME NEW T, NEW p \in Seq(T), NEW q \in Seq(T)
  PROVE  /\ p \o q \in Seq(T) /\ Len(p \o q) = Len(p) + Len(q) /\ Len(p) \in Nat /\ Len(q) \in Nat
         /\ \A i \in 1 .. Len(p) : (p \o q)[i] = p[i]
         /\ \A i \in 1 .. Len(q) : (p \o q)[Len(p) + i] = q[i]
OBVIOUS

LEMMA Joined3 ==
  ASSUME NEW T, NEW p \in Seq(T), NEW q \in Seq(T), NEW r \in Seq(T)
  PROVE  (p \o q) \o r = p \o (q \o r)
OBVIOUS

LEMMA SameSeq ==
  ASSUME NEW T, NEW p \in Seq(T), NEW q \in Seq(T), Len(p) = Len(q),
         \A i \in 1 .. Len(p) : p[i] = q[i]
  PROVE  p = q
OBVIOUS

\* One more operation at the end.
LEMMA OneMore ==
  ASSUME NEW ops \in Seq(Operations), NEW op \in Operations
  PROVE  /\ ops \o <<op>> \in Seq(Operations)
         /\ Meaning(ops \o <<op>>) = MeaningStep(Meaning(ops), op)
         /\ CodeBytes(ops \o <<op>>) = CodeBytes(ops) + OpBytes(op)
<1> DEFINE more == ops \o <<op>>
           n == Len(ops)
<1>1. more \in Seq(Operations) /\ n \in Nat /\ Len(more) = n + 1 /\ more[n + 1] = op
  OBVIOUS
<1>2. SubSeq(more, 1, n) = ops
  <2>1. \A i \in 1 .. n : more[i] = ops[i]
    OBVIOUS
  <2> HIDE DEF more
  <2>2. n \in 0 .. Len(more)
    BY <1>1
  <2>3. SubSeq(more, 1, n) \in Seq(Operations) /\ Len(SubSeq(more, 1, n)) = n
        /\ \A i \in 1 .. n : SubSeq(more, 1, n)[i] = more[i]
    BY <1>1, <2>2, Part
  <2>4. \A i \in 1 .. n : SubSeq(more, 1, n)[i] = ops[i]
    BY <2>1, <2>3
  <2> QED
    BY <2>3, <2>4, SameSeq
<1> HIDE DEF more
<1>3. n + 1 \in 1 .. Len(more) /\ n + 1 - 1 = n /\ SubSeq(more, 1, n + 1) = more
  BY <1>1, Part
<1>4. Meaning(SubSeq(more, 1, n + 1)) = MeaningStep(Meaning(SubSeq(more, 1, n + 1 - 1)), more[n + 1])
  BY <1>1, <1>3, MeaningOfPart
<1>5. CodeBytes(SubSeq(more, 1, n + 1)) = CodeBytes(SubSeq(more, 1, n + 1 - 1)) + OpBytes(more[n + 1])
  BY <1>1, <1>3, BytesStep
<1>6. Meaning(more) = MeaningStep(Meaning(ops), op) /\ CodeBytes(more) = CodeBytes(ops) + OpBytes(op)
  BY <1>1, <1>2, <1>3, <1>4, <1>5
<1> QED
  BY <1>1, <1>6 DEF more

-----------------------------------------------------------------------------
(* What is emitted can be written                                          *)

LEMMA FieldTyped ==
  ASSUME NEW v \in Nat, NEW inline \in Nat, NEW base \in Nat, base <= inline
  PROVE  LengthField(v, inline, base).code \in 0 .. inline + 2 /\ LengthField(v, inline, base).ext \in Nat
<1> DEFINE rest == v - base
<1>1. Room1 \in Nat /\ Room2 \in Nat /\ Room3 \in Nat \ {0}
  BY LengthAssumption
<1>2. CASE v < inline
  BY <1>2 DEF LengthField
<1>3. CASE v >= inline
  <2>1. rest \in Nat /\ ~(v < inline)
    BY <1>3
  <2>2. rest % Room3 \in Nat
    BY <1>1, <2>1, Remainder
  <2> HIDE DEF rest
  <2>3. LengthField(v, inline, base) = IF rest < Room1 THEN [code |-> inline, ext |-> rest]
                                       ELSE IF rest < Room2 THEN [code |-> inline + 1, ext |-> rest]
                                       ELSE [code |-> inline + 2, ext |-> rest % Room3]
    BY <2>1 DEF LengthField, rest
  <2> QED
    BY <2>1, <2>2, <2>3
<1> QED
  BY <1>2, <1>3

LEMMA OffsetField ==
  ASSUME NEW off \in Nat, NEW base \in Nat, off >= base, NEW room \in Nat \ {0}
  PROVE  (off - base) % room \in Nat
<1>1. off - base \in Nat
  OBVIOUS
<1> QED
  BY <1>1, Remainder

LEMMA OpTyped ==
  ASSUME NEW tag \in Tags, NEW field, field.ext \in Nat,
         field.code \in 0 .. IF tag = "fused2" THEN FusedInline ELSE Inline(tag) + 2,
         NEW off \in Nat, NEW lits \in Seq(Bytes),
         tag = "literal" => Len(lits) = ReadLength(Op(tag, field, off, lits)),
         tag = "fused2" => Len(lits) \in 1 .. MaxCopy2Lits,
         tag = "copy3" => Len(lits) \in 0 .. MaxCopy3Lits,
         tag \in {"repeat", "copy1", "copy2"} => lits = <<>>
  PROVE  Op(tag, field, off, lits) \in Operations
<1> DEFINE op == Op(tag, field, off, lits)
<1>1. Inline(tag) \in Nat /\ FusedInline \in Nat
  BY LengthAssumption DEF Inline
<1>2. field.code \in Nat /\ field.code <= IF tag = "fused2" THEN FusedInline ELSE Inline(tag) + 2
  BY <1>1
<1>3. op = [tag |-> tag, code |-> field.code, ext |-> field.ext, off |-> off, lits |-> lits]
  BY DEF Op
<1>4. op \in [tag : Tags, code : Nat, ext : Nat, off : Nat, lits : Seq(Bytes)]
  BY <1>2, <1>3
<1>5. op.tag = tag /\ op.code = field.code /\ op.lits = lits
  BY <1>3
<1>6. tag = "literal" => Len(lits) = ReadLength(op)
  OBVIOUS
<1> HIDE DEF op
<1> QED
  BY <1>2, <1>4, <1>5, <1>6 DEF Operations, op

LEMMA PlainTyped ==
  ASSUME NEW tag \in Tags \ {"fused2"}, NEW field, field.ext \in Nat,
         field.code \in 0 .. Inline(tag) + 2,
         NEW off \in Nat, NEW lits \in Seq(Bytes),
         tag = "literal" => Len(lits) = ReadLength(Op(tag, field, off, lits)),
         tag = "copy3" => Len(lits) \in 0 .. MaxCopy3Lits,
         tag \in {"repeat", "copy1", "copy2"} => lits = <<>>
  PROVE  Op(tag, field, off, lits) \in Operations
BY OpTyped

LEMMA NoLits == <<>> \in Seq(Bytes) /\ Len(<<>>) = 0
OBVIOUS

LEMMA OneOp ==
  ASSUME NEW op \in Operations
  PROVE  <<op>> \in Seq(Operations) /\ Len(<<op>>) = 1 /\ <<op>>[1] = op
OBVIOUS

LEMMA LiteralTyped ==
  ASSUME NEW lits \in Seq(Bytes), Len(lits) <= Room3
  PROVE  EmitLiteral(lits) \in Seq(Operations)
<1>1. CASE lits = <<>>
  BY <1>1 DEF EmitLiteral
<1>2. CASE lits # <<>>
  <2> DEFINE n == Len(lits)
             op == Op("literal", LitField(n), 0, lits)
  <2>1. n \in 1 .. Room3
    BY <1>2, LengthAssumption
  <2> HIDE DEF n
  <2>2. ReadLength(op) = n
    BY <2>1, LitFieldReads
  <2>3. n - 1 \in Nat /\ LitInline \in Nat /\ LitInline <= LitInline
    BY <2>1, LengthAssumption
  <2>4. LitField(n).code \in 0 .. LitInline + 2 /\ LitField(n).ext \in Nat
    BY <2>3, FieldTyped DEF LitField
  <2>5. Inline("literal") = LitInline
    BY DEF Inline
  <2>6. op \in Operations
    BY <2>2, <2>4, <2>5, PlainTyped DEF Tags, n
  <2>7. EmitLiteral(lits) = <<op>>
    BY <1>2 DEF EmitLiteral, n
  <2> HIDE DEF op
  <2> QED
    BY <2>6, <2>7, OneOp
<1> QED
  BY <1>1, <1>2

LEMMA RepeatTyped ==
  ASSUME NEW n \in Nat \ {0}
  PROVE  EmitRepeat(n) \in Seq(Operations)
<1> DEFINE op == Op("repeat", LitField(n), 0, <<>>)
<1>1. n - 1 \in Nat /\ LitInline \in Nat
  BY LengthAssumption
<1>2. LitField(n).code \in 0 .. LitInline + 2 /\ LitField(n).ext \in Nat
  BY <1>1, FieldTyped DEF LitField
<1>3. Inline("repeat") = LitInline
  BY DEF Inline
<1>4. op \in Operations
  BY <1>2, <1>3, NoLits, PlainTyped DEF Tags
<1> QED
  BY <1>4, OneOp DEF EmitRepeat

LEMMA CopyFieldTyped ==
  ASSUME NEW n \in Nat, n >= MinMatch
  PROVE  /\ CopyField(n).code \in 0 .. CopyInline + 1 + 2 /\ CopyField(n).ext \in Nat
         /\ Inline("copy2") = CopyInline + 1 /\ Inline("copy3") = CopyInline + 1
<1>1. n - MinMatch \in Nat /\ CopyInline \in Nat /\ CopyInline + 1 \in Nat /\ CopyInline <= CopyInline + 1
  BY LengthAssumption DEF MinMatch
<1> QED
  BY <1>1, FieldTyped DEF CopyField, Inline

LEMMA Copy2Typed ==
  ASSUME NEW off \in Nat, off >= MinCopy2Offset, NEW n \in Nat, n >= MinMatch
  PROVE  EncodeCopy2(off, n) \in Seq(Operations) /\ EncodeCopy2(off, n)[1].lits = <<>>
<1> DEFINE field == (off - MinCopy2Offset) % Copy2Offsets
           op == Op("copy2", CopyField(n), field, <<>>)
<1>1. field \in Nat
  BY OffsetAssumption, OffsetField
<1> HIDE DEF field
<1>2. op \in Operations
  BY <1>1, CopyFieldTyped, NoLits, PlainTyped DEF Tags
<1>3. op.lits = <<>>
  BY DEF Op
<1> QED
  BY <1>2, <1>3, OneOp DEF EncodeCopy2, field

LEMMA Copy3Typed ==
  ASSUME NEW off \in Nat, off >= MinCopy3Offset, NEW n \in Nat, n >= MinMatch,
         NEW lits \in Seq(Bytes), Len(lits) \in 0 .. MaxCopy3Lits
  PROVE  EncodeCopy3(off, n, lits) \in Seq(Operations) /\ EncodeCopy3(off, n, lits)[1].lits = lits
<1> DEFINE field == (off - MinCopy3Offset) % Copy3Offsets
           op == Op("copy3", CopyField(n), field, lits)
<1>1. field \in Nat
  BY OffsetAssumption, OffsetField
<1> HIDE DEF field
<1>2. op \in Operations
  BY <1>1, CopyFieldTyped, PlainTyped DEF Tags
<1>3. op.lits = lits
  BY DEF Op
<1> QED
  BY <1>2, <1>3, OneOp DEF EncodeCopy3, field

LEMMA Fused2Typed ==
  ASSUME NEW off \in Nat, off >= MinCopy2Offset, NEW n \in Nat, n >= MinMatch,
         NEW lits \in Seq(Bytes), Len(lits) \in 1 .. MaxCopy2Lits
  PROVE  EmitCopyLits2(lits, off, n) \in Seq(Operations) /\ EmitCopyLits2(lits, off, n)[1].lits = lits
<1> DEFINE field == (off - MinCopy2Offset) % Copy2Offsets
           Fused(c) == Op("fused2", [code |-> c, ext |-> 0], field, lits)
<1>1. field \in Nat
  BY OffsetAssumption, OffsetField
<1> HIDE DEF field
<1>2. FusedInline \in Nat /\ n - MinMatch \in Nat
  BY LengthAssumption DEF MinMatch
<1>3. ASSUME NEW c \in 0 .. FusedInline PROVE Fused(c) \in Operations /\ Fused(c).lits = lits
  <2>1. [code |-> c, ext |-> 0].code = c /\ [code |-> c, ext |-> 0].ext = 0
    OBVIOUS
  <2>2. Fused(c) \in Operations
    <3> DEFINE f == [code |-> c, ext |-> 0]
    <3>1. f.code \in 0 .. IF "fused2" = "fused2" THEN FusedInline ELSE Inline("fused2") + 2
      OBVIOUS
    <3>2. f.ext \in Nat
      OBVIOUS
    <3> HIDE DEF f
    <3>3. Op("fused2", f, field, lits) \in Operations
      BY <1>1, <3>1, <3>2, OpTyped DEF Tags
    <3> QED
      BY <3>3 DEF f
  <2> QED
    BY <2>2 DEF Op
<1>4. CASE n > Copy2LitMaxLen
  <2> DEFINE op == Fused(FusedInline)
             r == n - Copy2LitMaxLen
  <2>1. op \in Operations /\ op.lits = lits
    BY <1>2, <1>3
  <2>2. r \in Nat \ {0}
    BY <1>2, <1>4 DEF Copy2LitMaxLen
  <2>3. EmitCopyLits2(lits, off, n) = <<op>> \o EmitRepeat(r)
    BY <1>4 DEF EmitCopyLits2, Op, field
  <2> HIDE DEF op, r
  <2>4. EmitRepeat(r) \in Seq(Operations) /\ <<op>> \in Seq(Operations) /\ Len(<<op>>) = 1 /\ <<op>>[1] = op
    BY <2>1, <2>2, RepeatTyped, OneOp
  <2>5. <<op>> \o EmitRepeat(r) \in Seq(Operations) /\ (<<op>> \o EmitRepeat(r))[1] = op
    BY <2>4
  <2> QED
    BY <2>1, <2>3, <2>5
<1>5. CASE ~(n > Copy2LitMaxLen)
  <2> DEFINE op == Fused(n - MinMatch)
  <2>1. n - MinMatch \in 0 .. FusedInline
    BY <1>2, <1>5 DEF Copy2LitMaxLen, MinMatch
  <2>2. op \in Operations /\ op.lits = lits
    BY <1>3, <2>1
  <2>3. EmitCopyLits2(lits, off, n) = <<op>>
    BY <1>5 DEF EmitCopyLits2, Op, field
  <2> HIDE DEF op
  <2> QED
    BY <2>2, <2>3, OneOp
<1> QED
  BY <1>4, <1>5

LEMMA CopyTyped ==
  ASSUME NEW off \in Nat \ {0}, NEW n \in Nat, n >= MinMatch
  PROVE  EmitCopy(off, n) \in Seq(Operations) /\ EmitCopy(off, n)[1].lits = <<>>
<1> USE OffsetAssumption, LengthAssumption
<1>1. CASE off > MaxCopy2Offset
  <2>1. off >= MinCopy3Offset /\ MaxCopy3Lits \in Nat
    BY <1>1 DEF MaxCopy2Offset
  <2>2. Len(<<>>) \in 0 .. MaxCopy3Lits
    BY <2>1, NoLits
  <2> QED
    <3>1. EmitCopy(off, n) = EncodeCopy3(off, n, <<>>)
      BY <1>1 DEF EmitCopy
    <3>2. <<>> \in Seq(Bytes) /\ off \in Nat
      BY NoLits
    <3>3. EncodeCopy3(off, n, <<>>) \in Seq(Operations) /\ EncodeCopy3(off, n, <<>>)[1].lits = <<>>
      BY <2>1, <2>2, <3>2, Copy3Typed
    <3> QED
      BY <3>1, <3>3
<1>2. CASE off <= MaxCopy2Offset /\ off > MaxCopy1Offset
  <2>1. off >= MinCopy2Offset /\ ~(off > MaxCopy2Offset)
    BY <1>2 DEF MaxCopy2Offset
  <2> QED
    BY <1>2, <2>1, Copy2Typed DEF EmitCopy
<1>3. CASE off <= MaxCopy1Offset
  <2> DEFINE v == n - MinMatch
             field == LengthField(v, Copy1Inline, Copy1Inline - 1)
             short == Op("copy1", field, off - 1, <<>>)
             long == Op("copy1", [code |-> Copy1Inline - 1, ext |-> 0], off - 1, <<>>)
  <2>1. ~(off > MaxCopy2Offset) /\ ~(off > MaxCopy1Offset) /\ off - 1 \in Nat
    BY <1>3 DEF MaxCopy2Offset
  <2>2. v \in Nat /\ Copy1Inline \in Nat /\ Copy1Inline - 1 \in Nat /\ Copy1Inline - 1 <= Copy1Inline
    BY DEF MinMatch
  <2>3. Inline("copy1") = Copy1Inline
    BY DEF Inline
  <2> HIDE DEF v
  <2>4. field.code \in 0 .. Copy1Inline + 2 /\ field.ext \in Nat
    BY <2>2, FieldTyped
  <2> HIDE DEF field
  <2>5. short \in Operations /\ short.lits = <<>>
    <3>1. short \in Operations
      BY <2>1, <2>3, <2>4, NoLits, PlainTyped DEF Tags
    <3> QED
      BY <3>1 DEF Op
  <2>6. long \in Operations /\ long.lits = <<>>
    <3> DEFINE f == [code |-> Copy1Inline - 1, ext |-> 0]
    <3>1. f.code \in 0 .. Copy1Inline + 2 /\ f.ext \in Nat
      BY <2>2
    <3> HIDE DEF f
    <3>2. Op("copy1", f, off - 1, <<>>) \in Operations
      BY <2>1, <2>3, <3>1, NoLits, PlainTyped DEF Tags
    <3> QED
      BY <3>2 DEF Op, f
  <2>7. CASE n < Room1 + Copy1Max
    <3>1. EmitCopy(off, n) = <<short>>
      BY <2>1, <2>7 DEF EmitCopy, field, v
    <3> HIDE DEF short
    <3> QED
      BY <2>5, <3>1, OneOp
  <2>8. CASE ~(n < Room1 + Copy1Max)
    <3> DEFINE r == n - Copy1Max
    <3>1. EmitCopy(off, n) = <<long>> \o EmitRepeat(r)
      BY <2>1, <2>8 DEF EmitCopy
    <3>2. r \in Nat \ {0}
      BY <2>8 DEF Copy1Max
    <3> HIDE DEF long, r
    <3>3. EmitRepeat(r) \in Seq(Operations) /\ <<long>> \in Seq(Operations)
          /\ Len(<<long>>) = 1 /\ <<long>>[1] = long
      BY <2>6, <3>2, RepeatTyped, OneOp
    <3>4. <<long>> \o EmitRepeat(r) \in Seq(Operations) /\ (<<long>> \o EmitRepeat(r))[1] = long
      BY <3>3
    <3> QED
      BY <2>6, <3>1, <3>4
  <2> QED
    BY <2>7, <2>8
<1> QED
  BY <1>1, <1>2, <1>3, SMTT(20) DEF MaxCopy2Offset

-----------------------------------------------------------------------------
(* What is emitted means what it should                                    *)

\* From position from up to to, every byte of w is the one off before it.
Repeats(w, off, from, to) == \A q \in from .. to - 1 : w[q + 1] = w[q + 1 - off]

\* Byte by byte, a copy goes on with what it has copied.
LEMMA CopyGoesOn ==
  ASSUME NEW T, NEW w \in Seq(T), NEW b \in Nat, NEW off \in 1 .. b, NEW n \in Nat,
         b + n <= Len(w), Repeats(w, off, b, b + n)
  PROVE  SubSeq(w, 1, b) \o Copied(SubSeq(w, 1, b), off, n) = SubSeq(w, 1, b + n)
<1> DEFINE p == SubSeq(w, 1, b)
           c == Copied(p, off, n)
           all == SubSeq(w, 1, b + n)
<1>1. b \in 0 .. Len(w) /\ b + n \in 0 .. Len(w)
  OBVIOUS
<1>2. p \in Seq(T) /\ Len(p) = b /\ \A i \in 1 .. b : p[i] = w[i]
  BY <1>1, Part
<1>3. all \in Seq(T) /\ Len(all) = b + n /\ \A i \in 1 .. b + n : all[i] = w[i]
  BY <1>1, Part
<1> HIDE DEF p, all
<1>4. /\ c \in Seq(T) /\ Len(c) = n
      /\ \A i \in 1 .. n : c[i] = p[Len(p) - off + 1 + ((i - 1) % off)]
  BY <1>2, CopiedIs
<1> HIDE DEF c
<1> DEFINE Is(i) == w[b + i + 1] = w[b - off + 1 + (i % off)]
           A == {m \in Nat : \A i \in 0 .. n - 1 : i < m => Is(i)}
<1>5. 0 \in A
  OBVIOUS
<1>6. ASSUME NEW m \in Nat, m \in A PROVE m + 1 \in A
  <2>0. SUFFICES ASSUME m <= n - 1 PROVE Is(m)
    <3> HIDE DEF Is
    <3>1. ASSUME NEW i \in 0 .. n - 1, i < m + 1 PROVE Is(i)
      <4>1. CASE i < m
        BY <1>6, <4>1
      <4>2. CASE ~(i < m)
        <5>1. i = m /\ m <= n - 1
          BY <3>1, <4>2
        <5> QED
          BY <2>0, <5>1
      <4> QED
        BY <4>1, <4>2
    <3> QED
      BY <3>1
  <2>1. w[b + m + 1] = w[b + m + 1 - off]
    <3> DEFINE q == b + m
    <3>1. q \in b .. b + n - 1
      BY <2>0
    <3> HIDE DEF q
    <3>2. w[q + 1] = w[q + 1 - off]
      BY <3>1 DEF Repeats
    <3> QED
      BY <3>2 DEF q
  <2>2. CASE m < off
    <3> DEFINE r == m % off
    <3>1. r = m
      BY <2>2, FieldFits
    <3> HIDE DEF r
    <3>2. b + m + 1 - off = b - off + 1 + r
      BY <3>1
    <3>3. w[b + m + 1] = w[b - off + 1 + r]
      BY <2>1, <3>2
    <3> QED
      BY <3>3 DEF r
  <2>3. CASE ~(m < off)
    <3>1. m - off \in Nat /\ m - off \in 0 .. n - 1 /\ m - off < m /\ off \in Nat \ {0}
      BY <2>0, <2>3
    <3>2. Is(m - off)
      BY <1>6, <3>1
    <3>3. (m - off + off) % off = (m - off) % off
      BY <3>1, RemainderBack
    <3>4. m - off + off = m /\ b + (m - off) + 1 = b + m + 1 - off
      BY <3>1
    <3> QED
      BY <2>1, <3>2, <3>3, <3>4
  <2> QED
    BY <2>2, <2>3
<1> HIDE DEF A
<1>7. Nat \subseteq A
  BY <1>5, <1>6, NatSet
<1>8. ASSUME NEW i \in 0 .. n - 1 PROVE Is(i)
  <2>1. i + 1 \in Nat /\ i + 1 \in A /\ i < i + 1
    BY <1>7
  <2> HIDE DEF Is
  <2> QED
    BY <2>1 DEF A
<1>9. ASSUME NEW i \in 1 .. n PROVE c[i] = all[b + i]
  <2>1. i - 1 \in 0 .. n - 1 /\ i - 1 \in Nat /\ off \in Nat \ {0}
    OBVIOUS
  <2> DEFINE r == (i - 1) % off
  <2>2. r \in 0 .. off - 1
    BY <2>1, Remainder
  <2>3. w[b + (i - 1) + 1] = w[b - off + 1 + r] /\ c[i] = p[b - off + 1 + r]
    BY <1>2, <1>4, <1>8, <2>1
  <2> HIDE DEF r
  <2>4. b - off + 1 + r \in 1 .. b /\ b + i \in 1 .. b + n /\ b + (i - 1) + 1 = b + i
    BY <2>2
  <2> QED
    BY <1>2, <1>3, <2>3, <2>4
<1> DEFINE pq == p \o c
<1>10. pq \in Seq(T) /\ Len(pq) = b + n
       /\ (\A i \in 1 .. b : pq[i] = p[i]) /\ (\A i \in 1 .. n : pq[b + i] = c[i])
  <2>1. pq \in Seq(T) /\ Len(pq) = Len(p) + Len(c)
    BY <1>2, <1>4, Joined
  <2>2. \A i \in 1 .. Len(p) : pq[i] = p[i]
    BY <1>2, <1>4, Joined
  <2>3. \A i \in 1 .. Len(c) : pq[Len(p) + i] = c[i]
    BY <1>2, <1>4, Joined
  <2> HIDE DEF pq
  <2> QED
    BY <1>2, <1>4, <2>1, <2>2, <2>3
<1> HIDE DEF pq
<1>11. ASSUME NEW i \in 1 .. b + n PROVE pq[i] = all[i]
  <2>1. CASE i <= b
    BY <1>2, <1>3, <1>10, <2>1
  <2>2. CASE i > b
    <3>1. i - b \in 1 .. n /\ b + (i - b) = i
      BY <2>2
    <3> QED
      BY <1>9, <1>10, <3>1
  <2> QED
    BY <2>1, <2>2
<1>12. pq = all
  BY <1>3, <1>10, <1>11, SameSeq
<1> QED
  BY <1>12 DEF p, c, all, pq

\* The operations ops mean the first n bytes of w, with off as the last offset.
Means(ops, w, n, off) ==
  /\ ops \in Seq(Operations)
  /\ Meaning(ops).ok /\ Meaning(ops).off = off /\ Meaning(ops).out = SubSeq(w, 1, n)

LEMMA SliceAfter ==
  ASSUME NEW T, NEW w \in Seq(T), NEW a \in Nat, NEW b \in a .. Len(w)
  PROVE  /\ SubSeq(w, a + 1, b) \in Seq(T) /\ Len(SubSeq(w, a + 1, b)) = b - a
         /\ SubSeq(w, 1, a) \o SubSeq(w, a + 1, b) = SubSeq(w, 1, b)
<1> DEFINE p == SubSeq(w, 1, a)
           q == SubSeq(w, a + 1, b)
           all == SubSeq(w, 1, b)
<1>1. p \in Seq(T) /\ Len(p) = a /\ \A i \in 1 .. a : p[i] = w[i]
  BY Part
<1>2. all \in Seq(T) /\ Len(all) = b /\ \A i \in 1 .. b : all[i] = w[i]
  BY Part
<1>3. q \in Seq(T) /\ Len(q) = b - a /\ \A i \in 1 .. b - a : q[i] = w[a + i]
  OBVIOUS
<1> HIDE DEF p, q, all
<1> DEFINE pq == p \o q
<1>4. pq \in Seq(T) /\ Len(pq) = b
      /\ (\A i \in 1 .. a : pq[i] = p[i]) /\ (\A i \in 1 .. b - a : pq[a + i] = q[i])
  <2>1. pq \in Seq(T) /\ Len(pq) = Len(p) + Len(q)
    BY <1>1, <1>3, Joined
  <2>2. \A i \in 1 .. Len(p) : pq[i] = p[i]
    BY <1>1, <1>3, Joined
  <2>3. \A i \in 1 .. Len(q) : pq[Len(p) + i] = q[i]
    BY <1>1, <1>3, Joined
  <2> HIDE DEF pq
  <2> QED
    BY <1>1, <1>3, <2>1, <2>2, <2>3
<1> HIDE DEF pq
<1>5. ASSUME NEW i \in 1 .. b PROVE pq[i] = all[i]
  <2>1. CASE i <= a
    BY <1>1, <1>2, <1>4, <2>1
  <2>2. CASE i > a
    <3>1. i - a \in 1 .. b - a /\ a + (i - a) = i
      BY <2>2
    <3> QED
      BY <1>2, <1>3, <1>4, <3>1
  <2> QED
    BY <2>1, <2>2
<1>6. pq = all
  BY <1>2, <1>4, <1>5, SameSeq
<1> QED
  BY <1>3, <1>6 DEF p, q, all, pq

\* Literals.
LEMMA LiteralMeans ==
  ASSUME NEW ops, NEW w \in Seq(Bytes), Len(w) <= Room3, NEW a \in Nat, NEW b \in a .. Len(w), NEW off,
         Means(ops, w, a, off)
  PROVE  Means(ops \o EmitLiteral(SubSeq(w, a + 1, b)), w, b, off)
<1> DEFINE lits == SubSeq(w, a + 1, b)
<1>1. lits \in Seq(Bytes) /\ Len(lits) = b - a /\ SubSeq(w, 1, a) \o lits = SubSeq(w, 1, b)
  BY SliceAfter
<1>2. ops \in Seq(Operations)
  BY DEF Means
<1> HIDE DEF lits
<1>3. CASE lits = <<>>
  <2>1. b = a
    BY <1>1, <1>3
  <2>2. ops \o EmitLiteral(lits) = ops
    BY <1>2, <1>3 DEF EmitLiteral
  <2> QED
    BY <2>1, <2>2 DEF lits
<1>4. CASE lits # <<>>
  <2> DEFINE op == Op("literal", LitField(Len(lits)), 0, lits)
             m == Meaning(ops)
  <2>1. EmitLiteral(lits) = <<op>>
    BY <1>4 DEF EmitLiteral
  <2>2. op.tag = "literal" /\ op.lits = lits
    BY DEF Op
  <2>3. Room3 \in Nat
    BY LengthAssumption
  <2>4. Len(lits) <= Room3
    BY <1>1, <2>3
  <2>5. <<op>> \in Seq(Operations)
    BY <1>1, <2>1, <2>4, LiteralTyped
  <2> HIDE DEF op
  <2>6. op \in Operations
    <3>1. 1 \in 1 .. Len(<<op>>) /\ <<op>>[1] = op
      OBVIOUS
    <3> QED
      BY <2>5, <3>1
  <2>7. ops \o <<op>> \in Seq(Operations) /\ Meaning(ops \o <<op>>) = MeaningStep(m, op)
    BY <1>2, <2>6, OneMore
  <2>8. m \in Meanings /\ m.ok /\ m.off = off /\ m.out = SubSeq(w, 1, a)
    BY <1>2, MeaningTyped DEF Means
  <2> HIDE DEF m
  <2>9. ~IsCopy(op)
    BY <2>2 DEF IsCopy
  <2>10. MeaningStep(m, op).ok /\ MeaningStep(m, op).off = m.off /\ MeaningStep(m, op).out = m.out \o op.lits
    BY <2>2, <2>6, <2>8, <2>9, StepIs
  <2> QED
    BY <1>1, <2>1, <2>2, <2>7, <2>8, <2>10 DEF Means, lits
<1> QED
  BY <1>3, <1>4

LEMMA NoSlice ==
  ASSUME NEW T, NEW w \in Seq(T), NEW c \in 0 .. Len(w)
  PROVE  SubSeq(w, c + 1, c) = <<>>
<1>1. c \in Nat /\ c \in c .. Len(w) /\ c - c = 0
  OBVIOUS
<1>2. SubSeq(w, c + 1, c) \in Seq(T) /\ Len(SubSeq(w, c + 1, c)) = c - c
  BY <1>1, SliceAfter
<1> QED
  BY <1>1, <1>2

LEMMA RepeatsPart ==
  ASSUME NEW w, NEW off, NEW from \in Int, NEW to \in Int, Repeats(w, off, from, to),
         NEW f \in Int, NEW t \in Int, from <= f, t <= to
  PROVE  Repeats(w, off, f, t)
<1>1. ASSUME NEW q \in f .. t - 1 PROVE q \in from .. to - 1
  OBVIOUS
<1> QED
  BY <1>1 DEF Repeats

\* One copy, behind the literals it carries.
LEMMA OneCopyMeans ==
  ASSUME NEW ops, NEW w \in Seq(Bytes), NEW a \in Nat, NEW b \in a .. Len(w), NEW last,
         Means(ops, w, a, last), NEW op \in Operations, IsCopy(op), op.lits = SubSeq(w, a + 1, b),
         NEW off \in 1 .. b, off = IF op.tag = "repeat" THEN last ELSE ReadOffset(op),
         NEW n \in Nat, ReadLength(op) = n, b + n <= Len(w), Repeats(w, off, b, b + n)
  PROVE  Means(ops \o <<op>>, w, b + n, off)
<1> DEFINE m == Meaning(ops)
           to == SubSeq(w, 1, b)
<1>1. ops \in Seq(Operations)
  BY DEF Means
<1>2. ops \o <<op>> \in Seq(Operations) /\ Meaning(ops \o <<op>>) = MeaningStep(m, op)
  BY <1>1, OneMore
<1>3. m \in Meanings /\ m.ok /\ m.off = last /\ m.out = SubSeq(w, 1, a)
  BY <1>1, MeaningTyped DEF Means
<1>4. m.out \o op.lits = to
  BY <1>3, SliceAfter
<1>5. to \in Seq(Bytes) /\ Len(to) = b
  BY Part
<1>6. to \o Copied(to, off, n) = SubSeq(w, 1, b + n)
  <2>1. b \in Nat
    OBVIOUS
  <2>2. SubSeq(w, 1, b) \o Copied(SubSeq(w, 1, b), off, n) = SubSeq(w, 1, b + n)
    BY <2>1, CopyGoesOn
  <2> QED
    BY <2>2
<1> HIDE DEF m, to
<1>7. op.tag # "literal"
  BY DEF IsCopy
<1>8. off = IF op.tag \in {"literal", "repeat"} THEN m.off ELSE ReadOffset(op)
  BY <1>3, <1>7
<1>9. ~(off > Len(to))
  BY <1>5
<1>10. /\ MeaningStep(m, op).ok /\ MeaningStep(m, op).off = off
       /\ MeaningStep(m, op).out = to \o Copied(to, off, n)
  <2> DEFINE lits == m.out \o op.lits
             back == IF op.tag \in {"literal", "repeat"} THEN m.off ELSE ReadOffset(op)
  <2>1. m.ok /\ ~(IsCopy(op) /\ back > Len(lits)) =>
          /\ MeaningStep(m, op).ok /\ MeaningStep(m, op).off = back
          /\ MeaningStep(m, op).out =
               IF IsCopy(op) THEN lits \o Copied(lits, back, ReadLength(op)) ELSE lits
    BY <1>3, StepIs
  <2>2. lits = to /\ back = off
    BY <1>4, <1>8
  <2> HIDE DEF lits, back
  <2> QED
    BY <1>3, <1>9, <2>1, <2>2
<1> QED
  BY <1>2, <1>6, <1>10 DEF Means

LEMMA OneOrTwo ==
  ASSUME NEW T, NEW x \in Seq(T)
  PROVE  /\ Len(x) = 1 => x[1] \in T /\ x = <<x[1]>>
         /\ Len(x) = 2 => x[1] \in T /\ x[2] \in T /\ x = <<x[1]>> \o <<x[2]>>
OBVIOUS

LEMMA OpsJoined ==
  \A p, q, r \in Seq(Operations) : (p \o q) \o r = p \o (q \o r)
BY Joined3

\* emitCopy and the fused copies.
LEMMA CopyMeans ==
  ASSUME NEW ops, NEW w \in Seq(Bytes), NEW a \in Nat, NEW b \in a .. Len(w), NEW last,
         Means(ops, w, a, last), NEW off \in 1 .. b, NEW n \in Nat,
         NEW x \in Seq(Operations), CopyReads(x, off, n), x[1].lits = SubSeq(w, a + 1, b),
         b + n <= Len(w), Repeats(w, off, b, b + n)
  PROVE  Means(ops \o x, w, b + n, off)
<1>1. Len(x) \in {1, 2} /\ x[1].tag \in CopyTags /\ ReadOffset(x[1]) = off
  BY DEF CopyReads
<1>2. x[1] \in Operations
  BY <1>1, OneOrTwo
<1>3. IsCopy(x[1]) /\ x[1].tag # "repeat"
  BY <1>1 DEF CopyTags, IsCopy
<1>4. off = IF x[1].tag = "repeat" THEN last ELSE ReadOffset(x[1])
  BY <1>1, <1>3
<1>5. CASE Len(x) = 1
  <2>1. x = <<x[1]>> /\ ReadLength(x[1]) = n
    BY <1>5, OneOrTwo DEF CopyReads
  <2>2. Means(ops \o <<x[1]>>, w, b + n, off)
    BY <1>2, <1>3, <1>4, <2>1, OneCopyMeans
  <2> QED
    BY <2>1, <2>2
<1>6. CASE Len(x) = 2
  <2> DEFINE n1 == ReadLength(x[1])
             n2 == ReadLength(x[2])
  <2>1. x = <<x[1]>> \o <<x[2]>> /\ x[2] \in Operations /\ x[2].tag = "repeat" /\ n1 + n2 = n
    BY <1>6, OneOrTwo DEF CopyReads
  <2>2. n1 \in Nat \ {0} /\ n2 \in Nat \ {0}
    BY <1>2, <2>1, OpReads
  <2> HIDE DEF n1, n2
  <2> DEFINE c == b + n1
  <2>3. c <= Len(w) /\ c \in Nat /\ c \in c .. Len(w) /\ off \in 1 .. c
        /\ c + n2 = b + n /\ c + n2 <= Len(w) /\ b <= c /\ c <= b + n /\ b + n \in Nat
    BY <2>1, <2>2
  <2>4. Repeats(w, off, b, c) /\ Repeats(w, off, c, c + n2)
    BY <2>3, RepeatsPart
  <2> DEFINE first == ops \o <<x[1]>>
  <2>5. Means(first, w, c, off)
    BY <1>2, <1>3, <1>4, <2>2, <2>3, <2>4, OneCopyMeans DEF n1
  <2>6. IsCopy(x[2])
    BY <2>1 DEF IsCopy
  <2> HIDE DEF first, c
  <2>7. x[2].lits = SubSeq(w, c + 1, c)
    BY <2>1, <2>3, OpIs, NoSlice
  <2>8. Means(first \o <<x[2]>>, w, c + n2, off)
    <3>1. off = IF x[2].tag = "repeat" THEN off ELSE ReadOffset(x[2])
      BY <2>1
    <3>2. ReadLength(x[2]) = n2 /\ n2 \in Nat
      BY <2>2 DEF n2
    <3>3. PICK y \in Operations : y = x[2]
      BY <2>1
    <3>4. /\ IsCopy(y) /\ y.lits = SubSeq(w, c + 1, c) /\ ReadLength(y) = n2
          /\ off = IF y.tag = "repeat" THEN off ELSE ReadOffset(y)
      BY <2>6, <2>7, <3>1, <3>2, <3>3
    <3>5. Means(first \o <<y>>, w, c + n2, off)
      BY <2>3, <2>4, <2>5, <3>2, <3>4, OneCopyMeans
    <3> QED
      BY <3>3, <3>5
  <2>9. first \o <<x[2]>> = ops \o x
    <3>1. ops \in Seq(Operations) /\ <<x[1]>> \in Seq(Operations) /\ <<x[2]>> \in Seq(Operations)
      BY <1>2, <2>1, OneOp DEF Means
    <3>2. (ops \o <<x[1]>>) \o <<x[2]>> = ops \o (<<x[1]>> \o <<x[2]>>)
      <4> DEFINE u == <<x[1]>>
                 z == <<x[2]>>
      <4>1. u \in Seq(Operations) /\ z \in Seq(Operations)
        BY <3>1
      <4> HIDE DEF u, z
      <4> QED
        <5>1. (ops \o u) \o z = ops \o (u \o z)
          BY <3>1, <4>1, OpsJoined, Zenon
        <5> QED
          BY <5>1 DEF u, z
    <3> QED
      BY <2>1, <3>2 DEF first
  <2> QED
    BY <2>3, <2>8, <2>9
<1> QED
  BY <1>1, <1>5, <1>6

\* emitRepeat: of the last offset.
LEMMA RepeatMeans ==
  ASSUME NEW ops, NEW w \in Seq(Bytes), Len(w) <= Room3, NEW b \in 0 .. Len(w), NEW off \in 1 .. b,
         Means(ops, w, b, off), NEW n \in Nat \ {0}, b + n <= Len(w), Repeats(w, off, b, b + n)
  PROVE  Means(ops \o EmitRepeat(n), w, b + n, off)
<1> DEFINE op == Op("repeat", LitField(n), 0, <<>>)
<1>1. n \in 1 .. Room3
  BY LengthAssumption
<1>2. EmitRepeat(n) = <<op>>
  BY DEF EmitRepeat
<1>3. op.tag = "repeat" /\ op.lits = <<>> /\ ReadLength(op) = n
  BY <1>1, LitFieldReads DEF Op
<1> HIDE DEF op
<1>4. op \in Operations
  <2>1. EmitRepeat(n) \in Seq(Operations) /\ Len(EmitRepeat(n)) = 1
    BY <1>1, RepeatTyped, RepeatReads
  <2>2. EmitRepeat(n)[1] \in Operations
    BY <2>1, OneOrTwo
  <2> QED
    BY <1>2, <2>2
<1>5. b \in Nat /\ b \in b .. Len(w)
  OBVIOUS
<1>6. op.lits = SubSeq(w, b + 1, b)
  BY <1>3, NoSlice
<1>7. IsCopy(op) /\ off = IF op.tag = "repeat" THEN off ELSE ReadOffset(op)
  BY <1>3 DEF IsCopy
<1> QED
  BY <1>2, <1>3, <1>4, <1>5, <1>6, <1>7, OneCopyMeans

-----------------------------------------------------------------------------
(* How far a match goes                                                    *)

LEMMA MatchEndIs ==
  ASSUME src \in Seq(Bytes), NEW off \in Int, NEW p \in 0 .. Size
  PROVE  /\ MatchEnd(p, off) \in p .. Size
         /\ Repeats(src, off, p, MatchEnd(p, off))
         /\ \A n \in Nat : p + n <= Size /\ Same(p, p - off, n) => MatchEnd(p, off) >= p + n
<1> DEFINE differ == {q \in p .. (Size - 1) : src[q + 1] # src[q - off + 1]}
           e == MatchEnd(p, off)
<1>1. Size \in Nat
  BY DEF Size
<1>2. e = IF differ = {} THEN Size ELSE Min(differ)
  BY DEF MatchEnd
<1>3. differ \in SUBSET Nat /\ \A q \in differ : q \in p .. Size - 1
  <2>1. ASSUME NEW q \in differ PROVE q \in Nat /\ q \in p .. Size - 1
    <3>1. q \in p .. Size - 1
      OBVIOUS
    <3> QED
      BY <1>1, <3>1
  <2> QED
    BY <2>1
<1>4. e \in p .. Size /\ \A q \in p .. e - 1 : q \notin differ
  <2> HIDE DEF differ, e
  <2>1. CASE differ = {}
    BY <1>1, <1>2, <2>1
  <2>2. CASE differ # {}
    <3>1. Min(differ) \in differ /\ \A y \in differ : Min(differ) <= y
      BY <1>3, <2>2, MinIs
    <3>2. e \in p .. Size - 1 /\ \A y \in differ : e <= y
      BY <1>2, <1>3, <2>2, <3>1
    <3>3. ASSUME NEW q \in p .. e - 1, q \in differ PROVE FALSE
      BY <3>2, <3>3
    <3> QED
      BY <1>1, <3>2, <3>3
  <2> QED
    BY <2>1, <2>2
<1>5. differ = {} => e = Size
  BY <1>2
<1>6. differ # {} => e \in differ
  <2> HIDE DEF differ
  <2>1. differ # {} => Min(differ) \in differ
    BY <1>3, MinIs
  <2> QED
    BY <1>2, <2>1
<1> HIDE DEF e
<1>7. Repeats(src, off, p, e)
  <2>1. ASSUME NEW q \in p .. e - 1 PROVE src[q + 1] = src[q + 1 - off]
    <3>1. q \in p .. Size - 1 /\ q \notin differ /\ q - off + 1 = q + 1 - off
      BY <1>1, <1>4
    <3> QED
      BY <3>1
  <2> QED
    BY <2>1 DEF Repeats
<1>8. ASSUME NEW n \in Nat, p + n <= Size, Same(p, p - off, n) PROVE e >= p + n
  <2>1. SUFFICES ASSUME e < p + n PROVE FALSE
    BY <1>1, <1>4
  <2>2. e \in differ
    BY <1>1, <1>4, <1>5, <1>6, <1>8, <2>1
  <2>3. e - p + 1 \in 1 .. n /\ p + (e - p + 1) = e + 1 /\ p - off + (e - p + 1) = e - off + 1
    BY <1>1, <1>4, <2>1
  <2>4. src[p + (e - p + 1)] = src[p - off + (e - p + 1)]
    BY <1>8, <2>3 DEF Same
  <2> QED
    BY <2>2, <2>3, <2>4
<1> QED
  BY <1>4, <1>7, <1>8 DEF e

LEMMA WordEndIs ==
  ASSUME src \in Seq(Bytes), NEW off \in Int, NEW p \in 0 .. Size
  PROVE  /\ WordEnd(p, off) \in p .. MatchEnd(p, off) /\ MatchEnd(p, off) \in p .. Size
         /\ Repeats(src, off, p, WordEnd(p, off))
         /\ WordEnd(p, off) = MatchEnd(p, off) \/ WordEnd(p, off) > Size - 8
<1> DEFINE words == IF p > Size - 8 THEN 0 ELSE (Size - 8 - p) \div 8 + 1
           e == MatchEnd(p, off)
           w == WordEnd(p, off)
           to == p + 8 * words
<1>1. Size \in Nat
  BY DEF Size
<1>2. e \in p .. Size /\ Repeats(src, off, p, e)
  BY MatchEndIs
<1>3. to \in Int /\ to >= p /\ to > Size - 8
  <2>1. CASE p > Size - 8
    BY <1>1, <2>1
  <2>2. CASE ~(p > Size - 8)
    <3> DEFINE x == Size - 8 - p
    <3>1. x \in Nat
      BY <1>1, <2>2
    <3> HIDE DEF x
    <3>2. x \div 8 \in Nat /\ 8 * (x \div 8 + 1) > x
      BY <3>1
    <3>3. to = p + 8 * (x \div 8 + 1)
      BY <2>2 DEF x
    <3> HIDE DEF to
    <3> DEFINE d8 == x \div 8
    <3> HIDE DEF d8
    <3>4. d8 \in Nat /\ 8 * (d8 + 1) > x /\ to = p + 8 * (d8 + 1)
      BY <3>2, <3>3 DEF d8
    <3>5. to > p + x /\ to \in Int /\ to >= p
      BY <3>1, <3>4
    <3> QED
      BY <1>1, <3>1, <3>5 DEF x
  <2> QED
    BY <2>1, <2>2
<1>4. w = Min({e, to})
  BY DEF WordEnd
<1> HIDE DEF w, to, e, words
<1>5. w \in {e, to} /\ w <= e /\ w <= to
  BY <1>2, <1>3, <1>4, MinOfTwo
<1>6. w \in p .. e /\ (w = e \/ w > Size - 8)
  BY <1>1, <1>2, <1>3, <1>5
<1>7. Repeats(src, off, p, w)
  <2>1. p \in Int /\ e \in Int /\ w \in Int /\ p <= p /\ w <= e
    BY <1>2, <1>6
  <2> QED
    BY <1>2, <2>1, RepeatsPart
<1> QED
  BY <1>2, <1>6, <1>7 DEF w, e

LEMMA MatchStartIs ==
  ASSUME src \in Seq(Bytes), nextEmit \in Nat, NEW p \in Nat, nextEmit <= p, NEW c \in 0 .. p - 1
  PROVE  /\ MatchStart(p, c) \in nextEmit .. p /\ p - c <= MatchStart(p, c)
         /\ Repeats(src, p - c, MatchStart(p, c), p)
<1> DEFINE lo == Max({nextEmit, p - c})
           T == {b \in lo .. p : Same(b, b - (p - c), p - b)}
           b0 == MatchStart(p, c)
<1>1. lo \in Nat /\ lo >= nextEmit /\ lo >= p - c /\ lo <= p
  <2>1. nextEmit \in Int /\ p - c \in Int
    OBVIOUS
  <2>2. lo \in {nextEmit, p - c} /\ lo >= nextEmit /\ lo >= p - c
    BY <2>1, MaxOfTwo
  <2> HIDE DEF lo
  <2> QED
    BY <2>2
<1>2. b0 = Min(T)
  BY DEF MatchStart
<1> HIDE DEF lo
<1>3. p \in T
  <2>1. Same(p, p - (p - c), p - p)
    BY DEF Same
  <2> QED
    BY <1>1, <2>1
<1>4. T \in SUBSET Nat
  BY <1>1
<1>5. b0 \in T
  <2> HIDE DEF T, b0
  <2> QED
    BY <1>2, <1>3, <1>4, MinIs
<1> HIDE DEF b0
<1>6. b0 \in lo .. p /\ Same(b0, b0 - (p - c), p - b0)
  BY <1>5
<1>7. Repeats(src, p - c, b0, p)
  <2>1. ASSUME NEW q \in b0 .. p - 1 PROVE src[q + 1] = src[q + 1 - (p - c)]
    <3>1. q - b0 + 1 \in 1 .. p - b0 /\ b0 + (q - b0 + 1) = q + 1
          /\ b0 - (p - c) + (q - b0 + 1) = q + 1 - (p - c)
      BY <1>1, <1>6
    <3>2. src[b0 + (q - b0 + 1)] = src[b0 - (p - c) + (q - b0 + 1)]
      BY <1>6, <3>1 DEF Same
    <3> QED
      BY <3>1, <3>2
  <2> QED
    BY <2>1 DEF Repeats
<1> QED
  BY <1>1, <1>6, <1>7 DEF b0

LEMMA RepeatsJoin ==
  ASSUME NEW w, NEW off, NEW a \in Int, NEW b \in Int, NEW c \in Int, NEW e \in Int,
         Repeats(w, off, a, b), Repeats(w, off, c, e), c <= b
  PROVE  Repeats(w, off, a, e)
<1>1. ASSUME NEW q \in a .. e - 1 PROVE w[q + 1] = w[q + 1 - off]
  <2>1. CASE q < b
    <3>1. q \in a .. b - 1
      BY <2>1
    <3> QED
      BY <3>1 DEF Repeats
  <2>2. CASE ~(q < b)
    <3>1. q \in c .. e - 1
      BY <2>2
    <3> QED
      BY <3>1 DEF Repeats
  <2> QED
    BY <2>1, <2>2
<1> QED
  BY <1>1 DEF Repeats

LEMMA SameRepeats ==
  ASSUME NEW p \in Int, NEW c \in Int, NEW n \in Nat, Same(p, c, n)
  PROVE  Repeats(src, p - c, p, p + n) /\ Same(p, p - (p - c), n)
<1>1. ASSUME NEW q \in p .. p + n - 1 PROVE src[q + 1] = src[q + 1 - (p - c)]
  <2>1. q - p + 1 \in 1 .. n /\ p + (q - p + 1) = q + 1 /\ c + (q - p + 1) = q + 1 - (p - c)
    OBVIOUS
  <2> QED
    BY <2>1 DEF Same
<1>2. p - (p - c) = c
  OBVIOUS
<1> QED
  BY <1>1, <1>2 DEF Repeats

-----------------------------------------------------------------------------
(* Where the encoders are                                                  *)

\* s is never in front of nextEmit, a repeat has been copied before, and what
\* the tables have lies in front of s.
EncoderTyped ==
  /\ level \in Levels \cup {"reference"} /\ src \in Seq(Bytes) /\ Size <= Room3
  /\ code \in Seq(Operations)
  /\ pc \in {"given", "lz4", "start", "search", "again", "rest", "coded", "raw"}
  /\ s \in Nat /\ nextEmit \in 0 .. Size /\ nextEmit <= s
  /\ repeat \in Nat \ {0} /\ (repeat = 1 \/ repeat <= nextEmit)
  /\ top \in Nat
  /\ pc = "start" => s = 0 /\ top = 0
  /\ pc \in {"search", "again"} => s >= 1 /\ (level # "best" => top < s)
  /\ pc = "again" => level = "fast" /\ s = nextEmit

\* The first level tests the distance of a match from another position: with a
\* longer block it could take an offset that is too large.
Near == level = "fast" => Size <= MaxCopy3Offset + 10

\* What the encoders need of a match.
GoodMatch(m) ==
  /\ m.start \in nextEmit .. Size /\ m.off \in 1 .. m.start /\ m.end \in m.start + 3 .. Size
  /\ Repeats(src, m.off, m.start, m.end)
  /\ m.rep \in BOOLEAN /\ (m.rep => m.off = repeat)
  /\ ~m.rep => m.end >= m.start + 4 /\ (Near => m.off <= MaxCopy3Offset)
  /\ m.indexed \in Nat

LEMMA ExtendIs ==
  ASSUME EncoderTyped, NEW p \in nextEmit .. Size, NEW c \in 0 .. p - 1, NEW n \in Nat, n >= 3,
         p + n <= Size, Same(p, c, n), NEW rep, NEW indexed,
         level = "fast" => n >= 4 /\ p <= Size - 10
  PROVE  LET m == Extend(p, c, rep, indexed)
         IN  /\ m.start \in nextEmit .. p /\ m.off = p - c /\ m.off \in 1 .. m.start
             /\ m.rep = rep /\ m.indexed = indexed
             /\ m.end \in m.start + 3 .. Size /\ m.end >= p + 3
             /\ n >= 4 => m.end >= m.start + 4
             /\ Repeats(src, m.off, m.start, m.end)
<1> DEFINE m == Extend(p, c, rep, indexed)
           start == MatchStart(p, c)
           off == p - c
           end == IF level = "fast" THEN WordEnd(start + MinMatch, off) ELSE MatchEnd(p, off)
<1>1. /\ m.start = start /\ m.off = off /\ m.rep = rep /\ m.indexed = indexed /\ m.end = end
  BY DEF Extend
<1>2. src \in Seq(Bytes) /\ nextEmit \in Nat /\ Size \in Nat /\ nextEmit <= p /\ p \in Nat /\ p <= Size
  BY DEF EncoderTyped, Size
<1>3. start \in nextEmit .. p /\ off <= start /\ Repeats(src, off, start, p)
  BY <1>2, MatchStartIs
<1>4. c \in Int /\ Repeats(src, off, p, p + n) /\ Same(p, p - off, n) /\ off \in 1 .. p
  BY <1>2, SameRepeats
<1> HIDE DEF m, start, off
<1>5. ASSUME level # "fast"
      PROVE  /\ end \in p + n .. Size /\ Repeats(src, off, start, end)
  <2>1. end = MatchEnd(p, off) /\ p \in 0 .. Size /\ off \in Int
    BY <1>2, <1>4, <1>5
  <2>2. end \in p .. Size /\ Repeats(src, off, p, end) /\ end >= p + n
    BY <1>2, <1>4, <2>1, MatchEndIs
  <2> HIDE DEF end
  <2>3. Repeats(src, off, start, end)
    <3>1. start \in Int /\ p \in Int /\ end \in Int /\ p <= p
      BY <1>2, <1>3, <2>2
    <3> QED
      BY <1>3, <2>2, <3>1, RepeatsJoin
  <2> QED
    BY <1>2, <2>2, <2>3
<1>6. ASSUME level = "fast"
      PROVE  end \in start + 4 .. Size /\ end >= p + 3 /\ Repeats(src, off, start, end)
  <2> DEFINE q == start + 4
  <2>1. end = WordEnd(q, off) /\ q \in 0 .. Size /\ off \in Int /\ n >= 4 /\ p <= Size - 10
    BY <1>2, <1>3, <1>4, <1>6 DEF MinMatch
  <2>2. /\ end \in q .. MatchEnd(q, off) /\ MatchEnd(q, off) \in q .. Size
        /\ Repeats(src, off, q, end) /\ (end = MatchEnd(q, off) \/ end > Size - 8)
    BY <1>2, <2>1, WordEndIs
  <2> HIDE DEF end
  <2>3. Repeats(src, off, start, p + n)
    <3>1. start \in Int /\ p \in Int /\ p + n \in Int /\ p <= p
      BY <1>2, <1>3
    <3> QED
      BY <1>3, <1>4, <3>1, RepeatsJoin
  <2>4. Repeats(src, off, start, end)
    <3>1. start \in Int /\ p + n \in Int /\ q \in Int /\ end \in Int /\ q <= p + n
      BY <1>2, <1>3, <2>1, <2>2
    <3> QED
      BY <2>2, <2>3, <3>1, RepeatsJoin
  <2>5. MatchEnd(q, off) >= p + 3
    <3> DEFINE k == p + n - q
    <3>1. k \in Nat /\ q + k <= Size /\ q + k >= p + 3
      BY <1>2, <1>3, <2>1
    <3>2. Same(q, q - off, k)
      <4>1. ASSUME NEW i \in 1 .. k PROVE src[q + i] = src[q - off + i]
        <5>1. q + i - 1 \in start .. p + n - 1 /\ q + i - 1 + 1 = q + i /\ q + i - 1 + 1 - off = q - off + i
          BY <1>2, <1>3, <2>1, <3>1
        <5>2. src[(q + i - 1) + 1] = src[(q + i - 1) + 1 - off]
          BY <2>3, <5>1 DEF Repeats
        <5> QED
          BY <5>1, <5>2
      <4> QED
        BY <4>1 DEF Same
    <3>3. MatchEnd(q, off) >= q + k
      <4> HIDE DEF k, q
      <4> QED
        BY <1>2, <2>1, <3>1, <3>2, MatchEndIs
    <3> QED
      BY <2>1, <2>2, <3>1, <3>3
  <2> QED
    BY <1>2, <1>3, <2>1, <2>2, <2>4, <2>5
<1> HIDE DEF end
<1>7. /\ end \in start + 3 .. Size /\ end >= p + 3 /\ (n >= 4 => end >= start + 4)
      /\ Repeats(src, off, start, end)
  BY <1>2, <1>3, <1>5, <1>6
<1> QED
  BY <1>1, <1>3, <1>4, <1>7 DEF m, off

LEMMA NextSIs ==
  ASSUME EncoderTyped, level \in Levels
  PROVE  NextS \in Nat /\ NextS > s /\ (level = "fast" => NextS >= s + 4)
<1> DEFINE missed == s - nextEmit
<1>1. s \in Nat /\ missed \in Nat
  BY DEF EncoderTyped, Size
<1> HIDE DEF missed
<1>2. CASE level = "fast"
  <2>1. NextS = s + (missed \div (IF Wide THEN 64 ELSE 32) + 4)
    BY <1>2 DEF NextS, missed
  <2>2. missed \div 64 \in Nat /\ missed \div 32 \in Nat
    BY <1>1
  <2> QED
    BY <1>1, <2>1, <2>2
<1>3. CASE level = "better"
  <2>1. NextS = s + (missed \div 128 + 1)
    BY <1>3 DEF NextS, missed
  <2>2. missed \div 128 \in Nat
    BY <1>1
  <2> QED
    BY <1>1, <1>3, <2>1, <2>2
<1>4. CASE level = "best"
  <2> DEFINE a == missed \div 256 + 1
             b == Min({a, 64})
  <2>1. NextS = s + b
    BY <1>4 DEF NextS, missed
  <2>2. a \in Nat \ {0}
    BY <1>1
  <2> HIDE DEF a
  <2>3. b \in {a, 64}
    BY <2>2, MinOfTwo
  <2> HIDE DEF b
  <2> QED
    BY <1>1, <1>4, <2>1, <2>2, <2>3
<1> QED
  BY <1>2, <1>3, <1>4 DEF Levels

\* There is room for four bytes at all the positions looked at.
LEMMA SearchingIs ==
  ASSUME EncoderTyped, level \in Levels, Searching
  PROVE  /\ Size \in Nat /\ s \in Nat /\ s >= 1 /\ nextEmit \in Nat /\ nextEmit <= s
         /\ level = "fast" => s <= Size - 12
         /\ level = "better" => s <= Size - 9
         /\ level = "best" => s <= Size - 11
         /\ level # "best" => top < s
         /\ top \in Nat
<1>1. Size \in Nat /\ s \in Nat /\ s >= 1 /\ nextEmit \in Nat /\ nextEmit <= s /\ top \in Nat
      /\ (level # "best" => top < s)
  BY DEF EncoderTyped, Searching, Size
<1>2. NextS \in Nat /\ NextS > s /\ (level = "fast" => NextS >= s + 4) /\ NextS <= SLimit
  BY NextSIs DEF Searching
<1>3. SLimit = Size - 8 - (IF level = "best" THEN 2 ELSE 0)
  BY DEF SLimit, InputMargin
<1>4. NextS <= Size - 8 /\ (level = "best" => NextS <= Size - 10)
  BY <1>1, <1>2, <1>3
<1> QED
  BY <1>1, <1>2, <1>4

LEMMA HitsGood ==
  ASSUME EncoderTyped, NEW p \in nextEmit .. Size, NEW cands, NEW n \in Nat, n >= 4, p + n <= Size,
         NEW indexed \in Nat,
         level = "fast" => p <= Size - 10,
         \A c \in cands : Same(p, c, n) => c \in 0 .. p - 1 /\ (Near => p - c <= MaxCopy3Offset),
         NEW m \in Hits(p, cands, n, indexed)
  PROVE  GoodMatch(m) /\ m.start <= p /\ m.end >= p + 3 /\ m.indexed = indexed /\ ~m.rep
<1>1. PICK c \in cands : Same(p, c, n) /\ m = Extend(p, c, FALSE, indexed)
  BY DEF Hits
<1>2. c \in 0 .. p - 1 /\ (Near => p - c <= MaxCopy3Offset)
  BY <1>1
<1>3. /\ m.start \in nextEmit .. p /\ m.off = p - c /\ m.off \in 1 .. m.start
      /\ m.rep = FALSE /\ m.indexed = indexed
      /\ m.end \in m.start + 3 .. Size /\ m.end >= p + 3
      /\ n >= 4 => m.end >= m.start + 4
      /\ Repeats(src, m.off, m.start, m.end)
  <2>1. n >= 3 /\ (level = "fast" => n >= 4 /\ p <= Size - 10)
    OBVIOUS
  <2>2. c \in 0 .. p - 1 /\ Same(p, c, n)
    BY <1>1, <1>2
  <2>3. LET e == Extend(p, c, FALSE, indexed)
        IN  /\ e.start \in nextEmit .. p /\ e.off = p - c /\ e.off \in 1 .. e.start
            /\ e.rep = FALSE /\ e.indexed = indexed
            /\ e.end \in e.start + 3 .. Size /\ e.end >= p + 3
            /\ n >= 4 => e.end >= e.start + 4
            /\ Repeats(src, e.off, e.start, e.end)
    BY <2>1, <2>2, ExtendIs, Zenon
  <2> QED
    BY <1>1, <2>3
<1>4. Size \in Nat /\ nextEmit \in Nat /\ p \in Nat
  BY DEF EncoderTyped, Size
<1>5. m.start \in nextEmit .. Size /\ m.start <= p
  BY <1>3, <1>4
<1> QED
  BY <1>2, <1>3, <1>5 DEF GoodMatch

\* Matches, as the search takes them.
SearchGood(m) ==
  /\ GoodMatch(m)
  /\ level = "fast" => m.indexed < m.end
  /\ level # "best" => m.indexed <= s + 2 /\ m.indexed < m.end
  /\ level = "better" => m.indexed <= s + 1
  /\ level # "best" => ~m.rep /\ m.start <= Size - 8

LEMMA FastMatchesGood ==
  ASSUME EncoderTyped, level = "fast", Searching, NEW m \in FastMatches
  PROVE  SearchGood(m)
<1> DEFINE Reach(c) == Wide => c >= s - MaxCopy3Offset
           old == {c \in 0 .. top : Reach(c)}
<1>1. /\ Size \in Nat /\ s \in Nat /\ nextEmit \in Nat /\ nextEmit <= s /\ s <= Size - 12
      /\ top < s /\ top \in Nat
  BY SearchingIs DEF Levels
<1>2. \A c \in old : c \in 0 .. s - 1
  BY <1>1
<1>3. m \in Hits(s, old, MinMatch, s + 1) \/ m \in Hits(s + 1, old, MinMatch, s + 2)
      \/ m \in Hits(s + 2, old \cup {s, s + 1}, MinMatch, s + 2)
  BY DEF FastMatches
<1> HIDE DEF old
<1>4. MaxCopy3Offset \in Nat
  BY OffsetAssumption DEF MaxCopy3Offset
<1>5. ASSUME NEW p \in s .. s + 2, NEW cands, \A c \in cands : c \in 0 .. p - 1, NEW indexed \in Nat,
             m \in Hits(p, cands, 4, indexed)
      PROVE  GoodMatch(m) /\ m.end >= p + 3 /\ m.indexed = indexed /\ ~m.rep /\ m.start <= Size - 8
  <2>1. p \in nextEmit .. Size /\ 4 \in Nat /\ 4 >= 4 /\ p + 4 <= Size /\ p <= Size - 10
    BY <1>1
  <2>2. \A c \in cands : Same(p, c, 4) => c \in 0 .. p - 1 /\ (Near => p - c <= MaxCopy3Offset)
    <3>1. ASSUME NEW c \in cands, Near PROVE p - c <= MaxCopy3Offset
      <4>1. c \in 0 .. p - 1 /\ Size <= MaxCopy3Offset + 10
        BY <1>5, <3>1 DEF Near
      <4> QED
        BY <1>1, <1>4, <2>1, <4>1
    <3> QED
      BY <1>5, <3>1
  <2>3. GoodMatch(m) /\ m.start <= p /\ m.end >= p + 3 /\ m.indexed = indexed /\ ~m.rep
    BY <1>5, <2>1, <2>2, HitsGood
  <2>4. m.start \in Int
    BY <1>1, <2>3 DEF GoodMatch
  <2> DEFINE start == m.start
  <2>5. start \in Int /\ start <= p
    BY <2>3, <2>4
  <2> HIDE DEF start
  <2>6. start <= Size - 8
    BY <1>1, <1>5, <2>1, <2>5
  <2> QED
    BY <2>3, <2>6 DEF start
<1>6. CASE m \in Hits(s, old, MinMatch, s + 1)
  <2>1. s \in s .. s + 2 /\ s + 1 \in Nat
    BY <1>1
  <2>2. GoodMatch(m) /\ m.end >= s + 3 /\ m.indexed = s + 1 /\ ~m.rep /\ m.start <= Size - 8
    BY <1>2, <1>5, <1>6, <2>1 DEF MinMatch
  <2>3. m.indexed < m.end
    BY <1>1, <2>2 DEF GoodMatch
  <2> QED
    BY <1>1, <2>2, <2>3 DEF SearchGood
<1>7. CASE m \in Hits(s + 1, old, MinMatch, s + 2)
  <2> DEFINE q == s + 1
             i == s + 2
  <2>1. q \in s .. s + 2 /\ i \in Nat /\ \A c \in old : c \in 0 .. q - 1
    BY <1>1, <1>2
  <2>2. m \in Hits(q, old, 4, i)
    BY <1>7 DEF MinMatch
  <2> HIDE DEF q, i
  <2>5. GoodMatch(m) /\ m.end >= q + 3 /\ m.indexed = i /\ ~m.rep /\ m.start <= Size - 8
    BY <1>5, <2>1, <2>2
  <2>4. GoodMatch(m) /\ m.end >= s + 1 + 3 /\ m.indexed = s + 2 /\ ~m.rep /\ m.start <= Size - 8
    BY <2>5 DEF q, i
  <2>3. m.indexed < m.end
    BY <1>1, <2>4 DEF GoodMatch
  <2> QED
    BY <1>1, <2>4, <2>3 DEF SearchGood
<1>8. CASE m \in Hits(s + 2, old \cup {s, s + 1}, MinMatch, s + 2)
  <2>1. s + 2 \in s .. s + 2 /\ s + 2 \in Nat /\ \A c \in old \cup {s, s + 1} : c \in 0 .. s + 2 - 1
    BY <1>1, <1>2
  <2>2. GoodMatch(m) /\ m.end >= s + 2 + 3 /\ m.indexed = s + 2 /\ ~m.rep /\ m.start <= Size - 8
    BY <1>5, <1>8, <2>1 DEF MinMatch
  <2>3. m.indexed < m.end
    BY <1>1, <2>2 DEF GoodMatch
  <2> QED
    BY <1>1, <2>2, <2>3 DEF SearchGood
<1> QED
  BY <1>3, <1>6, <1>7, <1>8

LEMMA BetterMatchesGood ==
  ASSUME EncoderTyped, level = "better", Searching, NEW m \in BetterMatches
  PROVE  SearchGood(m)
<1> DEFINE minSrcPos == s - MaxCopy3Offset + 1
           far == {c \in 0 .. top : Wide => c > minSrcPos}
           near == {c \in 0 .. top : Wide => c >= minSrcPos}
<1>1. /\ Size \in Nat /\ s \in Nat /\ nextEmit \in Nat /\ nextEmit <= s /\ s <= Size - 9
      /\ top < s /\ top \in Nat
  BY SearchingIs DEF Levels
<1>2. MaxCopy3Offset \in Nat \ {0}
  BY OffsetAssumption DEF MaxCopy3Offset
<1>3. ~Wide => Size <= MaxCopy3Offset
  BY <1>1, <1>2, EncoderAssumption DEF Wide
<1>4. \A c \in far : c \in 0 .. s - 1 /\ s - c <= MaxCopy3Offset /\ s + 1 - c <= MaxCopy3Offset
  <2>1. ASSUME NEW c \in far PROVE c \in 0 .. s - 1 /\ s - c <= MaxCopy3Offset /\ s + 1 - c <= MaxCopy3Offset
    <3>1. c \in 0 .. s - 1 /\ (Wide => c > s - MaxCopy3Offset + 1)
      BY <1>1
    <3>2. CASE Wide
      BY <1>1, <1>2, <3>1, <3>2
    <3>3. CASE ~Wide
      BY <1>1, <1>2, <1>3, <3>1, <3>3
    <3> QED
      BY <3>2, <3>3
  <2> QED
    BY <2>1
<1>5. \A c \in near : c \in 0 .. s - 1 /\ s - c <= MaxCopy3Offset
  <2>1. ASSUME NEW c \in near PROVE c \in 0 .. s - 1 /\ s - c <= MaxCopy3Offset
    <3>1. c \in 0 .. s - 1 /\ (Wide => c >= s - MaxCopy3Offset + 1)
      BY <1>1
    <3>2. CASE Wide
      BY <1>1, <1>2, <3>1, <3>2
    <3>3. CASE ~Wide
      BY <1>1, <1>2, <1>3, <3>1, <3>3
    <3> QED
      BY <3>2, <3>3
  <2> QED
    BY <2>1
<1>6. \/ m \in Hits(s, far, 8, s)
      \/ m \in Hits(s, near, 4, s) \/ m \in Hits(s, near, 4, s + 1)
      \/ m \in Hits(s + 1, far \cup {s}, 4, s + 1)
  BY DEF BetterMatches, MinMatch
<1> HIDE DEF far, near
<1> DEFINE q == s + 1
<1>7. ASSUME NEW p \in s .. s + 1, NEW n \in {4, 8}, n = 8 => p = s, NEW cands,
             \A c \in cands : c \in 0 .. p - 1 /\ p - c <= MaxCopy3Offset,
             NEW indexed \in s .. s + 1, m \in Hits(p, cands, n, indexed)
      PROVE  SearchGood(m)
  <2>1. p \in nextEmit .. Size /\ n \in Nat /\ n >= 4 /\ p + n <= Size /\ indexed \in Nat /\ p \in Nat
    BY <1>1, <1>7
  <2>2. \A c \in cands : Same(p, c, n) => c \in 0 .. p - 1 /\ (Near => p - c <= MaxCopy3Offset)
    BY <1>7
  <2>3. GoodMatch(m) /\ m.start <= p /\ m.end >= p + 3 /\ m.indexed = indexed /\ ~m.rep
    BY <1>7, <2>1, <2>2, HitsGood
  <2>4. m.end \in Int /\ m.start \in Int
    BY <1>1, <2>3 DEF GoodMatch
  <2>5. m.indexed <= s + 1 /\ m.indexed <= s + 2 /\ m.indexed < m.end
    BY <1>1, <2>1, <2>3, <2>4
  <2>6. m.start <= Size - 8
    BY <1>1, <2>1, <2>3, <2>4
  <2> QED
    BY <2>3, <2>5, <2>6 DEF SearchGood
<1>8. s \in s .. s + 1 /\ q \in s .. s + 1
  BY <1>1
<1>9. \A c \in far \cup {s} : c \in 0 .. q - 1 /\ q - c <= MaxCopy3Offset
  BY <1>1, <1>2, <1>4
<1>10. m \in Hits(q, far \cup {s}, 4, q) => SearchGood(m)
  <2> HIDE DEF q
  <2> QED
    BY <1>7, <1>8, <1>9
<1>11. m \in Hits(s, near, 4, q) => SearchGood(m)
  <2> HIDE DEF q
  <2> QED
    BY <1>5, <1>7, <1>8
<1>12. m \in Hits(s, near, 4, s) => SearchGood(m)
  BY <1>5, <1>7, <1>8
<1>13. m \in Hits(s, far, 8, s) => SearchGood(m)
  BY <1>4, <1>7, <1>8
<1> QED
  BY <1>6, <1>10, <1>11, <1>12, <1>13

LEMMA BestMatchesGood ==
  ASSUME EncoderTyped, level = "best", Searching, NEW m \in BestMatches
  PROVE  SearchGood(m)
<1> DEFINE At(p, cands) == {x \in Hits(p, {c \in cands : c < p /\ p - c < MaxCopy3Offset}, MinMatch, s) :
                              Saves(x)}
           Repeat(p) == {Extend(p, p - repeat, TRUE, s) : x \in {y \in {0} : Same(p, p - repeat, 3)}}
           first == At(s, 0 .. top) \cup Repeat(s) \cup Repeat(s + 1)
           more == first \cup At(s + 1, 0 .. top) \cup At(s + 2, 0 .. top) \cup Repeat(s + 2)
           Before(x) == {t - (x.end - x.start - 2) : t \in 0 .. top} \ -(Size) .. 0
           atEnd == UNION {At(x.start + 1, Before(x)) : x \in {x \in more : x.end - 1 < SLimit}}
<1>1. /\ Size \in Nat /\ s \in Nat /\ s >= 1 /\ nextEmit \in Nat /\ nextEmit <= s /\ s <= Size - 11
      /\ top \in Nat
  BY SearchingIs DEF Levels
<1>2. MaxCopy3Offset \in Nat \ {0}
  BY OffsetAssumption DEF MaxCopy3Offset
<1>3. m \in more \/ m \in atEnd
  BY DEF BestMatches
<1> DEFINE Right(x) == GoodMatch(x) /\ x.start <= Size - 9 /\ x.start \in Nat /\ x.end \in Nat
<1>4. ASSUME NEW p \in nextEmit .. Size - 8, NEW cands, \A c \in cands : c \in Int /\ c >= 0,
             NEW x \in At(p, cands)
      PROVE  GoodMatch(x) /\ x.start <= p
  <2> DEFINE near == {c \in cands : c < p /\ p - c < MaxCopy3Offset}
  <2>1. x \in Hits(p, near, MinMatch, s)
    OBVIOUS
  <2>2. p \in nextEmit .. Size /\ MinMatch \in Nat /\ MinMatch >= 4 /\ p + MinMatch <= Size /\ p \in Nat
    BY <1>1 DEF MinMatch
  <2>3. \A c \in near : Same(p, c, MinMatch) => c \in 0 .. p - 1 /\ (Near => p - c <= MaxCopy3Offset)
    BY <1>1, <1>2, <1>4, <2>2
  <2> HIDE DEF near
  <2>4. level = "fast" => p <= Size - 10
    OBVIOUS
  <2> QED
    BY <1>1, <2>1, <2>2, <2>3, <2>4, HitsGood
<1>5. ASSUME NEW p \in s .. s + 2, NEW x \in Repeat(p) PROVE Right(x)
  <2>1. x = Extend(p, p - repeat, TRUE, s) /\ Same(p, p - repeat, 3)
    OBVIOUS
  <2>2. repeat \in 1 .. s /\ repeat \in Nat
    BY <1>1 DEF EncoderTyped
  <2> DEFINE c == p - repeat
  <2>3. p \in nextEmit .. Size /\ p \in Nat /\ c \in 0 .. p - 1 /\ 3 \in Nat /\ p + 3 <= Size
        /\ p - c = repeat /\ p <= Size - 9
    BY <1>1, <2>2
  <2>4. x = Extend(p, c, TRUE, s) /\ Same(p, c, 3)
    BY <2>1
  <2> HIDE DEF c
  <2>5. LET e == Extend(p, c, TRUE, s)
        IN  /\ e.start \in nextEmit .. p /\ e.off = p - c /\ e.off \in 1 .. e.start
            /\ e.rep = TRUE /\ e.indexed = s
            /\ e.end \in e.start + 3 .. Size /\ e.end >= p + 3
            /\ 3 >= 4 => e.end >= e.start + 4
            /\ Repeats(src, e.off, e.start, e.end)
    <3>1. 3 >= 3 /\ (level = "fast" => 3 >= 4 /\ p <= Size - 10)
      OBVIOUS
    <3> QED
      BY <2>3, <2>4, <3>1, ExtendIs, Zenon
  <2>6. x.start \in nextEmit .. Size /\ x.start <= Size - 9 /\ x.start \in Nat /\ x.end \in Nat
    <3> DEFINE u == x.start
               v == x.end
    <3>1. u \in nextEmit .. p /\ v \in u + 3 .. Size
      BY <2>4, <2>5
    <3> HIDE DEF u, v
    <3>2. u \in Nat /\ v \in Nat /\ u \in nextEmit .. Size /\ u <= Size - 9
      BY <1>1, <2>3, <3>1
    <3> QED
      BY <3>2 DEF u, v
  <2>7. /\ x.off \in 1 .. x.start /\ x.end \in x.start + 3 .. Size /\ x.off = repeat /\ x.rep = TRUE
        /\ x.indexed = s /\ Repeats(src, x.off, x.start, x.end)
    BY <2>3, <2>4, <2>5
  <2> QED
    BY <1>1, <2>6, <2>7 DEF GoodMatch
<1>6. ASSUME NEW p \in s .. s + 2, NEW x \in At(p, 0 .. top) PROVE Right(x)
  <2>1. p \in nextEmit .. Size - 8 /\ p <= Size - 9 /\ p \in Nat
    BY <1>1
  <2>2. \A c \in 0 .. top : c \in Int /\ c >= 0
    BY <1>1
  <2> HIDE DEF At
  <2>3. GoodMatch(x) /\ x.start <= p
    BY <1>4, <1>6, <2>1, <2>2
  <2>4. x.start \in Nat /\ x.end \in Nat
    BY <1>1, <2>3 DEF GoodMatch
  <2> QED
    BY <1>1, <2>1, <2>3, <2>4
<1>7. s \in s .. s + 2 /\ s + 1 \in s .. s + 2 /\ s + 2 \in s .. s + 2
  BY <1>1
<1>8. ASSUME NEW x \in more PROVE Right(x)
  <2> HIDE DEF At, Repeat, Right
  <2>1. \/ \E p \in s .. s + 2 : x \in At(p, 0 .. top)
        \/ \E p \in s .. s + 2 : x \in Repeat(p)
    BY <1>7
  <2> QED
    BY <1>5, <1>6, <2>1
<1>9. ASSUME m \in atEnd PROVE GoodMatch(m)
  <2>1. PICK x \in more : x.end - 1 < SLimit /\ m \in At(x.start + 1, Before(x))
    BY <1>9
  <2>2. Right(x)
    BY <1>8, <2>1
  <2> DEFINE p == x.start + 1
  <2>3. p \in nextEmit .. Size - 8
    BY <1>1, <2>2 DEF GoodMatch
  <2>4. \A c \in Before(x) : c \in Int /\ c >= 0
    <3>1. ASSUME NEW t \in 0 .. top, t - (x.end - x.start - 2) \notin -(Size) .. 0
          PROVE  t - (x.end - x.start - 2) \in Int /\ t - (x.end - x.start - 2) >= 0
      <4>1. x.end \in Nat /\ x.start \in Nat /\ x.end <= Size
        BY <1>1, <2>2 DEF GoodMatch
      <4> DEFINE u == x.end
                 v == x.start
      <4> HIDE DEF u, v
      <4>2. u \in Nat /\ v \in Nat /\ u <= Size /\ t - (u - v - 2) \notin -(Size) .. 0
        BY <3>1, <4>1 DEF u, v
      <4>3. t - (u - v - 2) \in Int /\ t - (u - v - 2) >= 0
        BY <1>1, <4>2
      <4> QED
        BY <4>3 DEF u, v
    <3> QED
      BY <3>1
  <2> HIDE DEF At, Before, p
  <2>5. m \in At(p, Before(x))
    BY <2>1 DEF p
  <2> QED
    BY <1>4, <2>3, <2>4, <2>5
<1>10. GoodMatch(m)
  <2> HIDE DEF more, atEnd
  <2> QED
    BY <1>3, <1>8, <1>9
<1> QED
  BY <1>10 DEF SearchGood

LEMMA MatchesGood ==
  ASSUME EncoderTyped, level \in Levels, Searching, NEW m \in Matches
  PROVE  SearchGood(m)
<1>1. CASE level = "fast"
  BY <1>1, FastMatchesGood DEF Matches
<1>2. CASE level = "better"
  BY <1>2, BetterMatchesGood DEF Matches
<1>3. CASE level = "best"
  BY <1>3, BestMatchesGood DEF Matches
<1> QED
  BY <1>1, <1>2, <1>3 DEF Levels

-----------------------------------------------------------------------------
(* What a match is emitted as                                              *)

\* Literals, and a copy of its own behind them.
LEMMA LitsAndCopy ==
  ASSUME NEW ops, NEW w \in Seq(Bytes), Len(w) <= Room3, NEW a \in Nat, NEW b \in a .. Len(w), NEW last,
         Means(ops, w, a, last), NEW off \in 1 .. b, NEW n \in Nat,
         NEW x \in Seq(Operations), CopyReads(x, off, n), x[1].lits = <<>>,
         b + n <= Len(w), Repeats(w, off, b, b + n)
  PROVE  Means(ops \o (EmitLiteral(SubSeq(w, a + 1, b)) \o x), w, b + n, off)
<1> DEFINE lit == EmitLiteral(SubSeq(w, a + 1, b))
           more == ops \o lit
<1>1. Means(more, w, b, last)
  BY LiteralMeans
<1>2. b \in Nat /\ b \in b .. Len(w) /\ b \in 0 .. Len(w)
  OBVIOUS
<1>3. x[1].lits = SubSeq(w, b + 1, b)
  BY <1>2, NoSlice
<1> HIDE DEF more
<1>4. Means(more \o x, w, b + n, off)
  BY <1>1, <1>2, <1>3, CopyMeans
<1>5. ops \in Seq(Operations) /\ lit \in Seq(Operations)
  <2>1. SubSeq(w, a + 1, b) \in Seq(Bytes) /\ Len(SubSeq(w, a + 1, b)) = b - a
    BY SliceAfter
  <2>2. Len(w) \in Nat /\ Room3 \in Nat
    BY LengthAssumption
  <2>3. b - a <= Room3
    BY <1>2, <2>2
  <2>4. Len(SubSeq(w, a + 1, b)) <= Room3
    BY <2>1, <2>3
  <2> QED
    BY <2>1, <2>4, LiteralTyped DEF Means
<1> HIDE DEF lit
<1>6. (ops \o lit) \o x = ops \o (lit \o x)
  <2>1. ops \in Seq(Operations) /\ lit \in Seq(Operations) /\ x \in Seq(Operations)
    BY <1>5
  <2> QED
    BY <2>1, OpsJoined, Zenon
<1> QED
  BY <1>4, <1>6 DEF more, lit

LEMMA SliceTyped ==
  ASSUME EncoderTyped, NEW b \in nextEmit .. Size
  PROVE  /\ Slice(nextEmit, b) = SubSeq(src, nextEmit + 1, b) /\ Slice(nextEmit, b) \in Seq(Bytes)
         /\ Len(Slice(nextEmit, b)) = b - nextEmit /\ Len(Slice(nextEmit, b)) <= Room3
         /\ EmitLiteral(Slice(nextEmit, b)) \in Seq(Operations)
<1>1. src \in Seq(Bytes) /\ nextEmit \in Nat /\ b \in nextEmit .. Len(src) /\ Len(src) <= Room3
      /\ Len(src) \in Nat /\ Room3 \in Nat /\ b \in Nat
  BY LengthAssumption DEF EncoderTyped, Size
<1>2. Slice(nextEmit, b) = SubSeq(src, nextEmit + 1, b)
  BY DEF Slice
<1> DEFINE lits == Slice(nextEmit, b)
<1>3. lits \in Seq(Bytes) /\ Len(lits) = b - nextEmit
  BY <1>1, <1>2, SliceAfter
<1> HIDE DEF lits
<1>4. b - nextEmit <= Room3
  BY <1>1
<1>5. Len(lits) <= Room3
  BY <1>3, <1>4
<1>6. EmitLiteral(lits) \in Seq(Operations)
  BY <1>3, <1>5, LiteralTyped
<1> QED
  BY <1>2, <1>3, <1>5, <1>6 DEF lits

LEMMA EmitMatchIs ==
  ASSUME EncoderTyped, NEW b \in nextEmit .. Size, NEW off \in 1 .. b, NEW n \in Nat, n >= 4,
         b + n <= Size, Repeats(src, off, b, b + n)
  PROVE  LET lits == Slice(nextEmit, b)
             e == Emitted(lits, off, n)
         IN  /\ e \in 4 .. n /\ (level # "best" => e = n)
             /\ EmitMatch(lits, off, n) \in Seq(Operations)
             /\ off <= MaxCopy3Offset /\ Means(code, src, nextEmit, repeat) =>
                  Means(code \o EmitMatch(lits, off, n), src, b + e, off)
<1> DEFINE lits == Slice(nextEmit, b)
           e == Emitted(lits, off, n)
           ops == EmitMatch(lits, off, n)
           k == Len(lits)
           Right == off <= MaxCopy3Offset /\ Means(code, src, nextEmit, repeat) =>
                      Means(code \o ops, src, b + e, off)
<1>1. /\ src \in Seq(Bytes) /\ nextEmit \in Nat /\ b \in nextEmit .. Len(src) /\ Len(src) <= Room3
      /\ Len(src) = Size /\ Size \in Nat /\ Room3 \in Nat /\ b \in Nat /\ b \in 0 .. Len(src) /\ off \in Nat \ {0}
      /\ b + n <= Len(src)
  BY LengthAssumption DEF EncoderTyped, Size
<1>2. /\ lits = SubSeq(src, nextEmit + 1, b) /\ lits \in Seq(Bytes) /\ k \in Nat
      /\ EmitLiteral(lits) \in Seq(Operations)
  BY SliceTyped
<1>3. lits # <<>> => k >= 1
  BY <1>2
<1>4. n \in Lengths
  BY <1>1 DEF Lengths, MinMatch
<1>5. e \in 4 .. n /\ (level # "best" => e = n)
  <2>1. Copy2LitMaxLen \in Nat /\ Copy2LitMaxLen >= 4
    BY LengthAssumption DEF Copy2LitMaxLen
  <2> DEFINE less == Min({n, Copy2LitMaxLen})
  <2>2. less \in {n, Copy2LitMaxLen} /\ less <= n
    <3> HIDE DEF lits, e, ops, k, Right
    <3>1. n \in Int /\ Copy2LitMaxLen \in Int
      BY <2>1
    <3> QED
      BY <3>1, MinOfTwo
  <2> HIDE DEF less
  <2>3. e = IF level = "best" /\ Fuses(lits, off, n) /\ off <= MaxCopy2Offset THEN less ELSE n
    BY DEF Emitted, less
  <2> QED
    BY <2>1, <2>2, <2>3
<1> HIDE DEF lits, e, k
<1>6. e \in Lengths /\ e \in Nat /\ e >= MinMatch /\ n >= MinMatch /\ b + e <= Len(src)
      /\ Repeats(src, off, b, b + e)
  <2>1. b \in Int /\ b + e \in Int /\ b + n \in Int /\ b <= b /\ b + e <= b + n
    BY <1>1, <1>5
  <2>2. Repeats(src, off, b, b + e)
    BY <2>1, RepeatsPart
  <2> QED
    BY <1>1, <1>5, <2>2 DEF Lengths, MinMatch
<1>7. /\ MaxCopy3Lits \in 1 .. 3 /\ MaxCopy2Lits \in MaxCopy3Lits .. 4
      /\ MinCopy3Offset \in Nat /\ MinCopy3Offset <= MaxCopy2Offset + 1 /\ MaxCopy2Offset \in Nat
      /\ MinCopy2Offset \in Nat /\ MaxCopy3Offset \in Nat
  BY OffsetAssumption DEF MaxCopy2Offset, MaxCopy3Offset
<1>8. k <= MaxLits(off) => k <= MaxCopy2Lits /\ (off > MaxCopy2Offset => k <= MaxCopy3Lits)
  <2>1. MaxLits(off) \in {MaxCopy2Lits, MaxCopy3Lits} /\ (off > MaxCopy2Offset => MaxLits(off) = MaxCopy3Lits)
    BY DEF MaxLits
  <2> QED
    BY <1>2, <1>7, <2>1 DEF k
<1> DEFINE fuses == Fuses(lits, off, n)
<1>9. fuses => lits # <<>> /\ k >= 1 /\ k <= MaxLits(off) /\ off >= MinCopy2Offset
  BY <1>3 DEF Fuses, k
<1>10. CASE fuses /\ off <= MaxCopy2Offset
  <2>1. ops = EmitCopyLits2(lits, off, e)
    BY <1>10 DEF EmitMatch, e
  <2>2. k \in 1 .. MaxCopy2Lits /\ off \in MinCopy2Offset .. MaxCopy2Offset
    BY <1>1, <1>2, <1>7, <1>8, <1>9, <1>10
  <2>3. ops \in Seq(Operations)
    <3>1. Len(lits) \in 1 .. MaxCopy2Lits /\ off \in Nat /\ off >= MinCopy2Offset
      BY <1>1, <1>9, <1>10, <2>2 DEF k
    <3>2. EmitCopyLits2(lits, off, e) \in Seq(Operations)
      BY <1>2, <1>6, <3>1, Fused2Typed
    <3> QED
      BY <2>1, <3>2
  <2>4. CopyReads(ops, off, e) /\ ops[1].lits = lits
    BY <1>6, <2>1, <2>2, EmitLits2Reads
  <2> HIDE DEF ops
  <2>5. Right
    BY <1>1, <1>2, <1>6, <2>3, <2>4, CopyMeans
  <2> QED
    BY <1>5, <2>3, <2>5 DEF lits, e, ops
<1>11. (fuses /\ off <= MaxCopy2Offset) \/ e = n
  BY DEF Emitted, e
<1>12. CASE fuses /\ ~(off <= MaxCopy2Offset)
  <2>1. ops = EmitCopyLits3(lits, off, n)
    BY <1>12 DEF EmitMatch
  <2>2. k \in 0 .. MaxCopy3Lits /\ off >= MinCopy3Offset /\ e = n
    BY <1>1, <1>2, <1>7, <1>8, <1>9, <1>11, <1>12
  <2>3. ops = EncodeCopy3(off, n, lits)
    BY <2>1 DEF EmitCopyLits3
  <2>4. ops \in Seq(Operations)
    <3>1. Len(lits) \in 0 .. MaxCopy3Lits /\ off \in Nat
      BY <1>1, <2>2 DEF k
    <3>2. EncodeCopy3(off, n, lits) \in Seq(Operations)
      BY <1>2, <1>6, <2>2, <3>1, Copy3Typed
    <3> QED
      BY <2>3, <3>2
  <2>5. ASSUME off <= MaxCopy3Offset PROVE CopyReads(ops, off, n) /\ ops[1].lits = lits
    <3>1. off \in MinCopy3Offset .. MaxCopy3Offset
      BY <1>1, <1>7, <2>2, <2>5
    <3> QED
      BY <1>4, <2>1, <3>1, EmitLits3Reads
  <2> HIDE DEF ops
  <2>6. Right
    BY <1>1, <1>2, <2>2, <2>4, <2>5, CopyMeans
  <2> QED
    BY <1>5, <2>4, <2>6 DEF lits, e, ops
<1>13. CASE ~fuses
  <2> DEFINE x == IF PrefersCopy2(off, n) THEN EncodeCopy2(off, n) ELSE EmitCopy(off, n)
  <2>1. ops = EmitLiteral(lits) \o x /\ e = n
    BY <1>11, <1>13 DEF EmitMatch
  <2>2. x \in Seq(Operations) /\ x[1].lits = <<>>
    <3>1. CASE PrefersCopy2(off, n)
      <4>1. off >= MinCopy2Offset /\ off \in Nat
        BY <1>1, <3>1 DEF PrefersCopy2
      <4> QED
        BY <1>6, <3>1, <4>1, Copy2Typed
    <3>2. CASE ~PrefersCopy2(off, n)
      BY <1>1, <1>6, <3>2, CopyTyped
    <3> QED
      BY <3>1, <3>2
  <2>3. ASSUME off <= MaxCopy3Offset PROVE CopyReads(x, off, n)
    <3>1. CASE PrefersCopy2(off, n)
      <4>1. off \in MinCopy2Offset .. MaxCopy2Offset
        BY <1>1, <1>7, <3>1 DEF PrefersCopy2
      <4> QED
        BY <1>4, <3>1, <4>1, Copy2Reads
    <3>2. CASE ~PrefersCopy2(off, n)
      <4>1. off \in 1 .. MaxCopy3Offset
        BY <1>1, <1>7, <2>3
      <4> QED
        BY <1>4, <3>2, <4>1, EmitCopyReads
    <3> QED
      BY <3>1, <3>2
  <2> HIDE DEF x
  <2>4. ops \in Seq(Operations)
    <3> DEFINE lit == EmitLiteral(lits)
    <3>1. lit \in Seq(Operations)
      BY <1>2
    <3> HIDE DEF lit
    <3>2. lit \o x \in Seq(Operations)
      BY <2>2, <3>1
    <3> QED
      BY <2>1, <3>2 DEF lit
  <2>5. Right
    <3>1. SUFFICES ASSUME off <= MaxCopy3Offset, Means(code, src, nextEmit, repeat)
                   PROVE  Means(code \o ops, src, b + e, off)
      BY DEF ops
    <3>2. CopyReads(x, off, n)
      BY <2>3, <3>1
    <3>3. Means(code \o (EmitLiteral(SubSeq(src, nextEmit + 1, b)) \o x), src, b + n, off)
      BY <1>1, <2>2, <3>1, <3>2, LitsAndCopy
    <3> QED
      BY <1>2, <2>1, <3>3
  <2> QED
    BY <1>5, <2>4, <2>5 DEF lits, e
<1> QED
  BY <1>10, <1>12, <1>13

\* Literals, and a repeat behind them.
LEMMA LitsAndRepeat ==
  ASSUME EncoderTyped, NEW b \in nextEmit .. Size, NEW off \in 1 .. b, off = repeat,
         NEW n \in Nat \ {0}, b + n <= Size, Repeats(src, off, b, b + n)
  PROVE  LET ops == EmitLiteral(Slice(nextEmit, b)) \o EmitRepeat(n)
         IN  /\ ops \in Seq(Operations)
             /\ Means(code, src, nextEmit, repeat) => Means(code \o ops, src, b + n, off)
<1> DEFINE lit == EmitLiteral(Slice(nextEmit, b))
           x == EmitRepeat(n)
<1>1. /\ src \in Seq(Bytes) /\ nextEmit \in Nat /\ b \in nextEmit .. Len(src) /\ Len(src) <= Room3
      /\ b \in Nat /\ b \in 0 .. Len(src) /\ b + n <= Len(src) /\ code \in Seq(Operations)
  BY DEF EncoderTyped, Size
<1>2. lit \in Seq(Operations) /\ lit = EmitLiteral(SubSeq(src, nextEmit + 1, b))
  BY SliceTyped
<1>3. x \in Seq(Operations)
  BY RepeatTyped
<1> HIDE DEF lit, x
<1>4. lit \o x \in Seq(Operations)
  BY <1>2, <1>3
<1>5. ASSUME Means(code, src, nextEmit, repeat) PROVE Means(code \o (lit \o x), src, b + n, off)
  <2>1. Means(code \o EmitLiteral(SubSeq(src, nextEmit + 1, b)), src, b, repeat)
    BY <1>1, <1>5, LiteralMeans
  <2> DEFINE more == code \o lit
  <2>2. Means(more, src, b, off)
    BY <1>2, <2>1
  <2> HIDE DEF more
  <2>3. Means(more \o EmitRepeat(n), src, b + n, off)
    BY <1>1, <2>2, RepeatMeans
  <2>4. (code \o lit) \o x = code \o (lit \o x)
    BY <1>1, <1>2, <1>3, OpsJoined, Zenon
  <2> QED
    BY <2>3, <2>4 DEF more, x
<1> QED
  BY <1>4, <1>5 DEF lit, x

\* How far a match takes the encoder.
TakeEnd(m) == m.start + (IF m.rep THEN MatchLen(m) ELSE Emitted(Lits(m), m.off, MatchLen(m)))

LEMMA TakeIs ==
  ASSUME EncoderTyped, NEW m, GoodMatch(m)
  PROVE  /\ TakeEnd(m) \in nextEmit + 1 .. Size /\ m.off \in 1 .. TakeEnd(m)
         /\ level # "best" => TakeEnd(m) = m.end
         /\ MatchOps(m) \in Seq(Operations)
         /\ Near /\ Means(code, src, nextEmit, repeat) =>
              Means(code \o MatchOps(m), src, TakeEnd(m), m.off)
<1> DEFINE b == m.start
           off == m.off
           end == m.end
           n == MatchLen(m)
<1>1. /\ b \in nextEmit .. Size /\ off \in 1 .. b /\ end \in b + 3 .. Size
      /\ Repeats(src, off, b, end) /\ m.rep \in BOOLEAN /\ (m.rep => off = repeat)
      /\ ~m.rep => end >= b + 4 /\ (Near => off <= MaxCopy3Offset)
  BY DEF GoodMatch
<1>2. Size \in Nat /\ nextEmit \in Nat
  BY DEF EncoderTyped, Size
<1>3. n = end - b /\ Lits(m) = Slice(nextEmit, b)
  BY DEF MatchLen, Lits
<1>4. TakeEnd(m) = b + (IF m.rep THEN n ELSE Emitted(Lits(m), off, n))
  BY DEF TakeEnd
<1>5. MatchOps(m) = IF m.rep THEN EmitLiteral(Lits(m)) \o EmitRepeat(n) ELSE EmitMatch(Lits(m), off, n)
  BY DEF MatchOps
<1> HIDE DEF b, off, end, n
<1>6. b \in Nat /\ off \in Nat \ {0} /\ n \in Nat \ {0} /\ b + n = end /\ b + n <= Size
      /\ (~m.rep => n >= 4) /\ nextEmit <= b /\ off <= b
  BY <1>1, <1>2, <1>3
<1>7. Repeats(src, off, b, b + n)
  BY <1>1, <1>6
<1>8. CASE m.rep
  <2>1. TakeEnd(m) = end
    BY <1>4, <1>6, <1>8
  <2>2. TakeEnd(m) \in nextEmit + 1 .. Size /\ off \in 1 .. TakeEnd(m)
    BY <1>1, <1>2, <1>6, <2>1
  <2> DEFINE ops == EmitLiteral(Slice(nextEmit, b)) \o EmitRepeat(n)
  <2>3. ops \in Seq(Operations)
        /\ (Means(code, src, nextEmit, repeat) => Means(code \o ops, src, b + n, off))
    BY <1>1, <1>6, <1>7, <1>8, LitsAndRepeat
  <2>4. MatchOps(m) = ops
    BY <1>3, <1>5, <1>8
  <2> HIDE DEF ops
  <2> QED
    BY <1>6, <2>1, <2>2, <2>3, <2>4 DEF off, end
<1>9. CASE ~m.rep
  <2> DEFINE lits == Slice(nextEmit, b)
             e == Emitted(lits, off, n)
             ops == EmitMatch(lits, off, n)
  <2>1. /\ e \in 4 .. n /\ (level # "best" => e = n)
        /\ ops \in Seq(Operations)
        /\ off <= MaxCopy3Offset /\ Means(code, src, nextEmit, repeat) => Means(code \o ops, src, b + e, off)
    BY <1>1, <1>6, <1>7, <1>9, EmitMatchIs
  <2>2. TakeEnd(m) = b + e /\ MatchOps(m) = ops
    BY <1>3, <1>4, <1>5, <1>9
  <2> HIDE DEF e, ops, lits
  <2>3. TakeEnd(m) \in nextEmit + 1 .. Size /\ off \in 1 .. TakeEnd(m)
        /\ (level # "best" => TakeEnd(m) = end)
    BY <1>1, <1>2, <1>6, <2>1, <2>2
  <2>4. Near => off <= MaxCopy3Offset
    BY <1>1, <1>9
  <2> QED
    BY <2>1, <2>2, <2>3, <2>4 DEF off, end
<1> QED
  BY <1>1, <1>8, <1>9

-----------------------------------------------------------------------------
(* The reference encoder emits what the others do                          *)

LEMMA RefLiteralsSame ==
  ASSUME NEW lits \in Seq(Bytes)
  PROVE  RefEmitLiterals(lits) = EmitLiteral(lits)
<1> DEFINE n == Len(lits)
<1>1. n \in Nat /\ (n = 0 <=> lits = <<>>) /\ LitInline \in Nat /\ Room1 \in Nat /\ Room2 \in Nat
      /\ Room3 \in Nat \ {0}
  BY LengthAssumption
<1> HIDE DEF n
<1>2. CASE n = 0
  BY <1>1, <1>2 DEF RefEmitLiterals, EmitLiteral, n
<1>3. CASE n # 0
  <2> DEFINE field == IF n <= LitInline THEN [code |-> n - 1, ext |-> 0]
                      ELSE Extended(LitInline, n - (LitInline + 1))
             rest == n - 1 - LitInline
  <2>1. n <= LitInline <=> n - 1 < LitInline
    BY <1>1
  <2>2. n - (LitInline + 1) = rest
    BY <1>1
  <2>3. LitField(n) = field
    <3> HIDE DEF rest
    <3>1. LitField(n) = IF n - 1 < LitInline THEN [code |-> n - 1, ext |-> 0] ELSE Extended(LitInline, rest)
      BY DEF LitField, LengthField, Extended, rest
    <3> QED
      BY <2>1, <2>2, <3>1
  <2>4. RefEmitLiterals(lits) = <<Op("literal", field, 0, lits)>>
    BY <1>3 DEF RefEmitLiterals, n
  <2> QED
    BY <1>1, <1>3, <2>3, <2>4 DEF EmitLiteral, n
<1> QED
  BY <1>2, <1>3

LEMMA RefRepeatSame ==
  ASSUME NEW n \in Nat \ {0}
  PROVE  RefEmitRepeat(n) = EmitRepeat(n)
BY DEF RefEmitRepeat, EmitRepeat, LitField, LengthField, Extended

LEMMA RefCopyFieldSame ==
  ASSUME NEW n \in Nat, n >= MinMatch
  PROVE  RefCopyField(n) = CopyField(n)
<1> DEFINE v == n - MinMatch
<1>1. v \in Nat /\ CopyInline \in Nat
  BY LengthAssumption DEF MinMatch
<1>2. v <= CopyInline <=> v < CopyInline + 1
  BY <1>1
<1>3. RefCopyField(n) = IF v <= CopyInline THEN [code |-> v, ext |-> 0]
                        ELSE Extended(CopyInline + 1, v - CopyInline)
  BY DEF RefCopyField
<1> HIDE DEF v
<1> DEFINE rest == v - CopyInline
           one == CopyInline + 1
<1>4. one + 1 = CopyInline + 1 + 1 /\ one + 2 = CopyInline + 1 + 2
  OBVIOUS
<1>5. CopyField(n) = IF v < one THEN [code |-> v, ext |-> 0] ELSE Extended(one, rest)
  BY DEF CopyField, LengthField, Extended, v
<1> QED
  BY <1>2, <1>3, <1>5

LEMMA RefCopySame ==
  ASSUME NEW off \in Nat \ {0}, NEW n \in Nat, n >= MinMatch
  PROVE  EmitCopy(off, n) = IF off <= MaxCopy1Offset THEN RefEmitCopy1(off, n)
                            ELSE IF off <= MaxCopy2Offset THEN RefEmitCopy2(off, n)
                            ELSE RefEmitCopy3(off, n, <<>>)
<1>1. MaxCopy1Offset \in Nat /\ MaxCopy2Offset \in Nat /\ MaxCopy1Offset <= MaxCopy2Offset
  BY OffsetAssumption DEF MaxCopy2Offset
<1>2. CASE off > MaxCopy2Offset
  <2>1. EmitCopy(off, n) = EncodeCopy3(off, n, <<>>)
    BY <1>2 DEF EmitCopy
  <2>2. RefEmitCopy3(off, n, <<>>) = EncodeCopy3(off, n, <<>>)
    BY RefCopyFieldSame DEF RefEmitCopy3, EncodeCopy3
  <2> QED
    BY <1>1, <1>2, <2>1, <2>2
<1>3. CASE off <= MaxCopy2Offset /\ off > MaxCopy1Offset
  <2>1. EmitCopy(off, n) = EncodeCopy2(off, n)
    BY <1>1, <1>3 DEF EmitCopy
  <2>2. RefEmitCopy2(off, n) = EncodeCopy2(off, n)
    BY RefCopyFieldSame DEF RefEmitCopy2, EncodeCopy2
  <2> QED
    BY <1>1, <1>3, <2>1, <2>2
<1>4. CASE off <= MaxCopy1Offset
  <2>1. ~(off > MaxCopy2Offset) /\ ~(off > MaxCopy1Offset)
    BY <1>1, <1>4
  <2>2. Copy1Inline \in Nat \ {0} /\ Room1 \in Nat \ {0} /\ Room2 \in Nat /\ Copy1Max = Copy1Inline + 3
    BY LengthAssumption DEF Copy1Max
  <2> DEFINE Copy1(c, ext) == <<Op("copy1", [code |-> c, ext |-> ext], off - 1, <<>>)>>
  <2>3. CASE n <= Copy1Max
    <3>1. n < Room1 + Copy1Max /\ n - MinMatch < Copy1Inline
      BY <2>2, <2>3 DEF MinMatch
    <3>2. EmitCopy(off, n) = Copy1(n - MinMatch, 0)
      BY <2>1, <3>1 DEF EmitCopy, LengthField, Op
    <3>3. RefEmitCopy1(off, n) = Copy1(n - MinMatch, 0)
      BY <2>3 DEF RefEmitCopy1
    <3> QED
      BY <1>4, <3>2, <3>3
  <2>4. CASE ~(n <= Copy1Max) /\ n <= Copy1Max + Room1 - 1
    <3> DEFINE rest == n - MinMatch - (Copy1Inline - 1)
    <3>1. n < Room1 + Copy1Max /\ ~(n - MinMatch < Copy1Inline) /\ rest < Room1 /\ rest = n - Copy1Max
      BY <2>2, <2>4 DEF MinMatch
    <3>2. LengthField(n - MinMatch, Copy1Inline, Copy1Inline - 1) = [code |-> Copy1Inline, ext |-> rest]
      BY <3>1 DEF LengthField
    <3>3. EmitCopy(off, n) = Copy1(Copy1Inline, rest)
      BY <2>1, <3>1, <3>2 DEF EmitCopy
    <3>4. RefEmitCopy1(off, n) = Copy1(Copy1Inline, n - Copy1Max)
      BY <2>4 DEF RefEmitCopy1
    <3> QED
      BY <1>4, <3>1, <3>3, <3>4
  <2>5. CASE ~(n <= Copy1Max) /\ ~(n <= Copy1Max + Room1 - 1)
    <3>1. ~(n < Room1 + Copy1Max) /\ n - Copy1Max \in Nat \ {0}
      BY <2>2, <2>5
    <3>2. EmitCopy(off, n) = Copy1(Copy1Inline - 1, 0) \o EmitRepeat(n - Copy1Max)
      BY <2>1, <3>1 DEF EmitCopy
    <3>3. RefEmitCopy1(off, n) = Copy1(Copy1Inline - 1, 0) \o RefEmitRepeat(n - Copy1Max)
      BY <2>5 DEF RefEmitCopy1
    <3>4. RefEmitRepeat(n - Copy1Max) = EmitRepeat(n - Copy1Max)
      BY <3>1, RefRepeatSame
    <3> QED
      BY <1>4, <3>2, <3>3, <3>4
  <2> QED
    BY <2>3, <2>4, <2>5
<1> QED
  BY <1>1, <1>2, <1>3, <1>4

LEMMA RefLits2Same ==
  ASSUME NEW off \in Nat, NEW n \in Nat, n >= MinMatch, NEW lits
  PROVE  RefEmitCopyLits2(lits, off, n) = EmitCopyLits2(lits, off, n)
<1>1. FusedInline \in Nat
  BY LengthAssumption
<1> DEFINE Fused(c) == <<Op("fused2", [code |-> c, ext |-> 0], (off - MinCopy2Offset) % Copy2Offsets, lits)>>
           more == n - MinMatch
<1>2. more > FusedInline <=> n > Copy2LitMaxLen
  BY <1>1 DEF Copy2LitMaxLen, MinMatch
<1>3. RefEmitCopyLits2(lits, off, n) =
        IF more > FusedInline THEN Fused(FusedInline) \o RefEmitRepeat(more - FusedInline) ELSE Fused(more)
  BY DEF RefEmitCopyLits2
<1>4. EmitCopyLits2(lits, off, n) =
        IF n > Copy2LitMaxLen THEN Fused(FusedInline) \o EmitRepeat(n - Copy2LitMaxLen) ELSE Fused(more)
  BY DEF EmitCopyLits2
<1>5. more > FusedInline =>
        more - FusedInline = n - Copy2LitMaxLen /\ RefEmitRepeat(more - FusedInline) = EmitRepeat(n - Copy2LitMaxLen)
  <2> SUFFICES ASSUME more > FusedInline
               PROVE  more - FusedInline = n - Copy2LitMaxLen
                      /\ RefEmitRepeat(more - FusedInline) = EmitRepeat(n - Copy2LitMaxLen)
    OBVIOUS
  <2>1. more - FusedInline \in Nat \ {0} /\ more - FusedInline = n - Copy2LitMaxLen
    BY <1>1 DEF Copy2LitMaxLen, MinMatch
  <2>2. RefEmitRepeat(more - FusedInline) = EmitRepeat(more - FusedInline)
    BY <2>1, RefRepeatSame
  <2> QED
    BY <2>1, <2>2
<1> HIDE DEF Fused
<1> QED
  BY <1>2, <1>3, <1>4, <1>5

LEMMA RefEmitMatchIs ==
  ASSUME EncoderTyped, NEW b \in nextEmit .. Size, NEW off \in 1 .. b, NEW n \in Nat, n >= 4,
         b + n <= Size, Repeats(src, off, b, b + n), off <= MaxCopy3Offset
  PROVE  LET ops == RefEmitMatch(Slice(nextEmit, b), off, n)
         IN  /\ ops \in Seq(Operations)
             /\ Means(code, src, nextEmit, repeat) => Means(code \o ops, src, b + n, off)
<1> DEFINE lits == Slice(nextEmit, b)
           ops == RefEmitMatch(lits, off, n)
           k == Len(lits)
           Right == Means(code, src, nextEmit, repeat) => Means(code \o ops, src, b + n, off)
<1>1. /\ src \in Seq(Bytes) /\ nextEmit \in Nat /\ b \in nextEmit .. Len(src) /\ Len(src) <= Room3
      /\ Len(src) = Size /\ Size \in Nat /\ Room3 \in Nat /\ b \in Nat /\ b \in 0 .. Len(src) /\ off \in Nat \ {0}
      /\ b + n <= Len(src)
  BY LengthAssumption DEF EncoderTyped, Size
<1>2. /\ lits = SubSeq(src, nextEmit + 1, b) /\ lits \in Seq(Bytes) /\ k \in Nat
      /\ EmitLiteral(lits) \in Seq(Operations)
  BY SliceTyped
<1>3. lits # <<>> => k >= 1
  BY <1>2
<1>4. n \in Lengths /\ n >= MinMatch
  BY <1>1 DEF Lengths, MinMatch
<1> HIDE DEF lits, k
<1>5. /\ MaxCopy3Lits \in 1 .. 3 /\ MaxCopy2Lits \in MaxCopy3Lits .. 4
      /\ MinCopy3Offset \in Nat /\ MinCopy3Offset <= MaxCopy2Offset + 1 /\ MaxCopy2Offset \in Nat
      /\ MinCopy2Offset \in Nat /\ MaxCopy3Offset \in Nat
  BY OffsetAssumption DEF MaxCopy2Offset, MaxCopy3Offset
<1> DEFINE fuses == RefCanFuse(lits, off)
<1>6. fuses => /\ lits # <<>> /\ k >= 1 /\ off >= MinCopy2Offset
               /\ k <= MaxCopy3Lits \/ (off <= MaxCopy2Offset /\ k <= MaxCopy2Lits)
  BY <1>3 DEF RefCanFuse, k
<1>7. CASE fuses /\ off <= MaxCopy2Offset
  <2>1. ops = EmitCopyLits2(lits, off, n)
    BY <1>1, <1>4, <1>7, RefLits2Same DEF RefEmitMatch
  <2>2. Len(lits) \in 1 .. MaxCopy2Lits /\ off \in MinCopy2Offset .. MaxCopy2Offset /\ off \in Nat
        /\ off >= MinCopy2Offset
    BY <1>1, <1>2, <1>5, <1>6, <1>7 DEF k
  <2>3. EmitCopyLits2(lits, off, n) \in Seq(Operations)
    BY <1>2, <1>4, <2>2, Fused2Typed
  <2>4. CopyReads(ops, off, n) /\ ops[1].lits = lits
    BY <1>4, <2>1, <2>2, EmitLits2Reads
  <2>5. ops \in Seq(Operations)
    BY <2>1, <2>3
  <2> HIDE DEF ops
  <2>6. Right
    BY <1>1, <1>2, <2>4, <2>5, CopyMeans
  <2> QED
    BY <2>5, <2>6 DEF lits, ops
<1>8. CASE fuses /\ ~(off <= MaxCopy2Offset)
  <2>1. ops = RefEmitCopy3(off, n, lits)
    BY <1>8 DEF RefEmitMatch
  <2>2. RefEmitCopy3(off, n, lits) = EncodeCopy3(off, n, lits)
    BY <1>4, RefCopyFieldSame DEF RefEmitCopy3, EncodeCopy3
  <2>3. Len(lits) \in 0 .. MaxCopy3Lits /\ off \in MinCopy3Offset .. MaxCopy3Offset /\ off \in Nat
        /\ off >= MinCopy3Offset
    BY <1>1, <1>2, <1>5, <1>6, <1>8 DEF k
  <2>4. EncodeCopy3(off, n, lits) \in Seq(Operations) /\ EncodeCopy3(off, n, lits)[1].lits = lits
    BY <1>2, <1>4, <2>3, Copy3Typed
  <2>5. CopyReads(EncodeCopy3(off, n, lits), off, n)
    BY <1>4, <2>3, Copy3Reads
  <2>6. ops \in Seq(Operations) /\ ops[1].lits = lits /\ CopyReads(ops, off, n)
    BY <2>1, <2>2, <2>4, <2>5
  <2> HIDE DEF ops
  <2>7. Right
    BY <1>1, <1>2, <2>6, CopyMeans
  <2> QED
    BY <2>6, <2>7 DEF lits, ops
<1>9. CASE ~fuses /\ off = repeat
  <2>1. ops = RefEmitLiterals(lits) \o RefEmitRepeat(n)
    BY <1>9 DEF RefEmitMatch
  <2>5. n \in Nat \ {0}
    OBVIOUS
  <2>6. RefEmitRepeat(n) = EmitRepeat(n)
    BY <2>5, RefRepeatSame
  <2>7. RefEmitLiterals(lits) = EmitLiteral(lits)
    BY <1>2, RefLiteralsSame
  <2>2. RefEmitLiterals(lits) = EmitLiteral(lits) /\ RefEmitRepeat(n) = EmitRepeat(n) /\ n \in Nat \ {0}
    BY <2>5, <2>6, <2>7
  <2> DEFINE y == EmitLiteral(Slice(nextEmit, b)) \o EmitRepeat(n)
  <2>3. y \in Seq(Operations) /\ (Means(code, src, nextEmit, repeat) => Means(code \o y, src, b + n, off))
    BY <1>1, <1>9, <2>2, LitsAndRepeat
  <2>4. ops = y
    BY <2>1, <2>2 DEF lits
  <2> QED
    BY <2>3, <2>4 DEF lits
<1>10. CASE ~fuses /\ off # repeat
  <2> DEFINE x == EmitCopy(off, n)
  <2>1. ops = RefEmitLiterals(lits) \o x
    <3>1. x = IF off <= MaxCopy1Offset THEN RefEmitCopy1(off, n)
              ELSE IF off <= MaxCopy2Offset THEN RefEmitCopy2(off, n)
              ELSE RefEmitCopy3(off, n, <<>>)
      BY <1>1, <1>4, RefCopySame
    <3> QED
      BY <1>10, <3>1 DEF RefEmitMatch
  <2>2. ops = EmitLiteral(lits) \o x
    BY <1>2, <2>1, RefLiteralsSame
  <2>3. x \in Seq(Operations) /\ x[1].lits = <<>>
    BY <1>1, <1>4, CopyTyped
  <2>4. CopyReads(x, off, n)
    <3>1. off \in 1 .. MaxCopy3Offset
      BY <1>1, <1>5
    <3> QED
      BY <1>4, <3>1, EmitCopyReads
  <2> HIDE DEF x
  <2>5. ops \in Seq(Operations)
    <3> DEFINE lit == EmitLiteral(lits)
    <3>1. lit \in Seq(Operations)
      BY <1>2
    <3> HIDE DEF lit
    <3>2. lit \o x \in Seq(Operations)
      BY <2>3, <3>1
    <3> QED
      BY <2>2, <3>2 DEF lit
  <2>6. ASSUME Means(code, src, nextEmit, repeat) PROVE Means(code \o ops, src, b + n, off)
    <3>1. Means(code \o (EmitLiteral(SubSeq(src, nextEmit + 1, b)) \o x), src, b + n, off)
      BY <1>1, <2>3, <2>4, <2>6, LitsAndCopy
    <3> QED
      BY <1>2, <2>2, <3>1
  <2> QED
    BY <2>5, <2>6 DEF lits
<1> QED
  BY <1>7, <1>8, <1>9, <1>10

-----------------------------------------------------------------------------
(* Every step of an encoder                                                *)

\* What an encoder has emitted means what it has passed of the block, and in the
\* end the block.
EncoderMeans ==
  /\ pc \in {"start", "search", "again", "rest"} => Means(code, src, nextEmit, repeat)
  /\ pc = "coded" => Meaning(code).ok /\ Meaning(code).out = src

\* The operations ops take the encoder to end.
LEMMA AdvanceTyped ==
  ASSUME EncoderTyped, NEW ops \in Seq(Operations), NEW end \in nextEmit .. Size, end >= 1,
         NEW off \in 1 .. end, NEW indexed \in Nat, level # "best" => indexed < end,
         NEW next \in {"search", "again", "rest"}, next = "again" => level = "fast",
         Advance(ops, off, end, indexed, next)
  PROVE  EncoderTyped'
<1>1. /\ code' = code \o ops /\ s' = end /\ nextEmit' = end /\ repeat' = off /\ top' = indexed /\ pc' = next
      /\ src' = src /\ level' = level
  BY DEF Advance
<1>2. code \o ops \in Seq(Operations)
  BY DEF EncoderTyped
<1>3. Size' = Size /\ Size \in Nat /\ nextEmit \in Nat
  BY <1>1 DEF Size, EncoderTyped
<1>4. end \in Nat /\ end <= Size /\ off \in Nat \ {0} /\ off <= end
  BY <1>3
<1> QED
  BY <1>1, <1>2, <1>3, <1>4 DEF EncoderTyped

LEMMA ReturnTyped ==
  ASSUME EncoderTyped, NEW ops \in Seq(Operations), NEW result \in {"coded", "raw"}, Return(result, ops)
  PROVE  EncoderTyped'
<1>1. /\ code' = ops /\ s' = 0 /\ nextEmit' = 0 /\ repeat' = 1 /\ top' = 0 /\ pc' = result
      /\ src' = src /\ level' = level
  BY DEF Return
<1>2. Size' = Size /\ Size \in Nat
  BY <1>1 DEF Size, EncoderTyped
<1> QED
  BY <1>1, <1>2 DEF EncoderTyped

LEMMA BailIs ==
  ASSUME EncoderTyped, Bail
  PROVE  EncoderTyped' /\ pc' = "raw"
<1>1. <<>> \in Seq(Operations) /\ "raw" \in {"coded", "raw"} /\ Return("raw", <<>>)
  BY DEF Bail
<1>2. pc' = "raw"
  BY <1>1 DEF Return
<1> QED
  BY <1>1, <1>2, ReturnTyped

\* A step takes an encoder forward (see SearchAdvances).
Forward ==
  pc # "start" /\ pc' \in {"search", "again"} =>
    nextEmit' > nextEmit \/ (nextEmit' = nextEmit /\ s' > s)

StepGood == EncoderTyped' /\ Forward /\ (Near /\ EncoderMeans => EncoderMeans')

LEMMA BailGood ==
  ASSUME EncoderTyped, Bail
  PROVE  StepGood
BY BailIs DEF StepGood, Forward, EncoderMeans

LEMMA AdvanceGood ==
  ASSUME EncoderTyped, pc \in {"search", "again"},
         NEW ops \in Seq(Operations), NEW end \in nextEmit + 1 .. Size,
         NEW off \in 1 .. end, NEW indexed \in Nat, level # "best" => indexed < end,
         NEW next \in {"search", "again", "rest"}, next = "again" => level = "fast",
         Advance(ops, off, end, indexed, next),
         Near /\ Means(code, src, nextEmit, repeat) => Means(code \o ops, src, end, off)
  PROVE  StepGood
<1>1. nextEmit \in Nat /\ Size \in Nat
  BY DEF EncoderTyped, Size
<1>2. end \in nextEmit .. Size /\ end >= 1 /\ end > nextEmit
  BY <1>1
<1>3. EncoderTyped'
  BY <1>2, AdvanceTyped
<1>4. code' = code \o ops /\ nextEmit' = end /\ repeat' = off /\ src' = src /\ pc' = next
  BY DEF Advance
<1>5. Forward
  BY <1>2, <1>4 DEF Forward
<1>6. Near /\ EncoderMeans => EncoderMeans'
  <2>1. Near /\ EncoderMeans => Means(code \o ops, src, end, off)
    BY DEF EncoderMeans
  <2>2. Means(code \o ops, src, end, off) => Means(code, src, nextEmit, repeat)'
    BY <1>4 DEF Means
  <2> QED
    BY <1>4, <2>1, <2>2 DEF EncoderMeans
<1> QED
  BY <1>3, <1>5, <1>6 DEF StepGood

\* Steps that emit nothing.
LEMMA SilentGood ==
  ASSUME EncoderTyped, EncoderTyped', Forward, UNCHANGED <<src, level, nextEmit, repeat, code>>,
         pc \in {"start", "search", "again", "rest"}, pc' \in {"start", "search", "again", "rest"}
  PROVE  StepGood
<1>1. EncoderMeans => EncoderMeans'
  BY DEF EncoderMeans, Means
<1> QED
  BY <1>1 DEF StepGood

LEMMA StartGood ==
  ASSUME EncoderTyped, Start
  PROVE  StepGood
<1>1. Forward /\ UNCHANGED <<src, level, nextEmit, repeat, code>> /\ pc = "start" /\ pc' = "search"
      /\ s' = 1 /\ top' = top
  BY DEF Start, Forward
<1>2. Size' = Size /\ Size \in Nat
  BY <1>1 DEF Size, EncoderTyped
<1>3. EncoderTyped'
  BY <1>1, <1>2 DEF EncoderTyped
<1> QED
  BY <1>1, <1>3, SilentGood

LEMMA ToRestGood ==
  ASSUME EncoderTyped, SearchEnd \/ AgainEnd \/ RefSearchEnd
  PROVE  StepGood
<1>1. /\ Forward /\ UNCHANGED <<src, level, nextEmit, repeat, code, s, top>>
      /\ pc \in {"search", "again"} /\ pc' = "rest"
  BY DEF SearchEnd, AgainEnd, RefSearchEnd, Forward
<1>2. Size' = Size /\ Size \in Nat
  BY <1>1 DEF Size, EncoderTyped
<1>3. EncoderTyped'
  BY <1>1, <1>2 DEF EncoderTyped
<1> QED
  BY <1>1, <1>3, SilentGood

LEMMA MissGood ==
  ASSUME EncoderTyped, level \in Levels, SearchMiss
  PROVE  StepGood
<1>1. /\ UNCHANGED <<src, level, nextEmit, repeat, code>> /\ pc = "search" /\ pc' = "search"
      /\ s' = NextS /\ top' = IF level = "fast" THEN s + 2 ELSE s
  BY DEF SearchMiss, Searching
<1>2. Size' = Size /\ Size \in Nat /\ s \in Nat /\ s >= 1 /\ nextEmit <= s /\ nextEmit \in Nat
  BY <1>1 DEF Size, EncoderTyped
<1>3. NextS \in Nat /\ NextS > s /\ (level = "fast" => NextS >= s + 4)
  BY NextSIs
<1>4. s' \in Nat /\ s' > s /\ top' \in Nat /\ top' < s' /\ nextEmit <= s' /\ s' >= 1
  BY <1>1, <1>2, <1>3
<1>5. EncoderTyped'
  BY <1>1, <1>2, <1>4 DEF EncoderTyped
<1>6. Forward
  BY <1>1, <1>4 DEF Forward
<1> QED
  BY <1>1, <1>5, <1>6, SilentGood

LEMMA AgainMissGood ==
  ASSUME EncoderTyped, AgainMiss
  PROVE  StepGood
<1>1. /\ UNCHANGED <<src, level, nextEmit, repeat, code>> /\ pc = "again" /\ pc' = "search"
      /\ s' = s + 1 /\ top' = s
  BY DEF AgainMiss
<1>2. Size' = Size /\ Size \in Nat /\ s \in Nat /\ s >= 1 /\ nextEmit <= s /\ nextEmit \in Nat
  BY <1>1 DEF Size, EncoderTyped
<1>3. s' \in Nat /\ s' > s /\ top' \in Nat /\ top' < s' /\ nextEmit <= s' /\ s' >= 1
  BY <1>1, <1>2
<1>4. EncoderTyped'
  BY <1>1, <1>2, <1>3 DEF EncoderTyped
<1>5. Forward
  BY <1>1, <1>3 DEF Forward
<1> QED
  BY <1>1, <1>4, <1>5, SilentGood

\* A repeat goes out: literals up to base, and itself up to end.
RepeatStep(base, end, indexed, next) ==
  /\ base \in nextEmit .. s + 1 /\ repeat \in 1 .. base /\ end \in base + 4 .. Size
  /\ s <= Size - 9 /\ indexed \in 0 .. end - 1 /\ next \in {"rest", "search"}
  /\ Repeats(src, repeat, base, end)
  /\ ~(CodeBytes(code) + base - nextEmit > DstLimit)
  /\ Advance(EmitLiteral(Slice(nextEmit, base)) \o EmitRepeat(end - base), repeat, end, indexed, next)

LEMMA SearchRepeatIs ==
  ASSUME EncoderTyped, level \in Levels, SearchRepeat
  PROVE  Bail \/ \E base, end, indexed, next : RepeatStep(base, end, indexed, next)
<1> DEFINE p == s + 1
           c == s + 1 - repeat
           base == MatchStart(p, c)
           q == p + 4
           end == IF level = "fast" THEN WordEnd(q, repeat) ELSE MatchEnd(p, repeat)
           n == end - base
           ops == EmitLiteral(Slice(nextEmit, base)) \o EmitRepeat(n)
           indexed == IF level = "fast" THEN s + 1 ELSE end - 1
           next == IF end >= SLimit THEN "rest" ELSE "search"
<1>1. /\ Searching /\ level # "best" /\ Same(p, c, 4)
      /\ Bail \/ (~(CodeBytes(code) + base - nextEmit > DstLimit) /\ Advance(ops, repeat, end, indexed, next))
  BY DEF SearchRepeat, RepeatAt1, MinMatch
<1>2. /\ Size \in Nat /\ s \in Nat /\ nextEmit \in Nat /\ nextEmit <= s /\ s <= Size - 9
      /\ (level = "fast" => s <= Size - 12) /\ s >= 1
  BY <1>1, SearchingIs DEF Levels
<1>3. repeat \in 1 .. s /\ repeat \in Nat \ {0} /\ repeat \in Int /\ src \in Seq(Bytes)
  BY <1>2 DEF EncoderTyped
<1>4. p \in Nat /\ p \in 0 .. Size /\ q \in 0 .. Size /\ nextEmit <= p /\ c \in 0 .. p - 1
      /\ p - c = repeat /\ c \in Int /\ p + 4 <= Size /\ 4 \in Nat /\ q \in Int
  BY <1>2, <1>3
<1> HIDE DEF p, c
<1>5. base \in nextEmit .. p /\ repeat <= base /\ Repeats(src, repeat, base, p)
  <2>2. MatchStart(p, c) \in nextEmit .. p /\ p - c <= MatchStart(p, c)
        /\ Repeats(src, p - c, MatchStart(p, c), p)
    BY <1>2, <1>3, <1>4, MatchStartIs
  <2> QED
    BY <1>4, <2>2
<1> HIDE DEF base
<1>6. Repeats(src, repeat, p, q) /\ Same(p, p - repeat, 4)
  <2>1. Repeats(src, p - c, p, p + 4) /\ Same(p, p - (p - c), 4)
    BY <1>1, <1>4, SameRepeats
  <2> QED
    BY <1>4, <2>1
<1>7. end \in q .. Size /\ Repeats(src, repeat, p, end)
  <2>1. CASE level = "fast"
    <3>1. end \in q .. MatchEnd(q, repeat) /\ MatchEnd(q, repeat) \in q .. Size /\ Repeats(src, repeat, q, end)
      BY <1>3, <1>4, <2>1, WordEndIs
    <3> HIDE DEF end
    <3>2. p \in Int /\ end \in Int /\ q <= q
      BY <1>4, <3>1
    <3>3. Repeats(src, repeat, p, end)
      BY <1>4, <1>6, <3>1, <3>2, RepeatsJoin
    <3> QED
      BY <1>2, <1>4, <3>1, <3>3
  <2>2. CASE level # "fast"
    <3>1. end = MatchEnd(p, repeat)
      BY <2>2
    <3>2. MatchEnd(p, repeat) \in p .. Size /\ Repeats(src, repeat, p, MatchEnd(p, repeat))
          /\ MatchEnd(p, repeat) >= p + 4
      BY <1>1, <1>3, <1>4, MatchEndIs
    <3> HIDE DEF end
    <3> QED
      BY <1>2, <1>4, <3>1, <3>2
  <2> QED
    BY <2>1, <2>2
<1> HIDE DEF end
<1>8. /\ base \in nextEmit .. s + 1 /\ repeat \in 1 .. base /\ end \in base + 4 .. Size
      /\ end \in Int /\ base \in Int /\ p \in Int /\ p <= p
  BY <1>2, <1>3, <1>4, <1>5, <1>7 DEF p, q
<1>9. Repeats(src, repeat, base, end)
  BY <1>5, <1>7, <1>8, RepeatsJoin
<1>10. indexed \in 0 .. end - 1
  BY <1>2, <1>7, <1>8, <1>4 DEF p, q
<1>11. next \in {"rest", "search"}
  OBVIOUS
<1>12. CASE Advance(ops, repeat, end, indexed, next) /\ ~(CodeBytes(code) + base - nextEmit > DstLimit)
  <2> HIDE DEF indexed, next
  <2>1. RepeatStep(base, end, indexed, next)
    BY <1>2, <1>8, <1>9, <1>10, <1>11, <1>12 DEF RepeatStep
  <2> QED
    BY <2>1
<1> QED
  BY <1>1, <1>12

LEMMA SearchRepeatGood ==
  ASSUME EncoderTyped, level \in Levels, SearchRepeat
  PROVE  StepGood
<1>1. CASE Bail
  BY <1>1, BailGood
<1>2. ASSUME NEW base, NEW end, NEW indexed, NEW next, RepeatStep(base, end, indexed, next)
      PROVE  StepGood
  <2> DEFINE n == end - base
             ops == EmitLiteral(Slice(nextEmit, base)) \o EmitRepeat(n)
  <2>1. /\ base \in nextEmit .. s + 1 /\ repeat \in 1 .. base /\ end \in base + 4 .. Size
        /\ s <= Size - 9 /\ indexed \in 0 .. end - 1 /\ next \in {"rest", "search"}
        /\ Repeats(src, repeat, base, end) /\ Advance(ops, repeat, end, indexed, next)
    BY <1>2 DEF RepeatStep
  <2>2. Size \in Nat /\ nextEmit \in Nat /\ s \in Nat
    BY DEF EncoderTyped, Size
  <2>3. /\ base \in nextEmit .. Size /\ n \in Nat \ {0} /\ base + n = end
        /\ base + n <= Size /\ end \in nextEmit + 1 .. Size /\ repeat \in 1 .. end
        /\ indexed \in Nat /\ indexed < end
    BY <2>1, <2>2
  <2> HIDE DEF n
  <2>4. ops \in Seq(Operations)
        /\ (Means(code, src, nextEmit, repeat) => Means(code \o ops, src, end, repeat))
    <3>1. Repeats(src, repeat, base, base + n)
      BY <2>1, <2>3
    <3> QED
      BY <2>1, <2>3, <3>1, LitsAndRepeat
  <2> HIDE DEF ops
  <2>5. next \in {"search", "again", "rest"} /\ (next = "again" => level = "fast") /\ pc \in {"search", "again"}
    BY <2>1 DEF SearchRepeat, Searching
  <2> QED
    BY <2>1, <2>3, <2>4, <2>5, AdvanceGood
<1> QED
  BY <1>1, <1>2, SearchRepeatIs

LEMMA SkipGood ==
  ASSUME EncoderTyped, level \in Levels, Searching, NEW m \in Matches, NotWorth(m), Skip(m)
  PROVE  StepGood
<1> DEFINE next == IF level = "best" THEN s + 2 ELSE NextS + 1
<1>1. /\ s' = next /\ top' = m.indexed /\ UNCHANGED <<src, level, nextEmit, repeat, code>>
      /\ pc' \in {"rest", "search"} /\ pc = "search"
  BY DEF Skip, Searching
<1>2. level \in {"better", "best"}
  BY DEF NotWorth
<1>3. Size' = Size /\ Size \in Nat /\ s \in Nat /\ nextEmit <= s /\ nextEmit \in Nat
  BY <1>1 DEF Size, EncoderTyped
<1>4. NextS \in Nat /\ NextS > s
  BY NextSIs
<1>5. m.indexed \in Nat /\ (level = "better" => m.indexed <= s + 1)
  BY MatchesGood DEF SearchGood, GoodMatch
<1>6. s' \in Nat /\ s' > s /\ nextEmit <= s' /\ s' >= 1 /\ top' \in Nat /\ (level # "best" => top' < s')
  BY <1>1, <1>2, <1>3, <1>4, <1>5
<1>7. EncoderTyped'
  BY <1>1, <1>3, <1>6 DEF EncoderTyped
<1>8. Forward
  BY <1>1, <1>6 DEF Forward
<1> QED
  BY <1>1, <1>7, <1>8, SilentGood

LEMMA TakeGood ==
  ASSUME EncoderTyped, level \in Levels, Searching, NEW m \in Matches, Take(m)
  PROVE  StepGood
<1> DEFINE end == TakeEnd(m)
           ops == MatchOps(m)
           most == Max({m.indexed, end - 1})
           next == IF end >= SLimit THEN "rest" ELSE "search"
<1>1. Bail \/ (level = "fast" /\ Advance(ops, m.off, end, m.indexed, "again"))
      \/ (level # "fast" /\ Advance(ops, m.off, end, most, next))
  BY DEF Take, TakeEnd
<1>2. GoodMatch(m) /\ (level # "best" => m.indexed < m.end) /\ m.indexed \in Nat
  BY MatchesGood DEF SearchGood, GoodMatch
<1>3. /\ end \in nextEmit + 1 .. Size /\ m.off \in 1 .. end
      /\ level # "best" => end = m.end
      /\ ops \in Seq(Operations)
      /\ Near /\ Means(code, src, nextEmit, repeat) => Means(code \o ops, src, end, m.off)
  BY <1>2, TakeIs
<1>4. Size \in Nat /\ nextEmit \in Nat
  BY DEF EncoderTyped, Size
<1> HIDE DEF end, ops
<1>5. pc \in {"search", "again"}
  BY DEF Searching
<1>6. CASE Bail
  BY <1>6, BailGood
<1>7. CASE level = "fast" /\ Advance(ops, m.off, end, m.indexed, "again")
  <2>1. level # "best" => m.indexed < end
    BY <1>2, <1>3
  <2> DEFINE off == m.off
             indexed == m.indexed
  <2>2. off \in 1 .. end /\ indexed \in Nat /\ (level # "best" => indexed < end)
        /\ Advance(ops, off, end, indexed, "again")
        /\ (Near /\ Means(code, src, nextEmit, repeat) => Means(code \o ops, src, end, off))
    BY <1>2, <1>3, <1>7, <2>1
  <2> HIDE DEF off, indexed
  <2> QED
    BY <1>3, <1>5, <1>7, <2>2, AdvanceGood
<1>8. CASE level # "fast" /\ Advance(ops, m.off, end, most, next)
  <2> DEFINE off == m.off
             indexed == m.indexed
  <2>1. end \in Nat /\ end >= 1 /\ indexed \in Nat /\ (level # "best" => indexed < end)
    BY <1>2, <1>3, <1>4
  <2>2. indexed \in Int /\ end - 1 \in Int
    BY <2>1
  <2> HIDE DEF indexed
  <2>3. most \in {indexed, end - 1}
    BY <2>2, MaxOfTwo DEF indexed
  <2> HIDE DEF most
  <2>4. most \in Nat /\ (level # "best" => most < end)
    BY <2>1, <2>3
  <2>5. next \in {"search", "again", "rest"} /\ (next = "again" => level = "fast")
    OBVIOUS
  <2>6. off \in 1 .. end /\ Advance(ops, off, end, most, next)
        /\ (Near /\ Means(code, src, nextEmit, repeat) => Means(code \o ops, src, end, off))
    BY <1>3, <1>8
  <2> HIDE DEF off, next
  <2> QED
    BY <1>3, <1>5, <2>4, <2>5, <2>6, AdvanceGood
<1> QED
  BY <1>1, <1>6, <1>7, <1>8

LEMMA SearchMatchGood ==
  ASSUME EncoderTyped, level \in Levels, SearchMatch
  PROVE  StepGood
<1>1. PICK m \in Matches : Bail \/ (NotWorth(m) /\ Skip(m)) \/ Take(m)
  BY DEF SearchMatch
<1>2. Searching
  BY DEF SearchMatch
<1>3. CASE Bail
  BY <1>3, BailGood
<1>4. CASE NotWorth(m) /\ Skip(m)
  BY <1>2, <1>4, SkipGood
<1>5. CASE Take(m)
  BY <1>2, <1>5, TakeGood
<1> QED
  BY <1>1, <1>3, <1>4, <1>5

\* A copy without literals goes out, up to end.
CopyStep(off, end) ==
  /\ level = "fast" /\ pc = "again" /\ s = nextEmit /\ off \in 1 .. s /\ off <= MaxCopy3Offset
  /\ end \in s + 4 .. Size /\ Repeats(src, off, s, end)
  /\ CodeBytes(code) <= DstLimit
  /\ Advance(EmitCopy(off, end - s), off, end, s, "again")

LEMMA AgainMatchIs ==
  ASSUME EncoderTyped, AgainMatch
  PROVE  \E off, end : CopyStep(off, end)
<1>1. PICK c \in 0 .. top :
        /\ Wide => s - c <= MaxCopy3Offset
        /\ Same(s, c, 4)
        /\ LET end == WordEnd(s + 4, s - c)
           IN  Advance(EmitCopy(s - c, end - s), s - c, end, s, "again")
  BY DEF AgainMatch, MinMatch
<1>2. /\ level = "fast" /\ s = nextEmit /\ s >= 1 /\ s \in Nat /\ top < s /\ top \in Nat /\ pc = "again"
      /\ src \in Seq(Bytes) /\ Size \in Nat /\ s < SLimit /\ Size = Len(src) /\ Len(src) <= Room3
      /\ code \in Seq(Operations)
  BY DEF AgainMatch, EncoderTyped, Size
<1>3. s + 8 < Size
  BY <1>2 DEF SLimit, InputMargin
<1> DEFINE off == s - c
           q == s + 4
           end == WordEnd(q, off)
           n == end - s
           x == EmitCopy(off, n)
<1>4. c \in 0 .. s - 1 /\ off \in 1 .. s /\ off \in Nat \ {0} /\ q \in 0 .. Size /\ s \in Int /\ c \in Int
      /\ q \in Int /\ off \in Int /\ 4 \in Nat
  BY <1>2, <1>3
<1>5. off <= MaxCopy3Offset
  <2>1. MaxCopy3Offset \in Nat
    BY OffsetAssumption DEF MaxCopy3Offset
  <2>2. ~Wide => Size <= MaxCopy3Offset
    BY <1>2, <2>1, EncoderAssumption DEF Wide
  <2>3. Wide => off <= MaxCopy3Offset
    BY <1>1
  <2>4. off <= s /\ s <= Size
    BY <1>2, <1>3, <1>4
  <2> HIDE DEF off
  <2> QED
    BY <1>2, <1>4, <2>1, <2>2, <2>3, <2>4
<1>6. Advance(x, off, end, s, "again")
  BY <1>1
<1>7. Repeats(src, off, s, q)
  BY <1>1, <1>4, SameRepeats
<1> HIDE DEF off
<1>8. end \in q .. MatchEnd(q, off) /\ MatchEnd(q, off) \in q .. Size /\ Repeats(src, off, q, end)
  BY <1>2, <1>4, WordEndIs
<1> HIDE DEF end
<1>9. end \in s + 4 .. Size /\ end \in Int
  BY <1>2, <1>4, <1>8 DEF q
<1>10. Repeats(src, off, s, end)
  <2>1. q <= q
    BY <1>4
  <2> QED
    BY <1>4, <1>7, <1>8, <1>9, <2>1, RepeatsJoin
<1>11. CodeBytes(code) <= DstLimit
  BY DEF AgainMatch
<1>12. CopyStep(off, end)
  BY <1>2, <1>4, <1>5, <1>6, <1>9, <1>10, <1>11 DEF CopyStep
<1> QED
  BY <1>12

LEMMA AgainMatchGood ==
  ASSUME EncoderTyped, AgainMatch
  PROVE  StepGood
<1>1. PICK off, end : CopyStep(off, end)
  BY AgainMatchIs
<1> DEFINE n == end - s
           x == EmitCopy(off, n)
<1>2. /\ level = "fast" /\ s = nextEmit /\ s \in Nat /\ top \in Nat /\ top < s /\ pc = "again"
      /\ src \in Seq(Bytes) /\ Size \in Nat /\ Size = Len(src) /\ Len(src) <= Room3 /\ code \in Seq(Operations)
  BY <1>1 DEF CopyStep, EncoderTyped, Size
<1>4. /\ off \in 1 .. s /\ off \in Nat \ {0} /\ off <= MaxCopy3Offset /\ end \in s + 4 .. Size
      /\ Repeats(src, off, s, end) /\ Advance(x, off, end, s, "again")
  BY <1>1, <1>2 DEF CopyStep
<1>9. end \in Int /\ n \in Nat /\ n >= MinMatch /\ s + n = end /\ n \in Lengths /\ s <= Size
      /\ end \in nextEmit + 1 .. Size /\ off \in 1 .. end /\ s < end /\ s + n <= Len(src)
  BY <1>2, <1>4, LengthAssumption DEF MinMatch, Lengths
<1>10. Repeats(src, off, s, s + n)
  BY <1>4, <1>9
<1> HIDE DEF n
<1>11. x \in Seq(Operations) /\ x[1].lits = <<>>
  BY <1>4, <1>9, CopyTyped
<1>12. CopyReads(x, off, n)
  <2>1. off \in 1 .. MaxCopy3Offset
    BY <1>4, OffsetAssumption DEF MaxCopy3Offset
  <2> QED
    BY <1>9, <2>1, EmitCopyReads
<1> HIDE DEF x
<1>13. ASSUME Means(code, src, nextEmit, repeat) PROVE Means(code \o x, src, end, off)
  <2>1. s \in s .. Len(src) /\ s \in 0 .. Len(src) /\ Means(code, src, s, repeat)
    BY <1>2, <1>9, <1>13
  <2>2. x[1].lits = SubSeq(src, s + 1, s)
    BY <1>2, <1>11, <2>1, NoSlice
  <2>3. Means(code \o x, src, s + n, off)
    BY <1>2, <1>4, <1>9, <1>10, <1>11, <1>12, <2>1, <2>2, CopyMeans
  <2> QED
    BY <1>9, <2>3
<1>14. "again" \in {"search", "again", "rest"} /\ pc \in {"search", "again"}
  BY <1>2
<1> QED
  BY <1>2, <1>4, <1>9, <1>11, <1>13, <1>14, AdvanceGood

\* The remainder goes out as literals: x is what the encoder emits for them.
LEMMA RemainderGood ==
  ASSUME EncoderTyped, pc = "rest", NEW x, x = EmitLiteral(Slice(nextEmit, Size)), Return("coded", code \o x)
  PROVE  StepGood
<1>1. /\ src \in Seq(Bytes) /\ nextEmit \in Nat /\ Size \in nextEmit .. Len(src) /\ Len(src) <= Room3
      /\ Size = Len(src) /\ Size \in nextEmit .. Size /\ code \in Seq(Operations)
  BY DEF EncoderTyped, Size
<1>2. x \in Seq(Operations) /\ x = EmitLiteral(SubSeq(src, nextEmit + 1, Size))
  BY <1>1, SliceTyped
<1>3. code \o x \in Seq(Operations)
  BY <1>1, <1>2
<1>4. EncoderTyped'
  BY <1>3, ReturnTyped
<1>5. code' = code \o x /\ src' = src /\ pc' = "coded"
  BY DEF Return
<1>6. Forward
  BY <1>5 DEF Forward
<1>7. ASSUME EncoderMeans PROVE EncoderMeans'
  <2>1. Means(code, src, nextEmit, repeat)
    BY <1>7 DEF EncoderMeans
  <2>2. Means(code \o x, src, Size, repeat)
    BY <1>1, <1>2, <2>1, LiteralMeans
  <2>3. SubSeq(src, 1, Len(src)) = src
    BY <1>1
  <2>4. Meaning(code \o x).ok /\ Meaning(code \o x).out = src
    BY <1>1, <2>2, <2>3 DEF Means
  <2> QED
    BY <1>5, <2>4 DEF EncoderMeans
<1> QED
  BY <1>4, <1>6, <1>7 DEF StepGood

LEMMA EncodeNextGood ==
  ASSUME EncoderTyped, level \in Levels, EncodeNext
  PROVE  StepGood
<1>1. CASE TooSmall
  BY <1>1, BailGood DEF TooSmall
<1>2. CASE Start
  BY <1>2, StartGood
<1>3. CASE SearchEnd \/ AgainEnd
  BY <1>3, ToRestGood
<1>4. CASE SearchMiss
  BY <1>4, MissGood
<1>5. CASE SearchRepeat
  BY <1>5, SearchRepeatGood
<1>6. CASE SearchMatch
  BY <1>6, SearchMatchGood
<1>7. CASE AgainNoRoom
  BY <1>7, BailGood DEF AgainNoRoom
<1>8. CASE AgainMatch
  BY <1>8, AgainMatchGood
<1>9. CASE AgainMiss
  BY <1>9, AgainMissGood
<1>10. CASE EmitRemainder
  <2>1. pc = "rest" /\ (Bail \/ Return("coded", code \o EmitLiteral(Slice(nextEmit, Size))))
    BY <1>10 DEF EmitRemainder
  <2>2. CASE Bail
    BY <2>2, BailGood
  <2>3. CASE Return("coded", code \o EmitLiteral(Slice(nextEmit, Size)))
    BY <2>1, <2>3, RemainderGood
  <2> QED
    BY <2>1, <2>2, <2>3
<1> QED
  BY <1>1, <1>2, <1>3, <1>4, <1>5, <1>6, <1>7, <1>8, <1>9, <1>10 DEF EncodeNext

\* A match goes out, from s to end: what is left of the limit is looked at before
\* it where literals go out on their own, and behind it where the search goes on.
RefStep(off, end, next) ==
  /\ pc = "search" /\ s \in nextEmit .. Size /\ s >= 1 /\ off \in 1 .. s /\ off <= MaxCopy3Offset
  /\ end \in s + 4 .. Size /\ Repeats(src, off, s, end) /\ next \in {"rest", "search"}
  /\ LET lits == Slice(nextEmit, s)
         ops == RefEmitMatch(lits, off, end - s)
     IN  /\ lits # <<>> /\ ~RefCanFuse(lits, off) => ~(CodeBytes(code) + Len(lits) > RefDstLimit)
         /\ next = "search" => ~(CodeBytes(code \o ops) > RefDstLimit)
         /\ Advance(ops, off, end, end - 1, next)

LEMMA RefMatchIs ==
  ASSUME EncoderTyped, level = "reference", RefMatch
  PROVE  Bail \/ \E off, end, next : RefStep(off, end, next)
<1> DEFINE Q == {q \in -1 .. top : q = -1 \/ Same(s, q, 4)}
           c == Max(Q)
           off == s - c
           end == MatchEnd(s, off)
           n == end - s
           lits == Slice(nextEmit, s)
           ops == RefEmitMatch(lits, off, n)
           next == IF end > RefSLimit THEN "rest" ELSE "search"
<1>1. /\ c >= 0 /\ c >= s - MaxCopy3Offset /\ pc = "search" /\ s <= RefSLimit
      /\ \/ Bail
         \/ /\ ~(/\ lits # <<>> /\ ~RefCanFuse(lits, off)
                 /\ CodeBytes(code) + Len(lits) > RefDstLimit)
            /\ ~(end <= RefSLimit /\ CodeBytes(code \o ops) > RefDstLimit)
            /\ Advance(ops, off, end, end - 1, next)
  BY DEF RefMatch, MinMatch
<1>2. /\ s >= 1 /\ s \in Nat /\ top < s /\ top \in Nat /\ nextEmit <= s /\ nextEmit \in Nat
      /\ src \in Seq(Bytes) /\ Size \in Nat
  BY <1>1 DEF EncoderTyped, Size
<1>3. s + 4 <= Size /\ MaxCopy3Offset \in Nat
  BY <1>1, <1>2, OffsetAssumption DEF RefSLimit, MaxCopy3Offset
<1>4. c \in Q
  <2>1. Q \in SUBSET Int /\ -1 \in Q /\ top \in Int /\ \A y \in Q : y <= top
    BY <1>2
  <2> HIDE DEF Q
  <2> QED
    BY <2>1, MaxIs
<1> HIDE DEF c
<1>5. c \in 0 .. s - 1 /\ Same(s, c, 4) /\ off \in 1 .. s /\ off <= MaxCopy3Offset
      /\ s \in Int /\ c \in Int /\ 4 \in Nat /\ off \in Int /\ s \in 0 .. Size
  BY <1>1, <1>2, <1>3, <1>4
<1>6. Repeats(src, off, s, s + 4) /\ Same(s, s - off, 4)
  BY <1>5, SameRepeats
<1> HIDE DEF off
<1>7. end \in s .. Size /\ Repeats(src, off, s, end) /\ end >= s + 4
  BY <1>2, <1>3, <1>5, <1>6, MatchEndIs
<1> HIDE DEF end
<1>8. s \in nextEmit .. Size /\ end \in s + 4 .. Size /\ RefSLimit \in Int /\ end \in Int
  BY <1>2, <1>3, <1>5, <1>7 DEF RefSLimit
<1>9. next \in {"rest", "search"} /\ (next = "search" => end <= RefSLimit)
  BY <1>8
<1> HIDE DEF next, ops, lits
<1>10. CASE /\ ~(/\ lits # <<>> /\ ~RefCanFuse(lits, off)
                 /\ CodeBytes(code) + Len(lits) > RefDstLimit)
            /\ ~(end <= RefSLimit /\ CodeBytes(code \o ops) > RefDstLimit)
            /\ Advance(ops, off, end, end - 1, next)
  <2>1. RefStep(off, end, next)
    BY <1>1, <1>2, <1>5, <1>7, <1>8, <1>9, <1>10, Zenon DEF RefStep, ops, lits, n
  <2> QED
    BY <2>1
<1> QED
  BY <1>1, <1>10

LEMMA RefMatchGood ==
  ASSUME EncoderTyped, level = "reference", RefMatch
  PROVE  StepGood
<1>1. CASE Bail
  BY <1>1, BailGood
<1>2. ASSUME NEW off, NEW end, NEW next, RefStep(off, end, next)
      PROVE  StepGood
  <2> DEFINE n == end - s
             ops == RefEmitMatch(Slice(nextEmit, s), off, n)
             indexed == end - 1
  <2>1. /\ pc = "search" /\ s \in nextEmit .. Size /\ s >= 1 /\ off \in 1 .. s /\ off <= MaxCopy3Offset
        /\ end \in s + 4 .. Size /\ Repeats(src, off, s, end) /\ next \in {"rest", "search"}
        /\ Advance(ops, off, end, indexed, next)
    BY <1>2 DEF RefStep
  <2>2. Size \in Nat /\ nextEmit \in Nat /\ s \in Nat
    BY DEF EncoderTyped, Size
  <2>3. /\ n \in Nat /\ n >= 4 /\ s + n = end /\ s + n <= Size /\ indexed \in Nat /\ indexed < end
        /\ end \in nextEmit + 1 .. Size /\ off \in 1 .. end
    BY <2>1, <2>2
  <2> HIDE DEF n, indexed
  <2>4. ops \in Seq(Operations) /\ (Means(code, src, nextEmit, repeat) => Means(code \o ops, src, end, off))
    <3>1. Repeats(src, off, s, s + n)
      BY <2>1, <2>3
    <3>2. /\ ops \in Seq(Operations)
          /\ Means(code, src, nextEmit, repeat) => Means(code \o ops, src, s + n, off)
      BY <2>1, <2>3, <3>1, RefEmitMatchIs
    <3> QED
      BY <2>3, <3>2
  <2> HIDE DEF ops
  <2>5. next \in {"search", "again", "rest"} /\ (next = "again" => level = "fast") /\ pc \in {"search", "again"}
    BY <2>1
  <2> QED
    BY <2>1, <2>3, <2>4, <2>5, AdvanceGood
<1> QED
  BY <1>1, <1>2, RefMatchIs

LEMMA ReferenceNextGood ==
  ASSUME EncoderTyped, level = "reference", ReferenceNext
  PROVE  StepGood
<1>1. CASE RefStart
  <2>1. CASE Bail
    BY <2>1, BailGood
  <2>2. CASE ~Bail
    <3>1. /\ Forward /\ UNCHANGED <<src, level, nextEmit, repeat, code>> /\ pc = "start" /\ pc' = "search"
          /\ s' = 1 /\ top' = top
      BY <1>1, <2>2 DEF RefStart, Forward
    <3>2. Size' = Size /\ Size \in Nat
      BY <3>1 DEF Size, EncoderTyped
    <3>3. EncoderTyped'
      BY <3>1, <3>2 DEF EncoderTyped
    <3> QED
      BY <3>1, <3>3, SilentGood
  <2> QED
    BY <2>1, <2>2
<1>2. CASE RefMiss
  <2>1. /\ UNCHANGED <<src, level, nextEmit, repeat, code>> /\ pc = "search" /\ pc' = "search"
        /\ s' = s + 1 /\ top' = s
    BY <1>2 DEF RefMiss
  <2>2. Size' = Size /\ Size \in Nat /\ s \in Nat /\ s >= 1 /\ nextEmit <= s /\ nextEmit \in Nat
    BY <2>1 DEF Size, EncoderTyped
  <2>3. s' \in Nat /\ s' > s /\ top' \in Nat /\ top' < s' /\ nextEmit <= s' /\ s' >= 1
    BY <2>1, <2>2
  <2>4. EncoderTyped'
    BY <2>1, <2>2, <2>3 DEF EncoderTyped
  <2>5. Forward
    BY <2>1, <2>3 DEF Forward
  <2> QED
    BY <2>1, <2>4, <2>5, SilentGood
<1>3. CASE RefMatch
  BY <1>3, RefMatchGood
<1>4. CASE RefSearchEnd
  BY <1>4, ToRestGood
<1>5. CASE RefRemainder
  <2>1. pc = "rest" /\ (Bail \/ Return("coded", code \o RefEmitLiterals(Slice(nextEmit, Size))))
    BY <1>5 DEF RefRemainder
  <2>2. CASE Bail
    BY <2>2, BailGood
  <2>3. CASE Return("coded", code \o RefEmitLiterals(Slice(nextEmit, Size)))
    <3>1. Size \in nextEmit .. Size
      BY DEF EncoderTyped, Size
    <3>2. RefEmitLiterals(Slice(nextEmit, Size)) = EmitLiteral(Slice(nextEmit, Size))
      BY <3>1, SliceTyped, RefLiteralsSame
    <3> QED
      BY <2>1, <2>3, <3>2, RemainderGood
  <2> QED
    BY <2>1, <2>2, <2>3
<1> QED
  BY <1>1, <1>2, <1>3, <1>4, <1>5 DEF ReferenceNext

-----------------------------------------------------------------------------
(* What the decoder writes                                                 *)

LEMMA IsSeq ==
  ASSUME NEW T, NEW n \in Nat, NEW f \in [1 .. n -> T]
  PROVE  f \in Seq(T) /\ Len(f) = n
  OBVIOUS

LEMMA PutIs ==
  ASSUME NEW T, NEW out \in Seq(T), NEW at \in Nat, NEW x \in Seq(T), at + Len(x) <= Len(out),
         NEW n \in 0 .. Len(x), NEW lits \in Seq(T), Len(lits) = n, \A i \in 1 .. n : x[i] = lits[i]
  PROVE  /\ Put(out, at, x) \in Seq(T) /\ Len(Put(out, at, x)) = Len(out)
         /\ SubSeq(Put(out, at, x), 1, at + n) = SubSeq(out, 1, at) \o lits
<1> DEFINE new == Put(out, at, x)
           k == Len(x)
           p == SubSeq(out, 1, at)
           q == SubSeq(new, 1, at + n)
           pl == p \o lits
<1>1. DOMAIN out = 1 .. Len(out) /\ Len(out) \in Nat /\ k \in Nat
  OBVIOUS
<1>2. new = [i \in 1 .. Len(out) |-> IF i \in (at + 1) .. (at + k) THEN x[i - at] ELSE out[i]]
  BY <1>1 DEF Put
<1>3. ASSUME NEW i \in 1 .. Len(out)
      PROVE  /\ new[i] \in T
             /\ i <= at => new[i] = out[i]
             /\ i > at /\ i <= at + k => new[i] = x[i - at]
  <2>1. CASE i \in (at + 1) .. (at + k)
    <3>1. i - at \in 1 .. k
      BY <1>1, <2>1
    <3>2. x[i - at] \in T
      BY <3>1
    <3> QED
      BY <1>2, <2>1, <3>2
  <2>2. CASE i \notin (at + 1) .. (at + k)
    <3>1. out[i] \in T
      OBVIOUS
    <3> QED
      BY <1>1, <1>2, <2>2, <3>1
  <2> QED
    BY <2>1, <2>2
<1>4. new \in Seq(T) /\ Len(new) = Len(out)
  <2> DEFINE m == Len(out)
  <2>1. new \in [1 .. m -> T] /\ m \in Nat
    BY <1>1, <1>2, <1>3
  <2> HIDE DEF new, m
  <2>2. new \in Seq(T) /\ Len(new) = m
    BY <2>1
  <2> QED
    BY <2>2 DEF m
<1> HIDE DEF new
<1>5. p \in Seq(T) /\ Len(p) = at /\ \A i \in 1 .. at : p[i] = out[i]
  <2>1. at \in 0 .. Len(out)
    BY <1>1
  <2> QED
    BY <2>1, Part
<1>6. q \in Seq(T) /\ Len(q) = at + n /\ \A i \in 1 .. at + n : q[i] = new[i]
  <2>1. at + n \in 0 .. Len(new)
    BY <1>1, <1>4
  <2> HIDE DEF k
  <2> QED
    BY <1>4, <2>1, Part
<1> HIDE DEF p, q, k
<1>7. pl \in Seq(T) /\ Len(pl) = at + n
      /\ (\A i \in 1 .. at : pl[i] = p[i]) /\ (\A i \in 1 .. n : pl[at + i] = lits[i])
  <2>1. pl \in Seq(T) /\ Len(pl) = Len(p) + Len(lits)
    BY <1>5, Joined
  <2>2. \A i \in 1 .. Len(p) : pl[i] = p[i]
    BY <1>5, Joined
  <2>3. \A i \in 1 .. Len(lits) : pl[Len(p) + i] = lits[i]
    BY <1>5, Joined
  <2> HIDE DEF pl
  <2> QED
    BY <1>5, <2>1, <2>2, <2>3
<1> HIDE DEF pl
<1>8. at + n <= Len(out) /\ n <= k /\ n \in Nat /\ at + k <= Len(out)
  BY <1>1 DEF k
<1>9. ASSUME NEW i \in 1 .. at + n PROVE q[i] = pl[i]
  <2>1. i \in 1 .. Len(out)
    BY <1>1, <1>8
  <2>2. CASE i <= at
    <3>1. i \in 1 .. at
      BY <2>2
    <3>2. new[i] = out[i] /\ q[i] = new[i] /\ p[i] = out[i] /\ pl[i] = p[i]
      BY <1>3, <1>5, <1>6, <1>7, <2>1, <2>2, <3>1
    <3> QED
      BY <3>2
  <2>3. CASE i > at
    <3>1. i - at \in 1 .. n /\ at + (i - at) = i /\ i <= at + k
      BY <1>1, <1>8, <2>3
    <3>2. new[i] = x[i - at]
      BY <1>3, <2>1, <2>3, <3>1
    <3>3. pl[i] = lits[i - at]
      BY <1>7, <3>1
    <3> QED
      BY <1>6, <3>1, <3>2, <3>3
  <2> QED
    BY <2>2, <2>3
<1>10. q = pl
  BY <1>6, <1>7, <1>9, SameSeq
<1> QED
  BY <1>4, <1>10 DEF new, p, q, pl

LEMMA PutAll ==
  ASSUME NEW T, NEW out \in Seq(T), NEW at \in Nat, NEW x \in Seq(T), at + Len(x) <= Len(out)
  PROVE  /\ Put(out, at, x) \in Seq(T) /\ Len(Put(out, at, x)) = Len(out)
         /\ SubSeq(Put(out, at, x), 1, at + Len(x)) = SubSeq(out, 1, at) \o x
<1> DEFINE n == Len(x)
<1>1. n \in 0 .. Len(x) /\ Len(x) = n
  OBVIOUS
<1>2. \A i \in 1 .. n : x[i] = x[i]
  OBVIOUS
<1> HIDE DEF n
<1>3. PICK y \in Seq(T) : y = x
  OBVIOUS
<1>4. Len(y) = n /\ \A i \in 1 .. n : x[i] = y[i]
  BY <1>1, <1>3
<1>5. /\ Put(out, at, x) \in Seq(T) /\ Len(Put(out, at, x)) = Len(out)
      /\ SubSeq(Put(out, at, x), 1, at + n) = SubSeq(out, 1, at) \o y
  BY <1>1, <1>4, PutIs
<1> QED
  BY <1>3, <1>5 DEF n

\* The literals of a literal are all there.
LEMMA LitBytesIs ==
  ASSUME NEW op \in Operations, op.tag = "literal"
  PROVE  LitBytes(op) = op.lits
<1> DEFINE lits == op.lits
<1>1. lits \in Seq(Bytes) /\ Len(lits) = ReadLength(op)
  BY OpIs
<1>2. LitBytes(op) = [i \in 1 .. Len(lits) |-> IF i <= Len(lits) THEN lits[i] ELSE "?"]
  BY <1>1 DEF LitBytes
<1> HIDE DEF lits
<1>3. LitBytes(op) = [i \in 1 .. Len(lits) |-> lits[i]]
  BY <1>1, <1>2
<1>4. [i \in 1 .. Len(lits) |-> lits[i]] = lits
  BY <1>1
<1> QED
  BY <1>3, <1>4 DEF lits

\* A byte of the output, written or not.
Written == Bytes \cup {"?"}

LEMMA WrittenIs ==
  ASSUME NEW x \in Seq(Bytes)
  PROVE  x \in Seq(Written)
<1>1. Bytes \subseteq Written
  BY DEF Written
<1> QED
  BY <1>1

LEMMA FourBytesIs ==
  ASSUME NEW lits \in Seq(Bytes)
  PROVE  /\ FourBytes(lits) \in Seq(Written) /\ Len(FourBytes(lits)) = 4
         /\ Len(lits) <= 4 => \A i \in 1 .. Len(lits) : FourBytes(lits)[i] = lits[i]
<1>1. FourBytes(lits) = [i \in 1 .. 4 |-> IF i <= Len(lits) THEN lits[i] ELSE "?"]
  BY DEF FourBytes
<1>2. ASSUME NEW i \in 1 .. 4 PROVE (IF i <= Len(lits) THEN lits[i] ELSE "?") \in Written
  <2>1. i <= Len(lits) => lits[i] \in Bytes
    OBVIOUS
  <2> QED
    BY <2>1 DEF Written
<1>3. FourBytes(lits) \in [1 .. 4 -> Written]
  BY <1>1, <1>2
<1>4. FourBytes(lits) \in Seq(Written) /\ Len(FourBytes(lits)) = 4
  <2> DEFINE x == FourBytes(lits)
             n == 4
  <2>1. n \in Nat /\ x \in [1 .. n -> Written]
    BY <1>3
  <2> HIDE DEF x, n
  <2>2. x \in Seq(Written) /\ Len(x) = n
    BY <2>1, IsSeq, Zenon
  <2> QED
    BY <2>2 DEF x, n
<1>5. Len(lits) <= 4 => \A i \in 1 .. Len(lits) : FourBytes(lits)[i] = lits[i]
  BY <1>1
<1> QED
  BY <1>4, <1>5

-----------------------------------------------------------------------------
(* The decoder between two operations: what it has written is what the     *)
(* operations behind it mean, and none of them was cut.                    *)

Decoding ==
  /\ given.ops \in Seq(Operations) /\ given.cut \in Nat /\ given.size \in Nat
  /\ given.cut > 0 => given.ops # <<>> /\ given.cut < OpBytes(given.ops[Len(given.ops)])
  /\ done \in 0 .. Len(given.ops) /\ (done = Len(given.ops) => given.cut = 0)
  /\ dst \in Seq(Written) /\ Len(dst) = given.size /\ d \in 0 .. given.size
  /\ Meaning(SubSeq(given.ops, 1, done)).ok
  /\ Meaning(SubSeq(given.ops, 1, done)).off = offset
  /\ Meaning(SubSeq(given.ops, 1, done)).out = SubSeq(dst, 1, d)

ValidInput ==
  given.cut = 0 /\ Meaning(given.ops).ok /\ Len(Meaning(given.ops).out) = given.size

DecodeGood ==
  /\ Decoding' /\ given' = given /\ status' \in {"run", "ok", "corrupt"}
  /\ status' = "corrupt" => ~ValidInput
  /\ status' = "ok" => ValidInput /\ dst' = Meaning(given.ops).out

\* Where the decoder is in the input.
LEMMA WhereIs ==
  ASSUME Decoding
  PROVE  /\ S \in Nat /\ SrcLen \in Int /\ SrcLen = CodeBytes(given.ops) - given.cut
         /\ CodeBytes(given.ops) \in Nat /\ Len(given.ops) \in Nat
         /\ S < SrcLen <=> done < Len(given.ops)
         /\ done < Len(given.ops) =>
              /\ Cur \in Operations /\ OpBytes(Cur) \in Nat
              /\ S + OpBytes(Cur) <= CodeBytes(given.ops)
              /\ done + 1 = Len(given.ops) => S + OpBytes(Cur) = CodeBytes(given.ops)
<1> DEFINE ops == given.ops
           all == CodeBytes(ops)
           len == Len(ops)
           last == OpBytes(ops[len])
<1>1. ops \in Seq(Operations) /\ len \in Nat /\ done \in 0 .. len /\ given.cut \in Nat
  BY DEF Decoding
<1>2. all \in Nat
  BY <1>1, BytesTyped
<1>3. S \in Nat /\ S <= all /\ (done < len => S + last <= all)
  BY <1>1, BytesGrow DEF S
<1>4. SrcLen = all - given.cut
  BY DEF SrcLen
<1>5. done = len => S = all /\ given.cut = 0
  BY <1>1, Part DEF Decoding, S
<1>6. ASSUME done < len
      PROVE  /\ Cur \in Operations /\ OpBytes(Cur) \in Nat
             /\ S + OpBytes(Cur) <= all
             /\ done + 1 = len => S + OpBytes(Cur) = all
             /\ given.cut < last /\ last \in Nat \ {0}
  <2> DEFINE k == done + 1
  <2>1. k \in 1 .. len /\ k - 1 = done /\ k \in 0 .. len /\ len \in 1 .. len
    BY <1>1, <1>6
  <2>2. ops[k] \in Operations /\ ops[len] \in Operations
    BY <1>1, <2>1
  <2>3. OpBytes(ops[k]) \in Nat /\ last \in Nat \ {0}
    BY <2>2, OpTakes
  <2> HIDE DEF k
  <2>4. CodeBytes(SubSeq(ops, 1, k)) = CodeBytes(SubSeq(ops, 1, k - 1)) + OpBytes(ops[k])
    BY <1>1, <2>1, BytesStep
  <2>5. CodeBytes(SubSeq(ops, 1, k)) = S + OpBytes(Cur)
    BY <2>1, <2>4 DEF S, Cur, k
  <2>6. CodeBytes(SubSeq(ops, 1, k)) <= all
    BY <1>1, <2>1, BytesGrow
  <2>7. k = len => SubSeq(ops, 1, k) = ops
    BY <1>1, <2>1, Part
  <2>8. given.cut < last
    <3>1. given.cut > 0 => given.cut < last
      BY DEF Decoding
    <3> HIDE DEF last
    <3> QED
      BY <1>1, <2>3, <3>1
  <2> QED
    BY <2>2, <2>3, <2>5, <2>6, <2>7, <2>8 DEF Cur, k
<1> HIDE DEF ops, all, len, last
<1>7. S < SrcLen <=> done < len
  <2>1. CASE done < len
    BY <1>1, <1>2, <1>3, <1>4, <1>6, <2>1
  <2>2. CASE done = len
    BY <1>1, <1>2, <1>3, <1>4, <1>5, <2>2
  <2> QED
    BY <1>1, <2>1, <2>2
<1> QED
  BY <1>1, <1>2, <1>3, <1>4, <1>6, <1>7 DEF ops, all, len

\* What the next operation means.
LEMMA NextMeans ==
  ASSUME Decoding, done < Len(given.ops)
  PROVE  LET lits == SubSeq(dst, 1, d) \o Cur.lits
             off  == IF Cur.tag \in {"literal", "repeat"} THEN offset ELSE ReadOffset(Cur)
             m    == Meaning(SubSeq(given.ops, 1, done + 1))
             at   == d + Len(Cur.lits)
         IN  /\ off \in Nat \ {0} /\ at \in Nat /\ at >= d
             /\ SubSeq(dst, 1, d) \in Seq(Bytes) /\ Len(SubSeq(dst, 1, d)) = d
             /\ lits \in Seq(Bytes) /\ Len(lits) = at
             /\ IsCopy(Cur) /\ off > at => ~m.ok
             /\ ~(IsCopy(Cur) /\ off > at) =>
                  /\ m.ok /\ m.off = off
                  /\ m.out = IF IsCopy(Cur) THEN lits \o Copied(lits, off, ReadLength(Cur)) ELSE lits
                  /\ Len(m.out) = at + (IF IsCopy(Cur) THEN ReadLength(Cur) ELSE 0)
<1> DEFINE ops == given.ops
           p == Meaning(SubSeq(ops, 1, done))
           m == Meaning(SubSeq(ops, 1, done + 1))
           out == SubSeq(dst, 1, d)
           op == Cur
           lits == out \o op.lits
           off == IF op.tag \in {"literal", "repeat"} THEN offset ELSE ReadOffset(op)
<1>1. op \in Operations /\ ops \in Seq(Operations) /\ done + 1 \in 1 .. Len(ops) /\ (done + 1) - 1 = done
  <2>1. op \in Operations /\ Len(ops) \in Nat
    BY WhereIs
  <2>2. ops \in Seq(Operations) /\ done \in 0 .. Len(ops) /\ done < Len(ops)
    BY DEF Decoding
  <2> HIDE DEF ops, op
  <2> QED
    BY <2>1, <2>2
<1>2. SubSeq(ops, 1, done) \in Seq(Operations)
  BY Part DEF Decoding
<1>3. p \in Meanings
  BY <1>2, MeaningTyped
<1>4. m = MeaningStep(p, op)
  BY <1>1, MeaningOfPart DEF Cur
<1>5. p.ok /\ p.off = offset /\ p.out = out
  BY DEF Decoding
<1>6. out \in Seq(Bytes) /\ offset \in Nat \ {0}
  BY <1>3, <1>5 DEF Meanings
<1>7. Len(out) = d /\ d \in Nat
  BY Part DEF Decoding
<1>8. op.lits \in Seq(Bytes) /\ Len(op.lits) \in Nat /\ ReadOffset(op) \in Nat \ {0}
  BY <1>1, OpIs, OpReads
<1>9. off \in Nat \ {0}
  BY <1>6, <1>8
<1>10. lits \in Seq(Bytes) /\ Len(lits) = d + Len(op.lits)
  <2> DEFINE q == op.lits
  <2>1. q \in Seq(Bytes)
    BY <1>8
  <2> HIDE DEF q, out
  <2>2. out \o q \in Seq(Bytes) /\ Len(out \o q) = Len(out) + Len(q)
    BY <1>6, <2>1, Joined
  <2> QED
    BY <1>7, <2>2 DEF q
<1>11. /\ IsCopy(op) /\ off > Len(lits) => ~m.ok
       /\ ~(IsCopy(op) /\ off > Len(lits)) =>
            /\ m.ok /\ m.off = off
            /\ m.out = IF IsCopy(op) THEN lits \o Copied(lits, off, ReadLength(op)) ELSE lits
            /\ Len(m.out) = Len(lits) + (IF IsCopy(op) THEN ReadLength(op) ELSE 0)
  <2> DEFINE lits0 == p.out \o op.lits
             off0 == IF op.tag \in {"literal", "repeat"} THEN p.off ELSE ReadOffset(op)
             m0 == MeaningStep(p, op)
  <2> HIDE DEF p
  <2>1. /\ IsCopy(op) /\ off0 > Len(lits0) => ~m0.ok
        /\ p.ok /\ ~(IsCopy(op) /\ off0 > Len(lits0)) =>
            /\ m0.ok /\ m0.off = off0
            /\ m0.out = IF IsCopy(op) THEN lits0 \o Copied(lits0, off0, ReadLength(op)) ELSE lits0
            /\ Len(m0.out) = Len(lits0) + (IF IsCopy(op) THEN ReadLength(op) ELSE 0)
    BY <1>1, <1>3, StepIs
  <2>2. lits0 = lits /\ off0 = off /\ m0 = m /\ p.ok
    BY <1>4, <1>5
  <2> HIDE DEF lits0, off0, m0, m, lits, off
  <2> QED
    BY <2>1, <2>2
<1>12. d + Len(op.lits) \in Nat /\ d + Len(op.lits) >= d
  BY <1>7, <1>8
<1> QED
  BY <1>6, <1>7, <1>9, <1>10, <1>11, <1>12

\* The rest of a block cannot make good for what an operation did wrong.
LEMMA NotValid ==
  ASSUME Decoding, done < Len(given.ops),
         LET m == Meaning(SubSeq(given.ops, 1, done + 1)) IN ~m.ok \/ Len(m.out) > given.size
  PROVE  ~ValidInput
<1> DEFINE ops == given.ops
           m == Meaning(SubSeq(ops, 1, done + 1))
           all == Meaning(ops)
<1>1. ops \in Seq(Operations) /\ done + 1 \in 0 .. Len(ops) /\ given.size \in Nat
  BY WhereIs DEF Decoding
<1>2. (~m.ok => ~all.ok) /\ Len(m.out) \in Nat /\ Len(m.out) <= Len(all.out)
  BY <1>1, MeaningGrows
<1>3. Len(all.out) \in Nat
  <2>1. all \in Meanings
    BY <1>1, MeaningTyped
  <2> QED
    BY <2>1 DEF Meanings
<1> DEFINE n == Len(m.out)
           k == Len(all.out)
<1>4. n \in Nat /\ k \in Nat /\ n <= k /\ (~m.ok \/ n > given.size)
  BY <1>2, <1>3
<1>5. ValidInput => all.ok /\ k = given.size
  BY DEF ValidInput
<1> HIDE DEF n, k, m, all
<1> QED
  BY <1>1, <1>2, <1>4, <1>5

\* An operation that breaks off.
LEMMA CutOff ==
  ASSUME Decoding, done < Len(given.ops)
  PROVE  /\ S + OpBytes(Cur) > SrcLen => ~ValidInput
         /\ S + OpBytes(Cur) <= SrcLen => (done + 1 = Len(given.ops) => given.cut = 0)
<1> DEFINE n == OpBytes(Cur)
<1>1. S \in Nat /\ SrcLen = CodeBytes(given.ops) - given.cut /\ given.cut \in Nat /\ n \in Nat
      /\ CodeBytes(given.ops) \in Nat /\ S + n <= CodeBytes(given.ops)
      /\ (done + 1 = Len(given.ops) => S + n = CodeBytes(given.ops))
  BY WhereIs DEF Decoding
<1> HIDE DEF n
<1>2. S + n > SrcLen => given.cut # 0
  BY <1>1
<1>3. S + n <= SrcLen /\ done + 1 = Len(given.ops) => given.cut = 0
  BY <1>1
<1> QED
  BY <1>2, <1>3 DEF n, ValidInput

\* An operation that was read as what it means.
LEMMA OneDone ==
  ASSUME Decoding, done < Len(given.ops), S + OpBytes(Cur) <= SrcLen, status = "run",
         given' = given, status' = status, done' = done + 1,
         dst' \in Seq(Written), Len(dst') = given.size, d' \in 0 .. given.size,
         LET m == Meaning(SubSeq(given.ops, 1, done + 1))
         IN  m.ok /\ m.off = offset' /\ m.out = SubSeq(dst', 1, d')
  PROVE  DecodeGood
<1>1. done + 1 \in 0 .. Len(given.ops)
  BY WhereIs DEF Decoding
<1>2. done + 1 = Len(given.ops) => given.cut = 0
  BY CutOff
<1>3. Decoding'
  BY <1>1, <1>2 DEF Decoding
<1> QED
  BY <1>3 DEF DecodeGood

\* Giving up is right where the block is not valid.
LEMMA StopGood ==
  ASSUME Decoding, Stop("corrupt"), ~ValidInput
  PROVE  DecodeGood
<1>1. Decoding'
  BY DEF Decoding, Stop
<1> QED
  BY <1>1 DEF DecodeGood, Stop

LEMMA LiteralGood ==
  ASSUME Decoding, done < Len(given.ops), status = "run", Cur.tag = "literal", DoLiteral(Cur)
  PROVE  DecodeGood
<1> DEFINE op == Cur
           n == ReadLength(op)
           m == Meaning(SubSeq(given.ops, 1, done + 1))
           lits == op.lits
           size == given.size
<1>1. op \in Operations /\ S \in Nat /\ SrcLen \in Int
  BY WhereIs
<1>2. Len(lits) = n /\ n \in Nat /\ lits \in Seq(Bytes) /\ OpBytes(op) = HeadBytes(op) + n /\ HeadBytes(op) \in Nat
  <2>1. Len(op.lits) = ReadLength(op) /\ Len(op.lits) \in Nat /\ op.lits \in Seq(Bytes)
    BY <1>1, OpIs
  <2>2. OpBytes(op) = HeadBytes(op) + Len(op.lits) /\ HeadBytes(op) \in Nat
    BY <1>1, OpTakes
  <2> QED
    BY <2>1, <2>2
<1>3. /\ m.ok /\ m.off = offset /\ m.out = SubSeq(dst, 1, d) \o lits /\ Len(m.out) = d + n
  <2>1. ~IsCopy(op) /\ d + Len(op.lits) \in Nat
    BY <1>2, NextMeans DEF IsCopy
  <2>2. /\ m.ok /\ m.off = (IF op.tag \in {"literal", "repeat"} THEN offset ELSE ReadOffset(op))
        /\ m.out = SubSeq(dst, 1, d) \o op.lits /\ Len(m.out) = d + Len(op.lits) + 0
    BY <2>1, NextMeans
  <2>3. op.tag \in {"literal", "repeat"} /\ Len(lits) = n
    BY <1>2
  <2> DEFINE k == Len(m.out)
  <2>4. k = d + n + 0 /\ d \in Nat /\ n \in Nat
    BY <1>2, <2>2, <2>3 DEF Decoding
  <2> HIDE DEF m, k, n
  <2>5. k = d + n
    BY <2>4
  <2> QED
    BY <2>2, <2>3, <2>5 DEF m, k, n
<1>4. size \in Nat /\ d \in 0 .. size /\ dst \in Seq(Written) /\ Len(dst) = size
  BY DEF Decoding
<1>5. CASE n > size - d
  <2>1. Stop("corrupt")
    BY <1>5 DEF DoLiteral
  <2>2. Len(m.out) > size
    BY <1>2, <1>3, <1>4, <1>5
  <2>3. ~ValidInput
    BY <2>2, NotValid
  <2> QED
    BY <2>1, <2>3, StopGood
<1>6. CASE n > SrcLen - (S + HeadBytes(op))
  <2>1. Stop("corrupt")
    BY <1>6 DEF DoLiteral
  <2>2. S + OpBytes(op) > SrcLen
    BY <1>1, <1>2, <1>6
  <2>3. ~ValidInput
    BY <2>2, CutOff
  <2> QED
    BY <2>1, <2>3, StopGood
<1>7. CASE ~(n > size - d) /\ ~(n > SrcLen - (S + HeadBytes(op)))
  <2>1. /\ dst' = Put(dst, d, LitBytes(op)) /\ d' = d + n /\ done' = done + 1
        /\ given' = given /\ status' = status /\ offset' = offset
    BY <1>7 DEF DoLiteral
  <2>2. LitBytes(op) = lits
    BY <1>1, LitBytesIs
  <2>3. lits \in Seq(Written)
    BY <1>2, WrittenIs
  <2>4. d \in Nat /\ d + Len(lits) <= Len(dst) /\ d + n \in 0 .. size
    BY <1>2, <1>4, <1>7
  <2>5. /\ Put(dst, d, lits) \in Seq(Written) /\ Len(Put(dst, d, lits)) = Len(dst)
        /\ SubSeq(Put(dst, d, lits), 1, d + Len(lits)) = SubSeq(dst, 1, d) \o lits
    <3>1. dst \in Seq(Written) /\ d \in Nat /\ lits \in Seq(Written) /\ d + Len(lits) <= Len(dst)
      BY <1>4, <2>3, <2>4
    <3> HIDE DEF lits
    <3> QED
      BY <3>1, PutAll
  <2>6. dst' \in Seq(Written) /\ Len(dst') = size /\ SubSeq(dst', 1, d') = m.out /\ d' \in 0 .. size
    BY <1>2, <1>3, <1>4, <2>1, <2>2, <2>4, <2>5
  <2>7. S + OpBytes(op) <= SrcLen
    BY <1>1, <1>2, <1>7
  <2> HIDE DEF m
  <2>8. m.ok /\ m.off = offset' /\ m.out = SubSeq(dst', 1, d')
    BY <1>3, <2>1, <2>6
  <2> QED
    BY <2>1, <2>6, <2>7, <2>8, OneDone DEF m
<1> QED
  BY <1>5, <1>6, <1>7

LEMMA CopyGood ==
  ASSUME Decoding, done < Len(given.ops), status = "run", IsCopy(Cur), S + OpBytes(Cur) <= SrcLen,
         NEW out \in Seq(Written), Len(out) = given.size, NEW at, at = d + Len(Cur.lits), at <= given.size,
         SubSeq(out, 1, at) = SubSeq(dst, 1, d) \o Cur.lits, DoCopy(Cur, out, at)
  PROVE  DecodeGood
<1> DEFINE op == Cur
           n == ReadLength(op)
           off == IF op.tag = "repeat" THEN offset ELSE ReadOffset(op)
           m == Meaning(SubSeq(given.ops, 1, done + 1))
           p == SubSeq(out, 1, at)
           size == given.size
<1>1. op \in Operations /\ n \in Nat
  <2>1. op \in Operations
    BY WhereIs
  <2> QED
    BY <2>1, OpReads
<1>2. /\ off \in Nat \ {0} /\ at \in Nat /\ at >= d
      /\ off > at => ~m.ok
      /\ ~(off > at) => m.ok /\ m.off = off /\ m.out = p \o Copied(p, off, n) /\ Len(m.out) = at + n
  <2>1. (IF op.tag \in {"literal", "repeat"} THEN offset ELSE ReadOffset(op)) = off
    BY DEF IsCopy
  <2> HIDE DEF m
  <2> QED
    BY <2>1, NextMeans DEF m
<1>3. size \in Nat /\ d \in 0 .. size
  BY DEF Decoding
<1>4. CASE at < off
  <2>1. Stop("corrupt")
    BY <1>4 DEF DoCopy
  <2>2. ~m.ok
    BY <1>2, <1>4
  <2>3. ~ValidInput
    BY <2>2, NotValid
  <2> QED
    BY <2>1, <2>3, StopGood
<1>5. CASE ~(at < off) /\ n > size - at
  <2>1. Stop("corrupt")
    BY <1>5 DEF DoCopy
  <2>2. Len(m.out) > size
    BY <1>1, <1>2, <1>3, <1>5
  <2>3. ~ValidInput
    BY <2>2, NotValid
  <2> QED
    BY <2>1, <2>3, StopGood
<1>6. CASE ~(at < off) /\ ~(n > size - at)
  <2> DEFINE c == Copied(p, off, n)
             new == Put(out, at, c)
  <2>1. /\ dst' = new /\ d' = at + n /\ done' = done + 1 /\ offset' = off
        /\ given' = given /\ status' = status
    BY <1>6 DEF DoCopy
  <2>2. p \in Seq(Written) /\ Len(p) = at
    <3>1. at \in 0 .. Len(out)
      BY <1>2
    <3> QED
      BY <3>1, Part
  <2>3. c \in Seq(Written) /\ Len(c) = n
    <3>1. off \in Nat \ {0} /\ at \in Nat /\ ~(at < off) /\ Len(p) = at
      BY <1>2, <1>6, <2>2
    <3> HIDE DEF p, off, n
    <3>2. off \in 1 .. Len(p)
      BY <3>1
    <3>3. n \in Nat /\ p \in Seq(Written)
      BY <1>1, <2>2 DEF n
    <3> QED
      BY <3>2, <3>3, CopiedIs
  <2>4. at + n \in 0 .. size
    BY <1>1, <1>2, <1>3, <1>6
  <2> HIDE DEF c, n
  <2>5. at + Len(c) <= Len(out)
    BY <2>3, <2>4
  <2>6. new \in Seq(Written) /\ Len(new) = Len(out) /\ SubSeq(new, 1, at + Len(c)) = SubSeq(out, 1, at) \o c
    <3>1. at \in Nat /\ c \in Seq(Written) /\ out \in Seq(Written) /\ at + Len(c) <= Len(out)
      BY <1>2, <2>3, <2>5
    <3> QED
      BY <3>1, PutAll, Zenon
  <2>7. ~(off > at)
    BY <1>2, <1>6
  <2>8. m.ok /\ m.off = off /\ m.out = p \o c
    BY <1>2, <2>7 DEF c
  <2> HIDE DEF new, m, off
  <2>9. dst' \in Seq(Written) /\ Len(dst') = size /\ SubSeq(dst', 1, d') = p \o c /\ d' \in 0 .. size
    BY <2>1, <2>3, <2>4, <2>6
  <2>10. m.ok /\ m.off = offset' /\ m.out = SubSeq(dst', 1, d')
    BY <2>1, <2>8, <2>9
  <2> QED
    BY <2>1, <2>9, <2>10, OneDone DEF m
<1> QED
  BY <1>4, <1>5, <1>6

\* The fast loop reads at most Margin bytes for an operation.
LEMMA FastReadsIs ==
  ASSUME NEW op \in Operations
  PROVE  FastReads(op) \in 0 .. Margin /\ (IsCopy(op) => OpBytes(op) <= Margin)
<1> DEFINE h == HeadBytes(op)
           n == Len(op.lits)
           x == Max({4, h})
<1>1. h \in 1 .. 7 /\ OpBytes(op) = h + n /\ (op.tag = "fused2" => h = 3)
  BY OpTakes
<1>2. n \in Nat /\ op.tag \in Tags /\ (op.tag = "fused2" => n \in 1 .. 4) /\ (op.tag = "copy3" => n \in 0 .. 3)
      /\ (op.tag \in {"repeat", "copy1", "copy2"} => n = 0)
  BY OpIs
<1>3. x \in {4, h}
  <2>1. h \in Int /\ 4 \in Int
    BY <1>1
  <2> HIDE DEF h
  <2> QED
    BY <2>1, MaxOfTwo
<1>4. FastReads(op) = IF op.tag \in {"fused2", "copy3"} THEN x + (IF op.lits = <<>> THEN 0 ELSE 4) ELSE h
  BY DEF FastReads
<1> DEFINE r == FastReads(op)
           b == OpBytes(op)
<1> HIDE DEF h, n, x, r, b
<1>5. r \in 0 .. 11
  <2>1. CASE op.tag = "fused2"
    BY <1>1, <1>3, <1>4, <2>1 DEF r
  <2>2. CASE op.tag = "copy3"
    BY <1>1, <1>3, <1>4, <2>2 DEF r
  <2>3. CASE op.tag \notin {"fused2", "copy3"}
    BY <1>1, <1>4, <2>3 DEF r
  <2> QED
    BY <2>1, <2>2, <2>3
<1>6. ASSUME op.tag # "literal" PROVE b <= 11
  <2>1. b = h + n
    BY <1>1 DEF b
  <2>2. op.tag \in {"repeat", "copy1", "copy2", "fused2", "copy3"}
    BY <1>2, <1>6 DEF Tags
  <2> QED
    BY <1>1, <1>2, <2>1, <2>2
<1> QED
  BY <1>5, <1>6 DEF IsCopy, Margin, r, b

\* Where the literals of a copy, or the copy itself, do not fit any more.
LEMMA NoRoomForCopy ==
  ASSUME Decoding, done < Len(given.ops), Cur.tag \in CopyTags, NEW n \in Nat, n = Len(Cur.lits),
         d + n + MinMatch > given.size
  PROVE  ~ValidInput
<1> DEFINE op == Cur
           m == Meaning(SubSeq(given.ops, 1, done + 1))
           l == ReadLength(op)
           size == given.size
<1>1. op \in Operations /\ op.tag \in Tags
  <2>1. op \in Operations
    BY WhereIs
  <2> QED
    BY <2>1, OpIs
<1>2. m.ok => Len(m.out) = d + Len(op.lits) + l
  <2>3. IsCopy(op)
    BY DEF IsCopy, CopyTags
  <2> DEFINE off == IF op.tag \in {"literal", "repeat"} THEN offset ELSE ReadOffset(op)
             at == d + Len(op.lits)
  <2>1. /\ IsCopy(op) /\ off > at => ~m.ok
        /\ ~(IsCopy(op) /\ off > at) => Len(m.out) = at + (IF IsCopy(op) THEN l ELSE 0)
    BY NextMeans
  <2> HIDE DEF m, off, at, l
  <2>2. m.ok => Len(m.out) = at + l
    BY <2>3, <2>1
  <2> QED
    BY <2>2 DEF at
<1>3. size \in Nat /\ d \in 0 .. size
  BY DEF Decoding
<1>4. l \in Nat /\ (op.tag \in CopyTags => l >= MinMatch)
  BY <1>1, OpReads
<1>5. m.ok => Len(m.out) > size
  <2> DEFINE k == Len(m.out)
  <2>1. m.ok => k = d + n + l
    BY <1>2
  <2> HIDE DEF m, l, k
  <2>2. m.ok => k > size
    BY <1>3, <1>4, <2>1 DEF MinMatch
  <2> QED
    BY <2>2 DEF k
<1>6. ~m.ok \/ Len(m.out) > size
  BY <1>5
<1> QED
  BY <1>6, NotValid

LEMMA FastGood ==
  ASSUME Decoding, FastOp
  PROVE  DecodeGood
<1> DEFINE op == Cur
           n == Len(op.lits)
           size == given.size
           b == OpBytes(op)
           r == FastReads(op)
<1>1. S \in Nat /\ SrcLen \in Int /\ S < SrcLen - Margin /\ Margin = 11 /\ status = "run"
  BY WhereIs DEF FastOp, Margin
<1>2. S < SrcLen /\ done < Len(given.ops) /\ op \in Operations
  <2>1. S < SrcLen
    BY <1>1
  <2> QED
    BY <2>1, WhereIs
<1>3. r \in 0 .. Margin /\ (IsCopy(op) => b <= Margin) /\ b \in Nat
  BY <1>2, FastReadsIs, WhereIs
<1> HIDE DEF r, b
<1>4. ~(S + r > SrcLen) /\ (IsCopy(op) => S + b <= SrcLen)
  BY <1>1, <1>3
<1>5. ~(S + FastReads(op) > SrcLen) /\ (IsCopy(op) => S + OpBytes(op) <= SrcLen)
  BY <1>4 DEF r, b
<1>6. size \in Nat /\ d \in 0 .. size /\ dst \in Seq(Written) /\ Len(dst) = size
  BY DEF Decoding
<1>7. op.lits \in Seq(Bytes) /\ n \in Nat /\ op.tag \in Tags
      /\ (op.tag \in {"repeat", "copy1", "copy2"} => op.lits = <<>>)
      /\ (op.tag = "fused2" => n \in 1 .. 4) /\ (op.tag = "copy3" => n \in 0 .. 3)
  BY <1>2, OpIs
<1>8. CASE op.tag = "literal"
  <2>1. DoLiteral(op)
    BY <1>5, <1>8 DEF FastOp
  <2> QED
    BY <1>1, <1>2, <1>8, <2>1, LiteralGood
<1>9. CASE op.tag # "literal" /\ op.lits = <<>>
  <2>1. DoCopy(op, dst, d) /\ IsCopy(op)
    BY <1>5, <1>9 DEF FastOp, IsCopy
  <2>2. n = 0 /\ d + Len(op.lits) = d /\ d <= size
    BY <1>6, <1>9
  <2>3. SubSeq(dst, 1, d) \o op.lits = SubSeq(dst, 1, d)
    <3>1. SubSeq(dst, 1, d) \in Seq(Written)
      BY <1>6, Part
    <3> DEFINE x == SubSeq(dst, 1, d)
    <3> HIDE DEF x
    <3>2. x \o <<>> = x
      BY <3>1 DEF x
    <3> QED
      BY <1>9, <3>2 DEF x
  <2> QED
    BY <1>1, <1>2, <1>5, <1>6, <2>1, <2>2, <2>3, CopyGood
<1>10. CASE op.tag # "literal" /\ op.lits # <<>>
  <2>1. IsCopy(op) /\ op.tag \in {"fused2", "copy3"} /\ op.tag \in CopyTags
    BY <1>7, <1>10 DEF IsCopy, Tags, CopyTags
  <2>2. n \in 1 .. 4
    <3>1. n # 0
      BY <1>7, <1>10
    <3> HIDE DEF n
    <3> QED
      BY <1>7, <2>1, <3>1
  <2>3. CASE size - d < 4
    <3>1. Stop("corrupt")
      BY <1>5, <1>10, <2>3 DEF FastOp
    <3> HIDE DEF n
    <3>2. n \in Nat /\ d + n + MinMatch > size
      BY <1>6, <2>2, <2>3 DEF MinMatch
    <3>3. ~ValidInput
      BY <1>2, <2>1, <3>2, NoRoomForCopy DEF n
    <3> QED
      BY <3>1, <3>3, StopGood
  <2>4. CASE ~(size - d < 4)
    <3> DEFINE four == FourBytes(op.lits)
               out == Put(dst, d, four)
               at == d + n
    <3>1. DoCopy(op, out, at)
      BY <1>5, <1>10, <2>4 DEF FastOp
    <3>2. four \in Seq(Written) /\ Len(four) = 4 /\ \A i \in 1 .. n : four[i] = op.lits[i]
      <4>1. n <= 4
        <5> HIDE DEF n
        <5> QED
          BY <2>2
      <4> QED
        BY <1>7, <4>1, FourBytesIs
    <3>3. d \in Nat /\ d + 4 <= Len(dst) /\ n \in 0 .. 4 /\ at <= size
      <4> HIDE DEF n
      <4> QED
        BY <1>6, <2>2, <2>4
    <3>4. op.lits \in Seq(Written) /\ Len(op.lits) = n
      BY <1>7, WrittenIs
    <3> HIDE DEF four, n
    <3>5. /\ out \in Seq(Written) /\ Len(out) = Len(dst)
          /\ SubSeq(out, 1, d + n) = SubSeq(dst, 1, d) \o op.lits
      <4> DEFINE lits == op.lits
      <4>1. lits \in Seq(Written) /\ Len(lits) = n /\ \A i \in 1 .. n : four[i] = lits[i]
        BY <3>2, <3>4
      <4>2. d \in Nat /\ dst \in Seq(Written) /\ d + Len(four) <= Len(dst) /\ n \in 0 .. Len(four)
        BY <1>6, <3>2, <3>3
      <4> HIDE DEF lits
      <4>4. PICK x \in Seq(Written) : x = four
        BY <3>2
      <4>5. PICK y \in Seq(Written) : y = lits
        BY <4>1
      <4>6. /\ d + Len(x) <= Len(dst) /\ n \in 0 .. Len(x) /\ Len(y) = n
            /\ \A i \in 1 .. n : x[i] = y[i]
        BY <4>1, <4>2, <4>4, <4>5
      <4>7. /\ Put(dst, d, x) \in Seq(Written) /\ Len(Put(dst, d, x)) = Len(dst)
            /\ SubSeq(Put(dst, d, x), 1, d + n) = SubSeq(dst, 1, d) \o y
        BY <4>2, <4>6, PutIs, SMTT(20)
      <4>3. /\ Put(dst, d, four) \in Seq(Written) /\ Len(Put(dst, d, four)) = Len(dst)
            /\ SubSeq(Put(dst, d, four), 1, d + n) = SubSeq(dst, 1, d) \o lits
        BY <4>4, <4>5, <4>7
      <4> QED
        BY <4>3 DEF lits
    <3> HIDE DEF out
    <3>6. at = d + Len(op.lits) /\ SubSeq(out, 1, at) = SubSeq(dst, 1, d) \o op.lits
      BY <3>5 DEF n
    <3> QED
      BY <1>1, <1>2, <1>5, <1>6, <2>1, <3>1, <3>3, <3>5, <3>6, CopyGood
  <2> QED
    BY <2>3, <2>4
<1> QED
  BY <1>8, <1>9, <1>10

LEMMA TailGood ==
  ASSUME Decoding, TailOp
  PROVE  DecodeGood
<1> DEFINE op == Cur
           n == Len(op.lits)
           size == given.size
           h == HeadBytes(op)
           wants == IF op.tag = "fused2" THEN 4 ELSE h
<1>1. S \in Nat /\ SrcLen \in Int /\ S < SrcLen /\ status = "run" /\ done < Len(given.ops) /\ op \in Operations
  BY WhereIs DEF TailOp
<1>2. op.lits \in Seq(Bytes) /\ n \in Nat /\ op.tag \in Tags
      /\ (op.tag \in {"repeat", "copy1", "copy2"} => n = 0)
      /\ (op.tag = "fused2" => n \in 1 .. 4)
  BY <1>1, OpIs
<1>3. OpBytes(op) = h + n /\ h \in Nat /\ (op.tag = "fused2" => h = 3)
  BY <1>1, OpTakes
<1>4. size \in Nat /\ d \in 0 .. size /\ dst \in Seq(Written) /\ Len(dst) = size
  BY DEF Decoding
<1>5. S + OpBytes(op) > SrcLen => ~ValidInput
  BY <1>1, CutOff
<1>6. CASE S + wants > SrcLen
  <2>1. Stop("corrupt")
    BY <1>6 DEF TailOp
  <2>2. S + OpBytes(op) > SrcLen
    <3> HIDE DEF h, n
    <3> QED
      BY <1>1, <1>2, <1>3, <1>6
  <2> QED
    BY <1>5, <2>1, <2>2, StopGood
<1>7. CASE ~(S + wants > SrcLen) /\ op.tag = "literal"
  <2>1. DoLiteral(op)
    BY <1>7 DEF TailOp
  <2> QED
    BY <1>1, <1>7, <2>1, LiteralGood
<1>8. CASE ~(S + wants > SrcLen) /\ op.tag # "literal" /\ n > size - d
  <2>1. Stop("corrupt")
    BY <1>8 DEF TailOp
  <2>2. op.tag \in CopyTags /\ d + n + MinMatch > size
    <3> HIDE DEF n
    <3>1. n # 0
      BY <1>2, <1>4, <1>8
    <3> QED
      BY <1>2, <1>4, <1>8, <3>1 DEF Tags, CopyTags, MinMatch
  <2>3. ~ValidInput
    BY <1>1, <1>2, <2>2, NoRoomForCopy
  <2> QED
    BY <2>1, <2>3, StopGood
<1>9. CASE ~(S + wants > SrcLen) /\ op.tag # "literal" /\ S + h + n > SrcLen
  <2>1. Stop("corrupt")
    BY <1>9 DEF TailOp
  <2>2. S + OpBytes(op) > SrcLen
    <3> HIDE DEF h, n
    <3> QED
      BY <1>1, <1>2, <1>3, <1>9
  <2> QED
    BY <1>5, <2>1, <2>2, StopGood
<1>10. CASE ~(S + wants > SrcLen) /\ op.tag # "literal" /\ ~(n > size - d) /\ ~(S + h + n > SrcLen)
  <2> DEFINE out == Put(dst, d, op.lits)
             at == d + n
  <2>1. DoCopy(op, out, at) /\ IsCopy(op)
    BY <1>10 DEF TailOp, IsCopy
  <2>2. S + OpBytes(op) <= SrcLen /\ at <= size /\ d \in Nat
    <3> HIDE DEF h, n
    <3> QED
      BY <1>1, <1>2, <1>3, <1>4, <1>10
  <2>3. op.lits \in Seq(Written) /\ d + Len(op.lits) <= Len(dst)
    BY <1>2, <1>4, <2>2, WrittenIs
  <2>4. /\ out \in Seq(Written) /\ Len(out) = Len(dst)
        /\ SubSeq(out, 1, d + Len(op.lits)) = SubSeq(dst, 1, d) \o op.lits
    BY <1>4, <2>2, <2>3, PutAll
  <2> HIDE DEF out
  <2>5. at = d + Len(op.lits) /\ SubSeq(out, 1, at) = SubSeq(dst, 1, d) \o op.lits /\ Len(out) = size
    BY <1>4, <2>4
  <2> QED
    BY <1>1, <2>1, <2>2, <2>4, <2>5, CopyGood
<1> QED
  BY <1>6, <1>7, <1>8, <1>9, <1>10

LEMMA FinishGood ==
  ASSUME Decoding, Finish
  PROVE  DecodeGood
<1> DEFINE ops == given.ops
           out == Meaning(ops).out
<1>1. S \in Nat /\ SrcLen \in Int /\ ~(S < SrcLen)
  <2>1. S \in Nat /\ SrcLen \in Int /\ S >= SrcLen
    BY WhereIs DEF Finish
  <2> QED
    BY <2>1
<1>2. done = Len(ops) /\ ops \in Seq(Operations) /\ given.cut = 0
  <2>1. done \in 0 .. Len(ops) /\ (done = Len(ops) => given.cut = 0) /\ ops \in Seq(Operations)
    BY DEF Decoding
  <2>2. ~(done < Len(ops)) /\ Len(ops) \in Nat
    BY <1>1, WhereIs
  <2> QED
    BY <2>1, <2>2
<1>3. SubSeq(ops, 1, done) = ops
  <2>1. done \in 0 .. Len(ops)
    BY DEF Decoding
  <2> QED
    BY <1>2, <2>1, Part
<1>4. Meaning(ops).ok /\ out = SubSeq(dst, 1, d)
  BY <1>3 DEF Decoding
<1>5. dst \in Seq(Written) /\ Len(dst) = given.size /\ d \in 0 .. given.size /\ given.size \in Nat
  BY DEF Decoding
<1>6. Len(out) = d /\ (d = given.size => out = dst)
  BY <1>4, <1>5, Part
<1>7. Decoding' /\ given' = given /\ dst' = dst
  BY DEF Decoding, Finish, Stop
<1> HIDE DEF out
<1>8. CASE d = given.size
  BY <1>2, <1>4, <1>6, <1>7, <1>8 DEF DecodeGood, Finish, Stop, ValidInput, out
<1>9. CASE d # given.size
  BY <1>6, <1>7, <1>9 DEF DecodeGood, Finish, Stop, ValidInput, out
<1> QED
  BY <1>8, <1>9

LEMMA DecodeNextGood ==
  ASSUME Decoding, DecodeNext
  PROVE  DecodeGood
BY FastGood, TailGood, FinishGood DEF DecodeNext

-----------------------------------------------------------------------------
(* Encoder and decoder.                                                    *)

\* The encoders work on the block they were given, and only before Decode.
LEMMA EncoderRuns ==
  ASSUME EncodeNext \/ ReferenceNext
  PROVE  src' = src /\ level' = level /\ pc \in {"start", "search", "again", "rest"}
<1>1. Bail => src' = src /\ level' = level
  BY DEF Bail, Return
<1>2. CASE TooSmall \/ Start \/ AgainNoRoom
  BY <1>1, <1>2 DEF TooSmall, Start, AgainNoRoom
<1>3. CASE SearchEnd \/ AgainEnd \/ RefSearchEnd \/ SearchMiss \/ AgainMiss \/ RefMiss
  BY <1>3 DEF SearchEnd, AgainEnd, RefSearchEnd, SearchMiss, AgainMiss, RefMiss, Searching
<1>4. CASE SearchRepeat
  BY <1>1, <1>4 DEF SearchRepeat, Searching, Advance
<1>5. CASE SearchMatch
  <2>1. PICK m \in Matches : Bail \/ Skip(m) \/ Take(m)
    BY <1>5 DEF SearchMatch
  <2>2. Take(m) => src' = src /\ level' = level
    BY <1>1 DEF Take, Advance
  <2> QED
    BY <1>1, <1>5, <2>1, <2>2 DEF SearchMatch, Searching, Skip
<1>6. CASE AgainMatch
  BY <1>6 DEF AgainMatch, Advance
<1>7. CASE EmitRemainder \/ RefRemainder
  BY <1>1, <1>7 DEF EmitRemainder, RefRemainder, Return
<1>8. CASE RefStart
  BY <1>1, <1>8 DEF RefStart
<1>9. CASE RefMatch
  BY <1>1, <1>9 DEF RefMatch, Advance
<1> QED
  BY <1>2, <1>3, <1>4, <1>5, <1>6, <1>7, <1>8, <1>9 DEF EncodeNext, ReferenceNext

CodedInput == [ops |-> code, cut |-> 0, size |-> Size]
NotHeld == pc = "coded" /\ Size < CodeBytes(code)

\* What is decoded, and what the decoder says of it.
DecoderKnows ==
  /\ status \in {"idle", "run", "ok", "corrupt", "refused"}
  /\ status # "idle" => pc \in {"coded", "raw", "given", "lz4"}
  /\ status = "idle" => given = [ops |-> <<>>, cut |-> 0, size |-> 0] /\ done = 0 /\ d = 0
                        /\ dst = <<>> /\ offset = 1
  /\ status = "refused" => pc = "lz4"
  /\ pc = "raw" => status = "idle" \/ (status = "ok" /\ dst = src)
  /\ pc # "raw" => Decoding
  /\ pc = "coded" => status = "idle" \/ NotHeld \/ given = CodedInput
  /\ pc # "raw" /\ status = "ok" => ValidInput /\ dst = Meaning(given.ops).out
  /\ status = "corrupt" => ~ValidInput \/ NotHeld

LEMMA NothingDecoded ==
  ASSUME given = [ops |-> <<>>, cut |-> 0, size |-> 0], done = 0, d = 0, dst = <<>>, offset = 1
  PROVE  Decoding
<1>1. /\ given.ops = <<>> /\ given.cut = 0 /\ given.size = 0
  OBVIOUS
<1>2. <<>> \in Seq(Operations) /\ <<>> \in Seq(Written) /\ Len(<<>>) = 0 /\ 0 \in 0 .. Len(<<>>)
  OBVIOUS
<1>3. SubSeq(given.ops, 1, done) = <<>> /\ SubSeq(dst, 1, d) = <<>>
  BY <1>1, <1>2, Part
<1>4. Meaning(<<>>) = [ok |-> TRUE, off |-> 1, out |-> <<>>]
  BY MeaningOfNone DEF FirstMeaning
<1> DEFINE none == <<>>
           m == Meaning(none)
<1>5. /\ none \in Seq(Operations) /\ none \in Seq(Written) /\ Len(none) = 0 /\ 0 \in 0 .. Len(none)
      /\ given.ops = none /\ dst = none /\ SubSeq(given.ops, 1, done) = none /\ SubSeq(dst, 1, d) = none
      /\ m.ok /\ m.off = offset /\ m.out = none
  BY <1>1, <1>2, <1>3, <1>4
<1> HIDE DEF none, m
<1>6. /\ given.ops \in Seq(Operations) /\ given.cut \in Nat /\ given.size \in Nat /\ ~(given.cut > 0)
      /\ done \in 0 .. Len(given.ops) /\ d \in 0 .. given.size
      /\ dst \in Seq(Written) /\ Len(dst) = given.size
  BY <1>1, <1>5
<1>7. Meaning(SubSeq(given.ops, 1, done)) = m
  BY <1>5 DEF m
<1> QED
  BY <1>1, <1>5, <1>6, <1>7 DEF Decoding

\* A decoder that starts has decoded nothing.
LEMMA StartDecoding ==
  ASSUME done = 0, d = 0, offset = 1, NEW ops \in Seq(Operations), NEW cut \in Nat, NEW size \in Nat,
         cut > 0 => ops # <<>> /\ cut < OpBytes(ops[Len(ops)]),
         DecodeStart(ops, cut, size)
  PROVE  Decoding' /\ given' = [ops |-> ops, cut |-> cut, size |-> size] /\ status' = "run"
<1> DEFINE blank == [i \in 1 .. size |-> "?"]
<1>1. /\ given' = [ops |-> ops, cut |-> cut, size |-> size] /\ status' = "run" /\ dst' = blank
      /\ done' = 0 /\ d' = 0 /\ offset' = 1
  BY DEF DecodeStart
<1>2. given'.ops = ops /\ given'.cut = cut /\ given'.size = size
  BY <1>1
<1>3. blank \in Seq(Written) /\ Len(blank) = size
  <2>1. blank \in [1 .. size -> Written]
    BY DEF Written
  <2> HIDE DEF blank
  <2> QED
    BY <2>1, IsSeq
<1> HIDE DEF blank
<1>4. 0 \in 0 .. Len(ops) /\ 0 \in 0 .. Len(blank) /\ Len(ops) \in Nat
  BY <1>3
<1>5. SubSeq(ops, 1, 0) = <<>> /\ SubSeq(blank, 1, 0) = <<>>
  BY <1>3, <1>4, Part
<1>6. Meaning(<<>>) = [ok |-> TRUE, off |-> 1, out |-> <<>>]
  BY MeaningOfNone DEF FirstMeaning
<1>7. Len(ops) = 0 => cut = 0
  <2>1. Len(ops) = 0 => ops = <<>>
    OBVIOUS
  <2> QED
    BY <2>1
<1>8. Decoding'
  <2> DEFINE m == Meaning(SubSeq(given'.ops, 1, done'))
  <2>1. m = [ok |-> TRUE, off |-> 1, out |-> <<>>]
    BY <1>1, <1>2, <1>5, <1>6
  <2> HIDE DEF m
  <2>5. m.ok /\ m.off = 1 /\ m.out = <<>>
    BY <2>1
  <2>6. SubSeq(dst', 1, d') = <<>>
    BY <1>1, <1>5
  <2>2. m.ok /\ m.off = offset' /\ m.out = SubSeq(dst', 1, d')
    BY <1>1, <2>5, <2>6
  <2>3. /\ given'.ops \in Seq(Operations) /\ given'.cut \in Nat /\ given'.size \in Nat
        /\ given'.cut > 0 => given'.ops # <<>> /\ given'.cut < OpBytes(given'.ops[Len(given'.ops)])
    BY <1>2
  <2>4. /\ done' \in 0 .. Len(given'.ops) /\ (done' = Len(given'.ops) => given'.cut = 0)
        /\ dst' \in Seq(Written) /\ Len(dst') = given'.size /\ d' \in 0 .. given'.size
    BY <1>1, <1>2, <1>3, <1>4, <1>7
  <2> QED
    BY <2>2, <2>3, <2>4 DEF Decoding, m
<1> QED
  BY <1>1, <1>8

-----------------------------------------------------------------------------
(* What an LZ4 block is converted to.                                      *)

Conversions ==
  [st : {"run", "done", "corrupt", "small", "large", "incompressible"}, s : Int, size : Nat,
   last : Nat, code : Seq(Operations), over : BOOLEAN]

LEMMA SequenceIs ==
  ASSUME NEW q \in Lz4Sequences
  PROVE  /\ q.lits \in Seq(Bytes) /\ Len(q.lits) \in Nat /\ Len(q.lits) <= Room3
         /\ q.off \in Nat /\ q.ml \in Nat /\ q.ml >= MinMatch
BY DEF Lz4Sequences

LEMMA ConvertedOps ==
  ASSUME NEW m, NEW q \in Lz4Sequences, q.off # 0
  PROVE  ConvertOps(m, q) \in Seq(Operations)
<1> DEFINE lits == q.lits
           off == q.off
           ml == q.ml
           copy == IF off = m.last THEN EmitRepeat(ml) ELSE EmitCopy(off, ml)
<1>1. lits \in Seq(Bytes) /\ Len(lits) <= Room3 /\ off \in Nat \ {0} /\ ml \in Nat /\ ml >= MinMatch /\ ml # 0
  BY SequenceIs DEF MinMatch
<1>2. CASE ConvertFuses(m, q)
  <2>1. off >= MinCopy2Offset /\ Len(lits) \in 1 .. MaxCopy2Lits
    BY <1>1, <1>2, OffsetAssumption DEF ConvertFuses
  <2>2. EmitCopyLits2(lits, off, ml) \in Seq(Operations)
    BY <1>1, <2>1, Fused2Typed
  <2> QED
    BY <1>2, <2>2 DEF ConvertOps
<1>3. CASE ~ConvertFuses(m, q)
  <2>1. EmitLiteral(lits) \in Seq(Operations)
    BY <1>1, LiteralTyped
  <2>2. copy \in Seq(Operations)
    BY <1>1, RepeatTyped, CopyTyped
  <2>3. EmitLiteral(lits) \o copy \in Seq(Operations)
    BY <2>1, <2>2, Joined
  <2> QED
    BY <1>3, <2>3 DEF ConvertOps
<1> QED
  BY <1>2, <1>3

LEMMA ConvertStepTyped ==
  ASSUME NEW m \in Conversions, NEW q \in Lz4Sequences, NEW in
  PROVE  ConvertStep(m, q, in) \in Conversions
<1> DEFINE n     == Lz4Bytes(in)
           limit == in.room - 10
           ll    == Len(q.lits)
           token == m.s + LengthBytes(ll)
           match == token + 1 + ll
           after == match + MatchBytes(q)
           ops   == ConvertOps(m, q)
           Fails(st) == [m EXCEPT !.st = st]
           Emits(next) == [next EXCEPT !.s = after, !.over = @ \/ CodeBytes(next.code) > in.room]
           final == [m EXCEPT !.st = "done", !.size = @ + ll, !.code = @ \o EmitLiteral(q.lits)]
           next == Converted(m, ops, q)
           step == ConvertStep(m, q, in)
<1>1. q.lits \in Seq(Bytes) /\ ll \in Nat /\ ll <= Room3 /\ q.off \in Nat /\ q.ml \in Nat /\ q.ml >= MinMatch
  BY SequenceIs
<1>2. m.s \in Int /\ m.size \in Nat /\ m.code \in Seq(Operations) /\ m.over \in BOOLEAN
  BY DEF Conversions
<1>3. ASSUME NEW v \in Nat PROVE LengthBytes(v) \in Int
  BY <1>3, Lz4Assumption DEF LengthBytes
<1>4. after \in Int
  <2>1. q.ml - MinMatch \in Nat
    BY <1>1 DEF MinMatch
  <2>2. LengthBytes(ll) \in Int /\ LengthBytes(q.ml - MinMatch) \in Int
    BY <1>1, <1>3, <2>1
  <2> QED
    BY <1>1, <1>2, <2>2 DEF MatchBytes
<1> HIDE DEF after
<1>5. ASSUME NEW x \in Conversions PROVE Emits(x) \in Conversions
  <2> DEFINE o == CodeBytes(x.code) > in.room
             b == x.over \/ o
  <2>1. b \in BOOLEAN
    BY Zenon
  <2> HIDE DEF b
  <2>2. [x EXCEPT !.s = after, !.over = b] \in Conversions
    BY <1>4, <2>1 DEF Conversions
  <2>3. Emits(x) = [x EXCEPT !.s = after, !.over = b]
    BY Zenon DEF b
  <2> QED
    BY <2>2, <2>3
<1>6. final \in Conversions
  <2> DEFINE x == m.code \o EmitLiteral(q.lits)
             k == m.size + ll
  <2>1. EmitLiteral(q.lits) \in Seq(Operations)
    BY <1>1, LiteralTyped
  <2>2. x \in Seq(Operations)
    BY <1>2, <2>1, Joined
  <2>3. k \in Nat
    BY <1>1, <1>2
  <2> HIDE DEF x, k
  <2>4. [m EXCEPT !.st = "done", !.size = k, !.code = x] \in Conversions
    BY <2>2, <2>3 DEF Conversions
  <2>5. final = [m EXCEPT !.st = "done", !.size = k, !.code = x]
    BY DEF x, k
  <2> QED
    BY <2>4, <2>5
<1>7. ASSUME q.off # 0 PROVE next \in Conversions
  <2> DEFINE x == m.code \o ops
             k == m.size + ll + q.ml
             off == q.off
  <2>1. ops \in Seq(Operations)
    BY <1>7, ConvertedOps
  <2>2. x \in Seq(Operations)
    BY <1>2, <2>1, Joined
  <2>3. k \in Nat /\ off \in Nat
    BY <1>1, <1>2
  <2> HIDE DEF x, k, off
  <2>4. [m EXCEPT !.code = x, !.size = k, !.last = off] \in Conversions
    BY <2>2, <2>3 DEF Conversions
  <2>5. next = [m EXCEPT !.code = x, !.size = k, !.last = off]
    BY DEF x, k, off, Converted
  <2> QED
    BY <2>4, <2>5
<1>8. ASSUME NEW x \in Conversions, NEW st \in {"corrupt", "small", "large"}
      PROVE  [x EXCEPT !.st = st] \in Conversions
  BY DEF Conversions
<1>9. \/ step = m
      \/ \E st \in {"corrupt", "small", "large"} : step = Fails(st)
      \/ step = Emits(final)
      \/ /\ q.off \in 1 .. m.size + ll
         /\ step = Emits(next) \/ step = [Emits(next) EXCEPT !.st = "small"]
  <2> DEFINE short == token + ll >= n
             full  == ll > 0 /\ CodeBytes(m.code) + ll > limit
             last  == match = n /\ q.ml = MinMatch
             wrong == \/ match >= n - 2 \/ q.off \notin 1 .. (m.size + ll)
                      \/ (LengthBytes(q.ml - MinMatch) > 0 /\ after >= n)
             large == m.size + ll > MaxBlockSize
             over  == CodeBytes(Emits(next).code) > limit
             emits == Emits(final)
             copies == Emits(next)
             runs == IF short THEN Fails("corrupt")
                     ELSE IF full THEN Fails("small")
                     ELSE IF last THEN IF large THEN Fails("large") ELSE emits
                     ELSE IF wrong THEN Fails("corrupt")
                     ELSE IF over THEN [copies EXCEPT !.st = "small"] ELSE copies
  <2>1. CASE m.st # "run"
    BY <2>1 DEF ConvertStep
  <2>2. CASE m.st = "run" /\ m.size > MaxBlockSize
    <3>1. step = Fails("large")
      <4>1. ~(m.st # "run") /\ (m.st = "run" /\ m.size > MaxBlockSize)
            /\ ~(m.st = "run" /\ m.size <= MaxBlockSize)
        BY <1>2, <2>2, Lz4Assumption
      <4> QED
        BY <4>1, Zenon DEF ConvertStep
    <3> QED
      BY <3>1
  <2>3. CASE m.st = "run" /\ m.size <= MaxBlockSize
    <3>1. step = runs
      BY <1>2, <2>3 DEF ConvertStep, after
    <3>2. ~wrong => q.off \in 1 .. m.size + ll
      OBVIOUS
    <3>3. emits = Emits(final) /\ copies = Emits(next)
      OBVIOUS
    <3> HIDE DEF short, full, last, wrong, large, over, emits, copies, step, Emits, final, next
    <3> QED
      BY <3>1, <3>2, <3>3
  <2> QED
    BY <1>2, <2>1, <2>2, <2>3, Lz4Assumption
<1>10. q.off \in 1 .. m.size + ll => q.off # 0
  BY <1>1, <1>2
<1> HIDE DEF next, final, step, Emits
<1>11. \A st \in {"corrupt", "small", "large"} : Fails(st) \in Conversions
  BY <1>8
<1>12. CASE q.off # 0
  <2>1. Emits(next) \in Conversions
    BY <1>5, <1>7, <1>12
  <2>2. [Emits(next) EXCEPT !.st = "small"] \in Conversions
    BY <1>8, <2>1
  <2> QED
    BY <1>5, <1>6, <1>9, <1>11, <2>1, <2>2 DEF step
<1>13. CASE q.off = 0
  BY <1>5, <1>6, <1>9, <1>10, <1>11, <1>13 DEF step
<1> QED
  BY <1>12, <1>13

LEMMA ConvertTyped ==
  ASSUME NEW in, in.seqs \in Seq(Lz4Sequences)
  PROVE  ConvertBlock(in).code \in Seq(Operations) /\ ConvertBlock(in).size \in Nat
<1> DEFINE n == Len(in.seqs)
           seqs == in.seqs
           G == [k \in 1 .. n |-> [m \in Conversions |-> ConvertStep(m, seqs[k], in)]]
           After(f) == [k \in 0 .. n |-> IF k = 0 THEN ConvertStart ELSE ConvertStep(f[k - 1], seqs[k], in)]
           h == CHOOSE f : f = After(f)
<1>1. n \in Nat /\ \A k \in 1 .. n : seqs[k] \in Lz4Sequences
  OBVIOUS
<1>2. ConvertStart \in Conversions
  BY DEF ConvertStart, Conversions
<1>3. G \in [1 .. n -> [Conversions -> Conversions]]
  <2>1. ASSUME NEW k \in 1 .. n, NEW m \in Conversions PROVE ConvertStep(m, seqs[k], in) \in Conversions
    BY <1>1, ConvertStepTyped
  <2> QED
    BY <2>1
<1> HIDE DEF G
<1>4. PICK f \in [0 .. n -> Conversions] : Along(n, ConvertStart, G, f)
  BY <1>1, <1>2, <1>3, AlongExists
<1>5. f = After(f)
  <2>1. ASSUME NEW k \in 0 .. n
        PROVE  f[k] = IF k = 0 THEN ConvertStart ELSE ConvertStep(f[k - 1], seqs[k], in)
    <3>1. CASE k = 0
      BY <1>4, <3>1 DEF Along
    <3>2. CASE k # 0
      <4>1. k \in 1 .. n /\ f[k - 1] \in Conversions
        BY <3>2
      <4>2. f[k] = G[k][f[k - 1]]
        BY <1>4, <4>1 DEF Along
      <4>3. G[k] = [m \in Conversions |-> ConvertStep(m, seqs[k], in)]
        BY <4>1 DEF G
      <4> QED
        BY <3>2, <4>1, <4>2, <4>3
    <3> QED
      BY <3>1, <3>2
  <2> QED
    BY <2>1
<1>6. h = After(h)
  BY <1>5
<1> DEFINE last == h[n]
<1>7. ConvertBlock(in) = IF seqs = <<>> THEN [ConvertStart EXCEPT !.st = "done"]
                         ELSE IF last.st = "run" THEN [last EXCEPT !.st = "corrupt"]
                         ELSE IF last.st = "done" /\ last.size < CodeBytes(last.code)
                         THEN [last EXCEPT !.st = "incompressible"] ELSE last
  BY DEF ConvertBlock
<1> HIDE DEF h
<1>8. \A k \in 0 .. n : h[k] = IF k = 0 THEN ConvertStart ELSE ConvertStep(h[k - 1], seqs[k], in)
  BY <1>6
<1>9. last \in Conversions
  <2> DEFINE A == {k \in Nat : k <= n => h[k] \in Conversions}
  <2>1. 0 \in A
    BY <1>1, <1>2, <1>8
  <2>2. ASSUME NEW k \in Nat, k \in A PROVE k + 1 \in A
    <3> SUFFICES ASSUME k + 1 <= n PROVE h[k + 1] \in Conversions
      OBVIOUS
    <3>1. h[k] \in Conversions /\ h[k + 1] = ConvertStep(h[k], seqs[k + 1], in) /\ seqs[k + 1] \in Lz4Sequences
      BY <1>1, <1>8, <2>2
    <3>2. ConvertStep(h[k], seqs[k + 1], in) \in Conversions
      BY <3>1, ConvertStepTyped
    <3> QED
      BY <3>1, <3>2
  <2> HIDE DEF A
  <2>3. Nat \subseteq A
    BY <2>1, <2>2, NatSet
  <2> QED
    BY <1>1, <2>3 DEF A
<1> HIDE DEF last
<1>10. ConvertBlock(in) \in Conversions
  <2>1. [last EXCEPT !.st = "corrupt"] \in Conversions /\ [last EXCEPT !.st = "incompressible"] \in Conversions
    BY <1>9 DEF Conversions
  <2>2. [ConvertStart EXCEPT !.st = "done"] \in Conversions
    BY <1>2 DEF Conversions
  <2> QED
    BY <1>7, <1>9, <2>1, <2>2
<1> QED
  BY <1>10 DEF Conversions

-----------------------------------------------------------------------------
(* Encoder and decoder together.                                           *)

CodecInv == EncoderTyped /\ DecoderKnows

LEMMA CodecInit ==
  ASSUME Init
  PROVE  CodecInv /\ EncoderMeans
<1>1. /\ given = [ops |-> <<>>, cut |-> 0, size |-> 0] /\ status = "idle"
      /\ done = 0 /\ d = 0 /\ dst = <<>> /\ offset = 1
      /\ s = 0 /\ nextEmit = 0 /\ repeat = 1 /\ top = 0 /\ code = <<>> /\ pc \in {"start", "given"}
  BY DEF Init, DecodeInit, EncodeInit
<1>2. Decoding
  BY <1>1, NothingDecoded
<1>3. DecoderKnows
  BY <1>1, <1>2 DEF DecoderKnows
<1>4. src \in Seq(Bytes) /\ Size <= Room3 /\ level \in Levels \cup {"reference"}
  <2>1. CASE pc = "given"
    <3>1. src = <<>> /\ level = "fast"
      BY <2>1 DEF Init, EncodeInit
    <3>2. src \in Seq(Bytes) /\ Size = 0
      BY <3>1 DEF Size
    <3> QED
      BY <3>1, <3>2, LengthAssumption DEF Levels
  <2>2. CASE pc = "start"
    <3>1. level \in DOMAIN Sources /\ src \in Sources[level]
      BY <2>2 DEF Init, EncodeInit
    <3> QED
      BY <3>1, CodecAssumption DEF Size
  <2> QED
    BY <1>1, <2>1, <2>2
<1>5. code \in Seq(Operations) /\ Size \in Nat /\ nextEmit \in 0 .. Size
  <2>1. Size \in Nat
    BY <1>4 DEF Size
  <2> QED
    BY <1>1, <2>1
<1>6. EncoderTyped
  BY <1>1, <1>4, <1>5 DEF EncoderTyped
<1>7. Means(code, src, nextEmit, repeat)
  <2>1. Meaning(<<>>) = [ok |-> TRUE, off |-> 1, out |-> <<>>]
    BY MeaningOfNone DEF FirstMeaning
  <2> DEFINE m == Meaning(code)
  <2>2. m.ok /\ m.off = 1 /\ m.out = <<>>
    BY <1>1, <2>1
  <2>3. SubSeq(src, 1, 0) = <<>>
    <3>1. 0 \in 0 .. Len(src)
      BY <1>4
    <3> QED
      BY <1>4, <3>1, Part
  <2> HIDE DEF m
  <2> QED
    BY <1>1, <1>5, <2>2, <2>3 DEF Means, m
<1>8. EncoderMeans
  BY <1>1, <1>7 DEF EncoderMeans
<1> QED
  BY <1>3, <1>6, <1>8 DEF CodecInv

LEMMA EncoderSteps ==
  ASSUME CodecInv, UNCHANGED decoderVars,
         (level # "reference" /\ EncodeNext) \/ (level = "reference" /\ ReferenceNext)
  PROVE  CodecInv' /\ StepGood /\ src' = src /\ level' = level
<1>1. StepGood
  <2>1. EncoderTyped /\ level \in Levels \cup {"reference"}
    BY DEF CodecInv, EncoderTyped
  <2>2. CASE level # "reference" /\ EncodeNext
    BY <2>1, <2>2, EncodeNextGood
  <2>3. CASE level = "reference" /\ ReferenceNext
    BY <2>1, <2>3, ReferenceNextGood
  <2> QED
    BY <2>2, <2>3
<1>2. src' = src /\ level' = level /\ pc \in {"start", "search", "again", "rest"}
  BY EncoderRuns
<1>3. status = "idle" /\ status' = "idle"
  BY <1>2 DEF CodecInv, DecoderKnows, decoderVars
<1>4. /\ given' = [ops |-> <<>>, cut |-> 0, size |-> 0] /\ done' = 0 /\ d' = 0 /\ dst' = <<>> /\ offset' = 1
      /\ Decoding
  BY <1>2, <1>3 DEF CodecInv, DecoderKnows, decoderVars
<1>5. Decoding'
  BY <1>4 DEF Decoding, decoderVars
<1>7. DecoderKnows'
  BY <1>3, <1>4, <1>5 DEF DecoderKnows
<1> QED
  BY <1>1, <1>2, <1>7 DEF CodecInv, StepGood

\* Size and the bytes of the code are numbers.
LEMMA SizesIs ==
  ASSUME EncoderTyped
  PROVE  Size \in Nat /\ CodeBytes(code) \in Nat /\ code \in Seq(Operations)
<1>1. code \in Seq(Operations) /\ src \in Seq(Bytes)
  BY DEF EncoderTyped
<1> QED
  BY <1>1, BytesTyped DEF Size

\* What a step that leaves the encoder alone leaves of its invariants.
LEMMA EncoderStays ==
  ASSUME EncoderTyped, UNCHANGED <<src, level, s, nextEmit, repeat, top, code>>,
         pc' = pc \/ (pc = "given" /\ pc' = "lz4")
  PROVE  EncoderTyped' /\ (Forward \/ UNCHANGED encoderVars) /\ (EncoderMeans => EncoderMeans') /\ Size' = Size
         /\ CodedInput' = CodedInput
<1>1. Size' = Size
  BY DEF Size
<1>2. EncoderTyped'
  BY <1>1 DEF EncoderTyped
<1>3. EncoderMeans => EncoderMeans'
  <2>1. CASE pc' = pc
    BY <2>1 DEF EncoderMeans
  <2>2. CASE pc' = "lz4"
    BY <2>2 DEF EncoderMeans
  <2> QED
    BY <2>1, <2>2
<1>4. CodedInput' = CodedInput
  BY <1>1 DEF CodedInput
<1>5. Forward \/ UNCHANGED encoderVars
  BY DEF Forward, encoderVars
<1> QED
  BY <1>1, <1>2, <1>3, <1>4, <1>5

LEMMA CodedSteps ==
  ASSUME CodecInv, DecodeCoded
  PROVE  DecoderKnows'
<1>1. /\ pc = "coded" /\ pc' = "coded" /\ status = "idle" /\ code' = code /\ Size' = Size
      /\ done = 0 /\ d = 0 /\ offset = 1 /\ Decoding
  <2>1. src' = src
    BY DEF DecodeCoded, encoderVars
  <2> QED
    BY <2>1 DEF DecodeCoded, encoderVars, CodecInv, DecoderKnows, Size
<1>2. Size \in Nat /\ CodeBytes(code) \in Nat /\ code \in Seq(Operations)
  BY SizesIs DEF CodecInv
<1>3. CASE Size < CodeBytes(code)
  <2>1. status' = "corrupt" /\ UNCHANGED <<given, done, d, dst, offset>>
    BY <1>3 DEF DecodeCoded, Stop
  <2>2. NotHeld' /\ Decoding'
    BY <1>1, <1>3, <2>1 DEF NotHeld, Decoding
  <2> QED
    BY <1>1, <2>1, <2>2 DEF DecoderKnows
<1>4. CASE ~(Size < CodeBytes(code))
  <2>1. DecodeStart(code, 0, Size)
    BY <1>4 DEF DecodeCoded
  <2>2. Decoding' /\ given' = CodedInput /\ status' = "run"
    BY <1>1, <1>2, <2>1, StartDecoding DEF CodedInput
  <2>3. given' = CodedInput'
    BY <1>1, <2>2 DEF CodedInput
  <2> QED
    BY <1>1, <2>2, <2>3 DEF DecoderKnows
<1> QED
  BY <1>3, <1>4

LEMMA RawSteps ==
  ASSUME CodecInv, DecodeRaw
  PROVE  DecoderKnows'
BY DEF DecodeRaw, encoderVars, DecoderKnows

LEMMA GivenSteps ==
  ASSUME CodecInv, DecodeGiven
  PROVE  DecoderKnows'
<1>1. pc = "given" /\ pc' = "given" /\ status = "idle" /\ done = 0 /\ d = 0 /\ offset = 1
  BY DEF DecodeGiven, encoderVars, CodecInv, DecoderKnows
<1>2. PICK in \in Inputs : DecodeStart(in.ops, in.cut, in.size)
  BY DEF DecodeGiven
<1>3. /\ in.ops \in Seq(Operations) /\ in.ops # <<>> /\ in.cut \in Nat /\ in.size \in Nat
      /\ in.cut < OpBytes(in.ops[Len(in.ops)])
  BY CodecAssumption
<1>4. Decoding' /\ status' = "run"
  <2> DEFINE ops == in.ops
             cut == in.cut
             size == in.size
  <2>1. /\ ops \in Seq(Operations) /\ cut \in Nat /\ size \in Nat
        /\ cut > 0 => ops # <<>> /\ cut < OpBytes(ops[Len(ops)])
        /\ DecodeStart(ops, cut, size)
    BY <1>2, <1>3
  <2> HIDE DEF ops, cut, size
  <2> QED
    BY <1>1, <2>1, StartDecoding
<1> QED
  BY <1>1, <1>4 DEF DecoderKnows

LEMMA ConvertSteps ==
  ASSUME CodecInv, ConvertGiven
  PROVE  DecoderKnows'
<1>1. pc = "given" /\ pc' = "lz4" /\ status = "idle" /\ done = 0 /\ d = 0 /\ offset = 1 /\ Decoding
  BY DEF ConvertGiven, CodecInv, DecoderKnows
<1>2. PICK in \in Lz4Inputs :
        LET res == ConvertBlock(in)
        IN  IF res.st = "done" THEN DecodeStart(res.code, 0, res.size) ELSE Stop("refused")
  BY DEF ConvertGiven
<1> DEFINE res == ConvertBlock(in)
<1>3. res.code \in Seq(Operations) /\ res.size \in Nat
  BY CodecAssumption, ConvertTyped
<1>4. CASE res.st = "done"
  <2>1. DecodeStart(res.code, 0, res.size)
    BY <1>2, <1>4
  <2> DEFINE ops == res.code
             cut == 0
             size == res.size
  <2>3. /\ ops \in Seq(Operations) /\ cut \in Nat /\ size \in Nat
        /\ cut > 0 => ops # <<>> /\ cut < OpBytes(ops[Len(ops)])
        /\ DecodeStart(ops, cut, size)
    BY <1>3, <2>1
  <2> HIDE DEF ops, cut, size
  <2>2. Decoding' /\ status' = "run"
    BY <1>1, <2>3, StartDecoding
  <2> QED
    BY <1>1, <2>2 DEF DecoderKnows
<1>5. CASE res.st # "done"
  <2>1. Stop("refused")
    BY <1>2, <1>5
  <2>2. Decoding' /\ status' = "refused"
    BY <1>1, <2>1 DEF Stop, Decoding
  <2> QED
    BY <1>1, <2>2 DEF DecoderKnows
<1> QED
  BY <1>4, <1>5

LEMMA DecoderSteps ==
  ASSUME CodecInv, DecodeNext, UNCHANGED encoderVars
  PROVE  DecoderKnows'
<1>1. status = "run"
  BY DEF DecodeNext, FastOp, TailOp, Finish
<1>2. pc \in {"coded", "given", "lz4"} /\ Decoding /\ (pc = "coded" => NotHeld \/ given = CodedInput)
  BY <1>1 DEF CodecInv, DecoderKnows
<1>3. DecodeGood
  BY <1>2, DecodeNextGood
<1>4. pc' = pc /\ code' = code /\ Size' = Size
  BY DEF encoderVars, Size
<1>5. ValidInput' = ValidInput /\ CodedInput' = CodedInput /\ NotHeld' = NotHeld
  BY <1>3, <1>4 DEF DecodeGood, ValidInput, CodedInput, NotHeld
<1> QED
  BY <1>2, <1>3, <1>4, <1>5 DEF DecodeGood, DecoderKnows

LEMMA CodecStep ==
  ASSUME CodecInv, [Next]_vars
  PROVE  CodecInv' /\ (Forward \/ UNCHANGED encoderVars) /\ src' = src /\ level' = level
         /\ (Near /\ EncoderMeans => EncoderMeans')
<1>1. ASSUME DecodeCoded \/ DecodeRaw \/ DecodeGiven \/ ConvertGiven
             \/ (DecodeNext /\ UNCHANGED encoderVars) \/ UNCHANGED vars
      PROVE  /\ EncoderTyped' /\ (Forward \/ UNCHANGED encoderVars) /\ (EncoderMeans => EncoderMeans') /\ src' = src /\ level' = level
  <2>1. UNCHANGED <<src, level, s, nextEmit, repeat, top, code>>
        /\ (pc' = pc \/ (pc = "given" /\ pc' = "lz4"))
    BY <1>1 DEF DecodeCoded, DecodeRaw, DecodeGiven, ConvertGiven, encoderVars, vars
  <2> QED
    BY <2>1, EncoderStays DEF CodecInv
<1>2. CASE ((level # "reference" /\ EncodeNext) \/ (level = "reference" /\ ReferenceNext))
           /\ UNCHANGED <<decoderVars, lz4>>
  <2>1. UNCHANGED decoderVars
    BY <1>2
  <2> QED
    BY <1>2, <2>1, EncoderSteps DEF StepGood
<1>3. CASE DecodeCoded
  BY <1>1, <1>3, CodedSteps DEF CodecInv
<1>4. CASE DecodeRaw
  BY <1>1, <1>4, RawSteps DEF CodecInv
<1>5. CASE DecodeGiven
  BY <1>1, <1>5, GivenSteps DEF CodecInv
<1>6. CASE ConvertGiven
  BY <1>1, <1>6, ConvertSteps DEF CodecInv
<1>7. CASE DecodeNext /\ UNCHANGED <<encoderVars, lz4>>
  <2>1. DecodeNext /\ UNCHANGED encoderVars
    BY <1>7
  <2> QED
    BY <1>1, <2>1, DecoderSteps DEF CodecInv
<1>8. CASE UNCHANGED vars
  <2>1. DecoderKnows'
    <3>1. UNCHANGED <<given, status, done, d, dst, offset, pc, src, code>>
      BY <1>8 DEF vars, encoderVars, decoderVars
    <3>2. Size' = Size
      BY <3>1 DEF Size
    <3>3. /\ Decoding' <=> Decoding
          /\ ValidInput' <=> ValidInput
          /\ CodedInput' = CodedInput
          /\ NotHeld' <=> NotHeld
      BY <3>1, <3>2 DEF Decoding, ValidInput, CodedInput, NotHeld
    <3> QED
      BY <3>1, <3>3 DEF CodecInv, DecoderKnows
  <2> QED
    BY <1>1, <1>8, <2>1 DEF CodecInv
<1> QED
  BY <1>2, <1>3, <1>4, <1>5, <1>6, <1>7, <1>8 DEF Next

-----------------------------------------------------------------------------
(* Theorems.                                                               *)

LEMMA CodecInvariant == Spec => []CodecInv
<1>1. Init => CodecInv
  BY CodecInit
<1>2. CodecInv /\ [Next]_vars => CodecInv'
  BY CodecStep
<1> QED
  BY <1>1, <1>2, PTL DEF Spec

\* The encoders keep within src and what they remember of it: positions in
\* order, operations the format has, a repeat only of an offset there was.
THEOREM EncodersTyped == Spec => []EncoderTyped
<1>1. CodecInv => EncoderTyped
  BY DEF CodecInv
<1> QED
  BY <1>1, CodecInvariant, PTL

\* No search goes round in circles, whatever the tables yield.
THEOREM EncodersAdvance == Spec => SearchAdvances
<1>1. CodecInv /\ [Next]_vars =>
        [pc # "start" /\ pc' \in {"search", "again"} =>
           nextEmit' > nextEmit \/ (nextEmit' = nextEmit /\ s' > s)]_encoderVars
  BY CodecStep DEF Forward
<1> QED
  BY <1>1, CodecInvariant, PTL DEF Spec, SearchAdvances

\* A block that fits is not refused for its length.
LEMMA NotRefused ==
  ASSUME CodecInv, FitsDst
  PROVE  ~NotHeld
<1>1. Size \in Nat /\ CodeBytes(code) \in Nat
  BY SizesIs DEF CodecInv
<1>2. CASE code = <<>>
  BY <1>1, <1>2, BytesOfNone DEF NotHeld
<1>3. CASE code # <<>>
  <2>1. VarintBytes(Size) \in Nat
    BY DEF VarintBytes
  <2> QED
    BY <1>1, <1>3, <2>1 DEF NotHeld, FitsDst
<1> QED
  BY <1>2, <1>3

LEMMA DecodesRight ==
  ASSUME CodecInv, FitsDst
  PROVE  DecodeAgrees
<1>1. ~NotHeld
  BY NotRefused
<1>2. status # "panic" /\ (status = "corrupt" => ~ValidInput)
      /\ (status = "ok" /\ pc # "raw" => ValidInput /\ dst = Meaning(given.ops).out)
  BY <1>1 DEF CodecInv, DecoderKnows
<1> QED
  BY <1>2 DEF DecodeAgrees, ValidInput

\* minLZDecodeGo: on every input, whatever its operations, wherever it is cut
\* off and whatever size is announced for it, both loops together accept what is
\* complete and means a block of that size, decode it to that and do not panic.
THEOREM DecoderAgrees == Spec /\ []FitsDst => []DecodeAgrees
<1>1. CodecInv /\ FitsDst => DecodeAgrees
  BY DecodesRight
<1> QED
  BY <1>1, CodecInvariant, PTL

\* The blocks of the first level are not so long that it can take an offset no
\* copy has room for (with longer ones Encode fails).
NearSources ==
  "fast" \in DOMAIN Sources => \A w \in Sources["fast"] : Len(w) <= MaxCopy3Offset + 10

LEMMA NearStart ==
  ASSUME NearSources, Init
  PROVE  Near
<1>1. MaxCopy3Offset + 10 \in Nat
  BY OffsetAssumption DEF MaxCopy3Offset
<1>2. CASE src = <<>>
  <2>1. Size = 0
    BY <1>2 DEF Size
  <2> QED
    BY <1>1, <2>1 DEF Near
<1>3. CASE level \in DOMAIN Sources /\ src \in Sources[level]
  BY <1>3 DEF Near, NearSources, Size
<1> QED
  BY <1>2, <1>3 DEF Init, EncodeInit

LEMMA EncodersMean == NearSources => (Spec => [](CodecInv /\ EncoderMeans))
<1> SUFFICES ASSUME NearSources PROVE Spec => [](CodecInv /\ EncoderMeans)
  OBVIOUS
<1>1. Init => CodecInv /\ Near /\ EncoderMeans
  BY CodecInit, NearStart
<1>2. CodecInv /\ Near /\ EncoderMeans /\ [Next]_vars => (CodecInv /\ Near /\ EncoderMeans)'
  <2> SUFFICES ASSUME CodecInv, Near, EncoderMeans, [Next]_vars
               PROVE  (CodecInv /\ Near /\ EncoderMeans)'
    OBVIOUS
  <2>1. CodecInv' /\ EncoderMeans' /\ src' = src /\ level' = level
    BY CodecStep
  <2>2. Near'
    BY <2>1 DEF Near, Size
  <2> QED
    BY <2>1, <2>2
<1> QED
  BY <1>1, <1>2, PTL DEF Spec

LEMMA DecodesToSource ==
  ASSUME CodecInv, EncoderMeans, FitsDst
  PROVE  RoundTrip
<1> SUFFICES ASSUME pc \in {"coded", "raw"}, status \notin {"idle", "run"}
             PROVE  status = "ok" /\ dst = src
  BY DEF RoundTrip
<1>1. CASE pc = "raw"
  BY <1>1 DEF CodecInv, DecoderKnows
<1>2. CASE pc = "coded"
  <2>1. ~NotHeld
    BY NotRefused
  <2>2. given = CodedInput /\ status \in {"ok", "corrupt"}
    BY <1>2, <2>1 DEF CodecInv, DecoderKnows
  <2>3. given.ops = code /\ given.cut = 0 /\ given.size = Size
    BY <2>2 DEF CodedInput
  <2>4. Meaning(code).ok /\ Meaning(code).out = src
    BY <1>2 DEF EncoderMeans
  <2>5. ValidInput
    BY <2>3, <2>4 DEF ValidInput, Size
  <2> QED
    BY <1>2, <2>1, <2>2, <2>3, <2>4, <2>5 DEF CodecInv, DecoderKnows
<1> QED
  BY <1>1, <1>2

\* Encode and Decode: whatever matches an encoder takes or misses, what it
\* returns decodes to the source.
THEOREM CodecRoundTrip == NearSources => (Spec /\ []FitsDst => []RoundTrip)
<1> SUFFICES ASSUME NearSources PROVE Spec /\ []FitsDst => []RoundTrip
  OBVIOUS
<1>1. CodecInv /\ EncoderMeans /\ FitsDst => RoundTrip
  BY DecodesToSource
<1> QED
  BY <1>1, EncodersMean, PTL

-----------------------------------------------------------------------------
(* The other two decoders.                                                 *)

Loops == [ok : BOOLEAN, s : Nat, off : Nat \ {0}, out : Seq(Bytes)]

\* One operation.
LoopOff(m, op) == IF op.tag \in {"literal", "repeat"} THEN m.off ELSE ReadOffset(op)

LoopFits(m, op, wants, in) ==
  LET left == CodeBytes(in.ops) - in.cut - m.s
      room == in.size - Len(m.out)
  IN  /\ m.ok /\ wants <= left /\ OpBytes(op) <= left /\ Len(op.lits) <= room
      /\ IsCopy(op) => LoopOff(m, op) <= Len(m.out \o op.lits) /\ ReadLength(op) <= room - Len(op.lits)

LoopDoes(m, op, wants, in, next) ==
  /\ next \in Loops
  /\ next.ok <=> LoopFits(m, op, wants, in)
  /\ LoopFits(m, op, wants, in) =>
       /\ next.s = m.s + OpBytes(op)
       /\ next.off = LoopOff(m, op)
       /\ IsCopy(op) => next.out = (m.out \o op.lits) \o Copied(m.out \o op.lits, LoopOff(m, op), ReadLength(op))
       /\ ~IsCopy(op) => next.out = m.out \o op.lits
       /\ Len(next.out) = Len(m.out \o op.lits) + (IF IsCopy(op) THEN ReadLength(op) ELSE 0)

LEMMA LoopStepIs ==
  ASSUME NEW m \in Loops, NEW op \in Operations, NEW wants \in Nat, NEW in
  PROVE  LoopDoes(m, op, wants, in, LoopStep(m, op, wants, in))
<1> DEFINE left == CodeBytes(in.ops) - in.cut - m.s
           room == in.size - Len(m.out)
           length == ReadLength(op)
           lits == m.out \o op.lits
           off  == IF op.tag \in {"literal", "repeat"} THEN m.off ELSE ReadOffset(op)
           next == LoopStep(m, op, wants, in)
           fits == /\ m.ok /\ wants <= left
                   /\ OpBytes(op) <= left /\ Len(op.lits) <= room
                   /\ IsCopy(op) => off <= Len(lits) /\ length <= room - Len(op.lits)
           out == IF IsCopy(op) THEN lits \o Copied(lits, off, length) ELSE lits
           s1 == m.s + OpBytes(op)
           good == [ok |-> TRUE, s |-> s1, off |-> off, out |-> out]
           bad == [m EXCEPT !.ok = FALSE]
<1>1. m.ok \in BOOLEAN /\ m.s \in Nat /\ m.off \in Nat \ {0} /\ m.out \in Seq(Bytes)
  BY DEF Loops
<1>2. op.lits \in Seq(Bytes) /\ OpBytes(op) \in Nat /\ ReadOffset(op) \in Nat \ {0} /\ length \in Nat
  BY OpIs, OpReads, OpTakes
<1>3. lits \in Seq(Bytes)
  BY <1>1, <1>2, Joined
<1>4. off \in Nat \ {0} /\ s1 \in Nat
  BY <1>1, <1>2
<1>5. next = IF fits THEN good ELSE bad
  BY DEF LoopStep
<1>6. bad \in Loops /\ ~bad.ok
  BY DEF Loops
<1> HIDE DEF length, lits, off, s1
<1>7. ASSUME fits PROVE out \in Seq(Bytes) /\ Len(out) = Len(lits) + (IF IsCopy(op) THEN length ELSE 0)
  <2>1. CASE IsCopy(op)
    <3> DEFINE c == Copied(lits, off, length)
    <3>1. off <= Len(lits)
      BY <1>7, <2>1
    <3>2. off \in 1 .. Len(lits)
      BY <1>3, <1>4, <3>1
    <3>3. c \in Seq(Bytes) /\ Len(c) = length
      BY <1>2, <1>3, <3>2, CopiedIs
    <3> HIDE DEF c
    <3>4. lits \o c \in Seq(Bytes) /\ Len(lits \o c) = Len(lits) + length
      BY <1>3, <3>3, Joined
    <3> QED
      BY <2>1, <3>4 DEF c
  <2>2. CASE ~IsCopy(op)
    <3>1. Len(lits) \in Nat
      BY <1>3
    <3> QED
      BY <1>3, <2>2, <3>1
  <2> QED
    BY <2>1, <2>2
<1> HIDE DEF out
<1>8. ASSUME fits PROVE good \in Loops /\ good.ok /\ good.s = s1 /\ good.off = off /\ good.out = out
  BY <1>4, <1>7, <1>8 DEF Loops
<1> HIDE DEF fits, good, bad, next
<1>9. /\ next \in Loops
      /\ next.ok <=> fits
      /\ fits => next.s = s1 /\ next.off = off /\ next.out = out
                 /\ Len(next.out) = Len(lits) + (IF IsCopy(op) THEN length ELSE 0)
  <2>1. CASE fits
    BY <1>5, <1>7, <1>8, <2>1
  <2>2. CASE ~fits
    BY <1>5, <1>6, <2>2
  <2> QED
    BY <2>1, <2>2
<1>10. LoopFits(m, op, wants, in) <=> fits
  BY DEF LoopFits, LoopOff, fits, length, off, lits
<1>11. LoopOff(m, op) = off
  BY DEF LoopOff, off
<1>12. (IsCopy(op) => out = lits \o Copied(lits, off, length)) /\ (~IsCopy(op) => out = lits)
  BY DEF out
<1>13. LoopDoes(m, op, wants, in, next)
  BY <1>9, <1>10, <1>11, <1>12 DEF LoopDoes, length, s1, lits
<1> QED
  BY <1>13 DEF next

\* The loop is a walk through the operations.
LEMMA LoopWalks ==
  ASSUME NEW in, in.ops \in Seq(Operations),
         NEW wants \in [1 .. Len(in.ops) -> Nat]
  PROVE  \E f \in [0 .. Len(in.ops) -> Loops] :
           /\ f[0] = LoopStart
           /\ \A k \in 1 .. Len(in.ops) : f[k] = LoopStep(f[k - 1], in.ops[k], wants[k], in)
           /\ Loop(in, wants) = LoopEnd(f[Len(in.ops)], in)
<1> DEFINE n == Len(in.ops)
           Step(m, k) == LoopStep(m, in.ops[k], wants[k], in)
           G == [k \in 1 .. n |-> [m \in Loops |-> Step(m, k)]]
           After(f) == [k \in 0 .. n |-> IF k = 0 THEN LoopStart ELSE Step(f[k - 1], k)]
           h == CHOOSE f : f = After(f)
<1>1. n \in Nat
  OBVIOUS
<1>2. LoopStart \in Loops
  BY DEF LoopStart, Loops
<1>3. ASSUME NEW k \in 1 .. n, NEW m \in Loops PROVE Step(m, k) \in Loops
  <2>1. in.ops[k] \in Operations /\ wants[k] \in Nat
    OBVIOUS
  <2>2. LoopDoes(m, in.ops[k], wants[k], in, Step(m, k))
    BY <2>1, LoopStepIs
  <2> QED
    BY <2>2 DEF LoopDoes
<1> HIDE DEF Step
<1>4. G \in [1 .. n -> [Loops -> Loops]]
  BY <1>3
<1> HIDE DEF G
<1>5. PICK f \in [0 .. n -> Loops] : Along(n, LoopStart, G, f)
  BY <1>1, <1>2, <1>4, AlongExists
<1>6. f = After(f)
  <2>1. ASSUME NEW k \in 0 .. n PROVE f[k] = IF k = 0 THEN LoopStart ELSE Step(f[k - 1], k)
    <3>1. CASE k = 0
      BY <1>5, <3>1 DEF Along
    <3>2. CASE k # 0
      <4>1. k \in 1 .. n /\ f[k - 1] \in Loops
        BY <3>2
      <4>2. f[k] = G[k][f[k - 1]]
        BY <1>5, <4>1 DEF Along
      <4>3. G[k] = [m \in Loops |-> Step(m, k)]
        BY <4>1 DEF G
      <4> QED
        BY <3>2, <4>1, <4>2, <4>3
    <3> QED
      BY <3>1, <3>2
  <2> QED
    BY <2>1
<1>7. h = After(h)
  BY <1>6
<1>8. Loop(in, wants) = LoopEnd(h[n], in)
  BY DEF Loop, Step
<1> HIDE DEF h
<1>9. \A k \in 0 .. n : h[k] = IF k = 0 THEN LoopStart ELSE Step(h[k - 1], k)
  BY <1>7
<1>10. \A k \in 0 .. n : h[k] \in Loops
  <2> DEFINE A == {k \in Nat : k <= n => h[k] \in Loops}
  <2>1. 0 \in A
    BY <1>1, <1>2, <1>9
  <2>2. ASSUME NEW k \in Nat, k \in A PROVE k + 1 \in A
    <3> SUFFICES ASSUME k + 1 <= n PROVE h[k + 1] \in Loops
      OBVIOUS
    <3>1. h[k] \in Loops /\ h[k + 1] = Step(h[k], k + 1) /\ k + 1 \in 1 .. n
      BY <1>1, <1>9, <2>2
    <3> QED
      BY <1>3, <3>1
  <2> HIDE DEF A
  <2>3. Nat \subseteq A
    BY <2>1, <2>2, NatSet
  <2> QED
    BY <2>3 DEF A
<1>11. h \in [0 .. n -> Loops]
  BY <1>7, <1>10
<1>12. h[0] = LoopStart /\ \A k \in 1 .. n : h[k] = Step(h[k - 1], k)
  BY <1>1, <1>9
<1> QED
  BY <1>8, <1>11, <1>12 DEF Step

\* What the input means is what the loop should find.
IsBlock(in) ==
  in.cut = 0 /\ Meaning(in.ops).ok /\ Len(Meaning(in.ops).out) = in.size

\* The loop after k operations knows what they mean.
LoopKnows(in, k, m) ==
  LET meant == Meaning(SubSeq(in.ops, 1, k))
  IN  /\ m.ok => /\ m.s = CodeBytes(SubSeq(in.ops, 1, k))
                 /\ meant.ok /\ meant.off = m.off /\ m.out = meant.out
                 /\ k > 0 /\ k = Len(in.ops) => in.cut = 0
      /\ ~m.ok => ~IsBlock(in)

\* An operation whose bytes or whose output do not fit is not one of a block.
LEMMA Misfit ==
  ASSUME NEW in, in.ops \in Seq(Operations), in.cut \in Nat, in.size \in Nat,
         NEW k \in 1 .. Len(in.ops),
         LET m == Meaning(SubSeq(in.ops, 1, k))
             read == CodeBytes(SubSeq(in.ops, 1, k - 1))
         IN  \/ read + OpBytes(in.ops[k]) > CodeBytes(in.ops) - in.cut
             \/ ~m.ok \/ Len(m.out) > in.size
  PROVE  ~IsBlock(in)
<1> DEFINE ops == in.ops
           m == Meaning(SubSeq(ops, 1, k))
           all == Meaning(ops)
           read == CodeBytes(SubSeq(ops, 1, k - 1))
           b == OpBytes(ops[k])
           n == Len(m.out)
           e == Len(all.out)
<1>1. k \in 0 .. Len(ops) /\ k - 1 \in 0 .. Len(ops) /\ ops[k] \in Operations
  OBVIOUS
<1>2. (~m.ok => ~all.ok) /\ n \in Nat /\ n <= e
  BY <1>1, MeaningGrows
<1>3. e \in Nat
  <2>1. all \in Meanings
    BY MeaningTyped
  <2> QED
    BY <2>1 DEF Meanings
<1>4. read \in Nat /\ b \in Nat /\ read + b <= CodeBytes(ops) /\ CodeBytes(ops) \in Nat
  <2>1. CodeBytes(SubSeq(ops, 1, k)) = read + b
    BY BytesStep
  <2>2. CodeBytes(SubSeq(ops, 1, k)) <= CodeBytes(ops)
    BY <1>1, BytesGrow
  <2>3. read \in Nat
    BY <1>1, BytesGrow
  <2>4. b \in Nat
    BY <1>1, OpTakes
  <2>5. CodeBytes(ops) \in Nat
    BY BytesTyped
  <2> QED
    BY <2>1, <2>2, <2>3, <2>4, <2>5
<1>5. read + b > CodeBytes(ops) - in.cut \/ ~m.ok \/ n > in.size
  OBVIOUS
<1> HIDE DEF m, all, read, b, n, e
<1>6. CASE read + b > CodeBytes(ops) - in.cut
  <2>1. in.cut # 0
    BY <1>4, <1>6
  <2> QED
    BY <2>1 DEF IsBlock
<1>7. CASE ~m.ok
  BY <1>2, <1>7 DEF IsBlock, all
<1>8. CASE n > in.size
  <2>1. e # in.size
    BY <1>2, <1>3, <1>8
  <2> QED
    BY <2>1 DEF IsBlock, e, all
<1> QED
  BY <1>5, <1>6, <1>7, <1>8

LEMMA LoopKeeps ==
  ASSUME NEW in, in.ops \in Seq(Operations), in.cut \in Nat, in.size \in Nat,
         NEW k \in 1 .. Len(in.ops), NEW m \in Loops, LoopKnows(in, k - 1, m),
         NEW op \in Operations, op = in.ops[k], NEW wants \in Nat, wants <= OpBytes(op),
         NEW p \in Meanings, p = Meaning(SubSeq(in.ops, 1, k - 1))
  PROVE  LoopKnows(in, k, LoopStep(m, op, wants, in))
<1> DEFINE ops == in.ops
           full == ReadLength(op)
           q == Meaning(SubSeq(ops, 1, k))
           next == LoopStep(m, op, wants, in)
           read == CodeBytes(SubSeq(ops, 1, k - 1))
           b == OpBytes(op)
           all == CodeBytes(ops)
           lits == m.out \o op.lits
           n == Len(op.lits)
           x == Len(m.out)
           off == LoopOff(m, op)
           size == in.size
           fits == /\ m.ok /\ wants <= all - in.cut - m.s
                   /\ b <= all - in.cut - m.s /\ n <= size - x
                   /\ IsCopy(op) => off <= Len(lits) /\ full <= (size - x) - n
<1>1. k - 1 \in 0 .. Len(ops)
  OBVIOUS
<1>2. q = MeaningStep(p, op)
  BY MeaningOfPart
<1>3. full \in Nat /\ b \in Nat /\ all \in Nat /\ read \in Nat /\ size \in Nat
  <2>1. full \in Nat /\ b \in Nat
    BY <1>1, OpReads, OpTakes
  <2>2. all \in Nat
    BY BytesTyped
  <2>3. read \in Nat
    BY <1>1, BytesGrow
  <2> QED
    BY <2>1, <2>2, <2>3
<1>4. CodeBytes(SubSeq(ops, 1, k)) = read + b /\ (k = Len(ops) => read + b = all)
  <2>1. CodeBytes(SubSeq(ops, 1, k)) = read + b
    BY BytesStep
  <2>2. k = Len(ops) => SubSeq(ops, 1, k) = ops
    BY Part
  <2> QED
    BY <2>1, <2>2
<1>5. m.out \in Seq(Bytes) /\ x \in Nat /\ op.lits \in Seq(Bytes) /\ n \in Nat
      /\ m.ok \in BOOLEAN /\ m.s \in Nat /\ m.off \in Nat \ {0}
  <2>1. op.lits \in Seq(Bytes) /\ n \in Nat
    BY OpIs
  <2>2. m.out \in Seq(Bytes) /\ m.ok \in BOOLEAN /\ m.s \in Nat /\ m.off \in Nat \ {0}
    BY DEF Loops
  <2> QED
    BY <2>1, <2>2
<1>6. Len(lits) = x + n
  BY <1>5, Joined
<1>7. /\ next \in Loops
      /\ next.ok <=> fits
      /\ fits => /\ next.s = m.s + b /\ next.off = off
                 /\ next.out = IF IsCopy(op) THEN lits \o Copied(lits, off, full) ELSE lits
  <2>1. fits <=> LoopFits(m, op, wants, in)
    BY DEF LoopFits
  <2> HIDE DEF fits, next, lits, off, b, full
  <2>2. LoopDoes(m, op, wants, in, next)
    BY LoopStepIs DEF next
  <2>3. /\ next \in Loops
        /\ next.ok <=> fits
        /\ fits => /\ next.s = m.s + b /\ next.off = off
                   /\ IsCopy(op) => next.out = lits \o Copied(lits, off, full)
                   /\ ~IsCopy(op) => next.out = lits
    BY <2>1, <2>2 DEF LoopDoes, lits, off, b, full
  <2> QED
    BY <2>3
<1>8. m.ok => m.s = read /\ p.ok /\ p.off = m.off /\ m.out = p.out
  BY DEF LoopKnows
<1>9. ~m.ok => ~IsBlock(in)
  BY DEF LoopKnows
<1>10. ASSUME m.ok
       PROVE  /\ IsCopy(op) /\ off > x + n => ~q.ok
              /\ ~(IsCopy(op) /\ off > x + n) =>
                   /\ q.ok /\ q.off = off
                   /\ q.out = IF IsCopy(op) THEN lits \o Copied(lits, off, full) ELSE lits
                   /\ Len(q.out) = x + n + (IF IsCopy(op) THEN full ELSE 0)
  <2> DEFINE off0 == IF op.tag \in {"literal", "repeat"} THEN p.off ELSE ReadOffset(op)
             meant == p.out \o op.lits
             r == MeaningStep(p, op)
  <2>1. /\ IsCopy(op) /\ off0 > Len(meant) => ~r.ok
        /\ p.ok /\ ~(IsCopy(op) /\ off0 > Len(meant)) =>
             /\ r.ok /\ r.off = off0
             /\ r.out = IF IsCopy(op) THEN meant \o Copied(meant, off0, full) ELSE meant
             /\ Len(r.out) = Len(meant) + (IF IsCopy(op) THEN full ELSE 0)
    BY StepIs
  <2>2. off0 = off /\ p.ok /\ r = q /\ meant = lits
    BY <1>2, <1>8, <1>10 DEF LoopOff
  <2> HIDE DEF off0, off, meant, lits, q, r
  <2> QED
    BY <1>6, <2>1, <2>2
<1>11. read + b > all - in.cut \/ ~q.ok \/ Len(q.out) > size => ~IsBlock(in)
  BY Misfit
<1>12. off \in Nat \ {0}
  <2>1. ReadOffset(op) \in Nat \ {0}
    BY <1>1, OpReads
  <2> QED
    BY <1>5, <2>1 DEF LoopOff
<1> HIDE DEF q, next, read, b, all, full, lits, n, x, off, size
<1>13. CASE fits
  <2>1. m.ok /\ next.ok /\ next.s = read + b /\ next.off = off /\ m.s = read
    BY <1>7, <1>8, <1>13
  <2>2. ~(IsCopy(op) /\ off > x + n)
    BY <1>5, <1>6, <1>12, <1>13
  <2>3. q.ok /\ q.off = next.off /\ next.out = q.out
    BY <1>7, <1>10, <1>13, <2>1, <2>2
  <2>4. k = Len(ops) => in.cut = 0
    <3>1. b <= all - in.cut - read
      BY <1>13, <2>1
    <3> QED
      BY <1>3, <1>4, <3>1
  <2>5. next.s = CodeBytes(SubSeq(ops, 1, k))
    BY <1>4, <2>1
  <2> QED
    BY <2>1, <2>3, <2>4, <2>5 DEF LoopKnows, next, q
<1>14. CASE ~fits
  <2>1. ~next.ok
    BY <1>7, <1>14
  <2>2. ~IsBlock(in)
    <3>1. CASE ~m.ok
      BY <1>9, <3>1
    <3>2. CASE m.ok
      <4>1. m.s = read
        BY <1>8, <3>2
      <4>2. CASE ~(wants <= all - in.cut - m.s) \/ ~(b <= all - in.cut - m.s)
        <5>1. wants <= b
          BY DEF b
        <5>2. read + b > all - in.cut
          BY <1>3, <4>1, <4>2, <5>1
        <5> QED
          BY <1>11, <5>2
      <4>3. CASE IsCopy(op) /\ off > x + n
        BY <1>10, <1>11, <3>2, <4>3
      <4>4. CASE ~(IsCopy(op) /\ off > x + n) /\ (~(n <= size - x) \/ (IsCopy(op) /\ ~(full <= (size - x) - n)))
        <5> DEFINE j == Len(q.out)
        <5>1. j = x + n + (IF IsCopy(op) THEN full ELSE 0)
          BY <1>10, <3>2, <4>4
        <5> HIDE DEF j
        <5>2. j > size
          <6>1. CASE IsCopy(op)
            BY <1>3, <1>5, <4>4, <5>1, <6>1
          <6>2. CASE ~IsCopy(op)
            BY <1>3, <1>5, <4>4, <5>1, <6>2
          <6> QED
            BY <6>1, <6>2
        <5> QED
          BY <1>11, <5>2 DEF j
      <4>5. ~(off <= Len(lits)) => off > x + n
        BY <1>5, <1>6, <1>12
      <4> QED
        BY <1>14, <3>2, <4>2, <4>3, <4>4, <4>5
    <3> QED
      BY <3>1, <3>2
  <2> QED
    BY <2>1, <2>2 DEF LoopKnows, next
<1> QED
  BY <1>13, <1>14

LEMMA LoopFinds ==
  ASSUME NEW in, in.ops \in Seq(Operations), in.cut \in Nat, in.size \in Nat,
         NEW wants \in [1 .. Len(in.ops) -> Nat],
         NEW f \in [0 .. Len(in.ops) -> Loops], f[0] = LoopStart,
         \A k \in 1 .. Len(in.ops) : f[k] = LoopStep(f[k - 1], in.ops[k], wants[k], in),
         \A k \in 1 .. Len(in.ops) : wants[k] <= OpBytes(in.ops[k])
  PROVE  \A k \in 0 .. Len(in.ops) : LoopKnows(in, k, f[k])
<1> DEFINE n == Len(in.ops)
           A == {k \in Nat : k <= n => LoopKnows(in, k, f[k])}
<1>1. n \in Nat
  OBVIOUS
<1>2. LoopKnows(in, 0, f[0])
  <2>1. SubSeq(in.ops, 1, 0) = <<>>
    OBVIOUS
  <2>2. LoopStart.ok /\ LoopStart.s = 0 /\ LoopStart.off = 1 /\ LoopStart.out = <<>>
    BY DEF LoopStart
  <2>3. FirstMeaning.ok /\ FirstMeaning.off = 1 /\ FirstMeaning.out = <<>>
    BY DEF FirstMeaning
  <2>4. PICK m \in Loops : m = f[0]
    OBVIOUS
  <2>5. m = LoopStart
    BY <2>4
  <2> DEFINE meant == Meaning(SubSeq(in.ops, 1, 0))
             bytes == CodeBytes(SubSeq(in.ops, 1, 0))
  <2>6. meant = FirstMeaning /\ bytes = 0
    BY <2>1, BytesOfNone, MeaningOfNone
  <2> HIDE DEF meant, bytes
  <2>7. m.ok /\ m.s = bytes /\ meant.ok /\ meant.off = m.off /\ m.out = meant.out
    BY <2>2, <2>3, <2>5, <2>6
  <2>8. LoopKnows(in, 0, m)
    BY <2>7 DEF LoopKnows, meant, bytes
  <2> QED
    BY <2>4, <2>8
<1>3. ASSUME NEW k \in Nat, k \in A PROVE k + 1 \in A
  <2> SUFFICES ASSUME k + 1 <= n PROVE LoopKnows(in, k + 1, f[k + 1])
    OBVIOUS
  <2>1. PICK j \in Nat : j = k + 1
    OBVIOUS
  <2>2. j \in 1 .. n /\ j - 1 = k /\ k \in 0 .. n /\ k <= n
    BY <1>1, <2>1
  <2>3. LoopKnows(in, j - 1, f[k])
    BY <1>3, <2>2
  <2>4. PICK op \in Operations : op = in.ops[j]
    BY <2>2
  <2>5. PICK w \in Nat : w = wants[j]
    BY <2>2
  <2>6. PICK m \in Loops : m = f[k]
    BY <2>2
  <2>7. SubSeq(in.ops, 1, j - 1) \in Seq(Operations)
    BY <2>2, Part
  <2>8. PICK p \in Meanings : p = Meaning(SubSeq(in.ops, 1, j - 1))
    BY <2>7, MeaningTyped
  <2>9. w <= OpBytes(op)
    BY <2>2, <2>4, <2>5
  <2>10. LoopKnows(in, j - 1, m)
    BY <2>3, <2>6
  <2> HIDE DEF A, n
  <2>11. LoopKnows(in, j, LoopStep(m, op, w, in))
    BY <2>2, <2>4, <2>8, <2>9, <2>10, LoopKeeps DEF n
  <2>12. f[j] = LoopStep(m, op, w, in)
    BY <2>2, <2>4, <2>5, <2>6 DEF n
  <2> QED
    BY <2>1, <2>11, <2>12
<1>4. 0 \in A
  BY <1>2
<1> HIDE DEF A
<1>5. Nat \subseteq A
  BY <1>3, <1>4, NatSet
<1> QED
  BY <1>1, <1>5 DEF A

\* Every loop that wants no more bytes than the operation has accepts the blocks and
\* nothing else, and decodes them to what they mean.
LEMMA LoopAgrees ==
  ASSUME NEW in, in.ops \in Seq(Operations), in.ops # <<>>, in.cut \in Nat, in.size \in Nat,
         NEW wants \in [1 .. Len(in.ops) -> Nat],
         \A k \in 1 .. Len(in.ops) : wants[k] <= OpBytes(in.ops[k])
  PROVE  /\ Loop(in, wants).ok <=> IsBlock(in)
         /\ IsBlock(in) => Loop(in, wants).out = Meaning(in.ops).out
<1> DEFINE n == Len(in.ops)
<1>1. PICK f \in [0 .. n -> Loops] :
           /\ f[0] = LoopStart
           /\ \A k \in 1 .. n : f[k] = LoopStep(f[k - 1], in.ops[k], wants[k], in)
           /\ Loop(in, wants) = LoopEnd(f[n], in)
  BY LoopWalks
<1>2. n \in Nat /\ n > 0 /\ SubSeq(in.ops, 1, n) = in.ops
  OBVIOUS
<1>3. \A k \in 0 .. n : LoopKnows(in, k, f[k])
  BY <1>1, LoopFinds
<1>4. PICK m \in Loops : m = f[n]
  <2>1. n \in 0 .. n
    BY <1>2
  <2>2. f[n] \in Loops
    BY <1>1, <2>1
  <2> QED
    BY <2>2
<1>5. LoopKnows(in, n, m)
  BY <1>2, <1>3, <1>4
<1> DEFINE meant == Meaning(in.ops)
           r == Loop(in, wants)
           fine == m.ok /\ Len(m.out) = in.size
<1>6. /\ m.ok => meant.ok /\ in.cut = 0 /\ m.out = meant.out
      /\ ~m.ok => ~IsBlock(in)
  BY <1>2, <1>5 DEF LoopKnows
<1>7. r = [ok |-> fine, out |-> m.out]
  BY <1>1, <1>4 DEF LoopEnd
<1>8. IsBlock(in) <=> in.cut = 0 /\ meant.ok /\ Len(meant.out) = in.size
  BY DEF IsBlock
<1> HIDE DEF meant, r, fine
<1>9. r.ok = fine /\ r.out = m.out
  BY <1>7
<1> QED
  BY <1>6, <1>8, <1>9 DEF fine, r, meant

\* No decoder wants more bytes than there are.
LEMMA OtherWants ==
  ASSUME NEW op \in Operations
  PROVE  /\ HeadBytes(op) \in Nat /\ HeadBytes(op) <= OpBytes(op)
         /\ DebugWants(op) \in Nat /\ DebugWants(op) <= OpBytes(op)
<1> DEFINE h == HeadBytes(op)
           n == Len(op.lits)
           b == OpBytes(op)
<1>1. h \in Nat /\ n \in Nat /\ b = h + n /\ (op.tag = "fused2" => h = 3 /\ n >= 1)
  <2>1. h \in 1 .. 7 /\ b = h + n /\ (op.tag = "fused2" => h = 3)
    BY OpTakes
  <2>2. n \in Nat /\ (op.tag = "fused2" => n \in 1 .. 4)
    BY OpIs
  <2> HIDE DEF h, n, b
  <2> QED
    BY <2>1, <2>2
<1>2. DebugWants(op) = IF op.tag = "fused2" THEN 4 ELSE h
  BY DEF DebugWants
<1> HIDE DEF h, n, b
<1>3. h <= b /\ DebugWants(op) \in Nat /\ DebugWants(op) <= b
  BY <1>1, <1>2
<1> QED
  BY <1>1, <1>3 DEF h, b

LEMMA DebugAgrees ==
  ASSUME NEW in, in.ops \in Seq(Operations), in.ops # <<>>, in.cut \in Nat, in.size \in Nat
  PROVE  /\ DebugDecode(in).ok <=> IsBlock(in)
         /\ IsBlock(in) => DebugDecode(in).out = Meaning(in.ops).out
<1>1. PICK wants : wants = [k \in DOMAIN in.ops |-> DebugWants(in.ops[k])]
  OBVIOUS
<1>2. DOMAIN in.ops = 1 .. Len(in.ops) /\ \A k \in 1 .. Len(in.ops) : in.ops[k] \in Operations
  OBVIOUS
<1>3. \A op \in Operations : DebugWants(op) \in Nat /\ DebugWants(op) <= OpBytes(op)
  BY OtherWants
<1>4. wants \in [1 .. Len(in.ops) -> Nat] /\ \A k \in 1 .. Len(in.ops) : wants[k] <= OpBytes(in.ops[k])
  BY <1>1, <1>2, <1>3
<1>5. DebugDecode(in) = Loop(in, wants)
  BY <1>1 DEF DebugDecode
<1> QED
  BY <1>4, <1>5, LoopAgrees

LEMMA ReferenceAgrees ==
  ASSUME NEW in, in.ops \in Seq(Operations), in.ops # <<>>, in.cut \in Nat, in.size \in Nat
  PROVE  /\ ReferenceDecode(in).ok <=> IsBlock(in) /\ in.size >= CodeBytes(in.ops)
         /\ ReferenceDecode(in).ok => ReferenceDecode(in).out = Meaning(in.ops).out
<1>1. PICK wants : wants = [k \in DOMAIN in.ops |-> HeadBytes(in.ops[k])]
  OBVIOUS
<1>2. DOMAIN in.ops = 1 .. Len(in.ops) /\ \A k \in 1 .. Len(in.ops) : in.ops[k] \in Operations
  OBVIOUS
<1>3. \A op \in Operations : HeadBytes(op) \in Nat /\ HeadBytes(op) <= OpBytes(op)
  BY OtherWants
<1>4. wants \in [1 .. Len(in.ops) -> Nat] /\ \A k \in 1 .. Len(in.ops) : wants[k] <= OpBytes(in.ops[k])
  BY <1>1, <1>2, <1>3
<1> DEFINE r == Loop(in, wants)
           all == CodeBytes(in.ops)
<1>5. (r.ok <=> IsBlock(in)) /\ (IsBlock(in) => r.out = Meaning(in.ops).out)
  BY <1>4, LoopAgrees
<1>6. ReferenceDecode(in) = IF in.size < all - in.cut THEN [ok |-> FALSE, out |-> <<>>] ELSE r
  BY <1>1 DEF ReferenceDecode
<1>7. all \in Nat
  BY BytesTyped
<1>8. IsBlock(in) => in.cut = 0
  BY DEF IsBlock
<1> HIDE DEF all, r
<1>9. CASE in.size < all - in.cut
  <2>1. ~ReferenceDecode(in).ok
    BY <1>6, <1>9
  <2>2. IsBlock(in) => ~(in.size >= all)
    BY <1>7, <1>8, <1>9
  <2> QED
    BY <2>1, <2>2 DEF all
<1>10. CASE ~(in.size < all - in.cut)
  <2>1. ReferenceDecode(in) = r
    BY <1>6, <1>10
  <2>2. IsBlock(in) => in.size >= all
    BY <1>7, <1>8, <1>10
  <2> QED
    BY <1>5, <2>1, <2>2 DEF all
<1> QED
  BY <1>9, <1>10

LEMMA OthersRight ==
  ASSUME CodecInv
  PROVE  OtherDecodersAgree
<1> SUFFICES ASSUME status \in {"ok", "corrupt"}, pc # "raw", given.ops # <<>>
             PROVE  LET meant == Meaning(given.ops)
                        valid == given.cut = 0 /\ meant.ok /\ Len(meant.out) = given.size
                        ref == ReferenceDecode(given)
                        dbg == DebugDecode(given)
                    IN  /\ dbg.ok <=> valid
                        /\ ref.ok <=> valid /\ given.size >= CodeBytes(given.ops)
                        /\ \A r \in {dbg, ref} : r.ok /\ valid => r.out = meant.out
  BY DEF OtherDecodersAgree
<1>1. given.ops \in Seq(Operations) /\ given.cut \in Nat /\ given.size \in Nat
  BY DEF CodecInv, DecoderKnows, Decoding
<1>2. /\ DebugDecode(given).ok <=> IsBlock(given)
      /\ IsBlock(given) => DebugDecode(given).out = Meaning(given.ops).out
  BY <1>1, DebugAgrees
<1>3. /\ ReferenceDecode(given).ok <=> IsBlock(given) /\ given.size >= CodeBytes(given.ops)
      /\ ReferenceDecode(given).ok => ReferenceDecode(given).out = Meaning(given.ops).out
  BY <1>1, ReferenceAgrees
<1> QED
  BY <1>2, <1>3 DEF IsBlock

\* All the decoders of the repository: on every input they accept the same blocks and
\* decode them to the same bytes, wherever the input is cut off and whatever size is
\* announced.
THEOREM AllDecodersAgree == Spec /\ []FitsDst => []DecodersAgree
<1>1. CodecInv => OtherDecodersAgree
  BY OthersRight
<1>2. DecodeAgrees /\ OtherDecodersAgree => DecodersAgree
  BY DEF DecodersAgree
<1> QED
  BY <1>1, <1>2, CodecInvariant, DecoderAgrees, PTL

-----------------------------------------------------------------------------
(* The bytes of what is emitted                                            *)

\* One list behind another.
LEMMA BytesJoin ==
  ASSUME NEW p \in Seq(Operations), NEW q \in Seq(Operations)
  PROVE  CodeBytes(p \o q) = CodeBytes(p) + CodeBytes(q)
<1> DEFINE Q(k) == SubSeq(q, 1, k)
           U == {k \in Nat : k <= Len(q) => CodeBytes(p \o Q(k)) = CodeBytes(p) + CodeBytes(Q(k))}
<1>1. CodeBytes(p) \in Nat
  BY BytesTyped
<1>2. 0 \in U
  <2>1. Q(0) = <<>>
    BY Part
  <2>2. p \o <<>> = p
    OBVIOUS
  <2> DEFINE v == CodeBytes(p)
  <2>3. CodeBytes(p \o Q(0)) = v /\ CodeBytes(Q(0)) = 0 /\ v \in Nat
    BY <1>1, <2>1, <2>2, BytesOfNone
  <2> HIDE DEF v
  <2>4. v = v + 0
    BY <2>3
  <2>5. CodeBytes(p \o Q(0)) = v + CodeBytes(Q(0))
    BY <2>3, <2>4, Zenon
  <2> QED
    BY <2>5 DEF v
<1>3. ASSUME NEW k \in Nat, k \in U PROVE k + 1 \in U
  <2> SUFFICES ASSUME k + 1 <= Len(q)
               PROVE  CodeBytes(p \o Q(k + 1)) = CodeBytes(p) + CodeBytes(Q(k + 1))
    OBVIOUS
  <2>1. k \in 0 .. Len(q) /\ k + 1 \in 1 .. Len(q) /\ k <= Len(q)
    OBVIOUS
  <2>2. PICK op \in Operations : op = q[k + 1]
    BY <2>1
  <2>3. PICK x \in Seq(Operations) : x = Q(k)
    BY <2>1, Part
  <2>4. Q(k + 1) = x \o <<op>>
    BY <2>1, <2>2, <2>3
  <2>5. <<op>> \in Seq(Operations) /\ p \o x \in Seq(Operations)
    OBVIOUS
  <2>6. p \o (x \o <<op>>) = (p \o x) \o <<op>>
    BY <2>5, Joined3
  <2>7. CodeBytes((p \o x) \o <<op>>) = CodeBytes(p \o x) + OpBytes(op)
    BY <2>5, OneMore
  <2>8. CodeBytes(x \o <<op>>) = CodeBytes(x) + OpBytes(op)
    BY OneMore
  <2>9. CodeBytes(p \o x) = CodeBytes(p) + CodeBytes(x)
    BY <1>3, <2>1, <2>3
  <2>10. CodeBytes(x) \in Nat /\ OpBytes(op) \in Nat
    BY BytesTyped, OpTakes
  <2> DEFINE v == CodeBytes(p)
             w == CodeBytes(x)
             z == OpBytes(op)
  <2>11. v \in Nat /\ w \in Nat /\ z \in Nat
    BY <1>1, <2>10
  <2>12. CodeBytes(p \o Q(k + 1)) = (v + w) + z /\ CodeBytes(Q(k + 1)) = w + z
    BY <2>4, <2>6, <2>7, <2>8, <2>9, Zenon
  <2> HIDE DEF v, w, z
  <2>13. (v + w) + z = v + (w + z)
    BY <2>11
  <2>14. CodeBytes(p \o Q(k + 1)) = v + CodeBytes(Q(k + 1))
    BY <2>12, <2>13, Zenon
  <2> QED
    BY <2>14 DEF v
<1>4. Len(q) \in Nat /\ Q(Len(q)) = q
  BY Part
<1>5. Nat \subseteq U
  <2> HIDE DEF U
  <2> QED
    BY <1>2, <1>3, NatSet
<1>6. \A k \in Nat : k <= Len(q) => CodeBytes(p \o Q(k)) = CodeBytes(p) + CodeBytes(Q(k))
  BY <1>5
<1>7. Len(q) <= Len(q)
  BY <1>4
<1> HIDE DEF Q, U
<1>8. CodeBytes(p \o Q(Len(q))) = CodeBytes(p) + CodeBytes(Q(Len(q)))
  BY <1>4, <1>6, <1>7, Zenon
<1> QED
  BY <1>4, <1>8, Zenon

LEMMA BytesOfOne ==
  ASSUME NEW op \in Operations
  PROVE  CodeBytes(<<op>>) = OpBytes(op) /\ OpBytes(op) \in Nat
<1>1. <<>> \in Seq(Operations) /\ <<>> \o <<op>> = <<op>>
  OBVIOUS
<1>2. CodeBytes(<<>> \o <<op>>) = CodeBytes(<<>>) + OpBytes(op)
  BY <1>1, OneMore
<1>3. OpBytes(op) \in Nat
  BY OpTakes
<1> QED
  BY <1>1, <1>2, <1>3, BytesOfNone

LEMMA BytesOfTwo ==
  ASSUME NEW x \in Seq(Operations), Len(x) \in {1, 2}
  PROVE  CodeBytes(x) = BytesOf(x)
<1>1. CASE Len(x) = 1
  <2>1. x[1] \in Operations /\ x = <<x[1]>>
    BY <1>1, OneOrTwo
  <2>2. PICK op \in Operations : op = x[1]
    BY <2>1
  <2>3. CodeBytes(<<op>>) = OpBytes(op)
    BY BytesOfOne
  <2> QED
    BY <1>1, <2>1, <2>2, <2>3 DEF BytesOf
<1>2. CASE Len(x) = 2
  <2>1. x[1] \in Operations /\ x[2] \in Operations /\ x = <<x[1]>> \o <<x[2]>>
    BY <1>2, OneOrTwo
  <2>2. PICK a \in Operations : a = x[1]
    BY <2>1
  <2>3. PICK b \in Operations : b = x[2]
    BY <2>1
  <2>4. CodeBytes(<<a>>) = OpBytes(a) /\ <<a>> \in Seq(Operations)
    BY BytesOfOne, OneOp
  <2>5. CodeBytes(<<a>> \o <<b>>) = OpBytes(a) + OpBytes(b)
    BY <2>4, OneMore
  <2>6. BytesOf(x) = OpBytes(x[1]) + OpBytes(x[2])
    BY <1>2 DEF BytesOf
  <2> QED
    BY <2>1, <2>2, <2>3, <2>5, <2>6
<1> QED
  BY <1>1, <1>2

\* What is in front of the literals does not depend on them.
LEMMA HeadOfLiteral ==
  ASSUME NEW field, NEW off, NEW lits, NEW off2, NEW lits2
  PROVE  HeadBytes(Op("literal", field, off, lits)) = HeadBytes(Op("repeat", field, off2, lits2))
<1> DEFINE a == Op("literal", field, off, lits)
           b == Op("repeat", field, off2, lits2)
<1>1. a.tag = "literal" /\ b.tag = "repeat" /\ a.code = field.code /\ b.code = field.code
  BY DEF Op
<1> HIDE DEF a, b
<1>2. Inline(a.tag) = LitInline /\ Inline(b.tag) = LitInline
  BY <1>1 DEF Inline
<1>3. ExtraBytes(a) = IF field.code < LitInline THEN 0 ELSE field.code - LitInline + 1
  BY <1>1, <1>2 DEF ExtraBytes
<1>4. ExtraBytes(b) = IF field.code < LitInline THEN 0 ELSE field.code - LitInline + 1
  BY <1>1, <1>2 DEF ExtraBytes
<1>5. HeadBytes(a) = ExtraBytes(a) + 1 /\ HeadBytes(b) = ExtraBytes(b) + 1
  BY <1>1 DEF HeadBytes
<1>6. HeadBytes(a) = HeadBytes(b)
  BY <1>3, <1>4, <1>5, Zenon
<1> QED
  BY <1>6 DEF a, b

LEMMA HeadOfCopy3 ==
  ASSUME NEW field, NEW off, NEW lits
  PROVE  HeadBytes(Op("copy3", field, off, lits)) = HeadBytes(Op("copy3", field, off, <<>>))
<1> DEFINE a == Op("copy3", field, off, lits)
           b == Op("copy3", field, off, <<>>)
<1>1. a.tag = "copy3" /\ b.tag = "copy3" /\ a.code = field.code /\ b.code = field.code
  BY DEF Op
<1> HIDE DEF a, b
<1>2. Inline(a.tag) = CopyInline + 1 /\ Inline(b.tag) = CopyInline + 1
  BY <1>1 DEF Inline
<1>3. ExtraBytes(a) = IF field.code < CopyInline + 1 THEN 0 ELSE field.code - (CopyInline + 1) + 1
  BY <1>1, <1>2 DEF ExtraBytes
<1>4. ExtraBytes(b) = IF field.code < CopyInline + 1 THEN 0 ELSE field.code - (CopyInline + 1) + 1
  BY <1>1, <1>2 DEF ExtraBytes
<1>5. HeadBytes(a) = ExtraBytes(a) + 4 /\ HeadBytes(b) = ExtraBytes(b) + 4
  BY <1>1 DEF HeadBytes
<1>6. HeadBytes(a) = HeadBytes(b)
  BY <1>3, <1>4, <1>5, Zenon
<1> QED
  BY <1>6 DEF a, b

\* The bytes in front of n literals, and a repeat of n.
LEMMA RepeatBytes ==
  ASSUME NEW n \in 1 .. Room3
  PROVE  CodeBytes(EmitRepeat(n)) = EmitRepeatSize(n) /\ EmitRepeatSize(n) \in Nat
<1> DEFINE op == Op("repeat", LitField(n), 0, <<>>)
<1>1. Room3 \in Nat /\ n \in Nat \ {0}
  BY LengthAssumption
<1>2. EmitRepeat(n) \in Seq(Operations)
  BY <1>1, RepeatTyped
<1>3. EmitRepeat(n) = <<op>>
  BY DEF EmitRepeat
<1>4. OpBytes(op) = EmitRepeatSize(n)
  BY RepeatSize
<1> HIDE DEF op
<1>5. op \in Operations
  BY <1>2, <1>3
<1> QED
  BY <1>3, <1>4, <1>5, BytesOfOne

LEMMA LiteralBytes ==
  ASSUME NEW lits \in Seq(Bytes), NEW n \in Nat, n = Len(lits), n <= Room3
  PROVE  CodeBytes(EmitLiteral(lits)) = n + EmitRepeatSize(n) /\ EmitRepeatSize(n) \in Nat
<1>1. CASE n = 0
  <2>1. lits = <<>>
    <3>1. Len(lits) = 0
      BY <1>1
    <3> QED
      BY <3>1
  <2>2. EmitLiteral(lits) = <<>> /\ EmitRepeatSize(0) = 0
    BY <2>1 DEF EmitLiteral, EmitRepeatSize
  <2> QED
    BY <1>1, <2>2, BytesOfNone
<1>2. CASE n # 0
  <2> DEFINE op == Op("literal", LitField(n), 0, lits)
             rep == Op("repeat", LitField(n), 0, <<>>)
  <2>1. n \in 1 .. Room3 /\ lits # <<>> /\ n \in Nat \ {0}
    BY <1>2, LengthAssumption
  <2>2. EmitLiteral(lits) = <<op>> /\ EmitLiteral(lits) \in Seq(Operations)
    BY <2>1, LiteralTyped DEF EmitLiteral
  <2>3. EmitRepeat(n) = <<rep>> /\ EmitRepeat(n) \in Seq(Operations)
    BY <2>1, RepeatTyped DEF EmitRepeat
  <2>4. HeadBytes(op) = HeadBytes(rep)
    BY HeadOfLiteral
  <2>5. OpBytes(rep) = EmitRepeatSize(n)
    BY <2>1, RepeatSize
  <2>6. op.lits = lits /\ rep.lits = <<>>
    BY DEF Op
  <2> HIDE DEF op, rep
  <2>7. op \in Operations /\ rep \in Operations
    BY <2>2, <2>3
  <2>8. HeadBytes(rep) \in 1 .. 7 /\ OpBytes(op) = HeadBytes(op) + n
    BY <2>6, <2>7, OpTakes
  <2>9. OpBytes(rep) = HeadBytes(rep) + 0
    BY <2>6, <2>7, NoLits, OpTakes
  <2>10. CodeBytes(<<op>>) = OpBytes(op)
    BY <2>7, BytesOfOne
  <2> HIDE DEF Inline
  <2> QED
    BY <2>2, <2>4, <2>5, <2>8, <2>9, <2>10
<1> QED
  BY <1>1, <1>2

\* emitCopy writes what emitCopySize says.
LEMMA CopyBytes ==
  ASSUME NEW off \in Nat \ {0}, NEW n \in Lengths
  PROVE  CodeBytes(EmitCopy(off, n)) = EmitCopySize(off, n)
<1>1. n \in Nat /\ n >= MinMatch
  BY LengthAssumption DEF Lengths, MinMatch
<1>2. EmitCopy(off, n) \in Seq(Operations)
  BY <1>1, CopyTyped
<1>3. Len(EmitCopy(off, n)) \in {1, 2}
  <2> DEFINE r == Op("repeat", LitField(n - Copy1Max), 0, <<>>)
             field == LengthField(n - MinMatch, Copy1Inline, Copy1Inline - 1)
             short == Op("copy1", field, off - 1, <<>>)
             long == Op("copy1", [code |-> Copy1Inline - 1, ext |-> 0], off - 1, <<>>)
             two == Op("copy2", CopyField(n), (off - MinCopy2Offset) % Copy2Offsets, <<>>)
             three == Op("copy3", CopyField(n), (off - MinCopy3Offset) % Copy3Offsets, <<>>)
  <2>1. EmitCopy(off, n) \in {<<three>>, <<two>>, <<short>>, <<long>> \o <<r>>}
    BY Zenon DEF EmitCopy, EncodeCopy2, EncodeCopy3, EmitRepeat
  <2> HIDE DEF r, short, long, two, three
  <2>2. \A x, y : Len(<<x>>) = 1 /\ Len(<<x>> \o <<y>>) = 2
    OBVIOUS
  <2> QED
    BY <2>1, <2>2, Zenon
<1> DEFINE x == EmitCopy(off, n)
<1>4. BytesOf(x) = EmitCopySize(off, n)
  BY CopySizeExact
<1> HIDE DEF x
<1>5. x \in Seq(Operations) /\ Len(x) \in {1, 2}
  BY <1>2, <1>3 DEF x
<1>6. CodeBytes(x) = BytesOf(x)
  BY <1>5, BytesOfTwo
<1> QED
  BY <1>4, <1>6 DEF x

\* A fused copy: three bytes, the literals, and a repeat for what its length has
\* no room for.
LEMMA Fused2Bytes ==
  ASSUME NEW off \in Nat, off >= MinCopy2Offset, NEW n \in Nat, n >= MinMatch, n <= Room3,
         NEW lits \in Seq(Bytes), Len(lits) \in 1 .. MaxCopy2Lits
  PROVE  CodeBytes(EmitCopyLits2(lits, off, n)) = 3 + Len(lits) + EmitRepeatSize(n - Copy2LitMaxLen)
<1> DEFINE field == (off - MinCopy2Offset) % Copy2Offsets
           Fused(c) == Op("fused2", [code |-> c, ext |-> 0], field, lits)
           k == Len(lits)
           ops == EmitCopyLits2(lits, off, n)
<1>1. ops \in Seq(Operations) /\ FusedInline \in Nat /\ Room3 \in Nat
  BY Fused2Typed, LengthAssumption
<1>2. k \in Nat
  OBVIOUS
<1>3. ASSUME NEW c, Fused(c) \in Operations PROVE CodeBytes(<<Fused(c)>>) = 3 + k
  <2> DEFINE op == Fused(c)
  <2>1. op.tag = "fused2" /\ op.lits = lits /\ op \in Operations
    BY <1>3 DEF Op
  <2> HIDE DEF op
  <2>2. OpBytes(op) = 3 + k
    BY <2>1, OpTakes
  <2>3. CodeBytes(<<op>>) = OpBytes(op)
    BY <2>1, BytesOfOne
  <2> QED
    BY <2>2, <2>3 DEF op
<1>4. CASE n > Copy2LitMaxLen
  <2> DEFINE op == Fused(FusedInline)
             r == n - Copy2LitMaxLen
  <2>1. ops = <<op>> \o EmitRepeat(r)
    BY <1>4 DEF EmitCopyLits2, Op
  <2>2. r \in 1 .. Room3
    BY <1>1, <1>4 DEF Copy2LitMaxLen
  <2> HIDE DEF r
  <2>3. CodeBytes(EmitRepeat(r)) = EmitRepeatSize(r) /\ EmitRepeat(r) \in Seq(Operations)
    <3>1. r \in Nat \ {0}
      BY <2>2
    <3> QED
      BY <2>2, <3>1, RepeatBytes, RepeatTyped
  <2>4. op \in Operations
    <3>1. ops[1] = op
      <4>1. ops = <<op>> \o EmitRepeat(r) /\ EmitRepeat(r) \in Seq(Operations)
        BY <2>1, <2>3
      <4> HIDE DEF ops, op
      <4> QED
        BY <4>1
    <3>2. Len(ops) >= 1
      <4>1. ops = <<op>> \o EmitRepeat(r) /\ EmitRepeat(r) \in Seq(Operations)
        BY <2>1, <2>3
      <4> HIDE DEF ops, op
      <4> QED
        BY <4>1
    <3> HIDE DEF ops, op
    <3> QED
      BY <1>1, <3>1, <3>2
  <2>5. CodeBytes(<<op>>) = 3 + k
    BY <1>3, <2>4
  <2> HIDE DEF op
  <2>6. CodeBytes(<<op>> \o EmitRepeat(r)) = CodeBytes(<<op>>) + CodeBytes(EmitRepeat(r))
    BY <2>3, <2>4, OneOp, BytesJoin
  <2>7. CodeBytes(ops) = (3 + k) + EmitRepeatSize(r)
    BY <2>1, <2>3, <2>5, <2>6, Zenon
  <2> QED
    BY <2>7 DEF r
<1>5. CASE ~(n > Copy2LitMaxLen)
  <2> DEFINE op == Fused(n - MinMatch)
  <2>1. ops = <<op>>
    BY <1>5 DEF EmitCopyLits2, Op
  <2>2. op \in Operations
    <3> HIDE DEF ops, op
    <3>1. <<op>> \in Seq(Operations)
      BY <1>1, <2>1
    <3> QED
      BY <3>1
  <2>3. CodeBytes(<<op>>) = 3 + k
    BY <1>3, <2>2
  <2>4. EmitRepeatSize(n - Copy2LitMaxLen) = 0
    <3>1. n - Copy2LitMaxLen <= 0
      BY <1>1, <1>5 DEF Copy2LitMaxLen
    <3> QED
      BY <3>1 DEF EmitRepeatSize
  <2> HIDE DEF op
  <2> QED
    BY <1>2, <2>1, <2>3, <2>4
<1> QED
  BY <1>4, <1>5

LEMMA Fused3Bytes ==
  ASSUME NEW off \in Nat, off > MaxCopy2Offset, NEW n \in Lengths,
         NEW lits \in Seq(Bytes), Len(lits) \in 0 .. MaxCopy3Lits
  PROVE  CodeBytes(EmitCopyLits3(lits, off, n)) = EmitCopySize(off, n) + Len(lits)
<1> DEFINE field == (off - MinCopy3Offset) % Copy3Offsets
           f == CopyField(n)
           op == Op("copy3", f, field, lits)
           bare == Op("copy3", f, field, <<>>)
           k == Len(lits)
<1>1. n \in Nat /\ n >= MinMatch
  BY LengthAssumption DEF Lengths, MinMatch
<1>2. off >= MinCopy3Offset /\ off \in Nat \ {0}
  BY OffsetAssumption DEF MaxCopy2Offset
<1>3. EmitCopyLits3(lits, off, n) = <<op>> /\ EmitCopy(off, n) = <<bare>>
  BY DEF EmitCopyLits3, EncodeCopy3, EmitCopy
<1>4. <<op>> \in Seq(Operations)
  <2>1. EncodeCopy3(off, n, lits) \in Seq(Operations)
    BY <1>1, <1>2, Copy3Typed
  <2> QED
    BY <2>1 DEF EncodeCopy3
<1>5. <<bare>> \in Seq(Operations)
  <2>1. EmitCopy(off, n) \in Seq(Operations)
    BY <1>1, <1>2, CopyTyped
  <2> HIDE DEF bare
  <2> QED
    BY <1>3, <2>1
<1>6. HeadBytes(op) = HeadBytes(bare)
  BY HeadOfCopy3
<1>7. CodeBytes(EmitCopy(off, n)) = EmitCopySize(off, n)
  BY <1>2, CopyBytes
<1>8. op.lits = lits /\ bare.lits = <<>>
  BY DEF Op
<1>9. k \in Nat
  OBVIOUS
<1> HIDE DEF op, bare
<1>10. op \in Operations /\ bare \in Operations
  BY <1>4, <1>5
<1>11. CodeBytes(<<op>>) = OpBytes(op) /\ CodeBytes(<<bare>>) = OpBytes(bare)
  BY <1>10, BytesOfOne
<1>12. OpBytes(op) = HeadBytes(op) + k /\ HeadBytes(op) \in 1 .. 7
  BY <1>8, <1>10, OpTakes
<1>13. OpBytes(bare) = HeadBytes(bare) + 0 /\ HeadBytes(bare) \in 1 .. 7
  BY <1>8, <1>10, NoLits, OpTakes
<1> DEFINE h == HeadBytes(bare)
           size == EmitCopySize(off, n)
<1>14. h \in 1 .. 7 /\ size = h + 0 /\ CodeBytes(<<op>>) = h + k
  BY <1>3, <1>6, <1>7, <1>11, <1>12, <1>13, Zenon
<1> HIDE DEF h, size
<1>15. CodeBytes(<<op>>) = size + k
  BY <1>9, <1>14
<1> QED
  BY <1>3, <1>15 DEF size

\* The values of the code (asm_none.go, encode.go, internal/reference).
FormatWidths ==
  /\ LitInline = 29 /\ Copy1Inline = 15 /\ CopyInline = 60 /\ FusedInline = 7
  /\ Room1 = 256 /\ Room2 = 65536 /\ Room3 = 16777216
  /\ MaxCopy1Offset = 1024 /\ MinCopy2Offset = 64 /\ Copy2Offsets = 65536
  /\ MinCopy3Offset = 65536 /\ Copy3Offsets = 2097152
  /\ MaxCopy2Lits = 4 /\ MaxCopy3Lits = 3
  /\ SmallBlock = 65536 /\ Saving = 32

\* The bytes in front of n literals and of a repeat of n, behind a fused copy of
\* n, and of a copy of n.
Extra(n) == IF n <= 0 THEN 0 ELSE IF n <= 29 THEN 1 ELSE IF n <= 285 THEN 2 ELSE IF n <= 65565 THEN 3 ELSE 4
FusedExtra(n) == IF n <= 11 THEN 0 ELSE IF n <= 40 THEN 1 ELSE IF n <= 296 THEN 2 ELSE IF n <= 65576 THEN 3 ELSE 4
CopyExtra(off, n) ==
  IF off > 65599 THEN IF n <= 64 THEN 4 ELSE IF n < 320 THEN 5 ELSE IF n < 65600 THEN 6 ELSE 7
  ELSE IF off > 1024 THEN IF n <= 64 THEN 3 ELSE IF n < 320 THEN 4 ELSE IF n < 65600 THEN 5 ELSE 6
  ELSE IF n <= 18 THEN 2 ELSE IF n < 274 THEN 3 ELSE 2 + Extra(n - 18)

LEMMA WidthsAre ==
  ASSUME FormatWidths
  PROVE  /\ \A n \in Int : EmitRepeatSize(n) = Extra(n)
         /\ \A n \in Int : EmitRepeatSize(n - Copy2LitMaxLen) = FusedExtra(n)
         /\ \A off \in Int, n \in Int : EmitCopySize(off, n) = CopyExtra(off, n)
         /\ MaxCopy2Offset = 65599 /\ MaxCopy3Offset = 2162687 /\ Copy2LitMaxLen = 11 /\ Copy1Max = 18
<1>1. MaxCopy2Offset = 65599 /\ MaxCopy3Offset = 2162687 /\ Copy2LitMaxLen = 11 /\ Copy1Max = 18
  BY DEF FormatWidths, MaxCopy2Offset, MaxCopy3Offset, Copy2LitMaxLen, Copy1Max
<1>2. ASSUME NEW n \in Int PROVE EmitRepeatSize(n) = Extra(n)
  BY DEF FormatWidths, EmitRepeatSize, Extra
<1>3. ASSUME NEW off \in Int, NEW n \in Int PROVE EmitCopySize(off, n) = CopyExtra(off, n)
  <2>1. EmitRepeatSize(n - 18) = Extra(n - 18)
    <3>1. n - 18 \in Int
      OBVIOUS
    <3> QED
      BY <1>2, <3>1
  <2>2. EmitCopy2Size(n) = IF n <= 64 THEN 3 ELSE IF n < 320 THEN 4 ELSE IF n < 65600 THEN 5 ELSE 6
    BY DEF FormatWidths, EmitCopy2Size, MinMatch
  <2>3. CASE off > 65599
    BY <1>1, <2>3 DEF FormatWidths, EmitCopySize, CopyExtra, MinMatch
  <2>4. CASE off <= 65599 /\ off > 1024
    BY <1>1, <2>2, <2>4 DEF FormatWidths, EmitCopySize, CopyExtra
  <2>5. CASE off <= 1024
    <3>1. ~(off > 65599) /\ ~(off > 1024)
      BY <2>5
    <3>2. EmitCopySize(off, n) = IF n <= 18 THEN 2 ELSE IF n < 274 THEN 3 ELSE 2 + EmitRepeatSize(n - 18)
      BY <1>1, <3>1 DEF FormatWidths, EmitCopySize
    <3> QED
      BY <2>1, <3>1, <3>2 DEF CopyExtra
  <2> QED
    BY <2>3, <2>4, <2>5
<1>4. ASSUME NEW n \in Int PROVE EmitRepeatSize(n - Copy2LitMaxLen) = FusedExtra(n)
  <2>1. n - 11 \in Int
    OBVIOUS
  <2>2. EmitRepeatSize(n - 11) = Extra(n - 11)
    BY <1>2, <2>1
  <2>3. Extra(n - 11) = FusedExtra(n)
    BY DEF Extra, FusedExtra
  <2> QED
    BY <1>1, <2>2, <2>3
<1> QED
  BY <1>1, <1>2, <1>3, <1>4

\* Whatever the widths are.
LEMMA CostsAre ==
  /\ \A n \in Int : EmitRepeatSize(n) \in 0 .. 4 /\ (n <= 0 => EmitRepeatSize(n) = 0)
  /\ \A off \in Int, n \in Int : EmitCopySize(off, n) \in 2 .. 7
<1> USE LengthAssumption, OffsetAssumption
<1>1. ASSUME NEW n \in Int PROVE EmitRepeatSize(n) \in 0 .. 4 /\ (n <= 0 => EmitRepeatSize(n) = 0)
  BY DEF EmitRepeatSize
<1>2. ASSUME NEW off \in Int, NEW n \in Int PROVE EmitCopySize(off, n) \in 2 .. 7
  <2> DEFINE m == n - Copy1Max
             r == EmitRepeatSize(m)
             t == EmitCopy2Size(n)
  <2>1. m \in Int
    BY DEF Copy1Max
  <2> HIDE DEF m
  <2>2. r \in 0 .. 4
    BY <1>1, <2>1
  <2>3. t \in 3 .. 6
    BY DEF EmitCopy2Size
  <2> HIDE DEF r, t
  <2>4. CASE off > MaxCopy2Offset
    BY <2>4 DEF EmitCopySize
  <2>5. CASE ~(off > MaxCopy2Offset) /\ off > MaxCopy1Offset
    <3>1. EmitCopySize(off, n) = t
      BY <2>5 DEF EmitCopySize, t
    <3> QED
      BY <2>3, <3>1
  <2>6. CASE ~(off > MaxCopy2Offset) /\ ~(off > MaxCopy1Offset)
    <3>1. EmitCopySize(off, n) \in {2, 3} \/ EmitCopySize(off, n) = 2 + r
      BY <2>6, Zenon DEF EmitCopySize, r, m
    <3> QED
      BY <2>2, <3>1
  <2> QED
    BY <2>4, <2>5, <2>6
<1> QED
  BY <1>1, <1>2

\* Literals, and something behind them.
LEMMA SplitBytes ==
  ASSUME EncoderTyped, NEW b \in nextEmit .. Size, NEW x \in Seq(Operations)
  PROVE  CodeBytes(EmitLiteral(Slice(nextEmit, b)) \o x)
           = ((b - nextEmit) + EmitRepeatSize(b - nextEmit)) + CodeBytes(x)
<1>1. Size \in Nat /\ nextEmit \in Nat /\ b \in Nat /\ b - nextEmit \in Nat
  BY DEF EncoderTyped, Size
<1> DEFINE lits == Slice(nextEmit, b)
           k == b - nextEmit
           lit == EmitLiteral(lits)
<1>2. lits \in Seq(Bytes) /\ Len(lits) = k /\ Len(lits) <= Room3 /\ lit \in Seq(Operations) /\ k \in Nat
  BY <1>1, SliceTyped
<1> HIDE DEF lits, k
<1>3. k <= Room3 /\ k = Len(lits)
  BY <1>2
<1>4. CodeBytes(lit) = k + EmitRepeatSize(k)
  BY <1>2, <1>3, LiteralBytes
<1> HIDE DEF lit
<1>5. CodeBytes(lit \o x) = CodeBytes(lit) + CodeBytes(x)
  BY <1>2, BytesJoin
<1>6. CodeBytes(lit \o x) = (k + EmitRepeatSize(k)) + CodeBytes(x)
  BY <1>4, <1>5, Zenon
<1> QED
  BY <1>6 DEF lit, lits, k

\* A fused copy, or literals and a copy of its own.
LEMMA EmitMatchBytes ==
  ASSUME EncoderTyped, level # "best", NEW b \in nextEmit .. Size, NEW off \in 1 .. b, NEW n \in Nat, n >= 4,
         b + n <= Size
  PROVE  LET v == CodeBytes(EmitMatch(Slice(nextEmit, b), off, n))
             k == b - nextEmit
         IN  IF Fuses(Slice(nextEmit, b), off, n)
             THEN /\ k \in 1 .. 4
                  /\ v = IF off <= MaxCopy2Offset THEN 3 + k + EmitRepeatSize(n - Copy2LitMaxLen)
                         ELSE EmitCopySize(off, n) + k
             ELSE v = (k + EmitRepeatSize(k)) + EmitCopySize(off, n)
<1> USE LengthAssumption, OffsetAssumption
<1> DEFINE lits == Slice(nextEmit, b)
           ops == EmitMatch(lits, off, n)
           k == b - nextEmit
<1>1. /\ Size \in Nat /\ nextEmit \in Nat /\ b \in Nat /\ k \in Nat /\ off \in Nat \ {0} /\ Size <= Room3 /\ n \in Lengths
      /\ n >= MinMatch /\ n <= Room3
  <2>1. Size \in Nat /\ nextEmit \in Nat /\ Size <= Room3
    BY DEF EncoderTyped, Size
  <2> HIDE OffsetAssumption DEF lits, ops, k
  <2>2. b \in Nat /\ b >= nextEmit /\ b <= Size /\ off \in Nat \ {0} /\ n <= Room3
    BY <2>1
  <2>3. k \in Nat
    BY <2>1, <2>2 DEF k
  <2> QED
    BY <2>1, <2>2, <2>3 DEF Lengths, MinMatch
<1>2. lits \in Seq(Bytes) /\ Len(lits) = k
  BY SliceTyped
<1>3. (lits # <<>> => k \in Nat \ {0}) /\ k \in Nat
  BY <1>1, <1>2
<1>4. MaxCopy2Offset \in Nat
  BY DEF MaxCopy2Offset
<1> DEFINE most == MaxLits(off)
<1>5. most \in {MaxCopy2Lits, MaxCopy3Lits} /\ (off > MaxCopy2Offset => most = MaxCopy3Lits)
      /\ MaxCopy3Lits \in 1 .. 3 /\ MaxCopy2Lits \in MaxCopy3Lits .. 4
  BY DEF MaxLits
<1>6. Emitted(lits, off, n) = n
  BY DEF Emitted
<1> HIDE DEF lits, k, most
<1>7. CASE Fuses(lits, off, n) /\ off <= MaxCopy2Offset
  <2>1. ops = EmitCopyLits2(lits, off, n)
    BY <1>6, <1>7 DEF EmitMatch
  <2>2. off >= MinCopy2Offset /\ lits # <<>> /\ k <= most
    BY <1>2, <1>7 DEF Fuses, most
  <2>3. k \in 1 .. MaxCopy2Lits /\ k \in 1 .. 4
    <3> HIDE DEF ops
    <3>1. k \in Nat \ {0}
      BY <1>3, <2>2
    <3> QED
      BY <1>5, <2>2, <3>1
  <2>4. Len(lits) \in 1 .. MaxCopy2Lits
    BY <1>2, <2>3
  <2>5. CodeBytes(ops) = 3 + Len(lits) + EmitRepeatSize(n - Copy2LitMaxLen)
    <3>1. /\ off \in Nat /\ off >= MinCopy2Offset /\ n \in Nat /\ n >= MinMatch /\ n <= Room3
          /\ lits \in Seq(Bytes) /\ Len(lits) \in 1 .. MaxCopy2Lits
      BY <1>1, <1>2, <2>2, <2>4
    <3> HIDE LengthAssumption, OffsetAssumption DEF ops
    <3>2. CodeBytes(EmitCopyLits2(lits, off, n)) = 3 + Len(lits) + EmitRepeatSize(n - Copy2LitMaxLen)
      BY <3>1, Fused2Bytes
    <3> QED
      BY <2>1, <3>2, Zenon
  <2> QED
    BY <1>2, <1>7, <2>3, <2>5 DEF lits, k
<1>8. CASE Fuses(lits, off, n) /\ off > MaxCopy2Offset
  <2>1. ops = EmitCopyLits3(lits, off, n)
    <3>1. ~(off <= MaxCopy2Offset)
      BY <1>1, <1>4, <1>8
    <3> QED
      BY <1>8, <3>1, Zenon DEF EmitMatch
  <2>2. lits # <<>> /\ k <= most
    BY <1>2, <1>8 DEF Fuses, most
  <2>4. k \in 0 .. MaxCopy3Lits /\ k \in 1 .. 3
    <3> HIDE DEF ops
    <3>1. k \in Nat \ {0} /\ most = MaxCopy3Lits
      BY <1>3, <1>5, <1>8, <2>2
    <3> QED
      BY <1>5, <2>2, <3>1
  <2>5. Len(lits) \in 0 .. MaxCopy3Lits
    BY <1>2, <2>4
  <2>6. CodeBytes(ops) = EmitCopySize(off, n) + Len(lits)
    <3>1. /\ off \in Nat /\ off > MaxCopy2Offset /\ n \in Lengths
          /\ lits \in Seq(Bytes) /\ Len(lits) \in 0 .. MaxCopy3Lits
      BY <1>1, <1>2, <1>8, <2>5
    <3> HIDE LengthAssumption, OffsetAssumption DEF ops
    <3>2. CodeBytes(EmitCopyLits3(lits, off, n)) = EmitCopySize(off, n) + Len(lits)
      BY <3>1, Fused3Bytes
    <3> QED
      BY <2>1, <3>2, Zenon
  <2> QED
    <3>1. CodeBytes(ops) = EmitCopySize(off, n) + k /\ k \in 1 .. 4
      BY <1>2, <2>4, <2>6
    <3>2. ~(off <= MaxCopy2Offset)
      BY <1>1, <1>4, <1>8
    <3> QED
      BY <1>8, <3>1, <3>2, Zenon DEF lits, k
<1>9. CASE ~Fuses(lits, off, n)
  <2> DEFINE x == EmitCopy(off, n)
  <2>1. ops = EmitLiteral(lits) \o x
    BY <1>9 DEF EmitMatch, PrefersCopy2
  <2>2. x \in Seq(Operations)
    BY <1>1, CopyTyped
  <2>3. CodeBytes(x) = EmitCopySize(off, n)
    BY <1>1, CopyBytes
  <2> HIDE DEF x
  <2>4. CodeBytes(EmitLiteral(lits) \o x) = (k + EmitRepeatSize(k)) + CodeBytes(x)
    BY <2>2, SplitBytes DEF lits, k
  <2>5. CodeBytes(ops) = (k + EmitRepeatSize(k)) + EmitCopySize(off, n)
    BY <2>1, <2>3, <2>4, Zenon
  <2> QED
    BY <1>9, <2>5, Zenon DEF lits, k
<1>10. off <= MaxCopy2Offset \/ off > MaxCopy2Offset
  BY <1>1, <1>4
<1> QED
  BY <1>7, <1>8, <1>9, <1>10, Zenon

\* The reference encoder: whatever the widths are, at most eleven bytes more than
\* the literals, and no more than eleven if they are part of the copy.
LEMMA RefMatchBytes ==
  ASSUME EncoderTyped, NEW b \in nextEmit .. Size, NEW off \in 1 .. b, NEW n \in Nat, n >= 4,
         b + n <= Size
  PROVE  LET v == CodeBytes(RefEmitMatch(Slice(nextEmit, b), off, n))
         IN  /\ v \in Nat /\ v <= (b - nextEmit) + 11
             /\ RefCanFuse(Slice(nextEmit, b), off) => v <= 11
<1> USE LengthAssumption, OffsetAssumption
<1> DEFINE lits == Slice(nextEmit, b)
           ops == RefEmitMatch(lits, off, n)
           k == b - nextEmit
           v == CodeBytes(ops)
           fuses == RefCanFuse(lits, off)
<1>1. /\ Size \in Nat /\ nextEmit \in Nat /\ b \in Nat /\ k \in Nat /\ off \in Nat \ {0} /\ Size <= Room3 /\ n \in Lengths
      /\ n >= MinMatch /\ n <= Room3 /\ n \in 1 .. Room3
  <2>1. Size \in Nat /\ nextEmit \in Nat /\ Size <= Room3
    BY DEF EncoderTyped, Size
  <2> HIDE OffsetAssumption DEF lits, ops, k, v, fuses
  <2>2. b \in Nat /\ b >= nextEmit /\ b <= Size /\ off \in Nat \ {0} /\ n <= Room3
    BY <2>1
  <2>3. k \in Nat
    BY <2>1, <2>2 DEF k
  <2> QED
    BY <2>1, <2>2, <2>3 DEF Lengths, MinMatch
<1>2. lits \in Seq(Bytes) /\ Len(lits) = k
  BY SliceTyped
<1>3. (lits # <<>> => k \in Nat \ {0}) /\ k \in Nat
  BY <1>1, <1>2
<1>4. MaxCopy2Offset \in Nat /\ MaxCopy3Lits \in 1 .. 3 /\ MaxCopy2Lits \in MaxCopy3Lits .. 4
  BY DEF MaxCopy2Offset
<1> HIDE DEF lits, k
<1>6. fuses => /\ k \in Nat \ {0} /\ off >= MinCopy2Offset
               /\ k <= MaxCopy3Lits \/ (off <= MaxCopy2Offset /\ k <= MaxCopy2Lits)
  BY <1>2, <1>3 DEF RefCanFuse
<1> HIDE DEF fuses
<1>7. CASE fuses /\ off <= MaxCopy2Offset
  <2>1. ops = EmitCopyLits2(lits, off, n)
    BY <1>1, <1>7, RefLits2Same DEF RefEmitMatch, fuses
  <2>2. k \in 1 .. MaxCopy2Lits /\ k \in 1 .. 4 /\ off >= MinCopy2Offset
    <3> HIDE DEF ops, v
    <3> QED
      BY <1>4, <1>6, <1>7
  <2>3. Len(lits) \in 1 .. MaxCopy2Lits
    BY <1>2, <2>2
  <2>4. CodeBytes(EmitCopyLits2(lits, off, n)) = 3 + Len(lits) + EmitRepeatSize(n - Copy2LitMaxLen)
    BY <1>1, <1>2, <2>2, <2>3, Fused2Bytes
  <2> DEFINE r == EmitRepeatSize(n - Copy2LitMaxLen)
  <2>5. r \in 0 .. 4
    <3>1. n - Copy2LitMaxLen \in Int
      BY <1>1 DEF Copy2LitMaxLen
    <3> QED
      BY <3>1, CostsAre
  <2>6. v = 3 + k + r
    BY <1>2, <2>1, <2>4, Zenon
  <2> HIDE DEF v, r
  <2>7. v \in Nat /\ v <= 11 /\ v <= k + 11
    BY <2>2, <2>5, <2>6
  <2> QED
    BY <2>7 DEF lits, k, v
<1>8. CASE fuses /\ ~(off <= MaxCopy2Offset)
  <2>1. ops = RefEmitCopy3(off, n, lits)
    BY <1>8 DEF RefEmitMatch, fuses
  <2>2. RefEmitCopy3(off, n, lits) = EmitCopyLits3(lits, off, n)
    BY <1>1, RefCopyFieldSame DEF RefEmitCopy3, EncodeCopy3, EmitCopyLits3
  <2>3. k \in 1 .. 3 /\ k \in 0 .. MaxCopy3Lits /\ off > MaxCopy2Offset
    <3> HIDE DEF ops, v
    <3> QED
      BY <1>1, <1>4, <1>6, <1>8
  <2>4. Len(lits) \in 0 .. MaxCopy3Lits
    BY <1>2, <2>3
  <2>5. CodeBytes(EmitCopyLits3(lits, off, n)) = EmitCopySize(off, n) + Len(lits)
    BY <1>1, <1>2, <2>3, <2>4, Fused3Bytes
  <2> DEFINE c == EmitCopySize(off, n)
  <2>6. c \in 2 .. 7
    BY <1>1, CostsAre
  <2>7. v = c + k
    BY <1>2, <2>1, <2>2, <2>5, Zenon
  <2> HIDE DEF v, c
  <2>8. v \in Nat /\ v <= 11 /\ v <= k + 11
    BY <2>3, <2>6, <2>7
  <2> QED
    BY <2>8 DEF lits, k, v
<1>9. CASE ~fuses
  <2> DEFINE x == IF off = repeat THEN EmitRepeat(n) ELSE EmitCopy(off, n)
  <2>1. ops = RefEmitLiterals(lits) \o x
    <3>1. EmitCopy(off, n) = IF off <= MaxCopy1Offset THEN RefEmitCopy1(off, n)
                             ELSE IF off <= MaxCopy2Offset THEN RefEmitCopy2(off, n)
                             ELSE RefEmitCopy3(off, n, <<>>)
      BY <1>1, RefCopySame
    <3>2. RefEmitRepeat(n) = EmitRepeat(n)
      BY <1>1, RefRepeatSame
    <3> QED
      BY <1>9, <3>1, <3>2 DEF RefEmitMatch, fuses
  <2>2. RefEmitLiterals(lits) = EmitLiteral(lits)
    BY <1>2, RefLiteralsSame
  <2>3. x \in Seq(Operations) /\ CodeBytes(x) \in 0 .. 7
    <3>1. CASE off = repeat
      <4>1. CodeBytes(EmitRepeat(n)) = EmitRepeatSize(n) /\ EmitRepeat(n) \in Seq(Operations)
        BY <1>1, RepeatBytes, RepeatTyped
      <4>2. EmitRepeatSize(n) \in 0 .. 4
        BY <1>1, CostsAre
      <4> QED
        BY <3>1, <4>1, <4>2
    <3>2. CASE off # repeat
      <4>1. CodeBytes(EmitCopy(off, n)) = EmitCopySize(off, n) /\ EmitCopy(off, n) \in Seq(Operations)
        BY <1>1, CopyBytes, CopyTyped
      <4>2. EmitCopySize(off, n) \in 2 .. 7
        BY <1>1, CostsAre
      <4> QED
        BY <3>2, <4>1, <4>2
    <3> QED
      BY <3>1, <3>2
  <2> HIDE DEF x
  <2>4. CodeBytes(EmitLiteral(lits) \o x) = (k + EmitRepeatSize(k)) + CodeBytes(x)
    BY <2>3, SplitBytes DEF lits, k
  <2> DEFINE r == EmitRepeatSize(k)
             c == CodeBytes(x)
  <2>5. r \in 0 .. 4
    BY <1>3, CostsAre
  <2>6. v = (k + r) + c /\ c \in 0 .. 7
    BY <2>1, <2>2, <2>3, <2>4, Zenon
  <2> HIDE DEF v, r, c
  <2>7. v \in Nat /\ v <= k + 11
    BY <1>3, <2>5, <2>6
  <2> QED
    BY <1>9, <2>7 DEF lits, k, v, fuses
<1> QED
  BY <1>7, <1>8, <1>9 DEF lits, k, v

-----------------------------------------------------------------------------
(* The arithmetic of the limit                                             *)

\* What there is behind the limit lim, in a block of sz bytes with the room room.
Rooms(sz, lim, room) ==
  /\ lim \in Nat /\ room \in Int
  /\ room - lim >= 5 /\ room <= sz - 1 /\ room >= sz - 4 /\ (sz < 16384 => room >= sz - 2)
  /\ sz < 128 => room = sz - 1
  /\ sz >= 320 => room - lim >= 14
  /\ sz >= 357 => room - lim >= 15
  /\ sz >= 613 => room - lim >= 19
  /\ sz >= 16384 => room - lim >= 512

\* In a short block c bytes for the first e of it, and what they are in a long
\* one above the limit while the search goes on.
Behind(sz, e, c) == sz < 320 => c <= e + 1 /\ (e < 290 => c <= e)
Slack(e) == IF e < 316 THEN 4 ELSE IF e < 65536 THEN 6 ELSE 8

LEMMA UnfusedFits ==
  ASSUME NEW sz \in Nat, NEW e \in Nat, NEW k \in Nat, NEW n \in Nat, n >= 4, NEW off \in 1 .. e + k,
         NEW c \in Nat, NEW lim, NEW room, Rooms(sz, lim, room), e + k + n <= sz, e + k <= sz - 8,
         Behind(sz, e, c),
         sz >= 320 => c + k <= lim \/ c + k + n <= lim \/ (k = 0 /\ c <= lim + Slack(e)),
         NEW v, v = (k + Extra(k)) + CopyExtra(off, n)
  PROVE  v \in Nat /\ c + v <= room /\ Behind(sz, e + k + n, c + v)
<1>1. CASE sz < 320
  <2>1. off <= 1024
    BY <1>1
  <2>2. CopyExtra(off, n) = IF n <= 18 THEN 2 ELSE IF n < 274 THEN 3 ELSE IF n <= 303 THEN 4 ELSE 5
    BY <1>1, <2>1 DEF CopyExtra, Extra
  <2>3. Extra(k) = IF k = 0 THEN 0 ELSE IF k <= 29 THEN 1 ELSE IF k <= 285 THEN 2 ELSE 3
    BY <1>1 DEF Extra
  <2> QED
    BY <1>1, <2>2, <2>3 DEF Rooms, Behind
<1>2. CASE sz >= 320
  <2>1. Extra(k) \in 0 .. 4 /\ (k = 0 => Extra(k) = 0)
    BY DEF Extra
  <2>2. CopyExtra(off, n) \in 2 .. 7 /\ CopyExtra(off, n) <= n
    BY DEF CopyExtra, Extra
  <2>3. sz >= 613 \/ Slack(e) <= 6
    BY DEF Slack
  <2> QED
    BY <1>2, <2>1, <2>2 DEF Rooms, Behind, Slack
<1> QED
  BY <1>1, <1>2

LEMMA Fused2Fits ==
  ASSUME NEW sz \in Nat, NEW e \in Nat, NEW k \in Nat, k >= 1, k <= 4, NEW n \in Nat, n >= 4, NEW off \in 1 .. e + k,
         NEW c \in Nat, NEW lim, NEW room, Rooms(sz, lim, room), e + k + n <= sz, e + k <= sz - 8,
         Behind(sz, e, c), sz >= 320 => c + k <= lim \/ c <= lim + Slack(e),
         NEW v, v = 3 + k + FusedExtra(n)
  PROVE  v \in Nat /\ c + v <= room /\ Behind(sz, e + k + n, c + v)
BY DEF Rooms, Behind, Slack, FusedExtra

LEMMA Fused3Fits ==
  ASSUME NEW sz \in Nat, NEW e \in Nat, NEW k \in Nat, k >= 1, k <= 4, NEW n \in Nat, n >= 4, NEW off \in 1 .. e + k,
         NEW c \in Nat, NEW lim, NEW room, Rooms(sz, lim, room), e + k + n <= sz, e + k <= sz - 8,
         Behind(sz, e, c), sz >= 320 => c + k <= lim \/ c <= lim + Slack(e),
         off > 65599, NEW v, v = CopyExtra(off, n) + k
  PROVE  v \in Nat /\ c + v <= room /\ Behind(sz, e + k + n, c + v)
<1>1. CopyExtra(off, n) \in 2 .. 7
  BY DEF CopyExtra, Extra
<1> QED
  BY <1>1 DEF Rooms, Behind, Slack

LEMMA RepeatFits ==
  ASSUME NEW sz \in Nat, NEW e \in Nat, NEW k \in Nat, NEW n \in Nat, n >= 4,
         NEW c \in Nat, NEW lim, NEW room, Rooms(sz, lim, room), e + k + n <= sz, e + k <= sz - 8,
         Behind(sz, e, c), c + k <= lim,
         NEW v, v = (k + Extra(k)) + Extra(n)
  PROVE  /\ v \in Nat /\ c + v <= room /\ Behind(sz, e + k + n, c + v)
         /\ sz >= 320 => c + v <= lim + Slack(e + k + n)
<1>1. CASE sz < 320
  <2>1. Extra(n) = IF n <= 29 THEN 1 ELSE IF n <= 285 THEN 2 ELSE 3
    BY <1>1 DEF Extra
  <2>2. Extra(k) = IF k = 0 THEN 0 ELSE IF k <= 29 THEN 1 ELSE IF k <= 285 THEN 2 ELSE 3
    BY <1>1 DEF Extra
  <2> QED
    BY <1>1, <2>1, <2>2 DEF Rooms, Behind
<1>2. CASE sz >= 320
  <2>1. Extra(n) = IF n <= 29 THEN 1 ELSE IF n <= 285 THEN 2 ELSE IF n <= 65565 THEN 3 ELSE 4
    BY DEF Extra
  <2>2. Extra(k) = IF k = 0 THEN 0 ELSE IF k <= 29 THEN 1 ELSE IF k <= 285 THEN 2 ELSE IF k <= 65565 THEN 3 ELSE 4
    BY DEF Extra
  <2> QED
    BY <1>2, <2>1, <2>2 DEF Rooms, Behind, Slack
<1> QED
  BY <1>1, <1>2

LEMMA AgainFits ==
  ASSUME NEW sz \in Nat, NEW e \in Nat, NEW n \in Nat, n >= 4, NEW off \in 1 .. e,
         NEW c \in Nat, NEW lim, NEW room, Rooms(sz, lim, room), e + n <= sz,
         Behind(sz, e, c), c <= lim, NEW v, v = CopyExtra(off, n)
  PROVE  v \in Nat /\ c + v <= room /\ Behind(sz, e + n, c + v)
<1>1. CASE sz < 320
  <2>1. CopyExtra(off, n) = IF n <= 18 THEN 2 ELSE IF n < 274 THEN 3 ELSE IF n <= 303 THEN 4 ELSE 5
    BY <1>1 DEF CopyExtra, Extra
  <2> QED
    BY <1>1, <2>1 DEF Rooms, Behind
<1>2. CASE sz >= 320
  <2>1. CopyExtra(off, n) \in 2 .. 7
    BY DEF CopyExtra, Extra
  <2> QED
    BY <1>2, <2>1 DEF Rooms, Behind
<1> QED
  BY <1>1, <1>2

LEMMA RestFitsIn ==
  ASSUME NEW sz \in Nat, NEW k \in Nat, NEW c \in Nat, NEW lim, NEW room, Rooms(sz, lim, room), c + k <= lim,
         NEW v, v = k + Extra(k)
  PROVE  v \in Nat /\ c + v <= room
<1>1. Extra(k) \in 0 .. 4
  BY DEF Extra
<1> QED
  BY <1>1 DEF Rooms

\* The limit and the room of the first two encoders.
LEMMA RoomIs ==
  ASSUME FormatWidths, EncoderTyped, level # "best", Size >= 16
  PROVE  Rooms(Size, DstLimit, Size - VarintBytes(Size))
<1> DEFINE sz == Size
           q == Size \div 32
           b == VarintBytes(Size)
<1>1. sz \in Nat /\ sz <= 16777216
  BY DEF EncoderTyped, Size, FormatWidths
<1>2. DstLimit = sz - q - 6
  BY DEF DstLimit, FormatWidths
<1>3. q \in Int /\ 32 * q <= sz /\ sz <= 32 * q + 31
  BY <1>1
<1>4. b = IF sz < 128 THEN 1 ELSE IF sz < 16384 THEN 2 ELSE IF sz < 2097152 THEN 3 ELSE 4
  BY DEF VarintBytes
<1> HIDE DEF sz, q, b
<1>5. sz >= 16
  BY DEF sz
<1>6. Rooms(sz, sz - q - 6, sz - b)
  BY <1>1, <1>3, <1>4, <1>5 DEF Rooms
<1> QED
  BY <1>2, <1>6 DEF sz, b

-----------------------------------------------------------------------------
(* What is emitted fits                                                    *)

\* In code there is at no moment more than has room, and where the search goes on
\* there is less: in a short block hardly more than has been passed of it, in a
\* long one hardly more than the limit.
Fitting ==
  LET c == CodeBytes(code)
  IN  /\ pc \in {"start", "raw", "given", "lz4"} => code = <<>>
      /\ level \in {"fast", "better"} =>
           /\ pc \in {"search", "again", "rest", "coded"} => Size >= 16 /\ c <= Size - VarintBytes(Size)
           /\ pc \in {"search", "again"} => Behind(Size, nextEmit, c)
           /\ level = "fast" /\ pc = "search" /\ Size >= 320 => c <= DstLimit + Slack(nextEmit)
      /\ level = "reference" =>
           /\ pc = "search" => c <= RefDstLimit
           /\ pc \in {"rest", "coded"} => c <= Size

\* Nothing there, or nothing new.
LEMMA BailFits ==
  ASSUME Bail
  PROVE  Fitting'
<1>1. pc' = "raw" /\ code' = <<>>
  BY DEF Bail, Return
<1> QED
  BY <1>1, Zenon DEF Fitting

LEMMA CodeBytesNext ==
  ASSUME NEW ops \in Seq(Operations), code \in Seq(Operations), code' = code \o ops
  PROVE  CodeBytes(code)' = CodeBytes(code) + CodeBytes(ops)
<1>1. CodeBytes(code)' = CodeBytes(code')
  OBVIOUS
<1>2. CodeBytes(code') = CodeBytes(code \o ops)
  OBVIOUS
<1>3. CodeBytes(code \o ops) = CodeBytes(code) + CodeBytes(ops)
  BY BytesJoin
<1> QED
  BY <1>1, <1>2, <1>3, Zenon

LEMMA AdvanceFits ==
  ASSUME EncoderTyped, Fitting, level \in {"fast", "better"}, pc \in {"search", "again"},
         NEW ops \in Seq(Operations), NEW end, NEW off, NEW indexed, NEW next \in {"search", "again", "rest"},
         Advance(ops, off, end, indexed, next),
         NEW w, w = CodeBytes(code) + CodeBytes(ops), w <= Size - VarintBytes(Size),
         next \in {"search", "again"} => Behind(Size, end, w),
         next = "search" /\ level = "fast" /\ Size >= 320 => w <= DstLimit + Slack(end)
  PROVE  Fitting'
<1>1. /\ code' = code \o ops /\ nextEmit' = end /\ pc' = next /\ src' = src /\ level' = level
      /\ code \in Seq(Operations)
  BY DEF Advance, EncoderTyped
<1>2. Size' = Size /\ DstLimit' = DstLimit
  BY <1>1 DEF Size, DstLimit
<1>3. CodeBytes(code)' = w
  BY <1>1, CodeBytesNext
<1>4. Size >= 16
  BY DEF Fitting
<1>5. level' # "reference" /\ pc' \notin {"start", "raw", "given", "lz4"}
  BY <1>1
<1>6. VarintBytes(Size)' = VarintBytes(Size)
  BY <1>2 DEF VarintBytes
<1>7. Behind(Size', nextEmit', w) <=> Behind(Size, end, w)
  BY <1>1, <1>2
<1>8. Slack(nextEmit') = Slack(end)
  BY <1>1
<1> QED
  BY <1>1, <1>2, <1>3, <1>4, <1>5, <1>6, <1>7, <1>8 DEF Fitting

\* What the limits are while an encoder runs.
LEMMA Running ==
  ASSUME EncoderTyped, Fitting, FormatWidths, level \in {"fast", "better"}, pc \in {"search", "again", "rest"}
  PROVE  /\ Size \in Nat /\ nextEmit \in Nat /\ nextEmit <= Size /\ s \in Nat /\ CodeBytes(code) \in Nat /\ Size <= Room3
         /\ Rooms(Size, DstLimit, Size - VarintBytes(Size))
         /\ DstLimit \in Nat /\ Size - VarintBytes(Size) \in Int
         /\ CodeBytes(code) <= Size - VarintBytes(Size)
         /\ pc \in {"search", "again"} => Behind(Size, nextEmit, CodeBytes(code))
<1>1. Size >= 16 /\ CodeBytes(code) <= Size - VarintBytes(Size)
      /\ (pc \in {"search", "again"} => Behind(Size, nextEmit, CodeBytes(code)))
  BY DEF Fitting
<1>2. level # "best"
  OBVIOUS
<1>3. Rooms(Size, DstLimit, Size - VarintBytes(Size))
  BY <1>1, <1>2, RoomIs
<1>4. DstLimit \in Nat /\ Size - VarintBytes(Size) \in Int
  BY <1>3 DEF Rooms
<1>5. Size \in Nat /\ nextEmit \in Nat /\ nextEmit <= Size /\ s \in Nat /\ CodeBytes(code) \in Nat /\ Size <= Room3
  BY BytesTyped DEF EncoderTyped, Size
<1> QED
  BY <1>1, <1>3, <1>4, <1>5

LEMMA StartFits ==
  ASSUME EncoderTyped, Fitting, FormatWidths, level \in {"fast", "better"}, Start
  PROVE  Fitting'
<1>1. /\ pc' = "search" /\ code' = <<>> /\ src' = src /\ level' = level /\ nextEmit' = nextEmit /\ Size >= 16
  BY DEF Start, Fitting, MinNonLiteralBlockSize
<1>2. Size' = Size /\ DstLimit' = DstLimit /\ level # "best"
  BY <1>1 DEF Size, DstLimit
<1>3. VarintBytes(Size)' = VarintBytes(Size)
  BY <1>2 DEF VarintBytes
<1>4. CodeBytes(code)' = 0
  BY <1>1, BytesOfNone
<1>5. Rooms(Size, DstLimit, Size - VarintBytes(Size))
  BY <1>1, <1>2, RoomIs
<1>6. nextEmit \in Nat /\ Size \in Nat
  BY DEF EncoderTyped, Size
<1>7. 0 <= Size - VarintBytes(Size) /\ 0 <= DstLimit + Slack(nextEmit)
  BY <1>1, <1>5, <1>6 DEF Rooms, Slack
<1>8. Behind(Size, nextEmit, 0)
  BY <1>6 DEF Behind
<1>9. Behind(Size', nextEmit', 0) /\ Slack(nextEmit') = Slack(nextEmit)
  BY <1>1, <1>2, <1>8
<1> QED
  BY <1>1, <1>2, <1>3, <1>4, <1>7, <1>9 DEF Fitting

\* A step that emits nothing: if it goes back to searching, there is room.
LEMMA SilentFits ==
  ASSUME EncoderTyped, Fitting, FormatWidths, level \in {"fast", "better"}, UNCHANGED <<src, level, nextEmit, code>>,
         pc \in {"search", "again"}, pc' \in {"search", "rest"},
         pc = "again" /\ pc' = "search" => CodeBytes(code) <= DstLimit
  PROVE  Fitting'
<1>1. CodeBytes(code)' = CodeBytes(code) /\ nextEmit' = nextEmit /\ level' = level
  OBVIOUS
<1>2. Size' = Size /\ DstLimit' = DstLimit
  BY DEF Size, DstLimit
<1>3. VarintBytes(Size)' = VarintBytes(Size)
  BY <1>2 DEF VarintBytes
<1>4. Behind(Size', nextEmit', CodeBytes(code)') <=> Behind(Size, nextEmit, CodeBytes(code))
  BY <1>1, <1>2
<1>5. Slack(nextEmit') = Slack(nextEmit)
  BY <1>1
<1>6. Slack(nextEmit) \in {4, 6, 8}
  BY DEF Slack
<1>7. CodeBytes(code) \in Nat /\ DstLimit \in Nat
  BY Running
<1>8. CodeBytes(code) <= DstLimit => CodeBytes(code) <= DstLimit + Slack(nextEmit)
  BY <1>6, <1>7
<1>9. level = "fast" /\ Size >= 320 /\ pc' = "search" => CodeBytes(code) <= DstLimit + Slack(nextEmit)
  <2>1. CASE pc = "again"
    BY <1>8, <2>1
  <2>2. CASE pc = "search"
    BY <2>2 DEF Fitting
  <2> QED
    BY <2>1, <2>2
<1>10. Size >= 16 /\ CodeBytes(code) <= Size - VarintBytes(Size) /\ Behind(Size, nextEmit, CodeBytes(code))
  BY DEF Fitting
<1>11. level # "reference" /\ pc' \notin {"start", "raw", "given", "lz4"}
  OBVIOUS
<1> QED
  BY <1>1, <1>2, <1>3, <1>4, <1>5, <1>9, <1>10, <1>11 DEF Fitting

LEMMA SearchRepeatFits ==
  ASSUME EncoderTyped, Fitting, FormatWidths, level \in {"fast", "better"}, SearchRepeat
  PROVE  Fitting'
<1>1. CASE Bail
  BY <1>1, BailFits
<1>2. ASSUME NEW base, NEW end, NEW indexed, NEW next, RepeatStep(base, end, indexed, next)
      PROVE  Fitting'
  <2> DEFINE n == end - base
             k == base - nextEmit
             ops == EmitLiteral(Slice(nextEmit, base)) \o EmitRepeat(n)
             sz == Size
             c == CodeBytes(code)
             room == Size - VarintBytes(Size)
             v == CodeBytes(ops)
             lim == DstLimit
  <2>1. /\ base \in nextEmit .. s + 1 /\ end \in base + 4 .. Size /\ s <= Size - 9 /\ next \in {"rest", "search"}
        /\ ~(c + base - nextEmit > lim) /\ Advance(ops, repeat, end, indexed, next)
    BY <1>2 DEF RepeatStep
  <2>2. /\ sz \in Nat /\ nextEmit \in Nat /\ s \in Nat /\ c \in Nat /\ Rooms(sz, lim, room) /\ lim \in Nat
        /\ room \in Int /\ Behind(sz, nextEmit, c) /\ sz <= Room3 /\ pc = "search"
    BY Running DEF SearchRepeat, Searching
  <2>3. /\ base \in nextEmit .. Size /\ n \in Nat /\ n >= 4 /\ k \in Nat /\ nextEmit + k + n = end /\ end <= sz
        /\ nextEmit + k <= sz - 8 /\ n \in 1 .. Room3 /\ n \in Nat \ {0} /\ Room3 \in Nat
    BY <2>1, <2>2, LengthAssumption
  <2>4. c + k <= lim
    <3> HIDE DEF c, lim
    <3>1. base \in Nat /\ c + base - nextEmit <= lim
      BY <2>1, <2>2
    <3> QED
      BY <2>2, <3>1
  <2>5. EmitRepeat(n) \in Seq(Operations) /\ CodeBytes(EmitRepeat(n)) = Extra(n)
    <3>1. CodeBytes(EmitRepeat(n)) = EmitRepeatSize(n) /\ EmitRepeat(n) \in Seq(Operations)
      BY <2>3, RepeatBytes, RepeatTyped
    <3> QED
      BY <2>3, <3>1, WidthsAre
  <2>6. v = (k + Extra(k)) + Extra(n)
    <3> DEFINE x == EmitRepeat(n)
    <3> HIDE DEF x
    <3>1. CodeBytes(EmitLiteral(Slice(nextEmit, base)) \o x) = (k + EmitRepeatSize(k)) + CodeBytes(x)
      BY <2>3, <2>5, SplitBytes DEF x
    <3>2. EmitRepeatSize(k) = Extra(k)
      BY <2>3, WidthsAre
    <3> QED
      BY <2>5, <3>1, <3>2, Zenon DEF x
  <2>7. ops \in Seq(Operations)
    <3>1. EmitLiteral(Slice(nextEmit, base)) \in Seq(Operations)
      BY <2>3, SliceTyped
    <3> DEFINE a == EmitLiteral(Slice(nextEmit, base))
               x == EmitRepeat(n)
    <3>2. a \in Seq(Operations) /\ x \in Seq(Operations)
      BY <2>5, <3>1
    <3> HIDE DEF a, x
    <3>3. a \o x \in Seq(Operations)
      BY <3>2
    <3> QED
      BY <3>3 DEF a, x
  <2> HIDE DEF n, k, ops, sz, c, room, v, lim
  <2>8. /\ v \in Nat /\ c + v <= room /\ Behind(sz, nextEmit + k + n, c + v)
        /\ sz >= 320 => c + v <= lim + Slack(nextEmit + k + n)
    BY <2>2, <2>3, <2>4, <2>6, RepeatFits
  <2>9. /\ c + v <= room /\ Behind(sz, end, c + v) /\ (sz >= 320 => c + v <= lim + Slack(end))
    BY <2>3, <2>8
  <2>10. next \in {"search", "again", "rest"} /\ pc \in {"search", "again"}
    BY <2>1, <2>2
  <2> DEFINE w == c + v
  <2>11. /\ w = CodeBytes(code) + CodeBytes(ops) /\ w <= Size - VarintBytes(Size)
         /\ next \in {"search", "again"} => Behind(Size, end, w)
         /\ next = "search" /\ level = "fast" /\ Size >= 320 => w <= DstLimit + Slack(end)
    BY <2>9 DEF c, v, sz, room, lim
  <2> HIDE DEF w
  <2> QED
    BY <2>1, <2>7, <2>10, <2>11, AdvanceFits
<1> QED
  <2>1. level \in Levels
    BY DEF Levels
  <2> QED
    BY <1>1, <1>2, <2>1, SearchRepeatIs

LEMMA TakeFits ==
  ASSUME EncoderTyped, Fitting, FormatWidths, level \in {"fast", "better"}, Searching, NEW m \in Matches,
         ~NoRoom(m), Take(m)
  PROVE  Fitting'
<1> DEFINE b == m.start
           off == m.off
           end == m.end
           n == end - b
           k == b - nextEmit
           lits == Slice(nextEmit, b)
           ops == EmitMatch(lits, off, n)
           sz == Size
           c == CodeBytes(code)
           room == Size - VarintBytes(Size)
           v == CodeBytes(ops)
           lim == DstLimit
           most == Max({m.indexed, end - 1})
           next == IF end >= SLimit THEN "rest" ELSE "search"
<1>1. level \in Levels /\ level # "best"
  BY DEF Levels
<1>2. GoodMatch(m) /\ ~m.rep /\ b <= Size - 8
  BY <1>1, MatchesGood DEF SearchGood
<1>3. TakeEnd(m) = end
  BY <1>1, <1>2, TakeIs
<1>4. MatchOps(m) = ops /\ Lits(m) = lits /\ MatchLen(m) = n
  BY <1>2 DEF MatchOps, Lits, MatchLen
<1>5. Bail \/ (level = "fast" /\ Advance(ops, off, end, m.indexed, "again"))
      \/ (level # "fast" /\ Advance(ops, off, end, most, next))
  BY <1>3, <1>4 DEF Take, TakeEnd
<1>6. /\ sz \in Nat /\ nextEmit \in Nat /\ s \in Nat /\ c \in Nat /\ Rooms(sz, lim, room) /\ lim \in Nat
      /\ room \in Int /\ Behind(sz, nextEmit, c) /\ sz <= Room3 /\ pc = "search"
  BY Running DEF Searching
<1>7. b \in nextEmit .. Size /\ off \in 1 .. b /\ end \in b + 4 .. Size
  <2>1. b \in nextEmit .. Size /\ off \in 1 .. b /\ end \in b + 3 .. Size /\ end >= b + 4
    BY <1>2 DEF GoodMatch
  <2> HIDE DEF b, off, end
  <2> QED
    BY <1>6, <2>1
<1>8. /\ lits \in Seq(Bytes) /\ Len(lits) = k
  BY <1>7, SliceTyped
<1>9. lits # <<>> \/ k = 0
  <2> HIDE DEF k, lits
  <2>1. lits = <<>> => Len(lits) = 0
    OBVIOUS
  <2> QED
    BY <1>8, <2>1
<1>10. level = "better" => ~(c + k > lim)
  <2>1. level = "better" => ~(CodeBytes(code) + Len(Lits(m)) > DstLimit)
    BY DEF NoRoom
  <2> QED
    BY <1>4, <1>8, <2>1, Zenon
<1>11. level = "fast" /\ lits # <<>> /\ ~Fuses(lits, off, n) => ~(c + end - nextEmit > lim)
  <2>1. level = "fast" => ~(/\ Lits(m) # <<>> /\ ~Fuses(Lits(m), m.off, MatchLen(m))
                            /\ CodeBytes(code) + m.end - nextEmit > DstLimit)
    BY DEF NoRoom
  <2> QED
    BY <1>4, <2>1, Zenon
<1>12. level = "fast" /\ sz >= 320 => c <= lim + Slack(nextEmit)
  BY <1>6 DEF Fitting
<1> HIDE DEF b, off, end
<1>13. /\ n \in Nat /\ n >= 4 /\ b + n = end /\ b + n <= Size /\ k \in Nat /\ b = nextEmit + k
       /\ nextEmit + k + n = end /\ nextEmit + k + n <= sz /\ nextEmit + k <= sz - 8
       /\ off \in 1 .. nextEmit + k /\ off \in Int
  BY <1>2, <1>6, <1>7
<1> HIDE DEF n
<1>14. IF Fuses(lits, off, n)
       THEN /\ k \in 1 .. 4
            /\ v = IF off <= MaxCopy2Offset THEN 3 + k + EmitRepeatSize(n - Copy2LitMaxLen)
                   ELSE EmitCopySize(off, n) + k
       ELSE v = (k + EmitRepeatSize(k)) + EmitCopySize(off, n)
  BY <1>1, <1>7, <1>13, EmitMatchBytes
<1>15. EmitRepeatSize(k) = Extra(k) /\ EmitCopySize(off, n) = CopyExtra(off, n)
       /\ EmitRepeatSize(n - Copy2LitMaxLen) = FusedExtra(n) /\ MaxCopy2Offset = 65599
  <2> HIDE DEF k
  <2>1. k \in Int /\ n \in Int
    BY <1>13
  <2> QED
    BY <1>13, <2>1, WidthsAre
<1> HIDE DEF k, lits, ops, sz, c, room, v, lim
<1>16. v \in Nat /\ c + v <= room /\ Behind(sz, end, c + v)
  <2>1. CASE k \in 1 .. 4 /\ (v = 3 + k + FusedExtra(n) \/ (off > 65599 /\ v = CopyExtra(off, n) + k))
    <3>1. sz >= 320 => c + k <= lim \/ c <= lim + Slack(nextEmit)
      BY <1>6, <1>10, <1>12, <1>13
    <3>2. v \in Nat /\ c + v <= room /\ Behind(sz, nextEmit + k + n, c + v)
      <4> HIDE DEF most, next
      <4>1. k \in Nat /\ k >= 1 /\ k <= 4 /\ n \in Nat /\ n >= 4 /\ off \in 1 .. nextEmit + k /\ c \in Nat
            /\ nextEmit + k + n <= sz /\ nextEmit + k <= sz - 8 /\ sz \in Nat /\ nextEmit \in Nat
            /\ Rooms(sz, lim, room) /\ Behind(sz, nextEmit, c)
        BY <1>6, <1>13, <2>1
      <4>2. CASE v = 3 + k + FusedExtra(n)
        BY <3>1, <4>1, <4>2, Fused2Fits
      <4>3. CASE off > 65599 /\ v = CopyExtra(off, n) + k
        BY <3>1, <4>1, <4>3, Fused3Fits
      <4> QED
        BY <2>1, <4>2, <4>3
    <3> QED
      BY <1>13, <3>2
  <2>2. CASE ~Fuses(lits, off, n)
    <3>1. v = (k + Extra(k)) + CopyExtra(off, n)
      BY <1>14, <1>15, <2>2
    <3>2. sz >= 320 => c + k <= lim \/ c + k + n <= lim \/ (k = 0 /\ c <= lim + Slack(nextEmit))
      <4>1. CASE level = "better"
        <5>1. ~(c + k > lim)
          BY <1>10, <4>1
        <5> QED
          BY <1>6, <1>13, <5>1
      <4>2. CASE level = "fast" /\ k = 0
        BY <1>12, <4>2
      <4>3. CASE level = "fast" /\ k # 0
        <5>1. ~(c + end - nextEmit > lim)
          BY <1>9, <1>11, <2>2, <4>3
        <5> QED
          BY <1>6, <1>13, <5>1
      <4> QED
        BY <4>1, <4>2, <4>3
    <3>3. v \in Nat /\ c + v <= room /\ Behind(sz, nextEmit + k + n, c + v)
      BY <1>6, <1>13, <3>1, <3>2, UnfusedFits
    <3> QED
      BY <1>13, <3>3
  <2>3. CASE Fuses(lits, off, n)
    <3>1. k \in 1 .. 4 /\ (v = 3 + k + FusedExtra(n) \/ (off > 65599 /\ v = CopyExtra(off, n) + k))
      BY <1>13, <1>14, <1>15, <2>3
    <3> QED
      BY <2>1, <3>1
  <2> QED
    BY <2>2, <2>3
<1>17. ops \in Seq(Operations)
  BY <1>2, <1>4, TakeIs
<1>18. CASE Bail
  BY <1>18, BailFits
<1> DEFINE w == c + v
<1>19. /\ w = CodeBytes(code) + CodeBytes(ops) /\ w <= Size - VarintBytes(Size) /\ Behind(Size, end, w)
       /\ pc \in {"search", "again"}
  BY <1>6, <1>16 DEF c, v, sz, room
<1> HIDE DEF w
<1>20. CASE level = "fast" /\ Advance(ops, off, end, m.indexed, "again")
  <2> DEFINE indexed == m.indexed
  <2>1. Advance(ops, off, end, indexed, "again")
    BY <1>20
  <2> HIDE DEF indexed
  <2> QED
    BY <1>17, <1>19, <2>1, AdvanceFits
<1>21. CASE level # "fast" /\ Advance(ops, off, end, most, next)
  <2>1. next \in {"search", "again", "rest"}
    OBVIOUS
  <2> HIDE DEF most, next
  <2> QED
    BY <1>17, <1>19, <1>21, <2>1, AdvanceFits
<1> QED
  BY <1>5, <1>18, <1>20, <1>21

LEMMA SearchMatchFits ==
  ASSUME EncoderTyped, Fitting, FormatWidths, level \in {"fast", "better"}, SearchMatch
  PROVE  Fitting'
<1>1. PICK m \in Matches : \/ NoRoom(m) /\ Bail
                           \/ ~NoRoom(m) /\ NotWorth(m) /\ Skip(m)
                           \/ ~NoRoom(m) /\ ~NotWorth(m) /\ Take(m)
  BY DEF SearchMatch
<1>2. Searching
  BY DEF SearchMatch
<1>3. CASE Bail
  BY <1>3, BailFits
<1>4. CASE Skip(m)
  <2>1. UNCHANGED <<src, level, nextEmit, code>> /\ pc = "search" /\ pc' \in {"search", "rest"}
    BY <1>2, <1>4 DEF Skip, Searching
  <2> QED
    BY <2>1, SilentFits
<1>5. CASE ~NoRoom(m) /\ Take(m)
  BY <1>2, <1>5, TakeFits
<1> QED
  BY <1>1, <1>3, <1>4, <1>5

LEMMA AgainMatchFits ==
  ASSUME EncoderTyped, Fitting, FormatWidths, level \in {"fast", "better"}, AgainMatch
  PROVE  Fitting'
<1>1. PICK off, end : CopyStep(off, end)
  BY AgainMatchIs
<1> DEFINE n == end - s
           ops == EmitCopy(off, n)
           sz == Size
           c == CodeBytes(code)
           room == Size - VarintBytes(Size)
           v == CodeBytes(ops)
           lim == DstLimit
<1>2. /\ pc = "again" /\ s = nextEmit /\ off \in 1 .. s /\ end \in s + 4 .. Size
      /\ c <= lim /\ Advance(ops, off, end, s, "again")
  BY <1>1 DEF CopyStep
<1>3. /\ sz \in Nat /\ nextEmit \in Nat /\ s \in Nat /\ c \in Nat /\ Rooms(sz, lim, room) /\ lim \in Nat
      /\ room \in Int /\ Behind(sz, nextEmit, c) /\ sz <= Room3
  BY <1>2, Running
<1>4. /\ n \in Nat /\ n >= 4 /\ n >= MinMatch /\ nextEmit + n = end /\ nextEmit + n <= sz /\ off \in 1 .. nextEmit
      /\ n \in Lengths /\ off \in Nat \ {0} /\ off \in Int
  BY <1>2, <1>3, LengthAssumption DEF Lengths, MinMatch
<1>5. ops \in Seq(Operations)
  BY <1>4, CopyTyped
<1>6. v = CopyExtra(off, n)
  <2>1. v = EmitCopySize(off, n)
    BY <1>4, CopyBytes
  <2> HIDE DEF v
  <2> QED
    BY <1>4, <2>1, WidthsAre
<1> HIDE DEF n, ops, sz, c, room, v, lim
<1>7. v \in Nat /\ c + v <= room /\ Behind(sz, nextEmit + n, c + v)
  BY <1>2, <1>3, <1>4, <1>6, AgainFits
<1> DEFINE w == c + v
<1>8. /\ w = CodeBytes(code) + CodeBytes(ops) /\ w <= Size - VarintBytes(Size) /\ Behind(Size, end, w)
      /\ pc \in {"search", "again"}
  BY <1>2, <1>4, <1>7 DEF c, v, sz, room
<1> HIDE DEF w
<1> QED
  BY <1>2, <1>5, <1>8, AdvanceFits

\* The bytes of the literals at the end.
LEMMA RestBytes ==
  ASSUME EncoderTyped
  PROVE  LET x == EmitLiteral(Slice(nextEmit, Size))
             k == Size - nextEmit
         IN  /\ x \in Seq(Operations) /\ k \in Nat /\ code \in Seq(Operations)
             /\ CodeBytes(code \o x) = CodeBytes(code) + (k + EmitRepeatSize(k))
             /\ CodeBytes(code) \in Nat /\ EmitRepeatSize(k) \in 0 .. 4 /\ (k = 0 => EmitRepeatSize(k) = 0)
<1> DEFINE lits == Slice(nextEmit, Size)
           x == EmitLiteral(lits)
           k == Size - nextEmit
<1>1. Size \in Nat /\ nextEmit \in Nat /\ Size \in nextEmit .. Size /\ k \in Nat /\ code \in Seq(Operations)
  BY DEF EncoderTyped, Size
<1>2. lits \in Seq(Bytes) /\ Len(lits) = k /\ Len(lits) <= Room3 /\ x \in Seq(Operations)
  BY <1>1, SliceTyped
<1> HIDE DEF lits, k
<1>3. k = Len(lits) /\ k <= Room3
  BY <1>2
<1>4. CodeBytes(x) = k + EmitRepeatSize(k)
  BY <1>1, <1>2, <1>3, LiteralBytes
<1>5. EmitRepeatSize(k) \in 0 .. 4 /\ (k = 0 => EmitRepeatSize(k) = 0)
  BY <1>1, CostsAre
<1> HIDE DEF x
<1>6. CodeBytes(code \o x) = CodeBytes(code) + CodeBytes(x) /\ CodeBytes(code) \in Nat
  BY <1>1, <1>2, BytesJoin, BytesTyped
<1> QED
  BY <1>1, <1>2, <1>4, <1>5, <1>6, Zenon DEF x, lits, k

LEMMA RemainderFits ==
  ASSUME EncoderTyped, Fitting, FormatWidths, level \in {"fast", "better"}, EmitRemainder
  PROVE  Fitting'
<1> DEFINE x == EmitLiteral(Slice(nextEmit, Size))
           k == Size - nextEmit
           sz == Size
           c == CodeBytes(code)
           room == Size - VarintBytes(Size)
           lim == DstLimit
           w == CodeBytes(code \o x)
<1>1. pc = "rest" /\ (Bail \/ ((nextEmit < Size => RestFits) /\ Return("coded", code \o x)))
  BY DEF EmitRemainder
<1>2. CASE Bail
  BY <1>2, BailFits
<1>3. CASE (nextEmit < Size => RestFits) /\ Return("coded", code \o x)
  <2>1. /\ sz \in Nat /\ nextEmit \in Nat /\ nextEmit <= Size /\ c \in Nat /\ Rooms(sz, lim, room) /\ lim \in Nat
        /\ room \in Int /\ c <= room
    BY <1>1, Running
  <2>2. /\ k \in Nat /\ w = c + (k + EmitRepeatSize(k)) /\ (k = 0 => EmitRepeatSize(k) = 0)
    BY RestBytes
  <2>3. EmitRepeatSize(k) = Extra(k)
    BY <2>1, WidthsAre
  <2>4. k # 0 => c + k <= lim
    <3>1. level # "best"
      OBVIOUS
    <3>2. nextEmit < Size => c + k + 0 <= lim
      BY <1>3, <3>1 DEF RestFits
    <3> HIDE DEF c, lim
    <3> QED
      BY <2>1, <3>2
  <2>5. w <= room
    <3> HIDE DEF k, sz, c, room, lim, w
    <3>1. CASE k = 0
      BY <2>1, <2>2, <3>1
    <3>2. CASE k # 0
      <4> DEFINE v == k + Extra(k)
      <4>1. v = k + Extra(k)
        OBVIOUS
      <4> HIDE DEF v
      <4>2. c + v <= room
        BY <2>1, <2>2, <2>4, <3>2, <4>1, RestFitsIn
      <4> QED
        BY <2>2, <2>3, <4>1, <4>2
    <3> QED
      BY <3>1, <3>2
  <2>6. code' = code \o x /\ pc' = "coded" /\ src' = src /\ level' = level
    BY <1>3 DEF Return
  <2>7. Size' = Size
    BY <2>6 DEF Size
  <2>8. VarintBytes(Size)' = VarintBytes(Size)
    BY <2>7 DEF VarintBytes
  <2>9. CodeBytes(code)' = w
    BY <2>6
  <2>10. Size >= 16
    BY <1>1 DEF Fitting
  <2> HIDE DEF w
  <2>11. w <= Size - VarintBytes(Size)
    BY <2>5
  <2>12. pc' \notin {"start", "raw", "given", "lz4", "search", "again"} /\ level' # "reference"
    BY <2>6
  <2> QED
    BY <2>7, <2>8, <2>9, <2>10, <2>11, <2>12 DEF Fitting
<1> QED
  BY <1>1, <1>2, <1>3

LEMMA EncodeNextFits ==
  ASSUME EncoderTyped, Fitting, FormatWidths, level \in {"fast", "better"}, EncodeNext
  PROVE  Fitting'
<1>1. CASE TooSmall
  BY <1>1, BailFits DEF TooSmall
<1>2. CASE Start
  BY <1>2, StartFits
<1>3. CASE SearchEnd \/ AgainEnd
  <2>1. UNCHANGED <<src, level, nextEmit, code>> /\ pc \in {"search", "again"} /\ pc' = "rest"
    BY <1>3 DEF SearchEnd, AgainEnd
  <2> QED
    BY <2>1, SilentFits
<1>4. CASE SearchMiss
  <2>1. UNCHANGED <<src, level, nextEmit, code>> /\ pc = "search" /\ pc' = "search"
    BY <1>4 DEF SearchMiss, Searching
  <2> QED
    BY <2>1, SilentFits
<1>5. CASE SearchRepeat
  BY <1>5, SearchRepeatFits
<1>6. CASE SearchMatch
  BY <1>6, SearchMatchFits
<1>7. CASE AgainNoRoom
  BY <1>7, BailFits DEF AgainNoRoom
<1>8. CASE AgainMatch
  BY <1>8, AgainMatchFits
<1>9. CASE AgainMiss
  <2>1. UNCHANGED <<src, level, nextEmit, code>> /\ pc = "again" /\ pc' = "search" /\ CodeBytes(code) <= DstLimit
    BY <1>9 DEF AgainMiss
  <2> QED
    BY <2>1, SilentFits
<1>10. CASE EmitRemainder
  BY <1>10, RemainderFits
<1> QED
  BY <1>1, <1>2, <1>3, <1>4, <1>5, <1>6, <1>7, <1>8, <1>9, <1>10 DEF EncodeNext

\* The reference encoder looks at its limit before it goes on and before the last
\* literals, and no match takes more than eleven bytes besides its literals.
LEMMA RefFits ==
  ASSUME EncoderTyped, level = "reference", NEW ops \in Seq(Operations), code' = code \o ops,
         src' = src, level' = level, pc' \in {"search", "rest", "coded"},
         NEW w, w = CodeBytes(code \o ops), w <= Size, pc' = "search" => w <= RefDstLimit
  PROVE  Fitting'
<1>1. Size' = Size /\ RefDstLimit' = RefDstLimit
  BY DEF Size, RefDstLimit
<1>2. CodeBytes(code)' = w
  OBVIOUS
<1>3. pc' \notin {"start", "raw", "given", "lz4"} /\ level' \notin {"fast", "better"}
  OBVIOUS
<1> QED
  BY <1>1, <1>2, <1>3 DEF Fitting

\* A step that emits nothing.
LEMMA RefSilentFits ==
  ASSUME EncoderTyped, Fitting, level = "reference", UNCHANGED <<src, level, code>>,
         pc = "search", pc' \in {"search", "rest"}
  PROVE  Fitting'
<1>1. Size' = Size /\ RefDstLimit' = RefDstLimit
  BY DEF Size, RefDstLimit
<1>2. CodeBytes(code)' = CodeBytes(code) /\ CodeBytes(code) \in Nat /\ Size \in Nat
  BY BytesTyped DEF EncoderTyped, Size
<1>3. CodeBytes(code) <= RefDstLimit
  BY DEF Fitting
<1>4. CodeBytes(code) <= Size
  BY <1>2, <1>3 DEF RefDstLimit
<1>5. pc' \notin {"start", "raw", "given", "lz4", "coded"} /\ level' \notin {"fast", "better"}
  OBVIOUS
<1> QED
  BY <1>1, <1>2, <1>3, <1>4, <1>5 DEF Fitting

LEMMA RefMatchFits ==
  ASSUME EncoderTyped, Fitting, level = "reference", RefMatch
  PROVE  Fitting'
<1>1. CASE Bail
  BY <1>1, BailFits
<1>2. ASSUME NEW off, NEW end, NEW next, RefStep(off, end, next)
      PROVE  Fitting'
  <2> DEFINE n == end - s
             k == s - nextEmit
             lits == Slice(nextEmit, s)
             ops == RefEmitMatch(lits, off, n)
             c == CodeBytes(code)
             v == CodeBytes(ops)
             w == CodeBytes(code \o ops)
             sz == Size
             lim == RefDstLimit
             fuses == RefCanFuse(lits, off)
  <2>1. /\ pc = "search" /\ s \in nextEmit .. Size /\ off \in 1 .. s /\ end \in s + 4 .. Size
        /\ s >= 1 /\ off <= MaxCopy3Offset /\ Repeats(src, off, s, end) /\ next \in {"rest", "search"}
        /\ lits # <<>> /\ ~fuses => ~(c + Len(lits) > lim)
        /\ next = "search" => ~(w > lim)
        /\ Advance(ops, off, end, end - 1, next)
    BY <1>2 DEF RefStep
  <2>2. sz \in Nat /\ nextEmit \in Nat /\ s \in Nat /\ code \in Seq(Operations) /\ c \in Nat /\ lim = sz - 11
    BY BytesTyped DEF EncoderTyped, Size, RefDstLimit
  <2>3. c <= lim
    BY <2>1 DEF Fitting
  <2>4. n \in Nat /\ n >= 4 /\ s + n = end /\ s + n <= sz /\ k \in Nat /\ s \in nextEmit .. Size
    BY <2>1, <2>2
  <2>5. Len(lits) = k /\ lits \in Seq(Bytes)
    BY <2>1, SliceTyped
  <2>6. lits # <<>> \/ k = 0
    <3> HIDE DEF k, lits
    <3>1. lits = <<>> => Len(lits) = 0
      OBVIOUS
    <3> QED
      BY <2>5, <3>1
  <2>7. v \in Nat /\ v <= k + 11 /\ (fuses => v <= 11)
    <3> HIDE DEF n
    <3>1. s + n <= Size
      BY <2>4
    <3> QED
      BY <2>1, <2>4, <3>1, RefMatchBytes
  <2>8. ops \in Seq(Operations)
    <3>1. Repeats(src, off, s, s + n) /\ off <= MaxCopy3Offset
      BY <2>1, <2>4
    <3> HIDE DEF n
    <3> QED
      BY <2>1, <2>4, <3>1, RefEmitMatchIs
  <2>9. w = c + v
    <3> HIDE DEF ops
    <3> QED
      BY <2>2, <2>8, BytesJoin
  <2>10. /\ code' = code \o ops /\ src' = src /\ level' = level /\ pc' = next
    BY <2>1 DEF Advance
  <2> DEFINE z == w
  <2>11. z <= sz /\ (next = "search" => z <= lim)
    <3>1. lits # <<>> /\ ~fuses => ~(c + k > lim)
      BY <2>1, <2>5, Zenon
    <3>2. next = "search" => ~(w > lim)
      BY <2>1
    <3> HIDE DEF n, k, lits, ops, c, v, w, sz, lim, fuses
    <3>3. z \in Nat
      BY <2>2, <2>7, <2>9
    <3> QED
      BY <2>2, <2>3, <2>4, <2>6, <2>7, <2>9, <3>1, <3>2, <3>3
  <2> HIDE DEF ops
  <2>12. z = CodeBytes(code \o ops) /\ z <= Size /\ (pc' = "search" => z <= RefDstLimit)
         /\ pc' \in {"search", "rest", "coded"}
    BY <2>1, <2>10, <2>11
  <2> HIDE DEF z
  <2> QED
    BY <2>8, <2>10, <2>12, RefFits
<1> QED
  BY <1>1, <1>2, RefMatchIs

LEMMA RefRemainderFits ==
  ASSUME EncoderTyped, Fitting, level = "reference", RefRemainder
  PROVE  Fitting'
<1> DEFINE lits == Slice(nextEmit, Size)
           x == EmitLiteral(lits)
           k == Size - nextEmit
           c == CodeBytes(code)
           sz == Size
           extra == EmitRepeatSize(k)
           w == CodeBytes(code \o x)
<1>1. pc = "rest"
      /\ (Bail \/ (~(nextEmit < Size /\ c + Size - nextEmit > RefDstLimit)
                   /\ Return("coded", code \o RefEmitLiterals(lits))))
  BY DEF RefRemainder
<1>2. CASE Bail
  BY <1>2, BailFits
<1>3. CASE ~(nextEmit < Size /\ c + Size - nextEmit > RefDstLimit)
           /\ Return("coded", code \o RefEmitLiterals(lits))
  <2>1. sz \in Nat /\ nextEmit \in Nat /\ nextEmit <= sz /\ RefDstLimit = sz - 11
    BY DEF EncoderTyped, Size, RefDstLimit
  <2>2. lits \in Seq(Bytes) /\ RefEmitLiterals(lits) = x
    <3>1. Size \in nextEmit .. Size
      BY <2>1
    <3> QED
      BY <3>1, SliceTyped, RefLiteralsSame
  <2>3. /\ x \in Seq(Operations) /\ k \in Nat /\ w = c + (k + extra) /\ c \in Nat
        /\ extra \in 0 .. 4 /\ (k = 0 => extra = 0)
    BY RestBytes
  <2>4. c <= sz
    BY <1>1 DEF Fitting
  <2>5. nextEmit < Size => ~(c + Size - nextEmit > RefDstLimit)
    BY <1>3
  <2>6. w <= sz
    <3> HIDE DEF c, extra, w, sz
    <3>1. k = 0 \/ c + k <= sz - 11
      BY <2>1, <2>3, <2>5 DEF sz
    <3> HIDE DEF k
    <3> QED
      BY <2>1, <2>3, <2>4, <3>1
  <2>7. code' = code \o x /\ pc' = "coded" /\ src' = src /\ level' = level
    BY <1>3, <2>2 DEF Return
  <2> HIDE DEF x
  <2>8. w = CodeBytes(code \o x) /\ w <= Size
    BY <2>6
  <2> HIDE DEF w
  <2> QED
    BY <2>3, <2>7, <2>8, RefFits DEF x
<1> QED
  BY <1>1, <1>2, <1>3

LEMMA ReferenceNextFits ==
  ASSUME EncoderTyped, Fitting, level = "reference", ReferenceNext
  PROVE  Fitting'
<1>1. CASE RefStart
  <2>1. CASE Bail
    BY <2>1, BailFits
  <2>2. CASE ~Bail
    <3>1. /\ pc = "start" /\ pc' = "search" /\ ~(Size <= 16)
          /\ src' = src /\ level' = level /\ code' = code
      BY <1>1, <2>2 DEF RefStart
    <3>2. code = <<>>
      BY <3>1 DEF Fitting
    <3> DEFINE w == CodeBytes(code \o <<>>)
    <3>3. code' = code \o <<>> /\ <<>> \in Seq(Operations)
      BY <3>1, <3>2
    <3>4. w = 0
      BY <3>2, <3>3, BytesOfNone, <3>1
    <3>5. Size \in Nat
      BY DEF EncoderTyped, Size
    <3>6. w = CodeBytes(code \o <<>>) /\ w <= Size /\ w <= RefDstLimit
      BY <3>1, <3>4, <3>5 DEF RefDstLimit
    <3> HIDE DEF w
    <3> QED
      BY <3>1, <3>3, <3>6, RefFits
  <2> QED
    BY <2>1, <2>2
<1>2. CASE RefMiss \/ RefSearchEnd
  <2>1. UNCHANGED <<src, level, code>> /\ pc = "search" /\ pc' \in {"search", "rest"}
    BY <1>2 DEF RefMiss, RefSearchEnd
  <2> QED
    BY <2>1, RefSilentFits
<1>3. CASE RefMatch
  BY <1>3, RefMatchFits
<1>4. CASE RefRemainder
  BY <1>4, RefRemainderFits
<1> QED
  BY <1>1, <1>2, <1>3, <1>4 DEF ReferenceNext

\* With the encoder at rest nothing changes.
LEMMA RestsFit ==
  ASSUME Fitting, UNCHANGED <<src, level, nextEmit, code>>, pc' = pc \/ (pc = "given" /\ pc' = "lz4")
  PROVE  Fitting'
<1>1. Size' = Size
  BY DEF Size
<1>2. DstLimit' = DstLimit /\ VarintBytes(Size)' = VarintBytes(Size) /\ RefDstLimit' = RefDstLimit
      /\ CodeBytes(code)' = CodeBytes(code) /\ Slack(nextEmit)' = Slack(nextEmit)
      /\ (Behind(Size, nextEmit, CodeBytes(code))' <=> Behind(Size, nextEmit, CodeBytes(code)))
  BY <1>1 DEF DstLimit, VarintBytes, RefDstLimit, Slack, Behind
<1> QED
  BY <1>1, <1>2 DEF Fitting

LEMMA FittingStep ==
  ASSUME FormatWidths, CodecInv, [Next]_vars, level # "best", Fitting
  PROVE  Fitting'
<1>1. EncoderTyped /\ level \in {"fast", "better", "reference"}
  BY DEF CodecInv, EncoderTyped, Levels
<1>2. CASE level # "reference" /\ EncodeNext
  BY <1>1, <1>2, EncodeNextFits
<1>3. CASE level = "reference" /\ ReferenceNext
  BY <1>1, <1>3, ReferenceNextFits
<1>4. CASE DecodeCoded \/ DecodeRaw \/ DecodeGiven \/ ConvertGiven
           \/ (DecodeNext /\ UNCHANGED encoderVars) \/ UNCHANGED vars
  <2>1. UNCHANGED <<src, level, nextEmit, code>>
        /\ (pc' = pc \/ (pc = "given" /\ pc' = "lz4"))
    BY <1>4 DEF DecodeCoded, DecodeRaw, DecodeGiven, ConvertGiven, encoderVars, vars
  <2> QED
    BY <2>1, RestsFit
<1> QED
  BY <1>2, <1>3, <1>4 DEF Next

\* Between its checks the encoder never has more in dst than there is room for: the
\* rooms encodeBlockGo, encodeBlockBetterGo and the encoders of the small blocks leave
\* behind dstLimit (encode_l1.go:62, encode_l2.go:94), and the reference encoder's
\* eleven bytes, are enough for what each of them writes before it looks again, for
\* every source and every match, with the widths and offsets of the format.
THEOREM EncodersFit == FormatWidths => (Spec => [](level # "best" => FitsDst))
<1> SUFFICES ASSUME FormatWidths PROVE Spec => [](level # "best" => FitsDst)
  OBVIOUS
<1>1. Init => (level # "best" => Fitting)
  <2> SUFFICES ASSUME Init PROVE Fitting
    OBVIOUS
  <2>1. code = <<>> /\ pc \in {"start", "given"}
    BY DEF Init, EncodeInit
  <2> QED
    BY <2>1 DEF Fitting
<1>2. CodecInv /\ [Next]_vars /\ (level # "best" => Fitting) => (level # "best" => Fitting)'
  <2> SUFFICES ASSUME CodecInv, [Next]_vars, level # "best" => Fitting, level' # "best"
               PROVE  Fitting'
    OBVIOUS
  <2>1. level # "best"
    BY CodecStep
  <2> QED
    BY <2>1, FittingStep
<1>3. CodecInv /\ (level # "best" => Fitting) => (level # "best" => FitsDst)
  <2> SUFFICES ASSUME CodecInv, level # "best", Fitting, code # <<>>
               PROVE  CodeBytes(code) + (IF level = "reference" THEN 0 ELSE VarintBytes(Size)) <= Size
    BY DEF FitsDst
  <2> DEFINE c == CodeBytes(code)
             b == VarintBytes(Size)
             sz == Size
  <2>1. /\ c \in Nat /\ sz \in Nat /\ pc \in {"search", "again", "rest", "coded"}
        /\ level \in {"fast", "better", "reference"} /\ (level = "reference" => pc # "again")
    <3>1. EncoderTyped
      BY DEF CodecInv
    <3>2. pc \notin {"start", "raw", "given", "lz4"}
      BY DEF Fitting
    <3> QED
      BY <3>1, <3>2, BytesTyped DEF EncoderTyped, Levels, Size
  <2>2. b \in Nat
    BY DEF VarintBytes
  <2>3. CASE level = "reference"
    <3>1. c <= sz \/ c <= sz - 11
      BY <2>1, <2>3 DEF Fitting, RefDstLimit
    <3> HIDE DEF c, sz
    <3>2. c + 0 <= sz
      BY <2>1, <3>1
    <3> QED
      BY <2>3, <3>2 DEF c, sz
  <2>4. CASE level # "reference"
    <3>1. c <= sz - b
      BY <2>1, <2>4 DEF Fitting
    <3> HIDE DEF c, sz, b
    <3>2. c + b <= sz
      BY <2>1, <2>2, <3>1
    <3> QED
      BY <2>4, <3>2 DEF c, sz, b
  <2> QED
    BY <2>3, <2>4
<1> QED
  BY <1>1, <1>2, <1>3, CodecInvariant, PTL DEF Spec

\* Encode and Decode, without an assumption about what is emitted: with the widths
\* and offsets of the format, what encodeBlockGo, encodeBlockBetterGo and the
\* reference encoder return decodes to the source, and all the decoders accept it
\* and whatever else is a block, refuse what is none, and decode to the same.
THEOREM EncodersCorrect ==
  FormatWidths /\ NearSources => (Spec => [](level # "best" => RoundTrip /\ DecodersAgree))
<1> SUFFICES ASSUME FormatWidths, NearSources
             PROVE  Spec => [](level # "best" => RoundTrip /\ DecodersAgree)
  OBVIOUS
<1>1. CodecInv /\ EncoderMeans /\ (level # "best" => FitsDst)
        => (level # "best" => RoundTrip /\ DecodersAgree)
  BY DecodesToSource, DecodesRight, OthersRight DEF DecodersAgree
<1>2. Spec => [](CodecInv /\ EncoderMeans)
  BY EncodersMean
<1>3. Spec => [](level # "best" => FitsDst)
  BY EncodersFit
<1> QED
  BY <1>1, <1>2, <1>3, PTL
=============================================================================
