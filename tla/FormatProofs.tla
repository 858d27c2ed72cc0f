--------------------------- MODULE FormatProofs ----------------------------
(***************************************************************************)
(* The two formats, apart from any program that reads them.  Streams: the  *)
(* lemmas on what may follow what that the proofs about both Readers rest  *)
(* on.  Blocks: what an encoder emits is read back as it was meant, for    *)
(* every offset and length, at every class boundary, whatever the widths;  *)
(* and the size the smallest level reckons a copy by is the size it has.   *)
(***************************************************************************)
EXTENDS BlockFormat, ReaderChunks, TLAPS, WellFoundedInduction

-----------------------------------------------------------------------------
(* Induction, over a set of natural numbers                                *)

LEMMA LeastNat ==
  ASSUME NEW T \in SUBSET Nat, T # {}
  PROVE  \E x \in T : \A y \in T : x <= y
<1>1. IsWellFoundedOn(OpToRel(<, Nat), Nat)
  BY NatLessThanWellFounded
<1>2. PICK x \in T : \A y \in T : ~(<<y, x>> \in OpToRel(<, Nat))
  BY <1>1, WFMin
<1>3. x \in T /\ \A y \in T : ~(y < x)
  BY <1>2 DEF OpToRel
<1>4. \A y \in T : x <= y
  BY <1>3
<1> QED
  BY <1>3, <1>4

LEMMA NatSet ==
  ASSUME NEW S, 0 \in S, \A n \in Nat : n \in S => n + 1 \in S
  PROVE  Nat \subseteq S
<1> DEFINE T == Nat \ S
<1>1. SUFFICES ASSUME T # {} PROVE FALSE
  OBVIOUS
<1>2. PICK x \in T : \A y \in T : x <= y
  BY <1>1, LeastNat
<1>3. x # 0 /\ x - 1 \in Nat /\ x - 1 \in T
  BY <1>2
<1> QED
  BY <1>2, <1>3

-----------------------------------------------------------------------------
(* The places in a stream                                                  *)

States == [in : {"between", "minlz", "s2", "wrong"}, max : Int, sum : Int]

\* What a chunk may be that leaves the stream right.
LEMMA RightStep ==
  ASSUME NEW a \in States, NEW c \in Chunks
  PROVE  /\ ValidStep(a, c) \in States
         /\ ValidStep(a, c).in # "wrong" =>
              \/ c.kind = "skip" /\ ValidStep(a, c) = a
              \/ /\ c.kind = "idMinLZ" /\ c.bad = "no" /\ a.in \in {"between", "s2"} /\ c.n <= MaxBlockOrg
                 /\ ValidStep(a, c) = [in |-> "minlz", max |-> c.n, sum |-> 0]
              \/ /\ c.kind = "idS2" /\ c.bad = "no" /\ a.in \in {"between", "s2"} /\ AllowFallback
                 /\ ValidStep(a, c) = [in |-> "s2", max |-> MaxS2Block, sum |-> 0]
              \/ /\ c.kind = "eof" /\ c.bad = "no" /\ a.in = "minlz" /\ c.n \in {NoTotal, a.sum}
                 /\ ValidStep(a, c) = [in |-> "between", max |-> 0, sum |-> 0]
              \/ /\ c.kind \in MinLZKinds \cup {"raw"} /\ c.bad = "no" /\ a.in = "minlz"
                 /\ c.n <= a.max /\ (c.kind \in MinLZKinds => 0 < c.n /\ c.len <= c.n)
                 /\ ValidStep(a, c) = [in |-> "minlz", max |-> a.max, sum |-> a.sum + c.n]
              \/ /\ c.kind \in {"legacy", "raw"} /\ c.bad = "no" /\ a.in = "s2"
                 /\ c.n <= a.max /\ c.n <= MaxBlockOrg
                 /\ ValidStep(a, c) = [in |-> "s2", max |-> a.max, sum |-> a.sum + c.n]
<1> DEFINE Is(in, max, sum) == [in |-> in, max |-> max, sum |-> sum]
           Wrong == Is("wrong", 0, 0)
           Id == c.kind = "idMinLZ" /\ a.in \in {"between", "s2"} /\ c.n <= MaxBlockOrg
           S2 == c.kind = "idS2" /\ a.in \in {"between", "s2"} /\ AllowFallback
           End == c.kind = "eof" /\ a.in = "minlz" /\ c.n \in {NoTotal, a.sum}
           Data == \/ a.in = "minlz" /\ c.kind \in MinLZKinds \cup {"raw"}
                   \/ a.in = "s2" /\ c.kind \in {"legacy", "raw"} /\ c.n <= MaxBlockOrg
           Fits == c.n <= a.max /\ c.len <= a.max /\ (c.kind \in MinLZKinds => 0 < c.n /\ c.len <= c.n)
<1>1. /\ c.n \in Int /\ c.len \in Int /\ MaxBlockOrg \in Int /\ MaxS2Block \in Int
      /\ a.in \in {"between", "minlz", "s2", "wrong"} /\ a.max \in Int /\ a.sum \in Int
  BY ReaderAssumption DEF Chunks, NoTotal, States
<1>2. CASE c.kind = "skip"
  <2>1. ValidStep(a, c) = a
    BY <1>2 DEF ValidStep
  <2> QED
    BY <1>2, <2>1
<1>3. CASE c.kind # "skip" /\ c.bad # "no"
  <2>1. ValidStep(a, c) = Wrong
    BY <1>3 DEF ValidStep
  <2> QED
    BY <2>1 DEF States
<1>4. CASE c.bad = "no" /\ Id
  <2>1. ValidStep(a, c) = Is("minlz", c.n, 0)
    BY <1>4 DEF ValidStep
  <2> QED
    BY <1>1, <1>4, <2>1 DEF States
<1>5. CASE c.bad = "no" /\ S2
  <2>1. ValidStep(a, c) = Is("s2", MaxS2Block, 0)
    BY <1>5 DEF ValidStep
  <2> QED
    BY <1>1, <1>5, <2>1 DEF States
<1>6. CASE c.bad = "no" /\ End
  <2>1. ValidStep(a, c) = Is("between", 0, 0)
    BY <1>6 DEF ValidStep, MinLZKinds
  <2> QED
    BY <1>1, <1>6, <2>1 DEF States
<1>7. CASE c.bad = "no" /\ Data
  <2>1. ValidStep(a, c) = IF Fits THEN Is(a.in, a.max, a.sum + c.n) ELSE Wrong
    BY <1>7 DEF ValidStep, MinLZKinds
  <2> QED
    BY <1>1, <1>7, <2>1 DEF States
<1>8. CASE c.kind # "skip" /\ c.bad = "no" /\ ~Id /\ ~S2 /\ ~End /\ ~Data
  <2>1. ValidStep(a, c) = Wrong
    BY <1>8 DEF ValidStep
  <2> QED
    BY <2>1 DEF States
<1> QED
  BY <1>2, <1>3, <1>4, <1>5, <1>6, <1>7, <1>8

LEMMA StatesExist ==
  ASSUME NEW s \in Seq(Chunks)
  PROVE  \E f \in [0 .. Len(s) -> States] :
           f = [k \in 0 .. Len(s) |-> IF k = 0 THEN [in |-> "between", max |-> 0, sum |-> 0]
                                      ELSE ValidStep(f[k - 1], s[k])]
<1> DEFINE First == [in |-> "between", max |-> 0, sum |-> 0]
           Good(n, f) == f = [k \in 0 .. n |-> IF k = 0 THEN First ELSE ValidStep(f[k - 1], s[k])]
           Some(n) == n <= Len(s) => \E f \in [0 .. n -> States] : Good(n, f)
           S == {n \in Nat : Some(n)}
<1>1. First \in States
  BY DEF States
<1> HIDE DEF First
<1>2. Some(0)
  <2> DEFINE f == [k \in 0 .. 0 |-> First]
  <2>1. f \in [0 .. 0 -> States]
    BY <1>1
  <2>2. Good(0, f)
    <3>1. ASSUME NEW k \in 0 .. 0 PROVE f[k] = IF k = 0 THEN First ELSE ValidStep(f[k - 1], s[k])
      OBVIOUS
    <3> QED
      BY <3>1
  <2> QED
    BY <2>1, <2>2
<1>3. ASSUME NEW n \in Nat, Some(n) PROVE Some(n + 1)
  <2> SUFFICES ASSUME n + 1 <= Len(s) PROVE \E f \in [0 .. n + 1 -> States] : Good(n + 1, f)
    OBVIOUS
  <2>1. PICK g \in [0 .. n -> States] : Good(n, g)
    BY <1>3
  <2>2. s[n + 1] \in Chunks /\ g[n] \in States
    BY <2>1
  <2> DEFINE new == ValidStep(g[n], s[n + 1])
  <2>3. new \in States
    BY <2>2, RightStep
  <2> HIDE DEF new
  <2> DEFINE f == [k \in 0 .. n + 1 |-> IF k = n + 1 THEN new ELSE g[k]]
  <2>4. f \in [0 .. n + 1 -> States]
    BY <2>1, <2>3
  <2>5. Good(n + 1, f)
    <3>1. ASSUME NEW k \in 0 .. n + 1
          PROVE  f[k] = IF k = 0 THEN First ELSE ValidStep(f[k - 1], s[k])
      <4>1. CASE k = n + 1
        BY <4>1 DEF new
      <4>2. CASE k # n + 1
        <5>1. k \in 0 .. n /\ (k # 0 => k - 1 \in 0 .. n)
          BY <4>2
        <5>2. g[k] = IF k = 0 THEN First ELSE ValidStep(g[k - 1], s[k])
          BY <2>1, <5>1
        <5>3. f[k] = g[k] /\ (k # 0 => f[k - 1] = g[k - 1])
          BY <5>1
        <5> QED
          BY <5>2, <5>3
      <4> QED
        BY <4>1, <4>2
    <3> QED
      BY <3>1
  <2> QED
    BY <2>4, <2>5
<1> HIDE DEF Some
<1>4. 0 \in S /\ \A n \in Nat : n \in S => n + 1 \in S
  BY <1>2, <1>3
<1> HIDE DEF S
<1>5. Nat \subseteq S
  BY <1>4, NatSet
<1>6. Len(s) \in S /\ Len(s) \in Nat
  BY <1>5
<1> QED
  BY <1>6 DEF S, Some, First

LEMMA StatesAre ==
  ASSUME NEW s \in Seq(Chunks)
  PROVE  /\ ValidStates(s) \in [0 .. Len(s) -> States]
         /\ ValidStates(s)[0] = [in |-> "between", max |-> 0, sum |-> 0]
         /\ \A k \in 1 .. Len(s) : ValidStates(s)[k] = ValidStep(ValidStates(s)[k - 1], s[k])
<1> DEFINE f == CHOOSE f : f = [k \in 0 .. Len(s) |->
                                  IF k = 0 THEN [in |-> "between", max |-> 0, sum |-> 0]
                                  ELSE ValidStep(f[k - 1], s[k])]
           First == [in |-> "between", max |-> 0, sum |-> 0]
<1>1. PICK g \in [0 .. Len(s) -> States] :
        g = [k \in 0 .. Len(s) |-> IF k = 0 THEN First ELSE ValidStep(g[k - 1], s[k])]
  BY StatesExist
<1>2. f = [k \in 0 .. Len(s) |-> IF k = 0 THEN First ELSE ValidStep(f[k - 1], s[k])]
  BY <1>1
<1>3. ValidStates(s) = f
  BY DEF ValidStates
<1>4. First \in States
  BY DEF States
<1> HIDE DEF f, First
<1>5. f[0] = First /\ \A k \in 1 .. Len(s) : f[k] = ValidStep(f[k - 1], s[k])
  BY <1>2
<1>6. \A n \in 0 .. Len(s) : f[n] \in States
  <2> DEFINE S == {n \in Nat : n <= Len(s) => f[n] \in States}
  <2>1. 0 \in S
    BY <1>4, <1>5
  <2>2. ASSUME NEW n \in Nat, n \in S PROVE n + 1 \in S
    <3> SUFFICES ASSUME n + 1 <= Len(s) PROVE f[n + 1] \in States
      OBVIOUS
    <3>1. f[n] \in States /\ s[n + 1] \in Chunks /\ f[n + 1] = ValidStep(f[n], s[n + 1])
      BY <1>5, <2>2
    <3> QED
      BY <3>1, RightStep
  <2> HIDE DEF S
  <2>3. Nat \subseteq S
    BY <2>1, <2>2, NatSet
  <2> QED
    BY <2>3 DEF S
<1>7. f \in [0 .. Len(s) -> States]
  BY <1>2, <1>6
<1> QED
  BY <1>3, <1>5, <1>7 DEF First

\* What is wrong stays so: a valid stream is right at every chunk.
LEMMA RightThroughout ==
  ASSUME NEW s \in Seq(Chunks), Valid(s), NEW k \in 0 .. Len(s)
  PROVE  ValidStates(s)[k].in # "wrong"
<1> DEFINE V == ValidStates(s)
           S == {n \in Nat : n <= Len(s) => V[Len(s) - n].in # "wrong"}
<1>1. /\ V \in [0 .. Len(s) -> States]
      /\ \A m \in 1 .. Len(s) : V[m] = ValidStep(V[m - 1], s[m])
      /\ V[Len(s)].in # "wrong" /\ Len(s) \in Nat
  BY StatesAre DEF Valid
<1> HIDE DEF V
<1>2. 0 \in S
  BY <1>1
<1>3. ASSUME NEW n \in Nat, n \in S PROVE n + 1 \in S
  <2> SUFFICES ASSUME n + 1 <= Len(s) PROVE V[Len(s) - (n + 1)].in # "wrong"
    OBVIOUS
  <2> DEFINE m == Len(s) - n
  <2>1. m \in 1 .. Len(s) /\ m - 1 = Len(s) - (n + 1) /\ m - 1 \in 0 .. Len(s)
    BY <1>1
  <2> HIDE DEF m
  <2>2. V[m].in # "wrong"
    BY <1>1, <1>3 DEF m
  <2>3. V[m - 1] \in States /\ s[m] \in Chunks /\ V[m] = ValidStep(V[m - 1], s[m])
    BY <1>1, <2>1
  <2>4. V[m - 1].in # "wrong"
    <3>1. \A a \in States, c \in Chunks : ValidStep(a, c).in # "wrong" => a.in # "wrong"
      <4> SUFFICES ASSUME NEW a \in States, NEW c \in Chunks, ValidStep(a, c).in # "wrong"
                   PROVE  a.in # "wrong"
        OBVIOUS
      <4> QED
        BY RightStep
    <3> QED
      BY <2>2, <2>3, <3>1
  <2> QED
    BY <2>1, <2>4
<1> HIDE DEF S
<1>4. Nat \subseteq S
  BY <1>2, <1>3, NatSet
<1>5. Len(s) - k \in S /\ Len(s) - (Len(s) - k) = k
  BY <1>1, <1>4
<1> QED
  BY <1>1, <1>5 DEF S, V

-----------------------------------------------------------------------------
(* Nothing in such a stream is refused                                     *)

BlocksFit(s, k, size) ==
  \A b \in k + 1 .. Len(s) :
    s[b].kind \in DataKinds /\ (\A m \in k + 1 .. b : s[m].kind # "idMinLZ") => s[b].len <= size

\* What is read up to an identifier of a MinLZ stream fits in the buffer of before it, and
\* what comes behind it in one of the size it announces.
BuffersFit(s) ==
  /\ BlocksFit(s, 0, MaxBlockOrg)
  /\ \A a \in DOMAIN s : s[a].kind = "idMinLZ" => BlocksFit(s, a, s[a].n)

\* The blocks behind a chunk fit if those from it do.
LEMMA FitBehind ==
  ASSUME NEW s \in Seq(Chunks), NEW k \in 0 .. Len(s), k < Len(s), NEW size,
         BlocksFit(s, k, size), s[k + 1].kind # "idMinLZ"
  PROVE  BlocksFit(s, k + 1, size)
<1> SUFFICES ASSUME NEW b \in (k + 1) + 1 .. Len(s), s[b].kind \in DataKinds,
                    \A m \in (k + 1) + 1 .. b : s[m].kind # "idMinLZ"
             PROVE  s[b].len <= size
  BY DEF BlocksFit
<1>1. b \in k + 1 .. Len(s) /\ \A m \in k + 1 .. b : s[m].kind # "idMinLZ"
  OBVIOUS
<1> QED
  BY <1>1 DEF BlocksFit

\* A block leaves the place as it is.
LEMMA DataStep ==
  ASSUME NEW v \in States, NEW c \in Chunks, ValidStep(v, c).in # "wrong", c.kind \in DataKinds
  PROVE  /\ v.in \in {"minlz", "s2"} /\ c.bad = "no" /\ (v.in = "minlz" => c.kind # "legacy")
         /\ ValidStep(v, c) = [in |-> v.in, max |-> v.max, sum |-> v.sum + c.n]
  BY RightStep DEF DataKinds, MinLZKinds

\* The header state is what the place in the stream asks for.
HeaderFits(hd, v) ==
  /\ v.in = "minlz" => hd.header /\ hd.wantEOF /\ hd.maxBlock = v.max /\ ~hd.snappy
  /\ v.in = "s2" => hd.header /\ ~hd.wantEOF /\ hd.maxBlock = MaxBlockOrg /\ ~hd.snappy

LEMMA Accepted ==
  ASSUME NEW v \in States, NEW c \in Chunks, ValidStep(v, c).in # "wrong",
         NEW hd, HeaderFits(hd, v), hd.maxBlock \in Int, hd.maxBuf \in Int,
         v.in = "s2" => AllowFallback,
         c.kind \in DataKinds => c.len <= hd.maxBuf
  PROVE  /\ ~Unheaded(hd, c) /\ Refused(c) = "none"
         /\ c.kind \in DataKinds =>
              /\ EarlyRefusal(hd, c) = "none" /\ LateRefusal(hd, c) = "none" /\ c.bad = "no"
              /\ ~(c.n > hd.maxBlock) /\ (c.kind \in MinLZKinds => ~(c.n = 0 \/ c.n < c.len))
         /\ c.kind \in IdKinds => IdRefusal(c) = "none"
         /\ c.kind = "eof" => v.in = "minlz" /\ ~TotalRefused(c, v.sum)
<1>1. /\ v.in = "minlz" => hd.header /\ hd.maxBlock = v.max /\ ~hd.snappy
      /\ v.in = "s2" => hd.header /\ hd.maxBlock = MaxBlockOrg /\ ~hd.snappy /\ AllowFallback
  BY DEF HeaderFits
<1>2. CASE c.kind = "skip"
  BY <1>2 DEF Unheaded, Refused, DataKinds, MinLZKinds, IdKinds
<1>3. CASE c.kind = "idMinLZ" /\ c.bad = "no" /\ c.n <= MaxBlockOrg
  <2>1. IdRefusal(c) = "none"
    BY <1>3, ReaderAssumption DEF IdRefusal, Chunks, NoTotal
  <2> QED
    BY <1>3, <2>1 DEF Unheaded, Refused, DataKinds, MinLZKinds
<1>4. CASE c.kind = "idS2" /\ AllowFallback
  <2>1. IdRefusal(c) = "none"
    BY <1>4 DEF IdRefusal
  <2> QED
    BY <1>4, <2>1 DEF Unheaded, Refused, DataKinds, MinLZKinds
<1>5. CASE c.kind = "eof" /\ c.bad = "no" /\ v.in = "minlz" /\ c.n \in {NoTotal, v.sum}
  BY <1>5 DEF Unheaded, Refused, DataKinds, MinLZKinds, IdKinds, TotalRefused
<1>6. CASE /\ c.kind \in MinLZKinds \cup {"raw"} /\ c.bad = "no" /\ v.in = "minlz"
           /\ c.n <= v.max /\ (c.kind \in MinLZKinds => 0 < c.n /\ c.len <= c.n)
  <2>1. c.kind \in DataKinds /\ c.kind # "legacy" /\ hd.header /\ c.n <= hd.maxBlock /\ ~hd.snappy
        /\ c.n \in Int /\ c.len \in Int
    BY <1>1, <1>6 DEF DataKinds, MinLZKinds, Chunks, NoTotal
  <2>2. ~(c.len > hd.maxBuf) /\ ~(c.n > hd.maxBlock) /\ (c.kind \in MinLZKinds => c.n # 0 /\ ~(c.n < c.len))
    BY <1>6, <2>1
  <2>3. EarlyRefusal(hd, c) = "none" /\ LateRefusal(hd, c) = "none"
    BY <2>1, <2>2 DEF EarlyRefusal, LateRefusal
  <2> QED
    BY <1>6, <2>1, <2>2, <2>3 DEF Unheaded, Refused, MinLZKinds, IdKinds
<1>7. CASE /\ c.kind \in {"legacy", "raw"} /\ c.bad = "no" /\ v.in = "s2"
           /\ c.n <= v.max /\ c.n <= MaxBlockOrg
  <2>1. c.kind \in DataKinds /\ c.kind \notin MinLZKinds /\ hd.header /\ AllowFallback
        /\ c.n <= hd.maxBlock /\ ~hd.snappy /\ c.n \in Int /\ c.len \in Int
    BY <1>1, <1>7 DEF DataKinds, MinLZKinds, Chunks, NoTotal
  <2>2. ~(c.len > hd.maxBuf) /\ ~(c.n > hd.maxBlock)
    BY <2>1
  <2>3. EarlyRefusal(hd, c) = "none" /\ LateRefusal(hd, c) = "none"
    BY <2>1, <2>2 DEF EarlyRefusal, LateRefusal
  <2> QED
    BY <1>7, <2>1, <2>2, <2>3 DEF Unheaded, Refused, IdKinds
<1> QED
  BY <1>2, <1>3, <1>4, <1>5, <1>6, <1>7, RightStep

-----------------------------------------------------------------------------
(* Blocks                                                                  *)

\* A match cannot be longer than a block, and a length field holds that much.
Lengths == MinMatch..Room3

CopyTags == {"copy1", "copy2", "fused2", "copy3"}

\* The operations ops copy length bytes from off back: one copy, or a copy and a
\* repeat of its offset.
CopyReads(ops, off, length) ==
  /\ ops[1].tag \in CopyTags
  /\ ReadOffset(ops[1]) = off
  /\ \/ Len(ops) = 1 /\ ReadLength(ops[1]) = length
     \/ /\ Len(ops) = 2 /\ ops[2].tag = "repeat"
        /\ ReadLength(ops[1]) + ReadLength(ops[2]) = length

\* The bytes of one or two operations.
BytesOf(ops) == IF Len(ops) = 1 THEN OpBytes(ops[1]) ELSE OpBytes(ops[1]) + OpBytes(ops[2])

\* A value that fits its field is not cut off.
LEMMA FieldFits == ASSUME NEW a \in Nat, NEW b \in Nat, a < b PROVE a % b = a
  BY SMT

\* Emitting one operation after another.
LEMMA TwoOps == ASSUME NEW a, NEW b
                PROVE  LET ops == <<a>> \o <<b>> IN Len(ops) = 2 /\ ops[1] = a /\ ops[2] = b
  BY SMT

\* A length field holds its value as it is, or what is above base.
LEMMA FieldHolds ==
  ASSUME NEW v \in Nat, NEW inline \in Nat, NEW base \in Nat, base <= inline, v < base + Room3
  PROVE  LET field == LengthField(v, inline, base)
         IN  /\ v < inline => field.code = v
             /\ v >= inline => field.code \in {inline, inline + 1, inline + 2}
             /\ v >= inline => field.ext = v - base
<1> USE LengthAssumption DEF LengthField
<1>1. CASE v < inline  BY <1>1, SMT
<1>2. CASE v >= inline
  <2> DEFINE rest == v - base
  <2>1. rest \in Nat /\ rest % Room3 = rest  BY <1>2, FieldFits, SMT
  <2>2. CASE rest < Room1  BY <1>2, <2>2, SMT
  <2>3. CASE rest >= Room1 /\ rest < Room2  BY <1>2, <2>3, SMT
  <2>4. CASE rest >= Room1 /\ rest >= Room2  BY <1>2, <2>1, <2>4, SMT
  <2> QED BY <2>1, <2>2, <2>3, <2>4, SMT
<1> QED BY <1>1, <1>2, SMT

\* The lengths of literals and repeats (emitLiteral, emitRepeat).
LEMMA LitFieldReads ==
  ASSUME NEW length \in 1..Room3, NEW tag \in {"literal", "repeat"}, NEW off, NEW lits
  PROVE  ReadLength(Op(tag, LitField(length), off, lits)) = length
<1> DEFINE field == LitField(length)
<1>1. /\ length - 1 < LitInline => field.code = length - 1
      /\ length - 1 >= LitInline => field.code \in {LitInline, LitInline + 1, LitInline + 2}
      /\ length - 1 >= LitInline => field.ext = length - 1 - LitInline
  <2>1. length - 1 \in Nat /\ LitInline \in Nat /\ length - 1 < LitInline + Room3
    BY LengthAssumption, SMT
  <2> QED BY <2>1, FieldHolds, LengthAssumption, SMT DEF LitField
<1> HIDE DEF field
<1>2. ReadLength(Op(tag, field, off, lits))
        = IF field.code < LitInline THEN field.code + 1 ELSE field.ext + LitInline + 1
  BY DEF ReadLength, Op
<1> QED BY <1>1, <1>2, LengthAssumption, SMT DEF field

\* The lengths of copies with two and three offset bytes.
LEMMA CopyFieldReads ==
  ASSUME NEW length \in Lengths, NEW tag \in {"copy2", "copy3"}, NEW off, NEW lits
  PROVE  ReadLength(Op(tag, CopyField(length), off, lits)) = length
<1> DEFINE field == CopyField(length)
           v == length - MinMatch
<1>1. /\ v < CopyInline + 1 => field.code = v
      /\ v >= CopyInline + 1 => field.code \in {CopyInline + 1, CopyInline + 2, CopyInline + 3}
      /\ v >= CopyInline + 1 => field.ext = v - CopyInline
  <2>1. v \in Nat /\ CopyInline \in Nat /\ v < CopyInline + Room3
    BY LengthAssumption, SMT DEF Lengths, MinMatch
  <2> QED BY <2>1, FieldHolds, LengthAssumption, SMT DEF CopyField
<1> HIDE DEF field
<1>2. ReadLength(Op(tag, field, off, lits))
        = IF field.code <= CopyInline THEN field.code + MinMatch
          ELSE field.ext + CopyInline + MinMatch
  BY DEF ReadLength, Op
<1> QED BY <1>1, <1>2, LengthAssumption, SMT DEF field, Lengths, MinMatch

\* emitRepeat: one operation of that length.
LEMMA RepeatReads ==
  ASSUME NEW length \in 1..Room3
  PROVE  /\ Len(EmitRepeat(length)) = 1 /\ EmitRepeat(length)[1].tag = "repeat"
         /\ ReadLength(EmitRepeat(length)[1]) = length
<1>1. ReadLength(Op("repeat", LitField(length), 0, <<>>)) = length  BY LitFieldReads
<1> QED BY <1>1 DEF EmitRepeat, Op

\* encodeCopy2: an offset that a copy2 can hold is read back.
LEMMA Copy2Reads ==
  ASSUME NEW off \in MinCopy2Offset..MaxCopy2Offset, NEW length \in Lengths
  PROVE  CopyReads(EncodeCopy2(off, length), off, length)
<1> DEFINE field == (off - MinCopy2Offset) % Copy2Offsets
           op == Op("copy2", CopyField(length), field, <<>>)
<1>1. field = off - MinCopy2Offset
  <2>1. off - MinCopy2Offset \in Nat /\ off - MinCopy2Offset < Copy2Offsets /\ Copy2Offsets \in Nat
    BY OffsetAssumption, SMT DEF MaxCopy2Offset
  <2> QED BY <2>1, FieldFits
<1>2. ReadLength(op) = length  BY CopyFieldReads
<1>3. op.tag = "copy2" /\ ReadOffset(op) = field + MinCopy2Offset
  BY DEF Op, ReadOffset
<1>4. ReadOffset(op) = off  BY <1>1, <1>3, OffsetAssumption, SMT DEF MaxCopy2Offset
<1> HIDE DEF op, field
<1>5. Len(<<op>>) = 1 /\ <<op>>[1] = op  BY SMT
<1> QED BY <1>2, <1>3, <1>4, <1>5 DEF CopyReads, EncodeCopy2, op, field, CopyTags

\* encodeCopy3: so is one that a copy3 can hold, with any literals.
LEMMA Copy3Reads ==
  ASSUME NEW off \in MinCopy3Offset..MaxCopy3Offset, NEW length \in Lengths, NEW lits
  PROVE  CopyReads(EncodeCopy3(off, length, lits), off, length)
<1> DEFINE field == (off - MinCopy3Offset) % Copy3Offsets
           op == Op("copy3", CopyField(length), field, lits)
<1>1. field = off - MinCopy3Offset
  <2>1. off - MinCopy3Offset \in Nat /\ off - MinCopy3Offset < Copy3Offsets /\ Copy3Offsets \in Nat
    BY OffsetAssumption, SMT DEF MaxCopy3Offset
  <2> QED BY <2>1, FieldFits
<1>2. ReadLength(op) = length  BY CopyFieldReads
<1>3. op.tag = "copy3" /\ ReadOffset(op) = field + MinCopy3Offset
  BY DEF Op, ReadOffset
<1>4. ReadOffset(op) = off  BY <1>1, <1>3, OffsetAssumption, SMT DEF MaxCopy3Offset
<1> HIDE DEF op, field
<1>5. Len(<<op>>) = 1 /\ <<op>>[1] = op  BY SMT
<1> QED BY <1>2, <1>3, <1>4, <1>5 DEF CopyReads, EncodeCopy3, op, field, CopyTags

\* A copy and a repeat of what is left.
LEMMA CopyThenRepeat ==
  ASSUME NEW op, op.tag \in CopyTags, NEW off, ReadOffset(op) = off,
         NEW length \in Lengths, NEW part \in 1..(length - 1), ReadLength(op) = part
  PROVE  CopyReads(<<op>> \o EmitRepeat(length - part), off, length)
<1> DEFINE rep == Op("repeat", LitField(length - part), 0, <<>>)
<1>1. length - part \in 1..Room3 /\ length \in Int /\ part \in Int
  BY LengthAssumption, SMT DEF Lengths, MinMatch
<1>2. ReadLength(rep) = length - part  BY <1>1, LitFieldReads
<1>3. rep.tag = "repeat"  BY DEF Op
<1>4. EmitRepeat(length - part) = <<rep>>  BY DEF EmitRepeat
<1> HIDE DEF rep
<1>5. LET ops == <<op>> \o <<rep>> IN Len(ops) = 2 /\ ops[1] = op /\ ops[2] = rep
  BY TwoOps
<1>6. part + (length - part) = length  BY <1>1, SMT
<1> QED BY <1>2, <1>3, <1>4, <1>5, <1>6 DEF CopyReads

----------------------------------------------------------------------------
(* The theorems.                                                           *)

\* emitCopy: for every offset a block may have and every length, the one or two
\* operations emitted are read back as a copy of that length from that offset,
\* whichever of the three copies is chosen.
THEOREM EmitCopyReads ==
  ASSUME NEW off \in 1..MaxCopy3Offset, NEW length \in Lengths
  PROVE  CopyReads(EmitCopy(off, length), off, length)
<1> USE OffsetAssumption, LengthAssumption DEF MaxCopy2Offset, MaxCopy3Offset
<1>1. CASE off > MaxCopy2Offset
  <2>1. off \in MinCopy3Offset..MaxCopy3Offset  BY <1>1, SMT
  <2> QED BY <1>1, <2>1, Copy3Reads DEF EmitCopy
<1>2. CASE off <= MaxCopy2Offset /\ off > MaxCopy1Offset
  <2>1. off \in MinCopy2Offset..MaxCopy2Offset /\ ~(off > MaxCopy2Offset)  BY <1>2, SMT
  <2> QED BY <1>2, <2>1, Copy2Reads DEF EmitCopy
<1>3. CASE off <= MaxCopy1Offset /\ length < Room1 + Copy1Max
  <2> DEFINE field == LengthField(length - MinMatch, Copy1Inline, Copy1Inline - 1)
             op == Op("copy1", field, off - 1, <<>>)
  <2>1. /\ length - MinMatch \in Nat /\ Copy1Inline \in Nat /\ Copy1Inline - 1 \in Nat
        /\ length - MinMatch < Copy1Inline - 1 + Room3
    BY <1>3, SMT DEF Lengths, MinMatch
  <2>2. /\ length - MinMatch < Copy1Inline => field.code = length - MinMatch
        /\ length - MinMatch >= Copy1Inline =>
             /\ field.code \in {Copy1Inline, Copy1Inline + 1, Copy1Inline + 2}
             /\ field.ext = length - MinMatch - (Copy1Inline - 1)
    BY <2>1, FieldHolds, SMT
  <2> HIDE DEF field
  <2>3. ReadLength(op) = IF field.code < Copy1Inline THEN field.code + MinMatch
                         ELSE field.ext + Copy1Max
    BY DEF ReadLength, Op
  <2>4. op.tag = "copy1" /\ ReadOffset(op) = off - 1 + 1  BY DEF Op, ReadOffset
  <2>5. ReadOffset(op) = off  BY <2>4, SMT
  <2>6. EmitCopy(off, length) = <<op>>
    <3>1. ~(off > MaxCopy2Offset) /\ ~(off > MaxCopy1Offset)  BY <1>3, SMT
    <3> QED BY <1>3, <3>1 DEF EmitCopy, field
  <2> HIDE DEF op
  <2>7. ReadLength(op) = length
    <3>1. CASE length - MinMatch < Copy1Inline
      BY <2>2, <2>3, <3>1, SMT DEF Lengths, MinMatch
    <3>2. CASE length - MinMatch >= Copy1Inline
      <4>1. ~(field.code < Copy1Inline)  BY <2>2, <3>2, SMT
      <4> QED BY <2>2, <2>3, <3>2, <4>1, SMT DEF Lengths, MinMatch, Copy1Max
    <3> QED BY <3>1, <3>2, SMT DEF Lengths, MinMatch
  <2>8. Len(<<op>>) = 1 /\ <<op>>[1] = op  BY SMT
  <2> QED BY <2>4, <2>5, <2>6, <2>7, <2>8 DEF CopyReads, CopyTags
<1>4. CASE off <= MaxCopy1Offset /\ ~(length < Room1 + Copy1Max)
  <2> DEFINE op == Op("copy1", [code |-> Copy1Inline - 1, ext |-> 0], off - 1, <<>>)
  <2>1. op.tag = "copy1" /\ ReadOffset(op) = off - 1 + 1 /\ op.code = Copy1Inline - 1
    BY DEF Op, ReadOffset
  <2>2. ReadLength(op) = IF op.code < Copy1Inline THEN op.code + MinMatch ELSE op.ext + Copy1Max
    BY <2>1 DEF ReadLength
  <2>3. op.tag \in CopyTags  BY <2>1 DEF CopyTags
  <2>4. EmitCopy(off, length) = <<op>> \o EmitRepeat(length - Copy1Max)
    <3>1. ~(off > MaxCopy2Offset) /\ ~(off > MaxCopy1Offset)  BY <1>4, SMT
    <3> QED BY <1>4, <3>1 DEF EmitCopy
  <2> HIDE DEF op
  <2>5. ReadLength(op) = Copy1Max /\ ReadOffset(op) = off
    BY <2>1, <2>2, SMT DEF Copy1Max, MinMatch
  <2>6. Copy1Max \in 1..(length - 1)  BY <1>4, SMT DEF Copy1Max, Lengths, MinMatch
  <2> QED BY <2>3, <2>4, <2>5, <2>6, CopyThenRepeat
<1> QED BY <1>1, <1>2, <1>3, <1>4, SMT

\* emitCopyLits2: so are literals fused with a copy of two offset bytes, and the
\* repeat that follows a long one; the literals are kept.
THEOREM EmitLits2Reads ==
  ASSUME NEW off \in MinCopy2Offset..MaxCopy2Offset, NEW length \in Lengths, NEW lits
  PROVE  /\ CopyReads(EmitCopyLits2(lits, off, length), off, length)
         /\ EmitCopyLits2(lits, off, length)[1].lits = lits
<1> USE OffsetAssumption, LengthAssumption
<1> DEFINE field == (off - MinCopy2Offset) % Copy2Offsets
           Fused(code) == Op("fused2", [code |-> code, ext |-> 0], field, lits)
<1>1. field = off - MinCopy2Offset
  <2>1. off - MinCopy2Offset \in Nat /\ off - MinCopy2Offset < Copy2Offsets /\ Copy2Offsets \in Nat
    BY SMT DEF MaxCopy2Offset
  <2> QED BY <2>1, FieldFits
<1>2. off = field + MinCopy2Offset  BY <1>1, SMT DEF MaxCopy2Offset
<1> HIDE DEF field
<1>3. ASSUME NEW code
      PROVE  /\ Fused(code).tag = "fused2" /\ Fused(code).lits = lits
             /\ ReadOffset(Fused(code)) = off /\ ReadLength(Fused(code)) = code + MinMatch
  BY <1>2 DEF Op, ReadOffset, ReadLength
<1>4. CASE length > Copy2LitMaxLen
  <2> DEFINE op == Fused(FusedInline)
             rep == Op("repeat", LitField(length - Copy2LitMaxLen), 0, <<>>)
  <2>1. op.tag \in CopyTags /\ ReadOffset(op) = off /\ ReadLength(op) = Copy2LitMaxLen
    BY <1>3 DEF CopyTags, Copy2LitMaxLen, MinMatch
  <2>2. EmitCopyLits2(lits, off, length) = <<op>> \o EmitRepeat(length - Copy2LitMaxLen)
    BY <1>4 DEF EmitCopyLits2, Op, field
  <2>3. op.lits = lits  BY <1>3
  <2> HIDE DEF op
  <2>4. Copy2LitMaxLen \in 1..(length - 1)  BY <1>4, SMT DEF Copy2LitMaxLen, Lengths, MinMatch
  <2>5. CopyReads(<<op>> \o EmitRepeat(length - Copy2LitMaxLen), off, length)
    BY <2>1, <2>4, CopyThenRepeat
  <2>6. EmitRepeat(length - Copy2LitMaxLen) = <<rep>>  BY DEF EmitRepeat
  <2> HIDE DEF rep
  <2>7. (<<op>> \o <<rep>>)[1] = op  BY TwoOps
  <2> QED BY <2>2, <2>3, <2>5, <2>6, <2>7
<1>5. CASE ~(length > Copy2LitMaxLen)
  <2> DEFINE op == Fused(length - MinMatch)
  <2>1. EmitCopyLits2(lits, off, length) = <<op>>  BY <1>5 DEF EmitCopyLits2, Op, field
  <2>2. op.tag = "fused2" /\ ReadOffset(op) = off /\ op.lits = lits
        /\ ReadLength(op) = length - MinMatch + MinMatch
    BY <1>3
  <2> HIDE DEF op
  <2>3. ReadLength(op) = length  BY <2>2, SMT DEF Lengths, MinMatch
  <2>4. Len(<<op>>) = 1 /\ <<op>>[1] = op  BY SMT
  <2> QED BY <2>1, <2>2, <2>3, <2>4 DEF CopyReads, CopyTags
<1> QED BY <1>4, <1>5

\* emitCopyLits3: and literals fused with a copy of three offset bytes.
THEOREM EmitLits3Reads ==
  ASSUME NEW off \in MinCopy3Offset..MaxCopy3Offset, NEW length \in Lengths, NEW lits
  PROVE  /\ CopyReads(EmitCopyLits3(lits, off, length), off, length)
         /\ EmitCopyLits3(lits, off, length)[1].lits = lits
<1>1. CopyReads(EncodeCopy3(off, length, lits), off, length)  BY Copy3Reads
<1>2. EncodeCopy3(off, length, lits)[1].lits = lits  BY DEF EncodeCopy3, Op
<1> QED BY <1>1, <1>2 DEF EmitCopyLits3

----------------------------------------------------------------------------
(* Sizes.                                                                  *)

\* The extra length bytes that hold rest.
Extras(rest) == IF rest < Room1 THEN 1 ELSE IF rest < Room2 THEN 2 ELSE 3

\* How many extra bytes a length field has.
LEMMA FieldBytes ==
  ASSUME NEW v \in Nat, NEW inline \in Nat, NEW base \in Nat, base <= inline
  PROVE  LET field == LengthField(v, inline, base)
         IN  /\ v < inline => field.code < inline
             /\ v >= inline => ~(field.code < inline)
             /\ v >= inline => field.code - inline + 1 = Extras(v - base)
<1> USE LengthAssumption DEF LengthField, Extras
<1>1. CASE v < inline  BY <1>1, SMT
<1>2. CASE v >= inline
  <2> DEFINE rest == v - base
  <2>1. CASE rest < Room1  BY <1>2, <2>1, SMT
  <2>2. CASE rest >= Room1 /\ rest < Room2  BY <1>2, <2>2, SMT
  <2>3. CASE rest >= Room1 /\ rest >= Room2  BY <1>2, <2>3, SMT
  <2> QED BY <1>2, <2>1, <2>2, <2>3, SMT
<1> QED BY <1>1, <1>2, SMT

\* The bytes of an operation without literals.
LEMMA OpSize ==
  ASSUME NEW tag \in {"repeat", "copy1", "copy2", "copy3"}, NEW field, NEW off
  PROVE  LET op == Op(tag, field, off, <<>>)
             extra == IF field.code < Inline(tag) THEN 0 ELSE field.code - Inline(tag) + 1
         IN  OpBytes(op) = extra + (IF tag = "repeat" THEN 1 ELSE IF tag = "copy1" THEN 2
                                    ELSE IF tag = "copy2" THEN 3 ELSE 4) + 0
<1> DEFINE op == Op(tag, field, off, <<>>)
<1>1. op.tag = tag /\ op.code = field.code /\ op.lits = <<>>  BY DEF Op
<1>2. Len(op.lits) = 0  BY <1>1, SMT
<1>3. ExtraBytes(op) = IF field.code < Inline(tag) THEN 0 ELSE field.code - Inline(tag) + 1
  BY <1>1 DEF ExtraBytes
<1>4. HeadBytes(op) = ExtraBytes(op) + (IF tag = "repeat" THEN 1 ELSE IF tag = "copy1" THEN 2
                                        ELSE IF tag = "copy2" THEN 3 ELSE 4)
  <2>1. CASE tag = "repeat"  BY <1>1, <2>1 DEF HeadBytes
  <2>2. CASE tag = "copy1"  BY <1>1, <2>2 DEF HeadBytes
  <2>3. CASE tag = "copy2"  BY <1>1, <2>3 DEF HeadBytes
  <2>4. CASE tag = "copy3"  BY <1>1, <2>4 DEF HeadBytes
  <2> QED BY <2>1, <2>2, <2>3, <2>4
<1> QED BY <1>2, <1>3, <1>4 DEF OpBytes

\* encodeCopy2 and encodeCopy3 without literals.
LEMMA CopySize ==
  ASSUME NEW length \in Lengths, NEW tag \in {"copy2", "copy3"}, NEW off
  PROVE  LET rest == length - MinMatch - CopyInline
         IN  OpBytes(Op(tag, CopyField(length), off, <<>>))
               = (IF rest <= 0 THEN 0 ELSE IF rest < Room1 THEN 1 ELSE IF rest < Room2 THEN 2 ELSE 3)
                 + (IF tag = "copy2" THEN 3 ELSE 4)
<1> USE LengthAssumption
<1> DEFINE v == length - MinMatch
           rest == v - CopyInline
           field == CopyField(length)
           bytes == OpBytes(Op(tag, field, off, <<>>))
<1>1. v \in Nat /\ CopyInline \in Nat /\ rest \in Int /\ length \in Nat
  BY SMT DEF Lengths, MinMatch
<1>2. /\ v < CopyInline + 1 => field.code < CopyInline + 1
      /\ v >= CopyInline + 1 => ~(field.code < CopyInline + 1)
      /\ v >= CopyInline + 1 => field.code - (CopyInline + 1) + 1 = Extras(rest)
  <2>1. CopyInline + 1 \in Nat /\ CopyInline <= CopyInline + 1  BY <1>1, SMT
  <2> QED BY <1>1, <2>1, FieldBytes DEF CopyField
<1>3. bytes = (IF field.code < CopyInline + 1 THEN 0 ELSE field.code - (CopyInline + 1) + 1)
              + (IF tag = "copy2" THEN 3 ELSE 4) + 0
  <2>1. Inline(tag) = CopyInline + 1  BY DEF Inline
  <2>2. CASE tag = "copy2"  BY <2>1, <2>2, OpSize
  <2>3. CASE tag = "copy3"  BY <2>1, <2>3, OpSize
  <2> QED BY <2>2, <2>3
<1> HIDE DEF field, bytes
<1>4. bytes = (IF rest <= 0 THEN 0 ELSE IF rest < Room1 THEN 1 ELSE IF rest < Room2 THEN 2 ELSE 3)
              + (IF tag = "copy2" THEN 3 ELSE 4)
  <2>1. CASE v < CopyInline + 1
    <3>1. rest <= 0 /\ field.code < CopyInline + 1  BY <1>1, <1>2, <2>1, SMT
    <3> HIDE DEF rest
    <3> QED BY <1>3, <3>1, SMT
  <2>2. CASE v >= CopyInline + 1
    <3>1. ~(rest <= 0)  BY <1>1, <2>2, SMT
    <3>2. ~(field.code < CopyInline + 1)  BY <1>2, <2>2
    <3>3. field.code - (CopyInline + 1) + 1 = Extras(rest)
      BY <1>2, <2>2
    <3> DEFINE extra == field.code - (CopyInline + 1) + 1
    <3>4. bytes = extra + (IF tag = "copy2" THEN 3 ELSE 4) + 0  BY <1>3, <3>2
    <3> HIDE DEF extra, rest
    <3>5. extra = IF rest < Room1 THEN 1 ELSE IF rest < Room2 THEN 2 ELSE 3
      BY <3>3 DEF extra, Extras
    <3> QED BY <3>1, <3>4, <3>5, SMT
  <2> QED BY <1>1, <2>1, <2>2, SMT
<1> QED BY <1>4 DEF bytes, field

\* emitRepeat.
LEMMA RepeatSize ==
  ASSUME NEW length \in 1..Room3
  PROVE  OpBytes(Op("repeat", LitField(length), 0, <<>>)) = EmitRepeatSize(length)
<1> USE LengthAssumption
<1> DEFINE v == length - 1
           rest == v - LitInline
           field == LitField(length)
           bytes == OpBytes(Op("repeat", field, 0, <<>>))
<1>1. v \in Nat /\ LitInline \in Nat /\ rest \in Int /\ length \in Nat /\ length > 0  BY SMT
<1>2. /\ v < LitInline => field.code < LitInline
      /\ v >= LitInline => ~(field.code < LitInline)
      /\ v >= LitInline => field.code - LitInline + 1 = Extras(rest)
  BY <1>1, FieldBytes, SMT DEF LitField
<1>3. bytes = (IF field.code < LitInline THEN 0 ELSE field.code - LitInline + 1) + 1 + 0
  <2>1. Inline("repeat") = LitInline  BY DEF Inline
  <2> QED BY <2>1, OpSize
<1> HIDE DEF field, bytes
<1>4. CASE v < LitInline
  <2>1. bytes = 1  BY <1>2, <1>3, <1>4, SMT
  <2>2. EmitRepeatSize(length) = 1  BY <1>1, <1>4, SMT DEF EmitRepeatSize
  <2> QED BY <2>1, <2>2 DEF bytes, field
<1>5. CASE v >= LitInline
  <2> DEFINE extra == field.code - LitInline + 1
  <2>1. bytes = extra + 1 + 0  BY <1>2, <1>3, <1>5
  <2>2. extra = IF rest < Room1 THEN 1 ELSE IF rest < Room2 THEN 2 ELSE 3
    BY <1>2, <1>5 DEF Extras
  <2> HIDE DEF extra
  <2>3. bytes = IF rest < Room1 THEN 2 ELSE IF rest < Room2 THEN 3 ELSE 4
    BY <1>1, <2>1, <2>2, SMT
  <2>4. EmitRepeatSize(length) = IF rest < Room1 THEN 2 ELSE IF rest < Room2 THEN 3 ELSE 4
    BY <1>1, <1>5, SMT DEF EmitRepeatSize
  <2> QED BY <2>3, <2>4 DEF bytes, field
<1> QED BY <1>1, <1>4, <1>5, SMT

\* emitCopySize: for every offset and every length, the size the smallest level
\* reckons a copy by is what emitCopy writes.
THEOREM CopySizeExact ==
  ASSUME NEW off \in Nat \ {0}, NEW length \in Lengths
  PROVE  BytesOf(EmitCopy(off, length)) = EmitCopySize(off, length)
<1> USE OffsetAssumption, LengthAssumption
<1> DEFINE rest == length - MinMatch - CopyInline
           One(op) == Len(<<op>>) = 1 /\ <<op>>[1] = op
<1>1. /\ off \in Nat /\ MaxCopy2Offset \in Nat /\ MaxCopy1Offset \in Nat
      /\ length \in Nat /\ rest \in Int
  BY SMT DEF MaxCopy2Offset, MaxCopy3Offset, Lengths, MinMatch
<1>2. CASE off > MaxCopy2Offset
  <2> DEFINE op == Op("copy3", CopyField(length), (off - MinCopy3Offset) % Copy3Offsets, <<>>)
  <2>1. EmitCopy(off, length) = <<op>>  BY <1>2 DEF EmitCopy, EncodeCopy3
  <2>2. OpBytes(op) = (IF rest <= 0 THEN 0 ELSE IF rest < Room1 THEN 1
                       ELSE IF rest < Room2 THEN 2 ELSE 3) + 4
    BY CopySize
  <2> HIDE DEF op
  <2>3. One(op)  BY SMT
  <2>4. BytesOf(EmitCopy(off, length)) = OpBytes(op)  BY <2>1, <2>3 DEF BytesOf
  <2> HIDE DEF rest
  <2>5. EmitCopySize(off, length) = IF rest <= 0 THEN 4
          ELSE 4 + (IF rest < Room1 THEN 1 ELSE IF rest < Room2 THEN 2 ELSE 3)
    BY <1>2 DEF EmitCopySize, rest
  <2> QED BY <1>1, <2>2, <2>4, <2>5, SMT
<1>3. CASE off <= MaxCopy2Offset /\ off > MaxCopy1Offset
  <2> DEFINE op == Op("copy2", CopyField(length), (off - MinCopy2Offset) % Copy2Offsets, <<>>)
  <2>1. ~(off > MaxCopy2Offset)  BY <1>1, <1>3, SMT
  <2>2. EmitCopy(off, length) = <<op>>  BY <1>3, <2>1 DEF EmitCopy, EncodeCopy2
  <2>3. OpBytes(op) = (IF rest <= 0 THEN 0 ELSE IF rest < Room1 THEN 1
                       ELSE IF rest < Room2 THEN 2 ELSE 3) + 3
    BY CopySize
  <2> HIDE DEF op
  <2>4. One(op)  BY SMT
  <2>5. BytesOf(EmitCopy(off, length)) = OpBytes(op)  BY <2>2, <2>4 DEF BytesOf
  <2> HIDE DEF rest
  <2>6. EmitCopySize(off, length) = IF rest <= 0 THEN 3 ELSE IF rest < Room1 THEN 4
          ELSE IF rest < Room2 THEN 5 ELSE 6
    BY <1>3, <2>1 DEF EmitCopySize, EmitCopy2Size, rest
  <2> QED BY <1>1, <2>3, <2>5, <2>6, SMT
<1>4. CASE off <= MaxCopy1Offset
  <2>1. ~(off > MaxCopy2Offset) /\ ~(off > MaxCopy1Offset)  BY <1>1, <1>4, SMT DEF MaxCopy2Offset
  <2>2. EmitCopySize(off, length) =
          IF length <= Copy1Max THEN 2 ELSE IF length < Copy1Max + Room1 THEN 3
          ELSE 2 + EmitRepeatSize(length - Copy1Max)
    BY <2>1 DEF EmitCopySize
  <2>3. Inline("copy1") = Copy1Inline  BY DEF Inline
  <2>4. CASE length < Room1 + Copy1Max
    <3> DEFINE field == LengthField(length - MinMatch, Copy1Inline, Copy1Inline - 1)
               op == Op("copy1", field, off - 1, <<>>)
    <3>1. EmitCopy(off, length) = <<op>>  BY <2>1, <2>4 DEF EmitCopy
    <3>2. OpBytes(op) = (IF field.code < Copy1Inline THEN 0
                         ELSE field.code - Copy1Inline + 1) + 2 + 0
      BY <2>3, OpSize
    <3>3. /\ length - MinMatch \in Nat /\ Copy1Inline \in Nat /\ Copy1Inline - 1 \in Nat
          /\ Copy1Inline - 1 <= Copy1Inline
      BY SMT DEF Lengths, MinMatch
    <3>4. /\ length - MinMatch < Copy1Inline => field.code < Copy1Inline
          /\ length - MinMatch >= Copy1Inline => ~(field.code < Copy1Inline)
          /\ length - MinMatch >= Copy1Inline =>
               field.code - Copy1Inline + 1 = Extras(length - MinMatch - (Copy1Inline - 1))
      BY <3>3, FieldBytes
    <3> HIDE DEF field, op
    <3>5. One(op)  BY SMT
    <3>6. BytesOf(EmitCopy(off, length)) = OpBytes(op)  BY <3>1, <3>5 DEF BytesOf
    <3>7. CASE length - MinMatch < Copy1Inline
      <4>1. OpBytes(op) = 2  BY <3>2, <3>4, <3>7, SMT
      <4>2. length <= Copy1Max  BY <1>1, <3>3, <3>7, SMT DEF Copy1Max, MinMatch
      <4> QED BY <2>2, <3>6, <4>1, <4>2
    <3>8. CASE length - MinMatch >= Copy1Inline
      <4>1. /\ ~(length <= Copy1Max) /\ length < Copy1Max + Room1
            /\ length - MinMatch - (Copy1Inline - 1) < Room1
        BY <1>1, <2>4, <3>3, <3>8, SMT DEF Copy1Max, MinMatch
      <4>2. field.code - Copy1Inline + 1 = 1  BY <3>4, <3>8, <4>1 DEF Extras
      <4>3. OpBytes(op) = 1 + 2 + 0  BY <3>2, <3>4, <3>8, <4>2
      <4>4. EmitCopySize(off, length) = 3  BY <2>2, <4>1
      <4> QED BY <3>6, <4>3, <4>4, SMT
    <3> QED BY <3>3, <3>7, <3>8, SMT
  <2>5. CASE ~(length < Room1 + Copy1Max)
    <3> DEFINE field == [code |-> Copy1Inline - 1, ext |-> 0]
               op == Op("copy1", field, off - 1, <<>>)
               rep == Op("repeat", LitField(length - Copy1Max), 0, <<>>)
    <3>1. EmitCopy(off, length) = <<op>> \o <<rep>>  BY <2>1, <2>5 DEF EmitCopy, EmitRepeat
    <3>2. field.code < Copy1Inline  BY SMT
    <3>3. OpBytes(op) = 2
      <4>1. OpBytes(op) = 0 + 2 + 0  BY <2>3, <3>2, OpSize
      <4>2. 0 + 2 + 0 = 2  BY SMT
      <4> QED BY <4>1, <4>2
    <3>4. length - Copy1Max \in 1..Room3 /\ ~(length <= Copy1Max) /\ ~(length < Copy1Max + Room1)
      BY <1>1, <2>5, SMT DEF Copy1Max, Lengths
    <3>5. OpBytes(rep) = EmitRepeatSize(length - Copy1Max)  BY <3>4, RepeatSize
    <3> HIDE DEF op, rep
    <3>6. LET ops == <<op>> \o <<rep>> IN Len(ops) = 2 /\ ops[1] = op /\ ops[2] = rep
      BY TwoOps
    <3>7. BytesOf(<<op>> \o <<rep>>) = OpBytes(op) + OpBytes(rep)  BY <3>6 DEF BytesOf
    <3>8. EmitCopySize(off, length) = 2 + EmitRepeatSize(length - Copy1Max)  BY <2>2, <3>4
    <3> QED BY <3>1, <3>3, <3>5, <3>7, <3>8
  <2> QED BY <2>4, <2>5
<1> QED BY <1>1, <1>2, <1>3, <1>4, SMT

=============================================================================
