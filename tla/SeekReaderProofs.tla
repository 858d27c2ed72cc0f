-------------------------- MODULE SeekReaderProofs --------------------------
(***************************************************************************)
(* Whatever mix of Read, ReadByte, Skip, WriteTo, ReadAt and Reset there is, *)
(* the Reader passes on the data of the stream in order, none unchecked, and *)
(* reports the end only where it is: an inductive invariant of ReadAtSpec.  *)
(* (With Seek it is not one: the run SeekStale shows why.)                  *)
(***************************************************************************)
EXTENDS SeekReader, FormatProofs, FiniteSetTheorems

\* What an index has to be made of: one MinLZ stream, with nothing but skippable chunks
\* before its identifier; and the Reader has to see that identifier, which tells it that
\* an EOF marker comes.  Over joined streams blockStart begins anew at each identifier,
\* but the offsets of an index do not.
IndexFits ==
  /\ ~IgnoreStreamID \/ Indexed = {}
  /\ \A s \in Indexed : \A k \in DOMAIN s :
       /\ s[k].kind # "legacy"
       /\ s[k].kind \in IdKinds =>
            s[k].kind = "idMinLZ" /\ \A m \in 1 .. k - 1 : s[m].kind = "skip"

\* What the header state is made of.
Headers == [header : BOOLEAN, wantEOF : BOOLEAN, maxBlock : Int, maxBuf : Int, snappy : BOOLEAN]

TypeOK ==
  /\ stream \in Seq(Chunks) /\ pos \in 0 .. Len(stream)
  /\ h \in Headers
  /\ start \in Int /\ j \in Nat /\ i \in 0 .. j /\ dec \in Nat
  /\ err \in {"none", "eof", "unexpectedEOF", "io", "corrupt", "crc", "toolarge", "unsupported", "unskippable"}
  /\ pc \in {"idle", "read", "skip", "write", "head", "seek"}
  /\ left \in Nat /\ want \in Nat /\ target \in Nat
  /\ at \in 0 .. TotalOf(stream)
  /\ ix # NoIndex => stream \in Indexed /\ ix \in Indexes(stream)

\* decoded[:j] is the last block before pos, and it was checked.
Checked(c) == c.kind = "raw" \/ c.bad = "no" \/ (IgnoreCRC /\ c.bad = "crc")
Held ==
  /\ dec \in 1 .. pos /\ UnitsIn(dec) = UnitsIn(pos) /\ UnitsIn(dec - 1) = UnitsIn(pos) - j
  /\ Checked(stream[dec])
Ended == err \in {"eof", "unexpectedEOF"}
Indexing == ix # NoIndex

\* What is left in the buffer is the end of the last block before pos; a Seek may go
\* back in it as long as a block is there.
BufferInv ==
  /\ i < j => Held
  /\ Indexing /\ (pc = "seek" \/ (pc = "idle" /\ err = "none")) /\ j > 0 => Held
  /\ ~h.header => i = j

\* The user is as far from the end of the chunks read as there are bytes in the buffer.
PositionInv ==
  /\ Settled \/ Ended => at = UnitsIn(pos) - (j - i)
  /\ Ended => pos = Len(stream) /\ i = j /\ pc = "idle" /\ ~h.wantEOF
  /\ pc # "idle" => err = "none"
  /\ pc = "head" => UnitsIn(pos) = j - i /\ Indexing
  /\ pc = "seek" => h.header /\ Indexing
  /\ pc \in {"head", "seek"} => want > 0

\* What blockStart means where an index is used.
SeekInv ==
  Indexing =>
    /\ h.header /\ err = "none" => start + j = UnitsIn(pos)
    /\ start + j \in 0 .. TotalOf(stream)
    /\ h.header => h.wantEOF
    /\ Settled \/ Ended => start + j = UnitsIn(pos)

\* ... and elsewhere: counted from the last identifier.
LastId(s, p) ==
  LET ids == {k \in 1 .. p : s[k].kind \in IdKinds} IN IF ids = {} THEN 0 ELSE Max(ids)
From == LastId(stream, pos)
Uncounted == /\ pc = "write" \/ pos = Len(stream)
             /\ j = 0 /\ \E k \in From + 1 .. pos : stream[k].kind = "legacy"
StartInv == (Settled \/ Ended) /\ ~Uncounted => start + j = UnitsIn(pos) - UnitsIn(From)

\* Where no EOF marker is outstanding every MinLZ stream has had its.
MarkerInv ==
  ~h.wantEOF \/ ~h.header =>
    \A k \in 1 .. pos : stream[k].kind = "idMinLZ" => \E m \in k .. pos : stream[m].kind = "eof"

ReaderInv == IndexFits /\ TypeOK /\ BufferInv /\ PositionInv /\ SeekInv /\ StartInv /\ MarkerInv

-----------------------------------------------------------------------------
(* The last of some chunks, and the totals                                 *)

\* A set of numbers up to n has a largest one, which is its Max.
LEMMA MaxIs ==
  ASSUME NEW n \in Nat, NEW S, S \subseteq 0 .. n, S # {}
  PROVE  Max(S) \in S /\ \A x \in S : x <= Max(S)
<1> DEFINE Has(m) == \E x \in S : \A y \in S : y <= x
           G == {m \in Nat : (\E x \in S : n - m <= x) => Has(m)}
<1>1. 0 \in G
  OBVIOUS
<1>2. ASSUME NEW m \in Nat, m \in G PROVE m + 1 \in G
  <2> SUFFICES ASSUME NEW x \in S, n - (m + 1) <= x PROVE Has(m + 1)
    OBVIOUS
  <2>1. CASE \E y \in S : n - m <= y
    BY <1>2, <2>1
  <2>2. CASE \A y \in S : ~(n - m <= y)
    <3>1. \A y \in S : y <= x
      BY <2>2
    <3> QED
      BY <3>1
  <2> QED
    BY <2>1, <2>2
<1>3. Nat \subseteq G
  <2> HIDE DEF G
  <2> QED BY <1>1, <1>2, NatSet
<1>4. PICK x \in S : \A y \in S : y <= x
  <2>1. n \in G
    BY <1>3
  <2>2. \E x \in S : n - n <= x
    <3>1. PICK x \in S : TRUE
      OBVIOUS
    <3>2. n - n <= x
      BY <3>1
    <3> QED
      BY <3>2
  <2> QED
    BY <2>1, <2>2
<1> QED
  BY <1>4 DEF Max

-----------------------------------------------------------------------------
(* The sizes of the first chunks                                           *)

LEMMA TotalsExist ==
  ASSUME NEW s \in Seq(Chunks)
  PROVE  \E f \in [0 .. Len(s) -> Nat] :
           f = [k \in 0 .. Len(s) |-> IF k = 0 THEN 0 ELSE f[k - 1] + UnitsOf(s[k])]
<1> DEFINE Good(n, f) == f = [k \in 0 .. n |-> IF k = 0 THEN 0 ELSE f[k - 1] + UnitsOf(s[k])]
           S == {n \in Nat : n <= Len(s) => \E f \in [0 .. n -> Nat] : Good(n, f)}
<1>1. 0 \in S
  <2> DEFINE f == [k \in 0 .. 0 |-> 0]
  <2>1. f \in [0 .. 0 -> Nat]
    OBVIOUS
  <2>2. Good(0, f)
    <3>1. ASSUME NEW k \in 0 .. 0 PROVE f[k] = IF k = 0 THEN 0 ELSE f[k - 1] + UnitsOf(s[k])
      OBVIOUS
    <3> QED
      BY <3>1
  <2> QED
    BY <2>1, <2>2
<1>2. ASSUME NEW n \in Nat, n \in S PROVE n + 1 \in S
  <2> SUFFICES ASSUME n + 1 <= Len(s) PROVE \E f \in [0 .. n + 1 -> Nat] : Good(n + 1, f)
    OBVIOUS
  <2>1. PICK g \in [0 .. n -> Nat] : Good(n, g)
    BY <1>2
  <2>2. s[n + 1] \in Chunks /\ UnitsOf(s[n + 1]) \in Nat
    BY DEF Chunks, UnitsOf, DataKinds, MinLZKinds
  <2> DEFINE f == [k \in 0 .. n + 1 |-> IF k = n + 1 THEN g[n] + UnitsOf(s[n + 1]) ELSE g[k]]
  <2>3. f \in [0 .. n + 1 -> Nat]
    BY <2>2
  <2>4. Good(n + 1, f)
    <3>1. ASSUME NEW k \in 0 .. n + 1
          PROVE  f[k] = IF k = 0 THEN 0 ELSE f[k - 1] + UnitsOf(s[k])
      BY <2>1
    <3> QED
      BY <3>1
  <2> QED
    BY <2>3, <2>4
<1> HIDE DEF S
<1>3. Nat \subseteq S
  BY <1>1, <1>2, NatSet
<1>4. Len(s) \in S
  BY <1>3
<1>5. Len(s) \in Nat
  OBVIOUS
<1> QED
  BY <1>4, <1>5 DEF S

LEMMA TotalsAre ==
  ASSUME NEW s \in Seq(Chunks)
  PROVE  /\ Totals(s) \in [0 .. Len(s) -> Nat]
         /\ Totals(s)[0] = 0
         /\ \A k \in 1 .. Len(s) : Totals(s)[k] = Totals(s)[k - 1] + UnitsOf(s[k])
<1> DEFINE f == CHOOSE f : f = [k \in 0 .. Len(s) |->
                                  IF k = 0 THEN 0 ELSE f[k - 1] + UnitsOf(s[k])]
<1>1. PICK g \in [0 .. Len(s) -> Nat] :
        g = [k \in 0 .. Len(s) |-> IF k = 0 THEN 0 ELSE g[k - 1] + UnitsOf(s[k])]
  BY TotalsExist
<1>2. f = [k \in 0 .. Len(s) |-> IF k = 0 THEN 0 ELSE f[k - 1] + UnitsOf(s[k])]
  BY <1>1
<1>3. Totals(s) = f
  BY DEF Totals
<1> HIDE DEF f
<1>4. \A k \in 1 .. Len(s) : UnitsOf(s[k]) \in Nat
  BY DEF Chunks, UnitsOf, DataKinds, MinLZKinds
<1>5. f[0] = 0 /\ \A k \in 1 .. Len(s) : f[k] = f[k - 1] + UnitsOf(s[k])
  BY <1>2
<1>6. \A n \in 0 .. Len(s) : f[n] \in Nat
  <2> DEFINE S == {n \in Nat : n <= Len(s) => f[n] \in Nat}
  <2>1. 0 \in S
    BY <1>5
  <2>2. ASSUME NEW n \in Nat, n \in S PROVE n + 1 \in S
    BY <1>4, <1>5, <2>2
  <2> HIDE DEF S
  <2>3. Nat \subseteq S
    BY <2>1, <2>2, NatSet
  <2> QED
    BY <2>3 DEF S
<1>7. f \in [0 .. Len(s) -> Nat]
  BY <1>2, <1>6
<1> QED
  BY <1>3, <1>5, <1>7

\* They grow, and not over chunks without data.
LEMMA TotalsGrow ==
  ASSUME NEW s \in Seq(Chunks), NEW a \in 0 .. Len(s), NEW b \in a .. Len(s)
  PROVE  /\ Totals(s)[a] <= Totals(s)[b]
         /\ (\A k \in a + 1 .. b : s[k].kind \notin DataKinds) => Totals(s)[a] = Totals(s)[b]
<1> DEFINE T == Totals(s)
           Flat(m) == \A k \in a + 1 .. m : s[k].kind \notin DataKinds
           S == {n \in Nat : a + n <= Len(s) => T[a] <= T[a + n] /\ (Flat(a + n) => T[a] = T[a + n])}
<1>1. /\ T \in [0 .. Len(s) -> Nat]
      /\ \A k \in 1 .. Len(s) : T[k] = T[k - 1] + UnitsOf(s[k]) /\ UnitsOf(s[k]) \in Nat
  BY TotalsAre DEF Chunks, UnitsOf, DataKinds, MinLZKinds
<1> HIDE DEF T
<1>2. 0 \in S
  <2>1. a + 0 = a /\ T[a] \in Nat
    BY <1>1
  <2> QED
    BY <2>1
<1>3. ASSUME NEW n \in Nat, n \in S PROVE n + 1 \in S
  <2> SUFFICES ASSUME a + (n + 1) <= Len(s)
               PROVE  T[a] <= T[a + (n + 1)] /\ (Flat(a + (n + 1)) => T[a] = T[a + (n + 1)])
    OBVIOUS
  <2>1. T[a + (n + 1)] = T[a + n] + UnitsOf(s[a + (n + 1)]) /\ UnitsOf(s[a + (n + 1)]) \in Nat
    BY <1>1
  <2>2. T[a] <= T[a + n] /\ (Flat(a + n) => T[a] = T[a + n])
    BY <1>3
  <2>3. Flat(a + (n + 1)) => Flat(a + n) /\ UnitsOf(s[a + (n + 1)]) = 0
    BY DEF UnitsOf
  <2>4. a + n \in 0 .. Len(s)
    OBVIOUS
  <2>5. T[a] \in Nat /\ T[a + n] \in Nat
    BY <1>1, <2>4
  <2> QED
    BY <2>1, <2>2, <2>3, <2>5
<1> HIDE DEF S
<1>4. Nat \subseteq S
  BY <1>2, <1>3, NatSet
<1>5. b - a \in S /\ a + (b - a) = b
  BY <1>4
<1> QED
  BY <1>5 DEF S, T

-----------------------------------------------------------------------------
(* Identifiers and index entries                                           *)

LEMMA LastIdIs ==
  ASSUME NEW s \in Seq(Chunks), NEW p \in 0 .. Len(s)
  PROVE  /\ LastId(s, p) \in 0 .. p
         /\ LastId(s, p) # 0 => s[LastId(s, p)].kind \in IdKinds
         /\ \A k \in LastId(s, p) + 1 .. p : s[k].kind \notin IdKinds
<1> DEFINE ids == {k \in 1 .. p : s[k].kind \in IdKinds}
<1>1. CASE ids = {}
  BY <1>1 DEF LastId
<1>2. CASE ids # {}
  <2>1. LastId(s, p) = Max(ids)
    BY <1>2 DEF LastId
  <2>2. p \in Nat /\ ids \subseteq 0 .. p
    OBVIOUS
  <2> HIDE DEF ids
  <2>3. Max(ids) \in ids /\ \A x \in ids : x <= Max(ids)
    BY <1>2, <2>2, MaxIs
  <2> DEFINE l == LastId(s, p)
  <2>4. l \in ids /\ \A x \in ids : x <= l
    BY <2>1, <2>3
  <2> HIDE DEF l
  <2>5. l \in 1 .. p /\ s[l].kind \in IdKinds
    BY <2>4 DEF ids
  <2>6. \A k \in l + 1 .. p : s[k].kind \notin IdKinds
    <3> SUFFICES ASSUME NEW k \in l + 1 .. p, s[k].kind \in IdKinds PROVE FALSE
      OBVIOUS
    <3>1. k \in ids /\ k > l
      BY <2>5 DEF ids
    <3> QED
      BY <2>4, <2>5, <3>1
  <2> QED
    BY <2>5, <2>6 DEF l
<1> QED
  BY <1>1, <1>2

LEMMA LastIdOnly ==
  ASSUME NEW s \in Seq(Chunks), NEW p \in 0 .. Len(s), NEW f \in 0 .. p,
         f # 0 => s[f].kind \in IdKinds,
         \A k \in f + 1 .. p : s[k].kind \notin IdKinds
  PROVE  LastId(s, p) = f
<1> DEFINE l == LastId(s, p)
<1>1. /\ l \in 0 .. p
      /\ l # 0 => s[l].kind \in IdKinds
      /\ \A k \in l + 1 .. p : s[k].kind \notin IdKinds
  BY LastIdIs
<1> HIDE DEF l
<1>2. l <= f
  BY <1>1
<1>3. f <= l
  BY <1>1
<1>4. l = f
  BY <1>1, <1>2, <1>3
<1> QED
  BY <1>4 DEF l

\* One chunk further.
LEMMA LastIdNext ==
  ASSUME NEW s \in Seq(Chunks), NEW p \in 0 .. Len(s), p < Len(s)
  PROVE  LastId(s, p + 1) = IF s[p + 1].kind \in IdKinds THEN p + 1 ELSE LastId(s, p)
<1> DEFINE l == LastId(s, p)
<1>1. /\ l \in 0 .. p
      /\ l # 0 => s[l].kind \in IdKinds
      /\ \A k \in l + 1 .. p : s[k].kind \notin IdKinds
  BY LastIdIs
<1> HIDE DEF l
<1>2. p + 1 \in 0 .. Len(s)
  OBVIOUS
<1>3. CASE s[p + 1].kind \in IdKinds
  <2>1. \A k \in (p + 1) + 1 .. p + 1 : s[k].kind \notin IdKinds
    OBVIOUS
  <2>2. p + 1 \in 0 .. p + 1
    OBVIOUS
  <2> QED
    BY <1>2, <1>3, <2>1, <2>2, LastIdOnly
<1>4. CASE s[p + 1].kind \notin IdKinds
  <2>1. \A k \in l + 1 .. p + 1 : s[k].kind \notin IdKinds
    BY <1>1, <1>4
  <2>2. l \in 0 .. p + 1
    BY <1>1
  <2>3. LastId(s, p + 1) = l
    BY <1>1, <1>2, <2>1, <2>2, LastIdOnly
  <2> QED
    BY <1>4, <2>3 DEF l
<1> QED
  BY <1>3, <1>4

\* In a stream with an index nothing has come before the identifier.
LEMMA IdFirst ==
  ASSUME IndexFits, NEW s \in Seq(Chunks), s \in Indexed, NEW k \in 1 .. Len(s), s[k].kind \in IdKinds
  PROVE  s[k].kind = "idMinLZ" /\ Totals(s)[k] = 0
<1>1. s[k].kind = "idMinLZ" /\ \A m \in 1 .. k - 1 : s[m].kind = "skip"
  BY DEF IndexFits
<1>2. \A m \in 0 + 1 .. k : s[m].kind \notin DataKinds
  BY <1>1 DEF DataKinds, MinLZKinds
<1>3. 0 \in 0 .. Len(s) /\ k \in 0 .. Len(s)
  OBVIOUS
<1> QED
  BY <1>1, <1>2, <1>3, TotalsGrow, TotalsAre

LEMMA NoLegacy ==
  ASSUME IndexFits, NEW s \in Seq(Chunks), s \in Indexed, NEW k \in 1 .. Len(s)
  PROVE  s[k].kind # "legacy"
  BY DEF IndexFits

\* Find gives the start of a chunk before the EOF marker, with the units before it, or the
\* beginning.
LEMMA FindIs ==
  ASSUME NEW s \in Seq(Chunks), NEW x \in Indexes(s), NEW o \in Nat
  PROVE  \E k \in 0 .. Len(s) :
           Find(x, o) = Pair(k, Totals(s)[k]) /\ \A m \in 1 .. k : s[m].kind # "eof"
<1>1. PICK n \in 0 .. Len(s) : \E q \in [1 .. n -> ChunkStarts(s)] : x = [est |-> 1, off |-> q]
  BY DEF Indexes
<1>q. PICK q \in [1 .. n -> ChunkStarts(s)] : x = [est |-> 1, off |-> q]
  BY <1>1
<1>2. x.off = q /\ Len(q) = n /\ DOMAIN q = 1 .. n
  BY <1>q
<1> DEFINE Start(e) ==
             \E k \in 0 .. Len(s) : e = Pair(k, Totals(s)[k]) /\ \A m \in 1 .. k : s[m].kind # "eof"
<1>3. \A m \in 1 .. n : Start(q[m])
  <2> SUFFICES ASSUME NEW m \in 1 .. n PROVE Start(q[m])
    OBVIOUS
  <2>1. q[m] \in ChunkStarts(s)
    BY <1>1
  <2>2. PICK k \in DOMAIN s :
          q[m] = Pair(k - 1, Totals(s)[k - 1]) /\ \A l \in 1 .. k : s[l].kind # "eof"
    BY <2>1 DEF ChunkStarts
  <2>3. k - 1 \in 0 .. Len(s) /\ \A l \in 1 .. k - 1 : s[l].kind # "eof"
    BY <2>2
  <2> QED
    BY <2>2, <2>3
<1>4. Start(Pair(0, 0))
  BY TotalsAre
<1> DEFINE atOrBefore == {k \in DOMAIN x.off : x.off[k].u <= o}
           prefix == {k \in DOMAIN x.off : \A l \in 1 .. k : x.off[l].u <= o}
<1>5. \A S : S \subseteq 1 .. n /\ S # {} => Max(S) \in 1 .. n
  <2> SUFFICES ASSUME NEW S, S \subseteq 1 .. n, S # {} PROVE Max(S) \in 1 .. n
    OBVIOUS
  <2>1. n \in Nat /\ S \subseteq 0 .. n
    OBVIOUS
  <2> QED
    BY <2>1, MaxIs
<1>6. CASE Len(x.off) > LinearScan
  <2>1. n >= 1
    BY <1>2, <1>6, IndexAssumption
  <2>2. Find(x, o) = x.off[IF atOrBefore = {} THEN 1 ELSE Max(atOrBefore)]
    BY <1>6 DEF Find
  <2>3. atOrBefore \subseteq 1 .. n
    BY <1>2
  <2> HIDE DEF atOrBefore, Start
  <2>4. (IF atOrBefore = {} THEN 1 ELSE Max(atOrBefore)) \in 1 .. n
    <3>1. n \in Nat /\ 1 \in 1 .. n
      BY <2>1
    <3>2. atOrBefore # {} => Max(atOrBefore) \in 1 .. n
      BY <1>5, <2>3
    <3> QED
      BY <3>1, <3>2
  <2>5. Start(Find(x, o))
    BY <1>2, <1>3, <2>2, <2>4
  <2> QED
    BY <2>5 DEF Start
<1>7. CASE ~(Len(x.off) > LinearScan)
  <2>1. Find(x, o) = IF prefix = {} THEN Pair(0, 0) ELSE x.off[Max(prefix)]
    BY <1>7 DEF Find
  <2>2. prefix \subseteq 1 .. n
    BY <1>2
  <2> HIDE DEF prefix, Start
  <2>3. Start(Find(x, o))
    BY <1>2, <1>3, <1>4, <1>5, <2>1, <2>2
  <2> QED
    BY <2>3 DEF Start
<1> QED
  BY <1>6, <1>7

\* The sizes along the stream that is read.
LEMMA Units ==
  ASSUME TypeOK
  PROVE  /\ Len(stream) \in Nat /\ pos \in Nat /\ TotalOf(stream) \in Nat
         /\ \A k \in 0 .. Len(stream) : Totals(stream)[k] \in 0 .. TotalOf(stream)
         /\ Totals(stream)[0] = 0 /\ Totals(stream)[Len(stream)] = TotalOf(stream)
         /\ pos < Len(stream) =>
              /\ Cur \in Chunks /\ UnitsOf(Cur) \in Nat
              /\ Totals(stream)[pos + 1] = Totals(stream)[pos] + UnitsOf(Cur)
<1>1. stream \in Seq(Chunks) /\ Len(stream) \in Nat /\ pos \in 0 .. Len(stream)
  BY DEF TypeOK
<1>2. ASSUME NEW k \in 0 .. Len(stream)
      PROVE  Totals(stream)[k] \in Nat /\ Totals(stream)[k] <= Totals(stream)[Len(stream)]
  <2>1. Len(stream) \in k .. Len(stream)
    BY <1>1
  <2> QED
    BY <1>1, <2>1, TotalsAre, TotalsGrow
<1>3. pos < Len(stream) => Cur \in Chunks /\ UnitsOf(Cur) \in Nat
  BY <1>1 DEF Cur, Chunks, UnitsOf, DataKinds, MinLZKinds
<1>4. pos < Len(stream) => Totals(stream)[pos + 1] = Totals(stream)[(pos + 1) - 1] + UnitsOf(Cur)
  BY <1>1, TotalsAre DEF Cur
<1> QED
  BY <1>1, <1>2, <1>3, <1>4, TotalsAre DEF TotalOf

-----------------------------------------------------------------------------
(* The steps: the calls                                                    *)

LEMMA ReadKeeps ==
  ASSUME ReaderInv, NEW n \in Sizes, Read(n), UNCHANGED <<ix, target>>
  PROVE  ReaderInv'
<1>1. IndexFits /\ TypeOK /\ BufferInv /\ PositionInv /\ SeekInv /\ StartInv /\ MarkerInv
  BY DEF ReaderInv
<1>11. TypeOK'
  BY <1>1, StreamReaderAssumption DEF TypeOK, vars, block, call, Read
<1>12. BufferInv'
  BY <1>1, StreamReaderAssumption DEF BufferInv, Held, Indexing, UnitsIn, Checked, vars, block, call, Read
<1>13. PositionInv'
  BY <1>1, StreamReaderAssumption DEF PositionInv, Settled, Ended, Indexing, UnitsIn, vars, block, call, Read
<1>14. SeekInv'
  BY <1>1, StreamReaderAssumption DEF SeekInv, Settled, Ended, Indexing, UnitsIn, vars, block, call, Read
<1>15. StartInv'
  BY <1>1, StreamReaderAssumption DEF StartInv, Settled, Ended, Uncounted, From, UnitsIn, vars, block, call, Read
<1>16. MarkerInv'
  BY <1>1, StreamReaderAssumption DEF MarkerInv, vars, block, call, Read
<1> QED
  BY <1>1, <1>11, <1>12, <1>13, <1>14, <1>15, <1>16 DEF ReaderInv, IndexFits

LEMMA SkipKeeps ==
  ASSUME ReaderInv, NEW n \in Sizes, Skip(n), UNCHANGED <<ix, target>>
  PROVE  ReaderInv'
<1>1. IndexFits /\ TypeOK /\ BufferInv /\ PositionInv /\ SeekInv /\ StartInv /\ MarkerInv
  BY DEF ReaderInv
<1>11. TypeOK'
  BY <1>1, StreamReaderAssumption DEF TypeOK, vars, block, call, Skip
<1>12. BufferInv'
  BY <1>1, StreamReaderAssumption DEF BufferInv, Held, Indexing, UnitsIn, Checked, vars, block, call, Skip
<1>13. PositionInv'
  BY <1>1, StreamReaderAssumption DEF PositionInv, Settled, Ended, Indexing, UnitsIn, vars, block, call, Skip
<1>14. SeekInv'
  BY <1>1, StreamReaderAssumption DEF SeekInv, Settled, Ended, Indexing, UnitsIn, vars, block, call, Skip
<1>15. StartInv'
  BY <1>1, StreamReaderAssumption DEF StartInv, Settled, Ended, Uncounted, From, UnitsIn, vars, block, call, Skip
<1>16. MarkerInv'
  BY <1>1, StreamReaderAssumption DEF MarkerInv, vars, block, call, Skip
<1> QED
  BY <1>1, <1>11, <1>12, <1>13, <1>14, <1>15, <1>16 DEF ReaderInv, IndexFits

LEMMA WriteToKeeps ==
  ASSUME ReaderInv, WriteTo, UNCHANGED <<ix, target>>
  PROVE  ReaderInv'
<1>1. IndexFits /\ TypeOK /\ BufferInv /\ PositionInv /\ SeekInv /\ StartInv /\ MarkerInv
  BY DEF ReaderInv
<1>11. TypeOK'
  BY <1>1 DEF TypeOK, vars, block, call, WriteTo
<1>12. BufferInv'
  BY <1>1 DEF BufferInv, Held, Indexing, UnitsIn, Checked, vars, block, call, WriteTo
<1>13. PositionInv'
  BY <1>1 DEF PositionInv, Settled, Ended, Indexing, UnitsIn, vars, block, call, WriteTo
<1>14. SeekInv'
  BY <1>1 DEF SeekInv, Settled, Ended, Indexing, UnitsIn, vars, block, call, WriteTo
<1>15. StartInv'
  BY <1>1 DEF StartInv, Settled, Ended, Uncounted, From, UnitsIn, vars, block, call, WriteTo
<1>16. MarkerInv'
  BY <1>1 DEF MarkerInv, vars, block, call, WriteTo
<1> QED
  BY <1>1, <1>11, <1>12, <1>13, <1>14, <1>15, <1>16 DEF ReaderInv, IndexFits

LEMMA DeliverKeeps ==
  ASSUME ReaderInv, Deliver, UNCHANGED <<ix, target>>
  PROVE  ReaderInv'
<1>1. IndexFits /\ TypeOK /\ BufferInv /\ PositionInv /\ SeekInv /\ StartInv /\ MarkerInv
  BY DEF ReaderInv
<1>2. PICK n \in 0 .. j - i : i' = i + n /\ at' = at + n /\ i < j /\ left' \in Nat /\ want' \in Nat
  BY <1>1 DEF Deliver, Least, TypeOK, Over, Landed
<1>3. /\ UNCHANGED <<stream, pos, h, start, j, dec, err>> /\ err = "none"
      /\ pc \in {"read", "skip"} /\ pc' \in {"read", "skip", "idle"}
  BY <1>1 DEF Deliver, Over, Landed, PositionInv
<1>4. /\ i' \in 0 .. j' /\ i \in Nat /\ j \in Nat /\ at \in Nat /\ TotalOf(stream) \in Nat
      /\ UnitsIn(pos) \in 0 .. TotalOf(stream) /\ at = UnitsIn(pos) - (j - i)
  BY <1>1, <1>2, <1>3, Units DEF TypeOK, UnitsIn, PositionInv, Settled
<1>5. at' \in 0 .. TotalOf(stream) /\ at' = UnitsIn(pos) - (j - i')
  BY <1>2, <1>4
<1>11. TypeOK'
  BY <1>1, <1>2, <1>3, <1>4, <1>5 DEF TypeOK
<1>12. BufferInv'
  BY <1>1, <1>2, <1>3, <1>4, <1>5 DEF BufferInv, Held, Indexing, UnitsIn, Checked
<1>13. PositionInv'
  BY <1>1, <1>2, <1>3, <1>4, <1>5 DEF PositionInv, Settled, Ended, Indexing, UnitsIn
<1>14. SeekInv'
  BY <1>1, <1>2, <1>3, <1>4, <1>5 DEF SeekInv, Settled, Ended, Indexing, UnitsIn
<1>15. StartInv'
  BY <1>1, <1>2, <1>3, <1>4, <1>5 DEF StartInv, Settled, Ended, Uncounted, From, UnitsIn
<1>16. MarkerInv'
  BY <1>1, <1>2, <1>3, <1>4, <1>5 DEF MarkerInv
<1> QED
  BY <1>1, <1>11, <1>12, <1>13, <1>14, <1>15, <1>16 DEF ReaderInv, IndexFits

LEMMA SkipDecodedKeeps ==
  ASSUME ReaderInv, SkipDecoded, UNCHANGED <<ix, target>>
  PROVE  ReaderInv'
<1>1. IndexFits /\ TypeOK /\ BufferInv /\ PositionInv /\ SeekInv /\ StartInv /\ MarkerInv
  BY DEF ReaderInv
<1>2. PICK n \in 0 .. j - i : i' = i + n /\ at' = at + n /\ i < j /\ left' \in Nat /\ want' \in Nat
  BY <1>1 DEF SkipDecoded, Least, TypeOK, Over, Landed
<1>3. /\ UNCHANGED <<stream, pos, h, start, j, dec, err>> /\ err = "none"
      /\ pc \in {"read", "skip"} /\ pc' \in {"read", "skip", "idle"}
  BY <1>1 DEF SkipDecoded, Over, Landed, PositionInv
<1>4. /\ i' \in 0 .. j' /\ i \in Nat /\ j \in Nat /\ at \in Nat /\ TotalOf(stream) \in Nat
      /\ UnitsIn(pos) \in 0 .. TotalOf(stream) /\ at = UnitsIn(pos) - (j - i)
  BY <1>1, <1>2, <1>3, Units DEF TypeOK, UnitsIn, PositionInv, Settled
<1>5. at' \in 0 .. TotalOf(stream) /\ at' = UnitsIn(pos) - (j - i')
  BY <1>2, <1>4
<1>11. TypeOK'
  BY <1>1, <1>2, <1>3, <1>4, <1>5 DEF TypeOK
<1>12. BufferInv'
  BY <1>1, <1>2, <1>3, <1>4, <1>5 DEF BufferInv, Held, Indexing, UnitsIn, Checked
<1>13. PositionInv'
  BY <1>1, <1>2, <1>3, <1>4, <1>5 DEF PositionInv, Settled, Ended, Indexing, UnitsIn
<1>14. SeekInv'
  BY <1>1, <1>2, <1>3, <1>4, <1>5 DEF SeekInv, Settled, Ended, Indexing, UnitsIn
<1>15. StartInv'
  BY <1>1, <1>2, <1>3, <1>4, <1>5 DEF StartInv, Settled, Ended, Uncounted, From, UnitsIn
<1>16. MarkerInv'
  BY <1>1, <1>2, <1>3, <1>4, <1>5 DEF MarkerInv
<1> QED
  BY <1>1, <1>11, <1>12, <1>13, <1>14, <1>15, <1>16 DEF ReaderInv, IndexFits

LEMMA WriteRestKeeps ==
  ASSUME ReaderInv, WriteRest, UNCHANGED <<ix, target>>
  PROVE  ReaderInv'
<1>1. IndexFits /\ TypeOK /\ BufferInv /\ PositionInv /\ SeekInv /\ StartInv /\ MarkerInv
  BY DEF ReaderInv
<1>2. UnitsIn(pos) \in 0 .. TotalOf(stream) /\ at = UnitsIn(pos) - (j - i)
  BY <1>1, Units DEF TypeOK, UnitsIn, PositionInv, Settled, WriteRest
<1>3. at' = UnitsIn(pos) /\ j' = 0 /\ i' = 0 /\ start' + j' = start + j
  BY <1>1, <1>2 DEF WriteRest, TypeOK
<1>11. TypeOK'
  BY <1>1, <1>2, <1>3 DEF TypeOK, WriteRest
<1>12. BufferInv'
  BY <1>1, <1>2, <1>3 DEF BufferInv, Held, Indexing, UnitsIn, Checked, WriteRest
<1>13. PositionInv'
  BY <1>1, <1>2, <1>3 DEF PositionInv, Settled, Ended, Indexing, UnitsIn, WriteRest
<1>14. SeekInv'
  BY <1>1, <1>2, <1>3 DEF SeekInv, Settled, Ended, Indexing, UnitsIn, WriteRest
<1>15. StartInv'
  BY <1>1, <1>2, <1>3 DEF StartInv, Settled, Ended, Uncounted, From, UnitsIn, WriteRest
<1>16. MarkerInv'
  BY <1>1, <1>2, <1>3 DEF MarkerInv, WriteRest
<1> QED
  BY <1>1, <1>11, <1>12, <1>13, <1>14, <1>15, <1>16 DEF ReaderInv, IndexFits

-----------------------------------------------------------------------------
(* The steps: errors and the end                                           *)

LEMMA EndFacts ==
  ASSUME ReaderInv, Wants, pos = Len(stream)
  PROVE  /\ i = j /\ at = TotalOf(stream) /\ UnitsIn(pos) = TotalOf(stream)
         /\ Indexing => start + j = UnitsIn(pos)
         /\ ~Uncounted => start + j = UnitsIn(pos) - UnitsIn(From)
<1>1. IndexFits /\ TypeOK /\ BufferInv /\ PositionInv /\ SeekInv /\ StartInv /\ MarkerInv
  BY DEF ReaderInv
<1>2. /\ i = j /\ err = "none" /\ UnitsIn(pos) = TotalOf(stream) /\ TotalOf(stream) \in Nat
      /\ at \in 0 .. TotalOf(stream) /\ start + j \in Int /\ i \in Nat /\ j \in Nat
      /\ pc \in {"read", "skip", "write", "head"}
  BY <1>1, Units DEF Wants, PositionInv, TypeOK, UnitsIn
<1>3. CASE pc # "head"
  BY <1>1, <1>2, <1>3 DEF Wants, PositionInv, StartInv, SeekInv, Settled
<1>4. CASE pc = "head"
  <2>1. UnitsIn(pos) = 0 /\ Indexing
    BY <1>1, <1>2, <1>4 DEF PositionInv, TypeOK
  <2>2. From \in 0 .. Len(stream)
    BY <1>1, LastIdIs DEF From, TypeOK
  <2>3. UnitsIn(From) = 0
    BY <1>1, <1>2, <2>1, <2>2, Units DEF UnitsIn
  <2> QED
    BY <1>1, <1>2, <2>1, <2>3 DEF SeekInv
<1> QED
  BY <1>3, <1>4

LEMMA StopKeeps ==
  ASSUME ReaderInv, NEW e, Stop(e), UNCHANGED <<ix, target>>,
         e \in {"eof", "unexpectedEOF", "io", "corrupt", "crc", "toolarge", "unsupported", "unskippable"},
         e \in {"eof", "unexpectedEOF"} => Wants /\ pos = Len(stream) /\ ~h.wantEOF
  PROVE  ReaderInv'
<1>1. IndexFits /\ TypeOK /\ BufferInv /\ PositionInv /\ SeekInv /\ StartInv /\ MarkerInv
  BY DEF ReaderInv
<1>2. Ended' =>
        /\ pos = Len(stream) /\ ~h.wantEOF
        /\ i = j /\ at = TotalOf(stream) /\ UnitsIn(pos) = TotalOf(stream)
        /\ Indexing => start + j = UnitsIn(pos)
        /\ ~Uncounted => start + j = UnitsIn(pos) - UnitsIn(From)
  BY EndFacts DEF Ended, Stop
<1>3. /\ UNCHANGED <<stream, pos, h, start, i, j, dec, at>> /\ err' = e /\ pc' = "idle"
      /\ left' = 0 /\ want' = 0
  BY DEF Stop, Over, block
<1>4. ~Settled'
  BY <1>3 DEF Settled
<1>5. i \in Int /\ j \in Int /\ TotalOf(stream) \in Int
  BY <1>1, Units DEF TypeOK
<1>11. TypeOK'
  BY <1>1, <1>2, <1>3, <1>4, <1>5 DEF TypeOK
<1>12. BufferInv'
  BY <1>1, <1>2, <1>3, <1>4, <1>5 DEF BufferInv, Held, Indexing, UnitsIn, Checked
<1>13. PositionInv'
  BY <1>1, <1>2, <1>3, <1>4, <1>5 DEF PositionInv, Ended, Indexing, UnitsIn
<1>14. SeekInv'
  BY <1>1, <1>2, <1>3, <1>4, <1>5 DEF SeekInv, Ended, Indexing, UnitsIn
<1>15. StartInv'
  BY <1>1, <1>2, <1>3, <1>4, <1>5 DEF StartInv, Ended, Uncounted, From, UnitsIn
<1>16. MarkerInv'
  BY <1>1, <1>2, <1>3, <1>4, <1>5 DEF MarkerInv
<1> QED
  BY <1>1, <1>11, <1>12, <1>13, <1>14, <1>15, <1>16 DEF ReaderInv, IndexFits

LEMMA EndOfInputKeeps ==
  ASSUME ReaderInv, EndOfInput, UNCHANGED <<ix, target>>
  PROVE  ReaderInv'
<1>1. PICK e \in {"eof", "unexpectedEOF", "corrupt"} :
        Stop(e) /\ Wants /\ pos = Len(stream) /\ (e # "corrupt" => ~h.wantEOF)
  BY DEF EndOfInput
<1> QED
  BY <1>1, StopKeeps

LEMMA RefuseKeeps ==
  ASSUME ReaderInv, Refuse, UNCHANGED <<ix, target>>
  PROVE  ReaderInv'
<1>1. PICK e \in {"corrupt", "crc", "toolarge", "unsupported", "unskippable"} : Stop(e)
  BY DEF Refuse, Refused, DataRefusal, SkipRefusal, ReadRefusal, EarlyRefusal, LateRefusal, IdRefusal
<1> QED
  BY <1>1, StopKeeps

LEMMA WriteFailsKeeps ==
  ASSUME ReaderInv, WriteFails, UNCHANGED <<ix, target>>
  PROVE  ReaderInv'
<1>1. Stop("io")
  BY DEF WriteFails
<1> QED
  BY <1>1, StopKeeps

LEMMA WriteEndKeeps ==
  ASSUME ReaderInv, WriteEnd, UNCHANGED <<ix, target>>
  PROVE  ReaderInv'
<1>1. IndexFits /\ TypeOK /\ BufferInv /\ PositionInv /\ SeekInv /\ StartInv /\ MarkerInv
  BY DEF ReaderInv
<1>11. TypeOK'
  BY <1>1 DEF TypeOK, vars, block, call, WriteEnd, Wants, Over
<1>12. BufferInv'
  BY <1>1 DEF BufferInv, Held, Indexing, UnitsIn, Checked, vars, block, call, WriteEnd, Wants, Over
<1>13. PositionInv'
  BY <1>1 DEF PositionInv, Settled, Ended, Indexing, UnitsIn, vars, block, call, WriteEnd, Wants, Over
<1>14. SeekInv'
  BY <1>1 DEF SeekInv, Settled, Ended, Indexing, UnitsIn, vars, block, call, WriteEnd, Wants, Over
<1>15. StartInv'
  BY <1>1 DEF StartInv, Settled, Ended, Uncounted, From, UnitsIn, vars, block, call, WriteEnd, Wants, Over
<1>16. MarkerInv'
  BY <1>1 DEF MarkerInv, vars, block, call, WriteEnd, Wants, Over
<1> QED
  BY <1>1, <1>11, <1>12, <1>13, <1>14, <1>15, <1>16 DEF ReaderInv, IndexFits

LEMMA StutterKeeps ==
  ASSUME ReaderInv, UNCHANGED vars, UNCHANGED <<ix, target>>
  PROVE  ReaderInv'
<1>1. IndexFits /\ TypeOK /\ BufferInv /\ PositionInv /\ SeekInv /\ StartInv /\ MarkerInv
  BY DEF ReaderInv
<1>11. TypeOK'
  BY <1>1 DEF TypeOK, vars, block, call, Wants
<1>12. BufferInv'
  BY <1>1 DEF BufferInv, Held, Indexing, UnitsIn, Checked, vars, block, call, Wants
<1>13. PositionInv'
  BY <1>1 DEF PositionInv, Settled, Ended, Indexing, UnitsIn, vars, block, call, Wants
<1>14. SeekInv'
  BY <1>1 DEF SeekInv, Settled, Ended, Indexing, UnitsIn, vars, block, call, Wants
<1>15. StartInv'
  BY <1>1 DEF StartInv, Settled, Ended, Uncounted, From, UnitsIn, vars, block, call, Wants
<1>16. MarkerInv'
  BY <1>1 DEF MarkerInv, vars, block, call, Wants
<1> QED
  BY <1>1, <1>11, <1>12, <1>13, <1>14, <1>15, <1>16 DEF ReaderInv, IndexFits

-----------------------------------------------------------------------------
(* The steps: chunks                                                       *)

\* What holds where a chunk is taken.
LEMMA Taken ==
  ASSUME ReaderInv, NEW K, Taking(K)
  PROVE  /\ pos < Len(stream) /\ pos \in Nat /\ pos + 1 \in 1 .. Len(stream)
         /\ Cur = stream[pos + 1] /\ Cur \in Chunks /\ Cur.kind \in K
         /\ i = j /\ j \in Nat /\ start \in Int /\ left \in Nat /\ err = "none"
         /\ pc \in {"read", "skip", "write", "head"} /\ (pc = "write" => j = 0)
         /\ UnitsOf(Cur) \in Nat /\ TotalOf(stream) \in Nat
         /\ Totals(stream)[pos] \in 0 .. TotalOf(stream)
         /\ Totals(stream)[pos + 1] = Totals(stream)[pos] + UnitsOf(Cur)
         /\ Totals(stream)[pos + 1] \in 0 .. TotalOf(stream)
         /\ at = (IF pc = "head" THEN at ELSE Totals(stream)[pos])
         /\ pc = "head" => Totals(stream)[pos] = 0
         /\ LastId(stream, pos) \in 0 .. pos
         /\ LastId(stream, pos + 1) = IF Cur.kind \in IdKinds THEN pos + 1 ELSE LastId(stream, pos)
         /\ Totals(stream)[LastId(stream, pos)] \in Nat
         /\ Indexing => start + j = Totals(stream)[pos] \/ (pc = "head" /\ ~h.header)
<1>1. IndexFits /\ TypeOK /\ BufferInv /\ PositionInv /\ SeekInv /\ StartInv /\ MarkerInv
  BY DEF ReaderInv
<1>2. /\ pos < Len(stream) /\ pos \in Nat /\ Len(stream) \in Nat /\ pos + 1 \in 1 .. Len(stream)
      /\ Cur = stream[pos + 1] /\ Cur.kind \in K
      /\ i = j /\ j \in Nat /\ start \in Int /\ left \in Nat
      /\ pc \in {"read", "skip", "write", "head"} /\ (pc = "write" => j = 0)
  BY <1>1 DEF Taking, Wants, TypeOK, Cur
<1>3. err = "none"
  BY <1>1, <1>2 DEF PositionInv
<1>4. /\ Cur \in Chunks /\ UnitsOf(Cur) \in Nat /\ TotalOf(stream) \in Nat
      /\ Totals(stream)[pos] \in 0 .. TotalOf(stream)
      /\ Totals(stream)[pos + 1] = Totals(stream)[pos] + UnitsOf(Cur)
      /\ Totals(stream)[pos + 1] \in 0 .. TotalOf(stream)
  <2>1. pos \in 0 .. Len(stream) /\ pos + 1 \in 0 .. Len(stream)
    BY <1>2
  <2> QED
    BY <1>1, <1>2, <2>1, Units
<1>5. /\ at = (IF pc = "head" THEN at ELSE Totals(stream)[pos])
      /\ pc = "head" => Totals(stream)[pos] = 0
  BY <1>1, <1>2, <1>3, <1>4 DEF PositionInv, Settled, UnitsIn
<1>6. /\ LastId(stream, pos) \in 0 .. pos
      /\ LastId(stream, pos + 1) = IF Cur.kind \in IdKinds THEN pos + 1 ELSE LastId(stream, pos)
  BY <1>1, <1>2, LastIdIs, LastIdNext DEF TypeOK
<1>7. Totals(stream)[LastId(stream, pos)] \in Nat
  <2>1. LastId(stream, pos) \in 0 .. Len(stream)
    BY <1>2, <1>6
  <2> QED
    BY <1>1, <1>4, <2>1, Units
<1>8. Indexing => start + j = Totals(stream)[pos] \/ (pc = "head" /\ ~h.header)
  BY <1>1, <1>2, <1>3 DEF SeekInv, Settled, UnitsIn
<1> QED
  BY <1>2, <1>3, <1>4, <1>5, <1>6, <1>7, <1>8

\* With an index all that counts is behind the one identifier.
LEMMA IndexedFrom ==
  ASSUME IndexFits, NEW s \in Seq(Chunks), s \in Indexed, NEW p \in 0 .. Len(s)
  PROVE  Totals(s)[LastId(s, p)] = 0
<1>1. LastId(s, p) \in 0 .. p /\ (LastId(s, p) # 0 => s[LastId(s, p)].kind \in IdKinds)
  BY LastIdIs
<1>2. CASE LastId(s, p) = 0
  BY <1>2, TotalsAre
<1>3. CASE LastId(s, p) # 0
  <2>1. LastId(s, p) \in 1 .. Len(s)
    BY <1>1, <1>3
  <2> QED
    BY <1>1, <1>3, <2>1, IdFirst
<1> QED
  BY <1>2, <1>3

LEMMA HeaderIs ==
  ASSUME NEW g \in Headers, NEW c \in Chunks, c.kind \in IdKinds
  PROVE  /\ Identified(g, c) \in Headers /\ Identified(g, c).header
         /\ Identified(g, c).wantEOF <=> (c.kind = "idMinLZ" \/ g.wantEOF)
<1>1. c.n \in Int /\ MaxBlockOrg \in Int
  BY ReaderAssumption DEF Chunks, NoTotal
<1>2. CASE c.kind = "idMinLZ"
  BY <1>1, <1>2 DEF Headers, Identified
<1>3. CASE c.kind # "idMinLZ"
  BY <1>1, <1>3 DEF Headers, Identified
<1> QED
  BY <1>2, <1>3

LEMMA TakeIdentifierKeeps ==
  ASSUME ReaderInv, TakeIdentifier, UNCHANGED <<ix, target>>
  PROVE  ReaderInv'
<1>1. IndexFits /\ TypeOK /\ BufferInv /\ PositionInv /\ SeekInv /\ StartInv /\ MarkerInv
  BY DEF ReaderInv
<1>2. Taking(IdKinds)
  BY DEF TakeIdentifier
<1>3. /\ UNCHANGED <<stream, dec, err, pc, left, want, at>> /\ pos' = pos + 1
      /\ h' = Identified(h, Cur) /\ start' = 0 /\ i' = 0 /\ j' = 0
  BY DEF TakeIdentifier, call
<1>4. UnitsOf(Cur) = 0 /\ Cur.kind \in IdKinds
  BY <1>2, Taken DEF UnitsOf, IdKinds, DataKinds, MinLZKinds
<1>5. /\ pos < Len(stream) /\ pos \in Nat /\ pos + 1 \in 1 .. Len(stream)
      /\ Cur = stream[pos + 1] /\ i = j /\ j \in Nat /\ start \in Int /\ err = "none"
      /\ pc \in {"read", "skip", "write", "head"} /\ (pc = "write" => j = 0)
      /\ Totals(stream)[pos + 1] = Totals(stream)[pos] /\ Totals(stream)[pos] \in 0 .. TotalOf(stream)
      /\ at = (IF pc = "head" THEN at ELSE Totals(stream)[pos])
      /\ pc = "head" => Totals(stream)[pos] = 0
      /\ LastId(stream, pos + 1) = IF Cur.kind \in IdKinds THEN pos + 1 ELSE LastId(stream, pos)
      /\ Cur \in Chunks /\ TotalOf(stream) \in Nat /\ Totals(stream)[LastId(stream, pos)] \in Nat
      /\ LastId(stream, pos) \in 0 .. pos
  BY <1>2, <1>4, Taken
<1>6. h' \in Headers /\ h'.header /\ (h'.wantEOF <=> (Cur.kind = "idMinLZ" \/ h.wantEOF))
  BY <1>1, <1>3, <1>4, <1>5, HeaderIs DEF TypeOK
<1>7. Indexing => Cur.kind = "idMinLZ" /\ Totals(stream)[pos + 1] = 0
  BY <1>1, <1>4, <1>5, IdFirst DEF Indexing, TypeOK
<1>11. TypeOK'
  BY <1>1, <1>3, <1>4, <1>5, <1>6 DEF TypeOK
<1>12. BufferInv'
  BY <1>1, <1>3, <1>4, <1>5, <1>6 DEF BufferInv, Held, Indexing, UnitsIn, Checked
<1>13. PositionInv'
  BY <1>1, <1>3, <1>4, <1>5, <1>6 DEF PositionInv, Settled, Ended, Indexing, UnitsIn
<1>14. SeekInv'
  BY <1>1, <1>3, <1>5, <1>6, <1>7 DEF SeekInv, Indexing, Settled, Ended, UnitsIn
<1>15. StartInv'
  BY <1>1, <1>3, <1>4, <1>5, <1>6 DEF StartInv, Settled, Ended, Uncounted, From, UnitsIn
<1>16. MarkerInv'
  BY <1>1, <1>3, <1>4, <1>5, <1>6 DEF MarkerInv
<1> QED
  BY <1>1, <1>11, <1>12, <1>13, <1>14, <1>15, <1>16 DEF ReaderInv, IndexFits

LEMMA TakeEOFKeeps ==
  ASSUME ReaderInv, TakeEOF, UNCHANGED <<ix, target>>
  PROVE  ReaderInv'
<1>1. IndexFits /\ TypeOK /\ BufferInv /\ PositionInv /\ SeekInv /\ StartInv /\ MarkerInv
  BY DEF ReaderInv
<1>2. Taking({"eof"})
  BY DEF TakeEOF
<1>3. /\ UNCHANGED <<stream, start, i, j, dec, err, pc, left, want, at>> /\ pos' = pos + 1
      /\ h' = AfterEOF(h)
  BY DEF TakeEOF, call, block
<1>4. UnitsOf(Cur) = 0 /\ Cur.kind = "eof" /\ Cur.kind \notin IdKinds
  BY <1>2, Taken DEF UnitsOf, IdKinds, DataKinds, MinLZKinds
<1>5. /\ pos < Len(stream) /\ pos \in Nat /\ pos + 1 \in 1 .. Len(stream)
      /\ Cur = stream[pos + 1] /\ i = j /\ j \in Nat /\ start \in Int /\ err = "none"
      /\ pc \in {"read", "skip", "write", "head"} /\ (pc = "write" => j = 0)
      /\ Totals(stream)[pos + 1] = Totals(stream)[pos] /\ Totals(stream)[pos] \in 0 .. TotalOf(stream)
      /\ at = (IF pc = "head" THEN at ELSE Totals(stream)[pos])
      /\ pc = "head" => Totals(stream)[pos] = 0
      /\ LastId(stream, pos + 1) = IF Cur.kind \in IdKinds THEN pos + 1 ELSE LastId(stream, pos)
      /\ Cur \in Chunks /\ TotalOf(stream) \in Nat /\ Totals(stream)[LastId(stream, pos)] \in Nat
      /\ LastId(stream, pos) \in 0 .. pos
  BY <1>2, <1>4, Taken
<1>6. h' \in Headers /\ ~h'.header /\ ~h'.wantEOF
  BY <1>1, <1>3 DEF TypeOK, AfterEOF, Headers
<1>11. TypeOK'
  BY <1>1, <1>3, <1>4, <1>5, <1>6 DEF TypeOK
<1>12. BufferInv'
  BY <1>1, <1>3, <1>4, <1>5, <1>6 DEF BufferInv, Held, Indexing, UnitsIn, Checked
<1>13. PositionInv'
  BY <1>1, <1>3, <1>4, <1>5, <1>6 DEF PositionInv, Settled, Ended, Indexing, UnitsIn
<1>14. SeekInv'
  BY <1>1, <1>3, <1>4, <1>5, <1>6 DEF SeekInv, Settled, Ended, Indexing, UnitsIn
<1>15. StartInv'
  <2>1. From' = From /\ (~Uncounted' => ~Uncounted)
    BY <1>3, <1>4, <1>5 DEF From, Uncounted
  <2> QED
    BY <1>1, <1>3, <1>5, <2>1 DEF StartInv, Settled, Ended, UnitsIn
<1>16. MarkerInv'
  BY <1>1, <1>3, <1>4, <1>5, <1>6 DEF MarkerInv
<1> QED
  BY <1>1, <1>11, <1>12, <1>13, <1>14, <1>15, <1>16 DEF ReaderInv, IndexFits

LEMMA TakeSkippableKeeps ==
  ASSUME ReaderInv, TakeSkippable, UNCHANGED <<ix, target>>
  PROVE  ReaderInv'
<1>1. IndexFits /\ TypeOK /\ BufferInv /\ PositionInv /\ SeekInv /\ StartInv /\ MarkerInv
  BY DEF ReaderInv
<1>2. Taking({"skip"})
  BY DEF TakeSkippable
<1>3. /\ UNCHANGED <<stream, h, start, i, j, dec, err, pc, left, want, at>> /\ pos' = pos + 1
  BY DEF TakeSkippable, call, block
<1>4. UnitsOf(Cur) = 0 /\ Cur.kind = "skip" /\ Cur.kind \notin IdKinds
  BY <1>2, Taken DEF UnitsOf, IdKinds, DataKinds, MinLZKinds
<1>5. /\ pos < Len(stream) /\ pos \in Nat /\ pos + 1 \in 1 .. Len(stream)
      /\ Cur = stream[pos + 1] /\ i = j /\ j \in Nat /\ start \in Int /\ err = "none"
      /\ pc \in {"read", "skip", "write", "head"} /\ (pc = "write" => j = 0)
      /\ Totals(stream)[pos + 1] = Totals(stream)[pos] /\ Totals(stream)[pos] \in 0 .. TotalOf(stream)
      /\ at = (IF pc = "head" THEN at ELSE Totals(stream)[pos])
      /\ pc = "head" => Totals(stream)[pos] = 0
      /\ LastId(stream, pos + 1) = IF Cur.kind \in IdKinds THEN pos + 1 ELSE LastId(stream, pos)
      /\ Cur \in Chunks /\ TotalOf(stream) \in Nat /\ Totals(stream)[LastId(stream, pos)] \in Nat
      /\ LastId(stream, pos) \in 0 .. pos
  BY <1>2, <1>4, Taken
<1>11. TypeOK'
  BY <1>1, <1>3, <1>4, <1>5 DEF TypeOK
<1>12. BufferInv'
  BY <1>1, <1>3, <1>4, <1>5 DEF BufferInv, Held, Indexing, UnitsIn, Checked
<1>13. PositionInv'
  BY <1>1, <1>3, <1>4, <1>5 DEF PositionInv, Settled, Ended, Indexing, UnitsIn
<1>14. SeekInv'
  BY <1>1, <1>3, <1>4, <1>5 DEF SeekInv, Settled, Ended, Indexing, UnitsIn
<1>15. StartInv'
  <2>1. From' = From /\ (~Uncounted' => ~Uncounted)
    BY <1>3, <1>4, <1>5 DEF From, Uncounted
  <2> QED
    BY <1>1, <1>3, <1>5, <2>1 DEF StartInv, Settled, Ended, UnitsIn
<1>16. MarkerInv'
  BY <1>1, <1>3, <1>4, <1>5 DEF MarkerInv
<1> QED
  BY <1>1, <1>11, <1>12, <1>13, <1>14, <1>15, <1>16 DEF ReaderInv, IndexFits

\* A block that is decoded is checked.
LEMMA DecodedChecked ==
  ASSUME NEW c \in Chunks, c.kind \in DataKinds, DataRefusal(c) = "none", ~Passes(c), left \in Nat
  PROVE  Checked(c)
<1>1. c.n \in Nat /\ c.bad \in {"no", "body", "crc"}
  BY DEF Chunks, DataKinds, MinLZKinds
<1>2. CASE pc = "skip"
  <2>1. SkipRefusal(c) = "none" /\ (c.kind = "raw" \/ c.n > left)
    BY <1>1, <1>2 DEF DataRefusal, Passes
  <2>2. EarlyRefusal(h, c) = "none"
    BY <2>1 DEF SkipRefusal
  <2>3. c.kind \in MinLZKinds => c.bad = "no" \/ (c.bad = "crc" /\ IgnoreCRC)
    BY <1>1, <2>1, <2>2 DEF SkipRefusal, MinLZKinds
  <2>4. c.kind = "legacy" => c.bad = "no"
    BY <1>1, <2>1, <2>2 DEF SkipRefusal, MinLZKinds
  <2> QED
    BY <2>3, <2>4 DEF Checked, DataKinds
<1>3. CASE pc # "skip"
  <2>1. ReadRefusal(c) = "none"
    BY <1>3 DEF DataRefusal
  <2>2. c.bad # "body" /\ ~(c.bad = "crc" /\ ~IgnoreCRC)
    BY <2>1 DEF ReadRefusal
  <2> QED
    BY <1>1, <2>2 DEF Checked
<1> QED
  BY <1>2, <1>3

LEMMA TakeBlockKeeps ==
  ASSUME ReaderInv, TakeBlock, UNCHANGED <<ix, target>>
  PROVE  ReaderInv'
<1>1. IndexFits /\ TypeOK /\ BufferInv /\ PositionInv /\ SeekInv /\ StartInv /\ MarkerInv
  BY DEF ReaderInv
<1>2. Taking(DataKinds)
  BY DEF TakeBlock
<1>3. /\ UNCHANGED <<stream, h, err, pc, left, want, at>> /\ pc # "write" /\ pos' = pos + 1
      /\ start' = start + j /\ i' = 0 /\ j' = Cur.n /\ dec' = pos + 1
  BY DEF TakeBlock, call
<1>4. /\ pos < Len(stream) /\ pos \in Nat /\ pos + 1 \in 1 .. Len(stream)
      /\ Cur = stream[pos + 1] /\ i = j /\ j \in Nat /\ start \in Int /\ err = "none" /\ left \in Nat
      /\ pc \in {"read", "skip", "write", "head"} /\ (pc = "write" => j = 0)
      /\ Totals(stream)[pos] \in 0 .. TotalOf(stream)
      /\ Totals(stream)[pos + 1] = Totals(stream)[pos] + Cur.n
      /\ Totals(stream)[pos + 1] \in 0 .. TotalOf(stream)
      /\ at = (IF pc = "head" THEN at ELSE Totals(stream)[pos])
      /\ pc = "head" => Totals(stream)[pos] = 0
      /\ LastId(stream, pos + 1) = LastId(stream, pos)
      /\ Cur \in Chunks /\ TotalOf(stream) \in Nat /\ Totals(stream)[LastId(stream, pos)] \in Nat
      /\ LastId(stream, pos) \in 0 .. pos /\ Cur.n \in Nat /\ Cur.kind \in DataKinds
  <2>1. Cur.kind \in DataKinds /\ Cur.kind \notin IdKinds /\ UnitsOf(Cur) = Cur.n
    BY <1>2, Taken DEF DataKinds, MinLZKinds, IdKinds, UnitsOf
  <2> QED
    BY <1>2, <2>1, Taken DEF UnitsOf
<1>5. h.header /\ (Indexing => start + j = Totals(stream)[pos])
  BY <1>2, <1>4, Taken DEF Unheaded, TakeBlock
<1>6. Cur.kind # "idMinLZ"
  BY <1>4 DEF DataKinds, MinLZKinds
<1>7. Held'
  <2>1. Checked(Cur)
    BY <1>4, DecodedChecked DEF TakeBlock
  <2>2. (pos + 1) - 1 = pos
    BY <1>4
  <2> QED
    BY <1>3, <1>4, <2>1, <2>2, SMTT(30) DEF Held, UnitsIn, Checked
<1>11. TypeOK'
  BY <1>1, <1>3, <1>4, <1>5, <1>6 DEF TypeOK
<1>12. BufferInv'
  BY <1>3, <1>5, <1>7 DEF BufferInv
<1>13. PositionInv'
  <2>1. Totals(stream)'[pos'] - (j' - i') = Totals(stream)[pos]
    BY <1>3, <1>4
  <2>2. ~Ended' /\ pc' \in {"read", "skip", "head"} /\ err' = "none"
    BY <1>3, <1>4 DEF Ended
  <2>3. Settled' => at' = Totals(stream)[pos]
    BY <1>3, <1>4 DEF Settled
  <2>4. pc' = "head" => Totals(stream)'[pos'] = j' - i' /\ Indexing' /\ want' > 0
    <3>1. pc = "head" => Indexing /\ want > 0
      BY <1>1 DEF PositionInv
    <3>2. pc = "head" => Totals(stream)[pos + 1] = Cur.n
      BY <1>4
    <3> QED
      BY <1>3, <1>4, <3>1, <3>2 DEF Indexing
  <2> QED
    BY <2>1, <2>2, <2>3, <2>4 DEF PositionInv, UnitsIn
<1>14. SeekInv'
  BY <1>1, <1>3, <1>4, <1>5 DEF SeekInv, Indexing, Settled, Ended, UnitsIn
<1>15. StartInv'
  <2>1. From' = From /\ ~Uncounted
    BY <1>3, <1>4 DEF From, Uncounted
  <2>2. pc # "head" => start + j = Totals(stream)[pos] - Totals(stream)[LastId(stream, pos)]
    BY <1>1, <1>4, <2>1 DEF StartInv, Settled, UnitsIn, From
  <2>3. Totals(stream)'[From'] = Totals(stream)[LastId(stream, pos)]
    BY <1>3, <1>4 DEF From
  <2> QED
    BY <1>3, <1>4, <2>1, <2>2, <2>3, SMTT(30) DEF StartInv, Settled, Ended, UnitsIn
<1>16. MarkerInv'
  BY <1>1, <1>3, <1>4, <1>5, <1>6 DEF MarkerInv
<1> QED
  BY <1>1, <1>11, <1>12, <1>13, <1>14, <1>15, <1>16 DEF ReaderInv, IndexFits

LEMMA WriteBlockKeeps ==
  ASSUME ReaderInv, WriteBlock, UNCHANGED <<ix, target>>
  PROVE  ReaderInv'
<1>1. IndexFits /\ TypeOK /\ BufferInv /\ PositionInv /\ SeekInv /\ StartInv /\ MarkerInv
  BY DEF ReaderInv
<1>2. Taking(DataKinds)
  BY DEF WriteBlock
<1>3. /\ UNCHANGED <<stream, h, i, j, dec, err, pc, left, want>> /\ pc = "write" /\ pos' = pos + 1
      /\ start' = start + (IF Cur.kind = "legacy" THEN 0 ELSE Cur.n) /\ at' = at + Cur.n
  BY DEF WriteBlock
<1>4. /\ pos < Len(stream) /\ pos \in Nat /\ pos + 1 \in 1 .. Len(stream)
      /\ Cur = stream[pos + 1] /\ i = j /\ j \in Nat /\ start \in Int /\ err = "none" /\ left \in Nat
      /\ pc \in {"read", "skip", "write", "head"} /\ (pc = "write" => j = 0)
      /\ Totals(stream)[pos] \in 0 .. TotalOf(stream)
      /\ Totals(stream)[pos + 1] = Totals(stream)[pos] + Cur.n
      /\ Totals(stream)[pos + 1] \in 0 .. TotalOf(stream)
      /\ at = (IF pc = "head" THEN at ELSE Totals(stream)[pos])
      /\ pc = "head" => Totals(stream)[pos] = 0
      /\ LastId(stream, pos + 1) = LastId(stream, pos)
      /\ Cur \in Chunks /\ TotalOf(stream) \in Nat /\ Totals(stream)[LastId(stream, pos)] \in Nat
      /\ LastId(stream, pos) \in 0 .. pos /\ Cur.n \in Nat /\ Cur.kind \in DataKinds
  <2>1. Cur.kind \in DataKinds /\ Cur.kind \notin IdKinds /\ UnitsOf(Cur) = Cur.n
    BY <1>2, Taken DEF DataKinds, MinLZKinds, IdKinds, UnitsOf
  <2> QED
    BY <1>2, <2>1, Taken DEF UnitsOf
<1>5. h.header /\ (Indexing => start + j = Totals(stream)[pos])
  BY <1>2, <1>4, Taken DEF Unheaded, WriteBlock
<1>6. Cur.kind # "idMinLZ"
  BY <1>4 DEF DataKinds, MinLZKinds
<1>7. Indexing => Cur.kind # "legacy"
  BY <1>1, <1>4, NoLegacy DEF Indexing, TypeOK
<1>11. TypeOK'
  BY <1>1, <1>3, <1>4, <1>5, <1>6, <1>7 DEF TypeOK
<1>12. BufferInv'
  BY <1>1, <1>3, <1>4, <1>5, <1>6, <1>7 DEF BufferInv, Held, Indexing, UnitsIn, Checked
<1>13. PositionInv'
  BY <1>1, <1>3, <1>4, <1>5, <1>6, <1>7 DEF PositionInv, Settled, Ended, Indexing, UnitsIn
<1>14. SeekInv'
  BY <1>1, <1>3, <1>4, <1>5, <1>7 DEF SeekInv, Indexing, Settled, Ended, UnitsIn
<1>15. StartInv'
  <2>1. From' = From /\ (~Uncounted' => ~Uncounted /\ Cur.kind # "legacy")
    BY <1>3, <1>4 DEF From, Uncounted
  <2>2. pc # "head" /\ ~Uncounted' => start + j = Totals(stream)[pos] - Totals(stream)[LastId(stream, pos)]
    BY <1>1, <1>4, <2>1 DEF StartInv, Settled, UnitsIn, From
  <2>3. Totals(stream)'[From'] = Totals(stream)[LastId(stream, pos)]
    BY <1>3, <1>4 DEF From
  <2> QED
    BY <1>3, <1>4, <2>1, <2>2, <2>3, SMTT(30) DEF StartInv, Settled, Ended, UnitsIn
<1>16. MarkerInv'
  BY <1>1, <1>3, <1>4, <1>5, <1>6, <1>7, SMTT(30) DEF MarkerInv
<1> QED
  BY <1>1, <1>11, <1>12, <1>13, <1>14, <1>15, <1>16 DEF ReaderInv, IndexFits

LEMMA PassBlockKeeps ==
  ASSUME ReaderInv, PassBlock, UNCHANGED <<ix, target>>
  PROVE  ReaderInv'
<1>1. IndexFits /\ TypeOK /\ BufferInv /\ PositionInv /\ SeekInv /\ StartInv /\ MarkerInv
  BY DEF ReaderInv
<1>2. Taking(DataKinds)
  BY DEF PassBlock
<1>3. /\ UNCHANGED <<stream, h, dec, err>> /\ pc = "skip" /\ pos' = pos + 1
      /\ start' = start + j + Cur.n /\ i' = 0 /\ j' = 0 /\ at' = at + Cur.n
  BY DEF PassBlock, Passes
<1>4. /\ pos < Len(stream) /\ pos \in Nat /\ pos + 1 \in 1 .. Len(stream)
      /\ Cur = stream[pos + 1] /\ i = j /\ j \in Nat /\ start \in Int /\ err = "none" /\ left \in Nat
      /\ pc \in {"read", "skip", "write", "head"} /\ (pc = "write" => j = 0)
      /\ Totals(stream)[pos] \in 0 .. TotalOf(stream)
      /\ Totals(stream)[pos + 1] = Totals(stream)[pos] + Cur.n
      /\ Totals(stream)[pos + 1] \in 0 .. TotalOf(stream)
      /\ at = (IF pc = "head" THEN at ELSE Totals(stream)[pos])
      /\ pc = "head" => Totals(stream)[pos] = 0
      /\ LastId(stream, pos + 1) = LastId(stream, pos)
      /\ Cur \in Chunks /\ TotalOf(stream) \in Nat /\ Totals(stream)[LastId(stream, pos)] \in Nat
      /\ LastId(stream, pos) \in 0 .. pos /\ Cur.n \in Nat /\ Cur.kind \in DataKinds
  <2>1. Cur.kind \in DataKinds /\ Cur.kind \notin IdKinds /\ UnitsOf(Cur) = Cur.n
    BY <1>2, Taken DEF DataKinds, MinLZKinds, IdKinds, UnitsOf
  <2> QED
    BY <1>2, <2>1, Taken DEF UnitsOf
<1>5. h.header /\ (Indexing => start + j = Totals(stream)[pos])
  BY <1>2, <1>4, Taken DEF Unheaded, PassBlock
<1>6. Cur.kind # "idMinLZ"
  BY <1>4 DEF DataKinds, MinLZKinds
<1>7. pc' \in {"idle", "read", "skip"} /\ left' \in Nat /\ want' \in Nat
  BY <1>1, <1>3, <1>4, SMTT(30) DEF PassBlock, Passes, Landed, Over, TypeOK
<1>11. TypeOK'
  BY <1>1, <1>3, <1>4, <1>7, SMTT(30) DEF TypeOK
<1>12. BufferInv'
  BY <1>3, <1>5 DEF BufferInv
<1>13. PositionInv'
  BY <1>1, <1>3, <1>4, <1>5, <1>7, SMTT(30) DEF PositionInv, Settled, Ended, Indexing, UnitsIn
<1>14. SeekInv'
  BY <1>1, <1>3, <1>4, <1>5, <1>7 DEF SeekInv, Indexing, Settled, Ended, UnitsIn
<1>15. StartInv'
  <2>1. From' = From /\ ~Uncounted
    BY <1>3, <1>4 DEF From, Uncounted
  <2>2. pc # "head" => start + j = Totals(stream)[pos] - Totals(stream)[LastId(stream, pos)]
    BY <1>1, <1>4, <2>1 DEF StartInv, Settled, UnitsIn, From
  <2>3. Totals(stream)'[From'] = Totals(stream)[LastId(stream, pos)]
    BY <1>3, <1>4 DEF From
  <2> QED
    BY <1>3, <1>4, <2>1, <2>2, <2>3, SMTT(30) DEF StartInv, Settled, Ended, UnitsIn
<1>16. MarkerInv'
  BY <1>1, <1>3, <1>4, <1>5, <1>6, SMTT(30) DEF MarkerInv
<1> QED
  BY <1>1, <1>11, <1>12, <1>13, <1>14, <1>15, <1>16 DEF ReaderInv, IndexFits

-----------------------------------------------------------------------------
(* The beginning, Reset and Seek                                           *)

\* At the beginning of a stream.
LEMMA AtStart ==
  ASSUME NEW s \in Seq(Chunks)
  PROVE  Totals(s)[0] = 0 /\ 0 \in 0 .. TotalOf(s) /\ LastId(s, 0) = 0 /\ Len(s) \in Nat
<1>1. Len(s) \in Nat /\ TotalOf(s) \in Nat /\ Totals(s)[0] = 0
  BY TotalsAre DEF TotalOf
<1>2. LastId(s, 0) = 0
  BY <1>1, LastIdIs
<1> QED
  BY <1>1, <1>2

LEMMA NewHeaderIs == NewHeader \in Headers /\ ~NewHeader.wantEOF
  BY ReaderAssumption DEF NewHeader, Headers

LEMMA ResetKeeps ==
  ASSUME ReaderInv, NEW s \in Others, ResetIndexed(s)
  PROVE  ReaderInv'
<1>1. IndexFits /\ TypeOK /\ BufferInv /\ PositionInv /\ SeekInv /\ StartInv /\ MarkerInv
  BY DEF ReaderInv
<1>3. /\ stream' = s /\ pos' = 0 /\ h' = NewHeader /\ err' = "none"
      /\ start' = 0 /\ i' = 0 /\ j' = 0 /\ at' = 0
      /\ UNCHANGED <<dec, pc, left, want>> /\ pc = "idle" /\ ix' = NoIndex /\ target' = 0
  BY DEF ResetIndexed, Reset
<1>4. stream' \in Seq(Chunks)
  BY <1>3, StreamReaderAssumption
<1>5. /\ Totals(stream)'[0] = 0 /\ 0 \in 0 .. TotalOf(stream)' /\ LastId(stream', 0) = 0 /\ Len(stream') \in Nat
      /\ h' \in Headers /\ ~h'.wantEOF
  BY <1>3, <1>4, AtStart, NewHeaderIs
<1>11. TypeOK'
  BY <1>1, <1>3, <1>4, <1>5 DEF TypeOK
<1>12. BufferInv'
  BY <1>1, <1>3, <1>4, <1>5 DEF BufferInv, Held, Indexing, UnitsIn, Checked
<1>13. PositionInv'
  BY <1>1, <1>3, <1>4, <1>5 DEF PositionInv, Settled, Ended, Indexing, UnitsIn
<1>14. SeekInv'
  BY <1>1, <1>3, <1>4, <1>5 DEF SeekInv, Settled, Ended, Indexing, UnitsIn
<1>15. StartInv'
  BY <1>1, <1>3, <1>4, <1>5 DEF StartInv, Settled, Ended, Uncounted, From, UnitsIn
<1>16. MarkerInv'
  BY <1>1, <1>3, <1>4, <1>5 DEF MarkerInv
<1> QED
  BY <1>1, <1>11, <1>12, <1>13, <1>14, <1>15, <1>16 DEF ReaderInv, IndexFits

\* What Seek finds.
LEMMA Seeking ==
  ASSUME ReaderInv, pc = "seek"
  PROVE  /\ Indexing /\ stream \in Seq(Chunks) /\ stream \in Indexed /\ ix \in Indexes(stream)
         /\ err = "none" /\ h.header /\ h.wantEOF /\ start + j = Totals(stream)[pos]
         /\ pos \in 0 .. Len(stream) /\ Len(stream) \in Nat /\ i \in 0 .. j /\ j \in Nat /\ start \in Int
         /\ Totals(stream)[pos] \in 0 .. TotalOf(stream) /\ TotalOf(stream) \in Nat
         /\ j > 0 => Held /\ j <= Totals(stream)[pos]
         /\ Totals(stream)[LastId(stream, pos)] = 0 /\ want \in Nat /\ want > 0
<1>1. IndexFits /\ TypeOK /\ BufferInv /\ PositionInv /\ SeekInv /\ StartInv /\ MarkerInv
  BY DEF ReaderInv
<1>2. Indexing /\ h.header /\ err = "none" /\ want > 0
  BY <1>1 DEF PositionInv
<1>3. /\ stream \in Seq(Chunks) /\ stream \in Indexed /\ ix \in Indexes(stream)
      /\ pos \in 0 .. Len(stream) /\ Len(stream) \in Nat /\ i \in 0 .. j /\ j \in Nat /\ start \in Int
      /\ want \in Nat
  BY <1>1, <1>2 DEF TypeOK, Indexing
<1>4. h.wantEOF /\ start + j = Totals(stream)[pos]
  BY <1>1, <1>2 DEF SeekInv, UnitsIn
<1>5. Totals(stream)[pos] \in 0 .. TotalOf(stream) /\ TotalOf(stream) \in Nat
  BY <1>1, <1>3, Units
<1>6. j > 0 => Held /\ j <= Totals(stream)[pos]
  <2> SUFFICES ASSUME j > 0 PROVE Held /\ j <= Totals(stream)[pos]
    OBVIOUS
  <2>1. Held
    BY <1>1, <1>2 DEF BufferInv
  <2>2. dec \in 1 .. pos /\ Totals(stream)[dec - 1] = Totals(stream)[pos] - j
    BY <2>1 DEF Held, UnitsIn
  <2>3. dec - 1 \in 0 .. Len(stream)
    BY <1>3, <2>2
  <2>4. Totals(stream)[dec - 1] \in 0 .. TotalOf(stream)
    BY <1>1, <2>3, Units
  <2> QED
    BY <1>3, <1>5, <2>1, <2>2, <2>4
<1>7. Totals(stream)[LastId(stream, pos)] = 0
  BY <1>1, <1>3, IndexedFrom
<1> QED
  BY <1>2, <1>3, <1>4, <1>5, <1>6, <1>7

LEMMA SeekCallKeeps ==
  ASSUME ReaderInv, NEW o \in Nat, NEW n \in Sizes \ {0}, SeekCall(o, n)
  PROVE  ReaderInv'
<1>1. IndexFits /\ TypeOK /\ BufferInv /\ PositionInv /\ SeekInv /\ StartInv /\ MarkerInv
  BY DEF ReaderInv
<1>2. /\ pc = "idle" /\ err \in {"none", "eof"} /\ ix # NoIndex
      /\ err' = "none" /\ target' = o /\ want' = n /\ n \in Nat /\ n > 0
      /\ UNCHANGED <<stream, h, start, i, j, dec, at, ix>>
  BY StreamReaderAssumption DEF SeekCall, block
<1>3. \/ h.header /\ pc' = "seek" /\ UNCHANGED <<pos, left>>
      \/ ~h.header /\ pc' = "head" /\ pos' = 0 /\ left' = 0
  BY DEF SeekCall
<1>4. h.header => err = "none" /\ start + j = Totals(stream)[pos] /\ (j > 0 => Held)
  <2>1. h.header => err = "none"
    BY <1>1, <1>2 DEF SeekInv, Indexing, PositionInv, Ended
  <2> QED
    BY <1>1, <1>2, <2>1 DEF SeekInv, Indexing, BufferInv, UnitsIn
<1>5. /\ Totals(stream)[0] = 0 /\ 0 \in 0 .. Len(stream) /\ (~h.header => i = j)
      /\ j \in Nat /\ i \in Nat
  BY <1>1, Units DEF TypeOK, BufferInv
<1>11. TypeOK'
  BY <1>1, <1>2, <1>3, <1>4, <1>5 DEF TypeOK
<1>12. BufferInv'
  BY <1>1, <1>2, <1>3, <1>4, <1>5 DEF BufferInv, Held, Indexing, UnitsIn, Checked
<1>13. PositionInv'
  BY <1>1, <1>2, <1>3, <1>4, <1>5 DEF PositionInv, Settled, Ended, Indexing, UnitsIn
<1>14. SeekInv'
  BY <1>1, <1>2, <1>3, <1>4, <1>5 DEF SeekInv, Settled, Ended, Indexing, UnitsIn
<1>15. StartInv'
  BY <1>1, <1>2, <1>3, <1>4, <1>5 DEF StartInv, Settled, Ended, Uncounted, From, UnitsIn
<1>16. MarkerInv'
  BY <1>1, <1>2, <1>3, <1>4, <1>5 DEF MarkerInv
<1> QED
  BY <1>1, <1>11, <1>12, <1>13, <1>14, <1>15, <1>16 DEF ReaderInv, IndexFits

LEMMA HeadReadKeeps ==
  ASSUME ReaderInv, HeadRead
  PROVE  ReaderInv'
<1>1. IndexFits /\ TypeOK /\ BufferInv /\ PositionInv /\ SeekInv /\ StartInv /\ MarkerInv
  BY DEF ReaderInv
<1>2. /\ pc = "head" /\ i < j /\ pc' = "seek" /\ err = "none" /\ want > 0
      /\ UNCHANGED <<stream, pos, h, start, i, j, dec, err, left, want, at, ix, target>>
  BY <1>1 DEF HeadRead, block, call, PositionInv
<1>3. h.header /\ Indexing
  BY <1>1, <1>2 DEF PositionInv, BufferInv, TypeOK
<1>11. TypeOK'
  BY <1>1, <1>2, <1>3 DEF TypeOK
<1>12. BufferInv'
  BY <1>1, <1>2, <1>3 DEF BufferInv, Held, Indexing, UnitsIn, Checked
<1>13. PositionInv'
  BY <1>1, <1>2, <1>3 DEF PositionInv, Settled, Ended, Indexing, UnitsIn
<1>14. SeekInv'
  BY <1>1, <1>2, <1>3 DEF SeekInv, Settled, Ended, Indexing, UnitsIn
<1>15. StartInv'
  BY <1>1, <1>2, <1>3 DEF StartInv, Settled, Ended, Uncounted, From, UnitsIn
<1>16. MarkerInv'
  BY <1>1, <1>2, <1>3 DEF MarkerInv
<1> QED
  BY <1>1, <1>11, <1>12, <1>13, <1>14, <1>15, <1>16 DEF ReaderInv, IndexFits

LEMMA SeekInsideKeeps ==
  ASSUME ReaderInv, SeekInside
  PROVE  ReaderInv'
<1>1. IndexFits /\ TypeOK /\ BufferInv /\ PositionInv /\ SeekInv /\ StartInv /\ MarkerInv
  BY DEF ReaderInv
<1>2. /\ pc = "seek" /\ start <= target /\ target < start + j
      /\ i' = target - start /\ at' = target /\ target' = 0
      /\ UNCHANGED <<stream, pos, h, start, j, dec, err, ix>>
  BY DEF SeekInside, Inside
<1>3. /\ pc' = "read" /\ left' \in Nat /\ want' \in Nat
  BY <1>1 DEF SeekInside, Landed, PositionInv, TypeOK
<1>4. /\ i' \in 0 .. j /\ at' \in 0 .. TotalOf(stream) /\ at' = Totals(stream)[pos] - (j - i')
      /\ start + j = Totals(stream)[pos] /\ err = "none" /\ h.header /\ h.wantEOF /\ j > 0 /\ Held
      /\ Totals(stream)[LastId(stream, pos)] = 0 /\ Totals(stream)[pos] \in Nat /\ start + j \in Nat
  BY <1>1, <1>2, Seeking DEF TypeOK
<1>11. TypeOK'
  BY <1>1, <1>2, <1>3, <1>4 DEF TypeOK
<1>12. BufferInv'
  BY <1>1, <1>2, <1>3, <1>4 DEF BufferInv, Held, Indexing, UnitsIn, Checked
<1>13. PositionInv'
  BY <1>1, <1>2, <1>3, <1>4 DEF PositionInv, Settled, Ended, Indexing, UnitsIn
<1>14. SeekInv'
  BY <1>1, <1>2, <1>3, <1>4 DEF SeekInv, Settled, Ended, Indexing, UnitsIn
<1>15. StartInv'
  BY <1>1, <1>2, <1>3, <1>4 DEF StartInv, Settled, Ended, Uncounted, From, UnitsIn
<1>16. MarkerInv'
  BY <1>1, <1>2, <1>3, <1>4 DEF MarkerInv
<1> QED
  BY <1>1, <1>11, <1>12, <1>13, <1>14, <1>15, <1>16 DEF ReaderInv, IndexFits

LEMMA SeekBeyondKeeps ==
  ASSUME ReaderInv, SeekBeyond
  PROVE  ReaderInv'
<1>1. IndexFits /\ TypeOK /\ BufferInv /\ PositionInv /\ SeekInv /\ StartInv /\ MarkerInv
  BY DEF ReaderInv
<1>2. /\ pc = "seek" /\ at' = start + i /\ target' = 0
      /\ UNCHANGED <<stream, pos, h, start, i, j, dec, err, ix>>
      /\ pc' = "idle" /\ left' = 0 /\ want' = 0
  BY DEF SeekBeyond, Over, block
<1>4. /\ at' \in 0 .. TotalOf(stream) /\ at' = Totals(stream)[pos] - (j - i)
      /\ start + j = Totals(stream)[pos] /\ err = "none" /\ h.header /\ h.wantEOF /\ (j > 0 => Held)
      /\ Totals(stream)[LastId(stream, pos)] = 0 /\ Totals(stream)[pos] \in Nat /\ start + j \in Nat
      /\ i \in 0 .. j /\ j \in Nat
  BY <1>1, <1>2, Seeking
<1>11. TypeOK'
  BY <1>1, <1>2, <1>4 DEF TypeOK
<1>12. BufferInv'
  BY <1>1, <1>2, <1>4 DEF BufferInv, Held, Indexing, UnitsIn, Checked
<1>13. PositionInv'
  BY <1>1, <1>2, <1>4 DEF PositionInv, Settled, Ended, Indexing, UnitsIn
<1>14. SeekInv'
  BY <1>1, <1>2, <1>4 DEF SeekInv, Settled, Ended, Indexing, UnitsIn
<1>15. StartInv'
  BY <1>1, <1>2, <1>4 DEF StartInv, Settled, Ended, Uncounted, From, UnitsIn
<1>16. MarkerInv'
  BY <1>1, <1>2, <1>4 DEF MarkerInv
<1> QED
  BY <1>1, <1>11, <1>12, <1>13, <1>14, <1>15, <1>16 DEF ReaderInv, IndexFits

LEMMA SeekToKeeps ==
  ASSUME ReaderInv, SeekTo
  PROVE  ReaderInv'
<1>1. IndexFits /\ TypeOK /\ BufferInv /\ PositionInv /\ SeekInv /\ StartInv /\ MarkerInv
  BY DEF ReaderInv
<1>2. PICK k \in 0 .. Len(stream) : Find(ix, target) = Pair(k, Totals(stream)[k])
  BY <1>1, Seeking, FindIs DEF SeekTo, TypeOK
<1>3. /\ pos' = k /\ i' = j /\ start' = Totals(stream)[k] - j /\ at' = Totals(stream)[k] /\ target' = 0
      /\ UNCHANGED <<stream, h, j, dec, err, ix>>
      /\ k \in 0 .. Len(stream) /\ Totals(stream)[k] \in 0 .. TotalOf(stream) /\ TotalOf(stream) \in Nat
      /\ pc' \in {"skip", "read"} /\ left' \in Nat /\ want' \in Nat
  <2>1. Pair(k, Totals(stream)[k]).c = k /\ Pair(k, Totals(stream)[k]).u = Totals(stream)[k]
    BY DEF Pair
  <2>2. Totals(stream)[k] \in 0 .. TotalOf(stream) /\ TotalOf(stream) \in Nat
    BY <1>1, <1>2, Units
  <2>3. want \in Nat /\ want > 0 /\ target \in Nat
    BY <1>1, Seeking DEF SeekTo, TypeOK
  <2> QED
    BY <1>2, <2>1, <2>2, <2>3 DEF SeekTo, Landed
<1>4. /\ err = "none" /\ h.header /\ h.wantEOF /\ Totals(stream)[LastId(stream, k)] = 0
      /\ j \in Nat /\ Totals(stream)[k] \in Nat /\ Indexing
      /\ LastId(stream', pos') = LastId(stream, k)
  <2>1. pc = "seek"
    BY DEF SeekTo
  <2> QED
    BY <1>1, <1>2, <1>3, <2>1, Seeking, IndexedFrom
<1>11. TypeOK'
  BY <1>1, <1>3, <1>4 DEF TypeOK
<1>12. BufferInv'
  BY <1>1, <1>3, <1>4 DEF BufferInv, Held, Indexing, UnitsIn, Checked
<1>13. PositionInv'
  BY <1>1, <1>3, <1>4 DEF PositionInv, Settled, Ended, Indexing, UnitsIn
<1>14. SeekInv'
  BY <1>1, <1>3, <1>4 DEF SeekInv, Settled, Ended, Indexing, UnitsIn
<1>15. StartInv'
  BY <1>1, <1>3, <1>4 DEF StartInv, Settled, Ended, Uncounted, From, UnitsIn
<1>16. MarkerInv'
  BY <1>1, <1>3, <1>4 DEF MarkerInv
<1> QED
  BY <1>1, <1>11, <1>12, <1>13, <1>14, <1>15, <1>16 DEF ReaderInv, IndexFits

LEMMA InitKeeps == ASSUME IndexFits, InitSeek PROVE ReaderInv
<1>1. /\ stream \in Streams /\ pos = 0 /\ h = NewHeader /\ start = 0 /\ i = 0 /\ j = 0 /\ dec = 0
      /\ err = "none" /\ pc = "idle" /\ left = 0 /\ want = 0 /\ at = 0 /\ target = 0
      /\ ix # NoIndex => stream \in Indexed /\ ix \in Indexes(stream)
  BY DEF InitSeek, Init
<1>2. stream \in Seq(Chunks)
  BY <1>1, StreamReaderAssumption
<1>3. /\ Totals(stream)[0] = 0 /\ 0 \in 0 .. TotalOf(stream) /\ LastId(stream, 0) = 0 /\ Len(stream) \in Nat
      /\ h \in Headers /\ ~h.wantEOF /\ (Indexing => ~h.header)
  <2>1. Indexing => ~h.header
    BY <1>1 DEF IndexFits, Indexing, NewHeader
  <2> QED
    BY <1>1, <1>2, <2>1, AtStart, NewHeaderIs
<1>11. TypeOK
  BY <1>1, <1>2, <1>3 DEF TypeOK
<1>12. BufferInv
  BY <1>1, <1>2, <1>3 DEF BufferInv
<1>13. PositionInv
  BY <1>1, <1>2, <1>3 DEF PositionInv, Settled, Ended, UnitsIn
<1>14. SeekInv
  BY <1>1, <1>2, <1>3 DEF SeekInv, Settled, Ended, UnitsIn
<1>15. StartInv
  BY <1>1, <1>2, <1>3 DEF StartInv, Settled, Ended, UnitsIn, From
<1>16. MarkerInv
  BY <1>1, <1>2, <1>3 DEF MarkerInv
<1> QED
  BY <1>11, <1>12, <1>13, <1>14, <1>15, <1>16 DEF ReaderInv

LEMMA StepKeeps ==
  ASSUME ReaderInv, ReaderStep
  PROVE  ReaderInv'
<1>1. UNCHANGED <<ix, target>>
  BY DEF ReaderStep
<1>2. CASE \E n \in Sizes : Read(n) \/ Skip(n)
  BY <1>1, <1>2, ReadKeeps, SkipKeeps
<1>3. CASE WriteTo
  BY <1>1, <1>3, WriteToKeeps
<1>4. CASE Step
  <2>1. CASE Deliver \/ SkipDecoded \/ WriteRest
    BY <1>1, <2>1, DeliverKeeps, SkipDecodedKeeps, WriteRestKeeps
  <2>2. CASE EndOfInput \/ Refuse \/ WriteEnd \/ WriteFails
    BY <1>1, <2>2, EndOfInputKeeps, RefuseKeeps, WriteEndKeeps, WriteFailsKeeps
  <2>3. CASE TakeIdentifier \/ TakeEOF \/ TakeSkippable
    BY <1>1, <2>3, TakeIdentifierKeeps, TakeEOFKeeps, TakeSkippableKeeps
  <2>4. CASE TakeBlock \/ WriteBlock \/ PassBlock
    BY <1>1, <2>4, TakeBlockKeeps, WriteBlockKeeps, PassBlockKeeps
  <2> QED
    BY <1>4, <2>1, <2>2, <2>3, <2>4 DEF Step
<1>5. CASE ReturnError
  BY <1>1, <1>5, StutterKeeps DEF ReturnError
<1> QED
  BY <1>2, <1>3, <1>4, <1>5 DEF ReaderStep

LEMMA SeekStepKeeps ==
  ASSUME ReaderInv, SeekStep
  PROVE  ReaderInv'
<1>1. CASE \E offset \in Offsets, n \in Sizes \ {0} : ReadAt(offset, n)
  <2>1. PICK offset \in Offsets, n \in Sizes \ {0} : SeekCall(offset, n)
    BY <1>1 DEF ReadAt
  <2>2. offset \in Nat
    BY <2>1 DEF Offsets
  <2> QED
    BY <2>1, <2>2, SeekCallKeeps
<1>2. CASE \E s \in Others : ResetIndexed(s)
  BY <1>2, ResetKeeps
<1>3. CASE HeadRead \/ SeekInside \/ SeekBeyond \/ SeekTo
  BY <1>3, HeadReadKeeps, SeekInsideKeeps, SeekBeyondKeeps, SeekToKeeps
<1> QED
  BY <1>1, <1>2, <1>3 DEF SeekStep

-----------------------------------------------------------------------------
(* What holds                                                              *)

\* Read, ReadByte, Skip, WriteTo, ReadAt and Reset keep the buffer, the offsets and the
\* position in step, over all streams and all indexes of chunk starts.
THEOREM ReaderKeeps == ASSUME IndexFits PROVE ReadAtSpec => []ReaderInv
<1>1. InitSeek => ReaderInv
  BY InitKeeps
<1>2. ReaderInv /\ [ReaderStep \/ SeekStep]_seekVars => ReaderInv'
  <2> SUFFICES ASSUME ReaderInv, [ReaderStep \/ SeekStep]_seekVars PROVE ReaderInv'
    OBVIOUS
  <2>1. CASE ReaderStep
    BY <2>1, StepKeeps
  <2>2. CASE SeekStep
    BY <2>2, SeekStepKeeps
  <2>3. CASE UNCHANGED seekVars
    BY <2>3, StutterKeeps DEF seekVars
  <2> QED
    BY <2>1, <2>2, <2>3
<1> QED
  BY <1>1, <1>2, PTL DEF ReadAtSpec

\* However the calls follow one another, the next Read passes on the data at the user's
\* position: no bytes are repeated or left out.
THEOREM PassesOnInOrder == ASSUME IndexFits PROVE ReadAtSpec => []NextIsRight
<1>1. ReaderInv => NextIsRight
  <2> SUFFICES ASSUME ReaderInv, Settled PROVE at = IF i < j THEN UnitsIn(dec - 1) + i ELSE UnitsIn(pos)
    BY DEF NextIsRight
  <2>1. TypeOK /\ BufferInv /\ PositionInv
    BY DEF ReaderInv
  <2>2. UnitsIn(pos) \in Nat /\ i \in 0 .. j /\ j \in Nat /\ at = UnitsIn(pos) - (j - i)
    BY <2>1, Units DEF TypeOK, PositionInv, UnitsIn
  <2>3. i < j => UnitsIn(dec - 1) = UnitsIn(pos) - j
    BY <2>1 DEF BufferInv, Held
  <2> QED
    BY <2>2, <2>3
<1> QED
  BY <1>1, ReaderKeeps, PTL

\* The offset the Reader counts with, for positions and the EOF marker's total, is the
\* user's in the stream that holds it.
THEOREM CountsInStep == ASSUME IndexFits PROVE ReadAtSpec => []PositionIsRight
<1>1. ReaderInv => PositionIsRight
  <2> SUFFICES ASSUME ReaderInv, Settled, ~Uncounted PROVE start + i = at - UnitsIn(From)
    BY DEF PositionIsRight, Uncounted, From, LastId
  <2>1. TypeOK /\ PositionInv /\ StartInv
    BY DEF ReaderInv
  <2>2. UnitsIn(pos) \in Nat /\ i \in 0 .. j /\ j \in Nat /\ start \in Int /\ at = UnitsIn(pos) - (j - i)
    BY <2>1, Units DEF TypeOK, PositionInv, UnitsIn
  <2>3. start + j = UnitsIn(pos) - UnitsIn(From)
    BY <2>1 DEF StartInv
  <2>4. UnitsIn(From) \in Nat
    <3>1. From \in 0 .. Len(stream)
      BY <2>1, Units, LastIdIs DEF TypeOK, From
    <3> QED
      BY <2>1, <3>1, Units DEF UnitsIn
  <2> QED
    BY <2>2, <2>3, <2>4
<1> QED
  BY <1>1, ReaderKeeps, PTL

\* An end is reported only where the data end and every MinLZ stream has had its EOF
\* marker: a truncated stream is never taken for a whole one.
THEOREM EndsAtTheEnd == ASSUME IndexFits PROVE ReadAtSpec => []EndIsTheEnd
<1>1. ReaderInv => EndIsTheEnd
  <2> SUFFICES ASSUME ReaderInv, Ended
               PROVE  /\ pos = Len(stream) /\ at = TotalOf(stream)
                      /\ \A k \in DOMAIN stream : stream[k].kind = "idMinLZ" =>
                           \E m \in k .. Len(stream) : stream[m].kind = "eof"
    BY DEF EndIsTheEnd, Ended
  <2>1. TypeOK /\ PositionInv /\ MarkerInv
    BY DEF ReaderInv
  <2>2. pos = Len(stream) /\ i = j /\ ~h.wantEOF /\ at = UnitsIn(pos) - (j - i)
    BY <2>1 DEF PositionInv
  <2>3. at = TotalOf(stream)
    BY <2>1, <2>2, Units DEF TypeOK, UnitsIn
  <2>4. \A k \in 1 .. pos : stream[k].kind = "idMinLZ" => \E m \in k .. pos : stream[m].kind = "eof"
    BY <2>1, <2>2 DEF MarkerInv
  <2>5. DOMAIN stream = 1 .. Len(stream)
    BY <2>1 DEF TypeOK
  <2> QED
    BY <2>2, <2>3, <2>4, <2>5
<1> QED
  BY <1>1, ReaderKeeps, PTL

\* The streams are those the bounds name.
Known == stream \in Streams \cup Others

LEMMA Knows ==
  ASSUME Known, [ReaderStep \/ SeekStep]_seekVars
  PROVE  Known'
<1>1. CASE ReaderStep
  BY <1>1 DEF Known, ReaderStep, Read, Skip, WriteTo, ReturnError, vars, Step, Deliver, SkipDecoded, EndOfInput,
    Refuse, Stop, TakeIdentifier, TakeEOF, TakeSkippable, TakeBlock, PassBlock, WriteRest, WriteBlock,
    WriteEnd, WriteFails
<1>2. CASE SeekStep
  BY <1>2 DEF Known, SeekStep, ReadAt, SeekCall, ResetIndexed, Reset, HeadRead, SeekInside, SeekBeyond, SeekTo
<1>3. CASE UNCHANGED seekVars
  BY <1>3 DEF Known, seekVars, vars
<1> QED
  BY <1>1, <1>2, <1>3

\* Skip does not check an uncompressed block in which it ends; with those whole ...
RawIntact ==
  \A s \in Streams \cup Others : \A k \in DOMAIN s : s[k].kind = "raw" => s[k].bad = "no"

\* ... nothing is passed on that was not decoded and checked.
THEOREM PassesOnVerified == ASSUME IndexFits, RawIntact PROVE ReadAtSpec => []VerifiedOnly
<1>1. InitSeek => Known
  BY DEF InitSeek, Init, Known
<1>2. Known /\ [ReaderStep \/ SeekStep]_seekVars => Known'
  BY Knows
<1>3. ReaderInv /\ Known => VerifiedOnly
  <2> SUFFICES ASSUME ReaderInv, Known, Settled, i < j
               PROVE  stream[dec].bad = "no" \/ (IgnoreCRC /\ stream[dec].bad = "crc")
    BY DEF VerifiedOnly
  <2>1. TypeOK /\ Held
    BY DEF ReaderInv, BufferInv
  <2>2. dec \in DOMAIN stream /\ Checked(stream[dec])
    BY <2>1 DEF TypeOK, Held
  <2> QED
    BY <2>2 DEF Checked, RawIntact, Known
<1> QED
  BY <1>1, <1>2, <1>3, ReaderKeeps, PTL DEF ReadAtSpec

-----------------------------------------------------------------------------
(* A stream as the format wants it                                         *)

\* What the place in a valid stream says of the chunks before it.
Place(s, k) ==
  LET v == ValidStates(s)[k]
      l == LastId(s, k)
  IN  /\ v.in = "minlz" =>
           /\ l # 0 /\ s[l].kind = "idMinLZ" /\ v.max = s[l].n
           /\ v.sum = Totals(s)[k] - Totals(s)[l]
           /\ \A m \in l + 1 .. k : s[m].kind # "legacy"
      /\ v.in = "s2" => l # 0 /\ s[l].kind = "idS2" /\ AllowFallback /\ v.max = MaxS2Block
      /\ v.in = "between" => l = 0 \/ \E m \in l .. k : s[m].kind = "eof"

LEMMA PlaceStep ==
  ASSUME NEW s \in Seq(Chunks), Valid(s), NEW k \in 0 .. Len(s), k < Len(s), Place(s, k)
  PROVE  Place(s, k + 1)
<1> DEFINE v == ValidStates(s)[k]
           w == ValidStates(s)[k + 1]
           c == s[k + 1]
           l == LastId(s, k)
           T == Totals(s)
<1>1. k + 1 \in 1 .. Len(s) /\ (k + 1) - 1 = k /\ k + 1 \in 0 .. Len(s) /\ k \in Nat
  OBVIOUS
<1>2. w = ValidStep(v, c) /\ v \in States /\ c \in Chunks /\ w.in # "wrong"
  BY <1>1, StatesAre, RightThroughout
<1>3. T[k + 1] = T[k] + UnitsOf(c) /\ T[k] \in Nat /\ UnitsOf(c) \in Nat
  <2>1. T[k + 1] = T[(k + 1) - 1] + UnitsOf(c) /\ T[k] \in Nat
    BY <1>1, TotalsAre
  <2> QED
    BY <1>1, <1>2, <2>1 DEF Chunks, UnitsOf, DataKinds, MinLZKinds
<1>4. /\ l \in 0 .. k /\ LastId(s, k + 1) = IF c.kind \in IdKinds THEN k + 1 ELSE l
      /\ T[l] \in Nat
  <2>1. l \in 0 .. k /\ LastId(s, k + 1) = IF c.kind \in IdKinds THEN k + 1 ELSE l
    BY LastIdIs, LastIdNext
  <2>2. l \in 0 .. Len(s)
    BY <1>1, <2>1
  <2> QED
    BY <2>1, <2>2, TotalsAre
<1>5. /\ v.in = "minlz" =>
           /\ l # 0 /\ s[l].kind = "idMinLZ" /\ v.max = s[l].n /\ v.sum = T[k] - T[l]
           /\ \A m \in l + 1 .. k : s[m].kind # "legacy"
      /\ v.in = "s2" => l # 0 /\ s[l].kind = "idS2" /\ AllowFallback /\ v.max = MaxS2Block
      /\ v.in = "between" => l = 0 \/ \E m \in l .. k : s[m].kind = "eof"
  BY DEF Place
<1> DEFINE l2 == LastId(s, k + 1)
<1> SUFFICES
      /\ w.in = "minlz" =>
           /\ l2 # 0 /\ s[l2].kind = "idMinLZ" /\ w.max = s[l2].n /\ w.sum = T[k + 1] - T[l2]
           /\ \A m \in l2 + 1 .. k + 1 : s[m].kind # "legacy"
      /\ w.in = "s2" => l2 # 0 /\ s[l2].kind = "idS2" /\ AllowFallback /\ w.max = MaxS2Block
      /\ w.in = "between" => l2 = 0 \/ \E m \in l2 .. k + 1 : s[m].kind = "eof"
  BY DEF Place
<1>6. c = s[k + 1] /\ l2 = IF c.kind \in IdKinds THEN k + 1 ELSE l
  BY <1>4
<1> HIDE DEF v, w, c, l, T, l2
<1>7. CASE c.kind = "skip" /\ w = v
  <2>1. T[k + 1] = T[k] /\ l2 = l
    BY <1>3, <1>6, <1>7 DEF UnitsOf, DataKinds, MinLZKinds, IdKinds
  <2> QED
    BY <1>1, <1>4, <1>5, <1>6, <1>7, <2>1
<1>8. CASE c.kind = "idMinLZ" /\ w = [in |-> "minlz", max |-> c.n, sum |-> 0]
  <2>1. l2 = k + 1 /\ T[k + 1] \in Nat
    BY <1>3, <1>6, <1>8 DEF IdKinds
  <2>2. s[l2] = c /\ w.sum = T[k + 1] - T[l2]
    BY <1>6, <1>8, <2>1
  <2>3. \A m \in l2 + 1 .. k + 1 : s[m].kind # "legacy"
    BY <1>1, <2>1
  <2> QED
    BY <1>1, <1>8, <2>1, <2>2, <2>3
<1>9. CASE c.kind = "idS2" /\ AllowFallback /\ w = [in |-> "s2", max |-> MaxS2Block, sum |-> 0]
  <2>1. l2 = k + 1
    BY <1>6, <1>9 DEF IdKinds
  <2> QED
    BY <1>1, <1>6, <1>9, <2>1
<1>10. CASE c.kind = "eof" /\ w = [in |-> "between", max |-> 0, sum |-> 0]
  <2>1. l2 = l
    BY <1>6, <1>10 DEF IdKinds
  <2>2. k + 1 \in l2 .. k + 1
    BY <1>1, <1>4, <2>1
  <2> QED
    BY <1>6, <1>10, <2>2
<1>11. CASE /\ c.kind \in MinLZKinds \cup {"raw"} /\ v.in = "minlz"
            /\ w = [in |-> "minlz", max |-> v.max, sum |-> v.sum + c.n]
  <2>1. T[k + 1] = T[k] + c.n /\ l2 = l /\ c.kind # "legacy"
    BY <1>3, <1>6, <1>11 DEF UnitsOf, DataKinds, MinLZKinds, IdKinds
  <2>2. \A m \in l2 + 1 .. k + 1 : s[m].kind # "legacy"
    BY <1>1, <1>4, <1>5, <1>6, <1>11, <2>1
  <2>3. w.sum = T[k + 1] - T[l2]
    <3>1. v.sum \in Int /\ v.sum = T[k] - T[l] /\ c.n \in Int
      BY <1>2, <1>5, <1>11 DEF States, Chunks, NoTotal
    <3> QED
      BY <1>3, <1>4, <1>11, <2>1, <3>1
  <2> QED
    BY <1>5, <1>11, <2>1, <2>2, <2>3
<1>12. CASE /\ c.kind \in {"legacy", "raw"} /\ v.in = "s2"
            /\ w = [in |-> "s2", max |-> v.max, sum |-> v.sum + c.n]
  <2>1. l2 = l
    BY <1>6, <1>12 DEF IdKinds
  <2> QED
    BY <1>5, <1>12, <2>1
<1>13. \/ c.kind = "skip" /\ w = v
       \/ c.kind = "idMinLZ" /\ w = [in |-> "minlz", max |-> c.n, sum |-> 0]
       \/ c.kind = "idS2" /\ AllowFallback /\ w = [in |-> "s2", max |-> MaxS2Block, sum |-> 0]
       \/ c.kind = "eof" /\ w = [in |-> "between", max |-> 0, sum |-> 0]
       \/ /\ c.kind \in MinLZKinds \cup {"raw"} /\ v.in = "minlz"
          /\ w = [in |-> "minlz", max |-> v.max, sum |-> v.sum + c.n]
       \/ /\ c.kind \in {"legacy", "raw"} /\ v.in = "s2"
          /\ w = [in |-> "s2", max |-> v.max, sum |-> v.sum + c.n]
  <2>1. ValidStep(v, c).in # "wrong"
    BY <1>2
  <2> QED
    BY <1>2, <2>1, RightStep
<1> QED
  BY <1>7, <1>8, <1>9, <1>10, <1>11, <1>12, <1>13

LEMMA PlaceIs ==
  ASSUME NEW s \in Seq(Chunks), Valid(s), NEW k \in 0 .. Len(s)
  PROVE  Place(s, k)
<1> DEFINE S == {n \in Nat : n <= Len(s) => Place(s, n)}
<1>1. 0 \in S
  BY AtStart, StatesAre DEF Place
<1>2. ASSUME NEW n \in Nat, n \in S PROVE n + 1 \in S
  <2> SUFFICES ASSUME n + 1 <= Len(s) PROVE Place(s, n + 1)
    OBVIOUS
  <2>1. n \in 0 .. Len(s) /\ n < Len(s) /\ Place(s, n)
    BY <1>2
  <2> QED
    BY <2>1, PlaceStep
<1> HIDE DEF S
<1>3. Nat \subseteq S
  BY <1>1, <1>2, NatSet
<1> QED
  BY <1>3 DEF S

\* With a stream as it should be nothing is refused.  An S2 stream behind a MinLZ stream
\* of smaller blocks is, as maxBufSize is not restored, so that is left out.
BuffersSuffice == \A s \in Streams \cup Others : Valid(s) => BuffersFit(s)

\* The header state is the one the format gives the place in the stream; a Seek may
\* go back before the identifier with that of the stream.
Following(s, p) ==
  LET v == ValidStates(s)[p]
  IN  /\ v.in = "minlz" => h.header /\ h.wantEOF /\ h.maxBlock = v.max /\ ~h.snappy
      /\ v.in = "s2" => h.header /\ ~h.wantEOF /\ h.maxBlock = MaxBlockOrg /\ ~h.snappy
      /\ v.in = "between" =>
           ~h.wantEOF \/ (Indexing /\ \E a \in p + 1 .. Len(s) : s[a].kind = "idMinLZ")

ValidInv ==
  Valid(stream) =>
    /\ err \in {"none", "eof", "unexpectedEOF", "io"}
    /\ Following(stream, pos)
    /\ BlocksFit(stream, pos, h.maxBuf)
    /\ ~h.header => ~h.wantEOF
    /\ Indexing /\ h.header =>
         /\ ~h.snappy
         /\ \E a \in DOMAIN stream :
              stream[a].kind = "idMinLZ" /\ h.maxBlock = stream[a].n /\ h.maxBuf = stream[a].n

\* The next chunk of a valid stream.
LEMMA Ahead ==
  ASSUME ReaderInv, ValidInv, Valid(stream), pos < Len(stream)
  PROVE  /\ stream \in Seq(Chunks) /\ pos \in 0 .. Len(stream) /\ Cur \in Chunks
         /\ ValidStates(stream)[pos] \in States
         /\ ValidStates(stream)[pos + 1] = ValidStep(ValidStates(stream)[pos], Cur)
         /\ ValidStep(ValidStates(stream)[pos], Cur).in # "wrong"
         /\ Following(stream, pos) /\ Place(stream, pos)
         /\ Cur.kind \in DataKinds => Cur.len <= h.maxBuf
<1>1. /\ stream \in Seq(Chunks) /\ pos \in 0 .. Len(stream) /\ pos + 1 \in 1 .. Len(stream)
      /\ pos + 1 \in 0 .. Len(stream) /\ (pos + 1) - 1 = pos
  BY DEF ReaderInv, TypeOK
<1>2. Cur \in Chunks
  BY <1>1 DEF Cur
<1>3. /\ ValidStates(stream)[pos] \in States
      /\ ValidStates(stream)[pos + 1] = ValidStep(ValidStates(stream)[(pos + 1) - 1], stream[pos + 1])
  BY <1>1, StatesAre
<1>4. ValidStates(stream)[pos + 1].in # "wrong"
  BY <1>1, RightThroughout
<1>5. Place(stream, pos)
  BY <1>1, PlaceIs
<1>6. Following(stream, pos) /\ BlocksFit(stream, pos, h.maxBuf)
  BY DEF ValidInv
<1>7. Cur.kind \in DataKinds => Cur.len <= h.maxBuf
  <2> SUFFICES ASSUME Cur.kind \in DataKinds PROVE Cur.len <= h.maxBuf
    OBVIOUS
  <2>1. \A m \in pos + 1 .. pos + 1 : stream[m].kind # "idMinLZ"
    BY <1>1 DEF Cur, DataKinds, MinLZKinds
  <2>2. pos + 1 \in pos + 1 .. Len(stream)
    BY <1>1
  <2> QED
    BY <1>6, <2>1, <2>2 DEF BlocksFit, Cur
<1> QED
  BY <1>1, <1>2, <1>3, <1>4, <1>5, <1>6, <1>7 DEF Cur

\* The total an EOF marker may give is the one the Reader has counted.
LEMMA CountIsTotal ==
  ASSUME ReaderInv, ValidInv, Valid(stream), pos < Len(stream), Wants, ValidStates(stream)[pos].in = "minlz"
  PROVE  start + j = ValidStates(stream)[pos].sum
<1> DEFINE v == ValidStates(stream)[pos]
           l == LastId(stream, pos)
<1>1. TypeOK /\ PositionInv /\ SeekInv /\ StartInv
  BY DEF ReaderInv
<1>2. h.header /\ v.sum = Totals(stream)[pos] - Totals(stream)[l] /\ \A m \in l + 1 .. pos : stream[m].kind # "legacy"
  BY Ahead DEF Following, Place
<1>3. pc \in {"read", "skip", "head", "write"} /\ err = "none"
  BY <1>1 DEF Wants, PositionInv
<1>4. CASE pc = "head"
  <2>1. Indexing /\ start + j = Totals(stream)[pos]
    BY <1>1, <1>2, <1>3, <1>4 DEF PositionInv, SeekInv, UnitsIn
  <2>2. Totals(stream)[l] = 0 /\ Totals(stream)[pos] \in Nat
    <3>1. stream \in Indexed /\ IndexFits /\ stream \in Seq(Chunks) /\ pos \in 0 .. Len(stream)
      BY <1>1, <2>1 DEF ReaderInv, TypeOK, Indexing
    <3>2. Totals(stream)[l] = 0
      BY <3>1, IndexedFrom
    <3>3. Totals(stream)[pos] \in Nat
      BY <3>1, TotalsAre
    <3> QED
      BY <3>2, <3>3
  <2> QED
    BY <1>2, <2>1, <2>2
<1>5. CASE pc # "head"
  <2>1. Settled /\ ~Uncounted
    BY <1>2, <1>3, <1>5 DEF Settled, Uncounted, From
  <2> QED
    BY <1>1, <1>2, <2>1 DEF StartInv, From, UnitsIn
<1> QED
  BY <1>4, <1>5

\* So nothing is refused.
LEMMA NotRefused ==
  ASSUME ReaderInv, ValidInv, Valid(stream), Refuse
  PROVE  FALSE
<1> DEFINE v == ValidStates(stream)[pos]
           c == Cur
<1>1. Wants /\ pos < Len(stream)
  BY DEF Refuse, Taking
<1>2. /\ c \in Chunks /\ v \in States /\ ValidStep(v, c).in # "wrong"
      /\ c.kind \in DataKinds => c.len <= h.maxBuf
      /\ h.maxBuf \in Int /\ h.maxBlock \in Int
  BY <1>1, Ahead DEF ReaderInv, TypeOK, Headers
<1>3. /\ HeaderFits(h, v)
      /\ v.in = "minlz" => start + j = v.sum
      /\ v.in = "s2" => AllowFallback /\ v.max = MaxS2Block
  BY <1>1, Ahead, CountIsTotal DEF Following, HeaderFits, Place
<1>4. /\ ~Unheaded(h, c) /\ Refused(c) = "none"
      /\ c.kind \in DataKinds =>
           /\ EarlyRefusal(h, c) = "none" /\ LateRefusal(h, c) = "none" /\ c.bad = "no"
           /\ ~(c.n > h.maxBlock) /\ (c.kind \in MinLZKinds => ~(c.n = 0 \/ c.n < c.len))
      /\ c.kind \in IdKinds => IdRefusal(c) = "none"
      /\ c.kind = "eof" => v.in = "minlz" /\ ~TotalRefused(c, v.sum)
  BY <1>2, <1>3, Accepted
<1>5. c.kind \in DataKinds /\ v.in = "s2" => ~(c.n > MaxS2Block)
  <2> SUFFICES ASSUME c.kind \in DataKinds, v.in = "s2" PROVE c.n <= MaxS2Block
    BY <1>2, ReaderAssumption DEF Chunks, NoTotal
  <2> HIDE DEF v, c
  <2>1. c.n <= v.max
    BY <1>2, RightStep DEF DataKinds, MinLZKinds
  <2> QED
    BY <1>3, <2>1
<1>6. c.kind \in DataKinds => DataRefusal(c) = "none"
  <2> SUFFICES ASSUME c.kind \in DataKinds PROVE DataRefusal(c) = "none"
    OBVIOUS
  <2>1. v.in = "s2" \/ c.kind # "legacy"
    <3> HIDE DEF v, c
    <3> QED BY <1>2, RightStep DEF DataKinds, MinLZKinds
  <2> QED
    BY <1>4, <1>5, <2>1 DEF DataRefusal, SkipRefusal, ReadRefusal
<1> QED
  BY <1>3, <1>4, <1>6 DEF Refuse

-----------------------------------------------------------------------------
(* The header state follows the stream                                     *)

LEMMA SameKeepsValid ==
  ASSUME ValidInv, UNCHANGED <<stream, pos, h, ix>>, err' \in {err, "none", "eof", "unexpectedEOF", "io"}
  PROVE  ValidInv'
  BY DEF ValidInv, Following, Indexing

LEMMA EndOfInputKeepsValid ==
  ASSUME ReaderInv, ValidInv, EndOfInput, UNCHANGED ix
  PROVE  ValidInv'
<1>3. pos = Len(stream) /\ UNCHANGED <<stream, pos, h, ix>> /\ (~h.wantEOF => err' \in {"eof", "unexpectedEOF"})
  BY DEF EndOfInput, Stop
<1>1. CASE ~Valid(stream)
  BY <1>1, <1>3 DEF ValidInv
<1>2. CASE Valid(stream)
  <2>1. pos = Len(stream) /\ stream \in Seq(Chunks)
    BY <1>3 DEF ReaderInv, TypeOK
  <2>2. ~h.wantEOF
    <3>1. ValidStates(stream)[pos].in \in {"between", "s2"} /\ Following(stream, pos)
      BY <1>2, <2>1 DEF Valid, ValidInv
    <3>2. ~ \E a \in pos + 1 .. Len(stream) : stream[a].kind = "idMinLZ"
      BY <2>1
    <3> QED
      BY <3>1, <3>2 DEF Following
  <2>3. err' \in {"eof", "unexpectedEOF"}
    BY <1>3, <2>2
  <2> QED
    BY <1>3, <2>3, SameKeepsValid
<1> QED
  BY <1>1, <1>2

LEMMA RefuseKeepsValid ==
  ASSUME ReaderInv, ValidInv, Refuse, UNCHANGED ix
  PROVE  ValidInv'
<1>1. stream' = stream
  BY DEF Refuse, Stop
<1> QED
  BY <1>1, NotRefused DEF ValidInv

\* A data chunk, a skippable one or an EOF marker further.
LEMMA TakenKeepsValid ==
  ASSUME ReaderInv, ValidInv, pos < Len(stream), UNCHANGED <<stream, err, ix>>, pos' = pos + 1,
         \/ Cur.kind \in DataKinds \cup {"skip"} /\ h' = h
         \/ Cur.kind = "eof" /\ h' = AfterEOF(h)
  PROVE  ValidInv'
<1> SUFFICES ASSUME Valid(stream) PROVE ValidInv'
  BY DEF ValidInv
<1> DEFINE v == ValidStates(stream)[pos]
           w == ValidStates(stream)[pos + 1]
           c == Cur
<1>1. /\ stream \in Seq(Chunks) /\ pos \in 0 .. Len(stream) /\ c \in Chunks /\ v \in States
      /\ w = ValidStep(v, c) /\ ValidStep(v, c).in # "wrong" /\ Following(stream, pos)
      /\ c = stream[pos + 1]
  BY Ahead DEF Cur
<1>2. /\ err \in {"none", "eof", "unexpectedEOF", "io"}
      /\ BlocksFit(stream, pos, h.maxBuf)
      /\ ~h.header => ~h.wantEOF
      /\ Indexing /\ h.header =>
           /\ ~h.snappy
           /\ \E a \in DOMAIN stream :
                stream[a].kind = "idMinLZ" /\ h.maxBlock = stream[a].n /\ h.maxBuf = stream[a].n
  BY DEF ValidInv
<1>3. /\ h'.maxBuf = h.maxBuf
      /\ h' = h \/ (~h'.header /\ ~h'.wantEOF)
  BY DEF AfterEOF, ReaderInv, TypeOK, Headers
<1>4. c.kind # "idMinLZ"
  BY DEF DataKinds, MinLZKinds
<1>5. BlocksFit(stream, pos + 1, h.maxBuf)
  BY <1>1, <1>2, <1>4, FitBehind
<1>6. /\ v.in = "minlz" => h.header /\ h.wantEOF /\ h.maxBlock = v.max /\ ~h.snappy
      /\ v.in = "s2" => h.header /\ ~h.wantEOF /\ h.maxBlock = MaxBlockOrg /\ ~h.snappy
      /\ v.in = "between" =>
           ~h.wantEOF \/ (Indexing /\ \E a \in pos + 1 .. Len(stream) : stream[a].kind = "idMinLZ")
  BY <1>1 DEF Following
<1>7. \/ c.kind = "skip" /\ w = v /\ h' = h
      \/ c.kind \in DataKinds /\ h' = h /\ w.in = v.in /\ w.max = v.max /\ v.in \in {"minlz", "s2"}
      \/ c.kind = "eof" /\ h' = AfterEOF(h) /\ w.in = "between"
  <2> HIDE DEF v, w, c
  <2>1. \/ c.kind = "skip" /\ w = v
        \/ c.kind \in {"idMinLZ", "idS2"}
        \/ c.kind = "eof" /\ w.in = "between"
        \/ c.kind \in DataKinds /\ w.in = v.in /\ w.max = v.max /\ v.in \in {"minlz", "s2"}
    BY <1>1, RightStep DEF DataKinds
  <2> QED
    BY <2>1 DEF DataKinds, MinLZKinds, c
<1> HIDE DEF v, w, c
<1>8. /\ w.in = "minlz" => h'.header /\ h'.wantEOF /\ h'.maxBlock = w.max /\ ~h'.snappy
      /\ w.in = "s2" => h'.header /\ ~h'.wantEOF /\ h'.maxBlock = MaxBlockOrg /\ ~h'.snappy
      /\ w.in = "between" =>
           ~h'.wantEOF \/ (Indexing /\ \E a \in (pos + 1) + 1 .. Len(stream) : stream[a].kind = "idMinLZ")
  <2>1. CASE c.kind = "skip" /\ w = v /\ h' = h
    <3>1. (\E a \in pos + 1 .. Len(stream) : stream[a].kind = "idMinLZ")
            => \E a \in (pos + 1) + 1 .. Len(stream) : stream[a].kind = "idMinLZ"
      BY <1>1, <1>4
    <3> QED
      BY <1>6, <2>1, <3>1
  <2>2. CASE h' = h /\ w.in = v.in /\ w.max = v.max /\ v.in \in {"minlz", "s2"}
    BY <1>6, <2>2
  <2>3. CASE h' = AfterEOF(h) /\ w.in = "between"
    <3>1. ~h'.wantEOF
      BY <2>3 DEF AfterEOF, ReaderInv, TypeOK, Headers
    <3> QED
      BY <2>3, <3>1
  <2> QED
    BY <1>7, <2>1, <2>2, <2>3
<1>9. Following(stream, pos)'
  BY <1>8 DEF Following, Indexing, w
<1> QED
  BY <1>2, <1>3, <1>5, <1>9 DEF ValidInv, Indexing

LEMMA IdentifierKeepsValid ==
  ASSUME ReaderInv, BuffersSuffice, Known, ValidInv, TakeIdentifier, UNCHANGED ix
  PROVE  ValidInv'
<1>1. /\ pos < Len(stream) /\ Cur.kind \in IdKinds /\ h' = Identified(h, Cur) /\ pos' = pos + 1
      /\ UNCHANGED <<stream, err, ix>>
  BY DEF TakeIdentifier, Taking, Cur
<1> SUFFICES ASSUME Valid(stream) PROVE ValidInv'
  BY <1>1 DEF ValidInv
<1> DEFINE v == ValidStates(stream)[pos]
           w == ValidStates(stream)[pos + 1]
           c == Cur
<1>2. /\ stream \in Seq(Chunks) /\ pos \in 0 .. Len(stream) /\ c \in Chunks /\ v \in States
      /\ w = ValidStep(v, c) /\ ValidStep(v, c).in # "wrong" /\ Following(stream, pos)
      /\ c = stream[pos + 1] /\ h \in Headers /\ pos + 1 \in DOMAIN stream
  BY <1>1, Ahead DEF Cur, ReaderInv, TypeOK
<1>3. /\ err \in {"none", "eof", "unexpectedEOF", "io"}
      /\ BlocksFit(stream, pos, h.maxBuf)
  BY DEF ValidInv
<1>4. \/ c.kind = "idMinLZ" /\ w = [in |-> "minlz", max |-> c.n, sum |-> 0]
      \/ c.kind = "idS2" /\ w = [in |-> "s2", max |-> MaxS2Block, sum |-> 0] /\ v.in \in {"between", "s2"}
  <2> HIDE DEF v, w, c
  <2>1. c.kind \notin MinLZKinds \cup {"skip", "eof", "raw", "legacy"}
    BY <1>1 DEF c, IdKinds, MinLZKinds
  <2> QED
    BY <1>2, <2>1, RightStep
<1>5. CASE c.kind = "idMinLZ" /\ w = [in |-> "minlz", max |-> c.n, sum |-> 0]
  <2>1. h' = [header |-> TRUE, wantEOF |-> TRUE, maxBlock |-> c.n, maxBuf |-> c.n, snappy |-> FALSE]
    BY <1>1, <1>5 DEF Identified
  <2>2. BlocksFit(stream, pos + 1, c.n)
    BY <1>2, <1>5 DEF BuffersSuffice, BuffersFit, Known
  <2>3. Following(stream, pos)'
    BY <1>1, <1>5, <2>1 DEF Following
  <2> QED
    BY <1>1, <1>2, <1>3, <1>5, <2>1, <2>2, <2>3 DEF ValidInv
<1>6. CASE /\ c.kind = "idS2" /\ w = [in |-> "s2", max |-> MaxS2Block, sum |-> 0]
           /\ v.in \in {"between", "s2"}
  <2>1. ~Indexing
    BY <1>2, <1>6 DEF ReaderInv, IndexFits, TypeOK, Indexing, IdKinds
  <2>2. ~h.wantEOF
    BY <1>2, <1>6, <2>1 DEF Following
  <2>3. /\ h'.header /\ h'.maxBlock = MaxBlockOrg /\ ~h'.snappy /\ ~h'.wantEOF
        /\ h'.maxBuf = h.maxBuf
    BY <1>1, <1>2, <1>6, <2>2 DEF Identified, Headers
  <2>4. BlocksFit(stream, pos + 1, h.maxBuf)
    BY <1>1, <1>2, <1>3, <1>6, FitBehind
  <2>5. Following(stream, pos)'
    BY <1>1, <1>6, <2>3 DEF Following
  <2> QED
    BY <1>1, <1>3, <2>1, <2>3, <2>4, <2>5 DEF ValidInv, Indexing
<1> QED
  BY <1>4, <1>5, <1>6

LEMMA ResetKeepsValid ==
  ASSUME BuffersSuffice, NEW s \in Others, ResetIndexed(s)
  PROVE  ValidInv'
<1>1. stream' = s /\ pos' = 0 /\ h' = NewHeader /\ err' = "none" /\ ix' = NoIndex
  BY DEF ResetIndexed, Reset
<1>2. s \in Seq(Chunks)
  BY StreamReaderAssumption
<1>3. Following(stream, pos)'
  BY <1>1, <1>2, StatesAre DEF Following, NewHeader
<1>4. Valid(s) => BlocksFit(s, 0, MaxBlockOrg)
  BY DEF BuffersSuffice, BuffersFit
<1> QED
  BY <1>1, <1>3, <1>4 DEF ValidInv, NewHeader, Indexing

LEMMA InitValid ==
  ASSUME IndexFits, BuffersSuffice, InitSeek
  PROVE  ValidInv
<1>1. stream \in Streams /\ pos = 0 /\ h = NewHeader /\ err = "none" /\ (Indexing => stream \in Indexed)
  BY DEF InitSeek, Init, Indexing
<1>2. stream \in Seq(Chunks)
  BY <1>1, StreamReaderAssumption
<1>3. Following(stream, pos)
  BY <1>1, <1>2, StatesAre DEF Following, NewHeader
<1>4. Valid(stream) => BlocksFit(stream, 0, MaxBlockOrg)
  BY <1>1 DEF BuffersSuffice, BuffersFit
<1>5. Indexing => ~h.header
  BY <1>1 DEF IndexFits, NewHeader
<1> QED
  BY <1>1, <1>3, <1>4, <1>5 DEF ValidInv, NewHeader

\* In a valid stream with an index the data come behind its one identifier.
LEMMA OneIdentifier ==
  ASSUME IndexFits, NEW s \in Seq(Chunks), s \in Indexed
  PROVE  /\ \A a, b \in 1 .. Len(s) : s[a].kind \in IdKinds /\ s[b].kind \in IdKinds => a = b
         /\ \A a, b \in 1 .. Len(s) : s[a].kind \in IdKinds /\ s[b].kind \in DataKinds => a < b
<1>1. \A a \in 1 .. Len(s) : s[a].kind \in IdKinds => \A m \in 1 .. a - 1 : s[m].kind = "skip"
  BY DEF IndexFits
<1>2. \A a, b \in 1 .. Len(s) : s[a].kind \in IdKinds /\ b < a => s[b].kind = "skip"
  BY <1>1
<1> QED
  BY <1>2 DEF DataKinds, MinLZKinds, IdKinds

LEMMA DataBehind ==
  ASSUME IndexFits, NEW s \in Seq(Chunks), s \in Indexed, Valid(s), NEW b \in 1 .. Len(s), s[b].kind \in DataKinds
  PROVE  \E m \in 1 .. b : s[m].kind = "idMinLZ"
<1> DEFINE v == ValidStates(s)[b - 1]
           l == LastId(s, b - 1)
<1>1. b - 1 \in 0 .. Len(s) /\ b \in 0 .. Len(s) /\ s[b] \in Chunks
  OBVIOUS
<1>2. v \in States /\ ValidStep(v, s[b]).in # "wrong"
  BY <1>1, StatesAre, RightThroughout
<1>3. v.in \in {"minlz", "s2"}
  <2> HIDE DEF v
  <2> QED BY <1>1, <1>2, RightStep DEF DataKinds, MinLZKinds
<1>4. Place(s, b - 1)
  BY <1>1, PlaceIs
<1>5. l # 0 /\ l \in 0 .. b - 1
  BY <1>1, <1>3, <1>4, LastIdIs DEF Place
<1>6. s[l].kind \in IdKinds
  BY <1>1, <1>5, LastIdIs
<1> HIDE DEF l
<1>7. l \in 1 .. b /\ l \in DOMAIN s
  BY <1>5
<1> QED
  BY <1>6, <1>7 DEF IndexFits

LEMMA SeekCallKeepsValid ==
  ASSUME ReaderInv, ValidInv, NEW o, NEW n, SeekCall(o, n)
  PROVE  ValidInv'
<1>1. /\ err' = "none" /\ UNCHANGED <<stream, h, ix>> /\ Indexing
      /\ (h.header /\ pos' = pos) \/ (~h.header /\ pos' = 0)
  BY DEF SeekCall, Indexing
<1>2. CASE h.header
  BY <1>1, <1>2, SameKeepsValid
<1>3. CASE ~h.header
  <2> SUFFICES ASSUME Valid(stream) PROVE ValidInv'
    BY <1>1 DEF ValidInv
  <2>1. ~h.wantEOF
    BY <1>3 DEF ValidInv
  <2>2. IndexFits /\ stream \in Seq(Chunks) /\ stream \in Indexed
    BY <1>1 DEF ReaderInv, TypeOK, Indexing
  <2>3. Following(stream, pos)'
    BY <1>1, <1>3, <2>1, <2>2, StatesAre DEF Following
  <2>4. BlocksFit(stream, 0, h.maxBuf)
    <3> SUFFICES ASSUME NEW b \in 0 + 1 .. Len(stream), stream[b].kind \in DataKinds,
                        \A m \in 0 + 1 .. b : stream[m].kind # "idMinLZ"
                 PROVE  FALSE
      BY DEF BlocksFit
    <3>1. b \in 1 .. Len(stream)
      OBVIOUS
    <3>2. \E m \in 1 .. b : stream[m].kind = "idMinLZ"
      BY <2>2, <3>1, DataBehind
    <3> QED
      BY <3>2
  <2> QED
    BY <1>1, <1>3, <2>1, <2>3, <2>4 DEF ValidInv
<1> QED
  BY <1>1, <1>2, <1>3

LEMMA SeekToKeepsValid ==
  ASSUME ReaderInv, BuffersSuffice, Known, ValidInv, SeekTo
  PROVE  ValidInv'
<1>1. IndexFits /\ TypeOK /\ BufferInv /\ PositionInv /\ SeekInv
  BY DEF ReaderInv
<1>2. /\ stream \in Seq(Chunks) /\ stream \in Indexed /\ ix \in Indexes(stream) /\ target \in Nat
      /\ h.header /\ h.wantEOF /\ Indexing
  BY <1>1 DEF TypeOK, PositionInv, SeekInv, Indexing, SeekTo
<1>3. PICK k \in 0 .. Len(stream) :
        Find(ix, target) = Pair(k, Totals(stream)[k]) /\ \A m \in 1 .. k : stream[m].kind # "eof"
  BY <1>2, FindIs
<1>4. pos' = k /\ UNCHANGED <<stream, h, err, ix>>
  <2>1. Pair(k, Totals(stream)[k]).c = k
    BY DEF Pair
  <2> QED
    BY <1>3, <2>1 DEF SeekTo
<1> SUFFICES ASSUME Valid(stream) PROVE ValidInv'
  BY <1>4 DEF ValidInv
<1>5. /\ err \in {"none", "eof", "unexpectedEOF", "io"} /\ ~h.snappy
      /\ \E a \in DOMAIN stream :
           stream[a].kind = "idMinLZ" /\ h.maxBlock = stream[a].n /\ h.maxBuf = stream[a].n
  BY <1>2 DEF ValidInv
<1>6. PICK a \in 1 .. Len(stream) :
        stream[a].kind = "idMinLZ" /\ h.maxBlock = stream[a].n /\ h.maxBuf = stream[a].n
  BY <1>2, <1>5
<1>7. /\ \A b \in 1 .. Len(stream) : stream[b].kind \in IdKinds => b = a
      /\ \A b \in 1 .. Len(stream) : stream[b].kind \in DataKinds => a < b
  BY <1>1, <1>2, <1>6, OneIdentifier DEF IdKinds
<1>8. BlocksFit(stream, k, h.maxBuf)
  <2>1. BlocksFit(stream, a, stream[a].n)
    BY <1>2, <1>6 DEF BuffersSuffice, BuffersFit, Known
  <2> SUFFICES ASSUME NEW b \in k + 1 .. Len(stream), stream[b].kind \in DataKinds
               PROVE  stream[b].len <= h.maxBuf
    BY DEF BlocksFit
  <2>2. b \in a + 1 .. Len(stream)
    BY <1>6, <1>7
  <2>3. \A m \in a + 1 .. b : stream[m].kind # "idMinLZ"
    BY <1>6, <1>7 DEF IdKinds
  <2> QED
    BY <1>6, <2>1, <2>2, <2>3 DEF BlocksFit
<1>9. Following(stream, k)
  <2> DEFINE v == ValidStates(stream)[k]
             l == LastId(stream, k)
  <2>1. /\ l \in 0 .. k /\ (l # 0 => stream[l].kind \in IdKinds)
        /\ \A m \in l + 1 .. k : stream[m].kind \notin IdKinds
    BY <1>2, LastIdIs
  <2>2. /\ v.in = "minlz" => l # 0 /\ v.max = stream[l].n
        /\ v.in = "s2" => l # 0 /\ stream[l].kind = "idS2"
        /\ v.in = "between" => l = 0 \/ \E m \in l .. k : stream[m].kind = "eof"
    BY <1>2, PlaceIs DEF Place
  <2> HIDE DEF v, l
  <2>3. l # 0 => l = a
    BY <1>7, <2>1
  <2>4. v.in = "between" => \E m \in k + 1 .. Len(stream) : stream[m].kind = "idMinLZ"
    <3> SUFFICES ASSUME v.in = "between" PROVE a \in k + 1 .. Len(stream)
      BY <1>6
    <3>1. l = 0
      BY <1>3, <2>1, <2>2
    <3> QED
      BY <1>6, <2>1, <3>1 DEF IdKinds
  <2> QED
    BY <1>2, <1>5, <1>6, <2>2, <2>3, <2>4 DEF Following, v
<1>10. Following(stream, pos)'
  BY <1>4, <1>9 DEF Following, Indexing
<1> QED
  BY <1>2, <1>4, <1>5, <1>8, <1>10 DEF ValidInv, Indexing

LEMMA StepKeepsValid ==
  ASSUME ReaderInv, BuffersSuffice, Known, ValidInv, ReaderStep
  PROVE  ValidInv'
<1>1. UNCHANGED <<ix, target>>
  BY DEF ReaderStep
<1>2. CASE \/ \E n \in Sizes : Read(n) \/ Skip(n)
           \/ WriteTo \/ ReturnError \/ Deliver \/ SkipDecoded \/ WriteRest \/ WriteEnd \/ WriteFails
  <2>1. UNCHANGED <<stream, pos, h, ix>> /\ err' \in {err, "none", "io"}
    BY <1>1, <1>2 DEF Read, Skip, WriteTo, ReturnError, vars, Deliver, SkipDecoded, WriteRest, WriteEnd,
      WriteFails, Stop
  <2> QED
    BY <2>1, SameKeepsValid
<1>3. CASE EndOfInput \/ Refuse \/ TakeIdentifier
  BY <1>1, <1>3, EndOfInputKeepsValid, RefuseKeepsValid, IdentifierKeepsValid
<1>4. CASE TakeEOF \/ TakeSkippable \/ TakeBlock \/ PassBlock \/ WriteBlock
  <2>1. /\ pos < Len(stream) /\ pos' = pos + 1 /\ UNCHANGED <<stream, err, ix>>
        /\ \/ Cur.kind \in DataKinds \cup {"skip"} /\ h' = h
           \/ Cur.kind = "eof" /\ h' = AfterEOF(h)
    BY <1>1, <1>4 DEF TakeEOF, TakeSkippable, TakeBlock, PassBlock, WriteBlock, Taking, Cur
  <2> QED
    BY <2>1, TakenKeepsValid
<1> QED
  BY <1>2, <1>3, <1>4 DEF ReaderStep, Step

LEMMA SeekStepKeepsValid ==
  ASSUME ReaderInv, BuffersSuffice, Known, ValidInv, SeekStep
  PROVE  ValidInv'
<1>1. CASE \E offset \in Offsets, n \in Sizes \ {0} : ReadAt(offset, n)
  BY <1>1, SeekCallKeepsValid DEF ReadAt
<1>2. CASE \E s \in Others : ResetIndexed(s)
  BY <1>2, ResetKeepsValid
<1>3. CASE HeadRead \/ SeekInside \/ SeekBeyond
  <2>1. UNCHANGED <<stream, pos, h, ix>> /\ err' = err
    BY <1>3 DEF HeadRead, SeekInside, SeekBeyond
  <2> QED
    BY <2>1, SameKeepsValid
<1>4. CASE SeekTo
  BY <1>4, SeekToKeepsValid
<1> QED
  BY <1>1, <1>2, <1>3, <1>4 DEF SeekStep

\* A stream as the format wants it is never refused, in whatever calls it is read and
\* whatever was read before.
THEOREM ReadsValid == ASSUME IndexFits, BuffersSuffice PROVE ReadAtSpec => []ValidIsRead
<1> DEFINE Inv == ReaderInv /\ Known /\ ValidInv
<1>1. InitSeek => Inv
  BY InitKeeps, InitValid DEF InitSeek, Init, Known
<1>2. Inv /\ [ReaderStep \/ SeekStep]_seekVars => Inv'
  <2> SUFFICES ASSUME Inv, [ReaderStep \/ SeekStep]_seekVars PROVE Inv'
    OBVIOUS
  <2>1. Known'
    BY Knows
  <2>2. CASE ReaderStep
    BY <2>1, <2>2, StepKeeps, StepKeepsValid
  <2>3. CASE SeekStep
    BY <2>1, <2>3, SeekStepKeeps, SeekStepKeepsValid
  <2>4. CASE UNCHANGED seekVars
    <3>1. UNCHANGED <<stream, pos, h, ix, err>>
      BY <2>4 DEF seekVars, vars
    <3> QED
      BY <2>1, <2>4, <3>1, StutterKeeps, SameKeepsValid DEF seekVars
  <2> QED
    BY <2>2, <2>3, <2>4
<1>3. Inv => ValidIsRead
  BY DEF ValidInv, ValidIsRead
<1> QED
  BY <1>1, <1>2, <1>3, PTL DEF ReadAtSpec

=============================================================================
