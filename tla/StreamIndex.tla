---------------------------- MODULE StreamIndex ----------------------------
(***************************************************************************)
(* The seek index of a MinLZ stream (index.go): a list of pairs            *)
(* <<compressed offset, uncompressed offset>>, one for a chunk at which    *)
(* decoding may start.  An index is [est |-> estBlockUncomp, off |-> the   *)
(* Offsets], an offset pair is [c |-> CompressedOffset, u |->              *)
(* UncompressedOffset].  This module holds only operators; StreamWriter    *)
(* and IndexLifecycle build indexes with them.                             *)
(***************************************************************************)
EXTENDS Integers, Sequences, SequencesExt

CONSTANTS
  MaxIndexEntries,  \* maxIndexEntries: more offsets than this are thinned out
  MinIndexDist,     \* minIndexDist: the spacing reduce aims for
  ReduceFloor,      \* reduce does not thin below this many entries (1000)
  LinearScan        \* Find scans up to this many entries (200), else bisects

ASSUME IndexAssumption ==
  /\ MaxIndexEntries \in Nat \ {0}
  /\ MinIndexDist \in Nat \ {0}
  /\ ReduceFloor \in Nat
  /\ LinearScan \in Nat

Pair(c, u) == [c |-> c, u |-> u]

EmptyIndex(est) == [est |-> est, off |-> <<>>]

\* Go's integer division by two truncates towards zero.
Half(n) == IF n < 0 THEN -((-n) \div 2) ELSE n \div 2

-----------------------------------------------------------------------------
(* Thinning *)

\* One step of reduceLight over the offsets: keep an entry, then drop every
\* entry closer than est to it AND the first one that is not, which the outer
\* loop's own increment jumps over.
LightStep(acc, e, est) ==
  IF acc.keep
  THEN [kept |-> Append(acc.kept, e), keep |-> FALSE]
  ELSE [acc EXCEPT !.keep = e.u - Last(acc.kept).u >= est]

\* What is kept of the first k offsets, and whether the next one will be.
LightStates(off, est) ==
  LET acc[k \in 0 .. Len(off)] ==
        IF k = 0 THEN [kept |-> <<>>, keep |-> TRUE] ELSE LightStep(acc[k - 1], off[k], est)
  IN  acc

ReduceLight(ix) ==
  LET est == 2 * ix.est
  IN  [est |-> est, off |-> LightStates(ix.off, est)[Len(ix.off)].kept]

\* The number of entries reduce drops after each one it keeps.
RemoveN(ix) ==
  LET n     == Len(ix.off)
      first == (n + 1) \div MaxIndexEntries
      More(r) == ix.est * (r + 1) < MinIndexDist /\ n \div (r + 1) > ReduceFloor
  IN  CHOOSE r \in first .. first + MinIndexDist + n :
        ~More(r) /\ \A q \in first .. r - 1 : More(q)

Reduce(ix) ==
  IF Len(ix.off) < MaxIndexEntries
  THEN ix
  ELSE LET r == RemoveN(ix)
           n == (Len(ix.off) + r) \div (r + 1)
       IN  [est |-> ix.est + ix.est * r,
            off |-> [k \in 1 .. n |-> ix.off[(k - 1) * (r + 1) + 1]]]

-----------------------------------------------------------------------------
(* Adding and finding *)

\* Too close to the latest entry: the pair is not recorded.
TooClose(ix, u) == ix.off # <<>> /\ u - Last(ix.off).u < ix.est

\* add returns an error ("internal error: Earlier ... received").
AddFails(ix, c, u) ==
  /\ ix.off # <<>>
  /\ ~TooClose(ix, u)
  /\ Last(ix.off).u > u \/ Last(ix.off).c > c

\* Faulty: a full index takes no more entries.
AddWhileRoom(ix, c, u) ==
  IF TooClose(ix, u) \/ AddFails(ix, c, u) \/ Len(ix.off) = MaxIndexEntries
  THEN ix
  ELSE [ix EXCEPT !.off = Append(@, Pair(c, u))]

Add(ix, c, u) ==
  IF TooClose(ix, u) \/ AddFails(ix, c, u)
  THEN ix
  ELSE LET longer == [ix EXCEPT !.off = Append(@, Pair(c, u))]
       IN  IF Len(longer.off) > MaxIndexEntries THEN ReduceLight(longer) ELSE longer

\* Faulty: bisection ends one entry further.
FindNext(ix, o) ==
  LET beyond == {k \in DOMAIN ix.off : ix.off[k].u > o}
      prefix == {k \in DOMAIN ix.off : \A j \in 1 .. k : ix.off[j].u <= o}
  IN  IF Len(ix.off) > LinearScan
      THEN ix.off[IF beyond = {} THEN Len(ix.off) ELSE Min(beyond)]
      ELSE IF prefix = {} THEN Pair(0, 0) ELSE ix.off[Max(prefix)]

\* Find for a non-negative offset within the known total.
Find(ix, o) ==
  LET atOrBefore == {k \in DOMAIN ix.off : ix.off[k].u <= o}
      \* the scan stops at the first entry beyond o
      prefix == {k \in DOMAIN ix.off : \A j \in 1 .. k : ix.off[j].u <= o}
  IN  IF Len(ix.off) > LinearScan
      THEN ix.off[IF atOrBefore = {} THEN 1 ELSE Max(atOrBefore)]
      ELSE IF prefix = {} THEN Pair(0, 0) ELSE ix.off[Max(prefix)]

-----------------------------------------------------------------------------
(* The stored form, as the sequence of varints appendTo writes *)

\* Uncompressed offsets are left out when every entry is est after the last.
HasUncompressed(ix) ==
  \E k \in DOMAIN ix.off :
    ix.off[k].u # IF k = 1 THEN 0 ELSE ix.off[k - 1].u + ix.est

\* Faulty: the prediction is never updated.
PredictConstant(ix) == [k \in 0 .. Len(ix.off) |-> Half(ix.est)]

\* cPredict before entry k + 1 is written: half the error is fed back.
Predict(ix) ==
  LET pred[k \in 0 .. Len(ix.off)] ==
        IF k <= 1 THEN Half(ix.est)
        ELSE pred[k - 1] + Half(ix.off[k].c - ix.off[k - 1].c - pred[k - 1])
  IN  pred

AppendTo(ix) ==
  [est   |-> ix.est,
   n     |-> Len(ix.off),
   hasU  |-> HasUncompressed(ix),
   us    |-> IF HasUncompressed(ix)
             THEN [k \in DOMAIN ix.off |->
                     ix.off[k].u - IF k = 1 THEN 0 ELSE ix.off[k - 1].u + ix.est]
             ELSE <<>>,
   cs    |-> [k \in DOMAIN ix.off |->
                IF k = 1 THEN ix.off[k].c
                ELSE ix.off[k].c - ix.off[k - 1].c - Predict(ix)[k - 1]]]

LoadU(b) ==
  LET delta(k) == IF b.hasU THEN b.us[k] ELSE 0
      u[k \in 1 .. b.n] == IF k = 1 THEN delta(1) ELSE delta(k) + u[k - 1] + b.est
  IN  u

\* The prediction, made again from the differences.
LoadPredict(b) ==
  LET pred[k \in 0 .. b.n] ==
        IF k <= 1 THEN Half(b.est) ELSE pred[k - 1] + Half(b.cs[k])
  IN  pred

LoadC(b) ==
  LET c[k \in 1 .. b.n] ==
        IF k = 1 THEN b.cs[1] ELSE b.cs[k] + c[k - 1] + LoadPredict(b)[k - 1]
  IN  c

\* Load refuses offsets that are negative or do not grow.
LoadAccepts(b) ==
  /\ b.n <= MaxIndexEntries
  /\ b.est >= 0
  /\ \A f \in {LoadU(b), LoadC(b)} : \A k \in 1 .. b.n :
       f[k] >= 0 /\ (k > 1 => f[k] > f[k - 1])

Load(b) ==
  [est |-> b.est, off |-> [k \in 1 .. b.n |-> Pair(LoadC(b)[k], LoadU(b)[k])]]
=============================================================================
