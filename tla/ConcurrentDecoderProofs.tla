------------------------ MODULE ConcurrentDecoderProofs ------------------------
(***************************************************************************)
(* IntactInOrder, Owned and SuccessIsComplete for every number of           *)
(* goroutines, every stream and all options of the Reader.  Owned needs     *)
(* that no checksum is of compressed data: without that its other parts     *)
(* hold, and of the input buffers what InPlaces says.                       *)
(***************************************************************************)
EXTENDS ConcurrentDecoder, FormatProofs, SequenceTheorems, FiniteSetTheorems

-----------------------------------------------------------------------------
(* The inductive invariant.                                                *)

N == Len(stream)
Kind(k) == stream[k].kind

Working == {"decode", "release", "crc", "giveback"}
Waiting == Working \cup {"fail", "turn"}
Writing == {"write", "pass", "next"}
Stages == Waiting \cup Writing \cup {"none", "end"}

Header ==
  [header : BOOLEAN, wantEOF : BOOLEAN, maxBlock : Int, maxBuf : Int, snappy : BOOLEAN]

TypeOK ==
  /\ stream \in Streams /\ pos \in 0 .. N /\ h \in Header
  /\ rin \in 0 .. Concurrency + 1 /\ rout \in 0 .. Concurrency + 1
  /\ toRead \in Seq(Buffers) /\ writtenBlocks \in Seq(Buffers)
  /\ queue \in Seq(1 .. N) /\ turn \in -1 .. N
  /\ job \in [0 .. N -> [st : Stages, in : 0 .. Concurrency + 1, out : 0 .. Concurrency + 1]]
  /\ outHas \in [Buffers -> Nat] /\ wg \in Int /\ out \in Seq(1 .. N) /\ aWritten \in Int

\* Where the calling goroutine is, and which buffers it has there.
CallerInv ==
  /\ rpc \in {"chunk", "raw", "in"} => rin = 0 /\ rout = 0
  /\ rpc = "out" => rin # 0 /\ rout = 0
  /\ rpc = "raw" => pos < N /\ Cur.kind = "raw"
  /\ rpc \in {"in", "out"} => pos < N /\ Cur.kind \in DataKinds \ {"raw"}
  /\ rpc \in {"entry", "queue"} =>
       /\ rout # 0 /\ pos < N /\ Cur.kind \in DataKinds
       /\ Cur.kind # "raw" => rin # 0
       /\ Cur.kind = "raw" => outHas[rout] = pos + 1 /\ Intact(pos + 1)
  /\ closed <=> rpc \in {"wait", "done"}

\* Who has a goroutine, what it holds, and what is in its output buffer.
JobOK(k) ==
  /\ job[k].st = "none" <=> k # 0 /\ ~(k <= pos /\ Kind(k) \in DataKinds)
  /\ job[k].st \in {"none", "fail", "next", "end"} \/ k = 0 => job[k].out = 0
  /\ job[k].st \in Working => k # 0 /\ job[k].in # 0 /\ job[k].out # 0 /\ Kind(k) # "raw"
  /\ job[k].st = "crc" => stream[k].bad # "body"
  /\ job[k].st \in {"release", "crc", "turn", "write"} /\ job[k].out # 0 => outHas[job[k].out] = k
  /\ job[k].st \in {"turn", "write"} /\ k # 0 =>
       IF job[k].out = 0 THEN aErr # "none" ELSE Intact(k)
JobInv == \A k \in 0 .. N : JobOK(k)

\* An output buffer is in one place.
OutPlaces ==
  /\ \A i, j \in 1 .. Len(writtenBlocks) : writtenBlocks[i] = writtenBlocks[j] => i = j
  /\ rout # 0 => \A i \in 1 .. Len(writtenBlocks) : writtenBlocks[i] # rout
  /\ \A k \in 0 .. N : job[k].out # 0 =>
       /\ job[k].out # rout
       /\ \A i \in 1 .. Len(writtenBlocks) : writtenBlocks[i] # job[k].out
       /\ \A m \in 0 .. N : job[m].out = job[k].out => m = k

\* An input buffer is in one place, until the goroutine gives it back.
Reads(k) == job[k].st \in {"decode", "release"}
InPlaces ==
  /\ \A i, j \in 1 .. Len(toRead) : toRead[i] = toRead[j] => i = j
  /\ rin # 0 => \A i \in 1 .. Len(toRead) : toRead[i] # rin
  /\ \A k \in 0 .. N : Reads(k) =>
       /\ job[k].in # rin
       /\ \A i \in 1 .. Len(toRead) : toRead[i] # job[k].in
       /\ \A m \in 0 .. N : Reads(m) /\ job[m].in = job[k].in => m = k

\* w is with the goroutine whose turn it is; those behind it are in the queue,
\* in the order of the stream, and those before it have ended.
TurnInv ==
  /\ \A i, j \in 1 .. Len(queue) : i < j => queue[i] < queue[j]
  /\ \A i \in 1 .. Len(queue) : queue[i] > turn /\ queue[i] <= pos /\ job[queue[i]].st \in Waiting
  /\ \A k \in 0 .. N : job[k].st \in Writing => k = turn
  /\ turn # NoOne =>
       /\ job[turn].st \notin {"none", "end"}
       /\ \A k \in 0 .. turn - 1 : job[k].st \in {"none", "end"}
       /\ \A k \in turn + 1 .. N : job[k].st # "none" => \E i \in 1 .. Len(queue) : queue[i] = k
  /\ turn = NoOne => closed /\ queue = <<>> /\ \A k \in 0 .. N : job[k].st \in {"none", "end"}

\* What it counted, with the sums on the way.
SumInv ==
  \E sum \in [0 .. Len(out) -> Int] :
    /\ sum[0] = 0 /\ sum[Len(out)] = aWritten
    /\ \A i \in 1 .. Len(out) : sum[i] = sum[i - 1] + stream[out[i]].n

\* The data on w are those of the goroutines that have written, or had an error.
OutInv ==
  /\ \A i \in 1 .. Len(out) :
       /\ Kind(out[i]) \in DataKinds /\ Intact(out[i])
       /\ turn = NoOne \/ out[i] < turn \/ (out[i] = turn /\ job[turn].st \in {"pass", "next"})
  /\ \A i, j \in 1 .. Len(out) : i < j => out[i] < out[j]
  /\ aErr = "none" => \A k \in 1 .. N : job[k].st \in {"pass", "next", "end"} =>
       \E i \in 1 .. Len(out) : out[i] = k
  /\ SumInv

\* The goroutines Return waits for.
Counting == {k \in 1 .. N : Kind(k) # "raw" /\ job[k].st \notin {"none", "end"}}
GroupInv ==
  /\ wg = Cardinality(Counting) + (IF turn = NoOne THEN 0 ELSE 1)
            + (IF rpc \in {"out", "entry", "queue"} /\ Cur.kind # "raw" THEN 1 ELSE 0)
  /\ rpc = "done" => turn = NoOne

\* A stream that is left at its end is not cut off.
EndInv ==
  /\ \A k \in 1 .. pos : Kind(k) = "idMinLZ" => h.wantEOF \/ \E m \in k .. pos : Kind(m) = "eof"
  /\ rpc \in {"cleanup", "wait", "done"} /\ rerr = "none" =>
       (pos = N /\ ~h.wantEOF) \/ aErr # "none"

DecoderInv ==
  TypeOK /\ CallerInv /\ JobInv /\ OutPlaces /\ InPlaces /\ TurnInv /\ OutInv /\ GroupInv /\ EndInv
-----------------------------------------------------------------------------
(* Facts about the parts.                                                  *)

\* Two functions that go on alike are the same.
LEMMA SameSums ==
  ASSUME NEW n \in Nat, NEW f, NEW g, f[0] = g[0],
         \A i \in 1 .. n : f[i - 1] = g[i - 1] => f[i] = g[i]
  PROVE  \A i \in 0 .. n : f[i] = g[i]
<1> DEFINE T == {i \in 0 .. n : f[i] # g[i]}
<1>1. SUFFICES ASSUME T # {} PROVE FALSE
  OBVIOUS
<1>2. T \in SUBSET Nat
  OBVIOUS
<1>3. PICK x \in T : \A y \in T : x <= y
  BY <1>1, <1>2, LeastNat
<1>4. x # 0 /\ x \in 1 .. n
  BY <1>3
<1>5. x - 1 \in 0 .. n /\ x - 1 \notin T
  BY <1>3, <1>4
<1> QED
  BY <1>3, <1>4, <1>5

\* The sums are those of the definition.
LEMMA SumIsSizes ==
  ASSUME Len(out) \in Nat, SumInv
  PROVE  aWritten = Sizes
<1> DEFINE n == Len(out)
<1>1. PICK p \in [0 .. n -> Int] :
        /\ p[0] = 0 /\ p[n] = aWritten
        /\ \A i \in 1 .. n : p[i] = p[i - 1] + stream[out[i]].n
  BY DEF SumInv
<1> DEFINE P(f) == f = [i \in 0 .. n |-> IF i = 0 THEN 0 ELSE f[i - 1] + stream[out[i]].n]
           s == CHOOSE f : P(f)
<1>2. P(p)
  BY <1>1
<1>3. P(s)
  BY <1>2
<1>4. Sizes = s[n]
  BY DEF Sizes
<1> HIDE DEF s
<1>5. s[0] = 0 /\ \A i \in 1 .. n : s[i] = s[i - 1] + stream[out[i]].n
  <2>1. s = [i \in 0 .. n |-> IF i = 0 THEN 0 ELSE s[i - 1] + stream[out[i]].n]
    BY <1>3
  <2> QED
    BY <2>1
<1> HIDE DEF P
<1>6. s[0] = p[0] /\ \A i \in 1 .. n : s[i - 1] = p[i - 1] => s[i] = p[i]
  BY <1>1, <1>5
<1>7. \A i \in 0 .. n : s[i] = p[i]
  <2>1. n \in Nat
    OBVIOUS
  <2> QED
    BY <1>6, <2>1, SameSums, ZenonT(30)
<1> QED
  BY <1>1, <1>4, <1>7

\* The sums with another block behind.
LEMMA SumGrows ==
  ASSUME SumInv, out \in Seq(1 .. N), NEW k \in 1 .. N, stream[k].n \in Int,
         stream' = stream, out' = Append(out, k), aWritten' = aWritten + stream[k].n
  PROVE  SumInv'
<1> DEFINE n == Len(out)
<1>1. PICK p \in [0 .. n -> Int] :
        /\ p[0] = 0 /\ p[n] = aWritten
        /\ \A i \in 1 .. n : p[i] = p[i - 1] + stream[out[i]].n
  BY DEF SumInv
<1>2. /\ n \in Nat /\ Len(out') = n + 1 /\ out'[n + 1] = k
      /\ \A i \in 1 .. n : out'[i] = out[i]
  BY AppendProperties, LenProperties
<1> DEFINE g == [i \in 0 .. n + 1 |-> IF i = n + 1 THEN aWritten' ELSE p[i]]
<1>3. p[n] \in Int
  BY <1>1, <1>2
<1>4. g \in [0 .. n + 1 -> Int] /\ g[0] = 0 /\ g[n + 1] = aWritten'
  BY <1>1, <1>2, <1>3
<1>5. \A i \in 1 .. n + 1 : g[i] = g[i - 1] + stream[out'[i]].n
  <2>1. TAKE i \in 1 .. n + 1
  <2>2. CASE i = n + 1
    BY <1>1, <1>2, <2>2
  <2>3. CASE i # n + 1
    <3>1. i \in 1 .. n
      BY <1>2, <2>3
    <3>2. i \in 0 .. n + 1 /\ i - 1 \in 0 .. n + 1 /\ i - 1 # n + 1
      BY <1>2, <3>1
    <3>3. g[i] = p[i] /\ g[i - 1] = p[i - 1]
      BY <2>3, <3>2
    <3> QED
      BY <1>1, <1>2, <3>1, <3>3
  <2> QED
    BY <2>2, <2>3
<1> HIDE DEF g
<1>6. /\ g \in [0 .. Len(out') -> Int] /\ g[0] = 0 /\ g[Len(out')] = aWritten'
      /\ \A i \in 1 .. Len(out') : g[i] = g[i - 1] + stream'[out'[i]].n
  BY <1>2, <1>4, <1>5
<1> QED
  BY <1>6, Zenon DEF SumInv

\* What every step needs to know of the types.
LEMMA Basics ==
  ASSUME TypeOK
  PROVE  /\ N \in Nat /\ Concurrency \in Nat /\ Concurrency > 1
         /\ \A k \in 1 .. N : stream[k].n \in Int
         /\ \A k \in 1 .. N : stream[k].kind = "raw" => stream[k].bad # "body"
         /\ \A k \in 1 .. N : stream[k].bad \in {"no", "body", "crc"}
         /\ Len(toRead) \in Nat /\ Len(writtenBlocks) \in Nat /\ Len(queue) \in Nat /\ Len(out) \in Nat
<1>1. stream \in Seq(Chunks)
  BY DecoderAssumption DEF TypeOK
<1>2. N \in Nat /\ \A k \in 1 .. N : stream[k] \in Chunks
  BY <1>1, LenProperties, ElementOfSeq DEF N
<1>3. \A k \in 1 .. N : stream[k].kind = "raw" => stream[k].bad # "body"
  BY DecoderAssumption DEF TypeOK, N
<1>4. \A k \in 1 .. N : stream[k].n \in Int /\ stream[k].bad \in {"no", "body", "crc"}
  BY <1>2 DEF Chunks, NoTotal
<1> QED
  BY <1>2, <1>3, <1>4, DecoderAssumption, LenProperties, SMTT(30) DEF TypeOK

LEMMA CountingFinite == TypeOK => IsFiniteSet(Counting) /\ Cardinality(Counting) \in Nat
<1> SUFFICES ASSUME TypeOK PROVE IsFiniteSet(Counting) /\ Cardinality(Counting) \in Nat
  OBVIOUS
<1>1. IsFiniteSet(1 .. N)
  BY Basics, FS_Interval
<1> QED
  BY <1>1, FS_Subset, FS_CardinalityType DEF Counting

LEMMA InitDecoder == Init => DecoderInv
<1> SUFFICES ASSUME Init PROVE DecoderInv
  OBVIOUS
<1>1. /\ Concurrency \in Nat /\ Concurrency > 1 /\ stream \in Streams /\ pos = 0 /\ turn = 0
      /\ rin = 0 /\ rout = 0 /\ rpc = "chunk" /\ closed = FALSE /\ aErr = "none" /\ rerr = "none"
      /\ wg = 1 /\ aWritten = 0
  BY DecoderAssumption DEF Init
<1>2. N \in Nat
  BY <1>1, DecoderAssumption, LenProperties DEF N
<1>3. /\ toRead \in Seq(Buffers) /\ writtenBlocks \in Seq(Buffers)
      /\ Len(toRead) = Concurrency + 1 /\ Len(writtenBlocks) = Concurrency + 1
      /\ \A i \in 1 .. Concurrency + 1 : toRead[i] = i /\ writtenBlocks[i] = i
  BY <1>1 DEF Init, Buffers
<1>4. queue = <<>> /\ Len(queue) = 0 /\ out = <<>> /\ Len(out) = 0
      /\ queue \in Seq(1 .. N) /\ out \in Seq(1 .. N)
  BY EmptySeq DEF Init
<1>5. /\ job[0] = [st |-> "turn", in |-> 0, out |-> 0]
      /\ \A k \in 1 .. N : job[k] = [st |-> "none", in |-> 0, out |-> 0]
  BY <1>2 DEF Init, N
<1>6. job \in [0 .. N -> [st : Stages, in : 0 .. Concurrency + 1, out : 0 .. Concurrency + 1]]
  <2>1. \A k \in 0 .. N :
          job[k] \in [st : Stages, in : 0 .. Concurrency + 1, out : 0 .. Concurrency + 1]
    <3>1. TAKE k \in 0 .. N
    <3>2. k = 0 \/ k \in 1 .. N
      BY <1>2
    <3> QED
      BY <1>1, <1>5, <3>2 DEF Stages, Waiting
  <2> QED
    BY <2>1 DEF Init, N
<1>7. h \in Header
  BY <1>1, ReaderAssumption DEF Init, NewHeader, Header
<1>8. TypeOK
  <2>1. outHas \in [Buffers -> Nat]
    BY DEF Init
  <2> QED
    BY <1>1, <1>2, <1>3, <1>4, <1>6, <1>7, <2>1 DEF TypeOK
<1>9. CallerInv
  BY <1>1 DEF CallerInv
<1>10. \A k \in 0 .. N : k = 0 \/ k \in 1 .. N
  BY <1>2
<1>11. JobInv
  <2>1. SUFFICES ASSUME NEW k \in 0 .. N PROVE JobOK(k)
    BY DEF JobInv
  <2> QED
    BY <1>1, <1>2, <1>5, <1>10, <2>1 DEF JobOK, Working
<1>12. OutPlaces
  BY <1>1, <1>3, <1>5, <1>10 DEF OutPlaces
<1>13. InPlaces
  BY <1>1, <1>3, <1>5, <1>10 DEF InPlaces, Reads
<1>14. TurnInv
  BY <1>1, <1>2, <1>4, <1>5, <1>10 DEF TurnInv, NoOne, Waiting, Writing
<1>15. OutInv
  <2>1. SumInv
    <3> DEFINE g == [i \in 0 .. 0 |-> 0]
    <3>1. g \in [0 .. Len(out) -> Int] /\ g[0] = 0 /\ g[Len(out)] = aWritten
      BY <1>1, <1>4
    <3>2. \A i \in 1 .. Len(out) : g[i] = g[i - 1] + stream[out[i]].n
      BY <1>4
    <3> HIDE DEF g
    <3> QED
      BY <3>1, <3>2, Zenon DEF SumInv
  <2> QED
    BY <1>4, <1>5, <2>1 DEF OutInv
<1>16. GroupInv
  <2>1. Counting = {}
    BY <1>5 DEF Counting
  <2> QED
    BY <1>1, <2>1, FS_EmptySet DEF GroupInv, NoOne
<1>17. EndInv
  BY <1>1 DEF EndInv
<1> QED
  BY <1>8, <1>9, <1>11, <1>12, <1>13, <1>14, <1>15, <1>16, <1>17 DEF DecoderInv

\* The parts that speak of none of what a step changes.
LEMMA Frames ==
  ASSUME DecoderInv, stream' = stream, aErr # "none" => aErr' # "none"
  PROVE  /\ pos' = pos /\ job' = job /\ outHas' = outHas => JobInv'
         /\ writtenBlocks' = writtenBlocks /\ rout' = rout /\ job' = job => OutPlaces'
         /\ toRead' = toRead /\ rin' = rin /\ job' = job => InPlaces'
         /\ queue' = queue /\ turn' = turn /\ job' = job /\ pos' \in Int /\ pos <= pos' /\ (closed => closed')
              => TurnInv'
         /\ out' = out /\ aWritten' = aWritten /\ turn' = turn /\ job' = job => OutInv'
         /\ job' = job => Counting' = Counting
<1>1. N' = N /\ \A k : Kind(k)' = Kind(k) /\ Intact(k)' = Intact(k)
  BY DEF N, Kind, Intact
<1>2. ASSUME pos' = pos, job' = job, outHas' = outHas PROVE JobInv'
  <2>1. JobInv
    BY DEF DecoderInv
  <2> QED
    BY <1>1, <1>2, <2>1 DEF JobInv, JobOK
<1>3. ASSUME writtenBlocks' = writtenBlocks, rout' = rout, job' = job PROVE OutPlaces'
  BY <1>1, <1>3 DEF DecoderInv, OutPlaces
<1>4. ASSUME toRead' = toRead, rin' = rin, job' = job PROVE InPlaces'
  BY <1>1, <1>4 DEF DecoderInv, InPlaces, Reads
<1>5. ASSUME queue' = queue, turn' = turn, job' = job, pos' \in Int, pos <= pos', closed => closed' PROVE TurnInv'
  <2>1. TurnInv /\ pos \in Int /\ \A i \in 1 .. Len(queue) : queue[i] \in Int
    BY Basics, ElementOfSeq, SMTT(30) DEF DecoderInv, TypeOK
  <2>2. \A i \in 1 .. Len(queue) : queue[i] <= pos'
    BY <1>5, <2>1 DEF TurnInv
  <2> QED
    BY <1>1, <1>5, <2>1, <2>2 DEF TurnInv
<1>6. ASSUME out' = out, aWritten' = aWritten, turn' = turn, job' = job PROVE OutInv'
  <2>1. OutInv /\ SumInv
    BY DEF DecoderInv, OutInv
  <2>2. SumInv'
    BY <1>6, <2>1 DEF SumInv
  <2> QED
    BY <1>1, <1>6, <2>1, <2>2 DEF OutInv
<1>7. ASSUME job' = job PROVE Counting' = Counting
  BY <1>1, <1>7 DEF Counting
<1> QED
  BY <1>2, <1>3, <1>4, <1>5, <1>6, <1>7

-----------------------------------------------------------------------------
(* The calling goroutine.                                                  *)

LEMMA StepStop == DecoderInv /\ (ReadStop \/ ReadRefused) => DecoderInv'
<1> SUFFICES ASSUME DecoderInv, ReadStop \/ ReadRefused PROVE DecoderInv'
  OBVIOUS
<1>1. /\ UNCHANGED <<stream, pos, h, rin, rout, aErr, toRead, writtenBlocks, queue, closed, turn,
                     job, outHas, wg, out, aWritten>>
      /\ rpc = "chunk" /\ rpc' = "cleanup"
  BY DEF ReadStop, ReadRefused, Stop, Reading, poolVars, bufVars, sinkVars
<1>2. rerr' = "none" => aErr # "none" \/ (pos = N /\ ~h.wantEOF)
  BY DEF ReadStop, ReadRefused, Stop, Reading, N
<1>3. JobInv' /\ OutPlaces' /\ InPlaces' /\ TurnInv' /\ OutInv' /\ Counting' = Counting
  <2>1. pos <= pos' /\ pos' \in Int
    BY <1>1 DEF DecoderInv, TypeOK, N
  <2> QED
    BY <1>1, <2>1, Frames
<1>4. TypeOK /\ CallerInv /\ GroupInv /\ EndInv
  BY DEF DecoderInv
<1>5. TypeOK'
  BY <1>1, <1>4 DEF TypeOK, N
<1>6. CallerInv'
  BY <1>1, <1>4 DEF CallerInv
<1>7. GroupInv'
  BY <1>1, <1>3, <1>4 DEF GroupInv
<1>8. EndInv'
  BY <1>1, <1>2, <1>4 DEF EndInv, Kind, N
<1> QED
  BY <1>3, <1>5, <1>6, <1>7, <1>8 DEF DecoderInv

\* A chunk that is no block.
LEMMA StepPast == DecoderInv /\ (ReadIdentifier \/ ReadEOF \/ ReadSkippable) => DecoderInv'
<1> SUFFICES ASSUME DecoderInv, ReadIdentifier \/ ReadEOF \/ ReadSkippable PROVE DecoderInv'
  OBVIOUS
<1>1. TypeOK /\ CallerInv /\ JobInv /\ GroupInv /\ EndInv
  BY DEF DecoderInv
<1>2. pos \in Nat /\ N \in Nat
  BY <1>1, Basics DEF TypeOK
<1>3. /\ UNCHANGED <<stream, rpc, rerr, rin, rout, aErr, toRead, writtenBlocks, queue, closed, turn,
                     job, outHas, wg, out, aWritten>>
      /\ rpc = "chunk" /\ pos' = pos + 1 /\ pos < N /\ Kind(pos + 1) \notin DataKinds
  BY DEF ReadIdentifier, ReadEOF, ReadSkippable, Reading, poolVars, bufVars, sinkVars,
    DataKinds, MinLZKinds, IdKinds, Kind, Cur, N
<1>4. /\ h' \in Header
      /\ Kind(pos + 1) = "idMinLZ" => h'.wantEOF
      /\ Kind(pos + 1) # "eof" /\ h.wantEOF => h'.wantEOF
  <2>1. h \in Header /\ stream[pos + 1].n \in Int
    BY <1>1, <1>2, <1>3, Basics, SMTT(30) DEF TypeOK
  <2>2. CASE ReadIdentifier
    <3> DEFINE snappy == Kind(pos + 1) = "idSnappy"
               n == stream[pos + 1].n
    <3>1. h' = IF Kind(pos + 1) = "idMinLZ"
               THEN [header |-> TRUE, wantEOF |-> TRUE, maxBlock |-> n, maxBuf |-> n, snappy |-> FALSE]
               ELSE [h EXCEPT !.header = TRUE, !.maxBlock = MaxBlockOrg, !.snappy = snappy]
      BY <2>2 DEF ReadIdentifier, Identified, Cur, Kind
    <3>2. snappy \in BOOLEAN /\ n \in Int /\ MaxBlockOrg \in Int
      BY <2>1, ReaderAssumption
    <3> HIDE DEF snappy, n
    <3>3. CASE Kind(pos + 1) = "idMinLZ"
      BY <3>1, <3>2, <3>3 DEF Header
    <3>4. CASE Kind(pos + 1) # "idMinLZ"
      <4>1. h' = [h EXCEPT !.header = TRUE, !.maxBlock = MaxBlockOrg, !.snappy = snappy]
        BY <3>1, <3>4
      <4>2. h' \in Header /\ h'.wantEOF = h.wantEOF
        BY ONLY <2>1, <3>2, <4>1 DEF Header
      <4> QED
        BY <3>4, <4>2
    <3> QED
      BY <3>3, <3>4
  <2>3. CASE ReadEOF
    <3>1. h' = [h EXCEPT !.wantEOF = FALSE, !.header = FALSE] /\ Kind(pos + 1) = "eof"
      BY <2>3 DEF ReadEOF, AfterEOF, Reading, Cur, Kind
    <3> QED
      BY <2>1, <3>1 DEF Header
  <2>4. CASE ReadSkippable
    BY <2>1, <2>4 DEF ReadSkippable, Reading, Cur, Kind
  <2> QED
    BY <2>2, <2>3, <2>4
<1>5. OutPlaces' /\ InPlaces' /\ TurnInv' /\ OutInv' /\ Counting' = Counting
  BY <1>2, <1>3, Frames
<1>6. JobInv'
  <2>1. \A k \in 0 .. N : k # 0 /\ k <= pos' => k <= pos \/ k = pos + 1
    BY <1>2, <1>3
  <2>2. N' = N /\ \A k : Kind(k)' = Kind(k) /\ Intact(k)' = Intact(k)
    BY <1>3 DEF N, Kind, Intact
  <2>3. \A k \in 0 .. N : (k <= pos' /\ Kind(k) \in DataKinds /\ k # 0)
                            <=> (k <= pos /\ Kind(k) \in DataKinds /\ k # 0)
    BY <1>2, <1>3, <2>1
  <2> QED
    BY <1>1, <1>3, <2>2, <2>3 DEF JobInv, JobOK
<1>7. TypeOK'
  BY <1>1, <1>2, <1>3, <1>4 DEF TypeOK, N
<1>8. CallerInv'
  BY <1>1, <1>3 DEF CallerInv
<1>9. GroupInv'
  BY <1>1, <1>3, <1>5 DEF GroupInv
<1>10. EndInv'
  <2>1. \A k \in 1 .. pos' : Kind(k)' = "idMinLZ" =>
          h'.wantEOF \/ \E m \in k .. pos' : Kind(m)' = "eof"
    <3>1. SUFFICES ASSUME NEW k \in 1 .. pos + 1, Kind(k) = "idMinLZ", ~h'.wantEOF
                   PROVE  \E m \in k .. pos + 1 : Kind(m) = "eof"
      BY <1>3 DEF Kind
    <3>2. CASE Kind(pos + 1) = "eof"
      BY <1>2, <3>2
    <3>3. CASE Kind(pos + 1) # "eof"
      <4>1. k # pos + 1 /\ ~h.wantEOF
        BY <1>4, <3>1, <3>3
      <4>2. k \in 1 .. pos
        BY <1>2, <4>1
      <4>3. PICK m \in k .. pos : Kind(m) = "eof"
        BY <1>1, <3>1, <4>1, <4>2 DEF EndInv
      <4> QED
        BY <1>2, <4>3
    <3> QED
      BY <3>2, <3>3
  <2> QED
    BY <1>3, <2>1 DEF EndInv
<1> QED
  BY <1>5, <1>6, <1>7, <1>8, <1>9, <1>10 DEF DecoderInv

\* The steps of the calling goroutine on its own.
LEMMA StepCaller == DecoderInv /\ (ReadData \/ TakeEntry \/ Cleanup \/ Return) => DecoderInv'
<1> SUFFICES ASSUME DecoderInv, ReadData \/ TakeEntry \/ Cleanup \/ Return PROVE DecoderInv'
  OBVIOUS
<1>1. TypeOK /\ CallerInv /\ TurnInv /\ GroupInv /\ EndInv
  BY DEF DecoderInv
<1>2. pos \in Nat /\ N \in Nat
  BY <1>1, Basics DEF TypeOK
<1>3. UNCHANGED <<stream, pos, h, rerr, rin, rout, toRead, writtenBlocks, queue, turn,
                  job, outHas, wg, out, aWritten>>
  BY DEF ReadData, TakeEntry, Cleanup, Return, poolVars, bufVars, sinkVars
<1>4. /\ aErr # "none" => aErr' # "none"
      /\ closed => closed'
      /\ rpc' \in {"cleanup", "wait", "done"} /\ rerr = "none" => (pos = N /\ ~h.wantEOF) \/ aErr' # "none"
  BY <1>1 DEF ReadData, TakeEntry, Cleanup, Return, SetErr, EndInv
<1>5. JobInv' /\ OutPlaces' /\ InPlaces' /\ TurnInv' /\ OutInv' /\ Counting' = Counting
  BY <1>2, <1>3, <1>4, Frames
<1>6. TypeOK'
  BY <1>1, <1>3 DEF TypeOK, N
<1>7. CallerInv'
  <2>1. CASE ReadData
    BY <1>1, <1>3, <2>1 DEF ReadData, Reading, CallerInv, Cur, Intact, N
  <2>2. CASE TakeEntry
    BY <1>1, <1>3, <2>2 DEF TakeEntry, CallerInv, Cur, Intact, N
  <2>3. CASE Cleanup \/ Return
    BY <1>1, <1>3, <2>3 DEF Cleanup, Return, CallerInv
  <2> QED
    BY <2>1, <2>2, <2>3
<1>8. GroupInv'
  <2>1. CASE ReadData
    BY <1>1, <1>3, <1>5, <2>1 DEF ReadData, Reading, GroupInv, Cur
  <2>2. CASE TakeEntry
    BY <1>1, <1>3, <1>5, <2>2 DEF TakeEntry, GroupInv, Cur
  <2>3. CASE Cleanup
    BY <1>1, <1>3, <1>5, <2>3 DEF Cleanup, GroupInv, Cur
  <2>4. CASE Return
    <3>1. rpc = "wait" /\ rpc' = "done" /\ wg = 0
      BY <2>4 DEF Return
    <3>2. Cardinality(Counting) \in Nat
      BY <1>1, CountingFinite
    <3>3. turn = NoOne
      BY <1>1, <3>1, <3>2 DEF GroupInv
    <3> QED
      BY <1>1, <1>3, <1>5, <3>1, <3>3 DEF GroupInv
  <2> QED
    BY <2>1, <2>2, <2>3, <2>4
<1>9. EndInv'
  BY <1>1, <1>3, <1>4 DEF EndInv, Kind, N
<1> QED
  BY <1>5, <1>6, <1>7, <1>8, <1>9 DEF DecoderInv

\* A channel of buffers, without the one in front.
LEMMA HeadLeaves ==
  ASSUME NEW q \in Seq(Buffers), q # <<>>,
         \A i, j \in 1 .. Len(q) : q[i] = q[j] => i = j
  PROVE  /\ Head(q) \in Buffers /\ Tail(q) \in Seq(Buffers) /\ Head(q) = q[1] /\ 1 \in 1 .. Len(q)
         /\ \A i, j \in 1 .. Len(Tail(q)) : Tail(q)[i] = Tail(q)[j] => i = j
         /\ \A i \in 1 .. Len(Tail(q)) :
              Tail(q)[i] # Head(q) /\ \E j \in 1 .. Len(q) : Tail(q)[i] = q[j]
<1>1. /\ Len(q) \in Nat /\ Len(q) > 0 /\ Head(q) = q[1] /\ Tail(q) \in Seq(Buffers)
      /\ Len(Tail(q)) = Len(q) - 1 /\ \A i \in 1 .. Len(Tail(q)) : Tail(q)[i] = q[i + 1]
  BY HeadTailProperties, LenProperties, EmptySeq
<1>2. \A i \in 1 .. Len(Tail(q)) : i + 1 \in 1 .. Len(q) /\ i + 1 # 1
  BY <1>1
<1>3. 1 \in 1 .. Len(q) /\ q[1] \in Buffers
  BY <1>1, ElementOfSeq
<1>4. ASSUME NEW i \in 1 .. Len(Tail(q)), NEW j \in 1 .. Len(Tail(q)), Tail(q)[i] = Tail(q)[j]
      PROVE  i = j
  <2>1. i + 1 = j + 1
    BY <1>1, <1>2, <1>4
  <2> QED
    BY <1>1, <2>1
<1> QED
  BY <1>1, <1>2, <1>3, <1>4

LEMMA StepTakeIn == DecoderInv /\ TakeIn => DecoderInv'
<1> SUFFICES ASSUME DecoderInv, TakeIn PROVE DecoderInv'
  OBVIOUS
<1>1. TypeOK /\ CallerInv /\ InPlaces /\ GroupInv /\ EndInv
  BY DEF DecoderInv
<1>2. pos \in Nat /\ N \in Nat /\ Concurrency \in Nat /\ pos \in Int
  BY <1>1, Basics DEF TypeOK
<1>3. /\ rpc = "in" /\ toRead # <<>> /\ rin' = Head(toRead) /\ toRead' = Tail(toRead)
      /\ UNCHANGED <<stream, pos, h, rout, aErr, writtenBlocks, queue, closed, turn, job, outHas,
                     out, aWritten>>
      /\ \/ rpc' = "cleanup" /\ rerr' # "none" /\ wg' = wg
         \/ rpc' = "out" /\ rerr' = rerr /\ wg' = wg + 1
  BY DEF TakeIn, Stop, sinkVars
<1>4. rin = 0 /\ rout = 0 /\ pos < N /\ Kind(pos + 1) \in DataKinds \ {"raw"} /\ ~closed
  BY <1>1, <1>3 DEF CallerInv, Cur, Kind
<1>5. /\ toRead \in Seq(Buffers)
      /\ \A i, j \in 1 .. Len(toRead) : toRead[i] = toRead[j] => i = j
  BY <1>1 DEF TypeOK, InPlaces
<1>6. /\ rin' \in Buffers /\ toRead' \in Seq(Buffers) /\ rin' = toRead[1] /\ 1 \in 1 .. Len(toRead)
      /\ \A i, j \in 1 .. Len(toRead') : toRead'[i] = toRead'[j] => i = j
      /\ \A i \in 1 .. Len(toRead') :
              toRead'[i] # rin' /\ \E j \in 1 .. Len(toRead) : toRead'[i] = toRead[j]
  <2>1. toRead # <<>>
    BY <1>3
  <2>2. /\ Head(toRead) \in Buffers /\ Tail(toRead) \in Seq(Buffers)
        /\ Head(toRead) = toRead[1] /\ 1 \in 1 .. Len(toRead)
        /\ \A i, j \in 1 .. Len(Tail(toRead)) : Tail(toRead)[i] = Tail(toRead)[j] => i = j
        /\ \A i \in 1 .. Len(Tail(toRead)) : Tail(toRead)[i] # Head(toRead)
              /\ \E j \in 1 .. Len(toRead) : Tail(toRead)[i] = toRead[j]
    BY <1>5, <2>1, HeadLeaves
  <2> QED
    BY <1>3, <2>2
<1>7. JobInv' /\ OutPlaces' /\ TurnInv' /\ OutInv' /\ Counting' = Counting
  BY <1>2, <1>3, Frames
<1>8. rin' \in 0 .. Concurrency + 1 /\ rin' # 0
  BY <1>2, <1>6 DEF Buffers
<1>9. TypeOK'
  <2>1. wg' \in Int
    BY <1>1, <1>3 DEF TypeOK
  <2> QED
    BY <1>1, <1>3, <1>6, <1>8, <2>1 DEF TypeOK, N
<1>10. CallerInv'
  BY <1>3, <1>4, <1>8 DEF CallerInv, Cur, Kind, N
<1>11. InPlaces'
  BY <1>1, <1>3, <1>6 DEF InPlaces, Reads, N
<1>12. GroupInv'
  <2>1. Cardinality(Counting) \in Nat
    BY <1>1, CountingFinite
  <2> QED
    BY <1>1, <1>3, <1>4, <1>7, <2>1 DEF GroupInv, Cur, Kind, NoOne
<1>13. EndInv'
  BY <1>1, <1>3 DEF EndInv, Kind, N
<1> QED
  BY <1>7, <1>9, <1>10, <1>11, <1>12, <1>13 DEF DecoderInv

\* What both ways to an output buffer do.
LEMMA OutTaken ==
  ASSUME TypeOK, OutPlaces, rout = 0, writtenBlocks # <<>>, stream' = stream, job' = job,
         rout' = Head(writtenBlocks), writtenBlocks' = Tail(writtenBlocks)
  PROVE  /\ OutPlaces' /\ rout' \in Buffers /\ rout' \in 0 .. Concurrency + 1 /\ rout' # 0
         /\ writtenBlocks' \in Seq(Buffers)
         /\ \A k \in 0 .. N : job[k].out # 0 => job[k].out # rout'
<1>1. /\ writtenBlocks \in Seq(Buffers)
      /\ \A i, j \in 1 .. Len(writtenBlocks) : writtenBlocks[i] = writtenBlocks[j] => i = j
  BY DEF TypeOK, OutPlaces
<1>2. /\ rout' \in Buffers /\ writtenBlocks' \in Seq(Buffers)
      /\ rout' = writtenBlocks[1] /\ 1 \in 1 .. Len(writtenBlocks)
      /\ \A i, j \in 1 .. Len(writtenBlocks') : writtenBlocks'[i] = writtenBlocks'[j] => i = j
      /\ \A i \in 1 .. Len(writtenBlocks') : writtenBlocks'[i] # rout' /\
           \E j \in 1 .. Len(writtenBlocks) : writtenBlocks'[i] = writtenBlocks[j]
  BY <1>1, HeadLeaves
<1>3. rout' \in 0 .. Concurrency + 1 /\ rout' # 0
  BY <1>2, Basics DEF Buffers
<1>4. \A k \in 0 .. N : job[k].out # 0 => job[k].out # rout'
  BY <1>2 DEF OutPlaces
<1>5. OutPlaces'
  BY <1>2, <1>4 DEF OutPlaces, N
<1> QED
  BY <1>2, <1>3, <1>4, <1>5

LEMMA StepTakeOut == DecoderInv /\ TakeOut => DecoderInv'
<1> SUFFICES ASSUME DecoderInv, TakeOut PROVE DecoderInv'
  OBVIOUS
<1>1. TypeOK /\ CallerInv /\ OutPlaces /\ GroupInv /\ EndInv
  BY DEF DecoderInv
<1>2. pos \in Nat /\ N \in Nat /\ pos \in Int
  BY <1>1, Basics DEF TypeOK
<1>3. /\ rpc = "out" /\ writtenBlocks # <<>> /\ rout' = Head(writtenBlocks)
      /\ writtenBlocks' = Tail(writtenBlocks) /\ rpc' = "entry"
      /\ UNCHANGED <<stream, pos, h, rerr, rin, aErr, toRead, queue, closed, turn, job, outHas, wg,
                     out, aWritten>>
  BY DEF TakeOut, sinkVars
<1>4. rin # 0 /\ rout = 0 /\ pos < N /\ Kind(pos + 1) \in DataKinds \ {"raw"} /\ ~closed
  BY <1>1, <1>3 DEF CallerInv, Cur, Kind
<1>5. /\ OutPlaces' /\ rout' \in 0 .. Concurrency + 1 /\ rout' # 0
      /\ writtenBlocks' \in Seq(Buffers)
  BY <1>1, <1>3, <1>4, OutTaken
<1>6. JobInv' /\ InPlaces' /\ TurnInv' /\ OutInv' /\ Counting' = Counting
  BY <1>2, <1>3, Frames
<1>7. TypeOK'
  BY <1>1, <1>3, <1>5 DEF TypeOK, N
<1>8. CallerInv'
  BY <1>3, <1>4, <1>5 DEF CallerInv, Cur, Kind, N
<1>9. GroupInv'
  BY <1>1, <1>3, <1>4, <1>6 DEF GroupInv, Cur, Kind
<1>10. EndInv'
  BY <1>1, <1>3 DEF EndInv, Kind, N
<1> QED
  BY <1>5, <1>6, <1>7, <1>8, <1>9, <1>10 DEF DecoderInv

LEMMA StepTakeRaw == DecoderInv /\ TakeRaw => DecoderInv'
<1> SUFFICES ASSUME DecoderInv, TakeRaw PROVE DecoderInv'
  OBVIOUS
<1>1. TypeOK /\ CallerInv /\ JobInv /\ OutPlaces /\ GroupInv /\ EndInv
  BY DEF DecoderInv
<1>2. pos \in Nat /\ N \in Nat /\ pos \in Int
  BY <1>1, Basics DEF TypeOK
<1>3. /\ rpc = "raw" /\ writtenBlocks # <<>> /\ rout' = Head(writtenBlocks)
      /\ writtenBlocks' = Tail(writtenBlocks) /\ outHas' = [outHas EXCEPT ![rout'] = pos + 1]
      /\ UNCHANGED <<stream, pos, h, rin, aErr, toRead, queue, closed, turn, job, wg, out, aWritten>>
  BY DEF TakeRaw, sinkVars
<1>4. rin = 0 /\ rout = 0 /\ pos < N /\ Kind(pos + 1) = "raw" /\ ~closed /\ pos + 1 \in 1 .. N
  BY <1>1, <1>2, <1>3 DEF CallerInv, Cur, Kind
<1>5. /\ OutPlaces' /\ rout' \in Buffers /\ rout' \in 0 .. Concurrency + 1 /\ rout' # 0
      /\ writtenBlocks' \in Seq(Buffers)
      /\ \A k \in 0 .. N : job[k].out # 0 => job[k].out # rout'
  BY <1>1, <1>3, <1>4, OutTaken
<1>6. \/ rpc' = "cleanup" /\ rerr' # "none"
      \/ rpc' = "entry" /\ rerr' = rerr /\ Intact(pos + 1)
  <2>1. stream[pos + 1].bad \in {"no", "crc"}
    BY <1>1, <1>4, Basics DEF Kind
  <2> DEFINE refusal == IF LateRefusal(h, Cur) = "none" /\ Cur.bad # "no" /\ ~IgnoreCRC
                        THEN "crc" ELSE LateRefusal(h, Cur)
  <2>2. IF refusal # "none" THEN rerr' = refusal /\ rpc' = "cleanup"
                            ELSE rpc' = "entry" /\ UNCHANGED rerr
    BY DEF TakeRaw, Stop
  <2>3. refusal = "none" => Cur.bad = "no" \/ IgnoreCRC
    OBVIOUS
  <2> HIDE DEF refusal
  <2> QED
    BY <2>1, <2>2, <2>3 DEF Intact, Cur
<1>7. InPlaces' /\ TurnInv' /\ OutInv' /\ Counting' = Counting
  BY <1>2, <1>3, Frames
<1>8. /\ outHas' \in [Buffers -> Nat] /\ outHas'[rout'] = pos + 1
      /\ \A b \in Buffers : b # rout' => outHas'[b] = outHas[b]
  BY <1>1, <1>2, <1>3, <1>5, SMTT(30) DEF TypeOK
<1>9. JobInv'
  <2>1. N' = N /\ \A k : Kind(k)' = Kind(k) /\ Intact(k)' = Intact(k)
    BY <1>3 DEF N, Kind, Intact
  <2>2. \A k \in 0 .. N : job[k].out # 0 => outHas'[job[k].out] = outHas[job[k].out]
    <3>1. \A k \in 0 .. N : job[k].out # 0 => job[k].out \in Buffers
      BY <1>1, Basics DEF TypeOK, Buffers
    <3> QED
      BY <1>5, <1>8, <3>1
  <2> QED
    BY <1>1, <1>3, <2>1, <2>2 DEF JobInv, JobOK
<1>10. TypeOK'
  BY <1>1, <1>3, <1>5, <1>8 DEF TypeOK, N
<1>11. CallerInv'
  <2>1. Kind(pos + 1) \in DataKinds
    BY <1>4 DEF DataKinds
  <2>2. Cur' = Cur /\ Cur.kind = Kind(pos + 1) /\ Intact(pos + 1)' = Intact(pos + 1) /\ N' = N
    BY <1>3 DEF Cur, Kind, Intact, N
  <2> QED
    BY <1>3, <1>4, <1>5, <1>6, <1>8, <2>1, <2>2 DEF CallerInv
<1>12. GroupInv'
  BY <1>1, <1>3, <1>4, <1>6, <1>7 DEF GroupInv, Cur, Kind
<1>13. EndInv'
  BY <1>1, <1>3, <1>6 DEF EndInv, Kind, N
<1> QED
  BY <1>5, <1>7, <1>9, <1>10, <1>11, <1>12, <1>13 DEF DecoderInv

-----------------------------------------------------------------------------
(* One goroutine changes.                                                  *)

Job == [st : Stages, in : 0 .. Concurrency + 1, out : 0 .. Concurrency + 1]

LEMMA JobSet ==
  ASSUME TypeOK, NEW k \in 0 .. N, NEW rec \in Job, job' = [job EXCEPT ![k] = rec]
  PROVE  /\ job' \in [0 .. N -> Job] /\ job'[k] = rec
         /\ \A m \in 0 .. N : m # k => job'[m] = job[m]
  BY DEF TypeOK, Job

LEMMA StepEnqueue == DecoderInv /\ Enqueue => DecoderInv'
<1> SUFFICES ASSUME DecoderInv, Enqueue PROVE DecoderInv'
  OBVIOUS
<1> DEFINE k == pos + 1
           rec == [st |-> IF Cur.kind = "raw" THEN "turn" ELSE "decode", in |-> rin, out |-> rout]
<1>1. TypeOK /\ CallerInv /\ JobInv /\ OutPlaces /\ InPlaces /\ TurnInv /\ OutInv /\ GroupInv /\ EndInv
  BY DEF DecoderInv
<1>2. pos \in Nat /\ N \in Nat
  BY <1>1, Basics DEF TypeOK
<1>3. /\ rpc = "queue" /\ queue' = Append(queue, k) /\ job' = [job EXCEPT ![k] = rec]
      /\ rin' = 0 /\ rout' = 0 /\ pos' = k /\ rpc' = "chunk"
      /\ UNCHANGED <<stream, h, rerr, aErr, toRead, writtenBlocks, closed, turn, outHas, wg,
                     out, aWritten>>
  BY DEF Enqueue, poolVars, bufVars, sinkVars
<1>4. /\ rout # 0 /\ pos < N /\ Kind(k) \in DataKinds /\ ~closed
      /\ Kind(k) # "raw" => rin # 0
      /\ Kind(k) = "raw" => outHas[rout] = k /\ Intact(k)
      /\ Cur.kind = Kind(k)
  BY <1>1, <1>3 DEF CallerInv, Cur, Kind
<1>5. k \in 1 .. N /\ k \in 0 .. N /\ k # 0 /\ k \in Nat /\ ~(k <= pos)
  BY <1>2, <1>4
<1>6. job[k].st = "none"
  BY <1>1, <1>5 DEF JobInv, JobOK
<1>7. rec \in Job
  BY <1>1 DEF TypeOK, Job, Stages, Waiting, Working
<1>8. /\ job' \in [0 .. N -> Job] /\ job'[k] = rec
      /\ \A m \in 0 .. N : m # k => job'[m] = job[m]
  <2> HIDE DEF k, rec
  <2> QED
    BY <1>1, <1>3, <1>5, <1>7, JobSet
<1>9. /\ rec.in = rin /\ rec.out = rout
      /\ rec.st = IF Kind(k) = "raw" THEN "turn" ELSE "decode"
  BY <1>4
<1> HIDE DEF rec
<1>10. N' = N /\ \A m : Kind(m)' = Kind(m) /\ Intact(m)' = Intact(m)
  BY <1>3 DEF N, Kind, Intact
<1>11. turn # NoOne /\ turn < k /\ turn \in 0 .. N
  <2>1. turn # NoOne
    BY <1>1, <1>4 DEF TurnInv
  <2>2. turn \in 0 .. N
    BY <1>1, <1>2, <2>1 DEF TypeOK, NoOne
  <2>3. turn = 0 \/ turn <= pos
    BY <1>1, <2>1, <2>2 DEF TurnInv, JobInv, JobOK
  <2> QED
    BY <1>2, <2>1, <2>2, <2>3
<1>12. /\ Len(queue) \in Nat /\ Len(queue') = Len(queue) + 1 /\ queue' \in Seq(1 .. N)
       /\ \A i \in 1 .. Len(queue) : queue'[i] = queue[i] /\ queue[i] \in Int /\ queue[i] <= pos
       /\ queue'[Len(queue) + 1] = k
  <2>1. queue \in Seq(1 .. N) /\ Len(queue) \in Nat /\ \A i \in 1 .. Len(queue) : queue[i] \in Int
    BY <1>1, Basics, ElementOfSeq, SMTT(30) DEF TypeOK
  <2>2. \A i \in 1 .. Len(queue) : queue[i] <= pos
    BY <1>1 DEF TurnInv
  <2> HIDE DEF k
  <2> QED
    BY <1>3, <1>5, <2>1, <2>2, AppendProperties
<1>13. TypeOK'
  <2>1. rin' \in 0 .. Concurrency + 1 /\ rout' \in 0 .. Concurrency + 1
    BY <1>1, <1>3, Basics
  <2> QED
    BY <1>1, <1>3, <1>5, <1>8, <1>10, <1>12, <2>1 DEF TypeOK, Job
<1>14. CallerInv'
  BY <1>3, <1>4 DEF CallerInv
<1>15. JobInv'
  <2>1. SUFFICES ASSUME NEW m \in 0 .. N PROVE JobOK(m)'
    BY <1>10 DEF JobInv
  <2>2. CASE m = k
    BY <1>3, <1>4, <1>5, <1>8, <1>9, <1>10, <2>2 DEF JobOK, Working
  <2>3. CASE m # k
    <3>1. m <= pos' <=> m <= pos
      BY <1>2, <1>3, <2>3
    <3>2. JobOK(m)
      BY <1>1 DEF JobInv
    <3> QED
      BY <1>3, <1>8, <1>10, <2>3, <3>1, <3>2 DEF JobOK
  <2> QED
    BY <2>2, <2>3
<1>16. OutPlaces'
  <2>1. SUFFICES ASSUME NEW m \in 0 .. N, job'[m].out # 0
                 PROVE  /\ \A i \in 1 .. Len(writtenBlocks) : writtenBlocks[i] # job'[m].out
                        /\ \A l \in 0 .. N : job'[l].out = job'[m].out => l = m
    BY <1>1, <1>3, <1>10 DEF OutPlaces
  <2>2. \A l \in 0 .. N : l # k /\ job[l].out # 0 => job[l].out # rout
    BY <1>1 DEF OutPlaces
  <2>3. CASE m = k
    BY <1>1, <1>4, <1>8, <1>9, <2>2, <2>3 DEF OutPlaces
  <2>4. CASE m # k
    BY <1>1, <1>4, <1>8, <1>9, <2>1, <2>2, <2>4 DEF OutPlaces
  <2> QED
    BY <2>3, <2>4
<1>17. InPlaces'
  <2>1. \A l : l = k /\ Reads(l)' => rin # 0 /\ job'[l].in = rin
    BY <1>4, <1>8, <1>9 DEF Reads
  <2>2. \A l \in 0 .. N : l # k => job'[l] = job[l] /\ (Reads(l)' => Reads(l))
    BY <1>8 DEF Reads
  <2>3. \A l \in 0 .. N : Reads(l) => job[l].in # rin /\ job[l].in # 0
    BY <1>1 DEF InPlaces, Reads, JobInv, JobOK, Working
  <2>4. SUFFICES ASSUME NEW m \in 0 .. N, Reads(m)'
                 PROVE  /\ job'[m].in # 0
                        /\ \A i \in 1 .. Len(toRead) : toRead[i] # job'[m].in
                        /\ \A l \in 0 .. N : Reads(l)' /\ job'[l].in = job'[m].in => l = m
    BY <1>1, <1>3, <1>10 DEF InPlaces
  <2>5. CASE m = k
    BY <1>1, <2>1, <2>2, <2>3, <2>4, <2>5 DEF InPlaces
  <2>6. CASE m # k
    BY <1>1, <2>1, <2>2, <2>3, <2>4, <2>6 DEF InPlaces
  <2> QED
    BY <2>5, <2>6
<1>18. TurnInv'
  <2>1. \A i, j \in 1 .. Len(queue') : i < j => queue'[i] < queue'[j]
    <3>1. SUFFICES ASSUME NEW i \in 1 .. Len(queue'), NEW j \in 1 .. Len(queue'), i < j
                   PROVE  queue'[i] < queue'[j]
      OBVIOUS
    <3>2. i \in 1 .. Len(queue)
      BY <1>12, <3>1
    <3>3. CASE j = Len(queue) + 1
      BY <1>2, <1>12, <3>2, <3>3
    <3>4. CASE j # Len(queue) + 1
      <4>1. j \in 1 .. Len(queue)
        BY <1>12, <3>4
      <4> QED
        BY <1>1, <1>12, <3>1, <3>2, <4>1 DEF TurnInv
    <3> QED
      BY <3>3, <3>4
  <2>2. \A i \in 1 .. Len(queue') :
          queue'[i] > turn /\ queue'[i] <= k /\ job'[queue'[i]].st \in Waiting
    <3>1. TAKE i \in 1 .. Len(queue')
    <3>2. CASE i = Len(queue) + 1
      BY <1>2, <1>8, <1>9, <1>11, <1>12, <3>2 DEF Waiting, Working
    <3>3. CASE i # Len(queue) + 1
      <4>1. i \in 1 .. Len(queue)
        BY <1>12, <3>3
      <4>2. queue[i] > turn /\ queue[i] <= pos /\ job[queue[i]].st \in Waiting /\ queue[i] \in 0 .. N
        BY <1>1, <1>2, <1>11, <1>12, <4>1 DEF TurnInv
      <4> QED
        BY <1>2, <1>8, <1>12, <4>1, <4>2
    <3> QED
      BY <3>2, <3>3
  <2>3. \A m \in 0 .. N : job'[m].st \in Writing => m = turn
    BY <1>1, <1>8, <1>9 DEF TurnInv, Writing
  <2>4. job'[turn].st \notin {"none", "end"} /\ \A m \in 0 .. turn - 1 : job'[m].st \in {"none", "end"}
    <3>1. job'[turn] = job[turn] /\ \A m \in 0 .. turn - 1 : m \in 0 .. N /\ m # k
      BY <1>2, <1>8, <1>11
    <3> QED
      BY <1>1, <1>8, <1>11, <3>1 DEF TurnInv
  <2>5. \A m \in turn + 1 .. N : job'[m].st # "none" => \E i \in 1 .. Len(queue') : queue'[i] = m
    <3>1. TAKE m \in turn + 1 .. N
    <3>2. CASE m = k
      BY <1>12, <3>2
    <3>3. CASE m # k
      <4>1. job'[m] = job[m]
        BY <1>2, <1>8, <1>11, <3>3
      <4>2. job[m].st # "none" => \E i \in 1 .. Len(queue) : queue[i] = m
        BY <1>1, <1>11 DEF TurnInv
      <4>3. \A i \in 1 .. Len(queue) : i \in 1 .. Len(queue')
        BY <1>12
      <4> QED
        BY <1>12, <4>1, <4>2, <4>3
    <3> QED
      BY <3>2, <3>3
  <2> QED
    BY <1>3, <1>10, <1>11, <2>1, <2>2, <2>3, <2>4, <2>5 DEF TurnInv
<1>19. OutInv'
  <2>1. job'[turn] = job[turn]
    BY <1>2, <1>8, <1>11
  <2>2. \A m \in 1 .. N : job'[m].st \in {"pass", "next", "end"} => job'[m] = job[m]
    BY <1>8, <1>9
  <2>3. SumInv'
    BY <1>1, <1>3 DEF OutInv, SumInv
  <2> QED
    BY <1>1, <1>3, <1>10, <2>1, <2>2, <2>3 DEF OutInv
<1>20. GroupInv'
  <2>1. IsFiniteSet(Counting) /\ Cardinality(Counting) \in Nat
    BY <1>1, CountingFinite
  <2>2. k \notin Counting
    BY <1>6 DEF Counting
  <2>3. Counting' = IF Kind(k) = "raw" THEN Counting ELSE Counting \cup {k}
    BY <1>5, <1>6, <1>8, <1>9, <1>10 DEF Counting
  <2>4. Cardinality(Counting') = Cardinality(Counting) + IF Kind(k) = "raw" THEN 0 ELSE 1
    BY <2>1, <2>2, <2>3, FS_AddElement
  <2> QED
    BY <1>1, <1>3, <1>4, <1>11, <2>1, <2>4 DEF GroupInv
<1>21. EndInv'
  <2>1. \A m \in 1 .. pos' : Kind(m)' = "idMinLZ" => h'.wantEOF \/ \E l \in m .. pos' : Kind(l)' = "eof"
    <3>1. SUFFICES ASSUME NEW m \in 1 .. k, Kind(m) = "idMinLZ", ~h.wantEOF
                   PROVE  \E l \in m .. k : Kind(l) = "eof"
      BY <1>3, <1>10
    <3>2. m # k
      BY <1>4, <3>1 DEF DataKinds, MinLZKinds
    <3>3. m \in 1 .. pos
      BY <1>2, <3>2
    <3>4. PICK l \in m .. pos : Kind(l) = "eof"
      BY <1>1, <3>1, <3>3 DEF EndInv
    <3> QED
      BY <1>2, <3>4
  <2> QED
    BY <1>3, <2>1 DEF EndInv
<1> QED
  BY <1>13, <1>14, <1>15, <1>16, <1>17, <1>18, <1>19, <1>20, <1>21 DEF DecoderInv

-----------------------------------------------------------------------------
(* The goroutines.                                                         *)

\* A goroutine goes on with what it has, or gives its output buffer up.
LEMMA GoFrames ==
  ASSUME DecoderInv, NEW k \in 0 .. N, NEW rec \in Job, job' = [job EXCEPT ![k] = rec],
         stream' = stream, queue' = queue, turn' = turn, pos' = pos, closed' = closed,
         aErr # "none" => aErr' # "none",
         job[k].st \notin {"none", "end"}, rec.in = job[k].in, rec.out \in {0, job[k].out},
         rec.st \in Waiting \/ (rec.st \in Writing /\ turn = k)
  PROVE  /\ job' \in [0 .. N -> Job] /\ job'[k] = rec
         /\ \A m \in 0 .. N : m # k => job'[m] = job[m]
         /\ \A m \in 0 .. N : m # k /\ (job[m].out # 0 => outHas'[job[m].out] = outHas[job[m].out])
              => JobOK(m)'
         /\ writtenBlocks' = writtenBlocks /\ rout' = rout => OutPlaces'
         /\ toRead' = toRead /\ rin' = rin /\ (rec.st \in {"decode", "release"} => Reads(k))
              => InPlaces'
         /\ TurnInv'
         /\ out' = out /\ aWritten' = aWritten
              /\ (rec.st \in {"pass", "next"} <=> job[k].st \in {"pass", "next"}) => OutInv'
         /\ Counting' = Counting
<1>1. TypeOK /\ JobInv /\ OutPlaces /\ InPlaces /\ TurnInv /\ OutInv
  BY DEF DecoderInv
<1>2. /\ job' \in [0 .. N -> Job] /\ job'[k] = rec
      /\ \A m \in 0 .. N : m # k => job'[m] = job[m]
  BY <1>1, JobSet
<1>3. N' = N /\ \A m : Kind(m)' = Kind(m) /\ Intact(m)' = Intact(m)
  BY DEF N, Kind, Intact
<1>4. rec.st \notin {"none", "end"}
  BY DEF Waiting, Working, Writing
<1>5. ASSUME NEW m \in 0 .. N, m # k,
             job[m].out # 0 => outHas'[job[m].out] = outHas[job[m].out]
      PROVE  JobOK(m)'
  <2>1. JobOK(m) /\ job'[m] = job[m]
    BY <1>1, <1>2, <1>5 DEF JobInv
  <2> QED
    BY <1>3, <1>5, <2>1 DEF JobOK
<1>6. ASSUME writtenBlocks' = writtenBlocks, rout' = rout PROVE OutPlaces'
  <2>1. \A m \in 0 .. N : job'[m].out # 0 => job'[m].out = job[m].out
    BY <1>2
  <2> QED
    BY <1>1, <1>3, <1>6, <2>1 DEF OutPlaces
<1>7. ASSUME toRead' = toRead, rin' = rin, rec.st \in {"decode", "release"} => Reads(k)
      PROVE  InPlaces'
  <2>1. \A m \in 0 .. N : job'[m].in = job[m].in /\ (Reads(m)' => Reads(m))
    BY <1>2, <1>7 DEF Reads
  <2> QED
    BY <1>1, <1>3, <1>7, <2>1 DEF InPlaces
<1>8. TurnInv'
  <2>1. \A i \in 1 .. Len(queue) : queue[i] \in 0 .. N
    <3>1. queue \in Seq(1 .. N) /\ N \in Nat
      BY <1>1, Basics DEF TypeOK
    <3>2. \A i \in 1 .. Len(queue) : queue[i] \in 1 .. N
      BY <3>1, ElementOfSeq
    <3> QED
      BY <3>1, <3>2
  <2>2. \A i \in 1 .. Len(queue) : job'[queue[i]].st \in Waiting
    <3>1. TAKE i \in 1 .. Len(queue)
    <3>2. queue[i] > turn /\ job[queue[i]].st \in Waiting
      BY <1>1 DEF TurnInv
    <3>3. turn \in Int
      BY <1>1, Basics DEF TypeOK
    <3>4. CASE queue[i] = k
      BY <1>2, <3>2, <3>3, <3>4
    <3>5. CASE queue[i] # k
      BY <1>2, <2>1, <3>2, <3>5
    <3> QED
      BY <3>4, <3>5
  <2>3. \A m \in 0 .. N : job'[m].st \in {"none", "end"} <=> job[m].st \in {"none", "end"}
    BY <1>2, <1>4
  <2>4. \A m \in 0 .. N : job'[m].st # "none" <=> job[m].st # "none"
    BY <1>2, <1>4
  <2>5. \A m \in 0 .. N : job'[m].st \in Writing => m = turn
    <3>1. rec.st \in Writing => turn = k
      BY DEF Waiting, Working, Writing
    <3> QED
      BY <1>1, <1>2, <3>1 DEF TurnInv
  <2>6. turn \in -1 .. N /\ N \in Nat
    BY <1>1, Basics DEF TypeOK
  <2>7. turn # NoOne => /\ job'[turn].st \notin {"none", "end"}
                        /\ \A m \in 0 .. turn - 1 : job'[m].st \in {"none", "end"}
                        /\ \A m \in turn + 1 .. N : job'[m].st # "none" =>
                             \E i \in 1 .. Len(queue) : queue[i] = m
    <3>1. SUFFICES ASSUME turn # NoOne
                   PROVE  /\ job'[turn].st \notin {"none", "end"}
                          /\ \A m \in 0 .. turn - 1 : job'[m].st \in {"none", "end"}
                          /\ \A m \in turn + 1 .. N : job'[m].st # "none" =>
                               \E i \in 1 .. Len(queue) : queue[i] = m
      OBVIOUS
    <3>2. turn \in 0 .. N /\ (\A m \in 0 .. turn - 1 : m \in 0 .. N)
          /\ (\A m \in turn + 1 .. N : m \in 0 .. N)
      BY <2>6, <3>1 DEF NoOne
    <3> QED
      BY <1>1, <2>3, <2>4, <3>1, <3>2 DEF TurnInv
  <2>8. /\ \A i, j \in 1 .. Len(queue) : i < j => queue[i] < queue[j]
        /\ \A i \in 1 .. Len(queue) : queue[i] > turn /\ queue[i] <= pos
        /\ turn = NoOne => closed /\ queue = <<>> /\ \A m \in 0 .. N : job[m].st \in {"none", "end"}
    BY <1>1 DEF TurnInv
  <2> QED
    BY <1>3, <2>2, <2>3, <2>5, <2>7, <2>8 DEF TurnInv
<1>9. ASSUME out' = out, aWritten' = aWritten,
             rec.st \in {"pass", "next"} <=> job[k].st \in {"pass", "next"}
      PROVE  OutInv'
  <2>1. \A m \in 0 .. N : /\ job'[m].st \in {"pass", "next"} <=> job[m].st \in {"pass", "next"}
                          /\ job'[m].st = "end" <=> job[m].st = "end"
    BY <1>2, <1>4, <1>9
  <2>2. \A m \in 1 .. N : m \in 0 .. N /\
          (job'[m].st \in {"pass", "next", "end"} <=> job[m].st \in {"pass", "next", "end"})
    BY <2>1, Basics, <1>1
  <2>3. turn = NoOne \/ turn \in 0 .. N
    BY <1>1, Basics DEF TypeOK, NoOne
  <2>4. SumInv'
    BY <1>1, <1>9 DEF OutInv, SumInv
  <2>5. \A i \in 1 .. Len(out) : turn = NoOne \/ out[i] < turn
                                 \/ (out[i] = turn /\ job'[turn].st \in {"pass", "next"})
    BY <1>1, <2>1, <2>3 DEF OutInv
  <2> QED
    BY <1>1, <1>3, <1>9, <2>2, <2>4, <2>5 DEF OutInv
<1>10. Counting' = Counting
  <2>1. \A m \in 1 .. N : (job'[m].st \notin {"none", "end"}) <=> (job[m].st \notin {"none", "end"})
    BY <1>2, <1>4, Basics, <1>1
  <2> QED
    BY <1>3, <2>1 DEF Counting
<1> QED
  BY <1>2, <1>5, <1>6, <1>7, <1>8, <1>9, <1>10

\* The calling goroutine waits meanwhile.
LEMMA CallerRests ==
  ASSUME DecoderInv, UNCHANGED <<stream, readerVars>>, closed' = closed,
         rout # 0 => outHas'[rout] = outHas[rout], Counting' = Counting, wg' = wg,
         turn' = turn, aErr # "none" => aErr' # "none"
  PROVE  CallerInv' /\ GroupInv' /\ EndInv'
<1>1. CallerInv /\ GroupInv /\ EndInv
  BY DEF DecoderInv
<1>2. /\ pos' = pos /\ rpc' = rpc /\ h' = h /\ rerr' = rerr /\ rin' = rin /\ rout' = rout
      /\ N' = N /\ Cur' = Cur /\ \A m : Kind(m)' = Kind(m) /\ Intact(m)' = Intact(m)
  BY DEF readerVars, N, Cur, Kind, Intact
<1>3. Intact(pos + 1)' = Intact(pos + 1)
  BY <1>2 DEF Intact
<1>4. CallerInv'
  BY <1>1, <1>2, <1>3 DEF CallerInv
<1>5. GroupInv'
  BY <1>1, <1>2 DEF GroupInv
<1>6. EndInv'
  BY <1>1, <1>2 DEF EndInv
<1> QED
  BY <1>4, <1>5, <1>6

\* A channel of buffers with another one behind.
LEMMA Joins ==
  ASSUME NEW q \in Seq(Buffers), NEW b \in Buffers,
         \A i, j \in 1 .. Len(q) : q[i] = q[j] => i = j,
         \A i \in 1 .. Len(q) : q[i] # b
  PROVE  /\ Append(q, b) \in Seq(Buffers)
         /\ \A i, j \in 1 .. Len(Append(q, b)) : Append(q, b)[i] = Append(q, b)[j] => i = j
         /\ \A i \in 1 .. Len(Append(q, b)) :
              Append(q, b)[i] = b \/ \E j \in 1 .. Len(q) : Append(q, b)[i] = q[j]
<1> DEFINE s == Append(q, b)
<1>1. /\ Len(q) \in Nat /\ s \in Seq(Buffers) /\ Len(s) = Len(q) + 1 /\ s[Len(q) + 1] = b
      /\ \A i \in 1 .. Len(q) : s[i] = q[i]
  BY AppendProperties, LenProperties
<1> HIDE DEF s
<1>2. \A i \in 1 .. Len(s) : i \in 1 .. Len(q) \/ i = Len(q) + 1
  BY <1>1
<1>3. \A i, j \in 1 .. Len(s) : s[i] = s[j] => i = j
  BY <1>1, <1>2
<1> QED
  BY <1>1, <1>2, <1>3 DEF s

\* A step of a goroutine that writes nothing and keeps its output buffer.
LEMMA StepGoes ==
  ASSUME DecoderInv, NEW k \in 0 .. N, Decode(k) \/ CheckCRC(k) \/ Fail(k) \/ TakeTurn(k)
  PROVE  DecoderInv'
<1>1. TypeOK /\ CallerInv /\ JobInv /\ OutPlaces /\ TurnInv
  BY DEF DecoderInv
<1>2. N \in Nat /\ Concurrency \in Nat
  BY <1>1, Basics
<1>3. JobOK(k) /\ job[k] \in Job /\ (k # 0 => k \in 1 .. N)
  BY <1>1, <1>2 DEF TypeOK, JobInv, Job
<1>4. PICK s \in Stages : job' = [job EXCEPT ![k].st = s]
  <2>1. {"release", "turn", "giveback", "write"} \subseteq Stages
    BY DEF Stages, Waiting, Working, Writing
  <2> QED
    BY <2>1 DEF Decode, CheckCRC, Fail, TakeTurn, Go
<1> DEFINE rec == [job[k] EXCEPT !.st = s]
<1>5. rec \in Job /\ rec.st = s /\ rec.in = job[k].in /\ rec.out = job[k].out
  BY <1>3, <1>4 DEF Job
<1>6. job' = [job EXCEPT ![k] = rec]
  BY <1>4
<1>7. /\ UNCHANGED <<stream, readerVars, toRead, writtenBlocks, queue, closed, turn, wg, out, aWritten>>
      /\ pos' = pos /\ rin' = rin /\ rout' = rout /\ h' = h
      /\ aErr # "none" => aErr' # "none"
  BY DEF Decode, CheckCRC, Fail, TakeTurn, readerVars, poolVars, bufVars, sinkVars, SetErr
<1>8. \/ job[k].st = "decode" /\ s = "release"
      \/ job[k].st = "crc" /\ s = "giveback"
      \/ job[k].st = "crc" /\ s = "turn" /\ (IgnoreCRC \/ SumHolds(k))
      \/ job[k].st = "fail" /\ s = "turn" /\ aErr' # "none"
      \/ job[k].st = "turn" /\ s = "write" /\ turn = k
  <2>1. job'[k].st = s
    BY <1>1, <1>4, <1>5, <1>6 DEF TypeOK
  <2>2. CASE Decode(k)
    BY <1>1, <2>1, <2>2 DEF Decode, At, Go, TypeOK
  <2>3. CASE CheckCRC(k)
    BY <1>1, <2>1, <2>3 DEF CheckCRC, At, Go, TypeOK
  <2>4. CASE Fail(k)
    BY <1>1, <2>1, <2>4 DEF Fail, At, Go, TypeOK, SetErr
  <2>5. CASE TakeTurn(k)
    BY <1>1, <2>1, <2>5 DEF TakeTurn, At, Go, TypeOK
  <2> QED
    BY <2>2, <2>3, <2>4, <2>5
<1>9. \/ outHas' = outHas
      \/ job[k].st = "decode" /\ outHas' = [outHas EXCEPT ![job[k].out] = k]
  BY DEF Decode, CheckCRC, Fail, TakeTurn, At, bufVars
<1> HIDE DEF rec
<1>10. job[k].st \in Working \cup {"fail", "turn"} /\ job[k].st \notin {"none", "end"}
       /\ (s \in Waiting \/ (s \in Writing /\ turn = k))
       /\ (s \in {"decode", "release"} => Reads(k))
       /\ ~(s \in {"pass", "next"}) /\ ~(job[k].st \in {"pass", "next"})
  BY <1>8 DEF Waiting, Working, Writing, Reads
<1>11. /\ job' \in [0 .. N -> Job] /\ job'[k] = rec
       /\ \A m \in 0 .. N : m # k => job'[m] = job[m]
       /\ \A m \in 0 .. N : m # k /\ (job[m].out # 0 => outHas'[job[m].out] = outHas[job[m].out])
            => JobOK(m)'
       /\ OutPlaces' /\ InPlaces' /\ TurnInv' /\ OutInv' /\ Counting' = Counting
  BY <1>5, <1>6, <1>7, <1>10, GoFrames
<1>12. /\ outHas' \in [Buffers -> Nat]
       /\ \A b \in Buffers : b # job[k].out => outHas'[b] = outHas[b]
       /\ job[k].st = "decode" => outHas'[job[k].out] = k \/ outHas' = outHas
  <2>1. outHas \in [Buffers -> Nat] /\ k \in Nat
    BY <1>1 DEF TypeOK
  <2>2. job[k].st = "decode" => job[k].out \in Buffers
    BY <1>2, <1>3 DEF JobOK, Working, Job, Buffers
  <2> QED
    BY <1>9, <2>1, <2>2
<1>13. /\ \A m \in 0 .. N : m # k /\ job[m].out # 0 => outHas'[job[m].out] = outHas[job[m].out]
       /\ rout # 0 => outHas'[rout] = outHas[rout]
  <2>1. CASE outHas' = outHas
    BY <2>1
  <2>2. CASE job[k].st = "decode"
    <3>1. job[k].out # 0
      BY <1>3, <2>2 DEF JobOK, Working
    <3>2. \A m \in 0 .. N : m # k /\ job[m].out # 0 => job[m].out # job[k].out /\ job[m].out \in Buffers
      <4>1. \A m \in 0 .. N : m # k /\ job[m].out # 0 => job[m].out # job[k].out
        BY <1>1, <3>1 DEF OutPlaces
      <4>2. \A m \in 0 .. N : job[m].out # 0 => job[m].out \in Buffers
        BY <1>1, <1>2, SMTT(30) DEF TypeOK, Buffers
      <4> QED
        BY <4>1, <4>2
    <3>3. rout # 0 => rout # job[k].out /\ rout \in Buffers
      BY <1>1, <1>2, <3>1 DEF OutPlaces, TypeOK, Buffers
    <3> QED
      BY <1>12, <3>2, <3>3
  <2> QED
    BY <1>9, <2>1, <2>2
<1>14. CallerInv' /\ GroupInv' /\ EndInv'
  BY <1>7, <1>11, <1>13, CallerRests
<1>15. TypeOK'
  BY <1>1, <1>7, <1>11, <1>12 DEF TypeOK, Job, N, readerVars
<1>16. JobOK(k)'
  <2>1. N' = N /\ \A m : Kind(m)' = Kind(m) /\ Intact(m)' = Intact(m)
    BY <1>7 DEF N, Kind, Intact
  <2>2. CASE Decode(k)
    <3>1. job[k].st = "decode" /\ s = "release" /\ outHas' = [outHas EXCEPT ![job[k].out] = k]
      <4>1. job'[k].st = "release" /\ job[k].st = "decode"
        BY <1>1, <2>2 DEF Decode, At, Go, TypeOK
      <4> QED
        BY <1>5, <1>11, <2>2, <4>1 DEF Decode
    <3>2. job[k].out \in Buffers
      BY <1>2, <1>3, <3>1 DEF JobOK, Working, Job, Buffers
    <3>3. outHas'[job[k].out] = k
      BY <1>1, <3>1, <3>2 DEF TypeOK
    <3> QED
      BY <1>3, <1>5, <1>7, <1>11, <2>1, <3>1, <3>3 DEF JobOK, Working
  <2>3. CASE outHas' = outHas /\ job[k].st # "decode"
    <3>1. job[k].st = "crc" /\ (IgnoreCRC \/ SumHolds(k)) => Intact(k)
      <4>1. SUFFICES ASSUME job[k].st = "crc", IgnoreCRC \/ SumHolds(k) PROVE Intact(k)
        OBVIOUS
      <4>2. k \in 1 .. N /\ stream[k].bad \in {"no", "crc"}
        BY <1>1, <1>3, <4>1, Basics DEF JobOK, Working
      <4> QED
        BY <4>1, <4>2 DEF Intact, SumHolds
    <3>2. \/ s = "giveback" /\ job[k].st = "crc"
          \/ s = "turn" /\ job[k].st = "crc" /\ Intact(k)
          \/ s = "turn" /\ job[k].st = "fail" /\ aErr' # "none"
          \/ s = "write" /\ job[k].st = "turn"
      BY <1>8, <2>3, <3>1
    <3> QED
      BY <1>3, <1>5, <1>7, <1>11, <2>1, <2>3, <3>2 DEF JobOK, Working
  <2>4. Decode(k) \/ (outHas' = outHas /\ job[k].st # "decode")
    BY DEF Decode, CheckCRC, Fail, TakeTurn, At, bufVars
  <2> QED
    BY <2>2, <2>3, <2>4
<1>17. JobInv'
  <2>1. N' = N
    BY <1>7 DEF N
  <2>2. \A m \in 0 .. N : JobOK(m)'
    BY <1>11, <1>13, <1>16
  <2> QED
    BY <2>1, <2>2 DEF JobInv
<1> QED
  BY <1>11, <1>14, <1>15, <1>17 DEF DecoderInv

LEMMA StepRelease == ASSUME DecoderInv, NEW k \in 0 .. N, Release(k) PROVE DecoderInv'
<1> DEFINE s == IF stream[k].bad = "body" THEN "giveback" ELSE "crc"
           rec == [job[k] EXCEPT !.st = s]
<1>1. TypeOK /\ CallerInv /\ JobInv /\ OutPlaces /\ InPlaces
  BY DEF DecoderInv
<1>2. N \in Nat /\ Concurrency \in Nat
  BY <1>1, Basics
<1>3. /\ job[k].st = "release" /\ job' = [job EXCEPT ![k] = rec] /\ toRead' = Append(toRead, job[k].in)
      /\ UNCHANGED <<stream, readerVars, aErr, writtenBlocks, queue, closed, turn, outHas, wg,
                     out, aWritten>>
      /\ pos' = pos /\ rin' = rin /\ rout' = rout /\ h' = h
  BY DEF Release, At, Go, bufVars, sinkVars, readerVars
<1>4. JobOK(k) /\ job[k] \in Job
  BY <1>1 DEF TypeOK, JobInv, Job
<1>5. job[k].in # 0 /\ job[k].in \in Buffers /\ job[k].out # 0 /\ k # 0
  BY <1>2, <1>3, <1>4 DEF JobOK, Working, Job, Buffers
<1>6. rec \in Job /\ rec.st = s /\ rec.in = job[k].in /\ rec.out = job[k].out
      /\ s \in {"giveback", "crc"} /\ (s = "crc" => stream[k].bad # "body")
  BY <1>4 DEF Job, Stages, Waiting, Working
<1> HIDE DEF rec, s
<1>7. /\ job[k].st \notin {"none", "end", "pass", "next"} /\ s \in Waiting
      /\ ~(s \in {"pass", "next"}) /\ ~(s \in {"decode", "release"})
  BY <1>3, <1>6 DEF Waiting, Working
<1>8. /\ job' \in [0 .. N -> Job] /\ job'[k] = rec
      /\ \A m \in 0 .. N : m # k => job'[m] = job[m]
      /\ \A m \in 0 .. N : m # k /\ (job[m].out # 0 => outHas'[job[m].out] = outHas[job[m].out])
           => JobOK(m)'
      /\ OutPlaces' /\ TurnInv' /\ OutInv' /\ Counting' = Counting
  BY <1>3, <1>6, <1>7, GoFrames
<1>9. CallerInv' /\ GroupInv' /\ EndInv'
  BY <1>3, <1>8, CallerRests
<1>10. N' = N /\ \A m : Kind(m)' = Kind(m) /\ Intact(m)' = Intact(m)
  BY <1>3 DEF N, Kind, Intact
<1>11. /\ toRead' \in Seq(Buffers)
       /\ \A i, j \in 1 .. Len(toRead') : toRead'[i] = toRead'[j] => i = j
       /\ \A i \in 1 .. Len(toRead') :
            toRead'[i] = job[k].in \/ \E j \in 1 .. Len(toRead) : toRead'[i] = toRead[j]
  <2> DEFINE b == job[k].in
  <2>1. /\ toRead \in Seq(Buffers) /\ b \in Buffers
        /\ \A i, j \in 1 .. Len(toRead) : toRead[i] = toRead[j] => i = j
        /\ \A i \in 1 .. Len(toRead) : toRead[i] # b
    BY <1>1, <1>3, <1>5 DEF TypeOK, InPlaces, Reads
  <2> HIDE DEF b
  <2>2. /\ Append(toRead, b) \in Seq(Buffers)
        /\ \A i, j \in 1 .. Len(Append(toRead, b)) : Append(toRead, b)[i] = Append(toRead, b)[j] => i = j
        /\ \A i \in 1 .. Len(Append(toRead, b)) :
             Append(toRead, b)[i] = b \/ \E j \in 1 .. Len(toRead) : Append(toRead, b)[i] = toRead[j]
    BY <2>1, Joins
  <2>3. toRead' = Append(toRead, b)
    BY <1>3 DEF b
  <2> QED
    BY <2>2, <2>3 DEF b
<1>12. InPlaces'
  <2>1. \A m \in 0 .. N : Reads(m)' => m # k /\ Reads(m) /\ job'[m] = job[m] /\ job[m].in # job[k].in
    BY <1>1, <1>3, <1>6, <1>7, <1>8 DEF InPlaces, Reads
  <2>2. rin # 0 => rin # job[k].in
    BY <1>1, <1>3 DEF InPlaces, Reads
  <2> QED
    BY <1>1, <1>3, <1>10, <1>11, <2>1, <2>2 DEF InPlaces
<1>13. TypeOK'
  BY <1>1, <1>3, <1>8, <1>10, <1>11 DEF TypeOK, Job
<1>14. JobInv'
  <2>1. JobOK(k)'
    BY <1>3, <1>4, <1>5, <1>6, <1>8, <1>10 DEF JobOK, Working
  <2>2. \A m \in 0 .. N : JobOK(m)'
    BY <1>3, <1>8, <2>1
  <2> QED
    BY <1>10, <2>2 DEF JobInv
<1> QED
  BY <1>8, <1>9, <1>12, <1>13, <1>14 DEF DecoderInv

\* The free output buffers with that of goroutine k.
LEMMA OutReturned ==
  ASSUME DecoderInv, NEW k \in 0 .. N, job[k].out # 0, NEW rec \in Job, rec.out = 0,
         job' = [job EXCEPT ![k] = rec], stream' = stream, rout' = rout,
         writtenBlocks' = Append(writtenBlocks, job[k].out)
  PROVE  OutPlaces' /\ writtenBlocks' \in Seq(Buffers)
<1> DEFINE b == job[k].out
<1>1. TypeOK /\ OutPlaces /\ N' = N /\ N \in Nat /\ Concurrency \in Nat
  BY Basics DEF DecoderInv, N
<1>2. /\ job'[k] = rec /\ \A m \in 0 .. N : m # k => job'[m] = job[m]
  BY <1>1, JobSet
<1>3. b \in Buffers
  BY <1>1, SMTT(30) DEF TypeOK, Buffers
<1>4. /\ writtenBlocks \in Seq(Buffers)
      /\ \A i, j \in 1 .. Len(writtenBlocks) : writtenBlocks[i] = writtenBlocks[j] => i = j
      /\ \A i \in 1 .. Len(writtenBlocks) : writtenBlocks[i] # b
      /\ rout # 0 => rout # b
      /\ \A m \in 0 .. N : m # k /\ job[m].out # 0 => job[m].out # b
  BY <1>1 DEF TypeOK, OutPlaces
<1>5. writtenBlocks' = Append(writtenBlocks, b)
  OBVIOUS
<1> HIDE DEF b
<1> DEFINE w == Append(writtenBlocks, b)
<1>6. /\ w \in Seq(Buffers)
      /\ \A i, j \in 1 .. Len(w) : w[i] = w[j] => i = j
      /\ \A i \in 1 .. Len(w) : w[i] = b \/ \E j \in 1 .. Len(writtenBlocks) : w[i] = writtenBlocks[j]
  BY <1>3, <1>4, Joins
<1> HIDE DEF w
<1>7. writtenBlocks' = w
  BY <1>5 DEF w
<1>8. \A m \in 0 .. N : job'[m].out # 0 => m # k /\ job'[m] = job[m]
  BY <1>2
<1>9. OutPlaces'
  BY <1>1, <1>4, <1>6, <1>7, <1>8 DEF OutPlaces
<1> QED
  BY <1>6, <1>7, <1>9

\* A goroutine goes on without its output buffer.
LEMMA JobLeft ==
  ASSUME TypeOK, NEW k \in 0 .. N, NEW a \in Stages,
         job' = [job EXCEPT ![k].st = a, ![k].out = 0]
  PROVE  job' = [job EXCEPT ![k] = [st |-> a, in |-> job[k].in, out |-> 0]]
<1> DEFINE r == [job[k] EXCEPT !.st = a]
           g == [job EXCEPT ![k] = r]
           q == [r EXCEPT !.out = 0]
<1>1. job \in [0 .. N -> Job] /\ job[k] \in Job
  BY DEF TypeOK, Job
<1>2. r \in Job /\ q = [st |-> a, in |-> job[k].in, out |-> 0]
  <2>1. r \in Job /\ r.st = a /\ r.in = job[k].in
    BY <1>1 DEF Job
  <2>2. Concurrency \in Nat
    BY Basics
  <2> HIDE DEF r
  <2>3. q \in Job /\ q.st = a /\ q.in = job[k].in /\ q.out = 0
    BY <2>1, <2>2 DEF Job
  <2> HIDE DEF q
  <2>4. q = [st |-> a, in |-> job[k].in, out |-> 0]
    BY <2>3 DEF Job
  <2> QED
    BY <2>1, <2>4
<1>3. job' = [g EXCEPT ![k] = [g[k] EXCEPT !.out = 0]]
  OBVIOUS
<1>4. g[k] = r
  BY <1>1
<1>5. job' = [g EXCEPT ![k] = q]
  BY <1>3, <1>4
<1> HIDE DEF q, r
<1>6. [g EXCEPT ![k] = q] = [job EXCEPT ![k] = q]
  BY <1>1
<1> QED
  BY <1>2, <1>5, <1>6

LEMMA StepGiveBack == ASSUME DecoderInv, NEW k \in 0 .. N, GiveBack(k) PROVE DecoderInv'
<1> DEFINE rec == [st |-> "fail", in |-> job[k].in, out |-> 0]
<1>1. TypeOK /\ CallerInv /\ JobInv
  BY DEF DecoderInv
<1>2. N \in Nat /\ Concurrency \in Nat
  BY <1>1, Basics
<1>3. JobOK(k) /\ job[k] \in Job
  BY <1>1 DEF TypeOK, JobInv, Job
<1>4. /\ job[k].st = "giveback" /\ writtenBlocks' = Append(writtenBlocks, job[k].out)
      /\ UNCHANGED <<stream, readerVars, aErr, toRead, queue, closed, turn, outHas, wg, out, aWritten>>
      /\ pos' = pos /\ rin' = rin /\ rout' = rout /\ h' = h
  BY DEF GiveBack, At, bufVars, sinkVars, readerVars
<1>5. job' = [job EXCEPT ![k] = rec]
  <2>1. "fail" \in Stages
    BY DEF Stages, Waiting
  <2> QED
    BY <1>1, <2>1, JobLeft DEF GiveBack
<1>6. rec \in Job /\ rec.st = "fail" /\ rec.in = job[k].in /\ rec.out = 0
  BY <1>2, <1>3 DEF Job, Stages, Waiting
<1> HIDE DEF rec
<1>7. /\ job[k].st \notin {"none", "end", "pass", "next"} /\ rec.st \in Waiting
      /\ ~(rec.st \in {"pass", "next"}) /\ ~(rec.st \in {"decode", "release"})
  BY <1>4, <1>6 DEF Waiting
<1>8. /\ job' \in [0 .. N -> Job] /\ job'[k] = rec
      /\ \A m \in 0 .. N : m # k => job'[m] = job[m]
      /\ \A m \in 0 .. N : m # k /\ (job[m].out # 0 => outHas'[job[m].out] = outHas[job[m].out])
           => JobOK(m)'
      /\ InPlaces' /\ TurnInv' /\ OutInv' /\ Counting' = Counting
  BY <1>4, <1>5, <1>6, <1>7, GoFrames
<1>9. CallerInv' /\ GroupInv' /\ EndInv'
  BY <1>4, <1>8, CallerRests
<1>10. OutPlaces' /\ writtenBlocks' \in Seq(Buffers)
  <2>1. job[k].out # 0
    BY <1>3, <1>4 DEF JobOK, Working
  <2> QED
    BY <1>4, <1>5, <1>6, <2>1, OutReturned
<1>11. N' = N /\ \A m : Kind(m)' = Kind(m) /\ Intact(m)' = Intact(m)
  BY <1>4 DEF N, Kind, Intact
<1>12. TypeOK'
  BY <1>1, <1>4, <1>8, <1>10, <1>11 DEF TypeOK, Job
<1>13. JobInv'
  <2>1. JobOK(k)'
    BY <1>3, <1>4, <1>6, <1>8, <1>11 DEF JobOK, Working
  <2>2. \A m \in 0 .. N : JobOK(m)'
    BY <1>4, <1>8, <2>1
  <2> QED
    BY <1>11, <2>2 DEF JobInv
<1> QED
  BY <1>8, <1>9, <1>10, <1>12, <1>13 DEF DecoderInv

\* What w has after a write, all of a block, nothing, or an error.
LEMMA Written ==
  ASSUME DecoderInv, NEW k \in 0 .. N, WriteBuf(k)
  PROVE  OutInv' /\ out' \in Seq(1 .. N) /\ aWritten' \in Int
<1>1. TypeOK /\ JobInv /\ TurnInv /\ OutInv
  BY DEF DecoderInv
<1>2. N \in Nat /\ Len(out) \in Nat /\ (\A m \in 1 .. N : stream[m].n \in Int) /\ (k # 0 => k \in 1 .. N)
  BY <1>1, Basics
<1>3. JobOK(k) /\ job[k].st = "write" /\ turn = k
  BY <1>1 DEF JobInv, TurnInv, Writing, WriteBuf, At
<1>4. /\ job'[k].st = "pass" /\ \A m \in 0 .. N : m # k => job'[m] = job[m]
      /\ turn' = turn /\ stream' = stream
  BY <1>1 DEF WriteBuf, Go, TypeOK
<1>5. N' = N /\ \A m : Kind(m)' = Kind(m) /\ Intact(m)' = Intact(m)
  BY <1>4 DEF N, Kind, Intact
<1>6. \A i \in 1 .. Len(out) : out[i] < k /\ Kind(out[i]) \in DataKinds /\ Intact(out[i])
  BY <1>1, <1>3 DEF OutInv, NoOne
<1>7. \A m \in 1 .. N : m \in 0 .. N /\ (m # k =>
        (job'[m].st \in {"pass", "next", "end"} <=> job[m].st \in {"pass", "next", "end"}))
  BY <1>2, <1>4
<1>8. CASE out' = out /\ aWritten' = aWritten /\ (aErr' = "none" => aErr = "none" /\ k = 0)
  <2>1. SumInv'
    BY <1>1, <1>4, <1>8, ZenonT(30) DEF OutInv, SumInv
  <2>2. aErr' = "none" => \A m \in 1 .. N : job'[m].st \in {"pass", "next", "end"} =>
          \E i \in 1 .. Len(out) : out[i] = m
    BY <1>1, <1>7, <1>8 DEF OutInv
  <2>3. OutInv'
    BY <1>1, <1>3, <1>4, <1>5, <1>6, <1>8, <2>1, <2>2 DEF OutInv
  <2> QED
    BY <1>1, <1>8, <2>3 DEF TypeOK
<1>9. CASE aErr' = aErr /\ job[k].out # 0
           /\ out' = Append(out, outHas[job[k].out]) /\ aWritten' = aWritten + stream[k].n
  <2>1. outHas[job[k].out] = k /\ k # 0 /\ k \in 1 .. N /\ Intact(k) /\ Kind(k) \in DataKinds
    BY <1>2, <1>3, <1>9 DEF JobOK
  <2>2. out \in Seq(1 .. N) /\ out' = Append(out, k) /\ aWritten \in Int
    BY <1>1, <1>9, <2>1 DEF TypeOK
  <2>3. /\ out' \in Seq(1 .. N) /\ Len(out') = Len(out) + 1 /\ out'[Len(out) + 1] = k
        /\ \A i \in 1 .. Len(out) : out'[i] = out[i]
    <3>1. /\ Append(out, k) \in Seq(1 .. N) /\ Len(Append(out, k)) = Len(out) + 1
          /\ Append(out, k)[Len(out) + 1] = k /\ \A i \in 1 .. Len(out) : Append(out, k)[i] = out[i]
      BY <2>1, <2>2, AppendProperties
    <3> QED
      BY <2>2, <3>1
  <2>4. \A i \in 1 .. Len(out') : i = Len(out') \/ (i \in 1 .. Len(out) /\ i < Len(out'))
    BY <1>2, <2>3
  <2>5. SumInv'
    BY <1>1, <1>2, <1>4, <1>9, <2>1, <2>2, SumGrows DEF OutInv
  <2>6. \A i \in 1 .. Len(out') : /\ Kind(out'[i]) \in DataKinds /\ Intact(out'[i])
                                  /\ out'[i] < k \/ out'[i] = k
    BY <1>6, <2>1, <2>3, <2>4
  <2>7. \A i, j \in 1 .. Len(out') : i < j => out'[i] < out'[j]
    <3>1. TAKE i, j \in 1 .. Len(out')
    <3>2. SUFFICES ASSUME i < j PROVE out'[i] < out'[j]
      OBVIOUS
    <3>3. i \in 1 .. Len(out) /\ out'[i] = out[i] /\ out[i] < k
      BY <1>2, <1>6, <2>3, <2>4, <3>2
    <3>4. CASE j = Len(out')
      BY <2>3, <3>3, <3>4
    <3>5. CASE j \in 1 .. Len(out)
      BY <1>1, <2>3, <3>2, <3>3, <3>5 DEF OutInv
    <3> QED
      BY <2>4, <3>4, <3>5
  <2>8. aErr' = "none" => \A m \in 1 .. N : job'[m].st \in {"pass", "next", "end"} =>
          \E i \in 1 .. Len(out') : out'[i] = m
    <3>1. Len(out) + 1 \in 1 .. Len(out') /\ \A i \in 1 .. Len(out) : i \in 1 .. Len(out')
      BY <1>2, <2>3
    <3>2. aErr = "none" => \A m \in 1 .. N : job[m].st \in {"pass", "next", "end"} =>
            \E i \in 1 .. Len(out) : out[i] = m
      BY <1>1 DEF OutInv
    <3> QED
      BY <1>7, <1>9, <2>3, <3>1, <3>2
  <2>9. OutInv'
    BY <1>3, <1>4, <1>5, <2>5, <2>6, <2>7, <2>8 DEF OutInv
  <2> QED
    BY <1>2, <2>1, <2>2, <2>3, <2>9, <1>9
<1>10. (out' = out /\ aWritten' = aWritten /\ (aErr' = "none" => aErr = "none" /\ k = 0))
       \/ (aErr' = aErr /\ job[k].out # 0
           /\ out' = Append(out, outHas[job[k].out]) /\ aWritten' = aWritten + stream[k].n)
  <2>1. CASE SetErr("write") /\ UNCHANGED sinkVars
    BY <2>1 DEF SetErr, sinkVars
  <2>2. CASE UNCHANGED aErr /\ job[k].out = 0 /\ UNCHANGED sinkVars
    BY <1>3, <2>2 DEF JobOK, sinkVars
  <2>3. CASE UNCHANGED aErr /\ job[k].out # 0
             /\ out' = Append(out, outHas[job[k].out]) /\ aWritten' = aWritten + stream[k].n
    BY <2>3
  <2> QED
    BY <2>1, <2>2, <2>3 DEF WriteBuf
<1> QED
  BY <1>8, <1>9, <1>10

LEMMA StepWriteBuf == ASSUME DecoderInv, NEW k \in 0 .. N, WriteBuf(k) PROVE DecoderInv'
<1> DEFINE rec == [job[k] EXCEPT !.st = "pass"]
<1>1. TypeOK /\ CallerInv /\ JobInv /\ TurnInv
  BY DEF DecoderInv
<1>2. JobOK(k) /\ job[k] \in Job
  BY <1>1 DEF TypeOK, JobInv, Job
<1>3. /\ job[k].st = "write" /\ job' = [job EXCEPT ![k] = rec]
      /\ UNCHANGED <<stream, readerVars, toRead, writtenBlocks, queue, closed, turn, outHas, wg>>
      /\ pos' = pos /\ rin' = rin /\ rout' = rout /\ h' = h
      /\ aErr # "none" => aErr' # "none"
  BY DEF WriteBuf, At, Go, bufVars, poolVars, readerVars, SetErr
<1>4. rec \in Job /\ rec.st = "pass" /\ rec.in = job[k].in /\ rec.out = job[k].out
  BY <1>2 DEF Job, Stages, Writing
<1> HIDE DEF rec
<1>5. job[k].st \notin {"none", "end"} /\ rec.st \in Writing /\ turn = k
      /\ ~(rec.st \in {"decode", "release"})
  BY <1>1, <1>3, <1>4 DEF Writing, TurnInv
<1>6. /\ job' \in [0 .. N -> Job] /\ job'[k] = rec
      /\ \A m \in 0 .. N : m # k => job'[m] = job[m]
      /\ \A m \in 0 .. N : m # k /\ (job[m].out # 0 => outHas'[job[m].out] = outHas[job[m].out])
           => JobOK(m)'
      /\ OutPlaces' /\ InPlaces' /\ TurnInv' /\ Counting' = Counting
  BY <1>3, <1>4, <1>5, GoFrames
<1>7. CallerInv' /\ GroupInv' /\ EndInv'
  BY <1>3, <1>6, CallerRests
<1>8. OutInv' /\ out' \in Seq(1 .. N) /\ aWritten' \in Int
  BY Written
<1>9. N' = N /\ \A m : Kind(m)' = Kind(m) /\ Intact(m)' = Intact(m)
  BY <1>3 DEF N, Kind, Intact
<1>10. TypeOK'
  BY <1>1, <1>3, <1>6, <1>8, <1>9 DEF TypeOK, Job
<1>11. JobInv'
  <2>1. JobOK(k)'
    BY <1>2, <1>3, <1>4, <1>6, <1>9 DEF JobOK, Working
  <2>2. \A m \in 0 .. N : JobOK(m)'
    BY <1>3, <1>6, <2>1
  <2> QED
    BY <1>9, <2>2 DEF JobInv
<1> QED
  BY <1>6, <1>7, <1>8, <1>10, <1>11 DEF DecoderInv

LEMMA StepPassOn == ASSUME DecoderInv, NEW k \in 0 .. N, PassOn(k) PROVE DecoderInv'
<1> DEFINE rec == [st |-> "next", in |-> job[k].in, out |-> 0]
<1>1. TypeOK /\ CallerInv /\ JobInv /\ TurnInv
  BY DEF DecoderInv
<1>2. N \in Nat /\ Concurrency \in Nat
  BY <1>1, Basics
<1>3. JobOK(k) /\ job[k] \in Job
  BY <1>1 DEF TypeOK, JobInv, Job
<1>4. /\ job[k].st = "pass"
      /\ UNCHANGED <<stream, readerVars, aErr, toRead, queue, closed, turn, outHas, wg, out, aWritten>>
      /\ pos' = pos /\ rin' = rin /\ rout' = rout /\ h' = h
      /\ \/ writtenBlocks' = writtenBlocks
         \/ job[k].out # 0 /\ writtenBlocks' = Append(writtenBlocks, job[k].out)
  BY DEF PassOn, At, HasBuf, bufVars, sinkVars, readerVars
<1>5. job' = [job EXCEPT ![k] = rec]
  <2>1. "next" \in Stages
    BY DEF Stages, Writing
  <2> QED
    BY <1>1, <2>1, JobLeft DEF PassOn
<1>6. rec \in Job /\ rec.st = "next" /\ rec.in = job[k].in /\ rec.out = 0
  BY <1>2, <1>3 DEF Job, Stages, Writing
<1> HIDE DEF rec
<1>7. /\ job[k].st \notin {"none", "end"} /\ rec.st \in Writing /\ turn = k
      /\ rec.st \in {"pass", "next"} /\ job[k].st \in {"pass", "next"}
      /\ ~(rec.st \in {"decode", "release"})
  BY <1>1, <1>4, <1>6 DEF Writing, TurnInv
<1>8. /\ job' \in [0 .. N -> Job] /\ job'[k] = rec
      /\ \A m \in 0 .. N : m # k => job'[m] = job[m]
      /\ \A m \in 0 .. N : m # k /\ (job[m].out # 0 => outHas'[job[m].out] = outHas[job[m].out])
           => JobOK(m)'
      /\ writtenBlocks' = writtenBlocks => OutPlaces'
      /\ InPlaces' /\ TurnInv' /\ OutInv' /\ Counting' = Counting
  BY <1>4, <1>5, <1>6, <1>7, GoFrames
<1>9. CallerInv' /\ GroupInv' /\ EndInv'
  BY <1>4, <1>8, CallerRests
<1>10. OutPlaces' /\ writtenBlocks' \in Seq(Buffers)
  <2>1. CASE writtenBlocks' = writtenBlocks
    BY <1>1, <1>8, <2>1 DEF TypeOK
  <2>2. CASE job[k].out # 0 /\ writtenBlocks' = Append(writtenBlocks, job[k].out)
    BY <1>4, <1>5, <1>6, <2>2, OutReturned
  <2> QED
    BY <1>4, <2>1, <2>2
<1>11. N' = N /\ \A m : Kind(m)' = Kind(m) /\ Intact(m)' = Intact(m)
  BY <1>4 DEF N, Kind, Intact
<1>12. TypeOK'
  BY <1>1, <1>4, <1>8, <1>10, <1>11 DEF TypeOK, Job
<1>13. JobInv'
  <2>1. JobOK(k)'
    BY <1>3, <1>4, <1>6, <1>8, <1>11 DEF JobOK, Working
  <2>2. \A m \in 0 .. N : JobOK(m)'
    BY <1>4, <1>8, <2>1
  <2> QED
    BY <1>11, <2>2 DEF JobInv
<1> QED
  BY <1>8, <1>9, <1>10, <1>12, <1>13 DEF DecoderInv

\* w has gone to the first goroutine in the queue, or there is none left.
LEMMA StepForward == ASSUME DecoderInv, NEW k \in 0 .. N, Forward(k) PROVE DecoderInv'
<1> DEFINE rec == [job[k] EXCEPT !.st = "end"]
<1>1. TypeOK /\ CallerInv /\ JobInv /\ OutPlaces /\ InPlaces /\ TurnInv /\ OutInv /\ GroupInv /\ EndInv
  BY DEF DecoderInv
<1>2. N \in Nat /\ Len(queue) \in Nat /\ (\A m \in 1 .. N : m \in 0 .. N) /\ (k # 0 => k \in 1 .. N)
  BY <1>1, Basics
<1>3. JobOK(k) /\ job[k] \in Job /\ job \in [0 .. N -> Job]
  BY <1>1 DEF TypeOK, JobInv, Job
<1>4. /\ job[k].st = "next" /\ job' = [job EXCEPT ![k] = rec]
      /\ UNCHANGED <<stream, readerVars, aErr, toRead, writtenBlocks, closed, outHas, out, aWritten>>
      /\ pos' = pos /\ rin' = rin /\ rout' = rout /\ h' = h /\ rpc' = rpc /\ rerr' = rerr
      /\ \/ queue # <<>> /\ turn' = Head(queue) /\ queue' = Tail(queue) /\ wg' = wg - Counted(k)
         \/ queue = <<>> /\ queue' = queue /\ closed /\ turn' = NoOne /\ wg' = wg - 1 - Counted(k)
  BY DEF Forward, At, Go, bufVars, poolVars, sinkVars, readerVars
<1>5. rec \in Job /\ rec.st = "end" /\ rec.in = job[k].in /\ rec.out = job[k].out
  BY <1>3 DEF Job, Stages
<1> HIDE DEF rec
<1>6. /\ job' \in [0 .. N -> Job] /\ job'[k] = rec /\ \A m \in 0 .. N : m # k => job'[m] = job[m]
  BY <1>3, <1>4, <1>5
<1>7. N' = N /\ Cur' = Cur /\ \A m : Kind(m)' = Kind(m) /\ Intact(m)' = Intact(m)
  BY <1>4 DEF N, Kind, Intact, Cur
<1>8. turn = k /\ k # NoOne
  BY <1>1, <1>2, <1>4 DEF TurnInv, Writing, NoOne
<1>9. CallerInv'
  <2>1. Intact(pos + 1)' = Intact(pos + 1)
    BY <1>4 DEF Intact
  <2> QED
    BY <1>1, <1>4, <1>7, <2>1 DEF CallerInv
<1>10. EndInv'
  BY <1>1, <1>4, <1>7 DEF EndInv
<1>11. JobInv'
  <2>1. JobOK(k)'
    BY <1>3, <1>4, <1>5, <1>6, <1>7 DEF JobOK, Working
  <2>2. ASSUME NEW m \in 0 .. N, m # k PROVE JobOK(m)'
    <3>1. JobOK(m) /\ job'[m] = job[m]
      BY <1>1, <1>6, <2>2 DEF JobInv
    <3> QED
      BY <1>4, <1>7, <3>1 DEF JobOK
  <2>3. \A m \in 0 .. N : JobOK(m)'
    BY <2>1, <2>2
  <2> QED
    BY <1>7, <2>3 DEF JobInv
<1>12. OutPlaces' /\ InPlaces'
  <2>1. \A m \in 0 .. N : job'[m].out = job[m].out /\ job'[m].in = job[m].in /\ (Reads(m)' => Reads(m))
    BY <1>5, <1>6 DEF Reads
  <2>2. OutPlaces'
    BY <1>1, <1>4, <1>7, <2>1 DEF OutPlaces
  <2>3. InPlaces'
    BY <1>1, <1>4, <1>7, <2>1 DEF InPlaces
  <2> QED
    BY <2>2, <2>3
<1>13. \A i \in 1 .. Len(queue) :
         queue[i] \in 1 .. N /\ queue[i] > k /\ queue[i] <= pos /\ job[queue[i]].st \in Waiting
  <2>1. \A i \in 1 .. Len(queue) : queue[i] \in 1 .. N
    BY <1>1, <1>2, ElementOfSeq DEF TypeOK
  <2> QED
    BY <1>1, <1>8, <2>1 DEF TurnInv
<1>14. queue # <<>> =>
         /\ Len(queue) > 0 /\ queue[1] \in 1 .. N /\ Head(queue) = queue[1] /\ Tail(queue) \in Seq(1 .. N)
         /\ Len(Tail(queue)) = Len(queue) - 1
         /\ \A i \in 1 .. Len(Tail(queue)) : Tail(queue)[i] = queue[i + 1]
  <2>1. queue \in Seq(1 .. N)
    BY <1>1 DEF TypeOK
  <2> QED
    BY <1>2, <1>13, <2>1, HeadTailProperties
<1>15. TypeOK'
  <2>1. turn' \in -1 .. N /\ queue' \in Seq(1 .. N)
    <3>1. queue \in Seq(1 .. N)
      BY <1>1 DEF TypeOK
    <3>2. CASE queue # <<>> /\ turn' = Head(queue) /\ queue' = Tail(queue)
      BY <1>2, <1>14, <3>2
    <3>3. CASE queue' = queue /\ turn' = NoOne
      BY <1>2, <3>1, <3>3 DEF NoOne
    <3> QED
      BY <1>4, <3>2, <3>3
  <2>2. wg' \in Int
    BY <1>1, <1>4 DEF TypeOK, Counted
  <2> QED
    BY <1>1, <1>4, <1>6, <1>7, <2>1, <2>2 DEF TypeOK, Job
<1>16. TurnInv'
  <2>1. \A m \in 0 .. N : job'[m].st \notin Writing
    BY <1>1, <1>5, <1>6, <1>8 DEF TurnInv, Writing
  <2>2. \A m \in 0 .. N : m <= k => job'[m].st \in {"none", "end"}
    <3>1. \A m \in 0 .. N : m < k => m \in 0 .. k - 1
      BY <1>2
    <3>2. \A m \in 0 .. k - 1 : job[m].st \in {"none", "end"}
      BY <1>1, <1>8 DEF TurnInv
    <3> QED
      BY <1>2, <1>5, <1>6, <3>1, <3>2
  <2>3. \A m \in 0 .. N : m > k /\ job'[m].st # "none" => \E i \in 1 .. Len(queue) : queue[i] = m
    <3>1. \A m \in k + 1 .. N : job[m].st # "none" => \E i \in 1 .. Len(queue) : queue[i] = m
      BY <1>1, <1>8 DEF TurnInv
    <3> QED
      BY <1>2, <1>6, <3>1
  <2>4. \A i, j \in 1 .. Len(queue) : i < j => queue[i] < queue[j]
    BY <1>1 DEF TurnInv
  <2>5. CASE queue = <<>> /\ queue' = queue /\ closed /\ turn' = NoOne
    <3>1. Len(queue) = 0
      BY <2>5
    <3>2. \A m \in 0 .. N : job'[m].st \in {"none", "end"}
      BY <1>2, <2>2, <2>3, <3>1
    <3> QED
      BY <1>4, <1>7, <2>1, <2>5, <3>1, <3>2 DEF TurnInv
  <2>6. CASE queue # <<>> /\ turn' = Head(queue) /\ queue' = Tail(queue)
    <3>1. /\ turn' = queue[1] /\ queue[1] \in 1 .. N /\ queue[1] > k /\ Len(queue) > 0
          /\ Len(queue') = Len(queue) - 1 /\ \A i \in 1 .. Len(queue') : queue'[i] = queue[i + 1]
      BY <1>2, <1>13, <1>14, <2>6
    <3>2. \A i \in 1 .. Len(queue') : i + 1 \in 1 .. Len(queue) /\ 1 \in 1 .. Len(queue) /\ 1 < i + 1
      BY <1>2, <3>1
    <3>3. \A i, j \in 1 .. Len(queue') : i < j => queue'[i] < queue'[j]
      <4>1. TAKE i, j \in 1 .. Len(queue')
      <4>2. i < j => i + 1 < j + 1
        OBVIOUS
      <4> QED
        BY <2>4, <3>1, <3>2, <4>2
    <3>4. \A i \in 1 .. Len(queue') :
            queue'[i] > turn' /\ queue'[i] <= pos /\ job'[queue'[i]].st \in Waiting
      <4>1. TAKE i \in 1 .. Len(queue')
      <4>2. queue'[i] > queue[1]
        BY <1>13, <2>4, <3>1, <3>2
      <4>3. queue'[i] \in 0 .. N /\ queue'[i] # k /\ queue'[i] <= pos /\ job[queue'[i]].st \in Waiting
        BY <1>2, <1>13, <3>1, <3>2, SMTT(30)
      <4> QED
        BY <1>6, <3>1, <4>2, <4>3
    <3>5. job'[turn'].st \notin {"none", "end"}
      <4>1. 1 \in 1 .. Len(queue)
        BY <1>2, <3>1
      <4>2. turn' \in 0 .. N /\ turn' # k /\ job[turn'].st \in Waiting
        BY <1>2, <1>13, <3>1, <4>1
      <4>3. job[turn'].st \notin {"none", "end"}
        BY <4>2 DEF Waiting, Working
      <4> QED
        BY <1>6, <4>2, <4>3
    <3>6. \A i \in 1 .. Len(queue) : i = 1 \/ (queue[i] > queue[1] /\ i - 1 \in 1 .. Len(queue')
                                                /\ queue'[i - 1] = queue[i])
      BY <1>2, <1>13, <2>4, <3>1
    <3>7. \A m \in 0 .. turn' - 1 : job'[m].st \in {"none", "end"}
      <4>1. TAKE m \in 0 .. turn' - 1
      <4>2. m \in 0 .. N /\ m < queue[1]
        BY <1>2, <3>1
      <4>3. \A i \in 1 .. Len(queue) : queue[i] # m
        BY <1>13, <3>1, <3>6, <4>2
      <4> QED
        BY <1>2, <2>2, <2>3, <4>2, <4>3
    <3>8. \A m \in turn' + 1 .. N : job'[m].st # "none" => \E i \in 1 .. Len(queue') : queue'[i] = m
      <4>1. TAKE m \in turn' + 1 .. N
      <4>2. SUFFICES ASSUME job'[m].st # "none" PROVE \E i \in 1 .. Len(queue') : queue'[i] = m
        OBVIOUS
      <4>3. m \in 0 .. N /\ m > queue[1] /\ m > k
        BY <1>2, <3>1
      <4>4. PICK i \in 1 .. Len(queue) : queue[i] = m
        BY <2>3, <4>2, <4>3
      <4>5. i # 1
        BY <3>1, <4>3, <4>4
      <4> QED
        BY <3>6, <4>4, <4>5
    <3>9. turn' # NoOne
      BY <3>1 DEF NoOne
    <3> QED
      BY <1>4, <1>7, <2>1, <3>3, <3>4, <3>5, <3>7, <3>8, <3>9 DEF TurnInv
  <2> QED
    BY <1>4, <2>5, <2>6
<1>17. OutInv'
  <2>1. \A i \in 1 .. Len(out) : turn' = NoOne \/ out[i] < turn'
    <3>1. \A i \in 1 .. Len(out) : out[i] \in 1 .. N /\ out[i] <= k
      <4>1. \A i \in 1 .. Len(out) : out[i] \in 1 .. N
        BY <1>1, Basics, ElementOfSeq DEF TypeOK
      <4> QED
        BY <1>1, <1>2, <1>8, <4>1 DEF OutInv
    <3>2. turn' = NoOne \/ (turn' > k /\ turn' \in 1 .. N)
      <4>1. CASE queue # <<>>
        BY <1>2, <1>4, <1>13, <1>14, <4>1
      <4> QED
        BY <1>4, <4>1
    <3> QED
      BY <1>2, <3>1, <3>2
  <2>2. \A m \in 1 .. N : job'[m].st \in {"pass", "next", "end"} => job[m].st \in {"pass", "next", "end"}
    BY <1>2, <1>4, <1>6
  <2>3. SumInv'
    BY <1>1, <1>4 DEF OutInv, SumInv
  <2> QED
    BY <1>1, <1>4, <1>7, <2>1, <2>2, <2>3 DEF OutInv
<1>18. GroupInv'
  <2>1. IsFiniteSet(Counting) /\ Cardinality(Counting) \in Nat
    BY <1>1, CountingFinite
  <2>2. Cardinality(Counting') = Cardinality(Counting) - Counted(k) /\ Counted(k) \in {0, 1}
    <3>1. CASE k > 0 /\ Kind(k) # "raw"
      <4>1. k \in Counting
        BY <1>2, <1>4, <3>1 DEF Counting
      <4>2. Counting' = Counting \ {k}
        BY <1>2, <1>5, <1>6, <1>7 DEF Counting
      <4> QED
        BY <2>1, <3>1, <4>1, <4>2, FS_RemoveElement DEF Counted, Kind
    <3>2. CASE ~(k > 0 /\ Kind(k) # "raw")
      <4>1. k \notin Counting
        BY <1>2, <3>2 DEF Counting
      <4>2. \A m \in 1 .. N : m # k => job'[m] = job[m]
        BY <1>2, <1>6
      <4>3. k \in 1 .. N => Kind(k) = "raw"
        BY <3>2
      <4>4. Counting' = Counting
        BY <1>7, <4>2, <4>3 DEF Counting
      <4> QED
        BY <2>1, <3>2, <4>4 DEF Counted, Kind
    <3> QED
      BY <3>1, <3>2
  <2>3. turn # NoOne /\ rpc # "done"
    BY <1>1, <1>8 DEF GroupInv
  <2>4. wg' = wg - Counted(k) - (IF turn' = NoOne THEN 1 ELSE 0)
    <3>1. queue # <<>> => turn' # NoOne
      BY <1>4, <1>14 DEF NoOne
    <3> QED
      BY <1>1, <1>4, <2>2, <3>1 DEF TypeOK
  <2> DEFINE busy == IF rpc \in {"out", "entry", "queue"} /\ Cur.kind # "raw" THEN 1 ELSE 0
  <2>5. busy \in {0, 1} /\ busy' = busy
    BY <1>4, <1>7
  <2>6. wg = Cardinality(Counting) + 1 + busy
    BY <1>1, <2>3 DEF GroupInv
  <2> HIDE DEF busy
  <2>7. wg' = Cardinality(Counting') + (IF turn' = NoOne THEN 0 ELSE 1) + busy'
    BY <2>1, <2>2, <2>4, <2>5, <2>6
  <2> QED
    BY <1>4, <2>3, <2>7 DEF GroupInv, busy
<1> QED
  BY <1>9, <1>10, <1>11, <1>12, <1>15, <1>16, <1>17, <1>18 DEF DecoderInv

LEMMA StepDecoder == DecoderInv /\ [Next]_vars => DecoderInv'
<1> SUFFICES ASSUME DecoderInv, [Next]_vars PROVE DecoderInv'
  OBVIOUS
<1>1. CASE Reader
  BY <1>1, StepStop, StepPast, StepCaller, StepTakeIn, StepTakeOut, StepTakeRaw, StepEnqueue DEF Reader
<1>2. CASE \E k \in DOMAIN job : Goroutine(k)
  <2>1. PICK k \in DOMAIN job : Goroutine(k)
    BY <1>2
  <2>2. k \in 0 .. N
    BY <2>1 DEF DecoderInv, TypeOK
  <2> QED
    BY <2>1, <2>2, StepGoes, StepRelease, StepGiveBack, StepWriteBuf, StepPassOn, StepForward
       DEF Goroutine
<1>3. CASE UNCHANGED vars
  <2>1. /\ UNCHANGED <<stream, pos, h, start, rpc, rerr, rin, rout, aErr, toRead, writtenBlocks>>
        /\ UNCHANGED <<queue, closed, turn, job, outHas, wg, out, aWritten>>
    BY <1>3 DEF vars, readerVars, poolVars, bufVars, sinkVars
  <2>2. N' = N /\ Cur' = Cur /\ \A m : Kind(m)' = Kind(m) /\ Intact(m)' = Intact(m)
    BY <2>1 DEF N, Kind, Intact, Cur
  <2>3. JobInv' /\ OutPlaces' /\ InPlaces' /\ TurnInv' /\ OutInv'
    <3>1. pos' \in Int /\ pos <= pos'
      BY <2>1, Basics DEF DecoderInv, TypeOK
    <3> QED
      BY <2>1, <3>1, Frames
  <2>4. TypeOK'
    BY <2>1, <2>2 DEF DecoderInv, TypeOK
  <2>5. CallerInv' /\ GroupInv' /\ EndInv'
    <3>1. Counting' = Counting
      BY <2>1, <2>2 DEF Counting
    <3> QED
      BY <2>1, <3>1, CallerRests DEF readerVars
  <2> QED
    BY <2>3, <2>4, <2>5 DEF DecoderInv
<1> QED
  BY <1>1, <1>2, <1>3 DEF Next

-----------------------------------------------------------------------------
(* The theorems.                                                           *)

\* Every buffer, the output and every goroutine are where the invariant says, in
\* all runs of DecodeConcurrent (reader.go:592-909).
THEOREM DecoderKeeps == Spec => []DecoderInv
<1>1. Init => DecoderInv
  BY InitDecoder
<1>2. DecoderInv /\ [Next]_vars => DecoderInv'
  BY StepDecoder
<1> QED
  BY <1>1, <1>2, PTL DEF Spec

\* However many goroutines decode, w receives intact blocks only, each once and
\* in the order of the stream (reader.go:612-676).
THEOREM DecoderInOrder == Spec => []IntactInOrder
<1>1. DecoderInv => IntactInOrder
  <2> SUFFICES ASSUME DecoderInv PROVE IntactInOrder
    OBVIOUS
  <2>1. DOMAIN out = 1 .. Len(out)
    BY LenProperties DEF DecoderInv, TypeOK
  <2> QED
    BY <2>1 DEF DecoderInv, OutInv, IntactInOrder
<1> QED
  BY <1>1, DecoderKeeps, PTL

\* DecodeConcurrent returns nil only when the stream was read to its end and
\* every block of it is on w; and it returns the number of bytes it wrote
\* (reader.go:635-680).
THEOREM DecoderSuccess == Spec => []SuccessIsComplete
<1>1. DecoderInv => SuccessIsComplete
  <2> SUFFICES ASSUME DecoderInv, rpc = "done" PROVE SuccessIsComplete
    BY DEF SuccessIsComplete
  <2>1. TypeOK /\ JobInv /\ TurnInv /\ OutInv /\ GroupInv /\ EndInv
    BY DEF DecoderInv
  <2>2. N \in Nat /\ Len(out) \in Nat /\ DOMAIN stream = 1 .. N /\ DOMAIN out = 1 .. Len(out)
    <3>1. DOMAIN stream = 1 .. N
      BY <2>1, DecoderAssumption, LenProperties DEF TypeOK, N
    <3>2. DOMAIN out = 1 .. Len(out)
      BY <2>1, LenProperties DEF TypeOK
    <3> QED
      BY <2>1, <3>1, <3>2, Basics
  <2>3. aWritten = Sizes
    BY <2>1, <2>2, SumIsSizes DEF OutInv
  <2>4. ASSUME Result = "none"
        PROVE  /\ pos = Len(stream) /\ {out[i] : i \in DOMAIN out} = DataChunks
               /\ \A k \in DOMAIN stream : stream[k].kind = "idMinLZ" =>
                    \E m \in k .. Len(stream) : stream[m].kind = "eof"
    <3>1. rerr = "none" /\ aErr = "none"
      BY <2>4 DEF Result
    <3>2. pos = N /\ ~h.wantEOF
      BY <2>1, <3>1 DEF EndInv
    <3>3. \A k \in 0 .. N : job[k].st \in {"none", "end"}
      BY <2>1 DEF GroupInv, TurnInv
    <3>4. \A k \in DataChunks : \E i \in DOMAIN out : out[i] = k
      <4>1. TAKE k \in DataChunks
      <4>2. k \in 1 .. N /\ k \in 0 .. N /\ Kind(k) \in DataKinds
        BY <2>2 DEF DataChunks, Kind
      <4>3. job[k].st = "end"
        BY <2>1, <2>2, <3>2, <3>3, <4>2 DEF JobInv, JobOK
      <4> QED
        BY <2>1, <2>2, <3>1, <4>2, <4>3 DEF OutInv
    <3>5. \A i \in DOMAIN out : out[i] \in DataChunks
      <4>1. \A i \in 1 .. Len(out) : out[i] \in 1 .. N
        BY <2>1, <2>2, ElementOfSeq DEF TypeOK
      <4> QED
        BY <2>1, <2>2, <4>1 DEF OutInv, DataChunks, Kind
    <3>6. \A k \in 1 .. N : stream[k].kind = "idMinLZ" => \E m \in k .. N : stream[m].kind = "eof"
      BY <2>1, <3>2 DEF EndInv, Kind
    <3> QED
      BY <2>2, <3>2, <3>4, <3>5, <3>6 DEF N
  <2> QED
    BY <2>3, <2>4 DEF SuccessIsComplete
<1> QED
  BY <1>1, DecoderKeeps, PTL

\* What holds of the goroutines and their buffers in every state.
LEMMA Places == DecoderInv => OutputOwned /\ OneWriter /\ AllGone
<1> SUFFICES ASSUME DecoderInv PROVE OutputOwned /\ OneWriter /\ AllGone
  OBVIOUS
<1>1. TypeOK /\ OutPlaces /\ TurnInv /\ GroupInv
  BY DEF DecoderInv
<1>2. DOMAIN job = 0 .. N /\ DOMAIN writtenBlocks = 1 .. Len(writtenBlocks)
  BY <1>1, LenProperties DEF TypeOK
<1>3. OutputOwned
  BY <1>1, <1>2 DEF OutPlaces, OutputOwned, UsesOut
<1>4. OneWriter
  BY <1>1, <1>2 DEF TurnInv, OneWriter, Writing
<1>5. AllGone
  BY <1>1, <1>2 DEF TurnInv, GroupInv, AllGone
<1> QED
  BY <1>3, <1>4, <1>5

\* An output buffer is in one place only and w is with one goroutine, and when
\* DecodeConcurrent has returned none is left, whatever chunks the stream has
\* (reader.go:592-680).
THEOREM DecoderOutputOwned == Spec => [](OutputOwned /\ OneWriter /\ AllGone)
<1> QED
  BY Places, DecoderKeeps, PTL

\* So is an input buffer, when no checksum is of compressed data: the checksum
\* of a chunk of type 0x03 is computed of a buffer that was given back before
\* (reader.go:835).
THEOREM DecoderOwned ==
  ASSUME \A s \in Streams : \A k \in 1 .. Len(s) : s[k].kind # "compCRC"
  PROVE  Spec => []Owned
<1>1. DecoderInv => Owned
  <2> SUFFICES ASSUME DecoderInv PROVE Owned
    OBVIOUS
  <2>1. TypeOK /\ JobInv /\ InPlaces
    BY DEF DecoderInv
  <2>2. DOMAIN job = 0 .. N /\ DOMAIN toRead = 1 .. Len(toRead)
    BY <2>1, LenProperties DEF TypeOK
  <2>3. \A k \in 0 .. N : UsesIn(k) => Reads(k)
    <3>1. TAKE k \in 0 .. N
    <3>2. job[k].st = "crc" => k \in 1 .. N
      BY <2>1, Basics DEF JobInv, JobOK, Working
    <3>3. k \in 1 .. N => stream[k].kind # "compCRC"
      BY <2>1 DEF TypeOK, N
    <3> QED
      BY <3>2, <3>3 DEF UsesIn, Reads
  <2>4. InputOwned
    BY <2>1, <2>2, <2>3 DEF InPlaces, InputOwned
  <2> QED
    BY <2>4, Places DEF Owned
<1> QED
  BY <1>1, DecoderKeeps, PTL

-----------------------------------------------------------------------------
(* A stream as the format wants it.                                        *)

\* No checksum is of compressed data, and no S2 stream of large blocks comes behind a
\* MinLZ stream of smaller ones, as maxBufSize is not restored.
NoSums == \A s \in Streams : \A k \in 1 .. Len(s) : s[k].kind # "compCRC"
BuffersSuffice == \A s \in Streams : Valid(s) => BuffersFit(s)

Place == ValidStates(stream)[pos]

\* What r.blockStart has of the block that is not yet passed.
Pending == IF rpc \in {"out", "entry", "queue"} THEN Cur.n ELSE 0

\* Nobody has met an error but w's, and the header state follows the stream.
NoError ==
  /\ rerr = "none" /\ aErr \in {"none", "write"}
  /\ \A k \in 0 .. N : job[k].st \notin {"giveback", "fail"}
  /\ Place.in = "minlz" => start = Place.sum + Pending
Follows ==
  /\ HeaderFits(h, Place)
  /\ Place.in = "s2" => AllowFallback
  /\ Place.in = "between" => ~h.wantEOF
  /\ BlocksFit(stream, pos, h.maxBuf)
ValidInv == Valid(stream) => NoError /\ Follows

\* The next chunk of a valid stream is refused by none of the checks.
LEMMA NextChunk ==
  ASSUME DecoderInv, ValidInv, Valid(stream), pos < N
  PROVE  /\ stream \in Seq(Chunks) /\ pos \in 0 .. Len(stream) /\ pos + 1 \in 1 .. N
         /\ Place \in States /\ Cur \in Chunks
         /\ ValidStates(stream)[pos + 1] = ValidStep(Place, Cur) /\ ValidStep(Place, Cur).in # "wrong"
         /\ ~Unheaded(h, Cur) /\ Refused(Cur) = "none"
         /\ Cur.kind \in DataKinds => EarlyRefusal(h, Cur) = "none" /\ LateRefusal(h, Cur) = "none"
         /\ Cur.kind \in IdKinds => IdRefusal(Cur) = "none"
         /\ Cur.kind = "eof" => Place.in = "minlz" /\ ~TotalRefused(Cur, Place.sum)
<1>1. /\ stream \in Seq(Chunks) /\ pos \in 0 .. Len(stream) /\ pos + 1 \in 1 .. N
      /\ (pos + 1) - 1 = pos /\ pos + 1 \in 0 .. Len(stream)
  <2>1. TypeOK /\ N \in Nat
    BY Basics DEF DecoderInv
  <2>2. stream \in Seq(Chunks) /\ pos \in 0 .. N
    BY <2>1, DecoderAssumption DEF TypeOK
  <2>3. N = Len(stream)
    BY DEF N
  <2> HIDE DEF N
  <2> QED
    BY <2>1, <2>2, <2>3
<1>2. Cur \in Chunks
  BY <1>1 DEF Cur, N
<1>3. Place \in States /\ ValidStates(stream)[pos + 1] = ValidStep(Place, Cur)
  <2>1. ValidStates(stream)[pos + 1] = ValidStep(ValidStates(stream)[(pos + 1) - 1], stream[pos + 1])
    BY <1>1, StatesAre DEF N
  <2> QED
    BY <1>1, <2>1, StatesAre DEF Place, Cur
<1>4. ValidStep(Place, Cur).in # "wrong"
  BY <1>1, <1>3, RightThroughout
<1>5. HeaderFits(h, Place) /\ (Place.in = "s2" => AllowFallback) /\ BlocksFit(stream, pos, h.maxBuf)
  BY DEF ValidInv, Follows
<1>6. Cur.kind \in DataKinds => Cur.len <= h.maxBuf
  <2> SUFFICES ASSUME Cur.kind \in DataKinds PROVE Cur.len <= h.maxBuf
    OBVIOUS
  <2>1. \A m \in pos + 1 .. pos + 1 : stream[m].kind # "idMinLZ"
    BY <1>1 DEF Cur, DataKinds, MinLZKinds
  <2>2. pos + 1 \in pos + 1 .. Len(stream)
    BY <1>1 DEF N
  <2> QED
    BY <1>5, <2>1, <2>2 DEF BlocksFit, Cur
<1>7. h.maxBlock \in Int /\ h.maxBuf \in Int
  BY DEF DecoderInv, TypeOK, Header
<1>8. /\ ~Unheaded(h, Cur) /\ Refused(Cur) = "none"
      /\ Cur.kind \in DataKinds => EarlyRefusal(h, Cur) = "none" /\ LateRefusal(h, Cur) = "none"
      /\ Cur.kind \in IdKinds => IdRefusal(Cur) = "none"
      /\ Cur.kind = "eof" => Place.in = "minlz" /\ ~TotalRefused(Cur, Place.sum)
  BY <1>2, <1>3, <1>4, <1>5, <1>6, <1>7, Accepted
<1> QED
  BY <1>1, <1>2, <1>3, <1>4, <1>8

\* Every block of it decodes.
LEMMA BlocksDecode ==
  ASSUME DecoderInv, Valid(stream), NEW k \in 1 .. N, Kind(k) \in DataKinds
  PROVE  stream[k].bad = "no"
<1>1. stream \in Seq(Chunks) /\ N = Len(stream) /\ N \in Nat
  <2>1. TypeOK
    BY DEF DecoderInv
  <2> QED
    BY <2>1, DecoderAssumption, Basics DEF TypeOK, N
<1>2. k \in 0 .. Len(stream) /\ k - 1 \in 0 .. Len(stream) /\ stream[k] \in Chunks
  BY <1>1
<1>3. /\ ValidStates(stream)[k - 1] \in States
      /\ ValidStates(stream)[k] = ValidStep(ValidStates(stream)[k - 1], stream[k])
      /\ ValidStates(stream)[k].in # "wrong"
  BY <1>1, <1>2, StatesAre, RightThroughout
<1> QED
  BY <1>2, <1>3, DataStep DEF Kind

\* Where the Reader stays at its chunk.
LEMMA Stays ==
  ASSUME ValidInv, UNCHANGED <<stream, pos, h>>,
         Valid(stream) => NoError'
  PROVE  ValidInv'
  BY DEF ValidInv, Follows, Place

LEMMA StopsValid ==
  ASSUME DecoderInv, ValidInv, ReadStop
  PROVE  ValidInv'
<1>1. UNCHANGED <<stream, pos, h, start, aErr, job>> /\ rpc = "chunk" /\ rpc' = "cleanup"
  BY DEF ReadStop, Stop
<1>2. ASSUME Valid(stream) PROVE NoError'
  <2>1. NoError /\ Follows
    BY <1>2 DEF ValidInv
  <2>2. rerr' = "none"
    <3>1. pos = Len(stream) => ~h.wantEOF
      BY <1>2, <2>1 DEF Valid, Follows, Place, HeaderFits
    <3> QED
      BY <3>1 DEF ReadStop, Stop
  <2> QED
    BY <1>1, <2>1, <2>2 DEF NoError, Place, Pending, N
<1> QED
  BY <1>1, <1>2, Stays

LEMMA NotRefused ==
  ASSUME DecoderInv, ValidInv, Valid(stream)
  PROVE  ~ReadRefused
<1> SUFFICES ASSUME ReadRefused PROVE FALSE
  OBVIOUS
<1>1. pos < N /\ rpc = "chunk"
  BY DEF ReadRefused, Reading, N
<1>2. Place.in = "minlz" => start = Place.sum
  <2>1. Pending = 0
    BY <1>1 DEF Pending
  <2>2. Place.in = "minlz" => start = Place.sum + 0
    BY <2>1 DEF ValidInv, NoError
  <2>3. Place.sum \in Int
    BY <1>1, NextChunk DEF States
  <2> QED
    BY <2>2, <2>3
<1> QED
  BY <1>1, <1>2, NextChunk DEF ReadRefused

\* The steps on the way from a chunk's header to its goroutine.
LEMMA CallerValid ==
  ASSUME DecoderInv, ValidInv, ReadData \/ TakeOut \/ TakeEntry \/ Cleanup \/ Return
  PROVE  ValidInv'
<1>1. UNCHANGED <<stream, pos, h, start, rerr, job>>
  BY DEF ReadData, TakeOut, TakeEntry, Cleanup, Return
<1>2. Pending' = Pending
  <2>1. Cur' = Cur
    BY <1>1 DEF Cur
  <2>2. rpc' \in {"out", "entry", "queue"} <=> rpc \in {"out", "entry", "queue"}
    BY DEF ReadData, Reading, TakeOut, TakeEntry, Cleanup, Return
  <2> QED
    BY <2>1, <2>2 DEF Pending
<1>3. ASSUME Valid(stream) PROVE NoError'
  <2>1. NoError
    BY <1>3 DEF ValidInv
  <2>2. aErr' = aErr
    BY <2>1 DEF ReadData, TakeOut, TakeEntry, Cleanup, Return, SetErr, NoError
  <2> QED
    BY <1>1, <1>2, <2>1, <2>2 DEF NoError, Place, N
<1> QED
  BY <1>1, <1>3, Stays

LEMMA TakenValid ==
  ASSUME DecoderInv, ValidInv, TakeIn \/ TakeRaw
  PROVE  ValidInv'
<1>1. UNCHANGED <<stream, pos, h, aErr, job>> /\ rpc \in {"in", "raw"}
  BY DEF TakeIn, TakeRaw
<1>2. ASSUME Valid(stream) PROVE NoError'
  <2>1. NoError /\ Pending = 0
    BY <1>1, <1>2 DEF ValidInv, Pending
  <2>2. /\ pos < N /\ Cur.kind \in DataKinds
        /\ TakeIn => Cur.kind # "raw"
        /\ TakeRaw => Cur.kind = "raw"
    BY DEF DecoderInv, CallerInv, TakeIn, TakeRaw, DataKinds
  <2>3. /\ Place \in States /\ Cur \in Chunks /\ ValidStep(Place, Cur).in # "wrong"
        /\ LateRefusal(h, Cur) = "none"
    BY <1>2, <2>2, NextChunk
  <2>4. Cur.bad = "no" /\ (Place.in = "minlz" => Cur.kind # "legacy")
    BY <2>2, <2>3, DataStep
  <2>5. CASE TakeIn
    <3>1. rpc' = "out" /\ rerr' = rerr /\ start' = IF Cur.kind = "legacy" THEN start ELSE start + Cur.n
      BY <2>3, <2>5 DEF TakeIn
    <3> QED
      BY <1>1, <2>1, <2>3, <2>4, <3>1 DEF NoError, Place, Pending, Cur, N, States
  <2>6. CASE TakeRaw
    <3> DEFINE refusal == IF LateRefusal(h, Cur) = "none" /\ Cur.bad # "no" /\ ~IgnoreCRC
                          THEN "crc" ELSE LateRefusal(h, Cur)
    <3>1. refusal = "none"
      BY <2>3, <2>4
    <3>2. /\ start' = start + Cur.n
          /\ IF refusal # "none" THEN Stop(refusal) ELSE rpc' = "entry" /\ UNCHANGED rerr
      BY <2>6 DEF TakeRaw
    <3> HIDE DEF refusal
    <3>3. rpc' = "entry" /\ rerr' = rerr
      BY <3>1, <3>2
    <3> QED
      BY <1>1, <2>1, <2>3, <3>2, <3>3 DEF NoError, Place, Pending, Cur, N, States
  <2> QED
    BY <2>5, <2>6
<1> QED
  BY <1>1, <1>2, Stays

\* A chunk further.
LEMMA PassedValid ==
  ASSUME DecoderInv, BuffersSuffice, ValidInv, ReadIdentifier \/ ReadEOF \/ ReadSkippable
  PROVE  ValidInv'
<1>1. /\ UNCHANGED <<stream, rpc, rerr, aErr, job>> /\ pos' = pos + 1 /\ pos < N /\ rpc = "chunk"
      /\ \/ ReadIdentifier /\ Cur.kind \in IdKinds /\ h' = Identified(h, Cur) /\ start' = 0
         \/ ReadEOF /\ Cur.kind = "eof" /\ h' = AfterEOF(h) /\ start' = start
         \/ ReadSkippable /\ Cur.kind = "skip" /\ h' = h /\ start' = start
  BY DEF ReadIdentifier, ReadEOF, ReadSkippable, Reading, N
<1> SUFFICES ASSUME Valid(stream) PROVE NoError' /\ Follows'
  BY <1>1 DEF ValidInv
<1>2. NoError /\ Follows /\ h \in Header /\ stream \in Streams /\ Pending = 0 /\ Pending' = 0
  BY <1>1 DEF ValidInv, DecoderInv, TypeOK, Pending
<1>3. /\ stream \in Seq(Chunks) /\ pos \in 0 .. Len(stream) /\ Place \in States /\ Cur \in Chunks
      /\ ValidStates(stream)[pos + 1] = ValidStep(Place, Cur) /\ ValidStep(Place, Cur).in # "wrong"
      /\ pos < Len(stream) /\ pos + 1 \in 1 .. N
  BY <1>1, NextChunk DEF N
<1>4. Place' = ValidStep(Place, Cur)
  BY <1>1, <1>3 DEF Place
<1>5. Cur.kind # "idMinLZ" => BlocksFit(stream, pos + 1, h.maxBuf)
  BY <1>2, <1>3, FitBehind DEF Follows, Cur
<1>6. ASSUME Place'.in = "minlz" => start' = Place'.sum PROVE NoError'
  <2>1. Place' \in States
    BY <1>3, <1>4, RightStep
  <2> QED
    BY <1>1, <1>2, <1>6, <2>1 DEF NoError, N, States
<1>7. CASE Cur.kind = "skip" /\ Place' = Place /\ h' = h /\ start' = start
  <2>1. NoError'
    BY <1>2, <1>3, <1>6, <1>7 DEF NoError, States
  <2> QED
    BY <1>1, <1>2, <1>5, <1>7, <2>1 DEF Follows
<1>8. CASE /\ Cur.kind = "idMinLZ" /\ h' = Identified(h, Cur) /\ start' = 0
           /\ Place' = [in |-> "minlz", max |-> Cur.n, sum |-> 0]
  <2>1. h' = [header |-> TRUE, wantEOF |-> TRUE, maxBlock |-> Cur.n, maxBuf |-> Cur.n, snappy |-> FALSE]
    BY <1>8 DEF Identified
  <2>2. BlocksFit(stream, pos + 1, Cur.n)
    <3>1. pos + 1 \in DOMAIN stream /\ stream[pos + 1] = Cur
      BY <1>3 DEF Cur
    <3> QED
      BY <1>2, <1>8, <3>1 DEF BuffersSuffice, BuffersFit
  <2> QED
    BY <1>1, <1>6, <1>8, <2>1, <2>2 DEF Follows, HeaderFits
<1>9. CASE /\ Cur.kind = "idS2" /\ h' = Identified(h, Cur) /\ AllowFallback /\ Place.in \in {"between", "s2"}
           /\ Place' = [in |-> "s2", max |-> MaxS2Block, sum |-> 0]
  <2>1. ~h.wantEOF
    BY <1>2, <1>9 DEF Follows, HeaderFits
  <2>2. /\ h'.header /\ h'.maxBlock = MaxBlockOrg /\ ~h'.snappy /\ ~h'.wantEOF
        /\ h'.maxBuf = h.maxBuf
    BY <1>2, <1>9, <2>1 DEF Identified, Header
  <2> QED
    BY <1>1, <1>5, <1>6, <1>9, <2>2 DEF Follows, HeaderFits
<1>10. CASE Cur.kind = "eof" /\ h' = AfterEOF(h) /\ Place' = [in |-> "between", max |-> 0, sum |-> 0]
  <2>1. ~h'.wantEOF /\ h'.maxBuf = h.maxBuf
    BY <1>2, <1>10 DEF AfterEOF, Header
  <2> QED
    BY <1>1, <1>5, <1>6, <1>10, <2>1 DEF Follows, HeaderFits
<1> DEFINE v == Place
           c == Cur
<1>11. \/ c.kind = "skip" /\ ValidStep(v, c) = v
       \/ c.kind = "idMinLZ" /\ ValidStep(v, c) = [in |-> "minlz", max |-> c.n, sum |-> 0]
       \/ /\ c.kind = "idS2" /\ AllowFallback /\ v.in \in {"between", "s2"}
          /\ ValidStep(v, c) = [in |-> "s2", max |-> MaxS2Block, sum |-> 0]
       \/ c.kind = "eof" /\ ValidStep(v, c) = [in |-> "between", max |-> 0, sum |-> 0]
  <2>1. c.kind \notin MinLZKinds \cup {"raw", "legacy"}
    BY <1>1 DEF IdKinds, MinLZKinds
  <2>2. c \in Chunks /\ v \in States /\ ValidStep(v, c).in # "wrong"
    BY <1>3
  <2> HIDE DEF v, c
  <2> QED
    BY <2>1, <2>2, RightStep
<1>12. \/ Cur.kind \in IdKinds /\ h' = Identified(h, Cur) /\ start' = 0
       \/ Cur.kind = "eof" /\ h' = AfterEOF(h)
       \/ Cur.kind = "skip" /\ h' = h /\ start' = start
  BY <1>1
<1> HIDE DEF v, c
<1> QED
  BY <1>4, <1>7, <1>8, <1>9, <1>10, <1>11, <1>12 DEF v, c, IdKinds

LEMMA EnqueuedValid ==
  ASSUME DecoderInv, ValidInv, Enqueue
  PROVE  ValidInv'
<1>1. /\ UNCHANGED <<stream, h, start, rerr, aErr>> /\ pos' = pos + 1 /\ rpc = "queue" /\ rpc' = "chunk"
      /\ pos < N /\ Cur.kind \in DataKinds /\ pos \in Nat
      /\ job' = [job EXCEPT ![pos + 1] =
               [st |-> IF Cur.kind = "raw" THEN "turn" ELSE "decode", in |-> rin, out |-> rout]]
  BY Basics DEF Enqueue, DecoderInv, CallerInv, TypeOK
<1> SUFFICES ASSUME Valid(stream) PROVE NoError' /\ Follows'
  BY <1>1 DEF ValidInv
<1>2. NoError /\ Follows /\ Pending = Cur.n /\ Pending' = 0
  BY <1>1 DEF ValidInv, Pending
<1>3. /\ stream \in Seq(Chunks) /\ pos \in 0 .. Len(stream) /\ Place \in States /\ Cur \in Chunks
      /\ ValidStates(stream)[pos + 1] = ValidStep(Place, Cur) /\ ValidStep(Place, Cur).in # "wrong"
      /\ pos < Len(stream)
  BY <1>1, NextChunk DEF N
<1>4. /\ Place' = [in |-> Place.in, max |-> Place.max, sum |-> Place.sum + Cur.n]
      /\ Place.in \in {"minlz", "s2"}
  <2>1. Place' = ValidStep(Place, Cur)
    BY <1>1, <1>3 DEF Place
  <2> QED
    BY <1>1, <1>3, <2>1, DataStep
<1>5. BlocksFit(stream, pos + 1, h.maxBuf)
  BY <1>1, <1>2, <1>3, FitBehind DEF Follows, Cur, DataKinds, MinLZKinds
<1>6. \A k \in 0 .. N : job'[k].st \notin {"giveback", "fail"}
  <2>1. job \in [0 .. N -> Job]
    BY DEF DecoderInv, TypeOK, Job
  <2> QED
    BY <1>1, <1>2, <2>1 DEF NoError
<1>7. NoError'
  <2>1. Place.in = "minlz" => start = Place'.sum + 0
    BY <1>2, <1>3, <1>4 DEF NoError, States, Chunks, NoTotal
  <2> QED
    BY <1>1, <1>2, <1>4, <1>6, <2>1 DEF NoError, N
<1>8. Follows'
  BY <1>1, <1>2, <1>4, <1>5 DEF Follows, HeaderFits
<1> QED
  BY <1>7, <1>8

\* No goroutine of a valid stream fails.
LEMMA GoroutineValid ==
  ASSUME DecoderInv, NoSums, ValidInv, NEW k \in 0 .. N, Goroutine(k)
  PROVE  ValidInv'
<1>1. UNCHANGED <<stream, pos, h, start, rpc, rerr>>
  BY DEF Goroutine, Decode, Release, CheckCRC, GiveBack, Fail, TakeTurn, WriteBuf, PassOn, Forward, readerVars
<1>2. ASSUME Valid(stream) PROVE NoError'
  <2>1. NoError /\ JobOK(k) /\ job \in [0 .. N -> Job] /\ job[k].st \notin {"giveback", "fail"}
    BY <1>2 DEF ValidInv, NoError, DecoderInv, JobInv, TypeOK, Job
  <2>2. job[k].st \in {"release", "crc"} => stream[k].bad = "no" /\ k \in 1 .. N
    <3> SUFFICES ASSUME job[k].st \in {"release", "crc"} PROVE stream[k].bad = "no" /\ k \in 1 .. N
      OBVIOUS
    <3>1. k # 0 /\ Kind(k) \in DataKinds
      BY <2>1 DEF JobOK, Working
    <3>2. k \in 1 .. N
      BY <3>1, Basics DEF DecoderInv
    <3> QED
      BY <1>2, <3>1, <3>2, BlocksDecode
  <2>3. job[k].st = "crc" => SumHolds(k)
    <3> SUFFICES ASSUME job[k].st = "crc" PROVE SumHolds(k)
      OBVIOUS
    <3>1. stream[k].kind # "compCRC"
      BY <2>2 DEF NoSums, DecoderInv, TypeOK, N
    <3>2. outHas[job[k].out] = k
      BY <2>1 DEF JobOK, Working
    <3> QED
      BY <2>2, <3>1, <3>2 DEF SumHolds
  <2>4. /\ aErr' \in {"none", "write"}
        /\ \E st \in Stages \ {"giveback", "fail"}, o \in 0 .. Concurrency + 1 : job' = [job EXCEPT ![k].st = st, ![k].out = o]
    <3>1. CASE Decode(k) \/ Release(k) \/ CheckCRC(k) \/ TakeTurn(k) \/ WriteBuf(k) \/ Forward(k)
      <4>1. aErr' \in {"none", "write"}
        BY <2>1, <3>1 DEF Decode, Release, CheckCRC, TakeTurn, WriteBuf, Forward, SetErr, NoError
      <4>2. \E st \in Stages \ {"giveback", "fail"} : job' = [job EXCEPT ![k].st = st]
        BY <2>2, <2>3, <3>1 DEF Decode, Release, CheckCRC, TakeTurn, WriteBuf, Forward, At, Go,
          Stages, Waiting, Working, Writing
      <4>3. PICK st \in Stages \ {"giveback", "fail"} : job' = [job EXCEPT ![k].st = st]
        BY <4>2
      <4>4. /\ job' = [job EXCEPT ![k].st = st, ![k].out = job[k].out]
            /\ job[k].out \in 0 .. Concurrency + 1
        BY <2>1, <4>3 DEF Job
      <4> QED
        BY <4>1, <4>4
    <3>2. CASE PassOn(k)
      <4>1. aErr' = aErr /\ job' = [job EXCEPT ![k].st = "next", ![k].out = 0] /\ "next" \in Stages
        BY <3>2 DEF PassOn, Stages, Writing
      <4>2. 0 \in 0 .. Concurrency + 1
        BY Basics DEF DecoderInv
      <4> QED
        BY <2>1, <4>1, <4>2 DEF NoError
    <3>3. ~GiveBack(k) /\ ~Fail(k)
      BY <2>1 DEF GiveBack, Fail, At
    <3> QED
      BY <3>1, <3>2, <3>3 DEF Goroutine
  <2>5. \A m \in 0 .. N : job'[m].st \notin {"giveback", "fail"}
    BY <2>1, <2>4 DEF NoError, Job
  <2>6. Pending' = Pending /\ Place' = Place /\ N' = N
    BY <1>1 DEF Pending, Place, Cur, N
  <2> QED
    BY <1>1, <2>1, <2>4, <2>5, <2>6 DEF NoError
<1> QED
  BY <1>1, <1>2, Stays

LEMMA InitValid ==
  ASSUME Init, BuffersSuffice
  PROVE  ValidInv
<1> SUFFICES ASSUME Valid(stream) PROVE NoError /\ Follows
  BY DEF ValidInv
<1>1. /\ stream \in Streams /\ stream \in Seq(Chunks) /\ pos = 0 /\ h = NewHeader /\ start = 0
      /\ rpc = "chunk" /\ rerr = "none" /\ aErr = "none"
  BY DecoderAssumption DEF Init
<1>2. Place = [in |-> "between", max |-> 0, sum |-> 0] /\ Pending = 0
  BY <1>1, StatesAre DEF Place, Pending
<1>3. BlocksFit(stream, 0, MaxBlockOrg)
  BY <1>1 DEF BuffersSuffice, BuffersFit
<1>4. \A k \in 0 .. N : job[k].st \in {"turn", "none"}
  BY DEF Init, N
<1> QED
  BY <1>1, <1>2, <1>3, <1>4 DEF NoError, Follows, HeaderFits, NewHeader

\* A stream as the format wants it is decoded without an error, whatever the goroutines'
\* order, unless w fails (reader.go:569).  The checksum of compressed data may be taken of
\* another block, and maxBufSize may be that of an earlier stream: the two conditions.
THEOREM DecodesValid == ASSUME NoSums, BuffersSuffice PROVE Spec => []ValidIsDecoded
<1> DEFINE Inv == DecoderInv /\ ValidInv
<1>1. Init => Inv
  BY InitDecoder, InitValid
<1>2. Inv /\ [Next]_vars => Inv'
  <2> SUFFICES ASSUME DecoderInv, ValidInv, [Next]_vars PROVE ValidInv'
    BY StepDecoder
  <2>1. CASE Reader
    <3>1. CASE ReadRefused
      <4>1. stream' = stream
        BY <3>1 DEF ReadRefused
      <4> QED
        BY <3>1, <4>1, NotRefused DEF ValidInv
    <3> QED
      BY <2>1, <3>1, StopsValid, CallerValid, TakenValid, PassedValid, EnqueuedValid DEF Reader
  <2>2. CASE \E k \in DOMAIN job : Goroutine(k)
    <3>1. PICK k \in DOMAIN job : Goroutine(k)
      BY <2>2
    <3>2. k \in 0 .. N
      BY <3>1 DEF DecoderInv, TypeOK
    <3> QED
      BY <3>1, <3>2, GoroutineValid
  <2>3. CASE UNCHANGED vars
    <3>1. UNCHANGED <<stream, pos, h, start, rpc, rerr, aErr, job>>
      BY <2>3 DEF vars, readerVars
    <3>2. NoError => NoError'
      BY <3>1 DEF NoError, Place, Pending, Cur, N
    <3> QED
      BY <3>1, <3>2, Stays DEF ValidInv
  <2> QED
    BY <2>1, <2>2, <2>3 DEF Next
<1>3. Inv => ValidIsDecoded
  BY DEF ValidInv, NoError, ValidIsDecoded, Result
<1> QED
  BY <1>1, <1>2, <1>3, PTL DEF Spec

=============================================================================
