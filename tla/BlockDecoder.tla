--------------------------- MODULE BlockDecoder ----------------------------
(***************************************************************************)
(* minLZDecodeGo: the operations of a block are read one by one, by a loop *)
(* without bounds checks on the input while at least Margin more bytes     *)
(* follow, and by a careful loop near the end.  The input is given (the    *)
(* operations, and how many bytes are cut off behind them), as is the size *)
(* the block should decode to.  An index out of a slice is a panic.        *)
(***************************************************************************)
EXTENDS BlockFormat

VARIABLES
  given,           \* the input: [ops, cut, size]
  status,          \* "idle", "run"; "ok", "corrupt", "panic" when done, "refused" without a block
  done,            \* operations decoded
  d,               \* bytes written
  dst,             \* the output, "?" where nothing has been written
  offset           \* the offset of the last copy

decoderVars == <<given, status, done, d, dst, offset>>

Margin == 11       \* the longest operation and four bytes

SrcLen == CodeBytes(given.ops) - given.cut
S == CodeBytes(SubSeq(given.ops, 1, done))
Cur == given.ops[done + 1]

----------------------------------------------------------------------------
(* What a block means: literals are appended, a copy repeats what lies     *)
(* offset bytes back, byte by byte; a repeat takes the last offset.        *)

IsCopy(op) == op.tag # "literal"

\* The bytes of a copy of the given length at the end of prefix.
Copied(prefix, off, length) ==
  [i \in 1..length |-> prefix[Len(prefix) - off + 1 + ((i - 1) % off)]]

MeaningStep(m, op) ==
  LET lits == m.out \o op.lits
      off  == IF op.tag \in {"literal", "repeat"} THEN m.off ELSE ReadOffset(op)
  IN  IF ~m.ok \/ (IsCopy(op) /\ off > Len(lits)) THEN [m EXCEPT !.ok = FALSE]
      ELSE [ok |-> TRUE, off |-> off,
            out |-> IF IsCopy(op) THEN lits \o Copied(lits, off, ReadLength(op)) ELSE lits]

Meaning(ops) ==
  LET after[k \in 0..Len(ops)] ==
        IF k = 0 THEN [ok |-> TRUE, off |-> 1, out |-> <<>>] ELSE MeaningStep(after[k - 1], ops[k])
  IN  after[Len(ops)]

----------------------------------------------------------------------------
Stop(result) ==
  /\ status' = result
  /\ UNCHANGED <<given, done, d, dst, offset>>

\* Writes bytes at position d.
Put(out, at, bytes) ==
  [i \in DOMAIN out |-> IF i \in (at + 1)..(at + Len(bytes)) THEN bytes[i - at] ELSE out[i]]

\* The literals of an operation as it is read: the length field says how many.
LitBytes(op) ==
  [i \in 1..ReadLength(op) |-> IF i <= Len(op.lits) THEN op.lits[i] ELSE "?"]

\* literal: the same checks in both loops, behind the header.
DoLiteral(op) ==
  LET length == ReadLength(op)
  IN  IF length > given.size - d \/ length > SrcLen - (S + HeadBytes(op))
      THEN Stop("corrupt")
      ELSE /\ dst' = Put(dst, d, LitBytes(op))
           /\ d' = d + length /\ done' = done + 1
           /\ UNCHANGED <<given, status, offset>>

\* docopy, with the literals of the operation already in out.
DoCopy(op, out, at) ==
  LET length == ReadLength(op)
      off    == IF op.tag = "repeat" THEN offset ELSE ReadOffset(op)
  IN  IF at < off \/ length > given.size - at
      THEN Stop("corrupt")
      ELSE /\ dst' = Put(out, at, Copied(SubSeq(out, 1, at), off, length))
           /\ d' = at + length /\ done' = done + 1 /\ offset' = off
           /\ UNCHANGED <<given, status>>

\* The bytes the fast loop reads at once: a word for tag 3, and one for its
\* literals, of which all four bytes are written.
FastReads(op) ==
  IF op.tag \in {"fused2", "copy3"}
  THEN Max({4, HeadBytes(op)}) + (IF op.lits = <<>> THEN 0 ELSE 4)
  ELSE HeadBytes(op)
FourBytes(lits) == [i \in 1..4 |-> IF i <= Len(lits) THEN lits[i] ELSE "?"]

FastOp ==
  /\ status = "run" /\ S < SrcLen - Margin
  /\ IF S + FastReads(Cur) > SrcLen THEN Stop("panic")
     ELSE IF Cur.tag = "literal" THEN DoLiteral(Cur)
     ELSE IF Cur.lits = <<>> THEN DoCopy(Cur, dst, d)
     ELSE IF given.size - d < 4 THEN Stop("corrupt")
     ELSE DoCopy(Cur, Put(dst, d, FourBytes(Cur.lits)), d + Len(Cur.lits))

\* The careful loop wants four bytes for tag 3, then the extra length bytes,
\* then the literals.
TailOp ==
  LET wants == IF Cur.tag = "fused2" THEN 4 ELSE HeadBytes(Cur)
      n     == Len(Cur.lits)
  IN  /\ status = "run" /\ S >= SrcLen - Margin /\ S < SrcLen
      /\ IF S + wants > SrcLen THEN Stop("corrupt")
         ELSE IF Cur.tag = "literal" THEN DoLiteral(Cur)
         ELSE IF n > given.size - d \/ S + HeadBytes(Cur) + n > SrcLen THEN Stop("corrupt")
         ELSE DoCopy(Cur, Put(dst, d, Cur.lits), d + n)

Finish ==
  /\ status = "run" /\ S >= SrcLen
  /\ Stop(IF d = given.size THEN "ok" ELSE "corrupt")

DecodeNext == FastOp \/ TailOp \/ Finish

DecodeStart(ops, cut, size) ==
  /\ given' = [ops |-> ops, cut |-> cut, size |-> size]
  /\ status' = "run" /\ dst' = [i \in 1..size |-> "?"]
  /\ UNCHANGED <<done, d, offset>>

DecodeInit ==
  /\ given = [ops |-> <<>>, cut |-> 0, size |-> 0] /\ status = "idle"
  /\ done = 0 /\ d = 0 /\ dst = <<>> /\ offset = 1
=============================================================================
