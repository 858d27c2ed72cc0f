---------------------------- MODULE Lz4Convert -----------------------------
(***************************************************************************)
(* ConvertBlock (lz4convert.go, without assembly): an LZ4 block is turned  *)
(* into operations of a MinLZ block, sequence by sequence.  The input is   *)
(*    [seqs, cut, room]                                                    *)
(* the sequences [lits, off, ml] of the block, how many bytes are missing  *)
(* at its end, and how much dst holds.  The last sequence of an LZ4 block  *)
(* has only literals: its match length is MinMatch and its offset, the     *)
(* last two bytes, is what is cut.                                         *)
(***************************************************************************)
EXTENDS BlockDecoder

CONSTANTS
  Nibble,          \* 15: lengths from here on go on in bytes
  ByteMax,         \* 255: a byte that is followed by another one
  MaxBlockSize     \* 8 MB

ASSUME Lz4Assumption ==
  Nibble \in Nat \ {0} /\ ByteMax \in Nat \ {0} /\ MaxBlockSize \in Nat

LengthBytes(v) == IF v < Nibble THEN 0 ELSE (v - Nibble) \div ByteMax + 1
MatchBytes(q) == 2 + LengthBytes(q.ml - MinMatch)
SeqBytes(q) == 1 + LengthBytes(Len(q.lits)) + Len(q.lits) + MatchBytes(q)

Lz4Bytes(in) == FoldLeft(LAMBDA sum, q : sum + SeqBytes(q), 0, in.seqs) - in.cut

\* The loop: where it is in src, what it has decoded the length of and emitted.
ConvertStart == [st |-> "run", s |-> 0, size |-> 0, last |-> 1, code |-> <<>>, over |-> FALSE]

\* Literals go into the copy unless that is longer or impossible.
ConvertFuses(m, q) ==
  /\ q.lits # <<>> /\ Len(q.lits) <= MaxCopy2Lits
  /\ ~(q.off <= MaxCopy1Offset /\ q.ml > Copy2LitMaxLen)
  /\ q.off >= MinCopy2Offset /\ q.off # m.last

ConvertOps(m, q) ==
  IF ConvertFuses(m, q) THEN EmitCopyLits2(q.lits, q.off, q.ml)
  ELSE EmitLiteral(q.lits) \o
       (IF q.off = m.last THEN EmitRepeat(q.ml) ELSE EmitCopy(q.off, q.ml))

\* Faulty: a match at the offset of the last one is not a repeat for the next.
ConvertForgets(m, ops, q) == [m EXCEPT !.code = @ \o ops, !.size = @ + Len(q.lits) + q.ml]

Converted(m, ops, q) ==
  [m EXCEPT !.code = @ \o ops, !.size = @ + Len(q.lits) + q.ml, !.last = q.off]

\* One sequence; n bytes are there, and the limit is 10 bytes before the end of dst.
ConvertStep(m, q, in) ==
  LET n     == Lz4Bytes(in)
      limit == in.room - 10
      ll    == Len(q.lits)
      token == m.s + LengthBytes(ll)
      match == token + 1 + ll
      after == match + MatchBytes(q)
      ops   == ConvertOps(m, q)
      Fails(st) == [m EXCEPT !.st = st]
      Emits(next) == [next EXCEPT !.s = after, !.over = @ \/ CodeBytes(next.code) > in.room]
  IN  CASE m.st # "run" -> m
        [] m.st = "run" /\ m.size > MaxBlockSize -> Fails("large")
        [] m.st = "run" /\ m.size <= MaxBlockSize ->
           IF token + ll >= n THEN Fails("corrupt")
           ELSE IF ll > 0 /\ CodeBytes(m.code) + ll > limit THEN Fails("small")
           ELSE IF match = n /\ q.ml = MinMatch
           THEN IF m.size + ll > MaxBlockSize THEN Fails("large")
                ELSE Emits([m EXCEPT !.st = "done", !.size = @ + ll,
                                     !.code = @ \o EmitLiteral(q.lits)])
           ELSE IF match >= n - 2 \/ q.off \notin 1..(m.size + ll)
                   \/ (LengthBytes(q.ml - MinMatch) > 0 /\ after >= n)
           THEN Fails("corrupt")
           ELSE LET next == Emits(Converted(m, ops, q))
                IN  IF CodeBytes(next.code) > limit THEN [next EXCEPT !.st = "small"] ELSE next

\* Nothing is made of nothing; the input ends without a last sequence; or the
\* block has grown.
ConvertBlock(in) ==
  LET after[k \in 0..Len(in.seqs)] ==
        IF k = 0 THEN ConvertStart ELSE ConvertStep(after[k - 1], in.seqs[k], in)
      m == after[Len(in.seqs)]
  IN  IF in.seqs = <<>> THEN [ConvertStart EXCEPT !.st = "done"]
      ELSE IF m.st = "run" THEN [m EXCEPT !.st = "corrupt"]
      ELSE IF m.st = "done" /\ m.size < CodeBytes(m.code) THEN [m EXCEPT !.st = "incompressible"]
      ELSE m

-----------------------------------------------------------------------------
\* What an LZ4 block means, nothing when it is empty: the literals, then a copy, and at last only literals.
Lz4Meaning(in) ==
  LET final == Len(in.seqs)
      Step(m, i) ==
        LET q == in.seqs[i]
            lits == m.out \o q.lits
        IN  IF ~m.ok THEN m
            ELSE IF i = final THEN [ok |-> in.cut = 2 /\ q.ml = MinMatch, out |-> lits]
            ELSE IF q.off \notin 1..Len(lits) THEN [m EXCEPT !.ok = FALSE]
            ELSE [ok |-> TRUE, out |-> lits \o Copied(lits, q.off, q.ml)]
  IN  FoldLeft(Step, [ok |-> TRUE, out |-> <<>>], [i \in DOMAIN in.seqs |-> i])
=============================================================================
