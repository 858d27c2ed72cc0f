--------------------------- MODULE MCBlockCodec ----------------------------
(***************************************************************************)
(* Short blocks.  With the scaled widths of the configurations a block of  *)
(* 16 symbols still has the 64K encoders and one of 30 has every offset    *)
(* class; lengths meet every class but the longest.                        *)
(***************************************************************************)
EXTENDS BlockCodec

MCBytes == {"a", "b", "c", "d", "e", "f", "g", "h", "i", "j", "k", "l", "m", "n"}

Words == {<<"a", "a", "a", "a", "a", "a", "a", "a">>, <<"a", "b", "c", "d">>, <<"e", "f", "g", "h", "i">>,
          <<"b", "c", "d", "e">>}

\* The sources of n words with a length of lens.
Concats(n, lens) ==
  {w \in {FlattenSeq(ws) : ws \in [1..n -> Words]} : Len(w) \in lens}

\* The first level stays below the length where it can take an offset that is
\* too large (see MCFarSources).
MCSources ==
  LET short == UNION {Concats(n, {15, 16, 20, 26, 28, 29, 30}) : n \in 2..6}
      long  == UNION {Concats(n, {31, 32, 33}) : n \in 4..7}
      ref   == UNION {Concats(n, {16, 17, 20, 26, 28, 30}) : n \in 2..6}
  IN  [l \in Levels \cup {"reference"} |->
         IF l = "reference" THEN ref ELSE IF l = "fast" THEN short ELSE short \cup long]

\* Blocks of the first level that are long enough for such an offset.
MCFarSources == [l \in {"fast"} |-> UNION {Concats(n, {33, 34}) : n \in 4..8}]
MCNoInputs == {}

\* A block of the smallest level: four times nineteen different symbols, the last one
\* four times, which is taken as a repeat of three; then as many, and eleven of them again.
MCNumbers == 1..118
MCRepeatSources ==
  LET Symbol(i) == IF i > 107 THEN i - 15
                   ELSE IF i <= 88 /\ (i - 1) % 22 > 18 THEN 22 * ((i - 1) \div 22) + 19 ELSE i
  IN  [l \in {"best"} |-> {[i \in MCNumbers |-> Symbol(i)]}]

\* No bytes, and LZ4 blocks of up to two sequences and a last one, whole or broken off, with
\* offsets of every class and a destination that may be too small.
MCLz4Inputs ==
  LET literals == {<<>>, <<"a", "b">>, <<"a", "b", "c", "d", "e", "f", "g">>}
      pairs == [lits : literals, off : {0, 1, 3, 7, 15}, ml : {4, 14}]
      ends == {[lits |-> l, off |-> 1, ml |-> m] : l \in literals, m \in {4, 8}}
      lists == UNION {{Append(qs, last) : qs \in [1..n -> pairs], last \in ends} : n \in 0..2}
  IN  {[seqs |-> <<>>, cut |-> 0, room |-> 16]} \cup
      {[seqs |-> qs, cut |-> cut, room |-> room] :
         <<qs, cut, room>> \in {x \in lists \X (0..3) \X {16, 60} :
                                x[2] < SeqBytes(x[1][Len(x[1])])}}

\* Operations of every form and length class, and all inputs of up to three of
\* them; the sizes announced lie around what they decode to, and up to two
\* bytes of the last one are missing.
Letters == <<"a", "b", "c", "d", "e", "f", "g", "h", "i", "j", "k", "l", "m", "n">>
MCOps ==
  LET First(n) == SubSeq(Letters, 1, n)
  IN  UNION {ToSet(ops) : ops \in
        {EmitLiteral(First(n)) : n \in {1, 5, 14}} \cup {EmitRepeat(n) : n \in {1, 7}} \cup
        {EmitCopy(1, 4), EmitCopy(5, 9), EmitCopy(6, 5), EmitCopy(7, 25), EmitCopy(19, 4),
         EmitCopyLits2(First(1), 3, 4), EmitCopyLits2(First(4), 4, 8),
         EmitCopyLits3(First(2), 19, 24)}}

MCInputs ==
  LET Decoded(ops) == FoldLeft(LAMBDA sum, op : sum + ReadLength(op)
                                 + (IF op.tag = "literal" THEN 0 ELSE Len(op.lits)), 0, ops)
      lists == UNION {[1..n -> MCOps] : n \in 1..3}
  IN  {[ops |-> ops, cut |-> cut, size |-> Max({0, Decoded(ops) + more})] :
         <<ops, cut, more>> \in {x \in lists \X (0..2) \X {-5, -2, -1, 0, 1} :
                                 x[2] < OpBytes(x[1][Len(x[1])])}}
=============================================================================
