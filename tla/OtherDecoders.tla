--------------------------- MODULE OtherDecoders ---------------------------
(***************************************************************************)
(* Two more decoders of a block, each one loop over its operations that    *)
(* checks every read: the reference decoder (internal/reference/decoder.go)*)
(* and the one of mz d -block-debug (cmd/mz/decompress.go).  They are      *)
(* functions of the input [ops, cut, size], the one of BlockDecoder.       *)
(***************************************************************************)
EXTENDS BlockDecoder

\* The state of the loop: s, the offset, the output; ok until something is corrupt.
LoopStart == [ok |-> TRUE, s |-> 0, off |-> 1, out |-> <<>>]

\* wants: the bytes read before the literals of a copy are looked at.
LoopStep(m, op, wants, in) ==
  LET left == CodeBytes(in.ops) - in.cut - m.s
      room == in.size - Len(m.out)
      length == ReadLength(op)
      lits == m.out \o op.lits
      off  == IF op.tag \in {"literal", "repeat"} THEN m.off ELSE ReadOffset(op)
      next == [ok |-> TRUE, s |-> m.s + OpBytes(op), off |-> off,
               out |-> IF IsCopy(op) THEN lits \o Copied(lits, off, length) ELSE lits]
      ok == /\ m.ok /\ wants <= left
            /\ OpBytes(op) <= left /\ Len(op.lits) <= room
            /\ IsCopy(op) => off <= Len(lits) /\ length <= room - Len(op.lits)
  IN  IF ok THEN next ELSE [m EXCEPT !.ok = FALSE]

\* Faulty: the size is not compared at the end.
LoopEndAnySize(m, in) == [ok |-> m.ok, out |-> m.out]

LoopEnd(m, in) == [ok |-> m.ok /\ Len(m.out) = in.size, out |-> m.out]

\* The loop over all operations, with what is wanted for each.
Loop(in, wants) ==
  LET after[k \in 0..Len(in.ops)] ==
        IF k = 0 THEN LoopStart ELSE LoopStep(after[k - 1], in.ops[k], wants[k], in)
  IN  LoopEnd(after[Len(in.ops)], in)

\* A block longer than what it decodes to is refused, as in isMinLZ.
ReferenceDecode(in) ==
  IF in.size < CodeBytes(in.ops) - in.cut THEN [ok |-> FALSE, out |-> <<>>]
  ELSE Loop(in, [k \in DOMAIN in.ops |-> HeadBytes(in.ops[k])])

\* Four bytes are read for every tag 3.
DebugWants(op) == IF op.tag = "fused2" THEN 4 ELSE HeadBytes(op)

DebugDecode(in) == Loop(in, [k \in DOMAIN in.ops |-> DebugWants(in.ops[k])])
=============================================================================
