---------------------------- MODULE BlockFormat ----------------------------
(***************************************************************************)
(* The operations a MinLZ block is made of, as the encoders emit them      *)
(* (asm_none.go, encode.go) and the decoder reads them (decode.go).  An    *)
(* operation is                                                            *)
(*    [tag, code, ext, off, lits]                                          *)
(* the tag, the length field of its tag byte, the value of the extra       *)
(* length bytes, the biased offset field and the literal bytes it carries. *)
(* Fields have the width of the format: what does not fit is cut off.      *)
(* The widths and biases are CONSTANTS, so that every length and offset    *)
(* class can be met with short blocks.                                     *)
(***************************************************************************)
EXTENDS Integers, Sequences, SequencesExt

CONSTANTS
  LitInline,       \* 29: literal and repeat lengths 1 .. 29 are in the tag byte
  Copy1Inline,     \* 15: the code of a copy1 with an extra length byte
  CopyInline,      \* 60: the last length code of copy2 and copy3 without one
  FusedInline,     \* 7: copy2LitMaxLen - 4, the last length code of a fused copy2
  Room1, Room2, Room3, \* 2^8, 2^16, 2^24: what one, two and three bytes hold
  MaxCopy1Offset,  \* 1024
  MinCopy2Offset,  \* 64
  Copy2Offsets,    \* 65536: what the offset field of a copy2 holds
  MinCopy3Offset,  \* 65536
  Copy3Offsets,    \* 2^21: what the offset field of a copy3 holds
  MaxCopy2Lits,    \* 4
  MaxCopy3Lits     \* 3

ASSUME LengthAssumption ==
  /\ {LitInline, Copy1Inline, CopyInline, FusedInline} \subseteq Nat \ {0}
  /\ {Room1, Room2, Room3} \subseteq Nat
  /\ 0 < Room1 /\ Room1 < Room2 /\ Room2 < Room3

ASSUME OffsetAssumption ==
  /\ {MaxCopy1Offset, MinCopy2Offset, MinCopy3Offset} \subseteq Nat \ {0}
  /\ {Copy2Offsets, Copy3Offsets} \subseteq Nat \ {0}
  /\ MaxCopy3Lits \in 1..3 /\ MaxCopy2Lits \in MaxCopy3Lits..4
  /\ MinCopy2Offset <= MaxCopy1Offset
  /\ MaxCopy1Offset < MinCopy2Offset + Copy2Offsets
  /\ MinCopy3Offset <= MinCopy2Offset + Copy2Offsets
  /\ Copy2Offsets <= MinCopy3Offset

MaxCopy2Offset == MinCopy2Offset + Copy2Offsets - 1
MaxCopy3Offset == MinCopy3Offset + Copy3Offsets - 1
Copy2LitMaxLen == FusedInline + 4
Copy1Max == Copy1Inline + 3     \* 18, the longest copy1 of two bytes
MinMatch == 4

Tags == {"literal", "repeat", "copy1", "copy2", "fused2", "copy3"}

----------------------------------------------------------------------------
(* Emitting.                                                               *)

\* A length field: values below inline as they are, larger ones in one, two or
\* three bytes after it, less base.
LengthField(v, inline, base) ==
  LET rest == v - base
  IN  IF v < inline THEN [code |-> v, ext |-> 0]
      ELSE IF rest < Room1 THEN [code |-> inline, ext |-> rest]
      ELSE IF rest < Room2 THEN [code |-> inline + 1, ext |-> rest]
      ELSE [code |-> inline + 2, ext |-> rest % Room3]

Op(tag, field, off, lits) ==
  [tag |-> tag, code |-> field.code, ext |-> field.ext, off |-> off, lits |-> lits]

LitField(length) == LengthField(length - 1, LitInline, LitInline)
CopyField(length) == LengthField(length - MinMatch, CopyInline + 1, CopyInline)

EmitLiteral(lits) ==
  IF lits = <<>> THEN <<>> ELSE <<Op("literal", LitField(Len(lits)), 0, lits)>>

EmitRepeat(length) == <<Op("repeat", LitField(length), 0, <<>>)>>

EncodeCopy2(off, length) ==
  <<Op("copy2", CopyField(length), (off - MinCopy2Offset) % Copy2Offsets, <<>>)>>

\* The offset is shifted into the upper bits of a word: higher bits are lost.
EncodeCopy3(off, length, lits) ==
  <<Op("copy3", CopyField(length), (off - MinCopy3Offset) % Copy3Offsets, lits)>>

EmitCopy(off, length) ==
  IF off > MaxCopy2Offset THEN EncodeCopy3(off, length, <<>>)
  ELSE IF off > MaxCopy1Offset THEN EncodeCopy2(off, length)
  ELSE IF length < Room1 + Copy1Max
  THEN <<Op("copy1", LengthField(length - MinMatch, Copy1Inline, Copy1Inline - 1), off - 1, <<>>)>>
  ELSE <<Op("copy1", [code |-> Copy1Inline - 1, ext |-> 0], off - 1, <<>>)>>
         \o EmitRepeat(length - Copy1Max)

EmitCopyLits2(lits, off, length) ==
  LET Fused(code) == <<Op("fused2", [code |-> code, ext |-> 0],
                          (off - MinCopy2Offset) % Copy2Offsets, lits)>>
  IN  IF length > Copy2LitMaxLen
      THEN Fused(FusedInline) \o EmitRepeat(length - Copy2LitMaxLen)
      ELSE Fused(length - MinMatch)

EmitCopyLits3(lits, off, length) == EncodeCopy3(off, length, lits)

----------------------------------------------------------------------------
(* Reading.                                                                *)

\* Where the length field of a tag ends, and the length that code 0 stands for.
Inline(tag) ==
  IF tag \in {"literal", "repeat"} THEN LitInline
  ELSE IF tag = "copy1" THEN Copy1Inline ELSE CopyInline + 1

ReadLength(op) ==
  IF op.tag \in {"literal", "repeat"}
  THEN IF op.code < LitInline THEN op.code + 1 ELSE op.ext + LitInline + 1
  ELSE IF op.tag = "copy1"
  THEN IF op.code < Copy1Inline THEN op.code + MinMatch ELSE op.ext + Copy1Max
  ELSE IF op.tag = "fused2" \/ op.code <= CopyInline THEN op.code + MinMatch
  ELSE op.ext + CopyInline + MinMatch

ReadOffset(op) ==
  IF op.tag = "copy1" THEN op.off + 1
  ELSE IF op.tag = "copy3" THEN op.off + MinCopy3Offset
  ELSE op.off + MinCopy2Offset

\* The bytes of an operation in front of its literals, and in all.
ExtraBytes(op) ==
  IF op.tag = "fused2" \/ op.code < Inline(op.tag) THEN 0
  ELSE op.code - Inline(op.tag) + 1

HeadBytes(op) ==
  ExtraBytes(op) + CASE op.tag \in {"literal", "repeat"} -> 1
                     [] op.tag = "copy1" -> 2
                     [] op.tag \in {"copy2", "fused2"} -> 3
                     [] op.tag = "copy3" -> 4

OpBytes(op) == HeadBytes(op) + Len(op.lits)

CodeBytes(ops) ==
  LET sum[k \in 0..Len(ops)] == IF k = 0 THEN 0 ELSE sum[k - 1] + OpBytes(ops[k])
  IN  sum[Len(ops)]

----------------------------------------------------------------------------
(* The sizes the encoder of the smallest level compares matches by.        *)

EmitLiteralSizeN(n) ==
  IF n = 0 THEN 0
  ELSE IF n <= LitInline THEN 1
  ELSE IF n < LitInline + Room1 THEN 2
  ELSE IF n < LitInline + Room2 THEN 3 ELSE 4

EmitRepeatSize(length) ==
  IF length <= 0 THEN 0
  ELSE IF length <= LitInline THEN 1
  ELSE IF length - LitInline <= Room1 THEN 2
  ELSE IF length - LitInline <= Room2 THEN 3 ELSE 4

EmitCopy2Size(length) ==
  LET rest == length - MinMatch - CopyInline
  IN  IF rest <= 0 THEN 3
      ELSE IF rest < Room1 THEN 4
      ELSE IF rest < Room2 THEN 5 ELSE 6

EmitCopySize(off, length) ==
  LET rest == length - MinMatch - CopyInline
  IN  IF off > MaxCopy2Offset
      THEN IF rest <= 0 THEN 4
           ELSE 4 + (IF rest < Room1 THEN 1 ELSE IF rest < Room2 THEN 2 ELSE 3)
      ELSE IF off > MaxCopy1Offset THEN EmitCopy2Size(length)
      ELSE IF length <= Copy1Max THEN 2
      ELSE IF length < Copy1Max + Room1 THEN 3
      ELSE 2 + EmitRepeatSize(length - Copy1Max)
=============================================================================
