------------------------- MODULE ReferenceEncoder --------------------------
(***************************************************************************)
(* The reference encoder (internal/reference/encoder.go): one hash table,  *)
(* every position looked up and entered, emit functions of its own.  It    *)
(* shares the variables of the other encoders, with "reference" as level.  *)
(* The table has the last position with the hash of s, which is the last   *)
(* one with the same four bytes unless another one has taken its place.    *)
(***************************************************************************)
EXTENDS BlockEncoder

(* Emitting.                                                               *)

\* One, two or three bytes of rest behind the codes from first on.
Extended(first, rest) ==
  IF rest < Room1 THEN [code |-> first, ext |-> rest]
  ELSE IF rest < Room2 THEN [code |-> first + 1, ext |-> rest]
  ELSE [code |-> first + 2, ext |-> rest % Room3]

RefEmitLiterals(lits) ==
  LET n == Len(lits)
  IN  IF n = 0 THEN <<>>
      ELSE <<Op("literal", IF n <= LitInline THEN [code |-> n - 1, ext |-> 0]
                           ELSE Extended(LitInline, n - (LitInline + 1)), 0, lits)>>

RefEmitRepeat(length) ==
  <<Op("repeat", IF length - 1 < LitInline THEN [code |-> length - 1, ext |-> 0]
                 ELSE Extended(LitInline, length - 1 - LitInline), 0, <<>>)>>

RefEmitCopy1(off, length) ==
  LET Copy1(c, ext) == <<Op("copy1", [code |-> c, ext |-> ext], off - 1, <<>>)>>
  IN  IF length <= Copy1Max THEN Copy1(length - MinMatch, 0)
      ELSE IF length <= Copy1Max + Room1 - 1 THEN Copy1(Copy1Inline, length - Copy1Max)
      ELSE Copy1(Copy1Inline - 1, 0) \o RefEmitRepeat(length - Copy1Max)

RefCopyField(length) ==
  LET more == length - MinMatch
  IN  IF more <= CopyInline THEN [code |-> more, ext |-> 0]
      ELSE Extended(CopyInline + 1, more - CopyInline)

RefEmitCopy2(off, length) ==
  <<Op("copy2", RefCopyField(length), (off - MinCopy2Offset) % Copy2Offsets, <<>>)>>

RefEmitCopy3(off, length, lits) ==
  <<Op("copy3", RefCopyField(length), (off - MinCopy3Offset) % Copy3Offsets, lits)>>

RefEmitCopyLits2(lits, off, length) ==
  LET more == length - MinMatch
      Fused(c) == <<Op("fused2", [code |-> c, ext |-> 0],
                          (off - MinCopy2Offset) % Copy2Offsets, lits)>>
  IN  IF more > FusedInline THEN Fused(FusedInline) \o RefEmitRepeat(more - FusedInline)
      ELSE Fused(more)

RefCanFuse(lits, off) ==
  /\ lits # <<>> /\ off >= MinCopy2Offset
  /\ \/ Len(lits) <= MaxCopy3Lits
     \/ off <= MaxCopy2Offset /\ Len(lits) <= MaxCopy2Lits

RefEmitMatch(lits, off, length) ==
  IF RefCanFuse(lits, off)
  THEN IF off <= MaxCopy2Offset THEN RefEmitCopyLits2(lits, off, length)
       ELSE RefEmitCopy3(off, length, lits)
  ELSE RefEmitLiterals(lits) \o
       (IF off = repeat THEN RefEmitRepeat(length)
        ELSE IF off <= MaxCopy1Offset THEN RefEmitCopy1(off, length)
        ELSE IF off <= MaxCopy2Offset THEN RefEmitCopy2(off, length)
        ELSE RefEmitCopy3(off, length, <<>>))

----------------------------------------------------------------------------
(* Searching.                                                              *)

RefSLimit == Size - 4
RefDstLimit == Size - 11

\* Blocks of up to 16 bytes are stored as they are.
RefStart ==
  /\ pc = "start"
  /\ IF Size <= 16 THEN Bail
     ELSE /\ pc' = "search" /\ s' = 1
          /\ UNCHANGED <<src, level, nextEmit, repeat, top, code>>

RefMiss ==
  /\ pc = "search" /\ s <= RefSLimit
  /\ s' = s + 1 /\ top' = s
  /\ UNCHANGED <<src, level, pc, nextEmit, repeat, code>>

\* The positions a match has passed are entered, up to its end.
RefMatch ==
  /\ pc = "search" /\ s <= RefSLimit
  /\ \E c \in {Max({q \in -1..top : q = -1 \/ Same(s, q, MinMatch)})} :
       /\ c >= 0 /\ c >= s - MaxCopy3Offset
       /\ LET lits == Slice(nextEmit, s)
              end  == MatchEnd(s, s - c)
              ops  == RefEmitMatch(lits, s - c, end - s)
          IN  IF \/ /\ lits # <<>> /\ ~RefCanFuse(lits, s - c)
                    /\ CodeBytes(code) + Len(lits) > RefDstLimit
                 \/ end <= RefSLimit /\ CodeBytes(code \o ops) > RefDstLimit
              THEN Bail
              ELSE Advance(ops, s - c, end, end - 1, IF end > RefSLimit THEN "rest" ELSE "search")

RefSearchEnd ==
  /\ pc = "search" /\ s > RefSLimit
  /\ pc' = "rest"
  /\ UNCHANGED <<src, level, s, nextEmit, repeat, top, code>>

RefRemainder ==
  /\ pc = "rest"
  /\ IF nextEmit < Size /\ CodeBytes(code) + Size - nextEmit > RefDstLimit THEN Bail
     ELSE Return("coded", code \o RefEmitLiterals(Slice(nextEmit, Size)))

ReferenceNext == RefStart \/ RefMiss \/ RefMatch \/ RefSearchEnd \/ RefRemainder
=============================================================================
