--------------------------- MODULE StreamFormat ----------------------------
(***************************************************************************)
(* What the Writer's stream is made of, as far as its order, offsets and   *)
(* padding depend on it.  A chunk is [kind, lo, hi]: it carries the user's *)
(* bytes lo+1 .. hi (lo = hi for a chunk without data).  Sizes on the      *)
(* stream are abstract: a chunk in two pieces (header and body written     *)
(* separately) has size 2, another chunk size 1, the index one unit and    *)
(* one per entry, padding whatever brings the total to a multiple.         *)
(***************************************************************************)
EXTENDS Integers, Sequences

CONSTANTS
  SkippableHeader   \* skippableFrameHeader: the smallest padding frame

ASSUME FormatAssumption == SkippableHeader \in Nat

Kinds == {"header", "comp", "raw", "user", "eof", "pad", "index"}

DataKinds == {"comp", "raw"}

\* Bytes of a chunk whose size is fixed.
SizeOf(kind) == IF kind \in {"raw", "user"} THEN 2 ELSE 1

Chunk(kind, lo, hi) == [kind |-> kind, lo |-> lo, hi |-> hi]

\* The user's bytes a list of chunks has, and the offset the last one ends at.
DataEnd(chunks) == IF chunks = <<>> THEN 0 ELSE chunks[Len(chunks)].hi
EndOf(ends) == IF ends = <<>> THEN 0 ELSE ends[Len(ends)]

\* calcSkippableFrame: the rest of the last multiple; the loop adds as many
\* whole multiples as it takes for a frame header to fit.
CalcSkippableFrame(written, multiple) ==
  LET leftOver == written % multiple
      rest     == multiple - leftOver
      missing  == SkippableHeader - rest
  IN  IF leftOver = 0 THEN 0
      ELSE IF missing <= 0 THEN rest
      ELSE rest + multiple * ((missing + multiple - 1) \div multiple)
=============================================================================
