--------------------------- MODULE BlockEncoder ----------------------------
(***************************************************************************)
(* The three block encoders: encodeBlockGo and encodeBlockGo64K ("fast"),  *)
(* encodeBlockBetterGo and its 64K form ("better"), encodeBlockBest        *)
(* ("best", without a dictionary).  Each walks src with a position s,      *)
(* looks earlier positions up in hash tables, and emits the bytes since    *)
(* nextEmit as literals and a match as a copy, or gives up ("raw") when    *)
(* the block would not become small enough.                                *)
(*                                                                         *)
(* A hash table is what it promises: a lookup may yield any position that  *)
(* has been entered, or none that matches; top is the last position        *)
(* entered.  Among the matches the smallest level finds it may take any,   *)
(* instead of the one with the best score.                                 *)
(***************************************************************************)
EXTENDS BlockFormat

CONSTANTS
  SmallBlock,      \* 65536: up to this length a block has the 64K encoders
  Saving           \* 32: a block shall shrink by one byte in so many

ASSUME EncoderAssumption ==
  SmallBlock \in Nat /\ SmallBlock <= MaxCopy3Offset /\ Saving \in Nat \ {0}

VARIABLES
  src,             \* the block, one symbol per byte
  level,           \* "fast", "better", "best"
  pc,              \* "start", "search", "again", "rest"; "coded", "raw" when done
  s,               \* the position looked at
  nextEmit,        \* where the next literals start
  repeat,          \* the offset of the last copy
  top,             \* the last position the tables have
  code             \* the operations emitted

encoderVars == <<src, level, pc, s, nextEmit, repeat, top, code>>

Levels == {"fast", "better", "best"}
InputMargin == 8
MinNonLiteralBlockSize == 16

Size == Len(src)
Wide == Size > SmallBlock
SLimit == Size - InputMargin - (IF level = "best" THEN 2 ELSE 0)
DstLimit == IF level = "best" THEN Size - 5 ELSE Size - Size \div Saving - 6

\* The step grows with the distance from the last match.
NextS ==
  LET missed == s - nextEmit
  IN  s + CASE level = "fast"   -> missed \div (IF Wide THEN 64 ELSE 32) + 4
            [] level = "better" -> missed \div 128 + 1
            [] level = "best"   -> Min({missed \div 256 + 1, 64})

Slice(from, to) == SubSeq(src, from + 1, to)
Same(p, c, length) == \A i \in 1..length : src[p + i] = src[c + i]

\* The first position from p on that differs from the one off before it.
MatchEnd(p, off) ==
  LET differ == {q \in p..(Size - 1) : src[q + 1] # src[q - off + 1]}
  IN  IF differ = {} THEN Size ELSE Min(differ)

\* The same, compared by words: less than a word at the end is not looked at.
WordEnd(p, off) ==
  LET words == IF p > Size - 8 THEN 0 ELSE (Size - 8 - p) \div 8 + 1
  IN  Min({MatchEnd(p, off), p + 8 * words})

\* The match of p with c, extended backwards as far as it has not been emitted.
MatchStart(p, c) ==
  Min({b \in Max({nextEmit, p - c})..p : Same(b, b - (p - c), p - b)})

----------------------------------------------------------------------------
(* Emitting a match: the encoders differ in when they fuse the literals    *)
(* with the copy, and in the copies the smallest level prefers.            *)

MaxLits(off) ==
  IF off > MaxCopy2Offset \/ (level = "fast" /\ Wide) THEN MaxCopy3Lits ELSE MaxCopy2Lits

Fuses(lits, off, length) ==
  /\ lits # <<>> /\ Len(lits) <= MaxLits(off)
  /\ off >= MinCopy2Offset
  /\ ~(level = "best" /\ off <= MaxCopy1Offset /\ length > Copy2LitMaxLen)

\* A copy2 decodes faster than a copy1 with an extra byte, of the same size.
PrefersCopy2(off, length) ==
  /\ level = "best"
  /\ Copy1Max < length /\ length <= CopyInline + MinMatch
  /\ MinCopy2Offset <= off /\ off <= MaxCopy2Offset

\* The smallest level leaves the rest of a long fused copy to another search.
Emitted(lits, off, length) ==
  IF level = "best" /\ Fuses(lits, off, length) /\ off <= MaxCopy2Offset
  THEN Min({length, Copy2LitMaxLen}) ELSE length

EmitMatch(lits, off, length) ==
  IF Fuses(lits, off, length)
  THEN IF off <= MaxCopy2Offset
       THEN EmitCopyLits2(lits, off, Emitted(lits, off, length))
       ELSE EmitCopyLits3(lits, off, length)
  ELSE EmitLiteral(lits) \o (IF PrefersCopy2(off, length)
                             THEN EncodeCopy2(off, length) ELSE EmitCopy(off, length))

----------------------------------------------------------------------------
(* Returning: the locals are gone.                                         *)

Return(result, ops) ==
  /\ pc' = result /\ code' = ops
  /\ s' = 0 /\ nextEmit' = 0 /\ repeat' = 1 /\ top' = 0
  /\ UNCHANGED <<src, level>>

Bail == Return("raw", <<>>)

\* Faulty: the offset of the match is not remembered for repeats.
AdvanceKeepsRepeat(ops, off, end, indexed, next) ==
  /\ code' = code \o ops
  /\ s' = end /\ nextEmit' = end /\ top' = indexed /\ pc' = next
  /\ UNCHANGED <<src, level, repeat>>

\* The operations ops take the encoder to position end; what follows a match.
Advance(ops, off, end, indexed, next) ==
  /\ code' = code \o ops
  /\ s' = end /\ nextEmit' = end /\ repeat' = off /\ top' = indexed /\ pc' = next
  /\ UNCHANGED <<src, level>>

TooSmall ==
  /\ pc = "start" /\ Size < MinNonLiteralBlockSize
  /\ Bail

Start ==
  /\ pc = "start" /\ Size >= MinNonLiteralBlockSize
  /\ pc' = "search" /\ s' = 1
  /\ UNCHANGED <<src, level, nextEmit, repeat, top, code>>

----------------------------------------------------------------------------
(* Searching.                                                              *)

Searching == pc = "search" /\ NextS <= SLimit

\* The first two encoders test for a repeat of the last offset at s + 1.
RepeatAt1 == level # "best" /\ Same(s + 1, s + 1 - repeat, MinMatch)

\* A match of p with c, extended both ways; indexed: the tables' last position.
Extend(p, c, rep, indexed) ==
  LET start == MatchStart(p, c)
  IN  [start |-> start, off |-> p - c, rep |-> rep, indexed |-> indexed,
       end |-> IF level = "fast" THEN WordEnd(start + MinMatch, p - c) ELSE MatchEnd(p, p - c)]

Hits(p, cands, length, indexed) ==
  {Extend(p, c, FALSE, indexed) : c \in {c \in cands : Same(p, c, length)}}

\* Three lookups, the last one after s and s + 1 have been entered.  The
\* distance is tested from s, wherever the match is.
FastMatches ==
  LET Reach(c) == Wide => c >= s - MaxCopy3Offset
      old == {c \in 0..top : Reach(c)}
  IN  IF RepeatAt1 THEN {}
      ELSE Hits(s, old, MinMatch, s + 1) \cup Hits(s + 1, old, MinMatch, s + 2)
             \cup Hits(s + 2, old \cup {s, s + 1}, MinMatch, s + 2)

\* A long match, a repeat, a long match of four bytes, a short match: and if
\* there is one, a long match at s + 1.
BetterMatches ==
  LET minSrcPos == s - MaxCopy3Offset + 1
      far  == {c \in 0..top : Wide => c > minSrcPos}
      near == {c \in 0..top : Wide => c >= minSrcPos}
      short == Hits(s, near, MinMatch, s + 1)
  IN  Hits(s, far, 8, s) \cup
      (IF RepeatAt1 THEN {}
       ELSE Hits(s, near, MinMatch, s) \cup short
              \cup (IF short = {} THEN {} ELSE Hits(s + 1, far \cup {s}, MinMatch, s + 1)))

\* What the smallest level gains by a match, compared with literals.
Saves(m) ==
  LET lits   == m.start - nextEmit
      length == m.end - m.start
      fused  == /\ lits > 0 /\ m.off > MaxCopy1Offset
                /\ \/ lits <= MaxCopy2Lits /\ m.off < MaxCopy2Offset /\ length <= Copy2LitMaxLen
                   \/ lits <= MaxCopy3Lits
  IN  length + (IF fused THEN 1 ELSE 0) > EmitLiteralSizeN(lits) + EmitCopySize(m.off, length)

\* Matches and repeats at s and s + 1; if there is one, more at s + 1 and s + 2
\* and those that end where one of these ends.
BestMatches ==
  LET At(p, cands) == {m \in Hits(p, {c \in cands : c < p /\ p - c < MaxCopy3Offset}, MinMatch, s) :
                         Saves(m)}
      Repeat(p) == {Extend(p, p - repeat, TRUE, s) : x \in {y \in {0} : Same(p, p - repeat, 3)}}
      first == At(s, 0..top) \cup Repeat(s) \cup Repeat(s + 1)
      more  == first \cup At(s + 1, 0..top) \cup At(s + 2, 0..top) \cup Repeat(s + 2)
      atEnd == UNION {At(m.start + 1, {t - (m.end - m.start - 2) : t \in 0..top} \ -(Size)..0) :
                        m \in {x \in more : x.end - 1 < SLimit}}
  IN  IF first = {} THEN {} ELSE more \cup atEnd

Matches ==
  CASE level = "fast"   -> FastMatches
    [] level = "better" -> BetterMatches
    [] level = "best"   -> BestMatches

SearchEnd ==
  /\ pc = "search" /\ NextS > SLimit
  /\ pc' = "rest"
  /\ UNCHANGED <<src, level, s, nextEmit, repeat, top, code>>

SearchMiss ==
  /\ Searching /\ ~RepeatAt1
  /\ level = "best" => ~(\E p \in {s, s + 1} : Same(p, p - repeat, 3))
  /\ s' = NextS
  /\ top' = IF level = "fast" THEN s + 2 ELSE s
  /\ UNCHANGED <<src, level, pc, nextEmit, repeat, code>>

\* The repeat goes out on its own, after literals.
SearchRepeat ==
  LET base == MatchStart(s + 1, s + 1 - repeat)
      end  == IF level = "fast" THEN WordEnd(s + 1 + MinMatch, repeat)
              ELSE MatchEnd(s + 1, repeat)
  IN  /\ Searching /\ RepeatAt1
      /\ IF CodeBytes(code) + base - nextEmit > DstLimit THEN Bail
         ELSE Advance(EmitLiteral(Slice(nextEmit, base)) \o EmitRepeat(end - base), repeat, end,
                      IF level = "fast" THEN s + 1 ELSE end - 1,
                      IF end >= SLimit THEN "rest" ELSE "search")

----------------------------------------------------------------------------
(* What becomes of a match.                                                *)

Lits(m) == Slice(nextEmit, m.start)
MatchLen(m) == m.end - m.start

MatchOps(m) ==
  IF m.rep THEN EmitLiteral(Lits(m)) \o EmitRepeat(MatchLen(m))
  ELSE EmitMatch(Lits(m), m.off, MatchLen(m))

\* Too little room is left.  The first level asks only if it does not fuse.
NoRoom(m) ==
  IF level = "fast"
  THEN /\ Lits(m) # <<>> /\ ~Fuses(Lits(m), m.off, MatchLen(m))
       /\ CodeBytes(code) + m.end - nextEmit > DstLimit
  ELSE CodeBytes(code) + Len(Lits(m)) > DstLimit

\* Equal to or worse than literals: the search goes on behind.
NotWorth(m) ==
  /\ MatchLen(m) <= MinMatch
  /\ \/ level = "better" /\ m.off >= MinCopy3Offset /\ m.off # repeat
     \/ /\ level = "best" /\ ~m.rep
        /\ \/ m.off >= MinCopy3Offset
           \/ m.off > MaxCopy1Offset /\ m.off <= MaxCopy2Offset /\ Len(Lits(m)) > MaxCopy2Lits

\* Faulty: the smallest level goes on where the match starts.
SkipToStart(m) ==
  LET next == IF level = "best" THEN m.start ELSE NextS + 1
  IN  /\ s' = next /\ top' = m.indexed
      /\ pc' = IF next >= SLimit THEN "rest" ELSE "search"
      /\ UNCHANGED <<src, level, nextEmit, repeat, code>>

Skip(m) ==
  LET next == IF level = "best" THEN s + 2 ELSE NextS + 1
  IN  /\ s' = next /\ top' = m.indexed
      /\ pc' = IF next >= SLimit THEN "rest" ELSE "search"
      /\ UNCHANGED <<src, level, nextEmit, repeat, code>>

Take(m) ==
  LET end == m.start + (IF m.rep THEN MatchLen(m) ELSE Emitted(Lits(m), m.off, MatchLen(m)))
  IN  IF level = "fast"
      THEN Advance(MatchOps(m), m.off, end, m.indexed, "again")
      ELSE IF end < SLimit /\ CodeBytes(code \o MatchOps(m)) > DstLimit THEN Bail
      ELSE Advance(MatchOps(m), m.off, end, Max({m.indexed, end - 1}),
                   IF end >= SLimit THEN "rest" ELSE "search")

SearchMatch ==
  /\ Searching
  /\ \E m \in Matches :
       \/ NoRoom(m) /\ Bail
       \/ ~NoRoom(m) /\ NotWorth(m) /\ Skip(m)
       \/ ~NoRoom(m) /\ ~NotWorth(m) /\ Take(m)

----------------------------------------------------------------------------
(* The first level looks for another match right behind the last one.      *)

AgainEnd ==
  /\ pc = "again" /\ s >= SLimit
  /\ pc' = "rest"
  /\ UNCHANGED <<src, level, s, nextEmit, repeat, top, code>>

AgainNoRoom ==
  /\ pc = "again" /\ s < SLimit /\ CodeBytes(code) > DstLimit
  /\ Bail

AgainMatch ==
  /\ pc = "again" /\ s < SLimit /\ CodeBytes(code) <= DstLimit
  /\ \E c \in 0..top :
       /\ Wide => s - c <= MaxCopy3Offset
       /\ Same(s, c, MinMatch)
       /\ LET end == WordEnd(s + MinMatch, s - c)
          IN  Advance(EmitCopy(s - c, end - s), s - c, end, s, "again")

AgainMiss ==
  /\ pc = "again" /\ s < SLimit /\ CodeBytes(code) <= DstLimit
  /\ s' = s + 1 /\ top' = s /\ pc' = "search"
  /\ UNCHANGED <<src, level, nextEmit, repeat, code>>

----------------------------------------------------------------------------
\* Faulty: the remainder is emitted without a look at the limit.
RestFitsAlways == TRUE

\* emitRemainder.
RestFits ==
  LET rest == Size - nextEmit
  IN  CodeBytes(code) + rest + (IF level = "best" THEN EmitLiteralSizeN(rest) ELSE 0) <= DstLimit

EmitRemainder ==
  /\ pc = "rest"
  /\ IF nextEmit < Size /\ ~RestFits THEN Bail
     ELSE Return("coded", code \o EmitLiteral(Slice(nextEmit, Size)))

EncodeNext ==
  \/ TooSmall \/ Start
  \/ SearchEnd \/ SearchMiss \/ SearchRepeat \/ SearchMatch
  \/ AgainEnd \/ AgainNoRoom \/ AgainMatch \/ AgainMiss
  \/ EmitRemainder

\* sources: the blocks given to each encoder.
EncodeInit(sources) ==
  /\ level \in DOMAIN sources /\ src \in sources[level]
  /\ pc = "start" /\ s = 0 /\ nextEmit = 0 /\ repeat = 1 /\ top = 0 /\ code = <<>>
=============================================================================
