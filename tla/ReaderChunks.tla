---------------------------- MODULE ReaderChunks ----------------------------
(***************************************************************************)
(* What Reader (reader.go) makes of one chunk of a stream before its data   *)
(* are decoded.  A chunk is [kind, n, len, bad]: n is the decoded size of a *)
(* block, the block size an identifier announces or the total of an EOF     *)
(* marker (NoTotal when it has none); len is the size of the body; bad says *)
(* what is wrong with it: "no", "body" (it does not decode) or "crc".  A    *)
(* stream that ends inside a chunk ends with a chunk of kind "cut".  Sizes  *)
(* are in units large against the bytes a chunk adds to its data.           *)
(***************************************************************************)
EXTENDS Integers, Sequences, FiniteSetsExt, SequencesExt

CONSTANTS
  MaxBlockOrg,     \* maxBlockOrg, from ReaderMaxBlockSize
  MaxSnappyBlock,  \* maxSnappyBlockSize
  MaxS2Block,      \* maxS2BlockSize
  AllowFallback,   \* ReaderFallback
  IgnoreStreamID,  \* ReaderIgnoreStreamIdentifier
  IgnoreCRC        \* ReaderIgnoreCRC

ASSUME ReaderAssumption ==
  /\ MaxBlockOrg \in Nat \ {0}
  /\ MaxSnappyBlock \in Nat \ {0} /\ MaxS2Block \in Nat \ {0}
  /\ AllowFallback \in BOOLEAN
  /\ IgnoreStreamID \in BOOLEAN
  /\ IgnoreCRC \in BOOLEAN

NoTotal == -1

MinLZKinds == {"comp", "compCRC"}
DataKinds  == MinLZKinds \cup {"legacy", "raw"}
IdKinds    == {"idMinLZ", "idS2", "idSnappy", "idOther"}

ChunkKinds == DataKinds \cup IdKinds \cup {"eof", "reserved", "skip", "userstop", "cut"}

\* Only an EOF marker may be without a size.
Chunks == {c \in [kind : ChunkKinds, n : Nat \cup {NoTotal}, len : Nat, bad : {"no", "body", "crc"}] :
             c.n = NoTotal => c.kind = "eof"}

Chunk(kind, n, len, bad) == [kind |-> kind, n |-> n, len |-> len, bad |-> bad]

\* The Reader's view of the stream it is in: readHeader, wantEOF, maxBlock,
\* maxBufSize and snappyFrame.
NewHeader ==
  [header |-> IgnoreStreamID, wantEOF |-> FALSE, maxBlock |-> MaxBlockOrg,
   maxBuf |-> MaxBlockOrg, snappy |-> FALSE]

\* A data or reserved chunk where an identifier has to come.
Unheaded(h, c) == ~h.header /\ c.kind \in DataKinds \cup {"reserved"}

\* The identifier of a MinLZ stream announces its block size; the others leave
\* maxBufSize and wantEOF as they were.
Identified(h, c) ==
  IF c.kind = "idMinLZ"
  THEN [header |-> TRUE, wantEOF |-> TRUE, maxBlock |-> c.n, maxBuf |-> c.n, snappy |-> FALSE]
  ELSE [h EXCEPT !.header = TRUE, !.maxBlock = MaxBlockOrg, !.snappy = (c.kind = "idSnappy")]

IdRefusal(c) ==
  CASE c.kind = "idMinLZ" /\ c.bad # "no" -> "corrupt"
    [] c.kind = "idMinLZ" /\ c.n > MaxBlockOrg -> "toolarge"
    [] c.kind # "idMinLZ" /\ (~AllowFallback \/ c.kind = "idOther") -> "unsupported"
    [] OTHER -> "none"

\* Checks made on the chunk's length alone ...
EarlyRefusal(h, c) ==
  CASE c.kind = "legacy" /\ ~AllowFallback -> "unsupported"
    [] c.len > h.maxBuf -> "corrupt"
    [] OTHER -> "none"

\* ... and those on the decoded size, once the body is read.
LateRefusal(h, c) ==
  CASE c.kind \notin MinLZKinds /\ h.snappy /\ c.n > MaxSnappyBlock -> "corrupt"
    [] c.n > h.maxBlock -> "toolarge"
    [] c.kind \in MinLZKinds /\ (c.n = 0 \/ c.n < c.len) -> "corrupt"
    [] OTHER -> "none"

\* The EOF marker's total is not what the Reader counted.
TotalRefused(c, counted) ==
  ~IgnoreStreamID /\ (c.bad # "no" \/ c.n \notin {NoTotal, counted})

\* After the marker another identifier, or the end, may follow.
AfterEOF(h) == [h EXCEPT !.wantEOF = FALSE, !.header = FALSE]

\* Chunks no Reader goes past ("userstop" is also a chunk whose callback fails).
Refused(c) ==
  CASE c.kind = "cut" -> "corrupt"
    [] c.kind = "reserved" -> "unsupported"
    [] c.kind = "userstop" -> "unskippable"
    [] OTHER -> "none"
-----------------------------------------------------------------------------
(* What the format calls a stream (SPEC.md) *)

\* The decoded size of a chunk, of the first k chunks, and of all.
UnitsOf(c) == IF c.kind \in DataKinds THEN c.n ELSE 0
Totals(s) ==
  LET sum[k \in 0 .. Len(s)] == IF k = 0 THEN 0 ELSE sum[k - 1] + UnitsOf(s[k]) IN sum
TotalOf(s) == Totals(s)[Len(s)]

\* One chunk further: "between" streams, in one of "minlz" or "s2" blocks, or
\* "wrong"; max and sum are the block size and the total of the stream so far.
ValidStep(acc, c) ==
  LET Is(in, max, sum) == [in |-> in, max |-> max, sum |-> sum]
  IN  IF c.kind = "skip" THEN acc
      ELSE IF c.bad # "no" THEN Is("wrong", 0, 0)
      ELSE CASE
           c.kind = "idMinLZ" /\ acc.in \in {"between", "s2"} /\ c.n <= MaxBlockOrg -> Is("minlz", c.n, 0)
        [] c.kind = "idS2" /\ acc.in \in {"between", "s2"} /\ AllowFallback -> Is("s2", MaxS2Block, 0)
        [] c.kind = "eof" /\ acc.in = "minlz" /\ c.n \in {NoTotal, acc.sum} -> Is("between", 0, 0)
        [] \/ acc.in = "minlz" /\ c.kind \in MinLZKinds \cup {"raw"}
           \/ acc.in = "s2" /\ c.kind \in {"legacy", "raw"} /\ c.n <= MaxBlockOrg ->
             IF c.n <= acc.max /\ c.len <= acc.max /\ (c.kind \in MinLZKinds => 0 < c.n /\ c.len <= c.n)
             THEN Is(acc.in, acc.max, acc.sum + c.n) ELSE Is("wrong", 0, 0)
        [] OTHER -> Is("wrong", 0, 0)

\* MinLZ streams, each with its EOF marker, and S2 streams one after the other.
ValidStates(s) ==
  LET acc[k \in 0 .. Len(s)] ==
        IF k = 0 THEN [in |-> "between", max |-> 0, sum |-> 0] ELSE ValidStep(acc[k - 1], s[k])
  IN  acc
Valid(s) == ValidStates(s)[Len(s)].in \in {"between", "s2"}
=============================================================================
