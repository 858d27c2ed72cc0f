---------------------------- MODULE BlockCodec -----------------------------
(***************************************************************************)
(* Encode, by each of the encoders, followed by Decode of what it returned, *)
(* Decode of any input, and Decode of what an LZ4 block is converted to.   *)
(* A block the encoder gives up on is stored as it is (encodeUncompressed) *)
(* and decoded by appending it.                                            *)
(***************************************************************************)
EXTENDS ReferenceEncoder, OtherDecoders, Lz4Convert

CONSTANTS
  Bytes,           \* what a byte can be
  Sources,         \* the blocks to encode, for each level
  Inputs,          \* operations to decode: [ops, cut, size]
  Lz4Inputs        \* LZ4 blocks to convert: [seqs, cut, room]

\* What a block can hold, as it is written: a literal and a fused copy have
\* literals, and no length has more than three bytes of its own.
Operations ==
  {op \in [tag : Tags, code : Nat, ext : Nat, off : Nat, lits : Seq(Bytes)] :
     /\ op.code <= IF op.tag = "fused2" THEN FusedInline ELSE Inline(op.tag) + 2
     /\ op.tag = "literal" => Len(op.lits) = ReadLength(op)
     /\ op.tag = "fused2" => Len(op.lits) \in 1..MaxCopy2Lits
     /\ op.tag = "copy3" => Len(op.lits) \in 0..MaxCopy3Lits
     /\ op.tag \in {"repeat", "copy1", "copy2"} => op.lits = <<>>}

\* What an LZ4 block can hold: a match has a length of at least four.
Lz4Sequences ==
  {q \in [lits : Seq(Bytes), off : Nat, ml : Nat] : Len(q.lits) <= Room3 /\ q.ml >= MinMatch}

\* A block has at most 8 MB, and what is cut off an input is part of the last
\* operation.
ASSUME CodecAssumption ==
  /\ DOMAIN Sources \subseteq Levels \cup {"reference"}
  /\ \A l \in DOMAIN Sources : \A w \in Sources[l] : w \in Seq(Bytes) /\ Len(w) <= Room3
  /\ \A in \in Inputs :
       /\ in.ops \in Seq(Operations) /\ in.ops # <<>>
       /\ in.cut \in Nat /\ in.cut < OpBytes(in.ops[Len(in.ops)]) /\ in.size \in Nat
  /\ \A in \in Lz4Inputs : in.seqs \in Seq(Lz4Sequences)

VARIABLE lz4       \* the LZ4 block and what ConvertBlock made of it

vars == <<encoderVars, decoderVars, lz4>>

\* isMinLZ refuses a block longer than what it decodes to.
DecodeCoded ==
  /\ pc = "coded" /\ status = "idle"
  /\ IF Size < CodeBytes(code) THEN Stop("corrupt") ELSE DecodeStart(code, 0, Size)
  /\ UNCHANGED <<encoderVars, lz4>>

\* isMinLZ reports a block of literals; Decode appends them.
DecodeRaw ==
  /\ pc = "raw" /\ status = "idle"
  /\ status' = "ok" /\ dst' = src
  /\ UNCHANGED <<given, done, d, offset, encoderVars, lz4>>

DecodeGiven ==
  /\ pc = "given" /\ status = "idle"
  /\ \E in \in Inputs : DecodeStart(in.ops, in.cut, in.size)
  /\ UNCHANGED <<encoderVars, lz4>>

\* The size returned goes into the header of the block.
ConvertGiven ==
  /\ pc = "given" /\ status = "idle"
  /\ \E in \in Lz4Inputs :
       LET res == ConvertBlock(in)
       IN  /\ lz4' = [in |-> in, res |-> res]
           /\ IF res.st = "done" THEN DecodeStart(res.code, 0, res.size) ELSE Stop("refused")
  /\ pc' = "lz4"
  /\ UNCHANGED <<src, level, s, nextEmit, repeat, top, code>>

Init ==
  /\ DecodeInit /\ lz4 = <<>>
  /\ \/ EncodeInit(Sources)
     \/ /\ src = <<>> /\ level = "fast" /\ pc = "given" /\ code = <<>>
        /\ s = 0 /\ nextEmit = 0 /\ repeat = 1 /\ top = 0

Next ==
  \/ level # "reference" /\ EncodeNext /\ UNCHANGED <<decoderVars, lz4>>
  \/ level = "reference" /\ ReferenceNext /\ UNCHANGED <<decoderVars, lz4>>
  \/ DecodeCoded \/ DecodeRaw \/ DecodeGiven \/ ConvertGiven
  \/ DecodeNext /\ UNCHANGED <<encoderVars, lz4>>

Spec == Init /\ [][Next]_vars

----------------------------------------------------------------------------
(* Properties.                                                             *)

\* Encode and Decode: whatever matches the encoder takes or misses, the block
\* it returns decodes to the source (the contract of Encode and Decode).
RoundTrip ==
  pc \in {"coded", "raw"} /\ status \notin {"idle", "run"} => status = "ok" /\ dst = src

\* The bytes of the length in front of a block.
VarintBytes(n) == IF n < 128 THEN 1 ELSE IF n < 16384 THEN 2 ELSE IF n < 2097152 THEN 3 ELSE 4

\* encodeBlock "assumes that len(dst) >= MaxEncodedLen(len(src))"
\* (asm_none.go:32) and is given less: what the Writer has in obuf is as long as src,
\* the length of the block in front included (writer.go:384-401).  At no moment, also
\* between the checks against dstLimit, are there more bytes in it; and isMinLZ
\* refuses no block for its length.
FitsDst ==
  code # <<>> =>
    CodeBytes(code) + (IF level = "reference" THEN 0 ELSE VarintBytes(Size)) <= Size

\* minLZDecodeGo: the two loops, with their different checks and their wide
\* reads and writes, accept exactly the inputs that are complete and mean a
\* block of the size announced, decode them to it, and never leave a slice.
DecodeAgrees ==
  LET meant == Meaning(given.ops)
      valid == given.cut = 0 /\ meant.ok /\ Len(meant.out) = given.size
  IN  /\ status # "panic"
      /\ status = "corrupt" => ~valid
      /\ status = "ok" /\ pc # "raw" => valid /\ dst = meant.out

\* "DecodeBlock is a reference implementation of the MinLZ block decoder"
\* (internal/reference/decoder.go:24), and DecodeDebug should show what Decode
\* does: they accept the same inputs and decode them to the same bytes, also when
\* an input breaks off in an operation.  The reference decoder refuses a block longer
\* than what it decodes to itself (decoder.go:81), for Decode isMinLZ has done it.
OtherDecodersAgree ==
  status \in {"ok", "corrupt"} /\ pc # "raw" /\ given.ops # <<>> =>
    LET meant == Meaning(given.ops)
        valid == given.cut = 0 /\ meant.ok /\ Len(meant.out) = given.size
        ref == ReferenceDecode(given)
        dbg == DebugDecode(given)
    IN  /\ dbg.ok <=> valid
        /\ ref.ok <=> valid /\ given.size >= CodeBytes(given.ops)
        /\ \A r \in {dbg, ref} : r.ok /\ valid => r.out = meant.out

\* All the decoders of the repository.
DecodersAgree == DecodeAgrees /\ OtherDecodersAgree

\* "ConvertBlock will convert an LZ4 block and append it as an MinLZ block"
\* (lz4convert.go:40): what it returns decodes to what the LZ4 block means, with
\* the size returned; it refuses every input that is no LZ4 block, and no other
\* one for that; and between its two checks it never writes behind dst.
ConvertedDecodes ==
  pc = "lz4" /\ status # "run" =>
    LET meant == Lz4Meaning(lz4.in)
    IN  /\ ~lz4.res.over
        /\ lz4.res.st = "done" => meant.ok /\ status = "ok" /\ dst = meant.out
        /\ lz4.res.st = "corrupt" => ~meant.ok

\* The encoders end: every step of a search takes s forward, or nextEmit where
\* s is taken back (behind a repeat or the first part of a fused copy), and none
\* takes nextEmit back.
SearchAdvances ==
  [][pc # "start" /\ pc' \in {"search", "again"} =>
       nextEmit' > nextEmit \/ (nextEmit' = nextEmit /\ s' > s)]_encoderVars
=============================================================================
