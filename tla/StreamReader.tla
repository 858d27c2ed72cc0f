---------------------------- MODULE StreamReader ----------------------------
(***************************************************************************)
(* Reader.Read, ReadByte, Skip, WriteTo and Reset (reader.go).  A call      *)
(* takes a chunk of the stream in each step until it has something to       *)
(* return.  The Reader holds one decoded block, of which decoded[i:j] is    *)
(* still to be passed on; blockStart is the offset of the block in its      *)
(* stream, from which positions and the total in the EOF marker are counted. *)
(***************************************************************************)
EXTENDS ReaderChunks

CONSTANTS
  Streams,   \* bound: the streams there are to read
  Others,    \* bound: the streams Reset goes on to
  Sizes      \* bound: the sizes of a Read, a Skip or a ReadAt

ASSUME StreamReaderAssumption ==
  /\ Streams \cup Others \subseteq Seq(Chunks)
  /\ Sizes \subseteq Nat

VARIABLES
  stream,  \* the chunks r.r delivers
  pos,     \* chunks read
  h,       \* the header state
  start,   \* blockStart
  i, j,    \* i, j
  dec,     \* the chunk decoded[:j] was made from; 0 is none
  err,     \* r.err
  pc,      \* the call that runs: "idle", "read", "skip", "write"; SeekReader adds "head" and "seek"
  left,    \* units to skip, or room in the caller's buffer
  want,    \* the buffer ReadAt fills once it is where it shall be; 0 in other calls
  at       \* history: the position in the data, as the user counts

block == <<start, i, j, dec>>
call  == <<left, want, at>>
vars  == <<stream, pos, h, block, err, pc, call>>

Init ==
  /\ stream \in Streams
  /\ pos = 0 /\ h = NewHeader
  /\ start = 0 /\ i = 0 /\ j = 0 /\ dec = 0
  /\ err = "none" /\ pc = "idle" /\ left = 0 /\ want = 0
  /\ at = 0

Least(a, b) == IF a < b THEN a ELSE b

-----------------------------------------------------------------------------
(* The calls *)

\* With r.err set all calls but Reset and WriteTo return it.
ReturnError == pc = "idle" /\ err # "none" /\ UNCHANGED vars

\* Read with a buffer of n; ReadByte is Read with one of 1.
Read(n) ==
  /\ pc = "idle" /\ err = "none"
  /\ pc' = "read" /\ left' = n /\ UNCHANGED want
  /\ UNCHANGED <<stream, pos, h, block, err, at>>

Skip(n) ==
  /\ pc = "idle" /\ err = "none" /\ n > 0
  /\ pc' = "skip" /\ left' = n /\ UNCHANGED want
  /\ UNCHANGED <<stream, pos, h, block, err, at>>

\* WriteTo does not look at r.err: at the end of the stream it finds the end
\* again.  (Behind another error it would go on with the next chunk.)
WriteTo ==
  /\ pc = "idle" /\ err \in {"none", "eof", "unexpectedEOF"}
  /\ pc' = "write" /\ err' = "none"
  /\ UNCHANGED <<stream, pos, h, block, call>>

\* Faulty: the header state stays.
ResetKeepsHeader(s) ==
  /\ pc = "idle"
  /\ stream' = s /\ pos' = 0 /\ err' = "none" /\ start' = 0 /\ i' = 0 /\ j' = 0 /\ at' = 0
  /\ UNCHANGED <<h, dec, pc, left, want>>

Reset(s) ==
  /\ pc = "idle"
  /\ stream' = s /\ pos' = 0 /\ h' = NewHeader /\ err' = "none"
  /\ start' = 0 /\ i' = 0 /\ j' = 0 /\ at' = 0
  /\ UNCHANGED <<dec, pc, left, want>>

-----------------------------------------------------------------------------
(* Passing on what is decoded *)

\* The call returns.
Over == pc' = "idle" /\ left' = 0 /\ want' = 0

\* Enough is skipped: ReadAt goes on to read.
Landed == IF want > 0 THEN pc' = "read" /\ left' = want /\ UNCHANGED want ELSE Over

\* Read returns what there is, ReadAt goes on until the buffer is full.
Deliver ==
  /\ pc = "read" /\ i < j
  /\ LET n == Least(left, j - i)
     IN  /\ i' = i + n /\ at' = at + n
         /\ IF want > 0 /\ n < left THEN left' = left - n /\ UNCHANGED <<pc, want>> ELSE Over
  /\ UNCHANGED <<stream, pos, h, start, j, dec, err>>

SkipDecoded ==
  /\ pc = "skip" /\ i < j
  /\ i' = i + Least(left, j - i) /\ at' = at + Least(left, j - i)
  /\ IF j - i >= left THEN Landed ELSE left' = left - (j - i) /\ UNCHANGED <<pc, want>>
  /\ UNCHANGED <<stream, pos, h, start, j, dec, err>>

\* WriteTo writes the rest of the block first; then there is no block.
WriteRest ==
  /\ pc = "write" /\ j > 0
  /\ start' = start + j /\ i' = 0 /\ j' = 0 /\ at' = at + j - i
  /\ UNCHANGED <<stream, pos, h, dec, err, pc, left, want>>

-----------------------------------------------------------------------------
(* Reading chunks *)

Wants  == (pc \in {"read", "skip", "head"} /\ i = j) \/ (pc = "write" /\ j = 0)
Taking(kinds) == Wants /\ pos < Len(stream) /\ stream[pos + 1].kind \in kinds
Cur    == stream[pos + 1]

\* The call returns an error.  What it leaves in the other fields is not used
\* again: the error stays.
Stop(e) ==
  /\ err' = e /\ Over
  /\ UNCHANGED <<stream, pos, h, block, at>>

\* Faulty: the end of the input is the end of the data.
EndOfInputAnyway ==
  /\ Wants /\ pos = Len(stream)
  /\ Stop(IF pc = "skip" THEN "unexpectedEOF" ELSE "eof")

EndOfInput ==
  /\ Wants /\ pos = Len(stream) /\ ~(pc = "write" /\ ~h.wantEOF)
  /\ Stop(CASE h.wantEOF -> "corrupt"
            [] ~h.wantEOF /\ pc = "skip" -> "unexpectedEOF"
            [] OTHER -> "eof")

\* All is written: WriteTo returns without an error and leaves none.
WriteEnd ==
  /\ Wants /\ pos = Len(stream) /\ pc = "write" /\ ~h.wantEOF
  /\ Over
  /\ UNCHANGED <<stream, pos, h, block, err, at>>

\* w fails, at any moment.
WriteFails == pc = "write" /\ Stop("io")

\* Skip has sizes and checksums of its own: those of a block it skips as a
\* whole do not matter, those of an uncompressed one only then.  (The refusal
\* of an uncompressed block above maxBlock needs one above maxBufSize here.)
SkipRefusal(c) ==
  CASE EarlyRefusal(h, c) # "none" -> EarlyRefusal(h, c)
    [] c.kind = "legacy" /\ c.n > h.maxBlock -> "corrupt"
    [] c.kind \in MinLZKinds /\ c.n > h.maxBlock -> "toolarge"
    [] c.kind \in MinLZKinds /\ (c.n = 0 \/ c.n < c.len) -> "corrupt"
    [] c.kind \in MinLZKinds /\ c.n > left /\ c.bad = "body" -> "toolarge"
    [] c.kind \in MinLZKinds /\ c.n > left /\ c.bad = "crc" /\ ~IgnoreCRC -> "crc"
    [] c.kind = "legacy" /\ c.n > left /\ c.bad # "no" -> "corrupt"
    [] c.kind = "raw" /\ c.n < left /\ c.bad # "no" -> "corrupt"
    [] OTHER -> "none"

\* Faulty: a block is passed on unchecked.
ReadRefusalUnchecked(c) ==
  CASE EarlyRefusal(h, c) # "none" -> EarlyRefusal(h, c)
    [] LateRefusal(h, c) # "none" -> LateRefusal(h, c)
    [] c.kind = "legacy" /\ c.n > MaxS2Block -> "corrupt"
    [] OTHER -> "none"

ReadRefusal(c) ==
  CASE EarlyRefusal(h, c) # "none" -> EarlyRefusal(h, c)
    [] LateRefusal(h, c) # "none" -> LateRefusal(h, c)
    [] c.kind = "legacy" /\ c.n > MaxS2Block /\ pc # "write" -> "corrupt"
    [] c.bad = "body" -> "corrupt"
    [] c.bad = "crc" /\ ~IgnoreCRC -> "crc"
    [] OTHER -> "none"

DataRefusal(c) == IF pc = "skip" THEN SkipRefusal(c) ELSE ReadRefusal(c)

Refuse ==
  /\ Taking(ChunkKinds)
  /\ \/ Unheaded(h, Cur) /\ Stop("corrupt")
     \/ ~Unheaded(h, Cur) /\ Refused(Cur) # "none" /\ Stop(Refused(Cur))
     \/ ~Unheaded(h, Cur) /\ Cur.kind \in DataKinds /\ DataRefusal(Cur) # "none"
          /\ Stop(DataRefusal(Cur))
     \/ Cur.kind \in IdKinds /\ IdRefusal(Cur) # "none" /\ Stop(IdRefusal(Cur))
     \/ Cur.kind = "eof" /\ TotalRefused(Cur, start + j) /\ Stop("corrupt")

TakeIdentifier ==
  /\ Taking(IdKinds) /\ IdRefusal(Cur) = "none"
  /\ h' = Identified(h, Cur) /\ pos' = pos + 1
  /\ start' = 0 /\ i' = 0 /\ j' = 0
  /\ UNCHANGED <<stream, dec, err, pc, call>>

TakeEOF ==
  /\ Taking({"eof"}) /\ ~TotalRefused(Cur, start + j)
  /\ h' = AfterEOF(h) /\ pos' = pos + 1
  /\ UNCHANGED <<stream, block, err, pc, call>>

TakeSkippable ==
  /\ Taking({"skip"}) /\ pos' = pos + 1
  /\ UNCHANGED <<stream, h, block, err, pc, call>>

\* A block Skip goes past without decoding it.
Passes(c) == pc = "skip" /\ c.kind # "raw" /\ c.n <= left

TakeBlock ==
  /\ pc # "write"
  /\ Taking(DataKinds) /\ ~Unheaded(h, Cur) /\ DataRefusal(Cur) = "none" /\ ~Passes(Cur)
  /\ start' = start + j /\ i' = 0 /\ j' = Cur.n /\ dec' = pos + 1 /\ pos' = pos + 1
  /\ UNCHANGED <<stream, h, err, pc, call>>

\* The goroutines of DecodeConcurrent write the blocks in order, as its module
\* shows.  blockStart goes on by all blocks but the legacy ones.
WriteBlock ==
  /\ pc = "write"
  /\ Taking(DataKinds) /\ ~Unheaded(h, Cur) /\ DataRefusal(Cur) = "none"
  /\ start' = start + (IF Cur.kind = "legacy" THEN 0 ELSE Cur.n)
  /\ pos' = pos + 1 /\ at' = at + Cur.n
  /\ UNCHANGED <<stream, h, i, j, dec, err, pc, left, want>>

\* Faulty: the size of the block before is forgotten.
PassBlockAlone ==
  /\ Taking(DataKinds) /\ ~Unheaded(h, Cur) /\ DataRefusal(Cur) = "none" /\ Passes(Cur)
  /\ start' = start + Cur.n /\ i' = 0 /\ j' = 0 /\ pos' = pos + 1
  /\ at' = at + Cur.n
  /\ IF Cur.n = left THEN Landed ELSE left' = left - Cur.n /\ UNCHANGED <<pc, want>>
  /\ UNCHANGED <<stream, h, dec, err>>

PassBlock ==
  /\ Taking(DataKinds) /\ ~Unheaded(h, Cur) /\ DataRefusal(Cur) = "none" /\ Passes(Cur)
  /\ start' = start + j + Cur.n /\ i' = 0 /\ j' = 0 /\ pos' = pos + 1
  /\ at' = at + Cur.n
  /\ IF Cur.n = left THEN Landed ELSE left' = left - Cur.n /\ UNCHANGED <<pc, want>>
  /\ UNCHANGED <<stream, h, dec, err>>

-----------------------------------------------------------------------------

Step ==
  \/ Deliver \/ SkipDecoded
  \/ EndOfInput \/ Refuse \/ TakeIdentifier \/ TakeEOF \/ TakeSkippable
  \/ TakeBlock \/ PassBlock
  \/ WriteRest \/ WriteBlock \/ WriteEnd \/ WriteFails

Next ==
  \/ \E n \in Sizes : Read(n) \/ Skip(n)
  \/ WriteTo
  \/ \E s \in Others : Reset(s)
  \/ ReturnError
  \/ Step

Spec == Init /\ [][Next]_vars

-----------------------------------------------------------------------------
(* Properties *)

\* The units of data in the first k chunks.
UnitsIn(k) == Totals(stream)[k]

Settled == err = "none" /\ pc \in {"idle", "read", "skip", "write"}

\* However Read, Skip, ReadAt and WriteTo follow one another, what the next Read passes
\* on is the data at the user's position: none is repeated or left out.
NextIsRight ==
  Settled => at = IF i < j THEN UnitsIn(dec - 1) + i ELSE UnitsIn(pos)

\* The position the Reader reports (and checks the EOF marker against) is the
\* user's, counted from the beginning of the stream that holds it.  (Not once
\* WriteTo has met a legacy block, which it does not count.)
PositionIsRight ==
  LET ids == {k \in 1 .. pos : stream[k].kind \in IdKinds}
      from == IF ids = {} THEN 0 ELSE Max(ids)
      uncounted == (pc = "write" \/ pos = Len(stream)) /\ j = 0
                     /\ \E k \in from + 1 .. pos : stream[k].kind = "legacy"
  IN  Settled /\ ~uncounted => start + i = at - UnitsIn(from)

\* Nothing is passed on that was not decoded and checked.
VerifiedOnly ==
  Settled /\ i < j => stream[dec].bad = "no" \/ (IgnoreCRC /\ stream[dec].bad = "crc")

\* The end is reported where the data end: the whole stream was read, and the
\* last MinLZ stream in it has its EOF marker.
EndIsTheEnd ==
  err \in {"eof", "unexpectedEOF"} =>
    /\ pos = Len(stream) /\ at = TotalOf(stream)
    /\ \A k \in DOMAIN stream : stream[k].kind = "idMinLZ" =>
         \E m \in k .. Len(stream) : stream[m].kind = "eof"

\* "Reader is an io.Reader that can read Snappy-compressed bytes" (reader.go:127):
\* a stream as the format wants it is read to its end, whatever was read before.
ValidIsRead == Valid(stream) => err \in {"none", "eof", "unexpectedEOF", "io"}
=============================================================================
