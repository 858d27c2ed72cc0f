# A TLA+ model of MinLZ

MinLZ (`src/`) is a compressor: a block format, a stream format of chunks around
it, a `Writer` and a `Reader` for streams, a seek index, and a command line tool.
This directory models the parts whose correctness depends on order, on several
goroutines or on state carried from call to call, the block codec and the command line
tool around a file, checks them with TLC on small instances and proves, with TLAPS, for every
instance, what matters most of the Writer, the seek index, the Reader, the concurrent decoder,
the read-ahead reader, `mz`, the block format and the encoders and decoders of blocks.

Line numbers are those of `src/`. Every definition that stands for code is in
the `map` of `PROJECT.json` with its lines.

## The system

| part | source | state | operations | what is hard |
|---|---|---|---|---|
| Stream Writer | `writer.go` | `ibuf`, the channel `output`, `wroteStreamHeader`, `errState`, counters, index | Write, ReadFrom, EncodeBuffer, AddUserChunk, AsyncFlush, Flush, Close, CloseIndex, Reset, Written | one goroutine per block that compresses, one that writes in order, and the calling goroutine, which sometimes writes itself; a sink that fails or writes short |
| Seek index | `index.go` | list of offset pairs, the distance aimed at | reset, add, reduce, reduceLight, Find, appendTo, Load, LoadStream, IndexStream, JSON, Remove/RestoreIndexHeaders | thinning any number of times; delta coding with a prediction both sides must repeat |
| Stream Reader | `reader.go` 1-566, 993-1310 | one decoded block, `i`, `j`, `blockStart`, the header state, sticky `err` | Read, ReadByte, Skip, Reset, WriteTo, SkippableCB | positions kept through skipped blocks, concatenated streams, reuse |
| Concurrent decoding | `reader.go` 567-992 | channels of input buffers, output buffers, entries; a queue; `w` itself as a token | DecodeConcurrent, WriteTo | buffers recirculate between goroutines; errors on both sides; must end with nobody left |
| ReadSeeker | `reader.go` 1311-1527 | the index, the Reader | Seek, ReadAt | a Seek does not throw away the decoded block |
| Block decoding | `decode.go` | `s`, `d`, `offset` | Decode, isMinLZ, minLZDecodeGo | two loops, with and without bounds checks, that must agree |
| Block encoding | `encode*.go`, `asm_none.go` | `s`, `nextEmit`, `repeat`, hash tables | Encode, encodeBlockGo, ...BetterGo, ...Best, emitLiteral, emitRepeat, emitCopy... | field classes and biases; tables that return anything; limits tested only at some places; repeat offsets kept in step with the decoder |
| The Writer's memory | `writer.go` | the pool `buffers`, `ibuf`, the caller's slices | the same methods | no lock: a buffer has one owner at a time, who passes it on |
| Second block codec | `internal/reference` | `s`, `nextEmit`, one table | EncodeBlock, DecodeBlock | must agree with the first |
| LZ4 conversion | `lz4convert.go` | `s`, `d`, `lastOffset` | ConvertBlock | two limits, fused literals, repeats, sizes |
| Read-ahead | `cmd/internal/readahead` | channels `reuse` and `ready`, `cur`, sticky `err` | Read, WriteTo, Seek, Close | a goroutine ahead of the user |
| mz | `cmd/mz` | the source, the destination, a `bufio.Writer`, the pipe to a verifier | `mz c`, `mz d` on a file | what has happened when the source is removed |
| Others | `_generate/`, `*_amd64.go`, `cmd/internal/shttp`, `internal/fuzz` | | | see the components in `PROJECT.json` |

How they interact: the Writer calls the block encoder in a goroutine for each
block, the index's `add` for every chunk, and the sink's `Write`. The Reader and
DecodeConcurrent call the block decoder. Seek uses the index the Writer stored or
`IndexStream` rebuilt. The only communication between goroutines is through
channels, a WaitGroup, an error behind a mutex, and the buffers they pass. `mz` puts a
read-ahead reader in front of a Writer or Reader and a `bufio.Writer`, with a verifying
goroutine beside it, behind.

## The modules

```
StreamFormat   StreamIndex                 ReaderChunks (FormatProofs)
      \          /      \                  /       \
     StreamWriter   IndexLifecycle  ConcurrentDecoder  StreamReader
      /       \          |                 |                |   (StreamIndex)
StreamWriterInv OrderedSink  MCIndexLifecycle    |            SeekReader
      |      \    IndexLifecycleProofs  MCConcurrentDecoder     |
MCStreamWriter \                   ConcurrentDecoderProofs  MCSeekReader
          StreamWriterProofs                             SeekReaderProofs

        BlockFormat
     /       |          \
FormatProofs  BlockEncoder           BlockDecoder
        \              |              /       \
         \   ReferenceEncoder  OtherDecoders  Lz4Convert
          \             \         |         /
           \                  BlockCodec
            \                /         \
            BlockCodecProofs         MCBlockCodec

    WriterBuffers         ReadAhead         MzFile
          |               |       \        /     |
   MCWriterBuffers   MCReadAhead  CommandProofs  MCMzFile
 WriterBuffersProofs
```

**StreamFormat** has the kinds of chunk the Writer puts on a stream, their
abstract sizes and `calcSkippableFrame`.

**StreamIndex** has the index operations without state: `add`, `reduceLight`,
`reduce`, `Find`, `appendTo` (as the list of varints), `Load`.

**StreamWriter** models the Writer. The user's bytes are numbered; a `Span`
`[lo, hi]` is an interval of them, so a span tells what a buffer holds without its
contents. `pc` is where the calling goroutine is inside a method, `chan` the
channel `output`, `wpc` and `cur` the goroutine Reset starts. A compression
goroutine has no state but its entry (`busy`, then `ready`), so `Compress` may
finish the entries in any order. `out` is what the sink has received, `ends`
the offsets at which the chunks end, `torn` says that a part of a chunk may follow.

| code | action |
|---|---|
| `Write` (184), `write` (467), `writeFull` (598) | `CallWrite`, `LoopDirect`, `LoopFill`, `LoopBuffer`, `SendHeader`, `SendBlock`, `SendDone` |
| `EncodeBuffer` (351), `ReadFrom` (225) | `CallEncodeBuffer`, `EncodeStart`; `CallReadFrom`, `ReadBlock`, `ReadEnd` |
| `AddUserChunk` (271) | `CallAddUserChunk`, `UserHeader`, `UserQueue`, `UserSync`, `UserData`, `UserFail` |
| `writeSync` (632) | `SyncHeader`, `SyncBlock`, `SyncRaw`, `SyncFail`, `SyncDone` |
| `AsyncFlush` (708), `Flush` (738) | `CallFlush`, `FlushBuffer`, `FlushQueue` |
| `closeIndex` (776) | `CallClose`, `CloseOutput`, `CloseJoin`, `CloseFailed`, `WriteEOF`, `WritePadding`, `WriteIndex` |
| `Reset` (105) and its goroutine | `CallReset`, `ResetDone`; `Take`, `Hand`, `Skip`, `Begin`, `WriteOut`, `Exit` |
| the goroutines of 501 and 390 | `Compress` |

The two error checks at the entrance of `Write` and of `write` (192, 469) are one;
a method called with an error set returns it and is no step. `ReadFrom` of a
reader with a `Bytes` method is `EncodeBuffer`. A chunk that does not compress is
written by `writeSync` in two Writes, of which the second may fail; the bytes a
failing Write did take are not counted, here as there (nor those of the failing Write of an
EOF chunk; an error of a Flush is seen when its entry is queued, not just before it, 737). The error branch of
`index.add` is not followed, because `IndexInStep` (its part `AddNeverRefused`) shows it is never taken.

**OrderedSink** is what the user is promised, with three variables: units accepted,
units delivered (the first ones, in order) and the status. `StreamWriter`
instantiates it with `accepted <- fed`, `delivered <- DataEnd(out)`.

**StreamWriterInv** holds the inductive invariant. **StreamWriterProofs** proves first the
part of it that is about order, then the rest, and that the Writer implements OrderedSink.

**WriterBuffers** is the other view of the concurrent Writer: not which block is written
when but whose memory it is in. Units are as large as a block. `mem` is what every buffer
holds, `pool` what lies in the `sync.Pool`; `Put` scribbles over a buffer at once, as
anyone who takes it out may, and so does the caller over memory it has back.

| code | action |
|---|---|
| the methods are entered, and what they will cut | `Write`, `EncodeBuffer`, `ReadFrom`, `AddUserChunk`, `Flush` (also Close), `Reset` |
| a block gets its buffers: `write` (489), `ReadFrom` (240), `EncodeBuffer` (401), `AddUserChunk` (322) | `TakeWrite`, `TakeFull`, `TakeEncode`, `TakeUser`; `StopReading` |
| `w.output <- output` and the `go` | `Queue`; `Keep` for what stays in ibuf; `WriteSync` |
| a compression goroutine (509): checksum, encode or swap, send, Put | `Sum`, `Encode`, `HandOver`, `PutSpare` |
| the writer goroutine (146): take, write, Put | `TakeEntry`, `WriteEntry`, `Finish` |
| the ends of the methods | `ReturnQueued`, `Flushed`, `Closed` with `CloseMarks`, `Fresh` |

**WriterBuffersProofs** has its invariant and the proofs.

FlushOnWrite and a Writer without goroutines, which give every buffer back before they
return, are not in it. `ReadFrom` of a reader with a `Bytes` method is `EncodeBuffer`.

**IndexLifecycle** writes a stream chunk by chunk, with the entries the Writer
makes (its goroutine records every chunk, `writeSync` only data), ends and stores
the index, and defines IndexStream over the finished chunks. Offsets are real
bytes of small chunks; the EOF chunk holds a varint of the total, whose base (`VarintBase`) is
128 in the code and 2 in the run, where a stream of eight bytes has an EOF chunk of four. `thinned`, which is history, counts how often the index has been thinned.
**IndexLifecycleProofs** has its invariant and the proofs.

**ReaderChunks** has what both readers do with a chunk: the header state
(`readHeader`, `wantEOF`, `maxBlock`, `maxBufSize`, `snappyFrame`), the refusals
in the order of the code, and, from SPEC.md, which streams are valid (`Valid`).

**ConcurrentDecoder** models DecodeConcurrent: `Reader` steps are the calling
goroutine (`TakeIn` is `<-toRead`, `TakeOut` and `TakeRaw` `<-writtenBlocks`,
`TakeEntry` `<-reUse`, `Enqueue` `queue <-` and the `go`), `Goroutine(k)` that
of chunk `k` (`Decode`, `Release` = `toRead <-`, `CheckCRC`, `GiveBack`, `Fail`,
then `writeBuf`: `TakeTurn`, `WriteBuf`, `PassOn`, `Forward`). `inHas` and
`outHas` say which chunk's bytes a buffer holds, so that a buffer reused too early
shows. `fresh` are the output buffers still nil. With `concurrent` 1 the
code falls back to Read.

**StreamReader** models Read, ReadByte (a Read of one), Skip, WriteTo and Reset: a call takes
one chunk in each step until it can return. WriteTo's goroutines are one writer in order
here. `at` is the position as its user counts.
What an error leaves in the other fields is not modelled: all calls but Reset (and
Seek and WriteTo, for the end of the stream) return the error, and nobody goes on after a
WriteTo that failed.

**SeekReader** adds Seek and ReadAt. The index is any list of starts of chunks;
`EntriesAreChunkStarts` of IndexLifecycle says that the Writer's is one. `Totals` gives the
units of data before each chunk of a stream, as a recursive function, about which
**SeekReaderProofs** can reason. What both it and **ConcurrentDecoderProofs** need of streams
as the format wants them is in **FormatProofs**, behind what is proved of BlockFormat.

**BlockFormat** has the operations of a block as records of fields: what each emit
function stores in them, cut off at the field's width as the shifts and narrow
stores do, what the decoder reads out of them, and the sizes the smallest level
estimates. Widths and biases are constants (`LitInline` is 29, `MinCopy2Offset` 64,
`Copy3Offsets` 2^21 in the code).

**BlockEncoder** has the three match finders, and their forms for blocks of up to
64K, as one machine: `pc` is where in the function it is, and `level` and `Wide`
(the block is long) select what differs.

| code | action or operator |
|---|---|
| `len(src) < minNonLiteralBlockSize`; the head of each function | `TooSmall`, `Start` |
| the inner search loop: nothing found, or the end | `SearchMiss`, `SearchEnd` |
| the repeat at `s+1` of levels 1 and 2 | `SearchRepeat` |
| a match: limits, "equal or worse", emit, index | `SearchMatch`, with `NoRoom`, `NotWorth`, `Skip`, `Take` |
| where each level looks | `FastMatches`, `BetterMatches`, `BestMatches` |
| level 1, directly behind a match | `AgainMatch`, `AgainMiss`, `AgainNoRoom`, `AgainEnd` |
| `emitRemainder` | `EmitRemainder` |

A hash table is reduced to what the loops may rely on: a lookup returns some
position entered before (`top` is the last of them), which may or may not match.
Every hash function, table size, collision and sparse indexing is one of these
choices. `bestOf` is any choice among the matches found; the limits on the distance
of a match, on the room left and on the gain stay as they are.

**BlockDecoder** has minLZDecodeGo: `FastOp` is the loop while more than eleven bytes
follow, which reads and writes words and panics when a read leaves the slice, `TailOp`
the careful one. `Meaning` is what operations mean, without positions: a recursive function of
how many of them have been read.

**ReferenceEncoder** is the encoder of `internal/reference` on the same variables: one table
with every position in it, its own emit functions, limits and fused literals.
**OtherDecoders** has the reference decoder and the one behind `mz d -block-debug`: one recursive
function over the operations of an input (`Loop`), with what each of them asks of the bytes that
are left (the reference decoder learns only at the end that some were missing).

**Lz4Convert** is ConvertBlock as a recursive function over the sequences of an LZ4 block, with the
number of bytes each takes, so that limits and broken ends are where they are in the code;
`Lz4Meaning` says what such a block stands for.

**BlockCodec** joins them: a block is encoded by one of four encoders and decoded; any
operations, cut off at any byte of the last one and with any size announced, are decoded,
by three decoders; or an LZ4 block is converted and the result decoded.

**ReadAhead** models the reader with its goroutine. A buffer knows which units of the input
it holds and how many of them have been served. Reads of the input return: the branch of
`buffer.read` for one that panics (499-504) is left out, which io.Reader does not do; the error is then set
but the buffer is not cut to what was read, and what it held before would be served ahead of the error.

| code | action |
|---|---|
| the goroutine (315-342), `buffer.read` (498) | `Take`, `Deliver` with `Outcomes` and `Delivered` |
| `fill` (346) | `FillServed`, `FillReady`, `FillRest`, `FillClosed` |
| `Read` (365), `WriteTo` (423) | `CallRead`, `ServeRead`; `CallWriteTo`, `ServeWrite`, `WriteFails` |
| `Seek` (392), `Close` (453) | `CallSeek`, `Stop`, `SeekDone`, `SeekFails`; `CallClose`, `Stop`, `CloseDone` |

**MzFile** models `mz c` and `mz d` on one file. `Route` is the order of the stages of each
command (`stage` is the one it is at), with the deferred calls at the end; `exitErr` (`Exit`) leaves without them. `files`
is what is under each name at any moment. The library is units: taken, coded in some
goroutines, written in order. An encoder may make a wrong unit, which is what `-verify`
is there for, and an input may have one.

| code | action |
|---|---|
| opening, `-safe`, `os.O_TRUNC` | `Open`, `OpenDst` with `InTheWay` |
| the read-ahead goroutine, `io.ReadAll` | `Fetch`, `FetchFails`, `Slurp` |
| `processBlock`, `minlz.Decode` | `CopyBlock` |
| `processStream`, DecodeConcurrent | `Consume`, `Emit`, `EmitFails`, `PipeRefuses`, `CopyDone` |
| `verifyTo` (625) | `VerifierTakes`, `VerifierDecodes`, `VerifierEnds`, `Verified` |
| `os.Remove`, `bw.Flush`, `os.Rename` | `Remove`, `Flush`, `Rename` |

**MC...** modules give the bounds; each says what its instances reach. An operator
with a comment that begins `Faulty:` is not part of the system: it is the
form a mistake in the following definition would have, and each property is
known to fail when one is put in place.

## The runs

| run | instance | question |
|---|---|---|
| WriterConcurrent | two compressing goroutines, blocks of 2, four units, one user chunk, index, padding, one Reset, any Write failing; fairness | Does it implement OrderedSink? Is the stream well formed, with one header first and blocks that fit? Does the caller ever write beside the goroutine? Does Flush wait for what was given, does Close mean complete, is the index in step, does every method return? Is the invariant of the proofs invariant? |
| WriterSync | no goroutines, FlushOnWrite, index appended, padding, five units, two user chunks, one Reset | Is the order kept, are offsets and counters exact and does the index point at chunks, whichever way the bytes came? |
| WriterBuffers | two goroutines, two slices of the caller's, eight pooled buffers, three blocks, padding, one Reset, any Write failing | Is a block still itself when it is summed, encoded and written? Has every buffer one owner? |
| IndexThinning | every stream of up to eleven chunks, index of four entries | Does a thinned index still point at chunks, find the floor of every offset, bound the cost of a seek, and load as stored? Which streams does a scan accept, and does it agree with them? |
| DecodeBlocks | two goroutines, three buffers, streams of up to four blocks, intact, damaged, malformed, of all formats, one after the other, or beginning with up to four blocks of nothing; w failing at any Write; fairness | What reaches w, who holds which buffer and w, what does success mean, does it return with nobody left, except where blocks of nothing have used up the buffers? |
| ReadMixed | the same kinds of stream, Read, Skip, WriteTo, ReadAt with every index a stream can have, Reset to another stream | Are the bytes those of the user's position, is the position right, and is the end only reported at the end? |
| BlockCodec | blocks of 15 to 33 symbols through three levels and the reference encoder; all inputs of up to three operations of every form; LZ4 blocks of up to three sequences, empty, whole, broken off or wrong | Does every block decode to its source, whatever the tables return? Does it fit? Do the decoders agree with the meaning of the operations, without a panic? Does a converted block mean what the LZ4 block did? Does a search always end? |
| ReadAhead | two buffers of two units, inputs of 0, 4 and 5, failing anywhere, two Seeks, fairness | Is what is served what the input has there, do errors come behind the data, are buffers in one place, does every call return? |
| MzFile | four units, all flags, every failure, fairness | When may the source be gone, what is left after a failure, does the tool end? |
| EncodeFarOffset, EncodeOverrun, SeekStale | see below | three disagreements with the documentation |

The bounds: two compressing goroutines and a channel of two leave room for one
entry being written, two waiting and a caller that waits for room, which is every
relation two blocks can be in; four units in blocks of two are two full ones, or one and two
partial ones, and reach each branch of Write's loop. Four blocks against three
buffers make every kind of buffer go round; three blocks of nothing use the three buffers up, and a fourth
finds none. An index of four entries is thinned twice within eleven chunks. Two slices of the caller's and three blocks in
WriterBuffers leave one block with each kind of goroutine; no state has all eight buffers in
use. A source of four units in MzFile fills a `bufio.Writer` of two, so that a part is on
disk and a part is not, and two units are in flight while a third is read. `MaxUnits`, `MaxUsers` and `MaxResets` of the
Writer, `MaxChunks` and `BodySizes` of the index, `Streams`, `Others`, `Sizes` and
`Indexed` of the readers, `MaxBlocks` and `MaxResets` of WriterBuffers, and `Sizes` and
`MaxSeeks` of ReadAhead exist only as bounds. Sizes of chunks are abstract
in the Writer (see StreamFormat), and in the readers units large against the bytes
a chunk adds to its data.

BlockCodec scales the widths down (`BlockCodec.cfg`: literals inline up to 6, one
length byte holds 12 values, offsets to 5, 18 and 20, the decoder's margin as it is) so
that with 33 symbols every class of offset and all classes of length but the longest
are met, as well as blocks above and below the size (`SmallBlock`, 16) at which the 64K
forms end; the proofs cover all widths. Sources are built of four words, one a run of a
single symbol and two that share a part, so that matches overlap, extend
backwards and compete. `Sources`, `Inputs`, `Lz4Inputs` and
the words exist only as bounds; `Nibble` (3), `ByteMax` (6) and `MaxBlockSize` (30) scale the
LZ4 format down in the same way. Level 1
is given blocks of up to 30 symbols; longer ones are EncodeFarOffset's, and EncodeOverrun has one
block of 118 symbols. `Saving` is 8 rather than 32, because 32 symbols at most would allow no saving to
be asked for.

Deadlock is checked in the runs of the Writer (also WriterBuffers), in ReadMixed and in
ReadAhead: these can always be called again. A stream that is finished, a DecodeConcurrent
that has returned, a block that is decoded and a process that has ended are final; for these
runs it is not.

Fairness: `WF` of the calling goroutine inside a method, of the compression
goroutines and of the writing goroutine is what the Go scheduler gives when the
sink's Write returns; the user is under no obligation to call anything.
DecodeConcurrent assumes the same of its reader, its goroutines and `w`, ReadAhead of its
goroutine, the input and the method that is running, MzFile of the main goroutine, the one
that reads ahead, the ones that code and write, and the verifier; no fairness is assumed
of which outcome a read or write has, nor that a read fails at all (`FetchFails`).

## Disagreements with the documentation

Each of the following is a run in which TLC finds a counterexample, and a finding in
`PROJECT.json`:

- **SeekStale**: a Seek to the start of an indexed chunk keeps the decoded block
  and moves `blockStart` (1432), so that the next Seek may find its target inside
  bytes from another place.
- **EncodeFarOffset**: level 1 without assembly limits the distance of a match by
  `s - maxCopy3Offset` also for the matches at `s+1` and `s+2` (85), takes offsets that
  are one or two too large for the field, and the block decodes to other bytes. Needs
  a block above 2,162,688 bytes. The generator of the assembly adds 2 to the limit.
- **EncodeOverrun**: the smallest level takes a repeat of three bytes without asking for a saving
  (encode_l3.go:240), as it does of every other match. Behind 286 literals or more, whose header
  has three bytes, each costs 290 bytes for 289, and a match that ends at `sLimit` or behind it
  goes to emitRemainder (592) before the length is compared with `dstLimit` (595). Thirteen such
  repeats, 286 literals more and a copy of 19 bytes are a block of 4062 bytes that is emitted as
  4062, where Encode has left room for 4061 and the Writer for 4060 (encode.go:221, writer.go:384):
  against "a guaranteed-large-enough dst" (encode_l3.go:28). The model shows it with the scaled
  widths, where four repeats behind nineteen literals are enough.

Others were met but have no run. In the library:

- IndexStream makes one index of joined streams (SPEC.md:373), with offsets from the beginning
  of the first, but the Reader starts `blockStart` anew at each identifier (509, 1268), and a
  ReadAt takes a block of the second stream for one of the first (1414) and refuses the second EOF
  marker after a Seek into that stream, although an index is there "to seek to any position in
  the stream" (README.md:261). `NextIsRight` fails as soon as `Indexed` holds such a stream. (IndexStream
  goes past the EOF marker of a stream only if it has four bytes, from 2 MB on.)
- For chunks whose checksum is of the compressed data, DecodeConcurrent gives the input
  buffer back before the sum is taken (835); a valid stream is refused when the
  caller has read into it by then. No Writer here makes these chunks.
- Legacy blocks of nothing use up the output buffers of DecodeConcurrent while these are nil
  (635): one more such block than `concurrent` before the first block with data, and the next block
  waits for a buffer for ever. `Returns` names this case (`EmptyStart`, `WaitsForBuffer`) and says
  that there is no other; the streams of the run have up to four such blocks against three buffers.
- IndexStream refuses the EOF chunk of a stream of less than 2 MB, which has no room for a
  checksum (index.go:479), and a user chunk of less than four bytes, in a stream of any length.
  `ScanSound` says that it refuses nothing else.
- The index CloseIndex returns may lie in `w.ibuf` (807); after Reset and a Write it is
  overwritten in the caller's hands.
- ReadFrom of a reader with a `Bytes` method returns while goroutines still read that
  slice (233-238), as EncodeBuffer's comment says and ReadFrom's does not. A Flush that
  finds an error set does not wait for them (737-739).
- CloseIndex of a Writer made without an index returns an error after the channel was
  closed but before the stream is (784; 771 says that it calls Close), and leaves a
  Writer whose next Write blocks for ever.
- emitLiteralSizeN returns one too many for 285 and 65565 literals (270, 272; the emit
  functions compare the length less one), which only makes the smallest level's
  estimate a little worse.
- Blocks queued behind one that failed are still written by DecodeConcurrent (649;
  WriteTo's comment, 545, says until an error occurs).
- An S2 or Snappy stream after a MinLZ stream of smaller blocks is refused,
  because `maxBufSize` is not restored (522, 966, 1280; SPEC.md:373). The runs of
  the readers use joined streams whose blocks do not shrink.
- Skip that ends inside an uncompressed block does not verify it (1225; the comment
  at 1031 says that skipped blocks are not checked), and checks skipped ones even
  with ReaderIgnoreCRC (1226, 1183; 111). The run ReadMixed has no
  damaged uncompressed blocks, which `VerifiedOnly` would not hold for.
- Read refuses legacy blocks above 4 MB where DecodeConcurrent does not (387, 741).
- WriteTo and DecodeConcurrent do not look at `r.err` when called (683), nor do they leave
  an error of w or of a goroutine in it (676): after a Read that returned a checksum error, a
  WriteTo writes the blocks behind the bad one and returns nil.
- DecodeConcurrent does not add legacy blocks to `blockStart` (758), and a Seek relative to
  the current position after a WriteTo counts without them; so does the position a Seek
  beyond the end of an indexed S2 stream reports.
- Reset of a Reader under a ReadSeeker drops its index (183).

Beside the library:

- ConvertStream (lz4convert.go:234-454) is called by nothing and unfinished.
- ReadAhead's Seek relative to the current position goes from where the goroutine has read
  to when the last Read emptied its buffer, because it takes back only when `cur` is not nil
  (401-413), although the reader "should be fully transparent" (5-6).
- `mz` removes the source (compress.go:266, decompress.go:381) before the deferred
  `bw.Flush`, whose error nobody looks at (compress.go:239); up to twice a block, or
  4 MB, of the result may be lost with it, against "after success" (compress.go:56).
- `mz d -block` of a file onto its own name truncates it before it reads it, and with `-rm`
  removes the result.
- `-safe` looks for the temporary name when a file is recompressed in place, and `mz d -safe`
  for a file also when it writes to stdout.
- The offset of `mz d -block` is limited by the size of the compressed block
  (decompress.go:313).

## What is proved

Everything here is for all values of the constants that satisfy the named assumptions: any
number of goroutines, buffers and units, any sizes, streams, options and bounds. Each invariant
was checked by TLC on the instances of the runs before it was proved; `WriterInv` is still an
invariant of WriterConcurrent.

`StreamWriterProofs`:

- `WriterInvariant`: `Spec => []OrderInv`;
- `WriterInOrder`, `WriterAlone`, `WriterTyped`: `InOrder`, `DirectWriteAlone` and, as the
  runs do not list it, `TypeOK`.

`InOrder` is not inductive: that the next chunk written continues the last one
depends on what the goroutine holds, which depends on the channel, which depends
on what the calling goroutine has sent, cut and kept. `OrderInv` relates
these: each of the sink, the taken entry, the channel, the argument of `write`, the
rest of the method's argument and `ibuf` begins where the one before it ends
(`QueueOrder`, `CallerOrder`), nothing is beyond what was handed over (`Bounded`),
the calling goroutine writes only when the other one has nothing (`Alone`,
`EntryShape`), and the end marks come after all of it (`Ending`). The proof takes one
part at a time (`CallerStep`, `AloneStep`, `PlacesStep`, `ScalarsStep`,
`EndingStep`), with one step for each action.

On top of it:

- `WriterKeeps`: `Spec => []WriterInv`, where `WriterInv` is `OrderInv` with the framing
  (`FormInv`: the identifier is on the sink or at the head of what is sent before any
  block, and what is in the channel fits), the end (`CloseInv`), a Flush that is under way
  (`FlushInv`), the counters (`CountInv`), the units before an entry of the channel (`StartInv`)
  and the index (`IndexInv`);
- `WriterWellFormed`, `WriterClosedIsComplete`, `WriterFlushIsBarrier`: the properties of those
  names. FlushIsBarrier is an action property; it holds because Flush returns only where
  `OrderInv` leaves no place between the sink and what was handed over;
- `WriterCountersExact`: `CountersExact`. `written` is ahead of the complete chunks by the header
  of a chunk that is written in two pieces and by the index, which is counted before the padding is
  chosen and written behind it (`Ahead`); that the sum is then a multiple of the padding is
  `PaddedLength`, on calcSkippableFrame;
- `WriterIndexInStep`: `IndexInStep`. add never refuses, because no entry is beyond what has been
  written (`IndexInv`) and whoever records a chunk has the number of units before it: the caller
  because nothing is on its way then, the goroutine because its entry was given that number when
  it was queued (`StartInv`). That the entries point at chunks is kept by thinning because what
  reduceLight and reduce leave are entries there were (`LightAmong`, `ReduceAmong`);
- `WriterImplementsSink`: `Spec => ImplementsOrderedSink`. Every action is an `Accept`, a
  `Deliver`, one of the changes of the status, or a stutter.

`IndexLifecycleProofs`, for streams of any number of chunks of any sizes, any block size and any
limits of the index (`MaxIndexEntries`, `MinIndexDist`, `ReduceFloor`, `LinearScan`):
`EntriesAreChunkStartsHolds`, `FindIsFloorHolds`, `SeekCostHolds`, `ScanSoundHolds` and
`StoredIndexLoadsHolds`, the five properties of the run. `LifeInv` says that the entries are
places in the stream, grow in both offsets, are an estimate apart while the stream is written, that
the first is at 0, and that no two neighbours, and neither the last one and the end, are further
apart than the thinnings so far allow. reduceLight and what a scan records are recursive
functions whose steps the proofs go through by induction (`NatSet`); each is first shown to exist
and to be unique (`Recursion`). A stored index is loaded as it was because the prediction the
reader makes from the differences is the one the writer fed back (`LoadPredictIs`).
A scan accepts exactly the streams without a chunk shorter than a checksum, for any base of the varints:
what it records itself grows in both offsets and stays within the stream (`Scanned`), so that `add`
never refuses it; and whether a finished stream is among them is decided by its EOF chunk alone.
The bound in `SeekCost` is `(thinned + 2) * est`, because reduceLight drops the first entry that is
far enough as well, so that each thinning may leave a gap larger by one of its new estimates; a
bound of three estimates and a block, which small instances do not exceed, fails after a second
thinning (blocks of 3, an index of nine entries).

`ConcurrentDecoderProofs`: `DecoderInv` is inductive (`DecoderKeeps`), and from it

- `DecoderInOrder` and `DecoderSuccess`: `IntactInOrder` and `SuccessIsComplete`;
- `DecoderOutputOwned`: an output buffer is in one place, `w` is with one goroutine, and none
  is left after the return;
- `DecoderOwned`: `Owned`, which says the same of the input buffers as well, for streams
  without checksums of compressed data. For these the goroutine puts its buffer back into
  `toRead` and then reads it (835), so the hypothesis is needed; what holds without it is the
  part `InPlaces`. The Writer makes no such chunks;
- `DecodesValid`: `ValidIsDecoded`, for streams without such checksums (`NoSums`) whose blocks
  fit the `maxBufSize` of the last MinLZ identifier before them (`BuffersSuffice`); only the
  blocks of an S2 stream behind a MinLZ stream of smaller blocks do not (see above).

Its parts say who holds which buffer and whose data it has (`CallerInv`, `JobInv`,
`OutPlaces`, `InPlaces`), that the goroutine with the turn comes before those in the queue, which
grow strictly, and all earlier ones have ended (`TurnInv`), that what is on `w` are the blocks
of those that had the turn (`OutInv`; `SumInv` has the sums on the way to the number returned),
what the WaitGroup counts (`GroupInv`), and what an error-free end of the stream means
(`EndInv`). `SuccessIsComplete` needs all of them: Return waits for the count, the count for the
turns, and the turns for what is on `w`. For `DecodesValid` a second invariant stands beside it:
the header state is what the place in the stream asks for (`Follows`), the data counted are those
of the stream so far and of the block on its way to a goroutine, and no goroutine has come to an
error of its own (`NoError`). The checks are the Reader's, and pass for the same reason: that
(`Accepted`), what `Valid` says of each chunk (`RightStep`, `StatesAre`, `RightThroughout`) and
induction on the natural numbers (`NatSet`, which follows from `WFMin` of WellFoundedInduction)
are in `FormatProofs`.

`WriterBuffersProofs`: `BuffersInv` is inductive (`BuffersKeep`), for any number of goroutines,
pooled buffers, cells of the caller's, blocks and Resets, and from it

- `BuffersOneOwner`: a pooled buffer is in one place (`OneOwner`);
- `BuffersWritten`: what is written is the block it should be, with its checksum
  (`WrittenAsGiven`).

`OneOwner` alone does not keep itself: `PlacesInv` says of each place that nobody else has the
buffer in it, and `JobsInv` that a goroutine which is to hand a block over has an entry that
awaits it, alone. On these rests what is in the memory, as long as no error is set
(`DataInv`): what a goroutine is to encode is its block and what is in an entry a chunk
made from it. After an error a Flush does not wait, and the caller may change memory that goroutines
still read; nothing is written any more until a Reset, which waits for all that was handed
over, so nothing is claimed in between. What makes the next block right is that
the units still to be cut from `ibuf` and the caller's memory are different from each other and with
no goroutine (`TodoInv`, `HoldInv`).

`SeekReaderProofs`: `ReaderInv` is inductive for `ReadAtSpec` (`ReaderKeeps`), for streams and
indexes of any size, all options and any mix of Read, Skip, WriteTo, ReadAt and Reset, and from it

- `PassesOnInOrder`, `CountsInStep` and `EndsAtTheEnd`: `NextIsRight`, `PositionIsRight` and
  `EndIsTheEnd`;
- `PassesOnVerified`: `VerifiedOnly`, for streams whose uncompressed blocks are whole
  (`RawIntact`), because Skip does not check one it ends in (1225);
- `ReadsValid`: `ValidIsRead`, for streams whose blocks fit the `maxBufSize` of the last MinLZ
  identifier before them (`BuffersSuffice`), which only blocks of S2 streams behind a MinLZ stream
  of smaller blocks do not (see above).

The buffer holds the end of the last block before `pos`, and did so when the block was checked
(`BufferInv`); the user is as far from the end of the chunks read as there are bytes in
the buffer (`PositionInv`); `blockStart` with the buffer is the data since the last identifier
(`StartInv`) or, with an index, all data (`SeekInv`); and where no EOF marker is outstanding,
every MinLZ stream so far has had its own (`MarkerInv`). The second and the third hold only
together: ReadAt looks for its offset between `blockStart` and the end of the buffer, and
believes what it finds. The hypothesis `IndexFits` is what an index has to be like for that: it is
of one MinLZ stream, and the Reader reads its identifier. Joined streams break it,
and S2 streams where a Seek fails behind a WriteTo (see above); with
ReaderIgnoreStreamIdentifier a Seek goes past the identifier and no EOF marker is asked for;
without an index nothing is assumed. For `ReadsValid` a second invariant stands beside the first:
the header state is the one the format gives the place in the stream (`ValidInv`, `Following`),
except that a Seek takes the state behind the identifier back to before it. What a valid stream
has had before a place (`PlaceIs`) then gives each check of the Reader what it asks for
(`NotRefused`); for the total in the EOF marker that takes `StartInv`. With Seek called by itself the
invariant fails, as SeekStale shows. What sums along a stream are (`TotalsAre`, `TotalsGrow`) and
that a set of numbers has its largest (`MaxIs`) is proved by induction.

`CommandProofs`, of ReadAhead: `AheadInv` (`AheadKeeps`) and the three safety properties of the run
(`AheadTransparent`, `AheadErrorLast`, `AheadOnePlace`). `SeamInv` says that the
buffer being served and those in `ready` hold the input from the user's position to the
goroutine's without a gap, `PlacesInv` who has which buffer, place by place, and `LastInv` that
nothing comes behind an error. A Seek relative to the current position adds up what is in
`ready`; that this is the distance to the goroutine's position is `AheadIs`.

and of MzFile: `MzInv` (`MzKeeps`), `MzGoneIsHanded` and `MzFailureKeepsSource`, for sources
and buffers of any size and every subset of the flags the tool takes (`JobsAssumption`).
What was read is the beginning of the source (`InputInv`); what is in the file, in the
`bufio.Writer` and in flight are the units taken, in order, each as it should be or what a wrong
encoder made of it (`CodedInv`, `BlockInv`); what the verifier has decoded, has before it and
what is in the pipe is what the output was handed (`VerifierInv`); and the source is there until
the stage that removes it (`SourceInv`, `RouteInv`). As in the properties, a destination that is
the source itself is the exception (see above).

`FormatProofs`, of BlockFormat for all widths and biases that satisfy `LengthAssumption` and
`OffsetAssumption` (the classes of offsets join without a gap):

- `EmitCopyReads`, `EmitLits2Reads`, `EmitLits3Reads`: for every offset a block may have
  and every length up to what a field holds, the one or two operations emitted are read
  as a copy of that length from that offset, and fused literals are kept. The lemmas
  follow the code: a length field holds its value (`FieldHolds`), so literals,
  repeats (`LitFieldReads`) and copies (`CopyFieldReads`) are read back, so each form
  is (`Copy2Reads`, `Copy3Reads`), and so is a copy that is continued by a repeat
  (`CopyThenRepeat`). EncodeFarOffset is what happens beyond the theorem's offsets.
- `CopySizeExact`: emitCopySize is the size of what emitCopy emits, for every offset and length.

`BlockCodecProofs`, of BlockCodec for blocks and inputs of any length and content, all widths and
biases as above, all four encoders and whatever the hash tables yield:

- `EncodersTyped`: `EncoderTyped`, which has the positions in order and within the block, the
  operations emitted among `Operations` and the offset of a repeat one that exists;
- `EncodersAdvance`: `SearchAdvances`;
- `CodecRoundTrip`: `RoundTrip`, if `NearSources` and `[]FitsDst`. `EncoderMeans` says that the
  operations emitted so far mean the block up to `nextEmit` and leave the decoder with the offset
  that the encoder has in `repeat`, when there is one. A step keeps it because each match found is a part of
  the block that repeats at its offset (`GoodMatch`, from `Hits`, MatchStart and MatchEnd), and what is
  emitted for it means literals and a copy of that length and offset (`LiteralMeans`, `CopyMeans`,
  `RepeatMeans`, on the theorems of FormatProofs);
- `DecoderAgrees`: `DecodeAgrees`, and `AllDecodersAgree`: `DecodersAgree`, if `[]FitsDst`. `Decoding`
  says that the output so far is what the operations read so far mean, for both loops; with its wide
  reads and writes the fast one leaves no slice because it is entered only while the margin is there, and
  what it writes beyond `d` is written again. `LoopKnows` says the same of the other two decoders, whose
  loops read the same lengths and differ in what they refuse at the ends of the input and the output;
- `EncodersFit`: `FitsDst` for every level but the smallest, which breaks it (EncodeOverrun), with the
  widths, offsets and limits of the code (`FormatWidths`: another format would need other margins). The
  first two encoders look at `dstLimit` before some of what they emit and not before the rest ("We will
  not exceed dstLimit with the other encodings", encode_l1.go:195). `Fitting` says how far they can have
  come. In a block from 320 bytes on the code has, while level 1 searches, at most the limit and what a
  repeat can exceed it by (`Slack`), and the room behind the limit holds that and the next match. In a
  shorter one the limit is too close to the end for that, but there what has been emitted is never longer
  than what it stands for, and at most one byte longer when 290 bytes have been passed (`Behind`). The reference encoder compares after each match, and has eleven bytes behind
  its limit for the one after which it does not;
- `EncodersCorrect`: with these, `RoundTrip` and `DecodersAgree` for every level but the smallest
  without assuming `[]FitsDst`, from `FormatWidths` and `NearSources` alone.

`NearSources` asks that the blocks of the first level are not so long that the offsets of
EncodeFarOffset occur in them. `[]FitsDst` is asked for because a block longer than what it decodes to
is refused by Decode, whatever it means; for the smallest level it remains an assumption (EncodeOverrun),
for the others `EncodersFit` proves it. `CodeBytes`, `Meaning` and `Loop` are recursive functions. What holds of all three, that there is one such
function and that it is typed and decided by a part of its list, is proved once, for any list of
steps (`Along`), by induction on the natural numbers (`NatSet`).

Only model-checked:

- every liveness property, because it needs fairness and ENABLED;
- `ConvertedDecodes`, the LZ4 conversion;
- `FitsDst` for the smallest level, of which it holds only in short blocks.

The lemmas on induction and on thinning are in StreamWriterProofs and in IndexLifecycleProofs:
the two components use the same names for their variables and cannot be in scope together.

## Not modelled

What is left out is listed with its reason among the components of
`PROJECT.json`: the scores by which the smallest level chooses, dictionaries, the
fallback to Snappy and S2 blocks, the JSON form of
the index, ConvertStream, the stream reader and index loader of `internal/reference`, the
HTTP reader, and of `mz` its benchmarks, ranges of a file and flags.
`_generate` and the assembly are generated from the contract of the Go functions.

## Plan

1. The stream reader of `internal/reference` against `Valid`; Seek relative to the current
   position.
2. Proofs: `ConvertedDecodes`.
