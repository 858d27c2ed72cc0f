--------------------------- MODULE StreamWriter ----------------------------
(***************************************************************************)
(* The stream Writer (writer.go): the goroutine that calls its methods, the *)
(* goroutine Reset starts to write blocks in order, one goroutine per block *)
(* that compresses, and the underlying io.Writer, which may fail.           *)
(*                                                                         *)
(* The user's data are numbered units 1, 2, ...; a Span [lo, hi] stands for *)
(* the units lo+1 .. hi.  An entry of the channel w.output is               *)
(* [kind, lo, hi, start, st]: st = "busy" while its block is compressed,    *)
(* "ready" once a result can be received, "caller" when the result is       *)
(* handed over by the calling goroutine itself.                             *)
(***************************************************************************)
EXTENDS StreamFormat, StreamIndex

CONSTANTS
  Concurrency,   \* WriterConcurrency; 1 means no goroutines
  BlockSize,     \* units in a full block, and the capacity of ibuf
  EstBlock,      \* estBlockUncomp after Index.reset
  FlushOnWrite,  \* WriterFlushOnWrite
  GenIndex,      \* WriterCreateIndex
  AppendIndex,   \* WriterAddIndex
  Pad,           \* WriterPadding; 0 or 1 is none
  MaxUnits,      \* bound: units given to one stream
  MaxUsers,      \* bound: AddUserChunk calls per stream
  MaxResets      \* bound: Reset calls

ASSUME WriterAssumption ==
  /\ Concurrency \in Nat \ {0}
  /\ BlockSize \in Nat \ {0}
  /\ EstBlock \in Nat \ {0}
  /\ FlushOnWrite \in BOOLEAN
  /\ GenIndex \in BOOLEAN
  /\ AppendIndex \in BOOLEAN
  /\ AppendIndex => GenIndex
  /\ Pad \in Nat
  /\ MaxUnits \in Nat /\ MaxUsers \in Nat /\ MaxResets \in Nat

VARIABLES
  pc,       \* where the calling goroutine is; "idle" between calls
  call,     \* the exported method being executed
  ret,      \* where it continues after write or writeSync
  p,        \* what is left of the argument of Write or EncodeBuffer
  wp,       \* what is left of the argument of write, writeFull or writeSync
  ibuf,     \* w.ibuf
  hdr,      \* w.wroteStreamHeader
  uncomp,   \* w.uncompWritten
  err,      \* w.errState
  open,     \* w.output # nil
  chan,     \* the entries queued in w.output
  sealed,   \* close(w.output) was called
  wpc,      \* the writer goroutine: "range", "wait", "write" or "exited"
  cur,      \* the entry it has taken
  out,      \* chunks complete on the underlying writer
  ends,     \* the offset of the underlying writer each of them ends at
  torn,     \* a part of a chunk may follow them
  written,  \* w.written
  ix,       \* w.index
  fed,      \* history: units the user has handed over
  users,    \* history: AddUserChunk calls on this stream
  resets    \* history: Reset calls

callVars   == <<pc, call, ret, p, wp>>
inputVars  == <<ibuf, hdr, uncomp>>
queueVars  == <<open, chan, sealed>>
sinkVars   == <<out, ends, torn, written, ix>>
boundVars  == <<fed, users, resets>>
vars == <<callVars, inputVars, err, queueVars, wpc, cur, sinkVars, boundVars>>

Span(lo, hi) == [lo |-> lo, hi |-> hi]
Nothing == Span(0, 0)
Size(s) == s.hi - s.lo

Entry(kind, lo, hi, start, st) ==
  [kind |-> kind, lo |-> lo, hi |-> hi, start |-> start, st |-> st]
NoEntry == Entry("none", 0, 0, 0, "none")

Errors == {"none", "io", "src", "rand", "closed", "nil"}

-----------------------------------------------------------------------------
(* NewWriter and Reset *)

\* Faulty: the index keeps the entries of the stream before.
FreshButIndex(nilWriter) ==
  /\ ibuf' = Nothing /\ hdr' = FALSE /\ uncomp' = 0
  /\ err' = IF nilWriter THEN "nil" ELSE "none"
  /\ open' = (~nilWriter /\ Concurrency > 1)
  /\ chan' = <<>> /\ sealed' = FALSE
  /\ wpc' = IF open' THEN "range" ELSE "exited"
  /\ cur' = NoEntry
  /\ out' = <<>> /\ ends' = <<>> /\ torn' = FALSE /\ written' = 0 /\ ix' = ix
  /\ fed' = 0 /\ users' = 0

Fresh(nilWriter) ==
  /\ ibuf' = Nothing /\ hdr' = FALSE /\ uncomp' = 0
  /\ err' = IF nilWriter THEN "nil" ELSE "none"
  /\ open' = (~nilWriter /\ Concurrency > 1)
  /\ chan' = <<>> /\ sealed' = FALSE
  /\ wpc' = IF open' THEN "range" ELSE "exited"
  /\ cur' = NoEntry
  /\ out' = <<>> /\ ends' = <<>> /\ torn' = FALSE /\ written' = 0
  /\ ix' = EmptyIndex(EstBlock)
  /\ fed' = 0 /\ users' = 0

Init ==
  /\ pc = "idle" /\ call = "none" /\ ret = "idle" /\ p = Nothing /\ wp = Nothing
  /\ ibuf = Nothing /\ hdr = FALSE /\ uncomp = 0
  /\ err = "none"
  /\ open = (Concurrency > 1) /\ chan = <<>> /\ sealed = FALSE
  /\ wpc = (IF Concurrency > 1 THEN "range" ELSE "exited")
  /\ cur = NoEntry
  /\ out = <<>> /\ ends = <<>> /\ torn = FALSE /\ written = 0 /\ ix = EmptyIndex(EstBlock)
  /\ fed = 0 /\ users = 0 /\ resets = 0

-----------------------------------------------------------------------------
(* Where the calling goroutine goes next *)

\* Continue at a stage, or return from the exported method at "idle".
GoTo(stage) ==
  /\ pc' = stage
  /\ call' = IF stage = "idle" THEN "none" ELSE call
  /\ p' = IF stage \in {"idle", "flush"} THEN Nothing ELSE p

Return == GoTo("idle") /\ ret' = "idle" /\ wp' = Nothing

\* write(span): writeSync without concurrency, else the queueing loop.
Sender == IF Concurrency = 1 THEN "sync" ELSE "send"

\* Faulty: always written by the caller.
FlushBufferDirect(stage) ==
  IF ibuf = Nothing
  THEN pc' = stage /\ ret' = "idle" /\ wp' = Nothing /\ UNCHANGED ibuf
  ELSE pc' = "sync" /\ ret' = stage /\ wp' = ibuf /\ ibuf' = Nothing

\* AsyncFlush, then stage.  Before the stream header is out, writeSync writes
\* the buffered data from this goroutine even when there is a writer goroutine.
FlushBuffer(stage) ==
  IF ibuf = Nothing
  THEN pc' = stage /\ ret' = "idle" /\ wp' = Nothing /\ UNCHANGED ibuf
  ELSE /\ pc' = IF hdr THEN Sender ELSE "sync"
       /\ ret' = stage /\ wp' = ibuf /\ ibuf' = Nothing

\* Flush and closeIndex: what follows once Flush returns.
FlushReturns == GoTo(IF call \in {"Close", "CloseIndex"} THEN "close" ELSE "idle")

-----------------------------------------------------------------------------
(* The exported methods are entered *)

\* With an error set every method but Close, CloseIndex and Reset returns it.
Entered(method) == pc = "idle" /\ err = "none" /\ call' = method

Accept(n) == fed + n <= MaxUnits /\ fed' = fed + n

CallWrite(n) ==
  /\ Entered("Write") /\ Accept(n)
  /\ IF FlushOnWrite
     THEN pc' = Sender /\ ret' = "idle" /\ wp' = Span(fed, fed + n) /\ p' = Nothing
     ELSE pc' = "loop" /\ ret' = "idle" /\ wp' = Nothing /\ p' = Span(fed, fed + n)
  /\ UNCHANGED <<inputVars, err, queueVars, wpc, cur, sinkVars, users, resets>>

\* EncodeBuffer; also ReadFrom when its reader has a Bytes method.
CallEncodeBuffer(n) ==
  /\ Entered("EncodeBuffer") /\ Accept(n)
  /\ IF FlushOnWrite
     THEN pc' = Sender /\ ret' = "idle" /\ wp' = Span(fed, fed + n) /\ p' = Nothing /\ UNCHANGED ibuf
     ELSE FlushBuffer("enc") /\ p' = Span(fed, fed + n)
  /\ UNCHANGED <<hdr, uncomp, err, queueVars, wpc, cur, sinkVars, users, resets>>

CallReadFrom ==
  /\ Entered("ReadFrom") /\ FlushBuffer("rf")
  /\ UNCHANGED <<p, hdr, uncomp, err, queueVars, wpc, cur, sinkVars, boundVars>>

CallAddUserChunk ==
  /\ Entered("AddUserChunk") /\ pc' = "user"
  /\ users < MaxUsers /\ users' = users + 1
  /\ UNCHANGED <<ret, p, wp, inputVars, err, queueVars, wpc, cur, sinkVars, fed, resets>>

CallFlush(method) ==
  /\ Entered(method)
  /\ IF method = "AsyncFlush" THEN ibuf # Nothing /\ FlushBuffer("idle") ELSE FlushBuffer("flush")
  /\ UNCHANGED <<p, hdr, uncomp, err, queueVars, wpc, cur, sinkVars, boundVars>>

\* Close and CloseIndex; with an error set Flush returns it and closing goes on.
CallClose(method) ==
  /\ pc = "idle" /\ call' = method
  /\ IF err = "none"
     THEN FlushBuffer("flush")
     ELSE pc' = "close" /\ UNCHANGED <<ret, wp, ibuf>>
  /\ UNCHANGED <<p, hdr, uncomp, err, queueVars, wpc, cur, sinkVars, boundVars>>

\* Reset closes the channel of a stream that is still open ...
CallReset ==
  /\ pc = "idle" /\ pc' = "reset" /\ call' = "Reset"
  /\ resets < MaxResets /\ resets' = resets + 1
  /\ sealed' = open
  /\ UNCHANGED <<ret, p, wp, inputVars, err, open, chan, wpc, cur, sinkVars, fed, users>>

\* ... waits for the writer goroutine and starts over, with a new one if a
\* writer is given.
ResetDone ==
  /\ pc = "reset" /\ wpc = "exited"
  /\ \E nilWriter \in BOOLEAN : Fresh(nilWriter)
  /\ Return
  /\ UNCHANGED resets

-----------------------------------------------------------------------------
(* Write: cut the argument at the buffer's capacity *)

\* Faulty: ahead of what is in the buffer.
LoopDirectAhead ==
  /\ pc = "loop" /\ err = "none"
  /\ Size(p) > BlockSize
  /\ pc' = Sender /\ ret' = "loop" /\ wp' = p /\ p' = Span(p.hi, p.hi)
  /\ UNCHANGED <<call, inputVars, err, queueVars, wpc, cur, sinkVars, boundVars>>

\* Too much for the buffer and nothing in it: write directly from the argument.
LoopDirect ==
  /\ pc = "loop" /\ err = "none"
  /\ ibuf = Nothing /\ Size(p) > BlockSize
  /\ pc' = Sender /\ ret' = "loop" /\ wp' = p /\ p' = Span(p.hi, p.hi)
  /\ UNCHANGED <<call, inputVars, err, queueVars, wpc, cur, sinkVars, boundVars>>

\* Fill the buffer up and write it.
LoopFill ==
  LET n == BlockSize - Size(ibuf)
  IN  /\ pc = "loop" /\ err = "none"
      /\ ibuf # Nothing /\ Size(p) > n
      /\ pc' = Sender /\ ret' = "loop"
      /\ wp' = Span(ibuf.lo, ibuf.hi + n) /\ ibuf' = Nothing
      /\ p' = Span(p.lo + n, p.hi)
      /\ UNCHANGED <<call, hdr, uncomp, err, queueVars, wpc, cur, sinkVars, boundVars>>

\* The rest fits: keep it in the buffer and return.
LoopBuffer ==
  /\ pc = "loop" /\ err = "none"
  /\ Size(p) <= BlockSize - Size(ibuf)
  /\ ibuf' = IF Size(p) = 0 THEN ibuf
             ELSE IF ibuf = Nothing THEN p ELSE Span(ibuf.lo, ibuf.hi + Size(p))
  /\ Return
  /\ UNCHANGED <<hdr, uncomp, err, queueVars, wpc, cur, sinkVars, boundVars>>

\* Write, EncodeBuffer and ReadFrom give up when an error has been set.
Abandon ==
  /\ pc \in {"loop", "enc", "rf"} /\ err # "none"
  /\ Return
  /\ UNCHANGED <<inputVars, err, queueVars, wpc, cur, sinkVars, boundVars>>

-----------------------------------------------------------------------------
(* write, writeFull and EncodeBuffer with concurrency: queue blocks in order *)

\* w.output <- entry blocks when the channel is full, for ever when it is nil.
Queue(entry) ==
  /\ open /\ Len(chan) < Concurrency
  /\ chan' = Append(chan, entry)

\* The header's entry has an unbuffered channel: the caller hands it over.
QueueHeader ==
  /\ hdr' = TRUE
  /\ Queue(Entry("header", uncomp, uncomp, uncomp, "caller"))
  /\ pc' = "hand"

SendHeader ==
  /\ pc = "send" /\ ~hdr /\ Size(wp) > 0
  /\ QueueHeader
  /\ UNCHANGED <<call, ret, p, wp, ibuf, uncomp, err, open, sealed, wpc, cur, sinkVars, boundVars>>

\* Faulty: the argument is not cut.
SendWhole ==
  /\ pc = "send" /\ hdr /\ Size(wp) > 0
  /\ Queue(Entry("data", wp.lo, wp.hi, uncomp, "busy"))
  /\ uncomp' = uncomp + Size(wp)
  /\ wp' = Span(wp.hi, wp.hi)
  /\ UNCHANGED <<pc, call, ret, p, ibuf, hdr, err, open, sealed, wpc, cur, sinkVars, boundVars>>

\* A block takes its place in the channel before its goroutine compresses it.
SendBlock ==
  LET n == Min({BlockSize, Size(wp)})
  IN  /\ pc = "send" /\ hdr /\ Size(wp) > 0
      /\ Queue(Entry("data", wp.lo, wp.lo + n, uncomp, "busy"))
      /\ uncomp' = uncomp + n
      /\ wp' = Span(wp.lo + n, wp.hi)
      /\ UNCHANGED <<pc, call, ret, p, ibuf, hdr, err, open, sealed, wpc, cur, sinkVars, boundVars>>

SendDone ==
  /\ pc = "send" /\ Size(wp) = 0
  /\ GoTo(ret) /\ ret' = "idle" /\ wp' = Nothing
  /\ UNCHANGED <<inputVars, err, queueVars, wpc, cur, sinkVars, boundVars>>

\* EncodeBuffer sends the header even when there is nothing to encode.
EncodeStart ==
  /\ pc = "enc" /\ err = "none"
  /\ wp' = p /\ p' = Nothing /\ ret' = "idle"
  /\ IF Concurrency = 1 \/ hdr
     THEN pc' = Sender /\ UNCHANGED <<hdr, chan>>
     ELSE QueueHeader
  /\ UNCHANGED <<call, ibuf, uncomp, err, open, sealed, wpc, cur, sinkVars, boundVars>>

-----------------------------------------------------------------------------
(* writeSync: the calling goroutine writes *)

\* One chunk, complete, at the end of what the underlying writer has.
Emit(kind, lo, hi, size) ==
  /\ out' = Append(out, Chunk(kind, lo, hi))
  /\ ends' = Append(ends, EndOf(ends) + size)

SyncHeader ==
  /\ pc = "sync" /\ err = "none" /\ ~hdr
  /\ hdr' = TRUE
  /\ Emit("header", uncomp, uncomp, SizeOf("header"))
  /\ written' = written + SizeOf("header")
  /\ UNCHANGED <<callVars, ibuf, uncomp, err, queueVars, wpc, cur, torn, ix, boundVars>>

\* Faulty: the end of the chunk's header instead of its start.
RecordLate(c, u) == ix' = IF GenIndex THEN Add(ix, c + 1, u) ELSE ix

\* w.index.add, which does nothing when there is no index.
Record(c, u) == ix' = IF GenIndex THEN Add(ix, c, u) ELSE ix

\* A block that compressed is one Write; for one that did not, the chunk header
\* is written first and the data in a second Write.
SyncBlock(kind) ==
  LET n == Min({BlockSize, Size(wp)})
  IN  /\ pc = "sync" /\ err = "none" /\ hdr /\ Size(wp) > 0
      /\ Record(written, uncomp)
      /\ written' = written + 1
      /\ uncomp' = uncomp + n
      /\ IF kind = "comp"
         THEN /\ Emit("comp", wp.lo, wp.lo + n, SizeOf("comp"))
              /\ wp' = Span(wp.lo + n, wp.hi)
              /\ UNCHANGED <<pc, torn>>
         ELSE pc' = "raw" /\ torn' = TRUE /\ UNCHANGED <<out, ends, wp>>
      /\ UNCHANGED <<call, ret, p, ibuf, hdr, err, queueVars, wpc, cur, boundVars>>

\* Faulty: w.written counts the chunk header only.
SyncRawUncounted ==
  LET n == Min({BlockSize, Size(wp)})
  IN  /\ pc = "raw"
      /\ Emit("raw", wp.lo, wp.lo + n, SizeOf("raw"))
      /\ torn' = FALSE
      /\ wp' = Span(wp.lo + n, wp.hi)
      /\ pc' = "sync"
      /\ UNCHANGED <<call, ret, p, inputVars, err, queueVars, wpc, cur, written, ix, boundVars>>

SyncRaw ==
  LET n == Min({BlockSize, Size(wp)})
  IN  /\ pc = "raw"
      /\ Emit("raw", wp.lo, wp.lo + n, SizeOf("raw"))
      /\ torn' = FALSE
      /\ written' = written + 1
      /\ wp' = Span(wp.lo + n, wp.hi)
      /\ pc' = "sync"
      /\ UNCHANGED <<call, ret, p, inputVars, err, queueVars, wpc, cur, ix, boundVars>>

\* Faulty: a short write goes unnoticed and the block is skipped.
SyncFailForgotten ==
  LET n == Min({BlockSize, Size(wp)})
  IN  /\ pc = "sync" /\ err = "none" /\ hdr /\ Size(wp) > 0
      /\ wp' = Span(wp.lo + n, wp.hi) /\ uncomp' = uncomp + n
      /\ UNCHANGED <<pc, call, ret, p, ibuf, hdr, err, queueVars, wpc, cur, sinkVars, boundVars>>

\* A Write that fails or is short ends writeSync; what it wrote is not counted.
SyncFail ==
  /\ \/ pc = "raw"
     \/ pc = "sync" /\ err = "none" /\ (~hdr \/ Size(wp) > 0)
  /\ hdr' = TRUE
  /\ err' = "io" /\ torn' = TRUE
  /\ GoTo(ret) /\ ret' = "idle" /\ wp' = Nothing
  /\ UNCHANGED <<ibuf, uncomp, queueVars, wpc, cur, out, ends, written, ix, boundVars>>

SyncDone ==
  /\ pc = "sync" /\ err = "none" /\ hdr /\ Size(wp) = 0
  /\ GoTo(ret) /\ ret' = "idle" /\ wp' = Nothing
  /\ UNCHANGED <<inputVars, err, queueVars, wpc, cur, sinkVars, boundVars>>

-----------------------------------------------------------------------------
(* ReadFrom: one block per io.ReadFull *)

\* n units were read; fewer than a block means the reader is at its end.
ReadBlock(n) ==
  /\ pc = "rf" /\ err = "none" /\ Accept(n)
  /\ wp' = Span(fed, fed + n) /\ pc' = Sender
  /\ ret' = IF n < BlockSize THEN "idle" ELSE "rf"
  /\ UNCHANGED <<call, p, inputVars, err, queueVars, wpc, cur, sinkVars, users, resets>>

\* io.EOF with nothing read, or another error of the reader, which stays set
\* (and whatever a failing read returned is dropped).
ReadEnd ==
  /\ pc = "rf" /\ err = "none"
  /\ err' \in {"none", "src"}
  /\ Return
  /\ UNCHANGED <<inputVars, queueVars, wpc, cur, sinkVars, boundVars>>

-----------------------------------------------------------------------------
(* AddUserChunk: does not flush ibuf, the chunk goes ahead of buffered data *)

UserHeader ==
  /\ pc = "user" /\ ~hdr
  /\ IF Concurrency = 1
     THEN /\ hdr' = TRUE
          /\ Emit("header", uncomp, uncomp, SizeOf("header"))
          /\ written' = written + SizeOf("header")
          /\ UNCHANGED <<pc, chan>>
     ELSE QueueHeader /\ UNCHANGED <<out, ends, written>>
  /\ UNCHANGED <<call, ret, p, wp, ibuf, uncomp, err, open, sealed, wpc, cur, torn, ix, boundVars>>

UserQueue ==
  /\ pc = "user" /\ hdr /\ Concurrency > 1
  /\ Queue(Entry("user", uncomp, uncomp, uncomp, "ready"))
  /\ Return
  /\ UNCHANGED <<inputVars, err, open, sealed, wpc, cur, sinkVars, boundVars>>

\* Without concurrency: index entry, chunk header, chunk data.
UserSync ==
  /\ pc = "user" /\ hdr /\ Concurrency = 1
  /\ IF uncomp > 0 THEN Record(written, uncomp) ELSE UNCHANGED ix
  /\ written' = written + 1 /\ torn' = TRUE
  /\ pc' = "userdata"
  /\ UNCHANGED <<call, ret, p, wp, inputVars, err, queueVars, wpc, cur, out, ends, boundVars>>

UserData ==
  /\ pc = "userdata"
  /\ Emit("user", uncomp, uncomp, SizeOf("user"))
  /\ written' = written + 1 /\ torn' = FALSE
  /\ Return
  /\ UNCHANGED <<inputVars, err, queueVars, wpc, cur, ix, boundVars>>

UserFail ==
  /\ pc = "userdata" \/ (pc = "user" /\ Concurrency = 1)
  /\ hdr' = TRUE
  /\ err' = "io" /\ torn' = TRUE
  /\ IF pc = "user" /\ hdr /\ uncomp > 0 THEN Record(written, uncomp) ELSE UNCHANGED ix
  /\ Return
  /\ UNCHANGED <<ibuf, uncomp, queueVars, wpc, cur, out, ends, written, boundVars>>

-----------------------------------------------------------------------------
(* Flush and closeIndex *)

\* Faulty: Flush is AsyncFlush.
FlushQueueNothing ==
  /\ pc = "flush"
  /\ FlushReturns
  /\ UNCHANGED <<ret, wp, inputVars, err, queueVars, wpc, cur, sinkVars, boundVars>>

\* An empty entry is queued behind everything; AsyncFlush's error or a missing
\* channel ends Flush at once.
FlushQueue ==
  /\ pc = "flush"
  /\ IF err # "none" \/ ~open
     THEN FlushReturns /\ UNCHANGED chan
     ELSE /\ Queue(Entry("flush", uncomp, uncomp, uncomp, "caller"))
          /\ pc' = "fhand" /\ UNCHANGED <<call, p>>
  /\ UNCHANGED <<ret, wp, inputVars, err, open, sealed, wpc, cur, sinkVars, boundVars>>

CloseOutput ==
  /\ pc = "close" /\ open /\ ~sealed
  /\ sealed' = TRUE
  /\ UNCHANGED <<callVars, inputVars, err, open, chan, wpc, cur, sinkVars, boundVars>>

\* Faulty: without writerWg.Wait.
CloseJoinEarly ==
  /\ pc = "close" /\ (open => sealed)
  /\ open' = FALSE /\ pc' = "eof"
  /\ UNCHANGED <<call, ret, p, wp, inputVars, err, chan, sealed, wpc, cur, sinkVars, boundVars>>

\* writerWg.Wait, w.output = nil.
CloseJoin ==
  /\ pc = "close" /\ (open => sealed /\ wpc = "exited")
  /\ open' = FALSE /\ pc' = "eof"
  /\ UNCHANGED <<call, ret, p, wp, inputVars, err, chan, sealed, wpc, cur, sinkVars, boundVars>>

\* Close asks for an index when one is to be appended, CloseIndex always.
WantIndex == AppendIndex \/ call = "CloseIndex"

\* An error is set or returned ("index requested, but was asked to not generate
\* one"): nothing is written.
CloseFailed ==
  /\ pc = "eof" /\ ((WantIndex /\ ~GenIndex) \/ err # "none")
  /\ Return
  /\ UNCHANGED <<inputVars, err, queueVars, wpc, cur, sinkVars, boundVars>>

WriteEOF ==
  /\ pc = "eof" /\ (WantIndex => GenIndex) /\ err = "none"
  /\ written' = written + SizeOf("eof")
  /\ \/ /\ Emit("eof", uncomp, uncomp, SizeOf("eof"))
        /\ pc' = "pad"
        /\ UNCHANGED <<call, ret, p, wp, err, torn>>
     \/ err' = "io" /\ torn' = TRUE /\ Return /\ UNCHANGED <<out, ends>>
  /\ UNCHANGED <<inputVars, queueVars, wpc, cur, ix, boundVars>>

\* The stored index takes one unit and one per entry.
IndexSize(x) == 1 + Len(x.off)

\* w.written as the padding sees it.
Counted(stored) == IF AppendIndex THEN written + IndexSize(stored) ELSE written

\* The padding counts the index that will follow it.  When the padding cannot
\* be written the index still is.
WritePadding ==
  LET stored  == IF WantIndex THEN Reduce(ix) ELSE ix
      counted == Counted(stored)
      add     == IF Pad > 1 THEN CalcSkippableFrame(counted, Pad) ELSE 0
  IN  /\ pc = "pad"
      /\ ix' = stored
      /\ \/ /\ IF add = 0 THEN UNCHANGED <<out, ends>> ELSE Emit("pad", uncomp, uncomp, add)
            /\ written' = counted + add
            /\ pc' = "index"
            /\ UNCHANGED <<call, ret, p, wp, err, torn>>
         \/ /\ Pad > 1
            /\ err' = "io" /\ torn' = TRUE
            /\ pc' = "index" /\ written' = counted
            /\ UNCHANGED <<call, ret, p, wp, out, ends>>
         \/ /\ add > 0
            /\ err' = "rand" /\ written' = counted
            /\ Return /\ UNCHANGED <<out, ends, torn>>
      /\ UNCHANGED <<inputVars, queueVars, wpc, cur, boundVars>>

SetErr(e) == err' = IF err = "none" THEN e ELSE err

\* The index goes last (its size is in written already), then the Writer is
\* marked closed unless an error was set before.
WriteIndex ==
  /\ pc = "index"
  /\ \/ /\ IF AppendIndex
           THEN Emit("index", uncomp, uncomp, IndexSize(ix))
           ELSE UNCHANGED <<out, ends>>
        /\ SetErr("closed") /\ UNCHANGED torn
     \/ AppendIndex /\ SetErr("io") /\ torn' = TRUE /\ UNCHANGED <<out, ends>>
  /\ Return
  /\ UNCHANGED <<inputVars, queueVars, wpc, cur, written, ix, boundVars>>

-----------------------------------------------------------------------------
(* The goroutines that compress: one for each busy entry *)

\* The block compressed, or it is stored as it is.
Compressed(entry, kind) == [entry EXCEPT !.kind = kind, !.st = "ready"]

Compress(kind) ==
  /\ \/ /\ cur.st = "busy"
        /\ cur' = Compressed(cur, kind) /\ UNCHANGED chan
     \/ \E k \in DOMAIN chan :
          /\ chan[k].st = "busy"
          /\ chan' = [chan EXCEPT ![k] = Compressed(@, kind)]
          /\ UNCHANGED cur
  /\ UNCHANGED <<callVars, inputVars, err, open, sealed, wpc, sinkVars, boundVars>>

-----------------------------------------------------------------------------
(* The writer goroutine Reset starts *)

Take ==
  /\ wpc = "range" /\ chan # <<>>
  /\ cur' = Head(chan) /\ chan' = Tail(chan)
  /\ wpc' = "wait"
  /\ UNCHANGED <<callVars, inputVars, err, open, sealed, sinkVars, boundVars>>

\* The calling goroutine hands its entry over and goes on, in Flush to wait.
Hand ==
  /\ wpc = "wait" /\ cur.st = "caller" /\ pc \in {"hand", "fhand"}
  /\ cur' = [cur EXCEPT !.st = "ready"]
  /\ pc' = IF pc = "fhand" THEN "fwait" ELSE IF call = "AddUserChunk" THEN "user" ELSE "send"
  /\ UNCHANGED <<call, ret, p, wp, inputVars, err, queueVars, wpc, sinkVars, boundVars>>

\* Faulty: blocks are written after a failed one.
SkipsFlush == cur.kind = "flush"

\* A result with nothing in it, or after an error, is not written ...
Skips == cur.kind = "flush" \/ err # "none"

\* Faulty: after an error the channel is not closed.
SkipSilent ==
  /\ wpc = "wait" /\ cur.st = "ready" /\ Skips
  /\ wpc' = "range" /\ cur' = NoEntry
  /\ IF cur.kind = "flush" /\ err = "none" THEN FlushReturns ELSE UNCHANGED <<pc, call, p>>
  /\ UNCHANGED <<ret, wp, inputVars, err, queueVars, sinkVars, boundVars>>

\* ... its channel is closed all the same, which is what Flush waits for.
Skip ==
  /\ wpc = "wait" /\ cur.st = "ready" /\ Skips
  /\ wpc' = "range" /\ cur' = NoEntry
  /\ IF cur.kind = "flush" THEN FlushReturns ELSE UNCHANGED <<pc, call, p>>
  /\ UNCHANGED <<ret, wp, inputVars, err, queueVars, sinkVars, boundVars>>

Begin ==
  /\ wpc = "wait" /\ cur.st = "ready" /\ ~Skips
  /\ wpc' = "write"
  /\ UNCHANGED <<callVars, inputVars, err, queueVars, cur, sinkVars, boundVars>>

\* writer.Write, then the index entry, whatever Write returned.
WriteOut ==
  /\ wpc = "write"
  /\ wpc' = "range" /\ cur' = NoEntry
  /\ Record(written, cur.start)
  /\ \/ /\ Emit(cur.kind, cur.lo, cur.hi, SizeOf(cur.kind))
        /\ written' = written + SizeOf(cur.kind)
        /\ UNCHANGED <<err, torn>>
     \/ SetErr("io") /\ torn' = TRUE /\ UNCHANGED <<out, ends, written>>
  /\ UNCHANGED <<callVars, inputVars, queueVars, boundVars>>

Exit ==
  /\ wpc = "range" /\ chan = <<>> /\ sealed
  /\ wpc' = "exited"
  /\ UNCHANGED <<callVars, inputVars, err, queueVars, cur, sinkVars, boundVars>>

-----------------------------------------------------------------------------

Calls ==
  \/ \E n \in 0 .. MaxUnits : CallWrite(n) \/ CallEncodeBuffer(n)
  \/ CallReadFrom
  \/ CallAddUserChunk
  \/ \E m \in {"Flush", "AsyncFlush"} : CallFlush(m)
  \/ \E m \in {"Close", "CloseIndex"} : CallClose(m)
  \/ CallReset

Running ==
  \/ ResetDone
  \/ LoopDirect \/ LoopFill \/ LoopBuffer \/ Abandon
  \/ SendHeader \/ SendBlock \/ SendDone \/ EncodeStart
  \/ SyncHeader \/ SyncBlock("comp") \/ SyncBlock("raw") \/ SyncRaw \/ SyncFail \/ SyncDone
  \/ (\E n \in 1 .. BlockSize : ReadBlock(n)) \/ ReadEnd
  \/ UserHeader \/ UserQueue \/ UserSync \/ UserData \/ UserFail
  \/ FlushQueue \/ CloseOutput \/ CloseJoin
  \/ CloseFailed \/ WriteEOF \/ WritePadding \/ WriteIndex

Compressing == \E kind \in DataKinds : Compress(kind)

Draining == Take \/ Hand \/ Skip \/ Begin \/ WriteOut \/ Exit

Next == Calls \/ Running \/ Compressing \/ Draining

Spec == Init /\ [][Next]_vars

\* Nobody has to call a method; a method that runs, a compression and the
\* writer goroutine go on, and every Write of the underlying writer returns.
FairSpec == Spec /\ WF_vars(Running) /\ WF_vars(Compressing) /\ WF_vars(Draining)

-----------------------------------------------------------------------------
(* Properties *)

Spans == [lo : Nat, hi : Nat]
Chunks == [kind : Kinds, lo : Nat, hi : Nat]
Entries == [kind : Kinds \cup {"data", "flush", "none"}, lo : Nat, hi : Nat, start : Nat,
            st : {"busy", "ready", "caller", "none"}]

\* The values the variables range over; the channel never exceeds its capacity
\* (ends, written and ix are the subject of the properties on offsets below).
TypeOK ==
  /\ pc \in {"idle", "reset", "loop", "send", "hand", "sync", "raw", "enc", "rf", "user",
             "userdata", "flush", "fhand", "fwait", "close", "eof", "pad", "index"}
  /\ call \in {"none", "Write", "EncodeBuffer", "ReadFrom", "AddUserChunk", "Flush",
               "AsyncFlush", "Close", "CloseIndex", "Reset"}
  /\ ret \in {"idle", "loop", "enc", "rf", "flush"}
  /\ p \in Spans /\ wp \in Spans /\ ibuf \in Spans
  /\ hdr \in BOOLEAN /\ uncomp \in Nat /\ err \in Errors
  /\ open \in BOOLEAN /\ sealed \in BOOLEAN
  /\ chan \in Seq(Entries) /\ Len(chan) <= Concurrency
  /\ wpc \in {"range", "wait", "write", "exited"} /\ cur \in Entries
  /\ out \in Seq(Chunks) /\ torn \in BOOLEAN
  /\ fed \in Nat /\ users \in Nat /\ resets \in Nat

\* Blocks are compressed in any order by as many goroutines as the channel
\* holds and buffered in three places on their way, yet the chunks on the
\* underlying writer carry the user's bytes in order, none twice and none
\* left out, whatever has failed (writer.go:151, 508).
InOrder ==
  /\ \A k \in DOMAIN out : out[k].lo = IF k = 1 THEN 0 ELSE out[k - 1].hi
  /\ DataEnd(out) <= fed

\* A block is never empty and never larger than the block size the header
\* announces, whichever of the four ways into the Writer it came
\* (writer.go:447, 1038).
BlocksFit ==
  \A k \in DOMAIN out : LET n == out[k].hi - out[k].lo
                        IN  IF out[k].kind \in DataKinds THEN 0 < n /\ n <= BlockSize ELSE n = 0

\* The stream identifier is written once, before anything else; only a stream
\* without any data or chunk has none and starts with its EOF marker.
HeaderFirst ==
  \A k \in DOMAIN out :
    /\ out[k].kind = "header" => k = 1
    /\ k = 1 => out[k].kind \in {"header", "eof"}

\* So the Reader accepts the stream's framing.
WellFormed == HeaderFirst /\ BlocksFit

\* When the calling goroutine itself uses the underlying writer, w.written and
\* w.index (AsyncFlush before the header, closeIndex), the writer goroutine has
\* nothing to write and nothing queued: no two goroutines use them at once.
DirectWriteAlone ==
  /\ pc \in {"sync", "raw", "userdata"} => chan = <<>> /\ wpc \in {"range", "exited"}
  /\ pc \in {"eof", "pad", "index"} => chan = <<>> /\ wpc = "exited"

\* index.add's "internal error" never happens: offsets arrive in order from
\* whichever goroutine records them.
AddNeverRefused ==
  /\ wpc = "write" => ~AddFails(ix, written, cur.start)
  /\ pc = "sync" \/ (pc = "user" /\ Concurrency = 1) => ~AddFails(ix, written, uncomp)

StartOf(k) == IF k = 1 THEN 0 ELSE ends[k - 1]

\* While nothing has failed every index entry is the start of a chunk, or the
\* place where the next one is being written, with the number of units before it.
IndexPointsAtChunks ==
  err \in {"none", "closed"} =>
    \A k \in DOMAIN ix.off :
      LET e == ix.off[k]
      IN  \/ \E j \in DOMAIN out : StartOf(j) = e.c /\ out[j].lo = e.u
          \/ torn /\ e.c = EndOf(ends) /\ e.u = DataEnd(out)

\* Both, also behind a Reset: the index is in step with the stream.
IndexInStep == AddNeverRefused /\ IndexPointsAtChunks

\* Once Close or CloseIndex has returned without an error, everything handed
\* over is on the underlying writer, followed by one EOF marker with the total
\* size and no data after it, and the goroutine is gone.
ClosedIsComplete ==
  err = "closed" =>
    /\ DataEnd(out) = fed /\ ~torn
    /\ \E k \in DOMAIN out :
         /\ out[k].kind = "eof" /\ out[k].hi = fed
         /\ \A j \in DOMAIN out : j > k => out[j].kind \in {"pad", "index"}
         /\ \A j \in DOMAIN out : j < k => out[j].kind # "eof"
    /\ wpc = "exited" /\ ~open

\* A closed stream is a multiple of the padding long although the index comes
\* after the padding and is counted before it, and Written reports its length.
ClosedIsPadded ==
  err = "closed" =>
    /\ written = EndOf(ends)
    /\ Pad > 1 => EndOf(ends) % Pad = 0

\* Written is exact when the Writer is between calls and nothing is under way.
WrittenIsExact ==
  (pc = "idle" /\ err = "none" /\ chan = <<>> /\ wpc \in {"range", "exited"}) =>
    written = EndOf(ends) /\ uncomp = DataEnd(out)

\* What Written reports, between calls and of a closed stream.
CountersExact == WrittenIsExact /\ ClosedIsPadded

\* Flush returns without an error only when all that was handed over before is
\* on the underlying writer (writer.go:734).
FlushIsBarrier ==
  [][(call = "Flush" /\ pc' = "idle" /\ err' = "none") => DataEnd(out') = fed /\ chan' = <<>>]_vars

\* What the user sees of the Writer's error state.
Status ==
  IF err = "none" THEN "open"
  ELSE IF err = "closed" THEN "closed"
  ELSE IF err = "nil" THEN "unset"
  ELSE IF err = "io" THEN "broken"
  ELSE "aborted"

Sink == INSTANCE OrderedSink
          WITH accepted <- fed, delivered <- DataEnd(out), status <- Status

\* The Writer implements OrderedSink.
ImplementsOrderedSink == Sink!Spec

\* Every method returns: no hand-over, full channel, barrier or join waits for
\* ever, even after a failure.
CallsReturn == pc # "idle" ~> pc = "idle"
=============================================================================
