------------------------- MODULE ConcurrentDecoder -------------------------
(***************************************************************************)
(* Reader.DecodeConcurrent (reader.go): the calling goroutine reads chunks; *)
(* one goroutine per compressed block decodes and writes it; one for each   *)
(* uncompressed block writes it.  The output w is handed from goroutine to  *)
(* goroutine in the order of the stream.  Input and output buffers and the  *)
(* entries of the queue circulate through channels.                         *)
(*                                                                         *)
(* A goroutine is known by the number of its chunk in the stream, the one   *)
(* started first, which writes nothing, by 0.                               *)
(***************************************************************************)
EXTENDS ReaderChunks

CONSTANTS
  Concurrency,  \* the argument concurrent, above 1
  Streams       \* bound: the streams there are to decode

ASSUME DecoderAssumption ==
  /\ Concurrency \in Nat \ {0, 1}
  /\ Streams \subseteq Seq(Chunks)
  \* an uncompressed block has no body that does not decode
  /\ \A s \in Streams : \A k \in 1 .. Len(s) : s[k].kind = "raw" => s[k].bad # "body"

VARIABLES
  stream,    \* the chunks r.r will deliver
  pos,       \* chunks read
  h,         \* the Reader's header state
  start,     \* r.blockStart
  rpc,       \* where the calling goroutine is
  rerr,      \* r.err
  aErr,      \* aErr
  rin, rout, \* the buffers the calling goroutine holds; 0 is none
  toRead, writtenBlocks,  \* the channels of free input and output buffers
  reUse,     \* entries in the channel reUse
  queue,     \* goroutines whose entries are in the channel queue
  closed,    \* close(queue) was called
  turn,      \* the goroutine w was sent to; NoOne once the queue ran out
  job,       \* the goroutines: [st, in, out]
  inHas, outHas,  \* the chunk whose data a buffer holds
  fresh,     \* the output buffers still nil
  wg,        \* the WaitGroup
  out,       \* history: the chunks whose data were written to w
  aWritten   \* aWritten

readerVars == <<pos, h, start, rpc, rerr, rin, rout>>
poolVars   == <<toRead, writtenBlocks, reUse>>
bufVars    == <<inHas, outHas, fresh>>
sinkVars   == <<out, aWritten>>
vars == <<stream, readerVars, aErr, poolVars, queue, closed, turn, job, bufVars, wg, sinkVars>>

NoOne == -1
Buffers == 1 .. Concurrency + 1

Init ==
  /\ stream \in Streams
  /\ pos = 0 /\ h = NewHeader /\ start = 0 /\ rpc = "chunk" /\ rerr = "none"
  /\ rin = 0 /\ rout = 0
  /\ aErr = "none"
  /\ toRead = [b \in Buffers |-> b] /\ writtenBlocks = [b \in Buffers |-> b]
  /\ reUse = Concurrency - 1
  /\ queue = <<>> /\ closed = FALSE /\ turn = 0
  /\ job = [k \in 0 .. Len(stream) |-> [st |-> IF k = 0 THEN "turn" ELSE "none", in |-> 0, out |-> 0]]
  /\ inHas = [b \in Buffers |-> 0] /\ outHas = [b \in Buffers |-> 0] /\ fresh = Buffers
  /\ wg = 1 /\ out = <<>> /\ aWritten = 0

\* The chunk being read.
Cur == stream[pos + 1]

\* setErr: the first error stays.
SetErr(e) == aErr' = IF aErr = "none" THEN e ELSE aErr

-----------------------------------------------------------------------------
(* The calling goroutine reads chunks *)

Stop(e) == rerr' = e /\ rpc' = "cleanup"

\* A goroutine has failed, or the stream is at its end.
ReadStop ==
  /\ rpc = "chunk"
  /\ \/ aErr # "none" /\ Stop("none")
     \/ aErr = "none" /\ pos = Len(stream) /\ Stop(IF h.wantEOF THEN "corrupt" ELSE "none")
  /\ UNCHANGED <<stream, pos, h, start, rin, rout, aErr, poolVars, queue, closed, turn, job, bufVars, wg, sinkVars>>

\* The next chunk, of one of the kinds.
Reading(kinds) == rpc = "chunk" /\ aErr = "none" /\ pos < Len(stream) /\ Cur.kind \in kinds

ReadRefused ==
  /\ Reading(ChunkKinds)
  /\ \/ Unheaded(h, Cur) /\ Stop("corrupt")
     \/ ~Unheaded(h, Cur) /\ Refused(Cur) # "none" /\ Stop(Refused(Cur))
     \/ ~Unheaded(h, Cur) /\ Cur.kind \in DataKinds /\ EarlyRefusal(h, Cur) # "none"
          /\ Stop(EarlyRefusal(h, Cur))
     \/ Cur.kind \in IdKinds /\ IdRefusal(Cur) # "none" /\ Stop(IdRefusal(Cur))
     \/ Cur.kind = "eof" /\ TotalRefused(Cur, start) /\ Stop("corrupt")
  /\ UNCHANGED <<stream, pos, h, start, rin, rout, aErr, poolVars, queue, closed, turn, job, bufVars, wg, sinkVars>>

ReadIdentifier ==
  /\ Reading(IdKinds) /\ IdRefusal(Cur) = "none"
  /\ h' = Identified(h, Cur) /\ start' = 0 /\ pos' = pos + 1
  /\ UNCHANGED <<stream, rpc, rerr, rin, rout, aErr, poolVars, queue, closed, turn, job, bufVars, wg, sinkVars>>

ReadEOF ==
  /\ Reading({"eof"}) /\ ~TotalRefused(Cur, start)
  /\ h' = AfterEOF(h) /\ pos' = pos + 1
  /\ UNCHANGED <<stream, start, rpc, rerr, rin, rout, aErr, poolVars, queue, closed, turn, job, bufVars, wg, sinkVars>>

ReadSkippable ==
  /\ Reading({"skip"}) /\ pos' = pos + 1
  /\ UNCHANGED <<stream, h, start, rpc, rerr, rin, rout, aErr, poolVars, queue, closed, turn, job, bufVars, wg, sinkVars>>

ReadData ==
  /\ Reading(DataKinds) /\ ~Unheaded(h, Cur) /\ EarlyRefusal(h, Cur) = "none"
  /\ rpc' = IF Cur.kind = "raw" THEN "raw" ELSE "in"
  /\ UNCHANGED <<stream, pos, h, start, rerr, rin, rout, aErr, poolVars, queue, closed, turn, job, bufVars, wg, sinkVars>>

\* orgBuf := <-toRead, the body is read into it and the sizes are checked.
TakeIn ==
  /\ rpc = "in" /\ toRead # <<>>
  /\ rin' = Head(toRead) /\ toRead' = Tail(toRead)
  /\ inHas' = [inHas EXCEPT ![rin'] = pos + 1]
  /\ IF LateRefusal(h, Cur) # "none"
     THEN Stop(LateRefusal(h, Cur)) /\ UNCHANGED <<start, wg>>
     ELSE /\ rpc' = "out" /\ UNCHANGED rerr
          \* the branch for legacy blocks adds r.j, which is zero
          /\ start' = IF Cur.kind = "legacy" THEN start ELSE start + Cur.n
          /\ wg' = wg + 1
  /\ UNCHANGED <<stream, pos, h, rout, aErr, writtenBlocks, reUse, queue, closed, turn, job, outHas, fresh, sinkVars>>

\* decoded := <-writtenBlocks; a nil buffer is allocated unless nothing goes into it.
TakeOut ==
  /\ rpc = "out" /\ writtenBlocks # <<>>
  /\ rout' = Head(writtenBlocks) /\ writtenBlocks' = Tail(writtenBlocks)
  /\ fresh' = IF Cur.n = 0 THEN fresh ELSE fresh \ {rout'}
  /\ rpc' = "entry"
  /\ UNCHANGED <<stream, pos, h, start, rerr, rin, aErr, toRead, reUse, queue, closed, turn, job, inHas, outHas, wg, sinkVars>>

\* Faulty: the data are not counted.
TakeRawUncounted ==
  /\ rpc = "raw" /\ writtenBlocks # <<>>
  /\ rout' = Head(writtenBlocks) /\ writtenBlocks' = Tail(writtenBlocks)
  /\ outHas' = [outHas EXCEPT ![rout'] = pos + 1] /\ fresh' = fresh \ {rout'}
  /\ IF LateRefusal(h, Cur) # "none" THEN Stop(LateRefusal(h, Cur)) ELSE rpc' = "entry" /\ UNCHANGED rerr
  /\ UNCHANGED <<stream, pos, h, start, rin, aErr, toRead, reUse, queue, closed, turn, job, inHas, wg, sinkVars>>

\* An uncompressed block is read into an output buffer and checked here.
TakeRaw ==
  /\ rpc = "raw" /\ writtenBlocks # <<>>
  /\ rout' = Head(writtenBlocks) /\ writtenBlocks' = Tail(writtenBlocks)
  /\ start' = start + Cur.n
  /\ outHas' = [outHas EXCEPT ![rout'] = pos + 1] /\ fresh' = fresh \ {rout'}
  /\ LET refusal == IF LateRefusal(h, Cur) = "none" /\ Cur.bad # "no" /\ ~IgnoreCRC
                    THEN "crc" ELSE LateRefusal(h, Cur)
     IN  IF refusal # "none" THEN Stop(refusal) ELSE rpc' = "entry" /\ UNCHANGED rerr
  /\ UNCHANGED <<stream, pos, h, rin, aErr, toRead, reUse, queue, closed, turn, job, inHas, wg, sinkVars>>

\* entry := <-reUse
TakeEntry ==
  /\ rpc = "entry" /\ reUse > 0
  /\ reUse' = reUse - 1 /\ rpc' = "queue"
  /\ UNCHANGED <<stream, pos, h, start, rerr, rin, rout, aErr, toRead, writtenBlocks, queue, closed, turn, job, bufVars, wg, sinkVars>>

\* queue <- entry, and the goroutine of the block is started.
Enqueue ==
  /\ rpc = "queue" /\ Len(queue) < Concurrency
  /\ queue' = Append(queue, pos + 1)
  /\ job' = [job EXCEPT ![pos + 1] =
               [st |-> IF Cur.kind = "raw" THEN "turn" ELSE "decode", in |-> rin, out |-> rout]]
  /\ rin' = 0 /\ rout' = 0 /\ pos' = pos + 1 /\ rpc' = "chunk"
  /\ UNCHANGED <<stream, h, start, rerr, aErr, poolVars, closed, turn, bufVars, wg, sinkVars>>

\* The deferred clean-up, ...
Cleanup ==
  /\ rpc = "cleanup"
  /\ SetErr(rerr) /\ closed' = TRUE /\ rpc' = "wait"
  /\ UNCHANGED <<stream, pos, h, start, rerr, rin, rout, poolVars, queue, turn, job, bufVars, wg, sinkVars>>

\* ... which waits for all goroutines.
Return ==
  /\ rpc = "wait" /\ wg = 0
  /\ rpc' = "done"
  /\ UNCHANGED <<stream, pos, h, start, rerr, rin, rout, aErr, poolVars, queue, closed, turn, job, bufVars, wg, sinkVars>>

\* Faulty: the goroutines' error is not looked at.
ResultOfReader == rerr

\* The error returned: r.err, or else aErr.
Result == IF rerr # "none" THEN rerr ELSE aErr

-----------------------------------------------------------------------------
(* The goroutine of chunk k *)

At(k, st) == job[k].st = st
Go(k, st) == job' = [job EXCEPT ![k].st = st]

Decode(k) ==
  /\ At(k, "decode") /\ Go(k, "release")
  /\ outHas' = [outHas EXCEPT ![job[k].out] = k]
  /\ UNCHANGED <<stream, readerVars, aErr, poolVars, queue, closed, turn, inHas, fresh, wg, sinkVars>>

\* toRead <- orgBuf
Release(k) ==
  /\ At(k, "release") /\ Go(k, IF stream[k].bad = "body" THEN "giveback" ELSE "crc")
  /\ toRead' = Append(toRead, job[k].in)
  /\ UNCHANGED <<stream, readerVars, aErr, writtenBlocks, reUse, queue, closed, turn, bufVars, wg, sinkVars>>

\* The checksum is of the decoded data, or for chunks of type 0x03 of the input
\* buffer, which is back in its channel and may be in use again.
SumHolds(k) ==
  /\ stream[k].bad = "no"
  /\ IF stream[k].kind = "compCRC" THEN inHas[job[k].in] = k ELSE outHas[job[k].out] = k

CheckCRC(k) ==
  /\ At(k, "crc") /\ Go(k, IF IgnoreCRC \/ SumHolds(k) THEN "turn" ELSE "giveback")
  /\ UNCHANGED <<stream, readerVars, aErr, poolVars, queue, closed, turn, bufVars, wg, sinkVars>>

\* Faulty: the buffer is written all the same.
GiveBackKept(k) ==
  /\ At(k, "giveback")
  /\ job' = [job EXCEPT ![k].st = "fail"]
  /\ writtenBlocks' = Append(writtenBlocks, job[k].out)
  /\ UNCHANGED <<stream, readerVars, aErr, toRead, reUse, queue, closed, turn, bufVars, wg, sinkVars>>

\* writtenBlocks <- decoded
GiveBack(k) ==
  /\ At(k, "giveback")
  /\ job' = [job EXCEPT ![k].st = "fail", ![k].out = 0]
  /\ writtenBlocks' = Append(writtenBlocks, job[k].out)
  /\ UNCHANGED <<stream, readerVars, aErr, toRead, reUse, queue, closed, turn, bufVars, wg, sinkVars>>

Fail(k) ==
  /\ At(k, "fail") /\ Go(k, "turn")
  /\ SetErr(IF stream[k].bad = "body" THEN "corrupt" ELSE "crc")
  /\ UNCHANGED <<stream, readerVars, poolVars, queue, closed, turn, bufVars, wg, sinkVars>>

\* Faulty: w is not waited for.
TakeTurnAnyway(k) ==
  /\ At(k, "turn") /\ Go(k, "write")
  /\ UNCHANGED <<stream, readerVars, aErr, poolVars, queue, closed, turn, bufVars, wg, sinkVars>>

\* writeBuf: w := <-entry
TakeTurn(k) ==
  /\ At(k, "turn") /\ turn = k /\ Go(k, "write")
  /\ UNCHANGED <<stream, readerVars, aErr, poolVars, queue, closed, turn, bufVars, wg, sinkVars>>

\* A failed block writes an empty buffer.
WriteBuf(k) ==
  /\ At(k, "write") /\ Go(k, "pass")
  /\ \/ SetErr("write") /\ UNCHANGED sinkVars
     \/ /\ UNCHANGED aErr
        /\ IF job[k].out = 0 THEN UNCHANGED sinkVars
           ELSE out' = Append(out, outHas[job[k].out]) /\ aWritten' = aWritten + stream[k].n
  /\ UNCHANGED <<stream, readerVars, poolVars, queue, closed, turn, bufVars, wg>>

\* buf # nil
HasBuf(k) == job[k].out \notin {0} \cup fresh

\* Faulty: the entry is not reused after a failure.
PassOnKeepsEntry(k) ==
  /\ At(k, "pass")
  /\ job' = [job EXCEPT ![k].st = "next", ![k].out = 0]
  /\ writtenBlocks' = IF HasBuf(k) THEN Append(writtenBlocks, job[k].out) ELSE writtenBlocks
  /\ reUse' = IF job[k].out = 0 THEN reUse ELSE reUse + 1
  /\ UNCHANGED <<stream, readerVars, aErr, toRead, queue, closed, turn, bufVars, wg, sinkVars>>

\* The buffer, unless it is nil, and the entry go back.
PassOn(k) ==
  /\ At(k, "pass")
  /\ job' = [job EXCEPT ![k].st = "next", ![k].out = 0]
  /\ writtenBlocks' = IF HasBuf(k) THEN Append(writtenBlocks, job[k].out) ELSE writtenBlocks
  /\ reUse' = reUse + 1
  /\ UNCHANGED <<stream, readerVars, aErr, toRead, queue, closed, turn, bufVars, wg, sinkVars>>

\* Goroutines of compressed blocks are in the WaitGroup.
Counted(k) == IF k > 0 /\ stream[k].kind # "raw" THEN 1 ELSE 0

\* next, ok := <-queue: w is sent to the next entry, or there is none.
Forward(k) ==
  /\ At(k, "next") /\ Go(k, "end")
  /\ \/ /\ queue # <<>>
        /\ turn' = Head(queue) /\ queue' = Tail(queue) /\ wg' = wg - Counted(k)
     \/ /\ queue = <<>> /\ closed
        /\ turn' = NoOne /\ wg' = wg - 1 - Counted(k) /\ UNCHANGED queue
  /\ UNCHANGED <<stream, readerVars, aErr, poolVars, closed, bufVars, sinkVars>>

-----------------------------------------------------------------------------

Reader ==
  \/ ReadStop \/ ReadRefused \/ ReadIdentifier \/ ReadEOF \/ ReadSkippable \/ ReadData
  \/ TakeIn \/ TakeOut \/ TakeRaw \/ TakeEntry \/ Enqueue \/ Cleanup \/ Return

Goroutine(k) ==
  \/ Decode(k) \/ Release(k) \/ CheckCRC(k) \/ GiveBack(k) \/ Fail(k)
  \/ TakeTurn(k) \/ WriteBuf(k) \/ PassOn(k) \/ Forward(k)

Next == Reader \/ \E k \in DOMAIN job : Goroutine(k)

Spec == Init /\ [][Next]_vars

\* The stream delivers, w.Write returns and every goroutine is scheduled.
FairSpec ==
  /\ Spec
  /\ WF_vars(Reader)
  /\ WF_vars(\E k \in DOMAIN job : Goroutine(k))

-----------------------------------------------------------------------------
(* Properties *)

\* A block that decodes, to the right data unless checksums are ignored.
Intact(k) == stream[k].bad = "no" \/ (IgnoreCRC /\ stream[k].bad = "crc")

\* Blocks are decoded in any order and their buffers go round, yet w receives
\* the data of intact blocks only, each once and in the order of the stream.
IntactInOrder ==
  /\ \A i \in DOMAIN out : Intact(out[i])
  /\ \A i, j \in DOMAIN out : i < j => out[i] < out[j]

\* The goroutines that may still use an output buffer, an input buffer.
UsesOut(k) == job[k].out # 0
UsesIn(k) == \/ job[k].st \in {"decode", "release"}
             \/ job[k].st = "crc" /\ stream[k].kind = "compCRC"

OutputOwned ==
  /\ \A i, j \in DOMAIN writtenBlocks : i # j => writtenBlocks[i] # writtenBlocks[j]
  /\ rout # 0 => rout \notin {writtenBlocks[i] : i \in DOMAIN writtenBlocks}
  /\ \A k \in DOMAIN job : UsesOut(k) =>
       /\ job[k].out # rout
       /\ job[k].out \notin {writtenBlocks[i] : i \in DOMAIN writtenBlocks}
       /\ \A m \in DOMAIN job \ {k} : job[m].out # job[k].out

InputOwned ==
  \A k \in DOMAIN job : UsesIn(k) =>
    /\ job[k].in # rin
    /\ job[k].in \notin {toRead[i] : i \in DOMAIN toRead}
    /\ \A m \in DOMAIN job \ {k} : UsesIn(m) => job[m].in # job[k].in

OneWriter == \A k \in DOMAIN job : job[k].st \in {"write", "pass", "next"} => turn = k

AllGone ==
  rpc = "done" => turn = NoOne /\ \A k \in DOMAIN job : job[k].st \in {"none", "end"}

\* A buffer is free, with the calling goroutine or with one other goroutine, and
\* in one of these places only; so is w; and when DecodeConcurrent has returned
\* no goroutine is left to hold either (reader.go:592-680).
Owned == OutputOwned /\ InputOwned /\ OneWriter /\ AllGone

\* The decoded size of the blocks on w.
Sizes ==
  LET sum[i \in 0 .. Len(out)] == IF i = 0 THEN 0 ELSE sum[i - 1] + stream[out[i]].n
  IN  sum[Len(out)]

DataChunks == {k \in DOMAIN stream : stream[k].kind \in DataKinds}

\* DecodeConcurrent returns nil only when the whole stream was read, no part of
\* it cut off before its EOF marker, and the data of every block are on w; and
\* it counts what it wrote.
SuccessIsComplete ==
  rpc = "done" =>
    /\ aWritten = Sizes
    /\ Result = "none" =>
         /\ pos = Len(stream) /\ {out[i] : i \in DOMAIN out} = DataChunks
         /\ \A k \in DOMAIN stream : stream[k].kind = "idMinLZ" =>
              \E m \in k .. Len(stream) : stream[m].kind = "eof"

\* "DecodeConcurrent will decode the full stream to w" (reader.go:569): a
\* stream as the format wants it, unless w fails.
ValidIsDecoded ==
  rpc = "done" /\ Valid(stream) /\ aErr # "write" => Result = "none"

\* The first Concurrency + 1 blocks are legacy blocks of nothing.
EmptyStart ==
  \E p \in DOMAIN stream :
    /\ Cardinality({k \in DataChunks : k <= p}) = Concurrency + 1
    /\ \A k \in DataChunks : k <= p => stream[k].kind = "legacy" /\ stream[k].n = 0

\* The calling goroutine waits for an output buffer.
WaitsForBuffer == rpc \in {"out", "raw"} /\ writtenBlocks = <<>>

\* DecodeConcurrent returns, whatever else the stream and w do, unless the stream
\* begins with more empty legacy blocks than there are goroutines: each takes a
\* buffer that is still nil, writeBuf gives no nil buffer back (reader.go:635), and
\* the block behind them waits for one for ever.  No other channel keeps a goroutine
\* waiting for ever, and no other stream uses up the buffers.
Returns == <>(rpc = "done") \/ (EmptyStart /\ <>[]WaitsForBuffer)
=============================================================================
