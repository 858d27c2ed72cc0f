---------------------------- MODULE WriterBuffers ----------------------------
(***************************************************************************)
(* The memory of a concurrent Writer (writer.go): whose buffer is whose.    *)
(*                                                                         *)
(* A block passes through buffers of the pool w.buffers, through w.ibuf and  *)
(* through the caller's own memory; the calling goroutine, the compression   *)
(* goroutines and the writer goroutine hand them on and give them back      *)
(* without a lock.  StreamWriter says which block is written when; this      *)
(* module says that its bytes are still the block's when they are read.     *)
(*                                                                         *)
(* A unit of data is as large as a block; ibuf holds one.  A chunk is the   *)
(* checksum of one content and the body of one, which had better agree.     *)
(***************************************************************************)
EXTENDS Integers, Sequences, FiniteSets

CONSTANTS
  Concurrency,   \* capacity of w.output, at least 2
  Bufs,          \* pooled buffers, numbered from 1
  Cells,         \* the caller's memory, a unit each, numbered below -1
  Padded,        \* WriterPadding above 1
  MaxBlocks,     \* bound: units given to the Writer
  MaxResets      \* bound: Reset calls

ASSUME BuffersAssumption ==
  /\ Concurrency \in Nat /\ Concurrency >= 2
  /\ Bufs \subseteq Nat \ {0}
  /\ Cells \subseteq Int \ (Nat \cup {-1})
  /\ Padded \in BOOLEAN
  /\ MaxBlocks \in Nat /\ MaxResets \in Nat

VARIABLES
  mem,     \* what every buffer holds
  pool,    \* w.buffers: how often each buffer lies in it
  jobs,    \* the compression goroutines
  chan,    \* w.output
  taken,   \* the entry the writer goroutine has taken
  stage,   \* and what it does with it
  open,    \* w.output # nil
  err,     \* w.errState
  hdr,     \* w.wroteStreamHeader
  kept,    \* the unit in w.ibuf, 0 when that is empty
  call,    \* the exported method being executed
  todo,    \* the blocks it still has to cut, and how
  hold,    \* the block it is about to queue, with its buffers
  out,     \* history: the unit meant by the last Write, and the chunk that it wrote
  lent,    \* history: cells given to EncodeBuffer since the last Flush or Close
  fed,     \* history: units given
  resets   \* history: Reset calls

callVars   == <<call, todo, hold>>
writerVars == <<chan, taken, stage>>
histVars   == <<lent, fed, resets>>
vars == <<mem, pool, jobs, writerVars, open, err, hdr, kept, callVars, out, histVars>>

NoBuf == 0
Ibuf == -1
IndexUnit == MaxBlocks + 1

Raw(n)         == [kind |-> "raw", crc |-> 0, body |-> n]
Chunk(c, n)    == [kind |-> "chunk", crc |-> c, body |-> n]
Scribble       == Raw(0)

Item(how, from) == [how |-> how, from |-> from]
Entry(n, buf)   == [n |-> n, buf |-> buf]
NoEntry         == Entry(0, NoBuf)
Job(n, src, inbuf, obuf) ==
  [n |-> n, src |-> src, inbuf |-> inbuf, obuf |-> obuf, crc |-> 0, step |-> "crc"]
NoJob == Job(0, NoBuf, NoBuf, NoBuf)

-----------------------------------------------------------------------------
(* sync.Pool: Get takes any buffer out, and makes one when there is none.    *)
(* What lies in the pool is anybody's to write to, so Put scribbles over it;  *)
(* buffers that hold nothing are all alike, and Get takes the least.          *)

Holders(j) == {j.inbuf, j.obuf} \ {NoBuf}
\* Every place a buffer can be in outside the pool.
InUse ==
  (UNION {Holders(j) : j \in jobs}) \cup Holders(hold)
    \cup {chan[i].buf : i \in DOMAIN chan} \cup {taken.buf}

Free(b) == pool[b] = 0 /\ b \notin InUse

Gettable(except) ==
  LET there == {b \in Bufs : pool[b] > 0} \ {except}
      new   == {b \in Bufs : Free(b)} \ {except}
      From(S) == {b \in S : \A c \in S : b <= c}
  IN IF there # {} THEN From(there) ELSE From(new)

Without(bs) == [b \in Bufs |-> IF b \in bs /\ pool[b] > 0 THEN pool[b] - 1 ELSE pool[b]]
Put(b) ==
  /\ pool' = [pool EXCEPT ![b] = @ + 1]
  /\ mem' = [mem EXCEPT ![b] = Scribble]

-----------------------------------------------------------------------------
(* NewWriter and Reset with a writer *)

Init ==
  /\ mem = [b \in Bufs \cup Cells \cup {Ibuf} |-> Scribble]
  /\ pool = [b \in Bufs |-> 0]
  /\ jobs = {} /\ chan = <<>> /\ taken = NoEntry /\ stage = "range"
  /\ open = TRUE /\ err = "none" /\ hdr = FALSE /\ kept = 0
  /\ call = "none" /\ todo = <<>> /\ hold = NoJob
  /\ out = <<>> /\ lent = {} /\ fed = 0 /\ resets = 0

-----------------------------------------------------------------------------
(* The exported methods are entered *)

Enter(method, items) == call = "none" /\ call' = method /\ todo' = items

Buffered == IF kept = 0 THEN <<>> ELSE <<Item(IF hdr THEN "write" ELSE "sync", Ibuf)>>
OfCells(how, p) == [i \in DOMAIN p |-> Item(how, p[i])]

\* The caller fills memory of its own that it has not lent; cells that hold
\* nothing are all alike, so the first ones are filled.
First(S) == CHOOSE c \in S : \A d \in S : d <= c
Unlent == Cells \ lent
Arguments ==
  {<<First(C)>> : C \in {Unlent} \ {{}}}
    \cup {<<First(C), First(C \ {First(C)})>> : C \in {X \in {Unlent} : \E c, d \in X : c # d}}

Fills(p) ==
  /\ fed + Len(p) <= MaxBlocks
  /\ fed' = fed + Len(p)
  /\ mem' = [b \in DOMAIN mem |->
               IF \E i \in DOMAIN p : p[i] = b
               THEN Raw(fed + (CHOOSE i \in DOMAIN p : p[i] = b)) ELSE mem[b]]

\* What the caller has back it may write to at once.
TakesBack(cells) == mem' = [b \in DOMAIN mem |-> IF b \in cells THEN Scribble ELSE mem[b]]

\* A unit that fits waits in ibuf; what does not goes out behind ibuf, ibuf first.
Write ==
  \E p \in Arguments :
    /\ err = "none"
    /\ Enter("Write",
         (IF kept = 0 THEN <<>> ELSE <<Item("write", Ibuf)>>)
           \o OfCells(IF Len(p) = 1 THEN "keep" ELSE "write", p))
    /\ Fills(p)
    /\ UNCHANGED <<pool, jobs, writerVars, open, err, hdr, kept, hold, out, lent, resets>>

\* The blocks are cut from the argument itself, which the caller may not write
\* to until Flush or Close.  ReadFrom with a reader that has Bytes is this.
EncodeBuffer ==
  \E p \in Arguments :
    /\ err = "none"
    /\ Enter("EncodeBuffer", Buffered \o OfCells("encode", p))
    /\ Fills(p)
    /\ lent' = lent \cup {p[i] : i \in DOMAIN p}
    /\ UNCHANGED <<pool, jobs, writerVars, open, err, hdr, kept, hold, out, resets>>

\* The reader has some full blocks, then EOF or an error.
ReadFrom ==
  \E blocks \in 0..2 :
    /\ err = "none"
    /\ fed + blocks <= MaxBlocks
    /\ Enter("ReadFrom", Buffered \o [i \in 1..blocks |-> Item("full", NoBuf)]
                           \o <<Item("eof", NoBuf)>>)
    /\ UNCHANGED <<mem, pool, jobs, writerVars, open, err, hdr, kept, hold, out, histVars>>

AddUserChunk ==
  /\ err = "none" /\ fed < MaxBlocks
  /\ Enter("AddUserChunk", <<Item("user", NoBuf)>>)
  /\ UNCHANGED <<mem, pool, jobs, writerVars, open, err, hdr, kept, hold, out, histVars>>

\* AsyncFlush returns a set error at once; else it sends ibuf.
Flush ==
  \E method \in {"Flush", "Close"} :
    /\ Enter(method, IF err = "none" THEN Buffered ELSE <<>>)
    /\ UNCHANGED <<mem, pool, jobs, writerVars, open, err, hdr, kept, hold, out, histVars>>

Reset ==
  /\ resets < MaxResets
  /\ Enter("Reset", <<>>)
  /\ UNCHANGED <<mem, pool, jobs, writerVars, open, err, hdr, kept, hold, out, histVars>>

-----------------------------------------------------------------------------
(* write, writeFull, EncodeBuffer: one block *)

Doing(hows) == call # "none" /\ hold = NoJob /\ todo # <<>> /\ Head(todo).how \in hows

\* Behind AsyncFlush and between its own calls of write a method looks at the
\* error; inside the loop over blocks it does not.
Rest == IF Head(todo).from = Ibuf /\ err # "none" THEN <<>> ELSE Tail(todo)

\* Faulty: the goroutine is given the caller's slice.
CopyInputNot(item, inbuf) ==
  [n |-> mem[item.from].body, src |-> item.from, mem |-> mem]

\* The block's unit, where the goroutine reads it, and memory behind the copy.
CopyInput(item, inbuf) ==
  [n |-> mem[item.from].body, src |-> inbuf, mem |-> [mem EXCEPT ![inbuf] = mem[item.from]]]

\* write takes a buffer for a copy of the input and one for the result.
TakeWrite ==
  /\ Doing({"write"})
  /\ \E inbuf \in Gettable(NoBuf) : \E obuf \in Gettable(inbuf) :
       LET in == CopyInput(Head(todo), inbuf) IN
       /\ pool' = Without({inbuf, obuf})
       /\ hold' = Job(in.n, in.src, inbuf, obuf)
       /\ mem' = in.mem
  /\ UNCHANGED <<jobs, writerVars, open, err, hdr, kept, call, todo, out, histVars>>

\* ReadFrom reads into a pooled buffer, which writeFull then owns.
TakeFull ==
  /\ Doing({"full"}) /\ err = "none"
  /\ \E inbuf \in Gettable(NoBuf) : \E obuf \in Gettable(inbuf) :
       /\ pool' = Without({inbuf, obuf})
       /\ mem' = [mem EXCEPT ![inbuf] = Raw(fed + 1)]
       /\ hold' = Job(fed + 1, inbuf, inbuf, obuf)
  /\ fed' = fed + 1
  /\ UNCHANGED <<jobs, writerVars, open, err, hdr, kept, call, todo, out, lent, resets>>

\* The error of another goroutine, the end of the reader or the reader's error:
\* the buffer read into is not given back.
StopReading ==
  /\ \/ Doing({"eof"}) /\ err' \in {err, IF err = "none" THEN "src" ELSE err}
     \/ Doing({"full"}) /\ err # "none" /\ err' = err
  /\ \E inbuf \in Gettable(NoBuf) :
       pool' = Without({inbuf}) /\ mem' = [mem EXCEPT ![inbuf] = Scribble]
  /\ todo' = <<>>
  /\ UNCHANGED <<jobs, writerVars, open, hdr, kept, call, hold, out, histVars>>

TakeEncode ==
  /\ Doing({"encode"})
  /\ \E obuf \in Gettable(NoBuf) :
       /\ pool' = Without({obuf})
       /\ hold' = Job(mem[Head(todo).from].body, Head(todo).from, NoBuf, obuf)
  /\ UNCHANGED <<mem, jobs, writerVars, open, err, hdr, kept, call, todo, out, histVars>>

\* A user chunk is copied into a pooled buffer, and is its own result.
TakeUser ==
  /\ Doing({"user"})
  /\ \E inbuf \in Gettable(NoBuf) :
       /\ pool' = Without({inbuf})
       /\ mem' = [mem EXCEPT ![inbuf] = Chunk(fed + 1, fed + 1)]
       /\ hold' = Job(fed + 1, NoBuf, inbuf, NoBuf)
  /\ fed' = fed + 1
  /\ UNCHANGED <<jobs, writerVars, open, err, hdr, kept, call, todo, out, lent, resets>>

\* The stream identifier, which goes ahead, has memory of its own.
Queue ==
  LET user == hold.obuf = NoBuf IN
  /\ hold # NoJob
  /\ Len(chan) < Concurrency
  /\ chan' = Append(chan, Entry(hold.n, IF user THEN hold.inbuf ELSE NoBuf))
  /\ jobs' = IF user THEN jobs ELSE jobs \cup {hold}
  /\ hold' = NoJob /\ hdr' = TRUE
  /\ todo' = Rest
  /\ IF Head(todo).from = Ibuf THEN kept' = 0 /\ TakesBack({Ibuf}) ELSE UNCHANGED <<kept, mem>>
  /\ UNCHANGED <<pool, taken, stage, open, err, call, out, histVars>>

\* The rest of a Write's argument fits into ibuf.
Keep ==
  /\ Doing({"keep"})
  /\ IF err = "none"
     THEN mem' = [mem EXCEPT ![Ibuf] = mem[Head(todo).from]] /\ kept' = mem[Head(todo).from].body
     ELSE UNCHANGED <<mem, kept>>
  /\ todo' = <<>>
  /\ UNCHANGED <<pool, jobs, writerVars, open, err, hdr, call, hold, out, histVars>>

\* writeSync, from AsyncFlush before the header is out: the caller compresses
\* and writes; an obuf is given back only when every Write went well.
WriteSync ==
  /\ Doing({"sync"})
  /\ \E obuf \in Gettable(NoBuf) :
       /\ mem' = [mem EXCEPT ![obuf] = Scribble, ![Ibuf] = Scribble]
       /\ \/ /\ out' = <<kept, Chunk(mem[Ibuf].body, mem[Ibuf].body)>>
             /\ pool' = [pool EXCEPT ![obuf] = IF @ > 0 THEN @ ELSE 1]
             /\ err' = err /\ todo' = Tail(todo)
          \/ out' = out /\ pool' = Without({obuf}) /\ err' = "io" /\ todo' = <<>>
  /\ kept' = 0 /\ hdr' = TRUE
  /\ UNCHANGED <<jobs, writerVars, open, call, hold, histVars>>

-----------------------------------------------------------------------------
(* A compression goroutine *)

Becomes(j, k) == jobs' = (jobs \ {j}) \cup {k}

Sum(j) ==
  /\ j.step = "crc"
  /\ Becomes(j, [j EXCEPT !.crc = mem[j.src].body, !.step = "encode"])
  /\ UNCHANGED <<mem, pool, writerVars, open, err, hdr, kept, callVars, out, histVars>>

\* The input buffer becomes the result, and obuf, scribbled over, the spare.
NotCompressed(j) ==
  [job |-> [j EXCEPT !.obuf = j.inbuf, !.inbuf = j.obuf, !.step = "send"],
   mem |-> [mem EXCEPT ![j.inbuf] = Chunk(j.crc, @.body), ![j.obuf] = Scribble]]

Encode(j) ==
  /\ j.step = "encode"
  /\ \/ /\ mem' = [mem EXCEPT ![j.obuf] = Chunk(j.crc, mem[j.src].body)]
        /\ Becomes(j, [j EXCEPT !.step = "send"])
     \/ /\ j.inbuf # NoBuf
        /\ mem' = NotCompressed(j).mem
        /\ Becomes(j, NotCompressed(j).job)
  /\ UNCHANGED <<pool, writerVars, open, err, hdr, kept, callVars, out, histVars>>

\* output <- res meets the writer goroutine's receive.
HandOver(j) ==
  /\ j.step = "send" /\ stage = "wait" /\ taken.n = j.n
  /\ taken' = Entry(j.n, j.obuf) /\ stage' = "write"
  /\ jobs' = IF j.inbuf = NoBuf THEN jobs \ {j}
             ELSE (jobs \ {j}) \cup {[j EXCEPT !.obuf = NoBuf, !.step = "put"]}
  /\ UNCHANGED <<mem, pool, chan, open, err, hdr, kept, callVars, out, histVars>>

PutSpare(j) ==
  /\ j.step = "put"
  /\ Put(j.inbuf)
  /\ jobs' = jobs \ {j}
  /\ UNCHANGED <<writerVars, open, err, hdr, kept, callVars, out, histVars>>

-----------------------------------------------------------------------------
(* The writer goroutine *)

TakeEntry ==
  /\ stage = "range" /\ chan # <<>>
  /\ taken' = Head(chan) /\ chan' = Tail(chan)
  /\ stage' = IF Head(chan).buf = NoBuf THEN "wait" ELSE "write"
  /\ UNCHANGED <<mem, pool, jobs, open, err, hdr, kept, callVars, out, histVars>>

\* Faulty: the buffer is given back before it is written.
WriteOutPooled ==
  /\ stage = "write" /\ stage' = "put"
  /\ Put(taken.buf)
  /\ \/ err = "none" /\ err' = err /\ out' = <<taken.n, mem'[taken.buf]>>
     \/ err' = (IF err = "none" THEN "io" ELSE err) /\ out' = out

\* writer.Write may fail; once an error is set nothing is written.
WriteOut ==
  /\ stage = "write" /\ stage' = "put"
  /\ UNCHANGED <<mem, pool>>
  /\ \/ err = "none" /\ err' = err /\ out' = <<taken.n, mem[taken.buf]>>
     \/ err' = (IF err = "none" THEN "io" ELSE err) /\ out' = out

WriteEntry ==
  /\ WriteOut
  /\ UNCHANGED <<jobs, chan, taken, open, hdr, kept, callVars, histVars>>

\* The buffer goes back and the entry is closed.
Finish ==
  /\ stage = "put"
  /\ Put(taken.buf)
  /\ taken' = NoEntry /\ stage' = "range"
  /\ UNCHANGED <<jobs, chan, open, err, hdr, kept, callVars, out, histVars>>

-----------------------------------------------------------------------------
(* What the methods do behind their blocks *)

Behind(methods) == call \in methods /\ hold = NoJob /\ todo = <<>>

Return == call' = "none"

\* ReadFrom and the others return when their blocks are queued.
ReturnQueued ==
  /\ Behind({"Write", "EncodeBuffer", "ReadFrom", "AddUserChunk"})
  /\ Return /\ TakesBack(Unlent)
  /\ UNCHANGED <<pool, jobs, writerVars, open, err, hdr, kept, todo, hold, out, histVars>>

\* Flush queues an entry without data, and waits until it has been closed: by
\* then the writer goroutine has closed every entry before it.  After an error
\* it has not waited.
Drained == chan = <<>> /\ taken = NoEntry

Flushed ==
  /\ Behind({"Flush"})
  /\ err # "none" \/ Drained
  /\ lent' = {}
  /\ Return /\ TakesBack(Cells)
  /\ UNCHANGED <<pool, jobs, writerVars, open, err, hdr, kept, todo, hold, out, fed, resets>>

PadBuffer(index) == IF index THEN Gettable(NoBuf) ELSE {Ibuf}

\* closeIndex behind the join: the index is made in ibuf, then the padding, then
\* the index is written.  A failed Write leaves out what follows it.
CloseMarks(index) ==
  LET indexed == IF index THEN [mem EXCEPT ![Ibuf] = Chunk(IndexUnit, IndexUnit)] ELSE mem
      Appended(m) == IF index THEN <<IndexUnit, m[Ibuf]>> ELSE out
  IN \/ ~Padded /\ mem' = indexed /\ pool' = pool /\ err' = "closed"
          /\ out' = Appended(mem')
     \/ /\ Padded
        /\ \E tmp \in PadBuffer(index) :
             /\ mem' = [indexed EXCEPT ![tmp] = Scribble]
             /\ pool' = IF tmp = Ibuf THEN pool ELSE [pool EXCEPT ![tmp] = IF @ > 0 THEN @ ELSE 1]
        /\ err' = "closed" /\ out' = Appended(mem')
     \/ UNCHANGED <<mem, pool, out>> /\ err' = "io"

Closed ==
  /\ Behind({"Close"})
  /\ Drained
  /\ IF err = "none" THEN \E index \in BOOLEAN : CloseMarks(index)
     ELSE UNCHANGED <<mem, pool, out, err>>
  /\ open' = FALSE /\ lent' = {}
  /\ Return
  /\ UNCHANGED <<jobs, writerVars, hdr, kept, todo, hold, fed, resets>>

\* Reset waits for the writer goroutine too, but takes nothing back that a
\* compression goroutine has not given back yet.
Fresh ==
  /\ Behind({"Reset"})
  /\ Drained
  /\ open' = TRUE /\ err' = "none" /\ hdr' = FALSE /\ kept' = 0
  /\ resets' = resets + 1
  /\ Return
  /\ UNCHANGED <<mem, pool, jobs, writerVars, todo, hold, out, lent, fed>>

-----------------------------------------------------------------------------

Caller ==
  \/ Write \/ EncodeBuffer \/ ReadFrom \/ AddUserChunk \/ Flush \/ Reset
  \/ TakeWrite \/ TakeFull \/ StopReading \/ TakeEncode \/ TakeUser \/ Queue \/ Keep
  \/ WriteSync \/ ReturnQueued \/ Flushed \/ Closed \/ Fresh

Compress == \E j \in jobs : Sum(j) \/ Encode(j) \/ HandOver(j) \/ PutSpare(j)

Next == Caller \/ Compress \/ TakeEntry \/ WriteEntry \/ Finish

Spec == Init /\ [][Next]_vars

-----------------------------------------------------------------------------
(* Properties *)

\* Every chunk on the underlying writer has the checksum and the data of the
\* unit it was queued for: nobody wrote into the block between the caller's
\* copy, the checksum (434), the encoder and writer.Write (163), nor the padding
\* into the index (811-817).  What the caller has back it may write to, so this
\* also says that Flush and Close return when its memory is no longer read.
WrittenAsGiven == out # <<>> => out[2] = Chunk(out[1], out[1])

\* A pooled buffer is in one place: in the pool once, with one goroutine, or in
\* one entry.  Two owners of a buffer write into each other's blocks.
Places(b) ==
  pool[b] + Cardinality({j \in jobs : b \in {j.inbuf, j.obuf}})
    + (IF b \in Holders(hold) THEN 1 ELSE 0)
    + Cardinality({i \in DOMAIN chan : chan[i].buf = b})
    + (IF taken.buf = b THEN 1 ELSE 0)
OneOwner == \A b \in Bufs : Places(b) <= 1

=============================================================================
