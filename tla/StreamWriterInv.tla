-------------------------- MODULE StreamWriterInv --------------------------
(***************************************************************************)
(* The inductive invariant behind the order of the stream.  The user's     *)
(* units lie, in order, on the underlying writer, in the entry the writer  *)
(* goroutine has taken, in the channel, in the argument of write, in what  *)
(* is left of the method's argument or in ibuf; each place begins where    *)
(* the one before it ends.                                                 *)
(***************************************************************************)
EXTENDS StreamWriter

\* The writer goroutine holds an entry.
Busy == wpc \in {"wait", "write"}

\* Nothing has failed and the stream is not closed.
Live == err = "none"

\* The calling goroutine is inside write or writeSync (a hand-over of the
\* header by AddUserChunk is not).
Sending == pc \in {"send", "sync", "raw"} \/ (pc = "hand" /\ call # "AddUserChunk")

\* Between methods, or in AddUserChunk, which leaves the buffer alone.
Resting == pc \in {"idle", "user", "userdata"} \/ (pc = "hand" /\ call = "AddUserChunk")

\* Units given to the channel or written by writeSync: uncompWritten counts a
\* block stored as it is before its data are written.
Sent == IF pc = "raw" THEN wp.lo ELSE uncomp

CurEnd == IF Busy THEN cur.hi ELSE DataEnd(out)
QueueEnd == IF chan = <<>> THEN CurEnd ELSE chan[Len(chan)].hi

\* The underlying writer, the taken entry and the channel: no gap, no overlap.
QueueOrder ==
  /\ \A k \in 1 .. Len(out) : out[k].lo = IF k = 1 THEN 0 ELSE out[k - 1].hi
  /\ \A k \in 1 .. Len(chan) : chan[k].lo <= chan[k].hi
  /\ Busy => cur.lo <= cur.hi
  /\ Busy /\ (Live \/ wpc = "write") => cur.lo = DataEnd(out)
  /\ Live => \A k \in 1 .. Len(chan) : chan[k].lo = IF k = 1 THEN CurEnd ELSE chan[k - 1].hi
  /\ Live => QueueEnd = Sent

\* Nothing holds a unit that was not handed over.
Bounded ==
  /\ DataEnd(out) <= fed
  /\ Busy => cur.hi <= fed
  /\ \A k \in 1 .. Len(chan) : chan[k].hi <= fed
  /\ uncomp <= fed

\* The calling goroutine: what it still has to send follows what it has sent.
CallerOrder ==
  /\ FlushOnWrite => ibuf = Nothing /\ pc # "loop" /\ ret # "loop"
  /\ pc \in {"user", "userdata"} => call = "AddUserChunk"
  /\ call = "AddUserChunk" => pc \in {"user", "userdata", "hand"}
  /\ Sending => /\ wp.lo = Sent /\ wp.lo <= wp.hi
                /\ ibuf = Nothing
                /\ IF ret \in {"loop", "enc"}
                   THEN p.lo = wp.hi /\ p.lo <= p.hi /\ p.hi = fed
                   ELSE wp.hi = fed
  /\ pc = "raw" => Live /\ wp.lo < wp.hi /\ uncomp = wp.lo + Min({BlockSize, Size(wp)})
  /\ pc = "loop" /\ Live =>
       /\ p.lo <= p.hi /\ p.hi = fed
       /\ IF ibuf = Nothing THEN p.lo = uncomp
          ELSE ibuf.lo = uncomp /\ ibuf.lo < ibuf.hi /\ p.lo = ibuf.hi
  /\ pc = "enc" /\ Live => ibuf = Nothing /\ p.lo = uncomp /\ p.lo <= p.hi /\ p.hi = fed
  /\ pc \in {"rf", "flush", "fhand", "fwait", "close", "eof", "pad", "index"} /\ Live =>
       ibuf = Nothing /\ uncomp = fed
  /\ Resting /\ Live =>
       IF ibuf = Nothing THEN uncomp = fed
       ELSE ibuf.lo = uncomp /\ ibuf.lo < ibuf.hi /\ ibuf.hi = fed

\* Who uses the underlying writer.  A queued flush is the last entry there is;
\* before the header nothing else is queued; the goroutine exits only after
\* the channel was closed and emptied.
Alone ==
  /\ Concurrency = 1 => ~open
  /\ ~open => wpc = "exited"
  /\ wpc = "exited" => chan = <<>> /\ (open => sealed)
  /\ sealed /\ open => pc \in {"close", "reset"}
  /\ pc \in {"sync", "raw", "userdata"} => chan = <<>> /\ ~Busy
  /\ pc = "userdata" => Concurrency = 1
  /\ ~hdr /\ pc \notin {"fhand", "fwait"} => chan = <<>> /\ ~Busy
  /\ pc \in {"eof", "pad", "index"} => ~open
  /\ \A k \in 1 .. Len(chan) : chan[k].kind = "flush" => k = Len(chan) /\ pc \in {"fhand", "fwait"}
  /\ Busy /\ cur.kind = "flush" => chan = <<>> /\ pc \in {"fhand", "fwait"}

\* An entry is busy exactly while its block is being compressed, and the
\* goroutine writes only results that are ready and not a flush.
EntryShape ==
  /\ \A k \in 1 .. Len(chan) : chan[k].kind # "none" /\ (chan[k].kind = "data" <=> chan[k].st = "busy")
  /\ Busy => cur.kind # "none" /\ (cur.kind = "data" <=> cur.st = "busy")
  /\ ~Busy => cur = NoEntry
  /\ \A k \in 1 .. Len(chan) : chan[k].kind = "flush" => chan[k].lo = chan[k].hi
  /\ Busy /\ cur.kind = "flush" => cur.lo = cur.hi
  /\ wpc = "write" => cur.st = "ready" /\ cur.kind # "flush"

\* While the calling goroutine writes marks at the end of the stream everything
\* handed over is on the underlying writer, and stays the last that is.
Ending ==
  /\ pc \in {"user", "userdata"} /\ Concurrency = 1 => Live
  /\ pc = "pad" => Live
  /\ pc \in {"pad", "index"} => DataEnd(out) = fed /\ uncomp = fed
  /\ err = "closed" => ~open /\ DataEnd(out) = fed

OrderInv == TypeOK /\ EntryShape /\ QueueOrder /\ Bounded /\ CallerOrder /\ Alone /\ Ending

-----------------------------------------------------------------------------
(* The framing: what the entries on their way hold, and where the header is *)

\* An entry holds one block or, of another kind, no units.
EntryFits(e) == LET n == e.hi - e.lo
                IN  IF e.kind \in DataKinds \cup {"data"} THEN 0 < n /\ n <= BlockSize ELSE n = 0

EntriesFit ==
  /\ \A k \in 1 .. Len(chan) : EntryFits(chan[k]) /\ chan[k].kind \notin {"eof", "pad", "index"}
  /\ Busy => EntryFits(cur) /\ cur.kind \notin {"eof", "pad", "index"}

\* The header on its way is the first thing there is.
HeaderAhead ==
  /\ \A k \in 1 .. Len(chan) : chan[k].kind = "header" => k = 1 /\ ~Busy /\ out = <<>>
  /\ Busy /\ cur.kind = "header" => out = <<>>

\* Once the header is marked as written it is on the underlying writer or on
\* its way there, and until it is marked only closeIndex has written.
HeaderMarked ==
  /\ hdr /\ Live => \/ out # <<>>
                    \/ Busy /\ cur.kind = "header"
                    \/ ~Busy /\ chan # <<>> /\ chan[1].kind = "header"
  /\ wpc = "write" /\ cur.kind # "header" => out # <<>>
  /\ pc \in {"raw", "userdata", "pad", "index"} => out # <<>>
  /\ ~hdr /\ out # <<>> => pc \in {"pad", "index"} \/ (~Live /\ pc \in {"idle", "reset", "close", "eof"})
  /\ ~hdr => /\ \A k \in 1 .. Len(chan) : chan[k].kind = "flush"
             /\ Busy => cur.kind = "flush"

FormInv == WellFormed /\ EntriesFit /\ HeaderAhead /\ HeaderMarked

-----------------------------------------------------------------------------
(* The end: one EOF marker, and where the calling goroutine can be *)

NoEOF == \A k \in 1 .. Len(out) : out[k].kind # "eof"

\* One EOF marker with the total, behind it only padding and an index.
EOFIn(chunks, total) ==
  \E k \in DOMAIN chunks :
    /\ chunks[k].kind = "eof" /\ chunks[k].hi = total
    /\ \A j \in DOMAIN chunks : j > k => chunks[j].kind \in {"pad", "index"}
    /\ \A j \in DOMAIN chunks : j < k => chunks[j].kind # "eof"

CloseInv ==
  /\ Live /\ pc \notin {"pad", "index"} => NoEOF
  /\ pc \in {"pad", "index"} \/ err = "closed" => EOFIn(out, fed)
  /\ err = "closed" => pc \in {"idle", "reset", "close", "eof"}
  /\ err \in {"none", "closed"} /\ pc \notin {"raw", "userdata"} => ~torn
  /\ wpc = "write" => err \in {"none", "src"}

\* In Flush what is buffered is sent first, and Flush comes next.
FlushInv ==
  /\ pc = "idle" => call = "none"
  /\ call = "Flush" => /\ pc \in {"send", "sync", "raw", "hand", "flush", "fhand", "fwait"}
                       /\ Sending => ret = "flush"

-----------------------------------------------------------------------------
(* What is counted, and what the index points at *)

\* What w.written has ahead of the complete chunks: the header of a chunk that
\* is written in two pieces, and the index that goes behind the padding.
Ahead ==
  IF pc \in {"raw", "userdata"} THEN 1
  ELSE IF pc = "index" /\ AppendIndex THEN IndexSize(ix) ELSE 0

CountInv ==
  /\ written \in Nat /\ ends \in Seq(Nat) /\ Len(ends) = Len(out)
  /\ Live => written = EndOf(ends) + Ahead
  /\ pc = "index" /\ Live /\ Pad > 1 => written % Pad = 0
  /\ ClosedIsPadded

\* The offset pairs of an index, and the indexes there are.
Pairs == [c : Nat, u : Nat]
Indexes == [est : Nat \ {0}, off : Seq(Pairs)]

\* An entry of the channel knows how many units are before it, and writeSync
\* goes on only while there is no error.
StartInv ==
  /\ \A k \in 1 .. Len(chan) : chan[k].start = chan[k].lo
  /\ Busy => cur.start = cur.lo
  /\ pc = "sync" => Live

\* No entry of the index is beyond what has been written.
IndexInv ==
  /\ ix \in Indexes
  /\ \A k \in 1 .. Len(ix.off) : ix.off[k].c <= written /\ ix.off[k].u <= DataEnd(out)
  /\ IndexPointsAtChunks

WriterInv == OrderInv /\ FormInv /\ CloseInv /\ FlushInv /\ CountInv /\ StartInv /\ IndexInv
=============================================================================
