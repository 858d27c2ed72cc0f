-------------------------- MODULE IndexLifecycle ---------------------------
(***************************************************************************)
(* The life of an index beside the stream it describes: chunks are written *)
(* one after the other, the Writer records some of their starts (writer.go *)
(* calls index.add), the index is thinned, stored, loaded and searched,    *)
(* and IndexStream rebuilds one from the finished chunks.                  *)
(***************************************************************************)
EXTENDS StreamIndex

CONSTANTS
  BlockSize,    \* largest uncompressed size of a block
  BodySizes,    \* sizes a chunk body may have (checksum included)
  VarintBase,   \* 128: a byte of a varint has seven bits
  MaxChunks     \* bound: chunks written before the stream ends

ASSUME LifecycleAssumption ==
  /\ BlockSize \in Nat \ {0}
  /\ BodySizes \subseteq Nat
  /\ VarintBase \in Nat \ {0, 1}
  /\ MaxChunks \in Nat

VARIABLES
  chunks,  \* what is on the stream: [kind, len (body), ulen (decoded size)]
  pos,     \* the offset pair of the next chunk: <<written, uncompWritten>>
  ix,      \* the Writer's index
  ended,   \* the EOF chunk is written and the index is stored
  concurrent, \* the Writer has a writer goroutine, which adds the entries
  thinned  \* history: how often reduceLight thinned the Writer's index

vars == <<chunks, pos, ix, ended, concurrent, thinned>>

HeaderLen == 4     \* chunkHeaderSize
CheckSum  == 4     \* checksumSize

\* reset: the estimate is the block size doubled until it reaches minIndexDist.
\* It does within MinIndexDist rounds.
Doubled(e) == IF e < MinIndexDist THEN 2 * e ELSE e
Estimates ==
  LET est[k \in 0 .. MinIndexDist] == IF k = 0 THEN BlockSize ELSE Doubled(est[k - 1])
  IN  est
EstBlock == Estimates[MinIndexDist]

Chunk(kind, len, ulen) == [kind |-> kind, len |-> len, ulen |-> ulen]

\* The offset pair behind a chunk that starts at a pair.
Behind(pair, chunk) == Pair(pair.c + HeaderLen + chunk.len, pair.u + chunk.ulen)

\* The entry the Writer makes for a chunk: the goroutine adds one for every
\* chunk it writes; writeSync for a data block only, and AddUserChunk without
\* concurrency for a user chunk that is not ahead of all data.
Recorded(kind) ==
  \/ concurrent /\ kind # "eof"
  \/ kind = "data"
  \/ kind = "user" /\ pos.u > 0

\* Faulty: the entry names the end of the chunk.
PutEnd(chunk) ==
  /\ chunks' = Append(chunks, chunk)
  /\ pos' = Behind(pos, chunk)
  /\ ix' = IF Recorded(chunk.kind) THEN Add(ix, pos'.c, pos.u) ELSE ix
  /\ thinned' = IF ix'.est > ix.est THEN thinned + 1 ELSE thinned

Put(chunk) ==
  /\ chunks' = Append(chunks, chunk)
  /\ pos' = Behind(pos, chunk)
  /\ ix' = IF Recorded(chunk.kind) THEN Add(ix, pos.c, pos.u) ELSE ix
  /\ thinned' = IF ix'.est > ix.est THEN thinned + 1 ELSE thinned

Init ==
  /\ chunks = <<>>
  /\ pos = Pair(0, 0)
  /\ ix = EmptyIndex(EstBlock)
  /\ ended = FALSE
  /\ concurrent \in BOOLEAN
  /\ thinned = 0

WriteHeader ==
  /\ chunks = <<>> /\ ~ended
  /\ Put(Chunk("id", 6, 0))
  /\ UNCHANGED <<ended, concurrent>>

\* A block of n decoded bytes whose body takes len bytes after compression.
WriteBlock(n, len) ==
  /\ chunks # <<>> /\ ~ended /\ Len(chunks) < MaxChunks
  /\ len > CheckSum
  /\ Put(Chunk("data", len, n))
  /\ UNCHANGED <<ended, concurrent>>

WriteUserChunk(len) ==
  /\ chunks # <<>> /\ ~ended /\ Len(chunks) < MaxChunks
  /\ Put(Chunk("user", len, 0))
  /\ UNCHANGED <<ended, concurrent>>

\* The EOF chunk holds the total as a varint, of up to ten bytes
\* (binary.MaxVarintLen64): from VarintBase^3 on, which is 2 MB, it has four, as
\* many as a checksum.
EofLen(total) == 1 + Cardinality({k \in 1 .. 9 : total >= VarintBase ^ k})

\* closeIndex: the EOF chunk (alone when nothing was ever written), then the
\* index is reduced and stored.
End ==
  /\ ~ended
  /\ chunks' = Append(chunks, Chunk("eof", EofLen(pos.u), 0))
  /\ pos' = Pair(pos.c + HeaderLen + EofLen(pos.u), pos.u)
  /\ ix' = Reduce(ix)
  /\ ended' = TRUE
  /\ UNCHANGED <<concurrent, thinned>>

Next ==
  \/ WriteHeader
  \/ \E n \in 1 .. BlockSize, len \in BodySizes : WriteBlock(n, len)
  \/ \E len \in BodySizes : WriteUserChunk(len)
  \/ End

Spec == Init /\ [][Next]_vars

-----------------------------------------------------------------------------
(* IndexStream over a list of chunks *)

\* A chunk body shorter than a checksum ends the scan with ErrCorrupt.
ScanRefuses(chunk) == chunk.len < CheckSum

\* Faulty: chunks without data are not counted.
ScanStepDataOnly(acc, chunk) ==
  LET est == IF acc.ix.est = 0 THEN chunk.ulen ELSE acc.ix.est
      seen == [acc.ix EXCEPT !.est = est]
  IN  IF ~acc.ok \/ chunk.kind # "data" THEN acc
      ELSE IF ScanRefuses(chunk) THEN [acc EXCEPT !.ok = FALSE]
      ELSE [ok |-> ~AddFails(seen, acc.c, acc.u), c |-> acc.c + HeaderLen + chunk.len,
            u |-> acc.u + chunk.ulen, ix |-> Add(seen, acc.c, acc.u)]

ScanStep(acc, chunk) ==
  LET total == acc.c + HeaderLen + chunk.len
      est == IF acc.ix.est = 0 /\ chunk.kind = "data" THEN chunk.ulen ELSE acc.ix.est
      seen == [acc.ix EXCEPT !.est = est]
  IN  IF ~acc.ok THEN acc
      ELSE IF ScanRefuses(chunk) THEN [acc EXCEPT !.ok = FALSE]
      ELSE IF chunk.kind = "data"
      THEN [ok |-> ~AddFails(seen, acc.c, acc.u), c |-> total, u |-> acc.u + chunk.ulen,
            ix |-> Add(seen, acc.c, acc.u)]
      ELSE [acc EXCEPT !.c = total]

\* What the scan has after each chunk of s, and at its end.
ScanStates(s) ==
  LET acc[k \in 0 .. Len(s)] ==
        IF k = 0 THEN [ok |-> TRUE, c |-> 0, u |-> 0, ix |-> EmptyIndex(0)]
        ELSE ScanStep(acc[k - 1], s[k])
  IN  acc
IndexStream(s) == ScanStates(s)[Len(s)]

-----------------------------------------------------------------------------
(* Properties *)

\* The offset pair behind each chunk of s.
EndsOf(s) ==
  LET end[k \in 0 .. Len(s)] ==
        IF k = 0 THEN Pair(0, 0) ELSE Behind(end[k - 1], s[k])
  IN  end

Starts ==
  LET end == EndsOf(chunks) IN {end[k - 1] : k \in DOMAIN chunks}
DataStarts ==
  LET end == EndsOf(chunks) IN {end[k - 1] : k \in {j \in DOMAIN chunks : chunks[j].kind = "data"}}

\* However often the index was thinned, an entry still names a place where a
\* chunk begins, with the number of bytes decoded before it: "It will be safe
\* to start decompressing from any of these offsets" (index.go:43).
EntriesAreChunkStarts == {ix.off[k] : k \in DOMAIN ix.off} \subseteq Starts

\* Thinning keeps the first entry, which precedes every decoded byte: any
\* offset of the stream can be found, and Find returns the last entry at or
\* before it whichever search it uses.
FindIsFloor ==
  \A o \in 0 .. pos.u - 1 : ix.off # <<>> =>
    /\ Find(ix, o).u <= o
    /\ Find(ix, o) \in {ix.off[k] : k \in DOMAIN ix.off}
    /\ \A k \in DOMAIN ix.off : ix.off[k].u <= o => ix.off[k].u <= Find(ix, o).u

\* How much must be decoded and thrown away to reach a byte: reduceLight drops
\* one entry more than it has to, so that each time it runs the next entry may
\* be one estimate further away than before, but never more than that.
SeekCost ==
  \A o \in 0 .. pos.u - 1 : ix.off # <<>> =>
    o - Find(ix, o).u < (thinned + 2) * ix.est

\* What closeIndex or IndexStream stores is what Load restores, through the
\* thinning to the minimal distance, the delta coding with its fed-back
\* prediction and Go's division that truncates towards zero.
StoredIndexLoads ==
  \A x \in {ix, IndexStream(chunks).ix} :
    LET stored == AppendTo(Reduce(x))
    IN  LoadAccepts(stored) /\ Load(stored) = Reduce(x)

\* IndexStream refuses a stream for a chunk shorter than a checksum and for nothing
\* else: the offsets it finds itself never go back (index.add), however often the
\* index was thinned on the way.  A finished stream is refused for its EOF chunk if
\* it is short, and scanned to the end, over the EOF chunk, if it is not.  The index
\* it returns describes the same stream: it starts decoding at data chunks only and
\* its totals are the stream's, whatever the index of the Writer holds.
ScanSound ==
  LET s == IndexStream(chunks)
  IN  /\ s.ok <=> \A k \in DOMAIN chunks : ~ScanRefuses(chunks[k])
      /\ s.ok => /\ s.c = pos.c /\ s.u = pos.u
                 /\ {s.ix.off[k] : k \in DOMAIN s.ix.off} \subseteq DataStarts

=============================================================================
