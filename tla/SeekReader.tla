----------------------------- MODULE SeekReader -----------------------------
(***************************************************************************)
(* ReadSeeker (reader.go): Seek and ReadAt on a Reader, by means of an      *)
(* index of the stream.  The index is any list of chunk starts; that the    *)
(* Writer's is one, IndexLifecycle shows.  A compressed offset is the       *)
(* number of chunks before it.                                              *)
(***************************************************************************)
EXTENDS StreamReader, StreamIndex

CONSTANTS
  Indexed  \* bound: the streams that come with an index

VARIABLES
  ix,     \* r.index
  target  \* absOffset

seekVars == <<vars, ix, target>>

\* Starts of chunks an index may hold, which come before the EOF marker, and lists of them.
ChunkStarts(s) ==
  {Pair(k - 1, Totals(s)[k - 1]) :
     k \in {k \in DOMAIN s : \A m \in 1 .. k : s[m].kind # "eof"}}
Indexes(s) ==
  {[est |-> 1, off |-> q] :
     q \in {q \in UNION {[1 .. n -> ChunkStarts(s)] : n \in 0 .. Len(s)} :
              \A a, b \in DOMAIN q : a < b => q[a].u < q[b].u}}

NoIndex == [est |-> 0, off |-> <<>>]

InitSeek ==
  /\ Init
  /\ ix \in IF stream \in Indexed THEN Indexes(stream) ELSE {NoIndex}
  /\ target = 0

TotalUncompressed == TotalOf(stream)

-----------------------------------------------------------------------------

\* Seek, and ReadAt, which goes on to read n.  At the end of a stream (and
\* before the first chunk) the header is read first, from the start.
SeekCall(offset, n) ==
  /\ pc = "idle" /\ err \in {"none", "eof"} /\ ix # NoIndex
  /\ err' = "none" /\ target' = offset /\ want' = n
  /\ IF h.header
     THEN pc' = "seek" /\ UNCHANGED <<pos, left>>
     ELSE pc' = "head" /\ pos' = 0 /\ left' = 0
  /\ UNCHANGED <<stream, h, block, at, ix>>

Seek(offset) == SeekCall(offset, 0)
ReadAt(offset, n) == SeekCall(offset, n)

\* Read([]byte{}) returned with a block in the buffer.
HeadRead ==
  /\ pc = "head" /\ i < j /\ pc' = "seek"
  /\ UNCHANGED <<stream, pos, h, block, err, call, ix, target>>

Inside == start <= target /\ target < start + j

SeekInside ==
  /\ pc = "seek" /\ Inside
  /\ i' = target - start /\ at' = target /\ target' = 0 /\ Landed
  /\ UNCHANGED <<stream, pos, h, start, j, dec, err, ix>>

\* Find returns an error and Seek the position it is at.
SeekBeyond ==
  /\ pc = "seek" /\ ~Inside /\ target > TotalUncompressed
  /\ at' = start + i /\ target' = 0 /\ Over
  /\ UNCHANGED <<stream, pos, h, block, err, ix>>

\* Faulty: the rest of the block is kept.
SeekToKeepsRest ==
  /\ pc = "seek" /\ ~Inside /\ target <= TotalUncompressed
  /\ LET e == Find(ix, target)
     IN  /\ pos' = e.c /\ start' = e.u - j /\ at' = e.u
         /\ IF e.u < target THEN pc' = "skip" /\ left' = target - e.u /\ UNCHANGED want ELSE Landed
  /\ target' = 0
  /\ UNCHANGED <<stream, h, i, j, dec, err, ix>>

\* To the chunk the index gives; Skip does the rest.  The bytes of the block in
\* the buffer stay, with a blockStart that ends where the chunk begins.
SeekTo ==
  /\ pc = "seek" /\ ~Inside /\ target <= TotalUncompressed
  /\ LET e == Find(ix, target)
     IN  /\ pos' = e.c /\ i' = j /\ start' = e.u - j /\ at' = e.u
         /\ IF e.u < target THEN pc' = "skip" /\ left' = target - e.u /\ UNCHANGED want ELSE Landed
  /\ target' = 0
  /\ UNCHANGED <<stream, h, j, dec, err, ix>>

\* Reset drops the index, and Seek has none to look into.
ResetIndexed(s) == Reset(s) /\ ix' = NoIndex /\ target' = 0

ReaderStep ==
  /\ \/ \E n \in Sizes : Read(n) \/ Skip(n)
     \/ WriteTo \/ Step \/ ReturnError
  /\ UNCHANGED <<ix, target>>

\* Offsets up to one past the end.
Offsets == 0 .. TotalUncompressed + 1

SeekStep ==
  \/ \E offset \in Offsets, n \in Sizes \ {0} : ReadAt(offset, n)
  \/ \E s \in Others : ResetIndexed(s)
  \/ HeadRead \/ SeekInside \/ SeekBeyond \/ SeekTo

\* ReadAt with room for data; Seek is not called by itself.
ReadAtSpec == InitSeek /\ [][ReaderStep \/ SeekStep]_seekVars

SeekSpec ==
  InitSeek /\ [][ReaderStep \/ SeekStep \/ \E offset \in Offsets : Seek(offset)]_seekVars
=============================================================================
