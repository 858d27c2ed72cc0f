------------------------- MODULE StreamWriterProofs -------------------------
(***************************************************************************)
(* OrderInv is an invariant of the stream Writer, for every value of the   *)
(* constants; InOrder and DirectWriteAlone follow from it.  Beside it      *)
(* FormInv, CloseInv and FlushInv are kept: the Writer implements          *)
(* OrderedSink, Flush is a barrier, the stream is well formed, and complete *)
(* once it is closed.  CountInv, StartInv and IndexInv are about numbers:  *)
(* what is counted is what is written, and the index points at chunks.     *)
(*                                                                         *)
(* Each part of OrderInv is kept by every step: CallerStep (the calling    *)
(* goroutine), AloneStep (who writes), PlacesStep (the underlying writer,  *)
(* the taken entry and the channel), ScalarsStep (types), EndingStep.      *)
(***************************************************************************)
EXTENDS StreamWriterInv, TLAPS, WellFoundedInduction

-----------------------------------------------------------------------------
(* Sequences, spans and entries *)

\* The smaller of two integers.
LEMMA MinPair == \A a, b \in Int : Min({a, b}) = IF a <= b THEN a ELSE b
  BY DEF Min

\* What Append does to a sequence.
LEMMA AppendFacts ==
  ASSUME NEW S, NEW s \in Seq(S), NEW e \in S
  PROVE  /\ Append(s, e) \in Seq(S)
         /\ Append(s, e) # <<>>
         /\ Len(s) \in Nat /\ Len(Append(s, e)) = Len(s) + 1
         /\ \A k \in 1 .. Len(s) : Append(s, e)[k] = s[k]
         /\ Append(s, e)[Len(s) + 1] = e
  OBVIOUS

\* What Head and Tail do to a sequence.
LEMMA TailFacts ==
  ASSUME NEW S, NEW s \in Seq(S), s # <<>>
  PROVE  /\ Tail(s) \in Seq(S)
         /\ Head(s) = s[1] /\ s[1] \in S
         /\ Len(s) \in Nat /\ Len(s) >= 1
         /\ Len(Tail(s)) = Len(s) - 1
         /\ \A k \in 1 .. Len(s) - 1 : Tail(s)[k] = s[k + 1]
  OBVIOUS

\* Every element of a sequence over S is in S.
LEMMA SeqFacts ==
  ASSUME NEW S, NEW s \in Seq(S)
  PROVE  /\ Len(s) \in Nat
         /\ s = <<>> <=> Len(s) = 0
         /\ \A k \in 1 .. Len(s) : s[k] \in S
  OBVIOUS

\* The units of an entry are numbers.
LEMMA EntryFields == \A e \in Entries : e.lo \in Nat /\ e.hi \in Nat
  BY DEF Entries

\* The units of a chunk are numbers.
LEMMA ChunkFields == \A c \in Chunks : c.lo \in Nat /\ c.hi \in Nat
  BY DEF Chunks

\* Where each place of the user's units ends is a number.
LEMMA Places ==
  ASSUME TypeOK
  PROVE  /\ Len(chan) \in Nat /\ Len(out) \in Nat
         /\ chan = <<>> <=> Len(chan) = 0
         /\ out = <<>> <=> Len(out) = 0
         /\ \A k \in 1 .. Len(chan) : chan[k].lo \in Nat /\ chan[k].hi \in Nat
         /\ \A k \in 1 .. Len(out) : out[k].lo \in Nat /\ out[k].hi \in Nat
         /\ cur.lo \in Nat /\ cur.hi \in Nat
         /\ DataEnd(out) \in Nat /\ CurEnd \in Nat /\ QueueEnd \in Nat
  <1>1. chan \in Seq(Entries) /\ out \in Seq(Chunks) /\ cur \in Entries
    BY DEF TypeOK
  <1>2. /\ Len(chan) \in Nat /\ (chan = <<>> <=> Len(chan) = 0)
        /\ \A k \in 1 .. Len(chan) : chan[k] \in Entries
    BY <1>1, SeqFacts
  <1>3. /\ Len(out) \in Nat /\ (out = <<>> <=> Len(out) = 0)
        /\ \A k \in 1 .. Len(out) : out[k] \in Chunks
    BY <1>1, SeqFacts
  <1>4. DataEnd(out) \in Nat
    BY <1>3, ChunkFields DEF DataEnd
  <1>5. CurEnd \in Nat
    BY <1>4, <1>1, EntryFields DEF CurEnd
  <1>6. QueueEnd \in Nat
    BY <1>5, <1>2, EntryFields DEF QueueEnd
  <1> QED
    BY <1>1, <1>2, <1>3, <1>4, <1>5, <1>6, EntryFields, ChunkFields

\* A step that leaves the writer goroutine, the channel and the underlying
\* writer alone, and sends nothing, keeps their order.
LEMMA QueueFrame ==
  ASSUME QueueOrder, UNCHANGED <<chan, out, cur, wpc>>,
         Live' => Live /\ Sent' = Sent
  PROVE  QueueOrder'
  BY DEF QueueOrder, QueueEnd, CurEnd, Busy

\* An entry is queued that starts where the caller has got to.
LEMMA QueueAppend ==
  ASSUME TypeOK, QueueOrder, NEW e \in Entries,
         chan' = Append(chan, e), UNCHANGED <<out, cur, wpc>>,
         e.lo <= e.hi, Live' => Live /\ e.lo = Sent /\ e.hi = Sent'
  PROVE  QueueOrder'
  <1>1. chan \in Seq(Entries) BY DEF TypeOK
  <1>2. /\ chan' # <<>> /\ Len(chan') = Len(chan) + 1 /\ Len(chan) \in Nat
        /\ \A k \in 1 .. Len(chan) : chan'[k] = chan[k]
        /\ chan'[Len(chan')] = e
    BY <1>1, AppendFacts
  <1>3. Busy' <=> Busy BY DEF Busy
  <1>4. CurEnd' = CurEnd BY <1>3 DEF CurEnd
  <1>5. Live' => QueueEnd = e.lo /\ QueueEnd' = Sent'
    BY <1>2 DEF QueueOrder, QueueEnd
  <1>6. chan # <<>> => Len(chan) \in 1 .. Len(chan) BY <1>1, SeqFacts
  <1>7. \A k \in 1 .. Len(chan') : chan'[k].lo <= chan'[k].hi
    BY <1>2 DEF QueueOrder
  <1>8. Live' => \A k \in 1 .. Len(chan') : chan'[k].lo = IF k = 1 THEN CurEnd' ELSE chan'[k - 1].hi
    <2> SUFFICES ASSUME Live', NEW k \in 1 .. Len(chan')
                 PROVE chan'[k].lo = IF k = 1 THEN CurEnd' ELSE chan'[k - 1].hi
      OBVIOUS
    <2>1. CASE k \in 1 .. Len(chan)
      BY <2>1, <1>2, <1>4 DEF QueueOrder
    <2>2. CASE k = Len(chan) + 1
      BY <2>2, <1>2, <1>4, <1>5, <1>1, SeqFacts DEF QueueEnd
    <2> QED BY <2>1, <2>2, <1>2
  <1> QED
    BY <1>2, <1>3, <1>4, <1>5, <1>7, <1>8 DEF QueueOrder

\* The calling goroutine writes a chunk while nothing is queued.
LEMMA QueueEmit ==
  ASSUME TypeOK, QueueOrder, NEW c \in Chunks,
         chan = <<>>, ~Busy, out' = Append(out, c), UNCHANGED <<chan, cur, wpc>>,
         c.lo = DataEnd(out), Live' => c.hi = Sent'
  PROVE  QueueOrder'
  <1>1. out \in Seq(Chunks) BY DEF TypeOK
  <1>2. /\ out' # <<>> /\ Len(out') = Len(out) + 1 /\ Len(out) \in Nat
        /\ \A k \in 1 .. Len(out) : out'[k] = out[k]
        /\ out'[Len(out')] = c
    BY <1>1, AppendFacts
  <1>3. ~Busy' /\ Len(chan') = 0 BY DEF Busy
  <1>4. DataEnd(out') = c.hi BY <1>2 DEF DataEnd
  <1>5. \A k \in 1 .. Len(out') : out'[k].lo = IF k = 1 THEN 0 ELSE out'[k - 1].hi
    <2> SUFFICES ASSUME NEW k \in 1 .. Len(out')
                 PROVE out'[k].lo = IF k = 1 THEN 0 ELSE out'[k - 1].hi
      OBVIOUS
    <2>1. CASE k \in 1 .. Len(out)
      BY <2>1, <1>2 DEF QueueOrder
    <2>2. CASE k = Len(out) + 1
      BY <2>2, <1>2, <1>1, SeqFacts DEF DataEnd
    <2> QED BY <2>1, <2>2, <1>2
  <1>6. wpc' # "write" BY <1>3 DEF Busy
  <1> QED
    BY <1>3, <1>4, <1>5, <1>6 DEF QueueOrder, QueueEnd, CurEnd

\* The writer goroutine takes the first entry.
LEMMA QueueTake ==
  ASSUME TypeOK, QueueOrder, Take
  PROVE  QueueOrder'
  <1>1. chan \in Seq(Entries) /\ chan # <<>> BY DEF TypeOK, Take
  <1>2. /\ chan' \in Seq(Entries)
        /\ cur' = chan[1] /\ chan[1] \in Entries
        /\ Len(chan) \in Nat /\ Len(chan) >= 1 /\ Len(chan') = Len(chan) - 1
        /\ \A k \in 1 .. Len(chan) - 1 : chan'[k] = chan[k + 1]
    BY <1>1, TailFacts DEF Take
  <1>3. chan' = <<>> <=> Len(chan') = 0 BY <1>2, SeqFacts
  <1>4. Busy' /\ ~Busy /\ wpc' # "write" BY DEF Busy, Take
  <1>5. out' = out /\ pc' = pc /\ wp' = wp /\ uncomp' = uncomp /\ err' = err
    BY DEF Take, sinkVars, callVars, inputVars
  <1>6. (Live' <=> Live) /\ Sent' = Sent BY <1>5 DEF Live, Sent
  <1>7. CurEnd = DataEnd(out) /\ CurEnd' = chan[1].hi BY <1>2, <1>4 DEF CurEnd
  <1>8. Live => chan[1].lo = DataEnd(out) BY <1>2, <1>7 DEF QueueOrder
  <1>9. cur'.lo <= cur'.hi BY <1>2 DEF QueueOrder
  <1>10. \A k \in 1 .. Len(chan') : chan'[k].lo <= chan'[k].hi BY <1>2 DEF QueueOrder
  <1>11. Live => \A k \in 1 .. Len(chan') : chan'[k].lo = IF k = 1 THEN CurEnd' ELSE chan'[k - 1].hi
    <2> SUFFICES ASSUME Live, NEW k \in 1 .. Len(chan')
                 PROVE chan'[k].lo = IF k = 1 THEN CurEnd' ELSE chan'[k - 1].hi
      OBVIOUS
    <2>1. chan[k + 1].lo = chan[k].hi BY <1>2 DEF QueueOrder
    <2> QED BY <2>1, <1>2, <1>7
  <1>12. QueueEnd' = QueueEnd
    BY <1>1, <1>2, <1>3, <1>7 DEF QueueEnd
  <1> QED
    BY <1>2, <1>4, <1>5, <1>6, <1>8, <1>9, <1>10, <1>11, <1>12 DEF QueueOrder

\* The writer goroutine lets go of an entry without data, or after an error.
LEMMA QueueSkip ==
  ASSUME TypeOK, EntryShape, QueueOrder, Alone, Skip, Live => cur.lo = cur.hi, Sent' = Sent
  PROVE  QueueOrder'
  <1>1. out' = out /\ chan' = chan /\ err' = err BY DEF Skip, sinkVars, queueVars
  <1>2. Busy /\ ~Busy' /\ wpc' # "write" BY DEF Busy, Skip
  <1>3. Live' <=> Live BY <1>1 DEF Live
  <1>4. Live => CurEnd' = CurEnd
    BY <1>1, <1>2 DEF QueueOrder, CurEnd
  <1>5. Live => QueueEnd' = QueueEnd BY <1>1, <1>4 DEF QueueEnd
  <1> QED BY <1>1, <1>2, <1>3, <1>4, <1>5 DEF QueueOrder

\* The writer goroutine writes its entry, or fails to.
LEMMA QueueWriteOut ==
  ASSUME TypeOK, QueueOrder, WriteOut, cur.kind \in Kinds
  PROVE  QueueOrder'
  <1>1. out \in Seq(Chunks) /\ cur \in Entries BY DEF TypeOK
  <1>2. /\ chan' = chan /\ wpc = "write" /\ wpc' = "range"
        /\ pc' = pc /\ wp' = wp /\ uncomp' = uncomp
    BY DEF WriteOut, callVars, inputVars, queueVars
  <1>3. Busy /\ ~Busy' /\ wpc' # "write" BY <1>2 DEF Busy
  <1>4. Sent' = Sent BY <1>2 DEF Sent
  <1>5. CASE out' = Append(out, Chunk(cur.kind, cur.lo, cur.hi)) /\ err' = err
    <2> DEFINE c == Chunk(cur.kind, cur.lo, cur.hi)
    <2>1. c \in Chunks /\ c.lo = cur.lo /\ c.hi = cur.hi BY <1>1, EntryFields DEF Chunks, Chunk
    <2> HIDE DEF c
    <2>2. /\ out' # <<>> /\ Len(out') = Len(out) + 1 /\ Len(out) \in Nat
          /\ \A k \in 1 .. Len(out) : out'[k] = out[k]
          /\ out'[Len(out')] = c
      BY <1>5, <2>1, <1>1, AppendFacts DEF c
    <2>3. cur.lo = DataEnd(out) BY <1>2, <1>3 DEF QueueOrder
    <2>4. CurEnd' = CurEnd BY <2>1, <2>2, <1>3 DEF CurEnd, DataEnd
    <2>5. \A k \in 1 .. Len(out') : out'[k].lo = IF k = 1 THEN 0 ELSE out'[k - 1].hi
      <3> SUFFICES ASSUME NEW k \in 1 .. Len(out')
                   PROVE out'[k].lo = IF k = 1 THEN 0 ELSE out'[k - 1].hi
        OBVIOUS
      <3>1. CASE k \in 1 .. Len(out)
        BY <3>1, <2>2 DEF QueueOrder
      <3>2. CASE k = Len(out) + 1
        BY <3>2, <2>1, <2>2, <2>3, <1>1, SeqFacts DEF DataEnd
      <3> QED BY <3>1, <3>2, <2>2
    <2>6. (Live' <=> Live) /\ QueueEnd' = QueueEnd BY <1>5, <1>2, <2>4 DEF Live, QueueEnd
    <2> QED BY <1>2, <1>3, <1>4, <2>4, <2>5, <2>6 DEF QueueOrder
  <1>6. CASE out' = out /\ ~Live'
    BY <1>6, <1>2, <1>3 DEF QueueOrder
  <1> QED
    BY <1>5, <1>6 DEF WriteOut, Emit, SetErr, Live

\* A block is compressed: its place in the order does not change.
LEMMA CompressKeeps ==
  ASSUME TypeOK, NEW kind \in DataKinds, Compress(kind)
  PROVE  /\ Len(chan') = Len(chan) /\ (chan' = <<>> <=> chan = <<>>)
         /\ \A k \in 1 .. Len(chan) : chan'[k].lo = chan[k].lo /\ chan'[k].hi = chan[k].hi
         /\ cur'.lo = cur.lo /\ cur'.hi = cur.hi
  <1>1. chan \in Seq(Entries) /\ cur \in Entries BY DEF TypeOK
  <1>2. CASE cur' = Compressed(cur, kind) /\ chan' = chan
    BY <1>2, <1>1 DEF Compressed, Entries
  <1>3. CASE cur' = cur /\ \E k \in DOMAIN chan : chan' = [chan EXCEPT ![k] = Compressed(@, kind)]
    <2>1. PICK k \in DOMAIN chan : chan' = [chan EXCEPT ![k] = Compressed(@, kind)] BY <1>3
    <2>2. chan[k] \in Entries BY <1>1
    <2>3. Compressed(chan[k], kind).lo = chan[k].lo /\ Compressed(chan[k], kind).hi = chan[k].hi
      BY <2>2 DEF Compressed, Entries
    <2>4. Compressed(chan[k], kind) \in Entries BY <2>2 DEF Compressed, Entries, DataKinds, Kinds
    <2>5. chan' \in Seq(Entries) /\ Len(chan') = Len(chan) BY <1>1, <2>1, <2>4
    <2> QED BY <1>1, <1>3, <2>1, <2>3, <2>5, SeqFacts
  <1> QED BY <1>2, <1>3 DEF Compress

\* Compressing a block, in whatever order, keeps the order of the stream.
LEMMA QueueCompress ==
  ASSUME TypeOK, QueueOrder, NEW kind \in DataKinds, Compress(kind)
  PROVE  QueueOrder'
  <1>1. /\ Len(chan') = Len(chan) /\ (chan' = <<>> <=> chan = <<>>)
        /\ \A k \in 1 .. Len(chan) : chan'[k].lo = chan[k].lo /\ chan'[k].hi = chan[k].hi
        /\ cur'.lo = cur.lo /\ cur'.hi = cur.hi
    BY CompressKeeps
  <1>2. out' = out /\ pc' = pc /\ wp' = wp /\ uncomp' = uncomp /\ err' = err /\ wpc' = wpc
    BY DEF Compress, sinkVars, callVars, inputVars
  <1>3. (Busy' <=> Busy) /\ (Live' <=> Live) /\ Sent' = Sent BY <1>2 DEF Busy, Live, Sent
  <1>4. CurEnd' = CurEnd BY <1>1, <1>2, <1>3 DEF CurEnd
  <1>5. Len(chan) \in Nat /\ (chan = <<>> <=> Len(chan) = 0) BY Places
  <1>6. QueueEnd' = QueueEnd BY <1>1, <1>4, <1>5 DEF QueueEnd
  <1> QED BY <1>1, <1>2, <1>3, <1>4, <1>5, <1>6 DEF QueueOrder

\* Nothing moves and no fewer units are handed over.
LEMMA BoundedFrame ==
  ASSUME TypeOK, Bounded, UNCHANGED <<chan, out, cur, wpc>>,
         fed' \in Nat, fed' >= fed, uncomp' <= fed'
  PROVE  Bounded'
  <1>1. fed \in Nat BY DEF TypeOK
  <1>2. /\ \A k \in 1 .. Len(chan) : chan[k].hi \in Nat
        /\ DataEnd(out) \in Nat /\ cur.hi \in Nat
    BY Places
  <1> QED BY <1>1, <1>2 DEF Bounded, Busy

\* An entry is queued that holds nothing new.
LEMMA BoundedAppend ==
  ASSUME TypeOK, Bounded, NEW e \in Entries,
         chan' = Append(chan, e), UNCHANGED <<out, cur, wpc, fed>>,
         e.hi <= fed, uncomp' <= fed
  PROVE  Bounded'
  <1>1. chan \in Seq(Entries) BY DEF TypeOK
  <1>2. /\ Len(chan') = Len(chan) + 1 /\ Len(chan) \in Nat
        /\ \A k \in 1 .. Len(chan) : chan'[k] = chan[k]
        /\ chan'[Len(chan) + 1] = e
    BY <1>1, AppendFacts
  <1> QED BY <1>2 DEF Bounded, Busy

\* The calling goroutine writes a chunk that holds nothing new.
LEMMA BoundedEmit ==
  ASSUME TypeOK, Bounded, NEW c \in Chunks, ~Busy,
         out' = Append(out, c), UNCHANGED <<chan, cur, wpc, fed>>,
         c.hi <= fed, uncomp' <= fed
  PROVE  Bounded'
  <1>1. out \in Seq(Chunks) BY DEF TypeOK
  <1>2. DataEnd(out') = c.hi BY <1>1, AppendFacts DEF DataEnd
  <1> QED BY <1>2 DEF Bounded, Busy

\* EntryShape depends on the channel and the writer goroutine only.
LEMMA ShapeFrame ==
  ASSUME EntryShape, UNCHANGED <<chan, cur, wpc>>
  PROVE  EntryShape'
  BY DEF EntryShape, Busy

\* An entry of a good shape is queued.
LEMMA ShapeAppend ==
  ASSUME TypeOK, EntryShape, NEW e \in Entries,
         chan' = Append(chan, e), UNCHANGED <<cur, wpc>>,
         e.kind # "none", e.kind = "data" <=> e.st = "busy",
         e.kind = "flush" => e.lo = e.hi
  PROVE  EntryShape'
  <1>1. chan \in Seq(Entries) BY DEF TypeOK
  <1>2. /\ Len(chan') = Len(chan) + 1 /\ Len(chan) \in Nat
        /\ \A k \in 1 .. Len(chan) : chan'[k] = chan[k]
        /\ chan'[Len(chan) + 1] = e
    BY <1>1, AppendFacts
  <1> QED BY <1>2 DEF EntryShape, Busy

\* The writer goroutine's steps keep Bounded and EntryShape.
LEMMA DrainBounded ==
  ASSUME TypeOK, EntryShape, Bounded, Draining
  PROVE  Bounded' /\ EntryShape'
  <1>1. chan \in Seq(Entries) /\ out \in Seq(Chunks) /\ cur \in Entries BY DEF TypeOK
  <1>2. CASE Take
    <2>1. chan # <<>> /\ cur' = Head(chan) /\ chan' = Tail(chan) /\ wpc' = "wait"
          /\ fed' = fed /\ uncomp' = uncomp /\ out' = out
      BY <1>2 DEF Take, boundVars, inputVars, sinkVars
    <2>2. /\ cur' = chan[1]
          /\ Len(chan) \in Nat /\ Len(chan) >= 1 /\ Len(chan') = Len(chan) - 1
          /\ \A k \in 1 .. Len(chan) - 1 : chan'[k] = chan[k + 1]
      BY <1>1, <2>1, TailFacts
    <2>3. Bounded' BY <2>1, <2>2 DEF Bounded, Busy
    <2>4. EntryShape' BY <2>1, <2>2 DEF EntryShape, Busy
    <2> QED BY <2>3, <2>4
  <1>3. CASE Hand
    BY <1>1, <1>3 DEF Hand, Bounded, EntryShape, Busy, Entries, boundVars, inputVars, sinkVars, queueVars
  <1>4. CASE Skip
    BY <1>4 DEF Skip, Bounded, EntryShape, Busy, boundVars, inputVars, sinkVars, queueVars
  <1>5. CASE Begin
    BY <1>5 DEF Begin, Skips, Bounded, EntryShape, Busy, boundVars, inputVars, sinkVars, queueVars
  <1>6. CASE WriteOut
    <2>1. /\ wpc = "write" /\ wpc' = "range" /\ cur' = NoEntry /\ chan' = chan
          /\ fed' = fed /\ uncomp' = uncomp
      BY <1>6 DEF WriteOut, boundVars, inputVars, queueVars
    <2>2. DataEnd(out') \in {DataEnd(out), cur.hi}
      <3>1. CASE out' = out BY <3>1
      <3>2. CASE out' = Append(out, Chunk(cur.kind, cur.lo, cur.hi))
        <4>1. cur.kind \in Kinds BY <1>1, <2>1 DEF EntryShape, Busy, Entries
        <4>2. /\ Chunk(cur.kind, cur.lo, cur.hi) \in Chunks
              /\ Chunk(cur.kind, cur.lo, cur.hi).hi = cur.hi
          BY <4>1, <1>1, EntryFields DEF Chunk, Chunks
        <4> QED BY <3>2, <4>2, <1>1, AppendFacts DEF DataEnd
      <3> QED BY <1>6, <3>1, <3>2 DEF WriteOut, Emit
    <2>3. Bounded' BY <2>1, <2>2 DEF Bounded, Busy
    <2>4. EntryShape' BY <2>1 DEF EntryShape, Busy
    <2> QED BY <2>3, <2>4
  <1>7. CASE Exit
    BY <1>7 DEF Exit, Bounded, EntryShape, Busy, boundVars, inputVars, sinkVars, queueVars
  <1> QED BY <1>2, <1>3, <1>4, <1>5, <1>6, <1>7 DEF Draining

\* Compressing a block keeps the types, the bounds and the shape of entries.
LEMMA CompressShape ==
  ASSUME TypeOK, EntryShape, Bounded, NEW kind \in DataKinds, Compress(kind)
  PROVE  Bounded' /\ EntryShape' /\ TypeOK'
  <1>1. chan \in Seq(Entries) /\ cur \in Entries BY DEF TypeOK
  <1>2. /\ Len(chan') = Len(chan)
        /\ \A k \in 1 .. Len(chan) : chan'[k].hi = chan[k].hi
        /\ cur'.hi = cur.hi
    BY CompressKeeps
  <1>3. Bounded'
    BY <1>2 DEF Bounded, Busy, Compress, boundVars, inputVars, sinkVars
  <1>4. \A e \in Entries : /\ Compressed(e, kind) \in Entries /\ kind # "flush"
                           /\ Compressed(e, kind).kind = kind /\ Compressed(e, kind).st = "ready"
    BY DEF Compressed, Entries, DataKinds, Kinds
  <1>5. wpc' = wpc BY DEF Compress
  <1>6. CASE cur.st = "busy" /\ cur' = Compressed(cur, kind) /\ chan' = chan
    <2>1. wpc # "write" BY <1>6 DEF EntryShape
    <2>2. Busy BY <1>6 DEF EntryShape, NoEntry, Entry
    <2>3. EntryShape' BY <1>1, <1>4, <1>5, <1>6, <2>1, <2>2 DEF EntryShape, DataKinds, Busy
    <2>4. TypeOK' BY <1>1, <1>4, <1>6 DEF TypeOK, Compress, callVars, inputVars, sinkVars, boundVars
    <2> QED BY <1>3, <2>3, <2>4
  <1>7. CASE \E k \in DOMAIN chan : /\ chan' = [chan EXCEPT ![k] = Compressed(@, kind)]
                                    /\ cur' = cur
    <2>1. PICK k \in DOMAIN chan : chan' = [chan EXCEPT ![k] = Compressed(@, kind)] BY <1>7
    <2>2. chan[k] \in Entries BY <1>1
    <2>3. chan' \in Seq(Entries) BY <1>1, <1>4, <2>1, <2>2
    <2>4. \A j \in 1 .. Len(chan) : chan'[j] = chan[j] \/ chan'[j] = Compressed(chan[k], kind)
      BY <1>1, <2>1
    <2>5. EntryShape' BY <1>2, <1>4, <1>5, <1>7, <2>2, <2>4 DEF EntryShape, DataKinds, Busy
    <2>6. TypeOK' BY <1>2, <1>7, <2>3 DEF TypeOK, Compress, callVars, inputVars, sinkVars, boundVars
    <2> QED BY <1>3, <2>5, <2>6
  <1> QED BY <1>6, <1>7 DEF Compress

\* Where write and writeSync return to.
LEMMA RetTyped == TypeOK => ret \in {"idle", "loop", "enc", "rf", "flush"}
  BY DEF TypeOK

\* A span of two numbers.
LEMMA SpanTyped ==
  ASSUME NEW lo \in Nat, NEW hi \in Nat
  PROVE  Span(lo, hi) \in Spans /\ Span(lo, hi).lo = lo /\ Span(lo, hi).hi = hi
  BY DEF Span, Spans

\* The fields of a span, and when it is the empty one.
LEMMA SpanEmpty ==
  ASSUME NEW s \in Spans
  PROVE  /\ s.lo \in Nat /\ s.hi \in Nat
         /\ s = Nothing <=> s.lo = 0 /\ s.hi = 0
  BY DEF Spans, Nothing, Span

\* The channel after an entry was queued: never over its capacity.
LEMMA QueueTyped ==
  ASSUME TypeOK, NEW e \in Entries, Queue(e)
  PROVE  chan' \in Seq(Entries) /\ Len(chan') <= Concurrency
  <1>1. chan \in Seq(Entries) BY DEF TypeOK
  <1> QED BY <1>1, AppendFacts, WriterAssumption DEF Queue

\* The fields of a new entry.
LEMMA EntryTyped ==
  ASSUME NEW kind \in {"header", "user", "flush", "data"}, NEW st \in {"busy", "ready", "caller"},
         NEW lo \in Nat, NEW hi \in Nat, NEW start \in Nat
  PROVE  /\ Entry(kind, lo, hi, start, st) \in Entries
         /\ Entry(kind, lo, hi, start, st).lo = lo /\ Entry(kind, lo, hi, start, st).hi = hi
         /\ Entry(kind, lo, hi, start, st).kind = kind /\ Entry(kind, lo, hi, start, st).st = st
  BY DEF Entry, Entries, Kinds

\* The fields of the chunk Emit adds.
LEMMA EmitTyped ==
  ASSUME TypeOK, NEW kind \in Kinds, NEW lo \in Nat, NEW hi \in Nat, NEW size,
         Emit(kind, lo, hi, size)
  PROVE  /\ Chunk(kind, lo, hi) \in Chunks
         /\ Chunk(kind, lo, hi).lo = lo /\ Chunk(kind, lo, hi).hi = hi
         /\ out' = Append(out, Chunk(kind, lo, hi))
         /\ out' \in Seq(Chunks)
  <1>1. Chunk(kind, lo, hi) \in Chunks BY DEF Chunk, Chunks
  <1>2. out \in Seq(Chunks) BY DEF TypeOK
  <1> QED BY <1>1, <1>2, AppendFacts DEF Emit, Chunk

\* The next block cut off the argument of write is not empty, fits, and stays
\* within the argument (writer.go:447, 573).
LEMMA BlockCut ==
  ASSUME TypeOK, Size(wp) > 0
  PROVE  LET n == Min({BlockSize, Size(wp)})
         IN n \in Nat /\ n > 0 /\ n <= BlockSize /\ n <= Size(wp)
            /\ wp.lo \in Nat /\ wp.hi \in Nat /\ wp.lo + n <= wp.hi /\ wp.lo + n \in Nat
  <1>1. wp.lo \in Nat /\ wp.hi \in Nat BY DEF TypeOK, Spans
  <1>2. Size(wp) \in Int BY <1>1 DEF Size
  <1> QED BY <1>1, <1>2, MinPair, WriterAssumption DEF Size

\* The entries without data: a header, a user chunk or a flush.
LEMMA MarkEntry ==
  ASSUME TypeOK, NEW kind \in {"header", "user", "flush"}, NEW st \in {"ready", "caller"}
  PROVE  LET e == Entry(kind, uncomp, uncomp, uncomp, st)
         IN  e \in Entries /\ e.lo = uncomp /\ e.hi = uncomp /\ e.kind = kind /\ e.st = st
  <1>1. uncomp \in Nat BY DEF TypeOK
  <1> QED BY <1>1, EntryTyped

\* The entry of the next block.
LEMMA BlockEntry ==
  ASSUME TypeOK, Size(wp) > 0
  PROVE  LET n == Min({BlockSize, Size(wp)})
             e == Entry("data", wp.lo, wp.lo + n, uncomp, "busy")
         IN  /\ e \in Entries /\ e.lo = wp.lo /\ e.hi = wp.lo + n
             /\ e.kind = "data" /\ e.st = "busy" /\ e.lo < e.hi
  <1> DEFINE n == Min({BlockSize, Size(wp)})
  <1>1. uncomp \in Nat BY DEF TypeOK
  <1>2. n > 0 /\ n \in Nat /\ wp.lo \in Nat /\ wp.lo + n \in Nat BY BlockCut
  <1> HIDE DEF n
  <1>3. /\ Entry("data", wp.lo, wp.lo + n, uncomp, "busy") \in Entries
        /\ Entry("data", wp.lo, wp.lo + n, uncomp, "busy").lo = wp.lo
        /\ Entry("data", wp.lo, wp.lo + n, uncomp, "busy").hi = wp.lo + n
        /\ Entry("data", wp.lo, wp.lo + n, uncomp, "busy").kind = "data"
        /\ Entry("data", wp.lo, wp.lo + n, uncomp, "busy").st = "busy"
    BY <1>1, <1>2 DEF Entry, Entries
  <1> QED BY <1>2, <1>3 DEF n

\* What is left of the argument of Write fits into ibuf and is appended.
LEMMA LoopBufferCaller == ASSUME OrderInv, LoopBuffer PROVE CallerOrder'
  <1>1. p \in Spans /\ ibuf \in Spans BY DEF OrderInv, TypeOK
  <1>2. p.lo \in Nat /\ p.hi \in Nat /\ ibuf.lo \in Nat /\ ibuf.hi \in Nat BY <1>1, SpanEmpty
  <1>3. pc = "loop" /\ pc' = "idle" /\ Live /\ Live' /\ fed' = fed /\ uncomp' = uncomp /\ call' = "none" /\ ret' = "idle"
        BY DEF LoopBuffer, Return, GoTo, Live, inputVars, boundVars
  <1>4. /\ p.lo <= p.hi /\ p.hi = fed /\ ~FlushOnWrite
        /\ IF ibuf = Nothing THEN p.lo = uncomp
           ELSE ibuf.lo = uncomp /\ ibuf.lo < ibuf.hi /\ p.lo = ibuf.hi
    BY <1>3 DEF OrderInv, CallerOrder
  <1>5. IF ibuf' = Nothing THEN uncomp = fed
        ELSE ibuf'.lo = uncomp /\ ibuf'.lo < ibuf'.hi /\ ibuf'.hi = fed
    <2>1. CASE Size(p) = 0
      <3>1. ibuf' = ibuf BY <2>1 DEF LoopBuffer
      <3>2. p.lo = fed BY <2>1, <1>2, <1>4 DEF Size
      <3> QED BY <3>1, <3>2, <1>4
    <2>2. CASE Size(p) # 0 /\ ibuf = Nothing
      <3>1. ibuf' = p BY <2>2 DEF LoopBuffer
      <3>2. p # Nothing BY <2>2, <1>2, <1>4 DEF Size, Nothing, Span
      <3> QED BY <3>1, <3>2, <2>2, <1>2, <1>4 DEF Size
    <2>3. CASE Size(p) # 0 /\ ibuf # Nothing
      <3>1. ibuf' = Span(ibuf.lo, ibuf.hi + Size(p)) BY <2>3 DEF LoopBuffer
      <3>2. ibuf.hi + Size(p) = fed /\ ibuf.hi + Size(p) \in Nat BY <2>3, <1>2, <1>4 DEF Size
      <3>3. ibuf'.lo = ibuf.lo /\ ibuf'.hi = fed BY <3>1, <3>2, <1>2, SpanTyped
      <3>4. ibuf'.lo < ibuf'.hi BY <3>3, <1>2, <1>4, <2>3 DEF Size
      <3>5. ibuf' # Nothing BY <3>4, <3>3, <1>2 DEF Nothing, Span
      <3> QED BY <3>3, <3>4, <3>5, <2>3, <1>4
    <2> QED BY <2>1, <2>2, <2>3
  <1> QED BY <1>3, <1>4, <1>5 DEF CallerOrder, Sending, Resting

\* write returns to the method that called it once all is queued.
LEMMA SendDoneCaller == ASSUME OrderInv, SendDone PROVE CallerOrder'
  <1>1. wp.lo \in Nat /\ wp.hi \in Nat /\ uncomp \in Nat /\ fed \in Nat BY DEF OrderInv, TypeOK, Spans
  <1>2. /\ pc = "send" /\ Sending /\ uncomp = wp.lo /\ uncomp = wp.hi /\ ibuf = Nothing
        /\ IF ret \in {"loop", "enc"} THEN p.lo = wp.hi /\ p.lo <= p.hi /\ p.hi = fed ELSE wp.hi = fed
    BY <1>1 DEF OrderInv, SendDone, CallerOrder, Sending, Sent, Size
  <1>3. pc' = ret /\ ret' = "idle" /\ uncomp' = uncomp /\ ibuf' = ibuf /\ fed' = fed /\ (Live' <=> Live)
    BY DEF SendDone, GoTo, inputVars, boundVars, Live
  <1>4. ret \in {"loop", "enc"} => p' = p BY DEF SendDone, GoTo
  <1>5. call # "AddUserChunk" BY <1>2 DEF OrderInv, CallerOrder
  <1>6. call' \in {call, "none"} BY DEF SendDone, GoTo
  <1> QED BY <1>2, <1>3, <1>4, <1>5, <1>6, RetTyped DEF OrderInv, CallerOrder, Sending, Resting

\* writeSync moves on by one block.
LEMMA SyncBlockCaller ==
  ASSUME OrderInv, NEW kind \in {"comp", "raw"}, SyncBlock(kind)
  PROVE  CallerOrder'
  <1> DEFINE n == Min({BlockSize, Size(wp)})
  <1>1. /\ pc = "sync" /\ Live /\ Live' /\ Size(wp) > 0 /\ uncomp' = uncomp + n
        /\ call' = call /\ ret' = ret /\ p' = p /\ ibuf' = ibuf /\ fed' = fed
        /\ IF kind = "comp" THEN pc' = pc /\ wp' = Span(wp.lo + n, wp.hi) ELSE pc' = "raw" /\ wp' = wp
    BY DEF SyncBlock, Live, boundVars
  <1>2. /\ n \in Nat /\ n > 0 /\ n <= Size(wp)
        /\ wp.lo \in Nat /\ wp.hi \in Nat /\ wp.lo + n <= wp.hi /\ wp.lo + n \in Nat
    BY <1>1, BlockCut DEF OrderInv
  <1>3. n = Min({BlockSize, Size(wp)}) OBVIOUS
  <1> HIDE DEF n
  <1>4. /\ uncomp = wp.lo /\ ibuf = Nothing
        /\ IF ret \in {"loop", "enc"} THEN p.lo = wp.hi /\ p.lo <= p.hi /\ p.hi = fed ELSE wp.hi = fed
        /\ call # "AddUserChunk" /\ (FlushOnWrite => ret # "loop")
    BY <1>1 DEF OrderInv, CallerOrder, Sending, Sent
  <1>5. CASE kind = "comp"
    <2>1. wp'.lo = wp.lo + n /\ wp'.hi = wp.hi BY <1>1, <1>2, <1>5, SpanTyped
    <2> QED BY <1>1, <1>2, <1>4, <1>5, <2>1 DEF CallerOrder, Sending, Resting, Sent
  <1>6. CASE kind = "raw"
    <2>1. wp.lo < wp.hi BY <1>2
    <2> QED BY <1>1, <1>2, <1>3, <1>4, <1>6, <2>1 DEF CallerOrder, Sending, Resting, Sent
  <1> QED BY <1>5, <1>6

\* Every step of the Writer keeps the calling goroutine's data in order.
LEMMA CallerStep ==
  ASSUME OrderInv, Next
  PROVE  CallerOrder'
  <1> USE WriterAssumption, MinPair, SMTT(20)
      DEF OrderInv, CallerOrder, TypeOK, Spans, Sending, Resting, Sent, Live, Span, Nothing, Size,
          Sender, Entered, Accept, FlushBuffer, Return, GoTo, QueueHeader,
          callVars, inputVars, boundVars
  <1>1. ASSUME NEW n \in 0 .. MaxUnits, CallWrite(n) PROVE CallerOrder'
    BY <1>1 DEF CallWrite
  <1>2. ASSUME NEW n \in 0 .. MaxUnits, CallEncodeBuffer(n) PROVE CallerOrder'
    BY <1>2 DEF CallEncodeBuffer
  <1>3. CASE CallReadFrom BY <1>3 DEF CallReadFrom
  <1>4. CASE CallAddUserChunk BY <1>4 DEF CallAddUserChunk
  <1>5. ASSUME NEW m \in {"Flush", "AsyncFlush"}, CallFlush(m) PROVE CallerOrder'
    BY <1>5 DEF CallFlush
  <1>6. ASSUME NEW m \in {"Close", "CloseIndex"}, CallClose(m) PROVE CallerOrder'
    BY <1>6 DEF CallClose
  <1>7. CASE CallReset BY <1>7 DEF CallReset
  <1>8. CASE ResetDone BY <1>8 DEF ResetDone, Fresh
  <1>9. CASE LoopDirect BY <1>9 DEF LoopDirect
  <1>10. CASE LoopFill BY <1>10, SMTT(60) DEF LoopFill
  <1>11. CASE LoopBuffer BY <1>11, LoopBufferCaller
  <1>12. CASE Abandon BY <1>12 DEF Abandon
  <1>13. CASE SendHeader BY <1>13 DEF SendHeader
  <1>14. CASE SendBlock BY <1>14, SMTT(60) DEF SendBlock
  <1>15. CASE SendDone BY <1>15, SendDoneCaller
  <1>16. CASE EncodeStart BY <1>16 DEF EncodeStart
  <1>17. CASE SyncHeader BY <1>17 DEF SyncHeader
  <1>18. ASSUME NEW kind \in {"comp", "raw"}, SyncBlock(kind) PROVE CallerOrder'
    BY <1>18, SyncBlockCaller
  <1>19. CASE SyncRaw BY <1>19, SMTT(60) DEF SyncRaw
  <1>20. CASE SyncFail BY <1>20, RetTyped DEF SyncFail
  <1>21. CASE SyncDone BY <1>21, RetTyped DEF SyncDone
  <1>22. ASSUME NEW n \in 1 .. BlockSize, ReadBlock(n) PROVE CallerOrder'
    BY <1>22 DEF ReadBlock
  <1>23. CASE ReadEnd BY <1>23 DEF ReadEnd
  <1>24. CASE UserHeader BY <1>24 DEF UserHeader
  <1>25. CASE UserQueue BY <1>25 DEF UserQueue
  <1>26. CASE UserSync BY <1>26 DEF UserSync
  <1>27. CASE UserData BY <1>27 DEF UserData
  <1>28. CASE UserFail BY <1>28 DEF UserFail
  <1>29. CASE FlushQueue BY <1>29 DEF FlushQueue, FlushReturns
  <1>30. CASE CloseOutput BY <1>30 DEF CloseOutput
  <1>31. CASE CloseJoin BY <1>31 DEF CloseJoin
  <1>33. CASE CloseFailed BY <1>33 DEF CloseFailed
  <1>34. CASE WriteEOF BY <1>34 DEF WriteEOF
  <1>35. CASE WritePadding BY <1>35 DEF WritePadding
  <1>36. CASE WriteIndex BY <1>36 DEF WriteIndex, SetErr
  <1>37. CASE Compressing BY <1>37 DEF Compressing, Compress
  <1>38. CASE Take BY <1>38 DEF Take
  <1>39. CASE Hand BY <1>39, SMTT(60) DEF Hand
  <1>40. CASE Skip BY <1>40 DEF Skip, FlushReturns, Alone, Busy
  <1>41. CASE Begin BY <1>41 DEF Begin
  <1>42. CASE WriteOut BY <1>42 DEF WriteOut, SetErr, Alone, Busy
  <1>43. CASE Exit BY <1>43 DEF Exit
  <1> HIDE DEF OrderInv, CallerOrder
  <1> QED
    BY <1>1, <1>2, <1>3, <1>4, <1>5, <1>6, <1>7, <1>8, <1>9, <1>10, <1>11, <1>12, <1>13, <1>14,
       <1>15, <1>16, <1>17, <1>18, <1>19, <1>20, <1>21, <1>22, <1>23, <1>24, <1>25, <1>26, <1>27,
       <1>28, <1>29, <1>30, <1>31, <1>33, <1>34, <1>35, <1>36, <1>37, <1>38, <1>39, <1>40,
       <1>41, <1>42, <1>43
    DEF Next, Calls, Running, Draining

\* Compressing a block does not turn it into a flush or move it.
LEMMA CompressAlone ==
  ASSUME OrderInv, NEW kind \in DataKinds, Compress(kind)
  PROVE  Alone'
  <1>1. chan \in Seq(Entries) /\ cur \in Entries BY DEF OrderInv, TypeOK
  <1>2. Len(chan') = Len(chan) /\ (chan' = <<>> <=> chan = <<>>)
    BY CompressKeeps DEF OrderInv
  <1>3. \A e \in Entries : Compressed(e, kind).kind # "flush"
    BY DEF Compressed, Entries, DataKinds
  <1>4. \A k \in 1 .. Len(chan) : chan'[k].kind = "flush" => chan[k].kind = "flush"
    BY <1>1, <1>3 DEF Compress
  <1>5. cur'.kind = "flush" => cur.kind = "flush"
    BY <1>1, <1>3 DEF Compress
  <1>6. /\ pc' = pc /\ hdr' = hdr /\ open' = open /\ sealed' = sealed /\ wpc' = wpc
    BY DEF Compress, callVars, inputVars
  <1> QED BY <1>2, <1>4, <1>5, <1>6 DEF OrderInv, Alone, Busy

\* A new stream: everything is empty, and there is a goroutine if concurrent.
LEMMA ResetFacts ==
  ASSUME ResetDone
  PROVE  /\ pc' = "idle" /\ call' = "none" /\ ret' = "idle" /\ p' = Nothing /\ wp' = Nothing
         /\ ibuf' = Nothing /\ hdr' = FALSE /\ uncomp' = 0 /\ fed' = 0 /\ users' = 0
         /\ chan' = <<>> /\ out' = <<>> /\ cur' = NoEntry /\ sealed' = FALSE /\ torn' = FALSE
         /\ resets' = resets
         /\ err' \in {"none", "nil"}
         /\ (open' = TRUE /\ wpc' = "range") \/ (open' = FALSE /\ wpc' = "exited")
         /\ open' => Concurrency > 1
  BY DEF ResetDone, Fresh, Return, GoTo

\* After Reset nobody uses the underlying writer.
LEMMA ResetAlone == ASSUME ResetDone PROVE Alone'
  <1>1. Len(chan') = 0 /\ chan' = <<>> /\ pc' = "idle" /\ ~sealed' BY ResetFacts
  <1>2. ~Busy' BY ResetFacts DEF Busy
  <1>3. open' => Concurrency # 1 /\ wpc' # "exited" BY ResetFacts, WriterAssumption
  <1>4. ~open' => wpc' = "exited" BY ResetFacts
  <1> QED BY <1>1, <1>2, <1>3, <1>4 DEF Alone

\* Every step keeps the underlying writer, the counters and the index in one
\* goroutine's hands.
LEMMA AloneStep ==
  ASSUME OrderInv, Next
  PROVE  Alone'
  <1> USE WriterAssumption, SMTT(20)
      DEF OrderInv, Alone, Busy, Sender, Queue, QueueHeader, Entry, NoEntry, FlushBuffer, Entered,
          Return, GoTo, callVars, inputVars, queueVars, sinkVars
  <1>1. ASSUME NEW n \in 0 .. MaxUnits, CallWrite(n) PROVE Alone'
    BY <1>1 DEF CallWrite, Entered
  <1>2. ASSUME NEW n \in 0 .. MaxUnits, CallEncodeBuffer(n) PROVE Alone'
    BY <1>2 DEF CallEncodeBuffer
  <1>3. CASE CallReadFrom BY <1>3 DEF CallReadFrom
  <1>4. CASE CallAddUserChunk BY <1>4 DEF CallAddUserChunk
  <1>5. ASSUME NEW m \in {"Flush", "AsyncFlush"}, CallFlush(m) PROVE Alone'
    BY <1>5 DEF CallFlush
  <1>6. ASSUME NEW m \in {"Close", "CloseIndex"}, CallClose(m) PROVE Alone'
    BY <1>6 DEF CallClose
  <1>7. CASE CallReset BY <1>7 DEF CallReset
  <1>8. CASE ResetDone BY <1>8, ResetAlone
  <1>9. CASE LoopDirect BY <1>9 DEF LoopDirect
  <1>10. CASE LoopFill BY <1>10 DEF LoopFill
  <1>11. CASE LoopBuffer BY <1>11 DEF LoopBuffer
  <1>12. CASE Abandon BY <1>12 DEF Abandon
  <1>13. CASE SendHeader BY <1>13 DEF SendHeader
  <1>14. CASE SendBlock BY <1>14 DEF SendBlock
  <1>15. CASE SendDone BY <1>15, RetTyped DEF SendDone
  <1>16. CASE EncodeStart BY <1>16 DEF EncodeStart
  <1>17. CASE SyncHeader BY <1>17 DEF SyncHeader
  <1>18. ASSUME NEW kind \in {"comp", "raw"}, SyncBlock(kind) PROVE Alone'
    BY <1>18 DEF SyncBlock
  <1>19. CASE SyncRaw BY <1>19 DEF SyncRaw
  <1>20. CASE SyncFail BY <1>20, RetTyped DEF SyncFail
  <1>21. CASE SyncDone BY <1>21, RetTyped DEF SyncDone
  <1>22. ASSUME NEW n \in 1 .. BlockSize, ReadBlock(n) PROVE Alone'
    BY <1>22 DEF ReadBlock
  <1>23. CASE ReadEnd BY <1>23 DEF ReadEnd
  <1>24. CASE UserHeader BY <1>24 DEF UserHeader
  <1>25. CASE UserQueue BY <1>25 DEF UserQueue
  <1>26. CASE UserSync BY <1>26 DEF UserSync
  <1>27. CASE UserData BY <1>27 DEF UserData
  <1>28. CASE UserFail BY <1>28 DEF UserFail
  <1>29. CASE FlushQueue BY <1>29 DEF FlushQueue, FlushReturns
  <1>30. CASE CloseOutput BY <1>30 DEF CloseOutput
  <1>31. CASE CloseJoin BY <1>31 DEF CloseJoin
  <1>33. CASE CloseFailed BY <1>33 DEF CloseFailed
  <1>34. CASE WriteEOF BY <1>34 DEF WriteEOF
  <1>35. CASE WritePadding BY <1>35 DEF WritePadding
  <1>36. CASE WriteIndex BY <1>36 DEF WriteIndex
  <1>37. CASE Compressing BY <1>37, CompressAlone DEF Compressing
  <1>38. CASE Take BY <1>38 DEF Take
  <1>39. CASE Hand BY <1>39 DEF Hand
  <1>40. CASE Skip BY <1>40 DEF Skip, FlushReturns, Skips
  <1>41. CASE Begin BY <1>41 DEF Begin
  <1>42. CASE WriteOut BY <1>42 DEF WriteOut
  <1>43. CASE Exit BY <1>43 DEF Exit
  <1> HIDE DEF OrderInv, Alone
  <1> QED
    BY <1>1, <1>2, <1>3, <1>4, <1>5, <1>6, <1>7, <1>8, <1>9, <1>10, <1>11, <1>12, <1>13,
       <1>14, <1>15, <1>16, <1>17, <1>18, <1>19, <1>20, <1>21, <1>22, <1>23, <1>24, <1>25,
       <1>26, <1>27, <1>28, <1>29, <1>30, <1>31, <1>33, <1>34, <1>35, <1>36, <1>37,
       <1>38, <1>39, <1>40, <1>41, <1>42, <1>43
    DEF Next, Calls, Running, Draining

-----------------------------------------------------------------------------
(* The places of the user's units, from the underlying writer to the channel *)

PlacesInv ==
  /\ QueueOrder /\ Bounded /\ EntryShape
  /\ chan \in Seq(Entries) /\ Len(chan) <= Concurrency
  /\ out \in Seq(Chunks) /\ cur \in Entries

\* What the lemmas below use of the invariant.
LEMMA InvFacts ==
  ASSUME OrderInv
  PROVE  /\ TypeOK /\ EntryShape /\ QueueOrder /\ Bounded
         /\ uncomp \in Nat /\ fed \in Nat /\ uncomp <= fed
         /\ chan \in Seq(Entries) /\ Len(chan) <= Concurrency
         /\ out \in Seq(Chunks) /\ cur \in Entries
         /\ pc # "raw" => Sent = uncomp
  BY DEF OrderInv, TypeOK, Bounded, Sent

\* Nothing is written, queued or taken.
LEMMA PlacesFrame ==
  ASSUME OrderInv, UNCHANGED <<chan, out, cur, wpc>>,
         Live' => Live /\ Sent' = Sent,
         fed' \in Nat, fed' >= fed, uncomp' <= fed'
  PROVE  PlacesInv'
  BY InvFacts, QueueFrame, BoundedFrame, ShapeFrame DEF PlacesInv

\* An entry without data is queued.
LEMMA PlacesMark ==
  ASSUME OrderInv, NEW kind \in {"header", "user", "flush"}, NEW st \in {"ready", "caller"},
         Queue(Entry(kind, uncomp, uncomp, uncomp, st)),
         UNCHANGED <<out, cur, wpc, fed, uncomp>>,
         Live' => Live, pc # "raw", pc' # "raw"
  PROVE  PlacesInv'
  <1> DEFINE e == Entry(kind, uncomp, uncomp, uncomp, st)
  <1>1. /\ e \in Entries /\ e.lo = uncomp /\ e.hi = uncomp /\ e.kind = kind /\ e.st = st
        /\ chan' = Append(chan, e)
    BY InvFacts, MarkEntry DEF Queue
  <1>2. chan' \in Seq(Entries) /\ Len(chan') <= Concurrency
    BY <1>1, InvFacts, QueueTyped
  <1> HIDE DEF e
  <1>3. Sent = uncomp /\ Sent' = uncomp BY DEF Sent
  <1>4. e.lo <= e.hi /\ e.hi <= fed /\ uncomp' <= fed BY <1>1, InvFacts
  <1>5. QueueOrder' BY <1>1, <1>3, <1>4, InvFacts, QueueAppend
  <1>6. Bounded' BY <1>1, <1>4, InvFacts, BoundedAppend
  <1>7. e.kind # "none" /\ e.kind # "data" /\ e.st # "busy" BY <1>1
  <1>8. EntryShape' BY <1>1, <1>7, InvFacts, ShapeAppend
  <1> QED BY <1>2, <1>5, <1>6, <1>8, InvFacts DEF PlacesInv

\* Reset starts an empty stream.
LEMMA PlacesReset == ASSUME ResetDone PROVE PlacesInv'
  <1>1. /\ Len(chan') = 0 /\ chan' = <<>> /\ Len(out') = 0 /\ out' = <<>>
        /\ pc' = "idle" /\ uncomp' = 0 /\ cur' = NoEntry /\ fed' = 0
    BY ResetFacts
  <1>2. ~Busy' /\ wpc' # "write" BY ResetFacts DEF Busy
  <1>3. QueueOrder' BY <1>1, <1>2 DEF QueueOrder, Busy, CurEnd, QueueEnd, DataEnd, Sent
  <1>4. Bounded' BY <1>1, <1>2 DEF Bounded, DataEnd
  <1>5. EntryShape' BY <1>1, <1>2 DEF EntryShape
  <1>6. cur' \in Entries BY <1>1 DEF NoEntry, Entry, Entries
  <1> QED BY <1>1, <1>3, <1>4, <1>5, <1>6, WriterAssumption DEF PlacesInv

\* The stream header is queued ahead of the first block.
LEMMA PlacesSendHeader == ASSUME OrderInv, SendHeader PROVE PlacesInv'
  BY PlacesMark DEF SendHeader, QueueHeader, Live, sinkVars, boundVars

\* A block is queued right behind what was sent before.
LEMMA PlacesSendBlock == ASSUME OrderInv, SendBlock PROVE PlacesInv'
  <1> DEFINE n == Min({BlockSize, Size(wp)})
             e == Entry("data", wp.lo, wp.lo + n, uncomp, "busy")
  <1>1. Size(wp) > 0 /\ pc = "send" BY DEF SendBlock
  <1>2. /\ Queue(e) /\ chan' = Append(chan, e) /\ uncomp' = uncomp + n
        /\ out' = out /\ cur' = cur /\ wpc' = wpc /\ pc' = "send" /\ fed' = fed /\ err' = err
    BY <1>1 DEF SendBlock, Queue, sinkVars, boundVars
  <1>3. uncomp = wp.lo /\ wp.hi <= fed
    BY <1>1, InvFacts DEF OrderInv, CallerOrder, Sending, Sent, TypeOK, Spans
  <1>4. /\ e \in Entries /\ e.lo = wp.lo /\ e.hi = wp.lo + n /\ e.lo < e.hi
        /\ e.kind = "data" /\ e.st = "busy"
    BY <1>1, InvFacts, BlockEntry
  <1>5. wp.lo \in Nat /\ wp.hi \in Nat /\ n \in Nat /\ wp.lo + n <= wp.hi
    BY <1>1, InvFacts, BlockCut
  <1>6. chan' \in Seq(Entries) /\ Len(chan') <= Concurrency
    BY <1>2, <1>4, InvFacts, QueueTyped
  <1> HIDE DEF e, n
  <1>7. Sent = wp.lo /\ Sent' = wp.lo + n BY <1>1, <1>2, <1>3 DEF Sent
  <1>8. e.lo <= e.hi /\ e.hi <= fed /\ uncomp' <= fed BY <1>2, <1>3, <1>4, <1>5, InvFacts
  <1>9. QueueOrder' BY <1>2, <1>4, <1>7, <1>8, InvFacts, QueueAppend DEF Live
  <1>10. Bounded' BY <1>2, <1>4, <1>8, InvFacts, BoundedAppend
  <1>11. EntryShape' BY <1>2, <1>4, InvFacts, ShapeAppend
  <1> QED BY <1>2, <1>6, <1>9, <1>10, <1>11, InvFacts DEF PlacesInv

\* EncodeBuffer sends the header even without data.
LEMMA PlacesEncodeStart == ASSUME OrderInv, EncodeStart PROVE PlacesInv'
  <1>1. CASE Concurrency = 1 \/ hdr
    BY <1>1, PlacesFrame, InvFacts DEF EncodeStart, Sender, Sent, Live, sinkVars, boundVars
  <1>2. CASE ~(Concurrency = 1 \/ hdr)
    BY <1>2, PlacesMark DEF EncodeStart, QueueHeader, Live, sinkVars, boundVars
  <1> QED BY <1>1, <1>2

\* A user chunk is queued.
LEMMA PlacesUserQueue == ASSUME OrderInv, UserQueue PROVE PlacesInv'
  BY PlacesMark DEF UserQueue, Return, GoTo, Live, sinkVars, inputVars, boundVars

\* Flush queues its empty entry.
LEMMA PlacesFlushQueue == ASSUME OrderInv, FlushQueue PROVE PlacesInv'
  <1>1. CASE err # "none" \/ ~open
    BY <1>1, PlacesFrame, InvFacts
    DEF FlushQueue, FlushReturns, GoTo, Sent, Live, sinkVars, inputVars, boundVars
  <1>2. CASE ~(err # "none" \/ ~open)
    BY <1>2, PlacesMark DEF FlushQueue, Live, sinkVars, inputVars, boundVars
  <1> QED BY <1>1, <1>2

\* While the calling goroutine writes, what is on the underlying writer is
\* exactly what was sent, unless an error is set.
LEMMA NothingQueued ==
  ASSUME OrderInv, chan = <<>>, ~Busy, Live
  PROVE  DataEnd(out) = Sent
  BY DEF OrderInv, QueueOrder, QueueEnd, CurEnd

\* The calling goroutine writes a chunk.
LEMMA PlacesEmit ==
  ASSUME OrderInv, chan = <<>>, ~Busy, NEW kind \in Kinds, NEW hi \in Nat, NEW size,
         Emit(kind, DataEnd(out), hi, size),
         UNCHANGED <<chan, cur, wpc, fed>>, uncomp' = uncomp \/ uncomp' = hi,
         hi <= fed, Live' => hi = Sent'
  PROVE  PlacesInv'
  <1>1. DataEnd(out) \in Nat BY InvFacts, Places
  <1>2. /\ Chunk(kind, DataEnd(out), hi) \in Chunks
        /\ Chunk(kind, DataEnd(out), hi).lo = DataEnd(out) /\ Chunk(kind, DataEnd(out), hi).hi = hi
        /\ out' = Append(out, Chunk(kind, DataEnd(out), hi))
        /\ out' \in Seq(Chunks)
    BY <1>1, InvFacts, EmitTyped
  <1>3. QueueOrder' BY <1>2, InvFacts, QueueEmit
  <1>4. Bounded' BY <1>2, InvFacts, BoundedEmit
  <1>5. EntryShape' BY InvFacts, ShapeFrame
  <1> QED BY <1>2, <1>3, <1>4, <1>5, InvFacts DEF PlacesInv

\* ... one without data.
LEMMA PlacesEmitMark ==
  ASSUME OrderInv, chan = <<>>, ~Busy, Live, pc # "raw", NEW kind \in Kinds, NEW size,
         Emit(kind, uncomp, uncomp, size), UNCHANGED <<chan, cur, wpc, fed, uncomp>>,
         pc' # "raw"
  PROVE  PlacesInv'
  <1>1. DataEnd(out) = uncomp BY InvFacts, NothingQueued
  <1>2. Sent' = uncomp BY DEF Sent
  <1> QED BY <1>1, <1>2, InvFacts, PlacesEmit

\* writeSync writes the stream header.
LEMMA PlacesSyncHeader == ASSUME OrderInv, SyncHeader PROVE PlacesInv'
  <1>1. "header" \in Kinds BY DEF Kinds
  <1>2. chan = <<>> /\ ~Busy BY DEF OrderInv, Alone, SyncHeader
  <1> QED
    BY <1>1, <1>2, PlacesEmitMark DEF SyncHeader, Live, callVars, queueVars, boundVars

\* writeSync writes a block, or the header of one it stores as it is.
LEMMA PlacesSyncBlock ==
  ASSUME OrderInv, NEW kind \in {"comp", "raw"}, SyncBlock(kind)
  PROVE  PlacesInv'
  <1> DEFINE n == Min({BlockSize, Size(wp)})
  <1>1. /\ pc = "sync" /\ Live /\ Live' /\ Size(wp) > 0 /\ uncomp' = uncomp + n
        /\ chan' = chan /\ cur' = cur /\ wpc' = wpc /\ fed' = fed
    BY DEF SyncBlock, Live, queueVars, boundVars
  <1>2. chan = <<>> /\ ~Busy BY <1>1 DEF OrderInv, Alone
  <1>3. uncomp = wp.lo /\ wp.hi <= fed
    BY <1>1, InvFacts DEF OrderInv, CallerOrder, Sending, Sent, TypeOK, Spans
  <1>4. wp.lo \in Nat /\ wp.hi \in Nat /\ n \in Nat /\ wp.lo + n \in Nat /\ wp.lo + n <= wp.hi
    BY <1>1, InvFacts, BlockCut
  <1>5. CASE kind = "comp"
    <2>1. Emit("comp", wp.lo, wp.lo + n, SizeOf("comp")) /\ pc' = pc BY <1>5 DEF SyncBlock
    <2> HIDE DEF n
    <2>2. "comp" \in Kinds BY DEF Kinds
    <2>3. DataEnd(out) = wp.lo BY <1>1, <1>2, <1>3, NothingQueued, InvFacts
    <2>4. Sent' = wp.lo + n BY <1>1, <1>3, <2>1 DEF Sent
    <2>5. wp.lo + n <= fed BY <1>3, <1>4, InvFacts
    <2> QED BY <1>1, <1>2, <1>3, <1>4, <2>1, <2>2, <2>3, <2>4, <2>5, PlacesEmit
  <1>6. CASE kind = "raw"
    <2>1. out' = out /\ wp' = wp /\ pc' = "raw" BY <1>6 DEF SyncBlock
    <2> HIDE DEF n
    <2>2. Sent' = Sent BY <1>1, <1>3, <2>1 DEF Sent
    <2>3. uncomp' <= fed' BY <1>1, <1>3, <1>4, InvFacts
    <2> QED BY <1>1, <2>1, <2>2, <2>3, InvFacts, PlacesFrame
  <1> QED BY <1>5, <1>6

\* writeSync writes the data of a block stored as it is.
LEMMA PlacesSyncRaw == ASSUME OrderInv, SyncRaw PROVE PlacesInv'
  <1> DEFINE n == Min({BlockSize, Size(wp)})
  <1>1. /\ pc = "raw" /\ pc' = "sync" /\ uncomp' = uncomp /\ fed' = fed
        /\ chan' = chan /\ cur' = cur /\ wpc' = wpc
        /\ Emit("raw", wp.lo, wp.lo + n, SizeOf("raw"))
    BY DEF SyncRaw, queueVars, inputVars, boundVars
  <1>2. chan = <<>> /\ ~Busy BY <1>1 DEF OrderInv, Alone
  <1>3. Live /\ wp.lo < wp.hi /\ uncomp = wp.lo + n BY <1>1 DEF OrderInv, CallerOrder
  <1> HIDE DEF n
  <1>4. "raw" \in Kinds BY DEF Kinds
  <1>5. DataEnd(out) = wp.lo BY <1>1, <1>2, <1>3, NothingQueued DEF Sent
  <1>6. Sent' = uncomp BY <1>1 DEF Sent
  <1> QED BY <1>1, <1>2, <1>3, <1>4, <1>5, <1>6, InvFacts, PlacesEmit

\* AddUserChunk writes or queues the stream header.
LEMMA PlacesUserHeader == ASSUME OrderInv, UserHeader PROVE PlacesInv'
  <1>1. CASE Concurrency = 1
    <2>1. "header" \in Kinds BY DEF Kinds
    <2>2. chan = <<>> /\ ~Busy BY DEF OrderInv, Alone, UserHeader
    <2>3. Live BY <1>1 DEF OrderInv, Ending, UserHeader
    <2> QED
      BY <1>1, <2>1, <2>2, <2>3, PlacesEmitMark DEF UserHeader, boundVars
  <1>2. CASE Concurrency # 1
    BY <1>2, PlacesMark DEF UserHeader, QueueHeader, Live, boundVars
  <1> QED BY <1>1, <1>2

\* AddUserChunk writes its chunk without concurrency.
LEMMA PlacesUserData == ASSUME OrderInv, UserData PROVE PlacesInv'
  <1>1. "user" \in Kinds BY DEF Kinds
  <1>2. /\ Emit("user", uncomp, uncomp, SizeOf("user")) /\ uncomp' = uncomp /\ fed' = fed
        /\ pc = "userdata" /\ pc' = "idle" /\ chan' = chan /\ cur' = cur /\ wpc' = wpc
    BY DEF UserData, Return, GoTo, inputVars, queueVars, boundVars
  <1>3. chan = <<>> /\ ~Busy /\ Live BY <1>2 DEF OrderInv, Alone, Ending
  <1> QED BY <1>1, <1>2, <1>3, PlacesEmitMark

\* While closeIndex writes nothing is queued or taken.
LEMMA EndAlone ==
  ASSUME OrderInv, pc \in {"eof", "pad", "index"}
  PROVE  chan = <<>> /\ ~Busy
  BY DEF OrderInv, Alone, Busy

\* closeIndex writes the EOF marker.
LEMMA PlacesWriteEOF == ASSUME OrderInv, WriteEOF PROVE PlacesInv'
  <1>1. "eof" \in Kinds BY DEF Kinds
  <1>2. /\ pc = "eof" /\ Live /\ chan' = chan /\ cur' = cur /\ wpc' = wpc
        /\ uncomp' = uncomp /\ fed' = fed
    BY DEF WriteEOF, Live, inputVars, queueVars, boundVars
  <1>3. chan = <<>> /\ ~Busy BY <1>2, EndAlone
  <1>4. CASE Emit("eof", uncomp, uncomp, SizeOf("eof")) /\ pc' = "pad"
    BY <1>1, <1>2, <1>3, <1>4, PlacesEmitMark
  <1>5. CASE err' = "io" /\ out' = out
    BY <1>2, <1>5, PlacesFrame, InvFacts DEF Live
  <1> QED BY <1>4, <1>5 DEF WriteEOF

\* closeIndex writes the padding.
LEMMA PlacesWritePadding == ASSUME OrderInv, WritePadding PROVE PlacesInv'
  <1>1. "pad" \in Kinds BY DEF Kinds
  <1>2. /\ pc = "pad" /\ chan' = chan /\ cur' = cur /\ wpc' = wpc
        /\ uncomp' = uncomp /\ fed' = fed
    BY DEF WritePadding, inputVars, queueVars, boundVars
  <1>3. chan = <<>> /\ ~Busy /\ Live BY <1>2, EndAlone DEF OrderInv, Ending
  <1>4. \/ \E add : Emit("pad", uncomp, uncomp, add) /\ pc' = "index"
        \/ out' = out /\ pc' = "index" /\ err' = err
        \/ out' = out /\ err' # "none"
    BY DEF WritePadding
  <1>5. ASSUME NEW add, Emit("pad", uncomp, uncomp, add), pc' = "index" PROVE PlacesInv'
    BY <1>1, <1>2, <1>3, <1>5, PlacesEmitMark
  <1>6. CASE out' = out /\ pc' = "index" /\ err' = err
    BY <1>2, <1>3, <1>6, PlacesFrame, InvFacts DEF Live, Sent
  <1>7. CASE out' = out /\ err' # "none"
    BY <1>2, <1>7, PlacesFrame, InvFacts DEF Live
  <1> QED BY <1>4, <1>5, <1>6, <1>7

\* closeIndex writes the index.
LEMMA PlacesWriteIndex == ASSUME OrderInv, WriteIndex PROVE PlacesInv'
  <1>1. /\ pc = "index" /\ chan' = chan /\ cur' = cur /\ wpc' = wpc /\ ~Live'
        /\ uncomp' = uncomp /\ fed' = fed
    BY DEF WriteIndex, inputVars, queueVars, boundVars, SetErr, Live
  <1>2. chan = <<>> /\ ~Busy BY <1>1, EndAlone
  <1>3. CASE Emit("index", uncomp, uncomp, IndexSize(ix))
    <2>1. "index" \in Kinds BY DEF Kinds
    <2>2. DataEnd(out) = uncomp BY <1>1 DEF OrderInv, Ending
    <2> QED BY <1>1, <1>2, <1>3, <2>1, <2>2, InvFacts, PlacesEmit
  <1>4. CASE out' = out
    BY <1>1, <1>4, PlacesFrame, InvFacts
  <1> QED BY <1>3, <1>4 DEF WriteIndex

\* The writer goroutine's steps keep the types of the places.
LEMMA DrainTyped ==
  ASSUME OrderInv, Draining
  PROVE  /\ chan' \in Seq(Entries) /\ Len(chan') <= Concurrency
         /\ out' \in Seq(Chunks) /\ cur' \in Entries
  <1>1. NoEntry \in Entries BY DEF NoEntry, Entry, Entries
  <1>2. CASE Take
    <2>1. chan # <<>> /\ cur' = Head(chan) /\ chan' = Tail(chan) /\ out' = out
      BY <1>2 DEF Take, sinkVars
    <2>2. /\ Tail(chan) \in Seq(Entries) /\ Head(chan) \in Entries
          /\ Len(chan) \in Nat /\ Len(Tail(chan)) = Len(chan) - 1
      BY <2>1, InvFacts, TailFacts
    <2> QED BY <2>1, <2>2, InvFacts, WriterAssumption
  <1>3. CASE Hand
    <2>1. cur' \in Entries BY <1>3, InvFacts DEF Hand, Entries
    <2> QED BY <1>3, <2>1, InvFacts DEF Hand, queueVars, sinkVars
  <1>4. CASE Skip BY <1>4, <1>1, InvFacts DEF Skip, queueVars, sinkVars
  <1>5. CASE Begin BY <1>5, InvFacts DEF Begin, queueVars, sinkVars
  <1>6. CASE WriteOut
    <2>1. cur.kind \in Kinds /\ cur.lo \in Nat /\ cur.hi \in Nat
      BY <1>6, InvFacts DEF EntryShape, Busy, WriteOut, Entries
    <2>2. out' \in Seq(Chunks)
      BY <1>6, <2>1, InvFacts, EmitTyped DEF WriteOut
    <2> QED BY <1>6, <1>1, <2>2, InvFacts DEF WriteOut, queueVars
  <1>7. CASE Exit BY <1>7, InvFacts DEF Exit, queueVars, sinkVars
  <1> QED BY <1>2, <1>3, <1>4, <1>5, <1>6, <1>7 DEF Draining

\* A flush, or a result after an error, is let go.
LEMMA SkipQueue == ASSUME OrderInv, Skip PROVE QueueOrder'
  <1>1. Live => cur.kind = "flush" BY DEF Skip, Skips, Live
  <1>2. pc # "raw" BY DEF OrderInv, Alone, Skip, Busy
  <1>3. pc' # "raw" /\ uncomp' = uncomp BY <1>2 DEF Skip, FlushReturns, GoTo, inputVars
  <1>4. Sent' = Sent BY <1>2, <1>3 DEF Sent
  <1>5. Live => cur.lo = cur.hi
    BY <1>1 DEF OrderInv, EntryShape, Busy, Skip
  <1> QED BY <1>4, <1>5, QueueSkip DEF OrderInv

\* The taken entry is written behind all the others.
LEMMA WriteOutQueue == ASSUME OrderInv, WriteOut PROVE QueueOrder'
  <1>1. cur.kind \in Kinds
    BY DEF OrderInv, TypeOK, EntryShape, Busy, WriteOut, Entries
  <1> QED BY <1>1, QueueWriteOut DEF OrderInv

\* Only the state of the taken entry, or of the goroutine, changes.
LEMMA TakenFrame ==
  ASSUME QueueOrder, UNCHANGED <<chan, out>>, cur'.lo = cur.lo, cur'.hi = cur.hi,
         Busy' <=> Busy, wpc' = "write" => wpc = "write" \/ Live,
         Live' => Live, Sent' = Sent
  PROVE  QueueOrder'
  BY DEF QueueOrder, QueueEnd, CurEnd

\* An entry is handed over.
LEMMA HandQueue == ASSUME OrderInv, Hand PROVE QueueOrder'
  <1>1. cur \in Entries BY DEF OrderInv, TypeOK
  <1>2. cur'.lo = cur.lo /\ cur'.hi = cur.hi BY <1>1 DEF Hand, Entries
  <1>3. out' = out /\ chan' = chan /\ wpc' = wpc /\ uncomp' = uncomp /\ err' = err
    BY DEF Hand, sinkVars, queueVars, inputVars
  <1>4. pc # "raw" /\ pc' # "raw" BY DEF Hand
  <1> QED BY <1>2, <1>3, <1>4, TakenFrame DEF OrderInv, Busy, Live, Sent, QueueOrder

\* The writer goroutine starts to write only while nothing has failed.
LEMMA BeginQueue == ASSUME OrderInv, Begin PROVE QueueOrder'
  <1>1. /\ out' = out /\ chan' = chan /\ cur' = cur /\ uncomp' = uncomp /\ err' = err
        /\ pc' = pc /\ wp' = wp /\ wpc = "wait" /\ wpc' = "write" /\ Live
    BY DEF Begin, Skips, Live, sinkVars, queueVars, inputVars, callVars
  <1> QED BY <1>1, TakenFrame DEF OrderInv, Busy, Live, Sent

\* The writer goroutine ends.
LEMMA ExitQueue == ASSUME OrderInv, Exit PROVE QueueOrder'
  <1>1. /\ out' = out /\ chan' = chan /\ cur' = cur /\ uncomp' = uncomp /\ err' = err
        /\ pc' = pc /\ wp' = wp /\ wpc = "range" /\ wpc' = "exited"
    BY DEF Exit, sinkVars, queueVars, inputVars, callVars
  <1> QED BY <1>1, TakenFrame DEF OrderInv, Busy, Live, Sent

\* Every step of the writer goroutine keeps the places in order.
LEMMA PlacesDrain == ASSUME OrderInv, Draining PROVE PlacesInv'
  <1>1. QueueOrder'
    BY InvFacts, QueueTake, HandQueue, SkipQueue, BeginQueue, WriteOutQueue, ExitQueue DEF Draining
  <1> QED BY <1>1, InvFacts, DrainBounded, DrainTyped DEF PlacesInv

\* Every compression keeps the places in order.
LEMMA PlacesCompress ==
  ASSUME OrderInv, NEW kind \in DataKinds, Compress(kind)
  PROVE  PlacesInv'
  <1>1. QueueOrder' BY InvFacts, QueueCompress
  <1>2. Bounded' /\ EntryShape' /\ TypeOK' BY InvFacts, CompressShape
  <1> QED BY <1>1, <1>2 DEF PlacesInv, TypeOK

\* Every step keeps the places in order, whatever the interleaving.
LEMMA PlacesStep ==
  ASSUME OrderInv, Next
  PROVE  PlacesInv'
  <1> USE InvFacts, WriterAssumption, SMTT(20)
      DEF Live, Sent, Entered, Accept, FlushBuffer, Return, GoTo, Sender,
          callVars, inputVars, queueVars, sinkVars, boundVars
  <1>1. ASSUME NEW n \in 0 .. MaxUnits, CallWrite(n) PROVE PlacesInv'
    BY <1>1, PlacesFrame DEF CallWrite
  <1>2. ASSUME NEW n \in 0 .. MaxUnits, CallEncodeBuffer(n) PROVE PlacesInv'
    BY <1>2, PlacesFrame DEF CallEncodeBuffer
  <1>3. CASE CallReadFrom BY <1>3, PlacesFrame DEF CallReadFrom
  <1>4. CASE CallAddUserChunk BY <1>4, PlacesFrame DEF CallAddUserChunk
  <1>5. ASSUME NEW m \in {"Flush", "AsyncFlush"}, CallFlush(m) PROVE PlacesInv'
    BY <1>5, PlacesFrame DEF CallFlush
  <1>6. ASSUME NEW m \in {"Close", "CloseIndex"}, CallClose(m) PROVE PlacesInv'
    BY <1>6, PlacesFrame DEF CallClose
  <1>7. CASE CallReset BY <1>7, PlacesFrame DEF CallReset
  <1>8. CASE ResetDone BY <1>8, PlacesReset
  <1>9. CASE LoopDirect BY <1>9, PlacesFrame DEF LoopDirect
  <1>10. CASE LoopFill BY <1>10, PlacesFrame DEF LoopFill
  <1>11. CASE LoopBuffer BY <1>11, PlacesFrame DEF LoopBuffer
  <1>12. CASE Abandon BY <1>12, PlacesFrame DEF Abandon
  <1>13. CASE SendHeader BY <1>13, PlacesSendHeader
  <1>14. CASE SendBlock BY <1>14, PlacesSendBlock
  <1>15. CASE SendDone BY <1>15, PlacesFrame, RetTyped DEF SendDone
  <1>16. CASE EncodeStart BY <1>16, PlacesEncodeStart
  <1>17. CASE SyncHeader BY <1>17, PlacesSyncHeader
  <1>18. ASSUME NEW kind \in {"comp", "raw"}, SyncBlock(kind) PROVE PlacesInv'
    BY <1>18, PlacesSyncBlock
  <1>19. CASE SyncRaw BY <1>19, PlacesSyncRaw
  <1>20. CASE SyncFail BY <1>20, PlacesFrame DEF SyncFail
  <1>21. CASE SyncDone BY <1>21, PlacesFrame, RetTyped DEF SyncDone
  <1>22. ASSUME NEW n \in 1 .. BlockSize, ReadBlock(n) PROVE PlacesInv'
    BY <1>22, PlacesFrame DEF ReadBlock
  <1>23. CASE ReadEnd BY <1>23, PlacesFrame DEF ReadEnd
  <1>24. CASE UserHeader BY <1>24, PlacesUserHeader
  <1>25. CASE UserQueue BY <1>25, PlacesUserQueue
  <1>26. CASE UserSync BY <1>26, PlacesFrame DEF UserSync
  <1>27. CASE UserData BY <1>27, PlacesUserData
  <1>28. CASE UserFail BY <1>28, PlacesFrame DEF UserFail
  <1>29. CASE FlushQueue BY <1>29, PlacesFlushQueue
  <1>30. CASE CloseOutput BY <1>30, PlacesFrame DEF CloseOutput
  <1>31. CASE CloseJoin BY <1>31, PlacesFrame DEF CloseJoin
  <1>33. CASE CloseFailed BY <1>33, PlacesFrame DEF CloseFailed
  <1>34. CASE WriteEOF BY <1>34, PlacesWriteEOF
  <1>35. CASE WritePadding BY <1>35, PlacesWritePadding
  <1>36. CASE WriteIndex BY <1>36, PlacesWriteIndex
  <1>37. CASE Compressing BY <1>37, PlacesCompress DEF Compressing
  <1>38. CASE Draining BY <1>38, PlacesDrain
  <1> HIDE DEF OrderInv, PlacesInv
  <1> QED
    BY <1>1, <1>2, <1>3, <1>4, <1>5, <1>6, <1>7, <1>8, <1>9, <1>10, <1>11, <1>12, <1>13,
       <1>14, <1>15, <1>16, <1>17, <1>18, <1>19, <1>20, <1>21, <1>22, <1>23, <1>24, <1>25,
       <1>26, <1>27, <1>28, <1>29, <1>30, <1>31, <1>33, <1>34, <1>35, <1>36, <1>37,
       <1>38
    DEF Next, Calls, Running

-----------------------------------------------------------------------------
(* The types of everything else *)

ScalarsOK ==
  /\ pc \in {"idle", "reset", "loop", "send", "hand", "sync", "raw", "enc", "rf", "user",
             "userdata", "flush", "fhand", "fwait", "close", "eof", "pad", "index"}
  /\ call \in {"none", "Write", "EncodeBuffer", "ReadFrom", "AddUserChunk", "Flush",
               "AsyncFlush", "Close", "CloseIndex", "Reset"}
  /\ ret \in {"idle", "loop", "enc", "rf", "flush"}
  /\ p \in Spans /\ wp \in Spans /\ ibuf \in Spans
  /\ hdr \in BOOLEAN /\ uncomp \in Nat /\ err \in Errors
  /\ open \in BOOLEAN /\ sealed \in BOOLEAN
  /\ wpc \in {"range", "wait", "write", "exited"} /\ torn \in BOOLEAN
  /\ fed \in Nat /\ users \in Nat /\ resets \in Nat

\* TypeOK is the types of the places and those of everything else.
LEMMA TypeSplit == TypeOK <=> /\ ScalarsOK
                              /\ chan \in Seq(Entries) /\ Len(chan) <= Concurrency
                              /\ cur \in Entries /\ out \in Seq(Chunks)
  BY DEF TypeOK, ScalarsOK

\* The invariant gives the types.
LEMMA InvScalars == OrderInv => ScalarsOK
  BY DEF OrderInv, TypeOK, ScalarsOK

\* The empty span is a span.
LEMMA NothingTyped == Nothing \in Spans
  BY DEF Nothing, Span, Spans

\* The steps that cut spans or touch Boolean variables.
LEMMA ScalarsReset == ASSUME OrderInv, ResetDone PROVE ScalarsOK'
  <1>1. /\ pc' = "idle" /\ call' = "none" /\ ret' = "idle" /\ p' = Nothing /\ wp' = Nothing
        /\ ibuf' = Nothing /\ hdr' = FALSE /\ uncomp' = 0 /\ fed' = 0 /\ users' = 0
        /\ sealed' = FALSE /\ torn' = FALSE /\ resets' = resets
        /\ err' \in {"none", "nil"}
    BY ResetFacts
  <1>2. open' \in BOOLEAN /\ wpc' \in {"range", "exited"} BY ResetFacts
  <1> QED BY <1>1, <1>2, InvScalars, NothingTyped DEF ScalarsOK, Errors

\* Write fills ibuf up.
LEMMA ScalarsLoopFill == ASSUME OrderInv, LoopFill PROVE ScalarsOK'
  <1>1. /\ p.lo \in Nat /\ p.hi \in Nat /\ ibuf.lo \in Nat /\ ibuf.hi \in Nat
    BY InvScalars, SpanEmpty DEF ScalarsOK
  <1> DEFINE n == BlockSize - Size(ibuf)
  <1>2. /\ pc' = Sender /\ ret' = "loop" /\ wp' = Span(ibuf.lo, ibuf.hi + n) /\ ibuf' = Nothing
        /\ p' = Span(p.lo + n, p.hi)
        /\ UNCHANGED <<call, hdr, uncomp, err, open, sealed, wpc, torn, fed, users, resets>>
    BY DEF LoopFill, queueVars, sinkVars, boundVars
  <1>3. p.lo = ibuf.hi BY DEF OrderInv, CallerOrder, LoopFill, Live
  <1>4. ibuf.hi + n \in Nat /\ p.lo + n \in Nat BY <1>1, <1>3, WriterAssumption DEF Size
  <1>5. wp' \in Spans /\ p' \in Spans BY <1>1, <1>2, <1>4, SpanTyped
  <1> QED BY <1>2, <1>5, InvScalars, NothingTyped DEF ScalarsOK, Sender

\* Write keeps the rest in ibuf.
LEMMA ScalarsLoopBuffer == ASSUME OrderInv, LoopBuffer PROVE ScalarsOK'
  <1>1. /\ p.lo \in Nat /\ p.hi \in Nat /\ ibuf.lo \in Nat /\ ibuf.hi \in Nat
        /\ p \in Spans /\ ibuf \in Spans
    BY InvScalars, SpanEmpty DEF ScalarsOK
  <1>2. /\ pc' = "idle" /\ call' = "none" /\ ret' = "idle" /\ wp' = Nothing /\ p' = Nothing
        /\ UNCHANGED <<hdr, uncomp, err, open, sealed, wpc, torn, fed, users, resets>>
    BY DEF LoopBuffer, Return, GoTo, queueVars, sinkVars, boundVars
  <1>3. p.lo <= p.hi BY DEF OrderInv, CallerOrder, LoopBuffer, Live
  <1>4. ibuf.hi + Size(p) \in Nat BY <1>1, <1>3 DEF Size
  <1>5. ibuf' \in {ibuf, p, Span(ibuf.lo, ibuf.hi + Size(p))} BY DEF LoopBuffer
  <1>6. ibuf' \in Spans BY <1>1, <1>4, <1>5, SpanTyped
  <1> QED BY <1>2, <1>6, InvScalars, NothingTyped DEF ScalarsOK

\* What writing a block leaves of the argument of write.
LEMMA RestTyped ==
  ASSUME OrderInv, Size(wp) > 0
  PROVE  LET n == Min({BlockSize, Size(wp)})
         IN Span(wp.lo + n, wp.hi) \in Spans /\ uncomp + n \in Nat
  <1> DEFINE n == Min({BlockSize, Size(wp)})
  <1>1. n \in Nat /\ wp.lo + n \in Nat /\ wp.hi \in Nat BY BlockCut, InvFacts
  <1> HIDE DEF n
  <1>2. Span(wp.lo + n, wp.hi) \in Spans /\ uncomp + n \in Nat BY <1>1, SpanTyped, InvFacts
  <1> QED BY <1>2 DEF n

\* write queues a block.
LEMMA ScalarsSendBlock == ASSUME OrderInv, SendBlock PROVE ScalarsOK'
  <1> DEFINE n == Min({BlockSize, Size(wp)})
  <1>1. /\ wp' = Span(wp.lo + n, wp.hi) /\ uncomp' = uncomp + n
        /\ UNCHANGED <<pc, call, ret, p, ibuf, hdr, err, open, sealed, wpc, torn, fed, users, resets>>
    BY DEF SendBlock, queueVars, sinkVars, boundVars
  <1>2. wp' \in Spans /\ uncomp' \in Nat BY <1>1, RestTyped DEF SendBlock
  <1> HIDE DEF n
  <1> QED BY <1>1, <1>2, InvScalars DEF ScalarsOK

\* writeSync writes a block.
LEMMA ScalarsSyncBlock ==
  ASSUME OrderInv, NEW kind \in {"comp", "raw"}, SyncBlock(kind)
  PROVE  ScalarsOK'
  <1> DEFINE n == Min({BlockSize, Size(wp)})
  <1>1. /\ wp' \in {wp, Span(wp.lo + n, wp.hi)} /\ uncomp' = uncomp + n
        /\ pc' \in {pc, "raw"} /\ torn' \in {torn, TRUE}
        /\ UNCHANGED <<call, ret, p, ibuf, hdr, err, open, sealed, wpc, fed, users, resets>>
    BY DEF SyncBlock, queueVars, sinkVars, boundVars
  <1>2. wp' \in Spans /\ uncomp' \in Nat BY <1>1, RestTyped, InvScalars DEF SyncBlock, ScalarsOK
  <1> HIDE DEF n
  <1>3. torn' \in BOOLEAN BY <1>1, InvScalars DEF ScalarsOK
  <1> QED BY <1>1, <1>2, <1>3, InvScalars DEF ScalarsOK

\* writeSync writes the data of a block.
LEMMA ScalarsSyncRaw == ASSUME OrderInv, SyncRaw PROVE ScalarsOK'
  <1> DEFINE n == Min({BlockSize, Size(wp)})
  <1>1. /\ wp' = Span(wp.lo + n, wp.hi) /\ pc' = "sync" /\ torn' = FALSE
        /\ UNCHANGED <<call, ret, p, ibuf, hdr, uncomp, err, open, sealed, wpc, fed, users, resets>>
    BY DEF SyncRaw, inputVars, queueVars, boundVars
  <1>2. wp.lo < wp.hi BY DEF OrderInv, CallerOrder, SyncRaw
  <1>3. Size(wp) > 0 BY <1>2, InvFacts DEF Size, TypeOK, Spans
  <1>4. wp' \in Spans BY <1>1, <1>3, RestTyped
  <1> HIDE DEF n
  <1> QED BY <1>1, <1>4, InvScalars DEF ScalarsOK

\* EncodeBuffer starts.
LEMMA ScalarsEncodeStart == ASSUME OrderInv, EncodeStart PROVE ScalarsOK'
  <1>1. /\ wp' = p /\ p' = Nothing /\ ret' = "idle" /\ pc' \in {"sync", "send", "hand"}
        /\ UNCHANGED <<call, ibuf, uncomp, err, open, sealed, wpc, torn, fed, users, resets>>
    BY DEF EncodeStart, QueueHeader, Sender, sinkVars, boundVars
  <1>2. hdr' = hdr \/ hdr' = TRUE BY DEF EncodeStart, QueueHeader
  <1>3. hdr' \in BOOLEAN BY <1>2, InvScalars DEF ScalarsOK
  <1> QED BY <1>1, <1>3, InvScalars, NothingTyped DEF ScalarsOK

\* AddUserChunk sees to the header.
LEMMA ScalarsUserHeader == ASSUME OrderInv, UserHeader PROVE ScalarsOK'
  <1>1. /\ pc' \in {pc, "hand"} /\ hdr' = TRUE
        /\ UNCHANGED <<call, ret, p, wp, ibuf, uncomp, err, open, sealed, wpc, torn, fed, users, resets>>
    BY DEF UserHeader, QueueHeader, boundVars
  <1> QED BY <1>1, InvScalars DEF ScalarsOK

\* AddUserChunk writes its chunk.
LEMMA ScalarsUserData == ASSUME OrderInv, UserData PROVE ScalarsOK'
  <1>1. /\ pc' = "idle" /\ call' = "none" /\ ret' = "idle" /\ wp' = Nothing /\ p' = Nothing
        /\ torn' = FALSE
        /\ UNCHANGED <<ibuf, hdr, uncomp, err, open, sealed, wpc, fed, users, resets>>
    BY DEF UserData, Return, GoTo, inputVars, queueVars, boundVars
  <1> QED BY <1>1, InvScalars, NothingTyped DEF ScalarsOK

\* closeIndex waits for the writer goroutine.
LEMMA ScalarsCloseJoin == ASSUME OrderInv, CloseJoin PROVE ScalarsOK'
  <1>1. /\ open' = FALSE /\ pc' = "eof"
        /\ UNCHANGED <<call, ret, p, wp, ibuf, hdr, uncomp, err, sealed, wpc, torn, fed, users, resets>>
    BY DEF CloseJoin, inputVars, sinkVars, boundVars
  <1> QED BY <1>1, InvScalars DEF ScalarsOK

\* closeIndex writes the end of the stream.
LEMMA ScalarsEnd ==
  ASSUME OrderInv, WriteEOF \/ WritePadding \/ WriteIndex
  PROVE  ScalarsOK'
  <1>1. /\ pc' \in {"pad", "index", "idle"} /\ call' \in {call, "none"} /\ ret' \in {ret, "idle"}
        /\ p' \in {p, Nothing} /\ wp' \in {wp, Nothing}
        /\ UNCHANGED <<ibuf, hdr, uncomp, open, sealed, wpc, fed, users, resets>>
    BY DEF WriteEOF, WritePadding, WriteIndex, Return, GoTo, inputVars, queueVars, boundVars
  <1>2. err' \in {err, "io", "rand", "closed"}
    BY DEF WriteEOF, WritePadding, WriteIndex, SetErr
  <1>3. torn' = torn \/ torn' = TRUE
    BY DEF WriteEOF, WritePadding, WriteIndex
  <1>4. torn' \in BOOLEAN BY <1>3, InvScalars DEF ScalarsOK
  <1>5. p' \in Spans /\ wp' \in Spans BY <1>1, InvScalars, NothingTyped DEF ScalarsOK
  <1>6. err' \in Errors BY <1>2, InvScalars DEF ScalarsOK, Errors
  <1> QED BY <1>1, <1>4, <1>5, <1>6, InvScalars DEF ScalarsOK

\* The writer goroutine writes.
LEMMA ScalarsWriteOut == ASSUME OrderInv, WriteOut PROVE ScalarsOK'
  <1>1. /\ wpc' = "range"
        /\ UNCHANGED <<pc, call, ret, p, wp, ibuf, hdr, uncomp, open, sealed, fed, users, resets>>
    BY DEF WriteOut, callVars, inputVars, queueVars, boundVars
  <1>2. err' \in {err, "io"} BY DEF WriteOut, SetErr
  <1>3. torn' = torn \/ torn' = TRUE BY DEF WriteOut
  <1>4. torn' \in BOOLEAN BY <1>3, InvScalars DEF ScalarsOK
  <1>5. err' \in Errors BY <1>2, InvScalars DEF ScalarsOK, Errors
  <1> QED BY <1>1, <1>4, <1>5, InvScalars DEF ScalarsOK

\* Every step keeps the types of the rest of the state.
LEMMA ScalarsStep ==
  ASSUME OrderInv, Next
  PROVE  ScalarsOK'
  <1> USE InvScalars, WriterAssumption, NothingTyped, SMTT(20)
      DEF ScalarsOK, Errors, Entered, Accept, FlushBuffer, Return, GoTo, Sender, QueueHeader,
          callVars, inputVars, queueVars, sinkVars, boundVars
  <1>1. ASSUME NEW n \in 0 .. MaxUnits, CallWrite(n) PROVE ScalarsOK'
    BY <1>1, SpanTyped DEF CallWrite
  <1>2. ASSUME NEW n \in 0 .. MaxUnits, CallEncodeBuffer(n) PROVE ScalarsOK'
    BY <1>2, SpanTyped DEF CallEncodeBuffer
  <1>3. CASE CallReadFrom BY <1>3 DEF CallReadFrom
  <1>4. CASE CallAddUserChunk BY <1>4 DEF CallAddUserChunk
  <1>5. ASSUME NEW m \in {"Flush", "AsyncFlush"}, CallFlush(m) PROVE ScalarsOK'
    BY <1>5 DEF CallFlush
  <1>6. ASSUME NEW m \in {"Close", "CloseIndex"}, CallClose(m) PROVE ScalarsOK'
    BY <1>6 DEF CallClose
  <1>7. CASE CallReset BY <1>7 DEF CallReset
  <1>8. CASE ResetDone BY <1>8, ScalarsReset
  <1>9. CASE LoopDirect BY <1>9, SpanTyped, SpanEmpty DEF LoopDirect
  <1>10. CASE LoopFill BY <1>10, ScalarsLoopFill
  <1>11. CASE LoopBuffer BY <1>11, ScalarsLoopBuffer
  <1>12. CASE Abandon BY <1>12 DEF Abandon
  <1>13. CASE SendHeader BY <1>13 DEF SendHeader
  <1>14. CASE SendBlock BY <1>14, ScalarsSendBlock
  <1>15. CASE SendDone BY <1>15 DEF SendDone
  <1>16. CASE EncodeStart BY <1>16, ScalarsEncodeStart
  <1>17. CASE SyncHeader BY <1>17 DEF SyncHeader
  <1>18. ASSUME NEW kind \in {"comp", "raw"}, SyncBlock(kind) PROVE ScalarsOK'
    BY <1>18, ScalarsSyncBlock
  <1>19. CASE SyncRaw BY <1>19, ScalarsSyncRaw
  <1>20. CASE SyncFail BY <1>20 DEF SyncFail
  <1>21. CASE SyncDone BY <1>21 DEF SyncDone
  <1>22. ASSUME NEW n \in 1 .. BlockSize, ReadBlock(n) PROVE ScalarsOK'
    BY <1>22, SpanTyped DEF ReadBlock
  <1>23. CASE ReadEnd BY <1>23 DEF ReadEnd
  <1>24. CASE UserHeader BY <1>24, ScalarsUserHeader
  <1>25. CASE UserQueue BY <1>25 DEF UserQueue
  <1>26. CASE UserSync BY <1>26 DEF UserSync
  <1>27. CASE UserData BY <1>27, ScalarsUserData
  <1>28. CASE UserFail BY <1>28 DEF UserFail
  <1>29. CASE FlushQueue BY <1>29 DEF FlushQueue, FlushReturns
  <1>30. CASE CloseOutput BY <1>30 DEF CloseOutput
  <1>31. CASE CloseJoin BY <1>31, ScalarsCloseJoin
  <1>33. CASE CloseFailed BY <1>33 DEF CloseFailed
  <1>34. CASE WriteEOF BY <1>34, ScalarsEnd
  <1>35. CASE WritePadding BY <1>35, ScalarsEnd
  <1>36. CASE WriteIndex BY <1>36, ScalarsEnd
  <1>37. CASE Compressing BY <1>37 DEF Compressing, Compress
  <1>38. CASE Take BY <1>38 DEF Take
  <1>39. CASE Hand BY <1>39 DEF Hand
  <1>40. CASE Skip BY <1>40 DEF Skip, FlushReturns
  <1>41. CASE Begin BY <1>41 DEF Begin
  <1>42. CASE WriteOut BY <1>42, ScalarsWriteOut
  <1>43. CASE Exit BY <1>43 DEF Exit
  <1> HIDE DEF OrderInv, ScalarsOK
  <1> QED
    BY <1>1, <1>2, <1>3, <1>4, <1>5, <1>6, <1>7, <1>8, <1>9, <1>10, <1>11, <1>12, <1>13,
       <1>14, <1>15, <1>16, <1>17, <1>18, <1>19, <1>20, <1>21, <1>22, <1>23, <1>24, <1>25, <1>26,
       <1>27, <1>28, <1>29, <1>30, <1>31, <1>33, <1>34, <1>35, <1>36, <1>37, <1>38, <1>39,
       <1>40, <1>41, <1>42, <1>43
    DEF Next, Calls, Running, Draining

-----------------------------------------------------------------------------
(* The end of the stream *)

\* A chunk moves the end of the data to its own.
LEMMA EmitEnd ==
  ASSUME OrderInv, NEW kind \in Kinds, NEW lo \in Nat, NEW hi \in Nat, NEW size,
         Emit(kind, lo, hi, size)
  PROVE  DataEnd(out') = hi
  <1>1. /\ Chunk(kind, lo, hi) \in Chunks /\ Chunk(kind, lo, hi).hi = hi
        /\ out' = Append(out, Chunk(kind, lo, hi))
    BY InvFacts, EmitTyped
  <1> QED BY <1>1, InvFacts, AppendFacts DEF DataEnd

\* A new stream is not ending.
LEMMA EndingReset == ASSUME ResetDone PROVE Ending'
  BY ResetFacts DEF Ending

\* A step of the calling goroutine outside closeIndex and without an error.
LEMMA EndingOpen ==
  ASSUME OrderInv, Live, err' # "closed", pc' \notin {"pad", "index"},
         pc' \in {"user", "userdata"} => err' = err
  PROVE  Ending'
  BY DEF Ending, Live

\* AddUserChunk sees to the header.
LEMMA EndingUserHeader == ASSUME OrderInv, UserHeader PROVE Ending'
  <1>1. CASE Concurrency = 1
    <2>1. Live /\ pc' = "user" /\ err' = err BY <1>1 DEF OrderInv, Ending, UserHeader
    <2> QED BY <2>1, EndingOpen DEF Live
  <1>2. CASE Concurrency # 1
    <2>1. pc' = "hand" /\ out' = out /\ err' = err /\ open' = open /\ fed' = fed
      BY <1>2 DEF UserHeader, QueueHeader, boundVars
    <2> QED BY <2>1 DEF OrderInv, Ending
  <1> QED BY <1>1, <1>2

\* AddUserChunk writes its chunk.
LEMMA EndingUserData == ASSUME OrderInv, UserData PROVE Ending'
  <1>1. Live /\ pc' = "idle" /\ err' = err
    BY DEF OrderInv, Ending, Alone, UserData, Return, GoTo
  <1> QED BY <1>1, EndingOpen DEF Live

\* When closeIndex writes the EOF marker all data are out.
LEMMA EndingWriteEOF == ASSUME OrderInv, WriteEOF PROVE Ending'
  <1>1. "eof" \in Kinds BY DEF Kinds
  <1>2. Live /\ uncomp = fed /\ uncomp' = uncomp /\ fed' = fed /\ open' = open
    BY DEF WriteEOF, OrderInv, CallerOrder, Live, inputVars, boundVars, queueVars
  <1>3. CASE Emit("eof", uncomp, uncomp, SizeOf("eof")) /\ pc' = "pad" /\ err' = err
    <2>1. DataEnd(out') = uncomp BY <1>1, <1>3, InvFacts, EmitEnd
    <2> QED BY <1>2, <1>3, <2>1 DEF Ending, Live
  <1>4. CASE err' = "io" /\ pc' = "idle"
    BY <1>4 DEF Ending
  <1> QED BY <1>3, <1>4 DEF WriteEOF, Return, GoTo

\* Padding carries no data.
LEMMA EndingWritePadding == ASSUME OrderInv, WritePadding PROVE Ending'
  <1>1. "pad" \in Kinds BY DEF Kinds
  <1>2. /\ Live /\ DataEnd(out) = fed /\ uncomp = fed
        /\ uncomp' = uncomp /\ fed' = fed /\ open' = open
    BY DEF WritePadding, OrderInv, Ending, inputVars, boundVars, queueVars
  <1>3. pc' \in {"index", "idle"} /\ err' \in {err, "io", "rand"}
    BY DEF WritePadding, Return, GoTo
  <1>4. out' = out \/ \E add : Emit("pad", uncomp, uncomp, add) BY DEF WritePadding
  <1>5. DataEnd(out') = fed BY <1>1, <1>2, <1>4, InvFacts, EmitEnd
  <1> QED BY <1>2, <1>3, <1>5 DEF Ending, Live

\* The index carries no data; after it the stream is closed.
LEMMA EndingWriteIndex == ASSUME OrderInv, WriteIndex PROVE Ending'
  <1>1. "index" \in Kinds BY DEF Kinds
  <1>2. DataEnd(out) = fed /\ uncomp = fed /\ fed' = fed /\ open' = open /\ pc' = "idle" /\ ~open
    BY DEF WriteIndex, OrderInv, Ending, Alone, boundVars, queueVars, Return, GoTo
  <1>3. out' = out \/ Emit("index", uncomp, uncomp, IndexSize(ix)) BY DEF WriteIndex
  <1>4. DataEnd(out') = fed BY <1>1, <1>2, <1>3, InvFacts, EmitEnd
  <1> QED BY <1>2, <1>4 DEF Ending

\* While the writer goroutine writes the stream is open.
LEMMA EndingWriteOut == ASSUME OrderInv, WriteOut PROVE Ending'
  <1>1. open /\ Concurrency # 1 /\ err # "closed" /\ pc \notin {"pad", "index"}
    BY DEF OrderInv, Alone, Ending, WriteOut
  <1>2. pc' = pc /\ err' \in {err, "io"} BY DEF WriteOut, SetErr, callVars
  <1> QED BY <1>1, <1>2 DEF Ending

\* Every step keeps what holds while and after a stream is closed.
LEMMA EndingStep ==
  ASSUME OrderInv, Next
  PROVE  Ending'
  <1> USE InvScalars, WriterAssumption, SMTT(20)
      DEF OrderInv, Ending, Live, Entered, FlushBuffer, Return, GoTo, Sender, QueueHeader,
          callVars, inputVars, queueVars, sinkVars, boundVars
  <1>1. ASSUME NEW n \in 0 .. MaxUnits, CallWrite(n) PROVE Ending'
    BY <1>1 DEF CallWrite, Accept
  <1>2. ASSUME NEW n \in 0 .. MaxUnits, CallEncodeBuffer(n) PROVE Ending'
    BY <1>2 DEF CallEncodeBuffer, Accept
  <1>3. CASE CallReadFrom BY <1>3 DEF CallReadFrom
  <1>4. CASE CallAddUserChunk BY <1>4 DEF CallAddUserChunk
  <1>5. ASSUME NEW m \in {"Flush", "AsyncFlush"}, CallFlush(m) PROVE Ending'
    BY <1>5 DEF CallFlush
  <1>6. ASSUME NEW m \in {"Close", "CloseIndex"}, CallClose(m) PROVE Ending'
    BY <1>6 DEF CallClose
  <1>7. CASE CallReset BY <1>7 DEF CallReset
  <1>8. CASE ResetDone BY <1>8, EndingReset
  <1>9. CASE LoopDirect BY <1>9 DEF LoopDirect
  <1>10. CASE LoopFill BY <1>10 DEF LoopFill
  <1>11. CASE LoopBuffer BY <1>11 DEF LoopBuffer
  <1>12. CASE Abandon BY <1>12 DEF Abandon
  <1>13. CASE SendHeader BY <1>13 DEF SendHeader
  <1>14. CASE SendBlock BY <1>14 DEF SendBlock
  <1>15. CASE SendDone BY <1>15, RetTyped DEF SendDone
  <1>16. CASE EncodeStart BY <1>16 DEF EncodeStart
  <1>17. CASE SyncHeader BY <1>17, EndingOpen DEF SyncHeader
  <1>18. ASSUME NEW kind \in {"comp", "raw"}, SyncBlock(kind) PROVE Ending'
    BY <1>18, EndingOpen DEF SyncBlock
  <1>19. CASE SyncRaw BY <1>19, EndingOpen DEF SyncRaw, CallerOrder
  <1>20. CASE SyncFail BY <1>20, RetTyped DEF SyncFail
  <1>21. CASE SyncDone BY <1>21, RetTyped DEF SyncDone
  <1>22. ASSUME NEW n \in 1 .. BlockSize, ReadBlock(n) PROVE Ending'
    BY <1>22 DEF ReadBlock, Accept
  <1>23. CASE ReadEnd BY <1>23 DEF ReadEnd
  <1>24. CASE UserHeader BY <1>24, EndingUserHeader
  <1>25. CASE UserQueue BY <1>25 DEF UserQueue
  <1>26. CASE UserSync BY <1>26 DEF UserSync
  <1>27. CASE UserData BY <1>27, EndingUserData
  <1>28. CASE UserFail BY <1>28 DEF UserFail
  <1>29. CASE FlushQueue BY <1>29 DEF FlushQueue, FlushReturns
  <1>30. CASE CloseOutput BY <1>30 DEF CloseOutput
  <1>31. CASE CloseJoin BY <1>31 DEF CloseJoin
  <1>33. CASE CloseFailed BY <1>33 DEF CloseFailed
  <1>34. CASE WriteEOF BY <1>34, EndingWriteEOF
  <1>35. CASE WritePadding BY <1>35, EndingWritePadding
  <1>36. CASE WriteIndex BY <1>36, EndingWriteIndex
  <1>37. CASE Compressing BY <1>37 DEF Compressing, Compress
  <1>38. CASE Take BY <1>38 DEF Take
  <1>39. CASE Hand BY <1>39 DEF Hand, Alone, Busy
  <1>40. CASE Skip BY <1>40 DEF Skip, FlushReturns, Alone, Busy
  <1>41. CASE Begin BY <1>41 DEF Begin
  <1>42. CASE WriteOut BY <1>42, EndingWriteOut
  <1>43. CASE Exit BY <1>43 DEF Exit
  <1> HIDE DEF OrderInv, Ending
  <1> QED
    BY <1>1, <1>2, <1>3, <1>4, <1>5, <1>6, <1>7, <1>8, <1>9, <1>10, <1>11, <1>12, <1>13,
       <1>14, <1>15, <1>16, <1>17, <1>18, <1>19, <1>20, <1>21, <1>22, <1>23, <1>24, <1>25, <1>26,
       <1>27, <1>28, <1>29, <1>30, <1>31, <1>33, <1>34, <1>35, <1>36, <1>37, <1>38, <1>39,
       <1>40, <1>41, <1>42, <1>43
    DEF Next, Calls, Running, Draining

-----------------------------------------------------------------------------
(* The invariant and what follows from it *)

\* A new Writer satisfies the invariant.
LEMMA InitOrder == Init => OrderInv
  <1> SUFFICES ASSUME Init PROVE OrderInv
    OBVIOUS
  <1>1. /\ pc = "idle" /\ call = "none" /\ ret = "idle" /\ p = Nothing /\ wp = Nothing
        /\ ibuf = Nothing /\ hdr = FALSE /\ uncomp = 0 /\ err = "none"
        /\ chan = <<>> /\ Len(chan) = 0 /\ sealed = FALSE /\ cur = NoEntry
        /\ out = <<>> /\ Len(out) = 0 /\ torn = FALSE
        /\ fed = 0 /\ users = 0 /\ resets = 0
    BY DEF Init
  <1>2. open = (Concurrency > 1) /\ wpc = (IF Concurrency > 1 THEN "range" ELSE "exited")
    BY DEF Init
  <1>3. ~Busy /\ wpc # "write" BY <1>2 DEF Busy
  <1>4. NoEntry \in Entries BY DEF NoEntry, Entry, Entries
  <1>5. TypeOK
    <2>1. open \in BOOLEAN /\ wpc \in {"range", "exited"} BY <1>2
    <2>2. ScalarsOK BY <1>1, <2>1, NothingTyped DEF ScalarsOK, Errors
    <2> QED BY <1>1, <1>4, <2>2, TypeSplit, WriterAssumption
  <1>6. EntryShape BY <1>1, <1>3 DEF EntryShape
  <1>7. QueueOrder BY <1>1, <1>3 DEF QueueOrder, QueueEnd, CurEnd, DataEnd, Sent
  <1>8. Bounded BY <1>1, <1>3 DEF Bounded, DataEnd
  <1>9. CallerOrder BY <1>1 DEF CallerOrder, Sending, Resting
  <1>10. Alone
    <2>1. CASE Concurrency > 1
      <3>1. open = TRUE /\ wpc = "range" BY <1>2, <2>1
      <3>2. Concurrency # 1 BY <2>1, WriterAssumption
      <3> QED BY <1>1, <1>3, <3>1, <3>2 DEF Alone
    <2>2. CASE ~(Concurrency > 1)
      <3>1. wpc = "exited" BY <1>2, <2>2
      <3>2. ~open BY <1>2, <2>2
      <3> QED BY <1>1, <1>3, <3>1, <3>2 DEF Alone
    <2> QED BY <2>1, <2>2
  <1>11. Ending BY <1>1, <1>2 DEF Ending
  <1> QED BY <1>5, <1>6, <1>7, <1>8, <1>9, <1>10, <1>11 DEF OrderInv

\* Every step of the Writer keeps the invariant.
LEMMA NextOrder == OrderInv /\ Next => OrderInv'
  <1> SUFFICES ASSUME OrderInv, Next PROVE OrderInv'
    OBVIOUS
  <1>1. PlacesInv' BY PlacesStep
  <1>2. ScalarsOK' BY ScalarsStep
  <1>3. TypeOK' BY <1>1, <1>2 DEF PlacesInv, ScalarsOK, TypeOK
  <1>4. CallerOrder' BY CallerStep
  <1>5. Alone' BY AloneStep
  <1>6. Ending' BY EndingStep
  <1> QED BY <1>1, <1>3, <1>4, <1>5, <1>6 DEF OrderInv, PlacesInv

\* So does a step that changes nothing.
LEMMA StutterOrder == OrderInv /\ UNCHANGED vars => OrderInv'
  <1> SUFFICES ASSUME OrderInv, UNCHANGED vars PROVE OrderInv'
    OBVIOUS
  <1> USE DEF OrderInv, vars, callVars, inputVars, queueVars, sinkVars, boundVars
  <1>1. TypeOK' BY DEF TypeOK
  <1>2. EntryShape' BY DEF EntryShape, Busy
  <1>3. QueueOrder' BY QueueFrame DEF Live, Sent
  <1>4. Bounded' BY DEF Bounded, Busy
  <1>5. CallerOrder' BY DEF CallerOrder, Sending, Resting, Sent, Live
  <1>6. Alone' BY DEF Alone, Busy
  <1>7. Ending' BY DEF Ending, Live
  <1> QED BY <1>1, <1>2, <1>3, <1>4, <1>5, <1>6, <1>7

\* For every block size, channel capacity, buffering mode, padding and bound,
\* the user's units lie in order and without gap or overlap across the
\* underlying writer, the writer goroutine, the channel, the arguments and
\* ibuf, through Reset, Flush, Close and after failed writes (writer.go).
THEOREM WriterInvariant == Spec => []OrderInv
  <1>1. OrderInv /\ [Next]_vars => OrderInv' BY NextOrder, StutterOrder
  <1> QED BY InitOrder, <1>1, PTL DEF Spec

\* Every variable keeps its type, and the channel w.output, made with capacity
\* WriterConcurrency (writer.go:150), is never over it.
THEOREM WriterTyped == Spec => []TypeOK
  <1>1. OrderInv => TypeOK BY DEF OrderInv
  <1> QED BY <1>1, WriterInvariant, PTL

\* The chunks on the underlying writer carry the user's bytes in order, none
\* twice and none left out, however many goroutines compress and whatever
\* fails (writer.go:151-180, 508-545).
THEOREM WriterInOrder == Spec => []InOrder
  <1>1. OrderInv => InOrder
    BY InvFacts DEF InOrder, QueueOrder, Bounded
  <1> QED BY <1>1, WriterInvariant, PTL

\* The calling goroutine and the one Reset starts never use the underlying
\* writer, w.written and w.index at the same time, although AsyncFlush writes
\* from the caller before the header is out (writer.go:719-722, 784-845).
THEOREM WriterAlone == Spec => []DirectWriteAlone
  <1>1. OrderInv => DirectWriteAlone
    BY InvFacts DEF DirectWriteAlone, OrderInv, Alone, Busy, TypeOK
  <1> QED BY <1>1, WriterInvariant, PTL

-----------------------------------------------------------------------------
(* Steps of OrderedSink *)

\* Nothing the user sees has changed.
LEMMA SinkStutter ==
  ASSUME UNCHANGED <<fed, out, err>>
  PROVE  UNCHANGED Sink!vars
  BY DEF Sink!vars, Status, DataEnd

\* The user hands units over.
LEMMA SinkAccept ==
  ASSUME OrderInv, NEW n \in Nat, Accept(n), Live, UNCHANGED <<out, err>>
  PROVE  Sink!Accept
  BY InvScalars DEF ScalarsOK, Accept, Live, Sink!Accept, Status, DataEnd

\* A chunk is written at the end of what the underlying writer has.
LEMMA SinkEmit ==
  ASSUME OrderInv, NEW kind \in Kinds, NEW lo \in Nat, NEW hi \in Nat, NEW size,
         Emit(kind, lo, hi, size), lo <= hi, lo = DataEnd(out), hi <= fed,
         err \in {"none", "src", "rand"}, UNCHANGED <<fed, err>>
  PROVE  Sink!Deliver
  <1>1. DataEnd(out') = hi BY EmitEnd
  <1>2. Status \in {"open", "aborted"} /\ Status' = Status BY DEF Status
  <1>3. fed \in Nat BY InvScalars DEF ScalarsOK
  <1> QED BY <1>1, <1>2, <1>3 DEF Sink!Deliver

\* A chunk without data, written by the calling goroutine.
LEMMA SinkMark ==
  ASSUME OrderInv, chan = <<>>, ~Busy, Live, pc # "raw", NEW kind \in Kinds, NEW size,
         Emit(kind, uncomp, uncomp, size), UNCHANGED <<fed, err>>
  PROVE  Sink!Deliver
  <1>1. DataEnd(out) = uncomp BY InvFacts, NothingQueued
  <1> QED BY <1>1, InvFacts, SinkEmit DEF Live

\* writeSync writes a block that was compressed, or starts one stored as it is.
LEMMA SinkSyncBlock ==
  ASSUME OrderInv, NEW kind \in {"comp", "raw"}, SyncBlock(kind)
  PROVE  Sink!Deliver \/ UNCHANGED Sink!vars
  <1> DEFINE n == Min({BlockSize, Size(wp)})
  <1>1. pc = "sync" /\ Live /\ Size(wp) > 0 /\ fed' = fed /\ err' = err
    BY DEF SyncBlock, Live, boundVars
  <1>2. chan = <<>> /\ ~Busy BY <1>1 DEF OrderInv, Alone
  <1>3. uncomp = wp.lo /\ wp.hi <= fed
    BY <1>1, InvFacts DEF OrderInv, CallerOrder, Sending, Sent, TypeOK, Spans
  <1>4. wp.lo \in Nat /\ n \in Nat /\ wp.hi \in Nat /\ wp.lo + n \in Nat /\ wp.lo + n <= wp.hi
    BY <1>1, InvFacts, BlockCut
  <1>5. DataEnd(out) = wp.lo BY <1>1, <1>2, <1>3, NothingQueued, InvFacts
  <1>6. CASE kind = "comp"
    <2>1. Emit("comp", wp.lo, wp.lo + n, SizeOf("comp")) BY <1>6 DEF SyncBlock
    <2> HIDE DEF n
    <2>2. "comp" \in Kinds BY DEF Kinds
    <2>3. wp.lo <= wp.lo + n /\ wp.lo + n <= fed BY <1>3, <1>4, InvFacts
    <2> QED BY <1>1, <1>4, <1>5, <2>1, <2>2, <2>3, SinkEmit DEF Live
  <1>7. CASE kind = "raw"
    BY <1>1, <1>7, SinkStutter DEF SyncBlock
  <1> QED BY <1>6, <1>7

\* writeSync writes the data of a block stored as it is.
LEMMA SinkSyncRaw == ASSUME OrderInv, SyncRaw PROVE Sink!Deliver
  <1> DEFINE n == Min({BlockSize, Size(wp)})
  <1>1. /\ pc = "raw" /\ fed' = fed /\ err' = err
        /\ Emit("raw", wp.lo, wp.lo + n, SizeOf("raw"))
    BY DEF SyncRaw, boundVars
  <1>2. chan = <<>> /\ ~Busy BY <1>1 DEF OrderInv, Alone
  <1>3. Live /\ wp.lo < wp.hi /\ uncomp = wp.lo + n BY <1>1 DEF OrderInv, CallerOrder
  <1>4. wp.lo \in Nat /\ wp.hi \in Nat BY InvFacts DEF TypeOK, Spans
  <1>5. n \in Nat BY <1>3, <1>4, InvFacts, BlockCut DEF Size
  <1> HIDE DEF n
  <1>6. "raw" \in Kinds BY DEF Kinds
  <1>7. DataEnd(out) = wp.lo BY <1>1, <1>2, <1>3, NothingQueued DEF Sent
  <1>8. wp.lo + n \in Nat /\ wp.lo <= wp.lo + n /\ wp.lo + n <= fed BY <1>3, <1>4, <1>5, InvFacts
  <1> QED BY <1>1, <1>3, <1>4, <1>6, <1>7, <1>8, SinkEmit DEF Live

\* AddUserChunk writes the stream header, or queues it.
LEMMA SinkUserHeader ==
  ASSUME OrderInv, UserHeader
  PROVE  Sink!Deliver \/ UNCHANGED Sink!vars
  <1>1. CASE Concurrency = 1
    <2>1. "header" \in Kinds BY DEF Kinds
    <2>2. chan = <<>> /\ ~Busy BY DEF OrderInv, Alone, UserHeader
    <2>3. Live BY <1>1 DEF OrderInv, Ending, UserHeader
    <2> QED BY <1>1, <2>1, <2>2, <2>3, SinkMark DEF UserHeader, boundVars
  <1>2. CASE Concurrency # 1
    BY <1>2, SinkStutter DEF UserHeader, boundVars
  <1> QED BY <1>1, <1>2

\* AddUserChunk writes its chunk.
LEMMA SinkUserData == ASSUME OrderInv, UserData PROVE Sink!Deliver
  <1>1. "user" \in Kinds BY DEF Kinds
  <1>2. chan = <<>> /\ ~Busy /\ Live BY DEF UserData, OrderInv, Alone, Ending
  <1> QED BY <1>1, <1>2, SinkMark DEF UserData, boundVars

\* A write of the calling goroutine fails.
LEMMA SinkBreak ==
  ASSUME Live, err' = "io", UNCHANGED <<fed, out>>
  PROVE  Sink!Break
  BY DEF Sink!Break, Status, Live, DataEnd

\* closeIndex writes the EOF marker, or fails to.
LEMMA SinkWriteEOF == ASSUME OrderInv, WriteEOF PROVE Sink!Deliver \/ Sink!Break
  <1>1. "eof" \in Kinds BY DEF Kinds
  <1>2. pc = "eof" /\ Live /\ fed' = fed BY DEF WriteEOF, Live, boundVars
  <1>3. chan = <<>> /\ ~Busy BY <1>2, EndAlone
  <1>4. CASE Emit("eof", uncomp, uncomp, SizeOf("eof")) /\ err' = err
    BY <1>1, <1>2, <1>3, <1>4, SinkMark
  <1>5. CASE err' = "io" /\ out' = out BY <1>2, <1>5, SinkBreak
  <1> QED BY <1>4, <1>5 DEF WriteEOF

\* closeIndex writes the padding, cannot write it, or cannot make it.
LEMMA SinkWritePadding ==
  ASSUME OrderInv, WritePadding
  PROVE  Sink!Deliver \/ UNCHANGED Sink!vars \/ Sink!Break \/ Sink!Abort
  <1>1. "pad" \in Kinds BY DEF Kinds
  <1>2. pc = "pad" /\ Live /\ fed' = fed BY DEF WritePadding, OrderInv, Ending, boundVars
  <1>3. chan = <<>> /\ ~Busy BY <1>2, EndAlone
  <1>4. \/ \E add : Emit("pad", uncomp, uncomp, add) /\ err' = err
        \/ out' = out /\ err' \in {err, "io", "rand"}
    BY DEF WritePadding
  <1>5. ASSUME NEW add, Emit("pad", uncomp, uncomp, add), err' = err PROVE Sink!Deliver
    BY <1>1, <1>2, <1>3, <1>5, SinkMark
  <1>6. CASE out' = out /\ err' = err BY <1>2, <1>6, SinkStutter
  <1>7. CASE out' = out /\ err' = "io" BY <1>2, <1>7, SinkBreak
  <1>8. CASE out' = out /\ err' = "rand"
    BY <1>2, <1>8 DEF Sink!Abort, Status, Live, DataEnd
  <1> QED BY <1>4, <1>5, <1>6, <1>7, <1>8

\* closeIndex writes the index and marks the Writer closed in one step, which
\* moves no data: everything was delivered before.
LEMMA SinkWriteIndex ==
  ASSUME OrderInv, CloseInv, WriteIndex
  PROVE  Sink!Finish \/ Sink!Break \/ UNCHANGED Sink!vars
  <1>1. pc = "index" /\ DataEnd(out) = fed /\ uncomp = fed /\ fed' = fed /\ fed \in Nat
    BY InvFacts DEF WriteIndex, OrderInv, Ending, boundVars
  <1>2. "index" \in Kinds BY DEF Kinds
  <1>3. out' = out \/ Emit("index", uncomp, uncomp, IndexSize(ix)) BY DEF WriteIndex
  <1>4. DataEnd(out') = fed BY <1>1, <1>2, <1>3, EmitEnd
  <1>5. err # "closed" BY <1>1 DEF CloseInv
  <1>6. CASE Live
    <2>1. err' \in {"closed", "io"} BY <1>6 DEF WriteIndex, SetErr, Live
    <2> QED BY <1>1, <1>4, <1>6, <2>1 DEF Sink!Finish, Sink!Break, Status, Live
  <1>7. CASE ~Live
    <2>1. err' = err BY <1>7 DEF WriteIndex, SetErr, Live
    <2> QED BY <1>1, <1>4, <2>1 DEF Sink!vars, Status
  <1> QED BY <1>6, <1>7

\* The writer goroutine writes a block, or fails to.
LEMMA SinkWriteOut ==
  ASSUME OrderInv, CloseInv, WriteOut
  PROVE  Sink!Deliver \/ Sink!Break \/ UNCHANGED Sink!vars
  <1>1. wpc = "write" /\ Busy /\ fed' = fed BY DEF WriteOut, Busy, boundVars
  <1>2. /\ cur.lo = DataEnd(out) /\ cur.lo <= cur.hi /\ cur.hi <= fed
        /\ cur.kind # "none" /\ cur.kind # "data" /\ cur.kind # "flush"
    BY <1>1 DEF OrderInv, QueueOrder, Bounded, EntryShape
  <1>3. cur.kind \in Kinds /\ cur.lo \in Nat /\ cur.hi \in Nat
    BY <1>2, InvFacts DEF Entries
  <1>4. err \in {"none", "src"} BY <1>1 DEF CloseInv
  <1>5. CASE Emit(cur.kind, cur.lo, cur.hi, SizeOf(cur.kind)) /\ err' = err
    BY <1>1, <1>2, <1>3, <1>4, <1>5, SinkEmit
  <1>6. CASE SetErr("io") /\ out' = out
    <2>1. CASE Live BY <1>1, <1>6, <2>1, SinkBreak DEF SetErr, Live
    <2>2. CASE ~Live BY <1>1, <1>6, <2>2, SinkStutter DEF SetErr, Live
    <2> QED BY <2>1, <2>2
  <1> QED BY <1>5, <1>6 DEF WriteOut

\* The stream header written by writeSync.
LEMMA SinkSyncHeader == ASSUME OrderInv, SyncHeader PROVE Sink!Deliver
  <1>1. "header" \in Kinds BY DEF Kinds
  <1>2. chan = <<>> /\ ~Busy /\ Live BY DEF OrderInv, Alone, SyncHeader, Live
  <1> QED BY <1>1, <1>2, SinkMark DEF SyncHeader, boundVars

\* A write of writeSync or AddUserChunk fails.
LEMMA SinkFail == ASSUME OrderInv, SyncFail \/ UserFail PROVE Sink!Break
  <1>1. out' = out /\ fed' = fed /\ err' = "io" BY DEF SyncFail, UserFail, boundVars
  <1>2. Live BY DEF SyncFail, UserFail, OrderInv, CallerOrder, Alone, Ending, Live
  <1> QED BY <1>1, <1>2, SinkBreak

\* Reset starts another stream.
LEMMA SinkReset == ASSUME ResetDone PROVE Sink!Renew
  BY ResetFacts DEF Sink!Renew, Status, DataEnd

\* Every step of the Writer is a step of OrderedSink, or changes nothing in it.
LEMMA SinkStep ==
  ASSUME OrderInv, CloseInv, Next
  PROVE  [Sink!Next]_Sink!vars
  <1> USE DEF Entered, Live, sinkVars, boundVars, Sink!Next
  <1>1. ASSUME NEW n \in 0 .. MaxUnits, CallWrite(n) PROVE Sink!Accept
    BY <1>1, SinkAccept, WriterAssumption DEF CallWrite
  <1>2. ASSUME NEW n \in 0 .. MaxUnits, CallEncodeBuffer(n) PROVE Sink!Accept
    BY <1>2, SinkAccept, WriterAssumption DEF CallEncodeBuffer
  <1>3. CASE CallReadFrom BY <1>3, SinkStutter DEF CallReadFrom
  <1>4. CASE CallAddUserChunk BY <1>4, SinkStutter DEF CallAddUserChunk
  <1>5. ASSUME NEW m \in {"Flush", "AsyncFlush"}, CallFlush(m) PROVE UNCHANGED Sink!vars
    BY <1>5, SinkStutter DEF CallFlush
  <1>6. ASSUME NEW m \in {"Close", "CloseIndex"}, CallClose(m) PROVE UNCHANGED Sink!vars
    BY <1>6, SinkStutter DEF CallClose
  <1>7. CASE CallReset BY <1>7, SinkStutter DEF CallReset
  <1>8. CASE ResetDone BY <1>8, SinkReset
  <1>9. CASE LoopDirect \/ LoopFill \/ LoopBuffer \/ Abandon
    BY <1>9, SinkStutter DEF LoopDirect, LoopFill, LoopBuffer, Abandon
  <1>10. CASE SendHeader \/ SendBlock \/ SendDone \/ EncodeStart
    BY <1>10, SinkStutter DEF SendHeader, SendBlock, SendDone, EncodeStart
  <1>11. CASE SyncHeader BY <1>11, SinkSyncHeader
  <1>12. ASSUME NEW kind \in {"comp", "raw"}, SyncBlock(kind)
         PROVE  Sink!Deliver \/ UNCHANGED Sink!vars
    BY <1>12, SinkSyncBlock
  <1>13. CASE SyncRaw BY <1>13, SinkSyncRaw
  <1>14. CASE SyncFail \/ UserFail BY <1>14, SinkFail
  <1>15. CASE SyncDone BY <1>15, SinkStutter DEF SyncDone
  <1>16. ASSUME NEW n \in 1 .. BlockSize, ReadBlock(n) PROVE Sink!Accept
    BY <1>16, SinkAccept, WriterAssumption DEF ReadBlock
  <1>17. CASE ReadEnd
    <2>1. Live /\ out' = out /\ fed' = fed /\ err' \in {"none", "src"} BY <1>17 DEF ReadEnd
    <2> QED BY <2>1 DEF Sink!Abort, Sink!vars, Status, DataEnd
  <1>18. CASE UserHeader BY <1>18, SinkUserHeader
  <1>19. CASE UserQueue \/ UserSync BY <1>19, SinkStutter DEF UserQueue, UserSync
  <1>20. CASE UserData BY <1>20, SinkUserData
  <1>21. CASE FlushQueue \/ CloseOutput \/ CloseJoin \/ CloseFailed
    BY <1>21, SinkStutter DEF FlushQueue, CloseOutput, CloseJoin, CloseFailed
  <1>22. CASE WriteEOF BY <1>22, SinkWriteEOF
  <1>23. CASE WritePadding BY <1>23, SinkWritePadding
  <1>24. CASE WriteIndex BY <1>24, SinkWriteIndex
  <1>25. CASE Compressing BY <1>25, SinkStutter DEF Compressing, Compress
  <1>26. CASE Take \/ Hand \/ Skip \/ Begin \/ Exit
    BY <1>26, SinkStutter DEF Take, Hand, Skip, Begin, Exit
  <1>27. CASE WriteOut BY <1>27, SinkWriteOut
  <1> HIDE DEF OrderInv, CloseInv
  <1> QED
    BY <1>1, <1>2, <1>3, <1>4, <1>5, <1>6, <1>7, <1>8, <1>9, <1>10, <1>11, <1>12, <1>13,
       <1>14, <1>15, <1>16, <1>17, <1>18, <1>19, <1>20, <1>21, <1>22, <1>23, <1>24, <1>25,
       <1>26, <1>27
    DEF Next, Calls, Running, Draining

-----------------------------------------------------------------------------
(* Flush *)

\* While Flush runs, the calling goroutine is sending what was buffered, with
\* Flush to come next, or in Flush itself.
LEMMA FlushInvStep ==
  ASSUME OrderInv, FlushInv, Next
  PROVE  FlushInv'
  <1> USE InvScalars, WriterAssumption, SMTT(20)
      DEF FlushInv, ScalarsOK, Sending, Entered, FlushBuffer, Return, GoTo, Sender, QueueHeader,
          callVars, inputVars, queueVars
  <1>1. ASSUME NEW n \in 0 .. MaxUnits, CallWrite(n) \/ CallEncodeBuffer(n) PROVE FlushInv'
    BY <1>1 DEF CallWrite, CallEncodeBuffer
  <1>2. CASE CallReadFrom \/ CallAddUserChunk \/ CallReset
    BY <1>2 DEF CallReadFrom, CallAddUserChunk, CallReset
  <1>3. ASSUME NEW m \in {"Flush", "AsyncFlush"}, CallFlush(m) PROVE FlushInv'
    BY <1>3 DEF CallFlush
  <1>4. ASSUME NEW m \in {"Close", "CloseIndex"}, CallClose(m) PROVE FlushInv'
    BY <1>4 DEF CallClose
  <1>5. CASE ResetDone BY <1>5, ResetFacts
  <1>6. CASE LoopDirect \/ LoopFill \/ LoopBuffer \/ Abandon
    BY <1>6 DEF LoopDirect, LoopFill, LoopBuffer, Abandon
  <1>7. CASE SendHeader \/ SendBlock \/ SendDone \/ EncodeStart
    BY <1>7 DEF SendHeader, SendBlock, SendDone, EncodeStart
  <1>8. CASE SyncHeader \/ SyncRaw \/ SyncFail \/ SyncDone
    BY <1>8 DEF SyncHeader, SyncRaw, SyncFail, SyncDone
  <1>9. ASSUME NEW kind \in {"comp", "raw"}, SyncBlock(kind) PROVE FlushInv'
    BY <1>9 DEF SyncBlock
  <1>10. ASSUME NEW n \in 1 .. BlockSize, ReadBlock(n) PROVE FlushInv'
    BY <1>10 DEF ReadBlock
  <1>11. CASE ReadEnd \/ UserHeader \/ UserQueue \/ UserSync \/ UserData \/ UserFail
    BY <1>11 DEF ReadEnd, UserHeader, UserQueue, UserSync, UserData, UserFail
  <1>12. CASE FlushQueue \/ CloseOutput \/ CloseJoin \/ CloseFailed
    BY <1>12 DEF FlushQueue, FlushReturns, CloseOutput, CloseJoin, CloseFailed
  <1>13. CASE WriteEOF \/ WritePadding \/ WriteIndex
    BY <1>13 DEF WriteEOF, WritePadding, WriteIndex
  <1>14. CASE Compressing \/ Take \/ Begin \/ WriteOut \/ Exit
    BY <1>14 DEF Compressing, Compress, Take, Begin, WriteOut, Exit
  <1>15. CASE Hand BY <1>15 DEF Hand
  <1>16. CASE Skip BY <1>16 DEF Skip, FlushReturns, OrderInv, Alone, Busy
  <1> HIDE DEF OrderInv, FlushInv
  <1> QED
    BY <1>1, <1>2, <1>3, <1>4, <1>5, <1>6, <1>7, <1>8, <1>9, <1>10, <1>11, <1>12, <1>13,
       <1>14, <1>15, <1>16
    DEF Next, Calls, Running, Draining

\* Without a writer goroutine, or behind the flush entry, all is delivered.
LEMMA FlushDelivered ==
  ASSUME OrderInv, Live, pc \in {"flush", "fhand", "fwait"}, chan = <<>>,
         Busy => cur.lo = cur.hi
  PROVE  DataEnd(out) = fed
  <1>1. uncomp = fed /\ Sent = uncomp BY DEF OrderInv, CallerOrder, Live, Sent
  <1>2. QueueEnd = Sent /\ QueueEnd = CurEnd BY DEF OrderInv, QueueOrder, QueueEnd
  <1>3. CurEnd = DataEnd(out) BY DEF OrderInv, QueueOrder, CurEnd
  <1> QED BY <1>1, <1>2, <1>3

\* The only ways out of Flush without an error.
LEMMA FlushLeaves ==
  ASSUME OrderInv, FlushInv, Next, call = "Flush", pc' = "idle", err' = "none"
  PROVE  \/ FlushQueue /\ ~open
         \/ Skip /\ cur.kind = "flush"
  <1> USE InvScalars, SMTT(20)
      DEF FlushInv, ScalarsOK, Sending, Entered, FlushBuffer, Return, GoTo, Sender, QueueHeader,
          callVars, inputVars, queueVars
  <1>0. pc \in {"send", "sync", "raw", "hand", "flush", "fhand", "fwait"} OBVIOUS
  <1>1. ~Calls BY <1>0 DEF Calls, CallWrite, CallEncodeBuffer, CallReadFrom, CallAddUserChunk,
                   CallFlush, CallClose, CallReset
  <1>2. ~(ResetDone \/ LoopDirect \/ LoopFill \/ LoopBuffer \/ Abandon)
    BY <1>0 DEF ResetDone, LoopDirect, LoopFill, LoopBuffer, Abandon
  <1>3. ~(SendHeader \/ SendBlock \/ SendDone \/ EncodeStart)
    BY <1>0 DEF SendHeader, SendBlock, SendDone, EncodeStart
  <1>4. ~(SyncHeader \/ SyncRaw \/ SyncFail \/ SyncDone)
    BY <1>0 DEF SyncHeader, SyncRaw, SyncFail, SyncDone
  <1>5. ASSUME NEW kind \in {"comp", "raw"} PROVE ~SyncBlock(kind)
    BY <1>0 DEF SyncBlock
  <1>6. ASSUME NEW n \in 1 .. BlockSize PROVE ~ReadBlock(n)
    BY <1>0 DEF ReadBlock
  <1>7. ~(ReadEnd \/ UserHeader \/ UserQueue \/ UserSync \/ UserData \/ UserFail)
    BY <1>0 DEF ReadEnd, UserHeader, UserQueue, UserSync, UserData, UserFail
  <1>8. ~(CloseOutput \/ CloseJoin \/ CloseFailed \/ WriteEOF \/ WritePadding \/ WriteIndex)
    BY <1>0 DEF CloseOutput, CloseJoin, CloseFailed, WriteEOF, WritePadding, WriteIndex
  <1>9. ~(Compressing \/ Take \/ Hand \/ Begin \/ WriteOut \/ Exit)
    BY <1>0 DEF Compressing, Compress, Take, Hand, Begin, WriteOut, Exit
  <1>10. FlushQueue => ~open BY DEF FlushQueue
  <1>11. Skip => cur.kind = "flush" BY <1>0 DEF Skip
  <1> QED
    BY <1>1, <1>2, <1>3, <1>4, <1>5, <1>6, <1>7, <1>8, <1>9, <1>10, <1>11
    DEF Next, Running, Draining

\* When Flush returns without an error all is delivered and nothing is queued.
LEMMA FlushStep ==
  ASSUME OrderInv, FlushInv, Next, call = "Flush", pc' = "idle", err' = "none"
  PROVE  DataEnd(out') = fed /\ chan' = <<>>
  <1>1. CASE FlushQueue /\ ~open
    <2>1. pc = "flush" /\ chan = <<>> /\ ~Busy
      BY <1>1 DEF FlushQueue, OrderInv, Alone, Busy
    <2>2. Live /\ out' = out /\ chan' = chan
      BY <1>1 DEF FlushQueue, Live, sinkVars
    <2> QED BY <2>1, <2>2, FlushDelivered
  <1>2. CASE Skip /\ cur.kind = "flush"
    <2>1. Busy /\ Live /\ out' = out /\ chan' = chan
      BY <1>2 DEF Skip, Busy, Live, sinkVars, queueVars
    <2>2. chan = <<>> /\ pc \in {"fhand", "fwait"} /\ cur.lo = cur.hi
      BY <1>2, <2>1 DEF OrderInv, Alone, EntryShape
    <2> QED BY <2>1, <2>2, FlushDelivered
  <1> QED BY <1>1, <1>2, FlushLeaves

-----------------------------------------------------------------------------
(* The end of the stream *)

\* The chunks after Emit: the ones before it and the new one.
LEMMA EmitChunks ==
  ASSUME OrderInv, NEW kind \in Kinds, NEW lo \in Nat, NEW hi \in Nat, NEW size,
         Emit(kind, lo, hi, size)
  PROVE  /\ Len(out) \in Nat /\ Len(out') = Len(out) + 1
         /\ DOMAIN out = 1 .. Len(out) /\ DOMAIN out' = 1 .. Len(out')
         /\ out' # <<>>
         /\ \A k \in 1 .. Len(out) : out'[k] = out[k]
         /\ out'[Len(out) + 1].kind = kind
         /\ out'[Len(out) + 1].lo = lo /\ out'[Len(out) + 1].hi = hi
  <1>1. out \in Seq(Chunks) BY InvFacts
  <1>2. /\ Chunk(kind, lo, hi) \in Chunks /\ Chunk(kind, lo, hi).kind = kind
        /\ Chunk(kind, lo, hi).lo = lo /\ Chunk(kind, lo, hi).hi = hi
    BY DEF Chunk, Chunks
  <1>3. out' = Append(out, Chunk(kind, lo, hi)) BY DEF Emit
  <1>4. out' \in Seq(Chunks) BY <1>1, <1>2, <1>3, AppendFacts
  <1> QED BY <1>1, <1>2, <1>3, <1>4, AppendFacts

\* A chunk other than an EOF marker adds none.
LEMMA NoEOFEmit ==
  ASSUME OrderInv, NoEOF, NEW kind \in Kinds \ {"eof"}, NEW lo \in Nat, NEW hi \in Nat, NEW size,
         Emit(kind, lo, hi, size)
  PROVE  NoEOF'
  BY EmitChunks DEF NoEOF

\* The first EOF marker, with the total.
LEMMA EOFEmit ==
  ASSUME OrderInv, NoEOF, NEW size, Emit("eof", fed, fed, size), fed' = fed
  PROVE  EOFIn(out', fed')
  <1>1. "eof" \in Kinds /\ fed \in Nat BY InvFacts DEF Kinds
  <1> QED BY <1>1, EmitChunks DEF NoEOF, EOFIn

\* Padding and an index may follow the EOF marker.
LEMMA EOFTail ==
  ASSUME OrderInv, EOFIn(out, fed), NEW kind \in {"pad", "index"}, NEW lo \in Nat, NEW hi \in Nat,
         NEW size, Emit(kind, lo, hi, size), fed' = fed
  PROVE  EOFIn(out', fed')
  <1>1. kind \in Kinds BY DEF Kinds
  <1>2. PICK k \in DOMAIN out :
          /\ out[k].kind = "eof" /\ out[k].hi = fed
          /\ \A j \in DOMAIN out : j > k => out[j].kind \in {"pad", "index"}
          /\ \A j \in DOMAIN out : j < k => out[j].kind # "eof"
    BY DEF EOFIn
  <1>3. /\ Len(out) \in Nat /\ Len(out') = Len(out) + 1
        /\ DOMAIN out = 1 .. Len(out) /\ DOMAIN out' = 1 .. Len(out')
        /\ \A j \in 1 .. Len(out) : out'[j] = out[j]
        /\ out'[Len(out) + 1].kind = kind
    BY <1>1, EmitChunks
  <1>4. k \in DOMAIN out' /\ out'[k] = out[k] BY <1>2, <1>3
  <1>5. \A j \in DOMAIN out' : j > k => out'[j].kind \in {"pad", "index"}
    BY <1>2, <1>3
  <1>6. \A j \in DOMAIN out' : j < k => out'[j].kind # "eof"
    BY <1>2, <1>3
  <1> QED BY <1>2, <1>4, <1>5, <1>6 DEF EOFIn

\* The calling goroutine writes a chunk before the end, and goes on or returns.
LEMMA CloseEmit ==
  ASSUME OrderInv, CloseInv, Live, pc \notin {"pad", "index"}, wpc # "write",
         NEW kind \in Kinds \ {"eof"}, NEW lo \in Nat, NEW hi \in Nat, NEW size,
         Emit(kind, lo, hi, size), UNCHANGED <<err, wpc>>,
         pc' \notin {"pad", "index"}, pc' \notin {"raw", "userdata"} => ~torn'
  PROVE  CloseInv'
  <1>1. NoEOF' BY NoEOFEmit DEF CloseInv
  <1> QED BY <1>1 DEF CloseInv, Live

\* writeSync writes a block that was compressed, or starts one stored as it is.
LEMMA CloseSyncBlock ==
  ASSUME OrderInv, CloseInv, NEW kind \in {"comp", "raw"}, SyncBlock(kind)
  PROVE  CloseInv'
  <1> DEFINE n == Min({BlockSize, Size(wp)})
  <1>1. /\ pc = "sync" /\ Live /\ Size(wp) > 0 /\ err' = err /\ wpc' = wpc /\ fed' = fed
        /\ wpc # "write"
    BY DEF SyncBlock, Live, boundVars, OrderInv, Alone, Busy
  <1>2. wp.lo \in Nat /\ wp.lo + n \in Nat BY <1>1, InvFacts, BlockCut
  <1>3. CASE kind = "comp"
    <2>1. /\ Emit("comp", wp.lo, wp.lo + n, SizeOf("comp")) /\ pc' = pc /\ torn' = torn
      BY <1>3 DEF SyncBlock
    <2> HIDE DEF n
    <2>2. "comp" \in Kinds \ {"eof"} BY DEF Kinds
    <2>3. ~torn' BY <1>1, <2>1 DEF CloseInv, Live
    <2> QED BY <1>1, <1>2, <2>1, <2>2, <2>3, CloseEmit
  <1>4. CASE kind = "raw"
    <2>1. pc' = "raw" /\ out' = out BY <1>4 DEF SyncBlock
    <2> QED BY <1>1, <2>1 DEF CloseInv, NoEOF, Live
  <1> QED BY <1>3, <1>4

\* writeSync writes the data of a block stored as it is.
LEMMA CloseSyncRaw == ASSUME OrderInv, CloseInv, SyncRaw PROVE CloseInv'
  <1> DEFINE n == Min({BlockSize, Size(wp)})
  <1>1. /\ pc = "raw" /\ pc' = "sync" /\ err' = err /\ wpc' = wpc /\ ~torn'
        /\ Emit("raw", wp.lo, wp.lo + n, SizeOf("raw"))
    BY DEF SyncRaw
  <1>2. Live /\ wp.lo < wp.hi /\ uncomp = wp.lo + n BY <1>1 DEF OrderInv, CallerOrder
  <1>3. wpc # "write" BY <1>1 DEF OrderInv, Alone, Busy
  <1>4. wp.lo \in Nat /\ wp.lo + n \in Nat BY <1>2, InvFacts DEF TypeOK, Spans
  <1> HIDE DEF n
  <1>5. "raw" \in Kinds \ {"eof"} BY DEF Kinds
  <1> QED BY <1>1, <1>2, <1>3, <1>4, <1>5, CloseEmit

\* The header, or a user chunk, written by the calling goroutine.
LEMMA CloseMarks ==
  ASSUME OrderInv, CloseInv, SyncHeader \/ (UserHeader /\ Concurrency = 1) \/ UserData
  PROVE  CloseInv'
  <1>1. "header" \in Kinds \ {"eof"} /\ "user" \in Kinds \ {"eof"} BY DEF Kinds
  <1>2. Live /\ wpc # "write"
    BY DEF OrderInv, Alone, Ending, Busy, Live, SyncHeader, UserHeader, UserData
  <1>3. /\ pc \in {"sync", "user", "userdata"} /\ pc' \in {"sync", "user", "idle"}
        /\ err' = err /\ wpc' = wpc /\ uncomp \in Nat
    BY InvFacts DEF SyncHeader, UserHeader, UserData, Return, GoTo, callVars
  <1>4. ~torn' BY <1>2 DEF CloseInv, Live, SyncHeader, UserHeader, UserData
  <1>5. \E kind \in {"header", "user"} : \E size : Emit(kind, uncomp, uncomp, size)
    BY DEF SyncHeader, UserHeader, UserData
  <1> QED BY <1>1, <1>2, <1>3, <1>4, <1>5, CloseEmit

\* closeIndex writes the EOF marker, or fails to.
LEMMA CloseWriteEOF == ASSUME OrderInv, CloseInv, WriteEOF PROVE CloseInv'
  <1>1. /\ pc = "eof" /\ Live /\ wpc' = wpc /\ fed' = fed /\ wpc # "write" /\ uncomp = fed
    BY DEF WriteEOF, Live, boundVars, OrderInv, Alone, CallerOrder
  <1>2. CASE Emit("eof", uncomp, uncomp, SizeOf("eof")) /\ pc' = "pad" /\ err' = err /\ torn' = torn
    <2>1. EOFIn(out', fed') BY <1>1, <1>2, EOFEmit DEF CloseInv
    <2> QED BY <1>1, <1>2, <2>1 DEF CloseInv, Live
  <1>3. CASE err' = "io" /\ pc' = "idle" BY <1>1, <1>3 DEF CloseInv, Live
  <1> QED BY <1>2, <1>3 DEF WriteEOF, Return, GoTo

\* closeIndex writes the padding or fails to; the EOF marker stays the last.
LEMMA CloseWritePadding == ASSUME OrderInv, CloseInv, WritePadding PROVE CloseInv'
  <1>1. /\ pc = "pad" /\ Live /\ wpc' = wpc /\ fed' = fed /\ wpc # "write" /\ uncomp \in Nat
        /\ EOFIn(out, fed) /\ ~torn
    BY InvFacts DEF WritePadding, OrderInv, Alone, Ending, CloseInv, Live, boundVars
  <1>2. CASE \E add : Emit("pad", uncomp, uncomp, add) /\ pc' = "index" /\ err' = err /\ torn' = torn
    <2>1. EOFIn(out', fed') BY <1>1, <1>2, EOFTail
    <2> QED BY <1>1, <1>2, <2>1 DEF CloseInv, Live
  <1>3. CASE out' = out /\ pc' = "index" /\ (err' = "io" \/ (err' = err /\ torn' = torn))
    BY <1>1, <1>3 DEF CloseInv, Live
  <1>4. CASE err' = "rand" /\ pc' = "idle"
    BY <1>1, <1>4 DEF CloseInv, Live
  <1> QED BY <1>2, <1>3, <1>4 DEF WritePadding, Return, GoTo

\* closeIndex writes the index or fails to; then the Writer is closed if
\* nothing went wrong.
LEMMA CloseWriteIndex == ASSUME OrderInv, CloseInv, WriteIndex PROVE CloseInv'
  <1>1. /\ pc = "index" /\ wpc' = wpc /\ fed' = fed /\ wpc # "write" /\ uncomp \in Nat
        /\ EOFIn(out, fed) /\ pc' = "idle"
    BY InvFacts DEF WriteIndex, OrderInv, Alone, CloseInv, boundVars, Return, GoTo
  <1>2. EOFIn(out', fed') BY <1>1, EOFTail DEF WriteIndex
  <1>3. err' # "none" /\ (err' = "closed" => err = "none" /\ torn' = torn)
    BY <1>1 DEF WriteIndex, SetErr, CloseInv
  <1> QED BY <1>1, <1>2, <1>3 DEF CloseInv, Live

\* The writer goroutine writes a block, or fails to.
LEMMA CloseWriteOut == ASSUME OrderInv, CloseInv, EntriesFit, WriteOut PROVE CloseInv'
  <1>1. /\ wpc = "write" /\ wpc' = "range" /\ Busy /\ pc' = pc /\ fed' = fed
        /\ err \in {"none", "src"} /\ err' \in {err, "io"}
    BY DEF WriteOut, Busy, CloseInv, SetErr, callVars, boundVars
  <1>2. pc \notin {"raw", "userdata", "pad", "index"}
    BY <1>1 DEF OrderInv, Alone
  <1>3. cur.kind # "none" /\ cur.kind # "data" /\ cur.kind # "flush" /\ cur.kind # "eof"
    BY <1>1 DEF OrderInv, EntryShape, EntriesFit
  <1>4. cur.kind \in Kinds \ {"eof"} /\ cur.lo \in Nat /\ cur.hi \in Nat
    BY <1>3, InvFacts DEF Entries
  <1>5. CASE Emit(cur.kind, cur.lo, cur.hi, SizeOf(cur.kind)) /\ err' = err /\ torn' = torn
    <2>1. Live => NoEOF' BY <1>2, <1>4, <1>5, NoEOFEmit DEF CloseInv
    <2> QED BY <1>1, <1>2, <1>5, <2>1 DEF CloseInv, Live
  <1>6. CASE SetErr("io") BY <1>1, <1>2, <1>6 DEF CloseInv, SetErr, Live
  <1> QED BY <1>5, <1>6 DEF WriteOut

\* A new stream has no end yet.
LEMMA CloseReset == ASSUME ResetDone PROVE CloseInv'
  <1>1. /\ out' = <<>> /\ err' \in {"none", "nil"} /\ pc' = "idle"
        /\ torn' = FALSE /\ wpc' \in {"range", "exited"}
    BY ResetFacts
  <1>2. NoEOF' BY <1>1 DEF NoEOF
  <1> QED BY <1>1, <1>2 DEF CloseInv

\* Every step keeps what is needed to close the stream.
LEMMA CloseStep ==
  ASSUME OrderInv, EntriesFit, CloseInv, Next
  PROVE  CloseInv'
  <1> USE InvScalars, WriterAssumption, SMTT(20)
      DEF CloseInv, NoEOF, Live, Entered, Accept, FlushBuffer, Return, GoTo, Sender, QueueHeader,
          callVars, inputVars, queueVars, sinkVars, boundVars
  <1>1. ASSUME NEW n \in 0 .. MaxUnits, CallWrite(n) \/ CallEncodeBuffer(n) PROVE CloseInv'
    BY <1>1 DEF CallWrite, CallEncodeBuffer
  <1>2. CASE CallReadFrom \/ CallAddUserChunk \/ CallReset
    BY <1>2 DEF CallReadFrom, CallAddUserChunk, CallReset
  <1>3. ASSUME NEW m \in {"Flush", "AsyncFlush"}, CallFlush(m) PROVE CloseInv'
    BY <1>3 DEF CallFlush
  <1>4. ASSUME NEW m \in {"Close", "CloseIndex"}, CallClose(m) PROVE CloseInv'
    BY <1>4 DEF CallClose
  <1>5. CASE ResetDone BY <1>5, CloseReset
  <1>6. CASE LoopDirect \/ LoopFill \/ LoopBuffer \/ Abandon
    BY <1>6 DEF LoopDirect, LoopFill, LoopBuffer, Abandon
  <1>7. CASE SendHeader \/ SendBlock
    BY <1>7 DEF SendHeader, SendBlock
  <1>8. CASE SendDone \/ SyncDone BY <1>8, RetTyped DEF SendDone, SyncDone, OrderInv, ScalarsOK
  <1>9. CASE EncodeStart BY <1>9 DEF EncodeStart
  <1>10. CASE SyncHeader \/ UserData BY <1>10, CloseMarks
  <1>11. ASSUME NEW kind \in {"comp", "raw"}, SyncBlock(kind) PROVE CloseInv'
    BY <1>11, CloseSyncBlock
  <1>12. CASE SyncRaw BY <1>12, CloseSyncRaw
  <1>13. CASE SyncFail
    BY <1>13, RetTyped DEF SyncFail, OrderInv, ScalarsOK, Alone, CallerOrder, Busy
  <1>14. ASSUME NEW n \in 1 .. BlockSize, ReadBlock(n) PROVE CloseInv'
    BY <1>14 DEF ReadBlock
  <1>15. CASE ReadEnd BY <1>15 DEF ReadEnd
  <1>16. CASE UserHeader
    <2>1. CASE Concurrency = 1 BY <1>16, <2>1, CloseMarks
    <2>2. CASE Concurrency # 1 BY <1>16, <2>2 DEF UserHeader
    <2> QED BY <2>1, <2>2
  <1>17. CASE UserQueue BY <1>17 DEF UserQueue
  <1>18. CASE UserSync BY <1>18 DEF UserSync, OrderInv, Ending
  <1>19. CASE UserFail BY <1>19 DEF UserFail, OrderInv, Alone, Busy
  <1>20. CASE FlushQueue BY <1>20 DEF FlushQueue, FlushReturns
  <1>21. CASE CloseOutput \/ CloseJoin \/ CloseFailed
    BY <1>21 DEF CloseOutput, CloseJoin, CloseFailed
  <1>22. CASE WriteEOF BY <1>22, CloseWriteEOF
  <1>23. CASE WritePadding BY <1>23, CloseWritePadding
  <1>24. CASE WriteIndex BY <1>24, CloseWriteIndex
  <1>25. CASE Compressing BY <1>25 DEF Compressing, Compress
  <1>26. CASE Take \/ Begin \/ Exit BY <1>26 DEF Take, Begin, Skips, Exit
  <1>27. CASE Hand BY <1>27 DEF Hand
  <1>28. CASE Skip BY <1>28 DEF Skip, FlushReturns, OrderInv, Alone, Busy
  <1>29. CASE WriteOut BY <1>29, CloseWriteOut
  <1> HIDE DEF OrderInv, CloseInv
  <1> QED
    BY <1>1, <1>2, <1>3, <1>4, <1>5, <1>6, <1>7, <1>8, <1>9, <1>10, <1>11, <1>12, <1>13,
       <1>14, <1>15, <1>16, <1>17, <1>18, <1>19, <1>20, <1>21, <1>22, <1>23, <1>24, <1>25,
       <1>26, <1>27, <1>28, <1>29
    DEF Next, Calls, Running, Draining

-----------------------------------------------------------------------------
(* The framing *)

\* An entry that fits is queued.
LEMMA FitAppend ==
  ASSUME OrderInv, EntriesFit, NEW e \in Entries, chan' = Append(chan, e),
         UNCHANGED <<cur, wpc>>, EntryFits(e), e.kind \notin {"eof", "pad", "index"}
  PROVE  EntriesFit'
  <1>1. /\ Len(chan) \in Nat /\ Len(chan') = Len(chan) + 1
        /\ \A k \in 1 .. Len(chan) : chan'[k] = chan[k]
        /\ chan'[Len(chan) + 1] = e
    BY InvFacts, AppendFacts
  <1> QED BY <1>1 DEF EntriesFit, Busy

\* An entry without data is queued.
LEMMA FitMark ==
  ASSUME OrderInv, EntriesFit, NEW kind \in {"header", "user", "flush"},
         NEW st \in {"ready", "caller"}, Queue(Entry(kind, uncomp, uncomp, uncomp, st)),
         UNCHANGED <<cur, wpc>>
  PROVE  EntriesFit'
  <1> DEFINE e == Entry(kind, uncomp, uncomp, uncomp, st)
  <1>1. /\ e \in Entries /\ e.lo = uncomp /\ e.hi = uncomp /\ e.kind = kind
        /\ chan' = Append(chan, e)
    BY InvFacts, MarkEntry DEF Queue
  <1> HIDE DEF e
  <1>2. EntryFits(e) BY <1>1, InvFacts DEF EntryFits, DataKinds
  <1> QED BY <1>1, <1>2, FitAppend

\* A block is queued: it is cut at the block size.
LEMMA FitSendBlock == ASSUME OrderInv, EntriesFit, SendBlock PROVE EntriesFit'
  <1> DEFINE n == Min({BlockSize, Size(wp)})
             e == Entry("data", wp.lo, wp.lo + n, uncomp, "busy")
  <1>1. Size(wp) > 0 /\ chan' = Append(chan, e) /\ cur' = cur /\ wpc' = wpc
    BY DEF SendBlock, Queue
  <1>2. e \in Entries /\ e.lo = wp.lo /\ e.hi = wp.lo + n /\ e.kind = "data"
    BY <1>1, InvFacts, BlockEntry
  <1>3. n \in Nat /\ n > 0 /\ n <= BlockSize /\ wp.lo \in Nat BY <1>1, InvFacts, BlockCut
  <1> HIDE DEF e, n
  <1>4. EntryFits(e) BY <1>2, <1>3 DEF EntryFits
  <1> QED BY <1>1, <1>2, <1>4, FitAppend

\* A block is compressed: it is the same block.
LEMMA FitCompress ==
  ASSUME OrderInv, EntriesFit, NEW kind \in DataKinds, Compress(kind)
  PROVE  EntriesFit'
  <1>1. /\ Len(chan') = Len(chan) /\ cur'.lo = cur.lo /\ cur'.hi = cur.hi
        /\ \A k \in 1 .. Len(chan) : chan'[k].lo = chan[k].lo /\ chan'[k].hi = chan[k].hi
    BY InvFacts, CompressKeeps
  <1>2. \A e \in Entries : Compressed(e, kind).kind = kind BY DEF Compressed, Entries
  <1>3. \A k \in 1 .. Len(chan) :
          chan'[k].kind = chan[k].kind \/ (chan[k].kind = "data" /\ chan'[k].kind = kind)
    BY <1>2, InvFacts DEF Compress, EntryShape
  <1>4. wpc' = wpc /\ (Busy => cur'.kind = cur.kind \/ (cur.kind = "data" /\ cur'.kind = kind))
    BY <1>2, InvFacts DEF Compress, EntryShape
  <1> QED BY <1>1, <1>3, <1>4 DEF EntriesFit, EntryFits, Busy, DataKinds

\* The writer goroutine takes an entry that fits.
LEMMA FitTake == ASSUME OrderInv, EntriesFit, Take PROVE EntriesFit'
  <1>1. /\ cur' = chan[1] /\ wpc' = "wait"
        /\ Len(chan) \in Nat /\ Len(chan) >= 1 /\ Len(chan') = Len(chan) - 1
        /\ \A k \in 1 .. Len(chan) - 1 : chan'[k] = chan[k + 1]
    BY InvFacts, TailFacts DEF Take
  <1>2. EntryFits(chan[1]) /\ chan[1].kind \notin {"eof", "pad", "index"} BY <1>1 DEF EntriesFit
  <1>3. \A k \in 1 .. Len(chan') : EntryFits(chan'[k]) /\ chan'[k].kind \notin {"eof", "pad", "index"}
    BY <1>1 DEF EntriesFit
  <1> QED BY <1>1, <1>2, <1>3 DEF EntriesFit

\* The writer goroutine is handed the result, or is done with it.
LEMMA FitDrain ==
  ASSUME OrderInv, EntriesFit, Hand \/ Skip \/ Begin \/ WriteOut \/ Exit
  PROVE  EntriesFit'
  <1>1. chan' = chan BY DEF Hand, Skip, Begin, WriteOut, Exit, queueVars
  <1>2. Busy' => Busy /\ cur'.kind = cur.kind /\ cur'.lo = cur.lo /\ cur'.hi = cur.hi
    BY InvFacts DEF Hand, Skip, Begin, WriteOut, Exit, Busy, Entries
  <1> QED BY <1>1, <1>2 DEF EntriesFit, EntryFits

\* The channel and the writer goroutine are left alone.
LEMMA FitFrame ==
  ASSUME EntriesFit, UNCHANGED <<chan, cur, wpc>>
  PROVE  EntriesFit'
  BY DEF EntriesFit, Busy

\* A new stream has nothing queued.
LEMMA FitReset == ASSUME ResetDone PROVE EntriesFit'
  <1>1. Len(chan') = 0 /\ chan' = <<>> BY ResetFacts
  <1>2. ~Busy' BY ResetFacts DEF Busy
  <1> QED BY <1>1, <1>2 DEF EntriesFit

\* No step queues or takes a block that does not fit.
LEMMA FitStep ==
  ASSUME OrderInv, EntriesFit, Next
  PROVE  EntriesFit'
  <1> USE SMTT(20) DEF queueVars, QueueHeader
  <1>1. CASE Calls
    BY <1>1, FitFrame
    DEF Calls, CallWrite, CallEncodeBuffer, CallReadFrom, CallAddUserChunk, CallFlush, CallClose,
        CallReset
  <1>2. CASE ResetDone BY <1>2, FitReset
  <1>3. CASE LoopDirect \/ LoopFill \/ LoopBuffer \/ Abandon \/ SendDone
    BY <1>3, FitFrame DEF LoopDirect, LoopFill, LoopBuffer, Abandon, SendDone
  <1>4. CASE SendHeader BY <1>4, FitMark DEF SendHeader
  <1>5. CASE SendBlock BY <1>5, FitSendBlock
  <1>6. CASE EncodeStart
    <2>1. /\ cur' = cur /\ wpc' = wpc
          /\ chan' = chan \/ Queue(Entry("header", uncomp, uncomp, uncomp, "caller"))
      BY <1>6 DEF EncodeStart
    <2> QED BY <2>1, FitFrame, FitMark
  <1>7. CASE SyncHeader \/ SyncBlock("comp") \/ SyncBlock("raw") \/ SyncRaw \/ SyncFail \/ SyncDone
    BY <1>7, FitFrame DEF SyncHeader, SyncBlock, SyncRaw, SyncFail, SyncDone
  <1>8. CASE (\E n \in 1 .. BlockSize : ReadBlock(n)) \/ ReadEnd
    BY <1>8, FitFrame DEF ReadBlock, ReadEnd
  <1>9. CASE UserHeader
    <2>1. CASE Concurrency = 1 BY <1>9, <2>1, FitFrame DEF UserHeader
    <2>2. CASE Concurrency # 1 BY <1>9, <2>2, FitMark DEF UserHeader
    <2> QED BY <2>1, <2>2
  <1>10. CASE UserQueue BY <1>10, FitMark DEF UserQueue
  <1>11. CASE UserSync \/ UserData \/ UserFail
    BY <1>11, FitFrame DEF UserSync, UserData, UserFail
  <1>12. CASE FlushQueue
    <2>1. CASE err # "none" \/ ~open BY <1>12, <2>1, FitFrame DEF FlushQueue
    <2>2. CASE ~(err # "none" \/ ~open) BY <1>12, <2>2, FitMark DEF FlushQueue
    <2> QED BY <2>1, <2>2
  <1>13. CASE CloseOutput \/ CloseJoin \/ CloseFailed \/ WriteEOF \/ WritePadding \/ WriteIndex
    BY <1>13, FitFrame DEF CloseOutput, CloseJoin, CloseFailed, WriteEOF, WritePadding, WriteIndex
  <1>14. CASE Compressing BY <1>14, FitCompress DEF Compressing
  <1>15. CASE Take BY <1>15, FitTake
  <1>16. CASE Hand \/ Skip \/ Begin \/ WriteOut \/ Exit BY <1>16, FitDrain
  <1> HIDE DEF OrderInv, EntriesFit
  <1> QED
    BY <1>1, <1>2, <1>3, <1>4, <1>5, <1>6, <1>7, <1>8, <1>9, <1>10, <1>11, <1>12, <1>13,
       <1>14, <1>15, <1>16
    DEF Next, Running, Draining

\* A chunk that fits is written in its place.
LEMMA FormEmit ==
  ASSUME OrderInv, WellFormed, NEW kind \in Kinds, NEW lo \in Nat, NEW hi \in Nat, NEW size,
         Emit(kind, lo, hi, size),
         kind = "header" => out = <<>>, out = <<>> => kind \in {"header", "eof"},
         IF kind \in DataKinds THEN lo < hi /\ hi - lo <= BlockSize ELSE lo = hi
  PROVE  WellFormed'
  <1>1. /\ Len(out) \in Nat /\ Len(out') = Len(out) + 1
        /\ DOMAIN out = 1 .. Len(out) /\ DOMAIN out' = 1 .. Len(out')
        /\ \A k \in 1 .. Len(out) : out'[k] = out[k]
        /\ out'[Len(out) + 1].kind = kind
        /\ out'[Len(out) + 1].lo = lo /\ out'[Len(out) + 1].hi = hi
    BY EmitChunks
  <1>2. out = <<>> <=> Len(out) = 0 BY InvFacts, SeqFacts
  <1>3. HeaderFirst' BY <1>1, <1>2 DEF WellFormed, HeaderFirst
  <1>4. BlocksFit' BY <1>1 DEF WellFormed, BlocksFit
  <1> QED BY <1>3, <1>4 DEF WellFormed

\* The calling goroutine writes a chunk without data.
LEMMA FormMark ==
  ASSUME OrderInv, WellFormed, NEW kind \in Kinds \ DataKinds, NEW size,
         Emit(kind, uncomp, uncomp, size),
         kind = "header" => out = <<>>, out = <<>> => kind \in {"header", "eof"}
  PROVE  WellFormed'
  BY InvFacts, FormEmit

\* writeSync has a block to write: the header is out, and the block is cut at
\* the block size.
LEMMA FormSyncBlock ==
  ASSUME OrderInv, FormInv, NEW kind \in {"comp", "raw"}, SyncBlock(kind)
  PROVE  WellFormed' /\ out # <<>>
  <1> DEFINE n == Min({BlockSize, Size(wp)})
  <1>1. pc = "sync" /\ Live /\ Size(wp) > 0 /\ hdr BY DEF SyncBlock, Live
  <1>2. chan = <<>> /\ ~Busy BY <1>1 DEF OrderInv, Alone
  <1>3. out # <<>> BY <1>1, <1>2 DEF FormInv, HeaderMarked
  <1>4. wp.lo \in Nat /\ n \in Nat /\ n > 0 /\ n <= BlockSize /\ wp.lo + n \in Nat
    BY <1>1, InvFacts, BlockCut
  <1>5. CASE kind = "comp"
    <2>1. Emit("comp", wp.lo, wp.lo + n, SizeOf("comp")) BY <1>5 DEF SyncBlock
    <2> HIDE DEF n
    <2>2. "comp" \in Kinds /\ "comp" \in DataKinds BY DEF Kinds, DataKinds
    <2>3. wp.lo < wp.lo + n /\ wp.lo + n - wp.lo <= BlockSize BY <1>4, WriterAssumption
    <2> QED BY <1>3, <1>4, <2>1, <2>2, <2>3, FormEmit DEF FormInv
  <1>6. CASE kind = "raw"
    <2>1. out' = out BY <1>6 DEF SyncBlock
    <2> QED BY <1>3, <2>1 DEF FormInv, WellFormed, HeaderFirst, BlocksFit
  <1> QED BY <1>3, <1>5, <1>6

\* writeSync writes the data of a block stored as it is.
LEMMA FormSyncRaw == ASSUME OrderInv, FormInv, SyncRaw PROVE WellFormed'
  <1> DEFINE n == Min({BlockSize, Size(wp)})
  <1>1. pc = "raw" /\ Emit("raw", wp.lo, wp.lo + n, SizeOf("raw")) BY DEF SyncRaw
  <1>2. wp.lo < wp.hi /\ out # <<>> BY <1>1 DEF OrderInv, CallerOrder, FormInv, HeaderMarked
  <1>3. wp.lo \in Nat /\ wp.hi \in Nat BY InvFacts DEF TypeOK, Spans
  <1>4. Size(wp) > 0 BY <1>2, <1>3 DEF Size
  <1>5. n \in Nat /\ n > 0 /\ n <= BlockSize /\ wp.lo + n \in Nat BY <1>4, InvFacts, BlockCut
  <1> HIDE DEF n
  <1>6. "raw" \in Kinds /\ "raw" \in DataKinds BY DEF Kinds, DataKinds
  <1>7. wp.lo < wp.lo + n /\ wp.lo + n - wp.lo <= BlockSize BY <1>3, <1>5, WriterAssumption
  <1> QED BY <1>1, <1>2, <1>3, <1>5, <1>6, <1>7, FormEmit DEF FormInv

\* The writer goroutine writes: the header first, then the blocks.
LEMMA FormWriteOut == ASSUME OrderInv, FormInv, WriteOut PROVE WellFormed'
  <1>1. wpc = "write" /\ Busy BY DEF WriteOut, Busy
  <1>2. cur.kind # "none" /\ cur.kind # "data" /\ cur.kind # "flush" /\ EntryFits(cur)
    BY <1>1 DEF OrderInv, EntryShape, FormInv, EntriesFit
  <1>3. cur.kind \in Kinds /\ cur.lo \in Nat /\ cur.hi \in Nat BY <1>2, InvFacts DEF Entries
  <1>4. cur.kind = "header" <=> out = <<>> BY <1>1 DEF FormInv, HeaderAhead, HeaderMarked
  <1>5. IF cur.kind \in DataKinds THEN cur.lo < cur.hi /\ cur.hi - cur.lo <= BlockSize
        ELSE cur.lo = cur.hi
    BY <1>2, <1>3 DEF EntryFits
  <1>6. CASE Emit(cur.kind, cur.lo, cur.hi, SizeOf(cur.kind))
    BY <1>3, <1>4, <1>5, <1>6, FormEmit DEF FormInv
  <1>7. CASE out' = out BY <1>7 DEF FormInv, WellFormed, HeaderFirst, BlocksFit
  <1> QED BY <1>6, <1>7 DEF WriteOut

\* The calling goroutine writes a chunk: nothing is queued, and unless it is
\* closing the stream the header is marked.
LEMMA HeadEmit ==
  ASSUME chan' = <<>>, ~Busy', out' # <<>>,
         hdr' \/ pc' \in {"pad", "index"}
              \/ (~Live' /\ pc' \in {"idle", "reset", "close", "eof"})
  PROVE  HeaderAhead' /\ HeaderMarked'
  <1>1. wpc' # "write" BY DEF Busy
  <1> QED BY <1>1 DEF HeaderAhead, HeaderMarked

\* The header is queued: nothing is before it.
LEMMA HeadQueue ==
  ASSUME OrderInv, FormInv, ~hdr, pc \in {"send", "enc", "user"}, Queue(Entry("header", uncomp, uncomp, uncomp, "caller")),
         UNCHANGED <<out, cur, wpc>>, hdr', pc' = "hand"
  PROVE  HeaderAhead' /\ HeaderMarked'
  <1>1. chan = <<>> /\ ~Busy BY DEF OrderInv, Alone
  <1>2. out = <<>> BY DEF FormInv, HeaderMarked
  <1>3. chan' = <<Entry("header", uncomp, uncomp, uncomp, "caller")>> BY <1>1 DEF Queue
  <1>4. /\ Len(chan') = 1 /\ chan' # <<>> /\ chan'[1].kind = "header"
    BY <1>3 DEF Entry
  <1>5. ~Busy' /\ wpc' # "write" BY <1>1 DEF Busy
  <1> QED BY <1>2, <1>4, <1>5 DEF HeaderAhead, HeaderMarked

\* Another entry is queued: the header is not in question.
LEMMA HeadAppend ==
  ASSUME OrderInv, FormInv, NEW e \in Entries, chan' = Append(chan, e), e.kind # "header",
         hdr \/ e.kind = "flush", UNCHANGED <<out, cur, wpc, hdr>>, Live' => Live,
         pc' \notin {"raw", "userdata", "pad", "index"}, pc \in {"send", "user", "flush"}
  PROVE  HeaderAhead' /\ HeaderMarked'
  <1>1. /\ Len(chan) \in Nat /\ Len(chan') = Len(chan) + 1 /\ (chan = <<>> <=> Len(chan) = 0)
        /\ \A k \in 1 .. Len(chan) : chan'[k] = chan[k]
        /\ chan'[Len(chan) + 1] = e /\ chan' # <<>>
    BY InvFacts, AppendFacts, SeqFacts
  <1>2. HeaderAhead' BY <1>1 DEF FormInv, HeaderAhead, Busy
  <1>3. ~(~hdr /\ out # <<>>) BY DEF FormInv, HeaderMarked
  <1>4. chan # <<>> => chan'[1] = chan[1] BY <1>1
  <1> QED BY <1>1, <1>2, <1>3, <1>4 DEF FormInv, HeaderMarked, Busy

\* A block is compressed: the header is not in question.
LEMMA HeadCompress ==
  ASSUME OrderInv, FormInv, NEW kind \in DataKinds, Compress(kind)
  PROVE  HeaderAhead' /\ HeaderMarked'
  <1>1. Len(chan') = Len(chan) /\ (chan' = <<>> <=> chan = <<>>)
    BY InvFacts, CompressKeeps
  <1>2. Len(chan) \in Nat /\ (chan = <<>> <=> Len(chan) = 0) BY InvFacts, SeqFacts
  <1>3. \A e \in Entries : e.kind = "data" => Compressed(e, kind).kind # "header"
    BY DEF Compressed, Entries, DataKinds
  <1>4. \A k \in 1 .. Len(chan) : chan'[k].kind = "header" <=> chan[k].kind = "header"
    BY <1>3, InvFacts DEF Compress, EntryShape
  <1>10. /\ \A k \in 1 .. Len(chan) : chan[k].kind = "flush" => chan'[k].kind = "flush"
         /\ Busy /\ cur.kind = "flush" => cur'.kind = "flush"
    BY InvFacts DEF Compress, EntryShape
  <1>5. wpc' = wpc /\ out' = out /\ hdr' = hdr /\ err' = err /\ pc' = pc
    BY DEF Compress, inputVars, sinkVars, callVars
  <1>6. Busy => (cur'.kind = "header" <=> cur.kind = "header")
    BY <1>3, InvFacts DEF Compress, EntryShape
  <1>7. wpc = "write" => cur' = cur
    BY InvFacts DEF Compress, EntryShape
  <1>8. HeaderAhead' BY <1>1, <1>4, <1>5, <1>6 DEF FormInv, HeaderAhead, Busy
  <1>9. HeaderMarked' BY <1>1, <1>2, <1>4, <1>5, <1>6, <1>7, <1>10 DEF FormInv, HeaderMarked, Busy, Live
  <1> QED BY <1>8, <1>9

\* The writer goroutine takes an entry: the header, if it is the first one.
LEMMA HeadTake == ASSUME OrderInv, FormInv, Take PROVE HeaderAhead' /\ HeaderMarked'
  <1>1. /\ cur' = chan[1] /\ wpc' = "wait" /\ wpc = "range"
        /\ Len(chan) \in Nat /\ Len(chan) >= 1 /\ Len(chan') = Len(chan) - 1
        /\ \A k \in 1 .. Len(chan) - 1 : chan'[k] = chan[k + 1]
    BY InvFacts, TailFacts DEF Take
  <1>2. out' = out /\ hdr' = hdr /\ err' = err /\ pc' = pc /\ ~Busy /\ Busy'
    BY <1>1 DEF Take, inputVars, sinkVars, callVars, Busy
  <1>3. \A k \in 1 .. Len(chan') : chan'[k].kind # "header"
    BY <1>1 DEF FormInv, HeaderAhead
  <1>4. HeaderAhead' BY <1>1, <1>2, <1>3 DEF FormInv, HeaderAhead
  <1>5. HeaderMarked' BY <1>1, <1>2 DEF FormInv, HeaderMarked, Live
  <1> QED BY <1>4, <1>5

\* The writer goroutine is handed a result, leaves it, begins to write, exits.
LEMMA HeadDrain ==
  ASSUME OrderInv, FormInv, Hand \/ Skip \/ Begin \/ Exit
  PROVE  HeaderAhead' /\ HeaderMarked'
  <1>1. chan' = chan /\ out' = out /\ hdr' = hdr /\ err' = err
    BY DEF Hand, Skip, Begin, Exit, queueVars, sinkVars, inputVars
  <1>2. CASE Hand
    <2>1. wpc' = wpc /\ wpc = "wait" /\ cur'.kind = cur.kind /\ pc' \in {"fwait", "user", "send"}
          /\ pc \in {"hand", "fhand"}
      BY <1>2, InvFacts DEF Hand, Entries
    <2> QED BY <1>1, <2>1 DEF FormInv, HeaderAhead, HeaderMarked, Busy, Live
  <1>3. CASE Skip
    <2>1. /\ Busy /\ ~Busy' /\ wpc' = "range" /\ (cur.kind = "flush" \/ err # "none")
      BY <1>3 DEF Skip, Skips, Busy
    <2>2. \A k \in 1 .. Len(chan) : chan[k].kind # "header" BY <2>1 DEF FormInv, HeaderAhead
    <2>3. HeaderAhead' BY <1>1, <2>1, <2>2 DEF HeaderAhead
    <2>4. CASE cur.kind = "flush"
      <3>1. pc' \in {"idle", "close"} /\ pc \in {"fhand", "fwait"}
        BY <1>3, <2>1, <2>4 DEF Skip, FlushReturns, GoTo, OrderInv, Alone
      <3> QED BY <1>1, <2>1, <2>3, <2>4, <3>1 DEF FormInv, HeaderMarked, Live
    <2>5. CASE cur.kind # "flush"
      <3>1. pc' = pc /\ err # "none" BY <1>3, <2>1, <2>5 DEF Skip
      <3> QED BY <1>1, <2>1, <2>3, <3>1 DEF FormInv, HeaderMarked, Live
    <2> QED BY <2>4, <2>5
  <1>4. CASE Begin
    <2>1. wpc = "wait" /\ Live /\ wpc' = "write" /\ cur' = cur /\ pc' = pc /\ Busy /\ Busy'
      BY <1>4 DEF Begin, Skips, Live, Busy, callVars
    <2>2. cur.kind # "header" => out # <<>> \/ ~hdr
      BY <2>1 DEF FormInv, HeaderMarked
    <2>3. hdr BY <1>4, <2>1 DEF Begin, Skips, FormInv, HeaderMarked
    <2> QED BY <1>1, <2>1, <2>2, <2>3 DEF FormInv, HeaderAhead, HeaderMarked, Live
  <1>5. CASE Exit
    BY <1>1, <1>5 DEF Exit, FormInv, HeaderAhead, HeaderMarked, Busy, Live, callVars
  <1> QED BY <1>2, <1>3, <1>4, <1>5

\* The writer goroutine is done with what it wrote.
LEMMA HeadWriteOut == ASSUME OrderInv, FormInv, WriteOut PROVE HeaderAhead' /\ HeaderMarked'
  <1>1. wpc = "write" /\ Busy /\ ~Busy' /\ wpc' = "range" /\ chan' = chan /\ hdr' = hdr /\ pc' = pc
    BY DEF WriteOut, Busy, queueVars, inputVars, callVars
  <1>2. \A k \in 1 .. Len(chan) : chan[k].kind # "header" BY <1>1 DEF FormInv, HeaderAhead
  <1>3. cur.kind # "none" /\ cur.kind # "data" /\ cur.kind # "flush"
    BY <1>1 DEF OrderInv, EntryShape
  <1>4. cur.kind \in Kinds /\ cur.lo \in Nat /\ cur.hi \in Nat BY <1>3, InvFacts DEF Entries
  <1>5. out' # <<>> \/ (out' = out /\ ~Live')
    BY <1>4, EmitChunks DEF WriteOut, SetErr, Live
  <1>6. hdr BY <1>1, <1>3 DEF FormInv, HeaderMarked
  <1> QED BY <1>1, <1>2, <1>5, <1>6 DEF HeaderAhead, HeaderMarked, FormInv

\* Nothing is written.
LEMMA FormFrame == ASSUME FormInv, UNCHANGED out PROVE WellFormed'
  BY DEF FormInv, WellFormed, HeaderFirst, BlocksFit

\* The header or a user chunk, written by the calling goroutine.
LEMMA FormMarks ==
  ASSUME OrderInv, FormInv, SyncHeader \/ (UserHeader /\ Concurrency = 1) \/ UserData
  PROVE  WellFormed'
  <1>1. "header" \in Kinds \ DataKinds /\ "user" \in Kinds \ DataKinds BY DEF Kinds, DataKinds
  <1>2. SyncHeader \/ UserHeader => out = <<>>
    BY DEF SyncHeader, UserHeader, FormInv, HeaderMarked
  <1>3. UserData => out # <<>> BY DEF UserData, FormInv, HeaderMarked
  <1>4. \/ out = <<>> /\ \E size : Emit("header", uncomp, uncomp, size)
        \/ out # <<>> /\ \E size : Emit("user", uncomp, uncomp, size)
    BY <1>2, <1>3 DEF SyncHeader, UserHeader, UserData
  <1> QED BY <1>1, <1>4, FormMark DEF FormInv

\* closeIndex writes the EOF marker, padding or the index.
LEMMA FormEnd ==
  ASSUME OrderInv, FormInv, WriteEOF \/ WritePadding \/ WriteIndex
  PROVE  WellFormed'
  <1>1. \A kind \in {"eof", "pad", "index"} : kind \in Kinds \ DataKinds BY DEF Kinds, DataKinds
  <1>2. WritePadding \/ WriteIndex => out # <<>>
    BY DEF WritePadding, WriteIndex, FormInv, HeaderMarked
  <1>3. \/ out' = out
        \/ \E kind \in {"eof", "pad", "index"} :
             (out = <<>> => kind = "eof") /\ \E size : Emit(kind, uncomp, uncomp, size)
    BY <1>2 DEF WriteEOF, WritePadding, WriteIndex
  <1> QED BY <1>1, <1>3, FormMark, FormFrame DEF FormInv

\* Every step keeps the stream well formed.
LEMMA FormStep ==
  ASSUME OrderInv, FormInv, Next
  PROVE  WellFormed'
  <1> USE SMTT(20) DEF sinkVars
  <1>1. CASE Calls
    BY <1>1, FormFrame
    DEF Calls, CallWrite, CallEncodeBuffer, CallReadFrom, CallAddUserChunk, CallFlush, CallClose,
        CallReset
  <1>2. CASE ResetDone
    <2>1. out' = <<>> BY <1>2, ResetFacts
    <2> QED BY <2>1 DEF WellFormed, HeaderFirst, BlocksFit
  <1>3. CASE LoopDirect \/ LoopFill \/ LoopBuffer \/ Abandon
    BY <1>3, FormFrame DEF LoopDirect, LoopFill, LoopBuffer, Abandon
  <1>4. CASE SendHeader \/ SendBlock \/ SendDone \/ EncodeStart
    BY <1>4, FormFrame DEF SendHeader, SendBlock, SendDone, EncodeStart
  <1>5. CASE SyncHeader \/ UserData BY <1>5, FormMarks
  <1>6. CASE SyncBlock("comp") \/ SyncBlock("raw") BY <1>6, FormSyncBlock
  <1>7. CASE SyncRaw BY <1>7, FormSyncRaw
  <1>8. CASE SyncFail \/ SyncDone \/ UserFail \/ ReadEnd \/ UserQueue \/ UserSync
    BY <1>8, FormFrame DEF SyncFail, SyncDone, UserFail, ReadEnd, UserQueue, UserSync
  <1>9. ASSUME NEW n \in 1 .. BlockSize, ReadBlock(n) PROVE WellFormed'
    BY <1>9, FormFrame DEF ReadBlock
  <1>10. CASE UserHeader
    <2>1. CASE Concurrency = 1 BY <1>10, <2>1, FormMarks
    <2>2. CASE Concurrency # 1 BY <1>10, <2>2, FormFrame DEF UserHeader
    <2> QED BY <2>1, <2>2
  <1>11. CASE FlushQueue \/ CloseOutput \/ CloseJoin \/ CloseFailed
    BY <1>11, FormFrame DEF FlushQueue, CloseOutput, CloseJoin, CloseFailed
  <1>12. CASE WriteEOF \/ WritePadding \/ WriteIndex BY <1>12, FormEnd
  <1>13. CASE Compressing BY <1>13, FormFrame DEF Compressing, Compress
  <1>14. CASE Take \/ Hand \/ Skip \/ Begin \/ Exit
    BY <1>14, FormFrame DEF Take, Hand, Skip, Begin, Exit
  <1>15. CASE WriteOut BY <1>15, FormWriteOut
  <1> HIDE DEF OrderInv, FormInv
  <1> QED
    BY <1>1, <1>2, <1>3, <1>4, <1>5, <1>6, <1>7, <1>8, <1>9, <1>10, <1>11, <1>12, <1>13,
       <1>14, <1>15
    DEF Next, Running, Draining

\* Neither the underlying writer, the channel nor the goroutine changes.
LEMMA HeadFrame ==
  ASSUME FormInv, UNCHANGED <<out, chan, cur, wpc>>, Live' => Live,
         \/ hdr' = hdr /\ (~hdr /\ out # <<>> => pc' \in {"pad", "index"}
                              \/ (~Live' /\ pc' \in {"idle", "reset", "close", "eof"}))
         \/ hdr' /\ ~Live',
         pc' \in {"raw", "userdata", "pad", "index"} => out # <<>>
  PROVE  HeaderAhead' /\ HeaderMarked'
  BY DEF FormInv, HeaderAhead, HeaderMarked, Busy

\* The calling goroutine writes the header, a block or a user chunk.
LEMMA HeadCallerEmits ==
  ASSUME OrderInv, FormInv,
         SyncHeader \/ SyncBlock("comp") \/ SyncRaw \/ (UserHeader /\ Concurrency = 1) \/ UserData
  PROVE  HeaderAhead' /\ HeaderMarked'
  <1>1. chan' = <<>> /\ ~Busy'
    BY DEF SyncHeader, SyncBlock, SyncRaw, UserHeader, UserData, OrderInv, Alone, Busy, queueVars
  <1>2. out' # <<>>
    BY InvFacts, AppendFacts
    DEF SyncHeader, SyncBlock, SyncRaw, UserHeader, UserData, Emit, inputVars
  <1>3. hdr'
    <2>1. pc \in {"raw", "userdata"} => hdr BY DEF FormInv, HeaderMarked
    <2> QED BY <2>1 DEF SyncHeader, SyncBlock, SyncRaw, UserHeader, UserData, inputVars
  <1> QED BY <1>1, <1>2, <1>3, HeadEmit

\* closeIndex writes, with or without a header before.
LEMMA HeadEnd ==
  ASSUME OrderInv, FormInv, WriteEOF \/ WritePadding \/ WriteIndex
  PROVE  HeaderAhead' /\ HeaderMarked'
  <1>1. pc \in {"eof", "pad", "index"} BY DEF WriteEOF, WritePadding, WriteIndex
  <1>2. chan' = <<>> /\ ~Busy'
    BY <1>1, EndAlone DEF WriteEOF, WritePadding, WriteIndex, queueVars, Busy
  <1>3. pc' \in {"pad", "index"} \/ (~Live' /\ pc' = "idle")
    BY DEF WriteEOF, WritePadding, WriteIndex, SetErr, Return, GoTo, Live
  <1>4. out' # <<>> \/ (out' = out /\ WriteEOF /\ ~Live' /\ pc' = "idle")
    <2>1. WritePadding \/ WriteIndex => out # <<>>
      BY DEF WritePadding, WriteIndex, FormInv, HeaderMarked
    <2> QED
      BY <2>1, InvFacts, AppendFacts
      DEF WriteEOF, WritePadding, WriteIndex, Emit, Return, GoTo, Live
  <1>5. wpc' # "write" /\ Len(chan') = 0 BY <1>2 DEF Busy
  <1> QED BY <1>2, <1>3, <1>4, <1>5 DEF HeaderAhead, HeaderMarked

\* Entries other than the header are queued.
LEMMA HeadQueues ==
  ASSUME OrderInv, FormInv, SendBlock \/ UserQueue \/ (FlushQueue /\ Live /\ open)
  PROVE  HeaderAhead' /\ HeaderMarked'
  <1>1. CASE SendBlock
    <2> DEFINE e == Entry("data", wp.lo, wp.lo + Min({BlockSize, Size(wp)}), uncomp, "busy")
    <2>1. Size(wp) > 0 /\ chan' = Append(chan, e) /\ hdr /\ pc = "send" /\ pc' = pc
      BY <1>1 DEF SendBlock, Queue
    <2>2. e \in Entries /\ e.kind = "data" BY <2>1, InvFacts, BlockEntry
    <2> HIDE DEF e
    <2> QED BY <1>1, <2>1, <2>2, HeadAppend DEF SendBlock, Live, sinkVars
  <1>2. CASE UserQueue
    <2> DEFINE e == Entry("user", uncomp, uncomp, uncomp, "ready")
    <2>1. chan' = Append(chan, e) /\ hdr /\ pc = "user" /\ pc' = "idle"
      BY <1>2 DEF UserQueue, Queue, Return, GoTo
    <2>2. e \in Entries /\ e.kind = "user" BY InvFacts, MarkEntry
    <2> HIDE DEF e
    <2> QED BY <1>2, <2>1, <2>2, HeadAppend DEF UserQueue, Live, sinkVars, inputVars
  <1>3. CASE FlushQueue /\ Live /\ open
    <2> DEFINE e == Entry("flush", uncomp, uncomp, uncomp, "caller")
    <2>1. chan' = Append(chan, e) /\ pc = "flush" /\ pc' = "fhand"
      BY <1>3 DEF FlushQueue, Queue, Live
    <2>2. e \in Entries /\ e.kind = "flush" BY InvFacts, MarkEntry
    <2> HIDE DEF e
    <2> QED BY <1>3, <2>1, <2>2, HeadAppend DEF FlushQueue, Live, sinkVars, inputVars
  <1> QED BY <1>1, <1>2, <1>3

\* A new stream has no header.
LEMMA HeadReset == ASSUME ResetDone PROVE HeaderAhead' /\ HeaderMarked'
  <1>1. Len(chan') = 0 /\ chan' = <<>> /\ out' = <<>> /\ pc' = "idle" /\ hdr' = FALSE
    BY ResetFacts
  <1>2. ~Busy' /\ wpc' # "write" BY ResetFacts DEF Busy
  <1> QED BY <1>1, <1>2 DEF HeaderAhead, HeaderMarked

\* Every step keeps the header first.
LEMMA HeadStep ==
  ASSUME OrderInv, FormInv, Next
  PROVE  HeaderAhead' /\ HeaderMarked'
  <1> USE InvScalars, WriterAssumption, SMTT(20)
      DEF ScalarsOK, Live, Entered, FlushBuffer, Return, GoTo, Sender,
          callVars, inputVars, queueVars, sinkVars
  <1>0. /\ ~hdr /\ out # <<>> => pc \in {"pad", "index"}
                                 \/ (~Live /\ pc \in {"idle", "reset", "close", "eof"})
        /\ pc \in {"raw", "userdata", "pad", "index"} => out # <<>>
    BY DEF FormInv, HeaderMarked
  <1>1. ASSUME NEW n \in 0 .. MaxUnits, CallWrite(n) \/ CallEncodeBuffer(n)
        PROVE  HeaderAhead' /\ HeaderMarked'
    BY <1>0, <1>1, HeadFrame DEF CallWrite, CallEncodeBuffer
  <1>2. CASE CallReadFrom \/ CallAddUserChunk \/ CallReset
    BY <1>0, <1>2, HeadFrame DEF CallReadFrom, CallAddUserChunk, CallReset
  <1>3. ASSUME NEW m \in {"Flush", "AsyncFlush"}, CallFlush(m) PROVE HeaderAhead' /\ HeaderMarked'
    BY <1>0, <1>3, HeadFrame DEF CallFlush
  <1>4. ASSUME NEW m \in {"Close", "CloseIndex"}, CallClose(m) PROVE HeaderAhead' /\ HeaderMarked'
    BY <1>0, <1>4, HeadFrame DEF CallClose
  <1>5. CASE ResetDone BY <1>5, HeadReset
  <1>6. CASE LoopDirect \/ LoopFill \/ LoopBuffer \/ Abandon
    BY <1>0, <1>6, HeadFrame DEF LoopDirect, LoopFill, LoopBuffer, Abandon
  <1>7. CASE SendHeader BY <1>7, HeadQueue DEF SendHeader, QueueHeader
  <1>8. CASE SendBlock \/ UserQueue BY <1>8, HeadQueues
  <1>9. CASE SendDone \/ SyncDone \/ SyncFail
    BY <1>0, <1>9, RetTyped, HeadFrame DEF SendDone, SyncDone, SyncFail
  <1>10. CASE EncodeStart
    <2>1. CASE Concurrency = 1 \/ hdr BY <1>0, <1>10, <2>1, HeadFrame DEF EncodeStart
    <2>2. CASE ~(Concurrency = 1 \/ hdr) BY <1>10, <2>2, HeadQueue DEF EncodeStart, QueueHeader
    <2> QED BY <2>1, <2>2
  <1>11. CASE SyncHeader \/ SyncBlock("comp") \/ SyncRaw \/ UserData BY <1>11, HeadCallerEmits
  <1>12. CASE SyncBlock("raw")
    BY <1>0, <1>12, FormSyncBlock, HeadFrame DEF SyncBlock
  <1>13. ASSUME NEW n \in 1 .. BlockSize, ReadBlock(n) PROVE HeaderAhead' /\ HeaderMarked'
    BY <1>0, <1>13, HeadFrame DEF ReadBlock
  <1>14. CASE ReadEnd BY <1>0, <1>14, HeadFrame DEF ReadEnd
  <1>15. CASE UserHeader
    <2>1. CASE Concurrency = 1 BY <1>15, <2>1, HeadCallerEmits
    <2>2. CASE Concurrency # 1 BY <1>15, <2>2, HeadQueue DEF UserHeader, QueueHeader
    <2> QED BY <2>1, <2>2
  <1>16. CASE UserSync
    <2>1. chan = <<>> /\ ~Busy /\ Live BY <1>16 DEF UserSync, OrderInv, Alone, Ending, Busy
    <2>2. out # <<>> BY <1>16, <2>1 DEF UserSync, FormInv, HeaderMarked
    <2> QED BY <1>0, <1>16, <2>2, HeadFrame DEF UserSync
  <1>17. CASE UserFail BY <1>0, <1>17, HeadFrame DEF UserFail
  <1>18. CASE FlushQueue
    <2>1. CASE Live /\ open BY <1>18, <2>1, HeadQueues
    <2>2. CASE ~(Live /\ open)
      <3>1. pc = "flush" /\ pc' \in {"idle", "close"} /\ chan' = chan
        BY <1>18, <2>2 DEF FlushQueue, FlushReturns
      <3> QED BY <1>0, <1>18, <3>1, HeadFrame DEF FlushQueue
    <2> QED BY <2>1, <2>2
  <1>19. CASE CloseOutput \/ CloseJoin \/ CloseFailed
    BY <1>0, <1>19, HeadFrame DEF CloseOutput, CloseJoin, CloseFailed
  <1>20. CASE WriteEOF \/ WritePadding \/ WriteIndex BY <1>20, HeadEnd
  <1>21. CASE Compressing BY <1>21, HeadCompress DEF Compressing
  <1>22. CASE Take BY <1>22, HeadTake
  <1>23. CASE Hand \/ Skip \/ Begin \/ Exit BY <1>23, HeadDrain
  <1>24. CASE WriteOut BY <1>24, HeadWriteOut
  <1> HIDE DEF OrderInv, FormInv
  <1> QED
    BY <1>1, <1>2, <1>3, <1>4, <1>5, <1>6, <1>7, <1>8, <1>9, <1>10, <1>11, <1>12, <1>13,
       <1>14, <1>15, <1>16, <1>17, <1>18, <1>19, <1>20, <1>21, <1>22, <1>23, <1>24
    DEF Next, Calls, Running, Draining

-----------------------------------------------------------------------------
(* The index: thinning keeps some of the entries there were *)

\* A set of numbers has a least one.
LEMMA LeastNat ==
  ASSUME NEW T \in SUBSET Nat, T # {}
  PROVE  \E x \in T : \A y \in T : x <= y
<1>1. IsWellFoundedOn(OpToRel(<, Nat), Nat)
  BY NatLessThanWellFounded
<1>2. PICK x \in T : \A y \in T : ~(<<y, x>> \in OpToRel(<, Nat))
  BY <1>1, WFMin
<1>3. x \in T /\ \A y \in T : ~(y < x)
  BY <1>2 DEF OpToRel
<1> QED
  BY <1>3

\* Induction.
LEMMA NatSet ==
  ASSUME NEW S, 0 \in S, \A n \in Nat : n \in S => n + 1 \in S
  PROVE  Nat \subseteq S
<1> DEFINE T == Nat \ S
<1>1. SUFFICES ASSUME T # {} PROVE FALSE
  OBVIOUS
<1>2. PICK x \in T : \A y \in T : x <= y
  BY <1>1, LeastNat
<1>3. x # 0 /\ x - 1 \in Nat /\ x - 1 \in T
  BY <1>2
<1> QED
  BY <1>2, <1>3

\* A value for each number up to n, each from the one before.
Recursive(n, S, first, step) ==
  \E f \in [0 .. n -> S] : f[0] = first /\ \A k \in 1 .. n : f[k] = step[k][f[k - 1]]

\* There are such values.
LEMMA Recursion ==
  ASSUME NEW n \in Nat, NEW S, NEW first \in S, NEW step \in [1 .. n -> [S -> S]]
  PROVE  Recursive(n, S, first, step)
<1> DEFINE Good(m, f) == f = [k \in 0 .. m |-> IF k = 0 THEN first ELSE step[k][f[k - 1]]]
           Some(m) == m <= n => \E f \in [0 .. m -> S] : Good(m, f)
           T == {m \in Nat : Some(m)}
<1>1. Some(0)
  <2> DEFINE f == [k \in 0 .. 0 |-> first]
  <2>1. f \in [0 .. 0 -> S] /\ Good(0, f)
    OBVIOUS
  <2> QED
    BY <2>1
<1>2. ASSUME NEW m \in Nat, Some(m) PROVE Some(m + 1)
  <2> SUFFICES ASSUME m + 1 <= n PROVE \E f \in [0 .. m + 1 -> S] : Good(m + 1, f)
    OBVIOUS
  <2>1. PICK g \in [0 .. m -> S] : Good(m, g)
    BY <1>2
  <2> DEFINE new == step[m + 1][g[m]]
  <2>2. new \in S
    <3>1. step[m + 1] \in [S -> S] /\ g[m] \in S
      BY <2>1
    <3> QED
      BY <3>1
  <2> HIDE DEF new
  <2> DEFINE f == [k \in 0 .. m + 1 |-> IF k = m + 1 THEN new ELSE g[k]]
  <2>3. f \in [0 .. m + 1 -> S]
    BY <2>1, <2>2
  <2>4. ASSUME NEW k \in 0 .. m + 1
        PROVE  f[k] = IF k = 0 THEN first ELSE step[k][f[k - 1]]
    <3>1. CASE k = m + 1
      <4>1. k # 0 /\ k - 1 \in 0 .. m + 1 /\ k - 1 = m /\ k - 1 # m + 1
        BY <3>1
      <4> QED
        BY <3>1, <4>1 DEF new
    <3>2. CASE k # m + 1
      <4>1. k \in 0 .. m /\ (k # 0 => k - 1 \in 0 .. m)
        BY <3>2
      <4>2. g[k] = IF k = 0 THEN first ELSE step[k][g[k - 1]]
        BY <2>1, <4>1
      <4>3. f[k] = g[k] /\ (k # 0 => f[k - 1] = g[k - 1])
        BY <4>1
      <4> QED
        BY <4>2, <4>3
    <3> QED
      BY <3>1, <3>2
  <2> QED
    BY <2>3, <2>4
<1> HIDE DEF Some
<1>3. 0 \in T /\ \A m \in Nat : m \in T => m + 1 \in T
  BY <1>1, <1>2
<1> HIDE DEF T
<1>4. n \in T
  BY <1>3, NatSet
<1>5. PICK f \in [0 .. n -> S] : Good(n, f)
  BY <1>4 DEF T, Some
<1>6. f[0] = first
  BY <1>5
<1>7. \A k \in 1 .. n : f[k] = step[k][f[k - 1]]
  BY <1>5
<1> QED
  BY <1>6, <1>7 DEF Recursive

\* The offset pairs of a list.
LEMMA PairsAt ==
  ASSUME NEW s \in Seq(Pairs)
  PROVE  /\ Len(s) \in Nat /\ (s # <<>> <=> Len(s) >= 1)
         /\ \A i \in 1 .. Len(s) : s[i] \in Pairs /\ s[i].c \in Nat /\ s[i].u \in Nat
<1>1. \A i \in 1 .. Len(s) : s[i] \in Pairs
  OBVIOUS
<1>2. \A x \in Pairs : x.c \in Nat /\ x.u \in Nat
  BY DEF Pairs
<1>3. Len(s) \in Nat /\ (s # <<>> <=> Len(s) >= 1)
  OBVIOUS
<1> QED
  BY <1>1, <1>2, <1>3

\* A pair is added.
LEMMA AppendPair ==
  ASSUME NEW s \in Seq(Pairs), NEW e \in Pairs
  PROVE  /\ Append(s, e) \in Seq(Pairs) /\ Append(s, e) # <<>>
         /\ Len(Append(s, e)) = Len(s) + 1 /\ Append(s, e)[Len(s) + 1] = e
         /\ \A i \in 1 .. Len(s) : Append(s, e)[i] = s[i]
  OBVIOUS

\* The states of reduceLight exist, each of them by a step from the one before.
LEMMA LightStatesAre ==
  ASSUME NEW off \in Seq(Pairs), NEW est
  PROVE  /\ LightStates(off, est)[0] = [kept |-> <<>>, keep |-> TRUE]
         /\ \A k \in 1 .. Len(off) :
              LightStates(off, est)[k] = LightStep(LightStates(off, est)[k - 1], off[k], est)
         /\ \A k \in 0 .. Len(off) : LightStates(off, est)[k] \in [kept : Seq(Pairs), keep : BOOLEAN]
<1> DEFINE S == [kept : Seq(Pairs), keep : BOOLEAN]
           first == [kept |-> <<>>, keep |-> TRUE]
           Next1(a, e) == [kept |-> IF a.keep THEN Append(a.kept, e) ELSE a.kept,
                           keep |-> ~a.keep /\ e.u - Last(a.kept).u >= est]
           step == [k \in 1 .. Len(off) |-> [a \in S |-> Next1(a, off[k])]]
<1>1. first \in S /\ Len(off) \in Nat
  OBVIOUS
<1>2. ASSUME NEW a \in S, NEW e \in Pairs PROVE LightStep(a, e, est) = Next1(a, e) /\ Next1(a, e) \in S
  <2>1. a.kept \in Seq(Pairs) /\ a.keep \in BOOLEAN /\ a = [kept |-> a.kept, keep |-> a.keep]
    OBVIOUS
  <2>2. CASE a.keep
    <3>1. LightStep(a, e, est) = [kept |-> Append(a.kept, e), keep |-> FALSE]
      BY <2>2 DEF LightStep
    <3>2. Append(a.kept, e) \in Seq(Pairs)
      BY <2>1, AppendPair
    <3> QED
      BY <2>2, <3>1, <3>2
  <2>3. CASE ~a.keep
    <3> DEFINE far == e.u - Last(a.kept).u >= est
    <3>1. LightStep(a, e, est) = [kept |-> a.kept, keep |-> far]
      BY <2>1, <2>3 DEF LightStep
    <3>2. far \in BOOLEAN
      OBVIOUS
    <3> HIDE DEF far
    <3>3. LightStep(a, e, est) \in S
      BY <2>1, <3>1, <3>2
    <3> QED
      BY <2>1, <2>3, <3>1, <3>3 DEF far
  <2> QED
    BY <2>1, <2>2, <2>3
<1> HIDE DEF S, first, Next1
<1>3. step \in [1 .. Len(off) -> [S -> S]]
  <2>1. \A k \in 1 .. Len(off) : off[k] \in Pairs
    OBVIOUS
  <2> QED
    BY <1>2, <2>1
<1> HIDE DEF step
<1>4. PICK g \in [0 .. Len(off) -> S] :
        g[0] = first /\ \A k \in 1 .. Len(off) : g[k] = step[k][g[k - 1]]
  <2>1. Recursive(Len(off), S, first, step)
    BY <1>1, <1>3, Recursion
  <2> QED
    BY <2>1 DEF Recursive
<1>5. g = [k \in 0 .. Len(off) |-> IF k = 0 THEN first ELSE LightStep(g[k - 1], off[k], est)]
  <2>1. ASSUME NEW k \in 0 .. Len(off), k # 0
        PROVE  g[k] = LightStep(g[k - 1], off[k], est)
    <3>1. k \in 1 .. Len(off) /\ k - 1 \in 0 .. Len(off)
      BY <1>1, <2>1
    <3>2. g[k - 1] \in S /\ off[k] \in Pairs
      BY <3>1
    <3>3. g[k] = step[k][g[k - 1]]
      BY <1>4, <3>1
    <3> QED
      BY <1>2, <3>1, <3>2, <3>3 DEF step
  <2> QED
    BY <1>4, <2>1
<1> DEFINE f == CHOOSE f : f = [k \in 0 .. Len(off) |->
                                  IF k = 0 THEN first ELSE LightStep(f[k - 1], off[k], est)]
<1>6. f = [k \in 0 .. Len(off) |-> IF k = 0 THEN first ELSE LightStep(f[k - 1], off[k], est)]
  BY <1>5
<1>7. LightStates(off, est) = f
  BY DEF LightStates, first
<1> HIDE DEF f
<1>8. f[0] = first /\ \A k \in 1 .. Len(off) : f[k] = LightStep(f[k - 1], off[k], est)
  BY <1>1, <1>6
<1>9. \A k \in Nat : k <= Len(off) => f[k] \in S
  <2> DEFINE T == {k \in Nat : k <= Len(off) => f[k] \in S}
  <2>1. 0 \in T
    BY <1>1, <1>8
  <2>2. ASSUME NEW k \in Nat, k \in T PROVE k + 1 \in T
    <3> SUFFICES ASSUME k + 1 <= Len(off) PROVE f[k + 1] \in S
      OBVIOUS
    <3>1. k + 1 \in 1 .. Len(off) /\ k + 1 - 1 = k /\ f[k] \in S /\ off[k + 1] \in Pairs
      BY <1>1, <2>2
    <3>2. f[k + 1] = LightStep(f[k], off[k + 1], est)
      BY <1>8, <3>1
    <3> QED
      BY <1>2, <3>1, <3>2
  <2> HIDE DEF T
  <2>3. Nat \subseteq T
    BY <2>1, <2>2, NatSet
  <2> QED
    BY <2>3 DEF T
<1>10. \A k \in 0 .. Len(off) : f[k] \in S
  BY <1>1, <1>9
<1> QED
  BY <1>7, <1>8, <1>10 DEF first, S

\* Products of numbers.
LEMMA Products ==
  ASSUME NEW a \in Nat, NEW b \in Nat, NEW c \in Nat
  PROVE  /\ a * b \in Nat /\ (a + 1) * b = a * b + b /\ a * b = b * a
         /\ (a * b) * c = a * (b * c)
         /\ a <= b => a * c <= b * c
         /\ a >= 1 => b <= a * b
<1>1. a * b \in Nat /\ (a + 1) * b = a * b + b /\ a * b = b * a
  BY SMT
<1>2. (a * b) * c = a * (b * c)
  BY SMT
<1>3. a <= b => a * c <= b * c
  <2>1. ASSUME a <= b PROVE a * c <= b * c
    <3>1. b - a \in Nat /\ (b - a) * c >= 0
      BY <2>1
    <3>2. (b - a) * c = b * c - a * c
      BY SMT
    <3> QED
      BY <3>1, <3>2
  <2> QED
    BY <2>1
<1>4. a >= 1 => b <= a * b
  <2>1. ASSUME a >= 1 PROVE b <= a * b
    <3>1. a - 1 \in Nat /\ (a - 1) * b >= 0
      BY <2>1
    <3>2. (a - 1) * b = a * b - b
      BY SMT
    <3> QED
      BY <1>1, <3>1, <3>2
  <2> QED
    BY <2>1
<1> QED
  BY <1>1, <1>2, <1>3, <1>4

\* The quotient.
LEMMA Divided ==
  ASSUME NEW a \in Nat, NEW d \in Nat \ {0}
  PROVE  a \div d \in Nat /\ (a \div d) * d <= a /\ a < (a \div d) * d + d
BY SMT

\* reduce finds how many to drop: the spacing grows until it is minIndexDist.
LEMMA RemoveNIs ==
  ASSUME IndexAssumption, NEW x \in Indexes, x.est > 0
  PROVE  RemoveN(x) \in Nat
<1> DEFINE n == Len(x.off)
           first == (n + 1) \div MaxIndexEntries
           More(r) == x.est * (r + 1) < MinIndexDist /\ n \div (r + 1) > ReduceFloor
           top == first + MinIndexDist + n
           T == {r \in first .. top : ~More(r)}
<1>1. n \in Nat /\ x.est \in Nat /\ x.est >= 1 /\ MinIndexDist \in Nat
  BY PairsAt DEF Indexes, IndexAssumption
<1>2. first \in Nat
  <2>1. n + 1 \in Nat /\ MaxIndexEntries \in Nat \ {0}
    BY <1>1 DEF IndexAssumption
  <2> HIDE DEF n
  <2> QED
    BY <2>1, Divided
<1> HIDE DEF first, n
<1>3. top \in Nat /\ first <= top /\ top + 1 > MinIndexDist
  BY <1>1, <1>2
<1>4. ~More(top)
  <2>1. top + 1 <= x.est * (top + 1)
    BY <1>1, <1>3, Products
  <2>2. x.est * (top + 1) \in Nat
    BY <1>1, <1>3, Products
  <2> HIDE DEF top
  <2> QED
    BY <1>1, <1>3, <2>1, <2>2
<1>5. top \in T /\ T \in SUBSET Nat
  BY <1>2, <1>3, <1>4
<1>6. PICK r \in T : \A q \in T : r <= q
  <2> HIDE DEF T
  <2> QED
    BY <1>5, LeastNat
<1> HIDE DEF top
<1>7. r \in first .. top /\ ~More(r) /\ \A q \in first .. r - 1 : More(q)
  <2>1. r \in first .. top /\ ~More(r)
    BY <1>6
  <2>2. ASSUME NEW q \in first .. r - 1 PROVE More(q)
    <3>1. q \in first .. top /\ q < r
      BY <1>2, <1>3, <2>1
    <3>2. q \notin T
      BY <1>2, <1>3, <1>6, <2>1, <3>1
    <3> QED
      BY <3>1, <3>2
  <2> QED
    BY <2>1, <2>2
<1>8. RemoveN(x) = CHOOSE r1 \in first .. top : ~More(r1) /\ \A q \in first .. r1 - 1 : More(q)
  BY DEF RemoveN, first, top, n
<1> HIDE DEF More
<1>9. RemoveN(x) \in first .. top
  BY <1>7, <1>8
<1> QED
  BY <1>2, <1>3, <1>9

\* Another list in the same index.
LEMMA WithOff ==
  ASSUME NEW x \in Indexes, NEW s
  PROVE  [x EXCEPT !.off = s] = [est |-> x.est, off |-> s]
BY DEF Indexes

\* Every pair of one list is one of another.
Among(s, r) == \A i \in 1 .. Len(s) : \E j \in 1 .. Len(r) : s[i] = r[j]

\* reduceLight keeps some of the entries.
LEMMA LightAmong ==
  ASSUME NEW off \in Seq(Pairs), NEW est
  PROVE  /\ LightStates(off, est)[Len(off)].kept \in Seq(Pairs)
         /\ Among(LightStates(off, est)[Len(off)].kept, off)
<1> DEFINE f == LightStates(off, est)
           T == {k \in Nat : k <= Len(off) => Among(f[k].kept, off)}
<1>1. /\ Len(off) \in Nat /\ \A k \in 1 .. Len(off) : off[k] \in Pairs
      /\ f[0] = [kept |-> <<>>, keep |-> TRUE]
      /\ \A k \in 1 .. Len(off) : f[k] = LightStep(f[k - 1], off[k], est)
      /\ \A k \in 0 .. Len(off) : f[k] \in [kept : Seq(Pairs), keep : BOOLEAN]
  BY LightStatesAre, PairsAt
<1> HIDE DEF f
<1>2. 0 \in T
  BY <1>1 DEF Among
<1>3. ASSUME NEW k \in Nat, k \in T PROVE k + 1 \in T
  <2> SUFFICES ASSUME k + 1 <= Len(off) PROVE Among(f[k + 1].kept, off)
    OBVIOUS
  <2>1. /\ k + 1 \in 1 .. Len(off) /\ k \in 0 .. Len(off) /\ k + 1 - 1 = k
        /\ off[k + 1] \in Pairs /\ f[k] \in [kept : Seq(Pairs), keep : BOOLEAN]
    BY <1>1
  <2>2. f[k + 1] = LightStep(f[k], off[k + 1], est) /\ Among(f[k].kept, off)
    BY <1>1, <1>3, <2>1
  <2>3. f[k].kept \in Seq(Pairs) /\ f[k] = [kept |-> f[k].kept, keep |-> f[k].keep]
    BY <2>1
  <2>4. CASE f[k].keep
    <3>1. f[k + 1].kept = Append(f[k].kept, off[k + 1])
      BY <2>2, <2>4 DEF LightStep
    <3> DEFINE r == Append(f[k].kept, off[k + 1])
               m == Len(f[k].kept)
    <3>2. m \in Nat /\ Len(r) = m + 1 /\ r[m + 1] = off[k + 1] /\ \A i \in 1 .. m : r[i] = f[k].kept[i]
      BY <2>1, <2>3, AppendPair, PairsAt
    <3> HIDE DEF r, m
    <3>3. \A i \in 1 .. m + 1 : i \in 1 .. m \/ i = m + 1
      BY <3>2
    <3>4. \A i \in 1 .. m : \E j \in 1 .. Len(off) : f[k].kept[i] = off[j]
      BY <2>2 DEF Among, m
    <3>5. Among(r, off)
      BY <2>1, <3>2, <3>3, <3>4 DEF Among
    <3> QED
      BY <3>1, <3>5 DEF r
  <2>5. CASE ~f[k].keep
    <3>1. f[k + 1].kept = f[k].kept
      BY <2>2, <2>3, <2>5 DEF LightStep
    <3> QED
      BY <2>2, <3>1
  <2> QED
    BY <2>4, <2>5
<1> HIDE DEF T
<1>4. Len(off) \in T
  BY <1>1, <1>2, <1>3, NatSet
<1>5. Among(f[Len(off)].kept, off)
  BY <1>1, <1>4 DEF T
<1>6. f[Len(off)].kept \in Seq(Pairs)
  <2>1. Len(off) \in 0 .. Len(off)
    BY <1>1
  <2> QED
    BY <1>1, <2>1
<1> QED
  BY <1>5, <1>6 DEF f

\* An index whose pairs are the new one or were in the index before.
OneAdded(x, e, y) ==
  /\ y \in Indexes
  /\ \A i \in 1 .. Len(y.off) : y.off[i] = e \/ \E j \in 1 .. Len(x.off) : y.off[i] = x.off[j]

\* add records the pair or not, and thins or not.
LEMMA AddAmong ==
  ASSUME NEW x \in Indexes, NEW c \in Nat, NEW u \in Nat
  PROVE  OneAdded(x, Pair(c, u), Add(x, c, u))
<1> DEFINE e == Pair(c, u)
           r == Append(x.off, e)
           longer == [x EXCEPT !.off = Append(@, Pair(c, u))]
           kept == LightStates(r, 2 * x.est)[Len(r)].kept
<1>1. x.off \in Seq(Pairs) /\ x.est \in Nat \ {0} /\ e \in Pairs
  BY DEF Indexes, Pairs, Pair
<1>2. /\ r \in Seq(Pairs) /\ Len(r) = Len(x.off) + 1 /\ Len(x.off) \in Nat /\ r[Len(x.off) + 1] = e
      /\ \A i \in 1 .. Len(x.off) : r[i] = x.off[i]
  BY <1>1, AppendPair, PairsAt
<1>3. longer = [est |-> x.est, off |-> r]
  BY WithOff
<1> HIDE DEF e, r
<1>4. \A i \in 1 .. Len(r) : r[i] = e \/ \E j \in 1 .. Len(x.off) : r[i] = x.off[j]
  <2>1. \A i \in 1 .. Len(x.off) + 1 : i \in 1 .. Len(x.off) \/ i = Len(x.off) + 1
    BY <1>2
  <2> QED
    BY <1>2, <2>1
<1>5. OneAdded(x, e, x)
  BY DEF OneAdded
<1>6. longer.est = x.est /\ longer.off = r /\ OneAdded(x, e, longer)
  <2>1. longer \in Indexes /\ longer.est = x.est /\ longer.off = r
    BY <1>1, <1>2, <1>3 DEF Indexes
  <2> HIDE DEF longer
  <2> QED
    BY <1>4, <2>1 DEF OneAdded
<1> HIDE DEF longer
<1>7. OneAdded(x, e, ReduceLight(longer))
  <2>1. kept \in Seq(Pairs) /\ Among(kept, r)
    BY <1>2, LightAmong
  <2>2. ReduceLight(longer) = [est |-> 2 * x.est, off |-> kept]
    BY <1>6 DEF ReduceLight
  <2> HIDE DEF kept
  <2>3. ReduceLight(longer) \in Indexes /\ ReduceLight(longer).off = kept
    BY <1>1, <2>1, <2>2 DEF Indexes
  <2> QED
    BY <1>4, <2>1, <2>3 DEF OneAdded, Among
<1>8. Add(x, c, u) \in {x, longer, ReduceLight(longer)}
  BY DEF Add, longer
<1> QED
  BY <1>5, <1>6, <1>7, <1>8 DEF e

\* reduce keeps some of the entries.
LEMMA ReduceAmong ==
  ASSUME IndexAssumption, NEW x \in Indexes
  PROVE  Reduce(x) \in Indexes /\ Among(Reduce(x).off, x.off)
<1> DEFINE L == Len(x.off)
           r == RemoveN(x)
           n == (L + r) \div (r + 1)
           At(k) == (k - 1) * (r + 1) + 1
           s == [k \in 1 .. n |-> x.off[At(k)]]
<1>1. L \in Nat /\ x.off \in Seq(Pairs) /\ x.est \in Nat /\ x.est >= 1 /\ \A i \in 1 .. L : x.off[i] \in Pairs
  BY PairsAt DEF Indexes
<1>2. CASE L < MaxIndexEntries
  BY <1>1, <1>2 DEF Reduce, Among
<1>3. CASE ~(L < MaxIndexEntries)
  <2>1. r \in Nat
    BY <1>1, RemoveNIs
  <2>2. Reduce(x) = [est |-> x.est + x.est * r, off |-> s]
    BY <1>3 DEF Reduce
  <2> HIDE DEF r
  <2> DEFINE d == r + 1
  <2>3. n \in Nat /\ n * d <= L + r
    <3>1. L + r \in Nat /\ d \in Nat \ {0}
      BY <1>1, <2>1
    <3> QED
      BY <3>1, Divided
  <2>4. d \in Nat /\ d = r + 1
    BY <2>1
  <2> HIDE DEF n, d, L
  <2>5. ASSUME NEW k \in 1 .. n PROVE At(k) \in 1 .. L
    <3>1. k - 1 \in Nat /\ k \in Nat /\ n \in Nat /\ k <= n /\ (k - 1) + 1 = k
      BY <2>3
    <3>2. k * d <= n * d /\ (k - 1) * d \in Nat /\ k * d = (k - 1) * d + d
      BY <2>4, <3>1, Products
    <3> DEFINE z == (k - 1) * d
               y == n * d
    <3>3. z \in Nat /\ z + d <= y /\ y <= L + r /\ y \in Int
      BY <2>3, <2>4, <3>1, <3>2, Products
    <3> HIDE DEF z, y
    <3>4. z + 1 \in 1 .. L
      BY <1>1, <2>1, <2>4, <3>3
    <3> QED
      BY <2>4, <3>4 DEF z
  <2> HIDE DEF At
  <2>6. s \in Seq(Pairs) /\ Len(s) = n /\ \A k \in 1 .. n : s[k] = x.off[At(k)]
    <3>1. s \in [1 .. n -> Pairs]
      BY <1>1, <2>5 DEF L
    <3> HIDE DEF s
    <3>2. s \in Seq(Pairs) /\ Len(s) = n
      BY <2>3, <3>1
    <3> QED
      BY <3>2 DEF s
  <2>7. x.est + x.est * r \in Nat \ {0}
    <3>1. x.est * r \in Nat
      BY <1>1, <2>1, Products
    <3> QED
      BY <1>1, <3>1
  <2>8. Among(s, x.off)
    BY <2>5, <2>6 DEF Among, L
  <2> HIDE DEF s
  <2>9. Reduce(x) \in Indexes /\ Reduce(x).off = s
    BY <2>2, <2>6, <2>7 DEF Indexes
  <2> QED
    BY <2>8, <2>9
<1> QED
  BY <1>2, <1>3

-----------------------------------------------------------------------------
(* What is counted *)

\* A multiple leaves nothing over.
LEMMA Multiple == \A k \in Nat, m \in Nat \ {0} : (k * m) % m = 0
  BY SMT

\* With the padding the stream is a multiple long (writer.go: calcSkippableFrame).
LEMMA PaddedLength ==
  ASSUME NEW w \in Nat, NEW m \in Nat \ {0}
  PROVE  /\ CalcSkippableFrame(w, m) \in Nat
         /\ (w + CalcSkippableFrame(w, m)) % m = 0
  <1> DEFINE left == w % m
             q == w \div m
             rest == m - left
             missing == SkippableHeader - rest
             add == CalcSkippableFrame(w, m)
  <1>1. left \in Nat /\ left < m /\ q \in Nat /\ w = q * m + left BY SMT
  <1>2. add = IF left = 0 THEN 0 ELSE IF missing <= 0 THEN rest
              ELSE rest + m * ((missing + m - 1) \div m)
    BY DEF CalcSkippableFrame
  <1>3. SkippableHeader \in Nat BY FormatAssumption
  <1> HIDE DEF left, q, add
  <1>4. rest \in Nat /\ missing \in Int BY <1>1, <1>3
  <1>5. CASE left = 0
    <2>1. w + add = q * m /\ add \in Nat BY <1>1, <1>2, <1>5
    <2> QED BY <1>1, <2>1, Multiple DEF add
  <1>6. w + rest = (q + 1) * m
    <2>1. (q + 1) * m = q * m + m /\ q * m \in Nat BY <1>1, Products
    <2> QED BY <1>1, <2>1
  <1>7. CASE left # 0 /\ missing <= 0
    <2>1. w + add = (q + 1) * m /\ add \in Nat /\ q + 1 \in Nat BY <1>1, <1>2, <1>4, <1>6, <1>7
    <2> QED BY <2>1, Multiple DEF add
  <1>8. CASE left # 0 /\ ~(missing <= 0)
    <2> DEFINE j == (missing + m - 1) \div m
    <2>1. j \in Nat
      <3>1. missing + m - 1 \in Nat BY <1>4, <1>8
      <3> QED BY <3>1, Divided
    <2>2. add = rest + m * j BY <1>2, <1>8
    <2> HIDE DEF j, rest
    <2>3. m * j \in Nat /\ m * j = j * m BY <2>1, Products
    <2>4. (q + 1) * m + j * m = (q + 1 + j) * m BY <1>1, <2>1, SMT
    <2>5. q + 1 + j \in Nat BY <1>1, <2>1
    <2>6. (q + 1) * m \in Nat BY <1>1, Products
    <2>7. w + add = (q + 1 + j) * m /\ add \in Nat
      BY <1>4, <1>6, <2>2, <2>3, <2>4, <2>6 DEF rest
    <2> QED BY <2>5, <2>7, Multiple DEF add
  <1> QED BY <1>5, <1>7, <1>8

\* The offsets the chunks end at, after Emit.
LEMMA EmitEnds ==
  ASSUME OrderInv, CountInv, NEW kind \in Kinds, NEW lo \in Nat, NEW hi \in Nat, NEW size \in Nat,
         Emit(kind, lo, hi, size)
  PROVE  /\ EndOf(ends) \in Nat /\ EndOf(ends') = EndOf(ends) + size
         /\ ends' \in Seq(Nat) /\ Len(ends') = Len(out') /\ Len(ends) = Len(out)
         /\ ends'[Len(out) + 1] = EndOf(ends) + size
         /\ \A k \in 1 .. Len(out) : ends'[k] = ends[k]
  <1>1. ends \in Seq(Nat) /\ Len(ends) = Len(out) BY DEF CountInv
  <1>2. EndOf(ends) \in Nat BY <1>1, SeqFacts DEF EndOf
  <1> DEFINE e == EndOf(ends) + size
  <1>3. ends' = Append(ends, e) /\ e \in Nat BY <1>2 DEF Emit
  <1> HIDE DEF e
  <1>4. /\ ends' \in Seq(Nat) /\ ends' # <<>> /\ Len(ends') = Len(ends) + 1
        /\ \A k \in 1 .. Len(ends) : ends'[k] = ends[k]
        /\ ends'[Len(ends) + 1] = e
    BY <1>1, <1>3, AppendFacts
  <1>5. EndOf(ends') = e BY <1>4 DEF EndOf
  <1>6. Len(out') = Len(out) + 1 BY EmitChunks
  <1> QED BY <1>1, <1>2, <1>4, <1>5, <1>6 DEF e

\* Nothing is written, and the calling goroutine is not between two pieces.
LEMMA CountFrame ==
  ASSUME CountInv, UNCHANGED <<out, ends, written>>,
         Live' => Live /\ Ahead' = Ahead /\ (pc' = "index" => pc = "index"),
         err' = "closed" => err = "closed"
  PROVE  CountInv'
  BY DEF CountInv, ClosedIsPadded, Live

\* A step that ends in another error than "closed" owes only the types.
LEMMA CountBroken ==
  ASSUME CountInv, ends' = ends, Len(out') = Len(out), written' \in Nat, err' \notin {"none", "closed"}
  PROVE  CountInv'
  BY DEF CountInv, ClosedIsPadded, Live

\* A chunk is complete, and counted.
LEMMA CountEmit ==
  ASSUME OrderInv, CountInv, NEW kind \in Kinds, NEW lo \in Nat, NEW hi \in Nat, NEW size \in Nat,
         Emit(kind, lo, hi, size), written' \in Nat,
         Live' => Live /\ written' = written - Ahead + size /\ Ahead' = 0 /\ Ahead \in Nat /\ pc' # "index",
         err' # "closed"
  PROVE  CountInv'
  <1>1. /\ EndOf(ends) \in Nat /\ EndOf(ends') = EndOf(ends) + size
        /\ ends' \in Seq(Nat) /\ Len(ends') = Len(out')
    BY EmitEnds
  <1>2. Live => written = EndOf(ends) + Ahead BY DEF CountInv
  <1>3. Live' => written' = EndOf(ends') + Ahead' BY <1>1, <1>2
  <1> QED BY <1>1, <1>3 DEF CountInv, ClosedIsPadded, Live

\* The header of a chunk in two pieces is counted before the chunk is complete.
LEMMA CountPiece ==
  ASSUME CountInv, UNCHANGED <<out, ends, err>>, written' = written + 1,
         pc \notin {"raw", "userdata", "index"}, pc' \in {"raw", "userdata"}, err # "closed"
  PROVE  CountInv'
  <1>1. Ahead = 0 /\ Ahead' = 1 BY DEF Ahead
  <1>2. ends \in Seq(Nat) /\ written \in Nat BY DEF CountInv
  <1>3. EndOf(ends) \in Nat BY <1>2, SeqFacts DEF EndOf
  <1> QED BY <1>1, <1>2, <1>3 DEF CountInv, ClosedIsPadded, Live

\* The sizes of chunks.
LEMMA Sizes == \A kind \in Kinds : SizeOf(kind) \in Nat
  BY DEF SizeOf

\* writeSync and AddUserChunk write the header, a block or a user chunk.
LEMMA CountMarks ==
  ASSUME OrderInv, CloseInv, CountInv,
         SyncHeader \/ (UserHeader /\ Concurrency = 1) \/ UserData \/ SyncBlock("comp") \/ SyncRaw
  PROVE  CountInv'
  <1>1. written \in Nat /\ uncomp \in Nat BY InvFacts DEF CountInv
  <1>2. CASE SyncHeader
    <2>1. /\ Emit("header", uncomp, uncomp, SizeOf("header")) /\ written' = written + SizeOf("header")
          /\ pc = "sync" /\ pc' = pc /\ err = "none" /\ err' = err
      BY <1>2 DEF SyncHeader, callVars
    <2>2. Ahead = 0 /\ Ahead' = 0 BY <2>1 DEF Ahead
    <2>3. "header" \in Kinds /\ SizeOf("header") = 1 BY DEF Kinds, SizeOf
    <2> QED BY <1>1, <2>1, <2>2, <2>3, CountEmit DEF Live
  <1>3. CASE UserHeader /\ Concurrency = 1
    <2>1. /\ Emit("header", uncomp, uncomp, SizeOf("header")) /\ written' = written + SizeOf("header")
          /\ pc = "user" /\ pc' = pc /\ err' = err
      BY <1>3 DEF UserHeader
    <2>2. Ahead = 0 /\ Ahead' = 0 BY <2>1 DEF Ahead
    <2>3. "header" \in Kinds /\ SizeOf("header") = 1 BY DEF Kinds, SizeOf
    <2>4. Live BY <1>3, <2>1 DEF OrderInv, Ending
    <2> QED BY <1>1, <2>1, <2>2, <2>3, <2>4, CountEmit DEF Live
  <1>4. CASE UserData
    <2>1. /\ Emit("user", uncomp, uncomp, SizeOf("user")) /\ written' = written + 1
          /\ pc = "userdata" /\ pc' = "idle" /\ err' = err
      BY <1>4 DEF UserData, Return, GoTo
    <2>2. Ahead = 1 /\ Ahead' = 0 BY <2>1 DEF Ahead
    <2>3. "user" \in Kinds /\ SizeOf("user") = 2 BY DEF Kinds, SizeOf
    <2>4. Live BY <2>1 DEF OrderInv, Ending, Alone
    <2> QED BY <1>1, <2>1, <2>2, <2>3, <2>4, CountEmit DEF Live
  <1>5. CASE SyncBlock("comp")
    <2> DEFINE n == Min({BlockSize, Size(wp)})
    <2>1. /\ Emit("comp", wp.lo, wp.lo + n, SizeOf("comp")) /\ written' = written + 1
          /\ pc = "sync" /\ pc' = pc /\ err = "none" /\ err' = err /\ Size(wp) > 0
      BY <1>5 DEF SyncBlock
    <2>2. Ahead = 0 /\ Ahead' = 0 BY <2>1 DEF Ahead
    <2>3. "comp" \in Kinds /\ SizeOf("comp") = 1 BY DEF Kinds, SizeOf
    <2>4. wp.lo \in Nat /\ wp.lo + n \in Nat BY <2>1, InvFacts, BlockCut
    <2> HIDE DEF n
    <2> QED BY <1>1, <2>1, <2>2, <2>3, <2>4, CountEmit DEF Live
  <1>6. CASE SyncRaw
    <2> DEFINE n == Min({BlockSize, Size(wp)})
    <2>1. /\ Emit("raw", wp.lo, wp.lo + n, SizeOf("raw")) /\ written' = written + 1
          /\ pc = "raw" /\ pc' = "sync" /\ err' = err
      BY <1>6 DEF SyncRaw
    <2>2. Ahead = 1 /\ Ahead' = 0 BY <2>1 DEF Ahead
    <2>3. "raw" \in Kinds /\ SizeOf("raw") = 2 BY DEF Kinds, SizeOf
    <2>4. Live /\ uncomp = wp.lo + n BY <2>1 DEF OrderInv, CallerOrder
    <2>5. wp.lo \in Nat BY DEF OrderInv, TypeOK, Spans
    <2> HIDE DEF n
    <2> QED BY <1>1, <2>1, <2>2, <2>3, <2>4, <2>5, CountEmit DEF Live
  <1> QED BY <1>2, <1>3, <1>4, <1>5, <1>6

\* The writer goroutine counts the chunk it has written (writer.go:151-180).
LEMMA CountWriteOut ==
  ASSUME OrderInv, CloseInv, CountInv, WriteOut
  PROVE  CountInv'
  <1>1. /\ wpc = "write" /\ Busy /\ pc' = pc /\ err \in {"none", "src"} /\ err' \in {err, "io"}
    BY DEF WriteOut, Busy, CloseInv, SetErr, callVars
  <1>2. pc \notin {"raw", "userdata", "pad", "index"} BY <1>1 DEF OrderInv, Alone
  <1>3. Ahead = 0 /\ Ahead' = 0 BY <1>1, <1>2 DEF Ahead
  <1>4. cur.kind \in Kinds /\ cur.lo \in Nat /\ cur.hi \in Nat
    <2>1. cur.kind # "none" /\ cur.kind # "data" /\ cur.kind # "flush"
      BY <1>1 DEF OrderInv, EntryShape
    <2> QED BY <2>1, InvFacts DEF Entries
  <1>5. written \in Nat BY DEF CountInv
  <1>6. CASE Emit(cur.kind, cur.lo, cur.hi, SizeOf(cur.kind)) /\ err' = err
             /\ written' = written + SizeOf(cur.kind)
    <2>1. SizeOf(cur.kind) \in Nat BY <1>4, Sizes
    <2> QED BY <1>1, <1>2, <1>3, <1>4, <1>5, <1>6, <2>1, CountEmit DEF Live
  <1>7. CASE SetErr("io") /\ UNCHANGED <<out, ends, written>>
    <2>1. err' \notin {"none", "closed"} BY <1>1, <1>7 DEF SetErr
    <2> QED BY <1>5, <1>7, <2>1, CountBroken
  <1> QED BY <1>6, <1>7 DEF WriteOut

\* The EOF marker is written (writer.go:784-845).
LEMMA CountWriteEOF ==
  ASSUME OrderInv, CountInv, WriteEOF
  PROVE  CountInv'
  <1>1. written \in Nat /\ uncomp \in Nat BY InvFacts DEF CountInv
  <1>2. "eof" \in Kinds /\ SizeOf("eof") = 1 BY DEF Kinds, SizeOf
  <1>3. pc = "eof" /\ Live /\ written' = written + 1 /\ Ahead = 0 BY <1>2 DEF WriteEOF, Live, Ahead
  <1>4. CASE Emit("eof", uncomp, uncomp, SizeOf("eof")) /\ pc' = "pad" /\ err' = err
    <2>1. Ahead' = 0 BY <1>4 DEF Ahead
    <2> QED BY <1>1, <1>2, <1>3, <1>4, <2>1, CountEmit DEF Live
  <1>5. CASE err' = "io" /\ UNCHANGED <<out, ends>>
    BY <1>1, <1>3, <1>5, CountBroken
  <1> QED BY <1>4, <1>5 DEF WriteEOF

\* The index is counted and the padding chosen before either is written.
LEMMA CountWritePadding ==
  ASSUME OrderInv, CountInv, IndexInv, WritePadding
  PROVE  CountInv'
  <1> DEFINE stored  == IF WantIndex THEN Reduce(ix) ELSE ix
             counted == Counted(stored)
             add     == IF Pad > 1 THEN CalcSkippableFrame(counted, Pad) ELSE 0
  <1>1. pc = "pad" /\ Live /\ ix' = stored BY DEF WritePadding, OrderInv, Ending
  <1>2. Ahead = 0 /\ written \in Nat /\ uncomp \in Nat BY <1>1, InvFacts DEF Ahead, CountInv
  <1>3. stored \in Indexes
    <2>1. ix \in Indexes /\ IndexAssumption BY IndexAssumption DEF IndexInv
    <2> QED BY <2>1, ReduceAmong
  <1>4. IndexSize(stored) \in Nat
    <2>1. stored.off \in Seq(Pairs) BY <1>3 DEF Indexes
    <2> QED BY <2>1, PairsAt DEF IndexSize
  <1>5. /\ \/ /\ IF add = 0 THEN UNCHANGED <<out, ends>> ELSE Emit("pad", uncomp, uncomp, add)
              /\ written' = counted + add /\ pc' = "index" /\ err' = err
           \/ err' \in {"io", "rand"} /\ written' = counted /\ UNCHANGED <<out, ends>>
    BY DEF WritePadding
  <1> HIDE DEF stored
  <1>6. counted \in Nat /\ counted = written + IF AppendIndex THEN IndexSize(stored) ELSE 0
    BY <1>2, <1>4, WriterAssumption DEF Counted
  <1> HIDE DEF counted
  <1>7. add \in Nat /\ (Pad > 1 => (counted + add) % Pad = 0)
    <2>1. CASE Pad > 1
      <3>1. Pad \in Nat \ {0} BY <2>1, WriterAssumption
      <3> QED BY <2>1, <3>1, <1>6, PaddedLength
    <2> QED BY <2>1
  <1> HIDE DEF add
  <1>8. CASE err' \in {"io", "rand"} /\ written' = counted /\ UNCHANGED <<out, ends>>
    BY <1>6, <1>8, CountBroken
  <1>9. CASE /\ IF add = 0 THEN UNCHANGED <<out, ends>> ELSE Emit("pad", uncomp, uncomp, add)
             /\ written' = counted + add /\ pc' = "index" /\ err' = err
    <2>1. Ahead' = IF AppendIndex THEN IndexSize(stored) ELSE 0 BY <1>1, <1>9 DEF Ahead
    <2>2. "pad" \in Kinds BY DEF Kinds
    <2>3. /\ EndOf(ends) \in Nat /\ EndOf(ends') = EndOf(ends) + add
          /\ ends' \in Seq(Nat) /\ Len(ends') = Len(out')
      <3>1. CASE add = 0
        <4>1. ends \in Seq(Nat) /\ Len(ends) = Len(out) BY DEF CountInv
        <4>2. EndOf(ends) \in Nat BY <4>1, SeqFacts DEF EndOf
        <4> QED BY <1>9, <3>1, <4>1, <4>2
      <3>2. CASE add # 0
        <4>1. Emit("pad", uncomp, uncomp, add) BY <1>9, <3>2
        <4> QED BY <1>2, <1>7, <2>2, <4>1, EmitEnds
      <3> QED BY <3>1, <3>2
    <2>4. written = EndOf(ends) BY <1>1, <1>2, <2>3 DEF CountInv
    <2>5. written' = EndOf(ends') + Ahead' /\ written' \in Nat
      BY <1>2, <1>4, <1>6, <1>7, <1>9, <2>1, <2>3, <2>4
    <2>6. Pad > 1 => written' % Pad = 0 BY <1>7, <1>9
    <2>7. err' # "closed" BY <1>1, <1>9 DEF Live
    <2> QED BY <2>3, <2>5, <2>6, <2>7 DEF CountInv, ClosedIsPadded
  <1> QED BY <1>5, <1>8, <1>9

\* The index was counted already: with it the stream is as long as w.written says.
LEMMA CountWriteIndex ==
  ASSUME OrderInv, CloseInv, CountInv, IndexInv, WriteIndex
  PROVE  CountInv'
  <1>1. /\ pc = "index" /\ pc' = "idle" /\ written' = written /\ ix' = ix
    BY DEF WriteIndex, Return, GoTo
  <1>2. written \in Nat /\ uncomp \in Nat /\ err # "closed" BY <1>1, InvFacts DEF CountInv, CloseInv
  <1>3. IndexSize(ix) \in Nat
    <2>1. ix.off \in Seq(Pairs) BY DEF IndexInv, Indexes
    <2> QED BY <2>1, PairsAt DEF IndexSize
  <1>4. Ahead = IF AppendIndex THEN IndexSize(ix) ELSE 0 BY <1>1 DEF Ahead
  <1>5. "index" \in Kinds BY DEF Kinds
  <1>6. CASE /\ IF AppendIndex THEN Emit("index", uncomp, uncomp, IndexSize(ix))
                ELSE UNCHANGED <<out, ends>>
             /\ SetErr("closed")
    <2>1. /\ EndOf(ends) \in Nat /\ ends' \in Seq(Nat) /\ Len(ends') = Len(out')
          /\ EndOf(ends') = EndOf(ends) + IF AppendIndex THEN IndexSize(ix) ELSE 0
      <3>1. CASE AppendIndex
        <4>1. Emit("index", uncomp, uncomp, IndexSize(ix)) BY <1>6, <3>1
        <4> QED BY <1>2, <1>3, <1>5, <3>1, <4>1, EmitEnds
      <3>2. CASE ~AppendIndex
        <4>1. ends \in Seq(Nat) /\ Len(ends) = Len(out) BY DEF CountInv
        <4>2. EndOf(ends) \in Nat BY <4>1, SeqFacts DEF EndOf
        <4> QED BY <1>6, <3>2, <4>1, <4>2
      <3> QED BY <3>1, <3>2
    <2>2. err' # "none" /\ (err' = "closed" => Live)
      BY <1>2, <1>6 DEF SetErr, Live
    <2>3. Live => written = EndOf(ends') /\ (Pad > 1 => written % Pad = 0)
      BY <1>1, <1>4, <2>1 DEF CountInv
    <2> QED BY <1>1, <1>2, <2>1, <2>2, <2>3 DEF CountInv, ClosedIsPadded, Live
  <1>7. CASE SetErr("io") /\ UNCHANGED <<out, ends>>
    <2>1. err' \notin {"none", "closed"} BY <1>2, <1>7 DEF SetErr
    <2> QED BY <1>1, <1>2, <1>7, <2>1, CountBroken
  <1> QED BY <1>6, <1>7 DEF WriteIndex

\* Every step keeps the counters.
LEMMA CountStep ==
  ASSUME OrderInv, CloseInv, CountInv, IndexInv, Next
  PROVE  CountInv'
  <1> USE InvScalars, SMTT(20)
      DEF Ahead, Live, Entered, FlushBuffer, Return, GoTo, Sender, QueueHeader,
          callVars, inputVars, queueVars, sinkVars
  <1>1. ASSUME NEW n \in 0 .. MaxUnits, CallWrite(n) \/ CallEncodeBuffer(n) PROVE CountInv'
    BY <1>1, CountFrame DEF CallWrite, CallEncodeBuffer
  <1>2. CASE CallReadFrom \/ CallAddUserChunk \/ CallReset
    BY <1>2, CountFrame DEF CallReadFrom, CallAddUserChunk, CallReset
  <1>3. ASSUME NEW m \in {"Flush", "AsyncFlush"}, CallFlush(m) PROVE CountInv'
    BY <1>3, CountFrame DEF CallFlush
  <1>4. ASSUME NEW m \in {"Close", "CloseIndex"}, CallClose(m) PROVE CountInv'
    BY <1>4, CountFrame DEF CallClose
  <1>5. CASE ResetDone
    <2>1. /\ ends' = <<>> /\ written' = 0 /\ out' = <<>> /\ pc' = "idle" /\ err' # "closed"
      BY <1>5 DEF ResetDone, Fresh
    <2> QED BY <2>1 DEF CountInv, ClosedIsPadded, EndOf
  <1>6. CASE LoopDirect \/ LoopFill \/ LoopBuffer \/ Abandon
    BY <1>6, CountFrame DEF LoopDirect, LoopFill, LoopBuffer, Abandon
  <1>7. CASE SendHeader \/ SendBlock \/ EncodeStart
    BY <1>7, CountFrame DEF SendHeader, SendBlock, EncodeStart
  <1>8. CASE SendDone \/ SyncDone BY <1>8, CountFrame DEF SendDone, SyncDone, ScalarsOK
  <1>9. CASE SyncHeader \/ UserData \/ SyncBlock("comp") \/ SyncRaw BY <1>9, CountMarks
  <1>10. CASE SyncBlock("raw") BY <1>10, CountPiece DEF SyncBlock
  <1>11. CASE SyncFail \/ UserFail BY <1>11, CountBroken DEF SyncFail, UserFail, CountInv
  <1>12. ASSUME NEW n \in 1 .. BlockSize, ReadBlock(n) PROVE CountInv'
    BY <1>12, CountFrame DEF ReadBlock
  <1>13. CASE ReadEnd BY <1>13, CountFrame DEF ReadEnd
  <1>14. CASE UserHeader
    <2>1. CASE Concurrency = 1 BY <1>14, <2>1, CountMarks
    <2>2. CASE Concurrency # 1 BY <1>14, <2>2, CountFrame DEF UserHeader
    <2> QED BY <2>1, <2>2
  <1>15. CASE UserQueue BY <1>15, CountFrame DEF UserQueue
  <1>16. CASE UserSync BY <1>16, CountPiece DEF UserSync, OrderInv, Ending
  <1>17. CASE FlushQueue BY <1>17, CountFrame DEF FlushQueue, FlushReturns
  <1>18. CASE CloseOutput \/ CloseJoin \/ CloseFailed
    BY <1>18, CountFrame DEF CloseOutput, CloseJoin, CloseFailed
  <1>19. CASE WriteEOF BY <1>19, CountWriteEOF
  <1>20. CASE WritePadding BY <1>20, CountWritePadding
  <1>21. CASE WriteIndex BY <1>21, CountWriteIndex
  <1>22. CASE Compressing BY <1>22, CountFrame DEF Compressing, Compress
  <1>23. CASE Take \/ Begin \/ Exit BY <1>23, CountFrame DEF Take, Begin, Exit
  <1>24. CASE Hand BY <1>24, CountFrame DEF Hand
  <1>25. CASE Skip BY <1>25, CountFrame DEF Skip, FlushReturns, OrderInv, Alone, Busy
  <1>26. CASE WriteOut BY <1>26, CountWriteOut
  <1> HIDE DEF OrderInv, CountInv
  <1> QED
    BY <1>1, <1>2, <1>3, <1>4, <1>5, <1>6, <1>7, <1>8, <1>9, <1>10, <1>11, <1>12, <1>13,
       <1>14, <1>15, <1>16, <1>17, <1>18, <1>19, <1>20, <1>21, <1>22, <1>23, <1>24, <1>25, <1>26
    DEF Next, Calls, Running, Draining

-----------------------------------------------------------------------------
(* The units before an entry *)

\* Neither the channel nor the goroutine changes.
LEMMA StartFrame ==
  ASSUME StartInv, UNCHANGED <<chan, cur, wpc>>, pc' = "sync" => Live'
  PROVE  StartInv'
  BY DEF StartInv, Busy

\* An entry is queued.
LEMMA StartAppend ==
  ASSUME OrderInv, StartInv, NEW e \in Entries, chan' = Append(chan, e), UNCHANGED <<cur, wpc>>,
         e.start = e.lo, pc' # "sync"
  PROVE  StartInv'
  <1>1. chan \in Seq(Entries) BY InvFacts
  <1>2. /\ Len(chan') = Len(chan) + 1 /\ Len(chan) \in Nat
        /\ \A k \in 1 .. Len(chan) : chan'[k] = chan[k]
        /\ chan'[Len(chan) + 1] = e
    BY <1>1, AppendFacts
  <1> QED BY <1>2 DEF StartInv, Busy

\* The header, a user chunk or a flush is queued.
LEMMA StartMark ==
  ASSUME OrderInv, StartInv, NEW kind \in {"header", "user", "flush"}, NEW st \in {"ready", "caller"},
         Queue(Entry(kind, uncomp, uncomp, uncomp, st)), UNCHANGED <<cur, wpc>>, pc' # "sync"
  PROVE  StartInv'
  <1> DEFINE e == Entry(kind, uncomp, uncomp, uncomp, st)
  <1>1. e \in Entries BY InvFacts, MarkEntry
  <1>2. e.start = e.lo /\ chan' = Append(chan, e) BY DEF Entry, Queue
  <1> HIDE DEF e
  <1> QED BY <1>1, <1>2, StartAppend

\* A block is queued: what was sent before it are the units before it.
LEMMA StartSendBlock == ASSUME OrderInv, StartInv, SendBlock PROVE StartInv'
  <1> DEFINE n == Min({BlockSize, Size(wp)})
             e == Entry("data", wp.lo, wp.lo + n, uncomp, "busy")
  <1>1. /\ Size(wp) > 0 /\ pc = "send" /\ pc' = pc /\ chan' = Append(chan, e)
        /\ cur' = cur /\ wpc' = wpc
    BY DEF SendBlock, Queue
  <1>2. e \in Entries BY <1>1, InvFacts, BlockEntry
  <1>3. uncomp = wp.lo BY <1>1, InvFacts DEF OrderInv, CallerOrder, Sending, Sent
  <1>4. e.start = e.lo BY <1>3 DEF Entry
  <1> HIDE DEF e
  <1> QED BY <1>1, <1>2, <1>4, StartAppend

\* Compressing a block changes neither.
LEMMA StartCompress ==
  ASSUME OrderInv, StartInv, NEW kind \in DataKinds, Compress(kind)
  PROVE  StartInv'
  <1>1. chan \in Seq(Entries) /\ cur \in Entries BY InvFacts
  <1>2. \A e \in Entries : Compressed(e, kind).start = e.start /\ Compressed(e, kind).lo = e.lo
    BY DEF Compressed, Entries
  <1>3. Len(chan') = Len(chan) BY CompressKeeps DEF OrderInv
  <1>4. \A k \in 1 .. Len(chan) : chan'[k].start = chan[k].start /\ chan'[k].lo = chan[k].lo
    <2>1. CASE chan' = chan BY <2>1
    <2>2. CASE \E k \in DOMAIN chan : chan' = [chan EXCEPT ![k] = Compressed(@, kind)]
      BY <1>1, <1>2, <2>2
    <2> QED BY <2>1, <2>2 DEF Compress
  <1>5. cur'.start = cur.start /\ cur'.lo = cur.lo BY <1>1, <1>2 DEF Compress
  <1>6. pc' = pc /\ err' = err /\ wpc' = wpc BY DEF Compress, callVars
  <1> QED BY <1>3, <1>4, <1>5, <1>6 DEF StartInv, Busy, Live

\* The writer goroutine takes an entry.
LEMMA StartTake == ASSUME OrderInv, StartInv, Take PROVE StartInv'
  <1>1. chan \in Seq(Entries) /\ chan # <<>> BY InvFacts DEF Take
  <1>2. /\ cur' = chan[1]
        /\ Len(chan) \in Nat /\ Len(chan) >= 1 /\ Len(chan') = Len(chan) - 1
        /\ \A k \in 1 .. Len(chan) - 1 : chan'[k] = chan[k + 1]
    BY <1>1, TailFacts DEF Take
  <1>3. \A k \in 1 .. Len(chan') : chan'[k].start = chan'[k].lo BY <1>2 DEF StartInv
  <1>4. pc' = pc /\ err' = err BY DEF Take, callVars
  <1> QED BY <1>2, <1>3, <1>4 DEF StartInv, Live

\* The writer goroutine's other steps.
LEMMA StartDrain ==
  ASSUME OrderInv, StartInv, Hand \/ Skip \/ Begin \/ WriteOut \/ Exit
  PROVE  StartInv'
  <1>1. chan' = chan BY DEF Hand, Skip, Begin, WriteOut, Exit, queueVars
  <1>2. Busy' => Busy /\ cur'.start = cur.start /\ cur'.lo = cur.lo
    <2>1. cur \in Entries BY InvFacts
    <2>2. CASE Hand BY <2>1, <2>2 DEF Hand, Entries, Busy
    <2>3. CASE Skip \/ Begin \/ WriteOut \/ Exit BY <2>3 DEF Skip, Begin, WriteOut, Exit, Busy
    <2> QED BY <2>2, <2>3
  <1>3. pc' = "sync" => pc = "sync"
    BY DEF Hand, Skip, Begin, WriteOut, Exit, callVars, FlushReturns, GoTo
  <1>4. pc = "sync" => Live /\ ~WriteOut BY DEF StartInv, OrderInv, Alone, Busy, WriteOut
  <1>5. err' = err \/ WriteOut BY DEF Hand, Skip, Begin, Exit
  <1> QED BY <1>1, <1>2, <1>3, <1>4, <1>5 DEF StartInv, Live

\* A new stream has no entry.
LEMMA StartReset == ASSUME ResetDone PROVE StartInv'
  <1>1. Len(chan') = 0 /\ pc' = "idle" BY ResetFacts
  <1>2. ~Busy' BY ResetFacts DEF Busy
  <1> QED BY <1>1, <1>2 DEF StartInv

\* Every step keeps where the entries start.
LEMMA StartStep ==
  ASSUME OrderInv, StartInv, Next
  PROVE  StartInv'
  <1> USE InvScalars, SMTT(20)
      DEF Live, Entered, FlushBuffer, Return, GoTo, Sender, callVars, inputVars, queueVars, sinkVars
  <1>1. ASSUME NEW n \in 0 .. MaxUnits, CallWrite(n) \/ CallEncodeBuffer(n) PROVE StartInv'
    BY <1>1, StartFrame DEF CallWrite, CallEncodeBuffer
  <1>2. CASE CallReadFrom \/ CallAddUserChunk \/ CallReset
    BY <1>2, StartFrame DEF CallReadFrom, CallAddUserChunk, CallReset
  <1>3. ASSUME NEW m \in {"Flush", "AsyncFlush"}, CallFlush(m) PROVE StartInv'
    BY <1>3, StartFrame DEF CallFlush
  <1>4. ASSUME NEW m \in {"Close", "CloseIndex"}, CallClose(m) PROVE StartInv'
    BY <1>4, StartFrame DEF CallClose
  <1>5. CASE ResetDone BY <1>5, StartReset
  <1>6. CASE LoopDirect \/ LoopFill \/ LoopBuffer \/ Abandon
    BY <1>6, StartFrame DEF LoopDirect, LoopFill, LoopBuffer, Abandon
  <1>7. CASE SendHeader BY <1>7, StartMark DEF SendHeader, QueueHeader
  <1>8. CASE SendBlock BY <1>8, StartSendBlock
  <1>9. CASE SendDone \/ SyncDone BY <1>9, StartFrame DEF SendDone, SyncDone, ScalarsOK
  <1>10. CASE EncodeStart
    <2>1. CASE Concurrency = 1 \/ hdr BY <1>10, <2>1, StartFrame DEF EncodeStart
    <2>2. CASE ~(Concurrency = 1 \/ hdr) BY <1>10, <2>2, StartMark DEF EncodeStart, QueueHeader
    <2> QED BY <2>1, <2>2
  <1>11. CASE SyncHeader \/ UserData \/ UserSync
    BY <1>11, StartFrame DEF SyncHeader, UserData, UserSync
  <1>12. ASSUME NEW kind \in {"comp", "raw"}, SyncBlock(kind) PROVE StartInv'
    BY <1>12, StartFrame DEF SyncBlock
  <1>13. CASE SyncRaw BY <1>13, StartFrame DEF SyncRaw, OrderInv, CallerOrder
  <1>14. CASE SyncFail BY <1>14, StartFrame DEF SyncFail, ScalarsOK
  <1>15. CASE UserFail BY <1>15, StartFrame DEF UserFail
  <1>16. ASSUME NEW n \in 1 .. BlockSize, ReadBlock(n) PROVE StartInv'
    BY <1>16, StartFrame DEF ReadBlock
  <1>17. CASE ReadEnd BY <1>17, StartFrame DEF ReadEnd
  <1>18. CASE UserHeader
    <2>1. CASE Concurrency = 1 BY <1>18, <2>1, StartFrame DEF UserHeader
    <2>2. CASE Concurrency # 1 BY <1>18, <2>2, StartMark DEF UserHeader, QueueHeader
    <2> QED BY <2>1, <2>2
  <1>19. CASE UserQueue BY <1>19, StartMark DEF UserQueue
  <1>20. CASE FlushQueue
    <2>1. CASE err # "none" \/ ~open
      BY <1>20, <2>1, StartFrame DEF FlushQueue, FlushReturns
    <2>2. CASE ~(err # "none" \/ ~open) BY <1>20, <2>2, StartMark DEF FlushQueue
    <2> QED BY <2>1, <2>2
  <1>21. CASE CloseOutput \/ CloseJoin \/ CloseFailed
    BY <1>21, StartFrame DEF CloseOutput, CloseJoin, CloseFailed
  <1>22. CASE WriteEOF \/ WritePadding \/ WriteIndex
    BY <1>22, StartFrame DEF WriteEOF, WritePadding, WriteIndex
  <1>23. CASE Compressing BY <1>23, StartCompress DEF Compressing
  <1>24. CASE Take BY <1>24, StartTake
  <1>25. CASE Hand \/ Skip \/ Begin \/ WriteOut \/ Exit BY <1>25, StartDrain
  <1> HIDE DEF OrderInv, StartInv
  <1> QED
    BY <1>1, <1>2, <1>3, <1>4, <1>5, <1>6, <1>7, <1>8, <1>9, <1>10, <1>11, <1>12, <1>13,
       <1>14, <1>15, <1>16, <1>17, <1>18, <1>19, <1>20, <1>21, <1>22, <1>23, <1>24, <1>25
    DEF Next, Calls, Running, Draining

-----------------------------------------------------------------------------
(* Where the entries of the index point *)

\* The stream is as it was, or has failed: fewer entries point where they did.
LEMMA IndexThin ==
  ASSUME CountInv, IndexInv, UNCHANGED <<out, ends>>, written' \in Nat, written' >= written,
         ix' \in Indexes, Among(ix'.off, ix.off),
         err' \in {"none", "closed"} => err \in {"none", "closed"} /\ torn' = torn
  PROVE  IndexInv'
  <1>1. /\ \A k \in 1 .. Len(ix.off) : ix.off[k].c \in Nat
        /\ ix.off \in Seq(Pairs) /\ ix'.off \in Seq(Pairs) /\ written \in Nat
    <2>1. ix.off \in Seq(Pairs) /\ ix'.off \in Seq(Pairs) BY DEF IndexInv, Indexes
    <2> QED BY <2>1, PairsAt DEF CountInv
  <1>2. ASSUME NEW k \in 1 .. Len(ix'.off)
        PROVE  ix'.off[k].c <= written' /\ ix'.off[k].u <= DataEnd(out')
    <2>1. PICK j \in 1 .. Len(ix.off) : ix'.off[k] = ix.off[j] BY DEF Among
    <2>2. ix.off[j].c <= written /\ ix.off[j].u <= DataEnd(out) /\ ix.off[j].c \in Nat
      BY <1>1 DEF IndexInv
    <2> QED BY <1>1, <2>1, <2>2
  <1>3. IndexPointsAtChunks'
    <2> SUFFICES ASSUME err' \in {"none", "closed"}, NEW k \in 1 .. Len(ix'.off)
                 PROVE  \/ \E j \in DOMAIN out' : StartOf(j)' = ix'.off[k].c /\ out'[j].lo = ix'.off[k].u
                        \/ torn' /\ ix'.off[k].c = EndOf(ends') /\ ix'.off[k].u = DataEnd(out')
      BY <1>1 DEF IndexPointsAtChunks
    <2>1. PICK i \in 1 .. Len(ix.off) : ix'.off[k] = ix.off[i] BY DEF Among
    <2>2. i \in DOMAIN ix.off BY <1>1
    <2>3. \/ \E j \in DOMAIN out : StartOf(j) = ix.off[i].c /\ out[j].lo = ix.off[i].u
          \/ torn /\ ix.off[i].c = EndOf(ends) /\ ix.off[i].u = DataEnd(out)
      BY <2>2 DEF IndexInv, IndexPointsAtChunks
    <2> QED BY <2>1, <2>3 DEF StartOf
  <1> QED BY <1>2, <1>3 DEF IndexInv

\* ... the same entries.
LEMMA IndexFrame ==
  ASSUME CountInv, IndexInv, UNCHANGED <<out, ends, ix>>, written' \in Nat, written' >= written,
         err' \in {"none", "closed"} => err \in {"none", "closed"} /\ torn' = torn
  PROVE  IndexInv'
  <1>1. ix' \in Indexes /\ Among(ix'.off, ix.off) BY DEF IndexInv, Among
  <1> QED BY <1>1, IndexThin

\* index.add with the number of bytes written so far.
LEMMA RecordAdds ==
  ASSUME CountInv, IndexInv, NEW u \in Nat, Record(written, u)
  PROVE  OneAdded(ix, Pair(written, u), ix')
  <1>1. ix \in Indexes /\ written \in Nat BY DEF IndexInv, CountInv
  <1>2. CASE ix' = Add(ix, written, u) BY <1>1, <1>2, AddAmong
  <1>3. CASE ix' = ix BY <1>1, <1>3 DEF OneAdded
  <1> QED BY <1>2, <1>3 DEF Record

\* The new entry and the ones before it are not beyond what has been written.
LEMMA AddedBehind ==
  ASSUME OrderInv, CountInv, IndexInv, written' \in Nat, written' >= written,
         DataEnd(out') \in Nat, DataEnd(out') >= DataEnd(out),
         OneAdded(ix, Pair(written, DataEnd(out)), ix')
  PROVE  /\ ix' \in Indexes
         /\ \A k \in 1 .. Len(ix'.off) : ix'.off[k].c <= written' /\ ix'.off[k].u <= DataEnd(out')
  <1>1. /\ \A k \in 1 .. Len(ix.off) : ix.off[k].c \in Nat /\ ix.off[k].u \in Nat
        /\ written \in Nat /\ DataEnd(out) \in Nat
    <2>1. ix.off \in Seq(Pairs) BY DEF IndexInv, Indexes
    <2> QED BY <2>1, PairsAt, InvFacts, Places DEF CountInv
  <1> DEFINE e == Pair(written, DataEnd(out))
  <1>2. e.c = written /\ e.u = DataEnd(out) BY DEF Pair
  <1> HIDE DEF e
  <1>3. ASSUME NEW k \in 1 .. Len(ix'.off)
        PROVE  ix'.off[k].c <= written' /\ ix'.off[k].u <= DataEnd(out')
    <2>1. CASE ix'.off[k] = e BY <1>1, <1>2, <2>1
    <2>2. CASE \E j \in 1 .. Len(ix.off) : ix'.off[k] = ix.off[j]
      <3>1. PICK j \in 1 .. Len(ix.off) : ix'.off[k] = ix.off[j] BY <2>2
      <3>2. ix.off[j].c <= written /\ ix.off[j].u <= DataEnd(out) BY DEF IndexInv
      <3> QED BY <1>1, <3>1, <3>2
    <2> QED BY <2>1, <2>2 DEF OneAdded, e
  <1> QED BY <1>3 DEF OneAdded

\* An entry is recorded where a chunk is begun: its start is the end of the
\* last complete one.
LEMMA IndexPiece ==
  ASSUME OrderInv, CountInv, IndexInv, UNCHANGED <<out, ends>>, written' \in Nat, written' >= written,
         OneAdded(ix, Pair(written, DataEnd(out)), ix'),
         err' \in {"none", "closed"} => err \in {"none", "closed"} /\ torn' /\ written = EndOf(ends)
  PROVE  IndexInv'
  <1>1. DataEnd(out') \in Nat /\ DataEnd(out') >= DataEnd(out) BY InvFacts, Places
  <1>2. /\ ix' \in Indexes
        /\ \A k \in 1 .. Len(ix'.off) : ix'.off[k].c <= written' /\ ix'.off[k].u <= DataEnd(out')
    BY <1>1, AddedBehind
  <1>3. ix.off \in Seq(Pairs) /\ ix'.off \in Seq(Pairs) BY <1>2 DEF IndexInv, Indexes
  <1> DEFINE e == Pair(written, DataEnd(out))
  <1>4. e.c = written /\ e.u = DataEnd(out) BY DEF Pair
  <1> HIDE DEF e
  <1>5. IndexPointsAtChunks'
    <2> SUFFICES ASSUME err' \in {"none", "closed"}, NEW k \in 1 .. Len(ix'.off)
                 PROVE  \/ \E j \in DOMAIN out' : StartOf(j)' = ix'.off[k].c /\ out'[j].lo = ix'.off[k].u
                        \/ torn' /\ ix'.off[k].c = EndOf(ends') /\ ix'.off[k].u = DataEnd(out')
      BY <1>3 DEF IndexPointsAtChunks
    <2>1. CASE ix'.off[k] = e BY <1>4, <2>1
    <2>2. CASE \E i \in 1 .. Len(ix.off) : ix'.off[k] = ix.off[i]
      <3>1. PICK i \in 1 .. Len(ix.off) : ix'.off[k] = ix.off[i] BY <2>2
      <3>2. i \in DOMAIN ix.off BY <1>3
      <3>3. \/ \E j \in DOMAIN out : StartOf(j) = ix.off[i].c /\ out[j].lo = ix.off[i].u
            \/ torn /\ ix.off[i].c = EndOf(ends) /\ ix.off[i].u = DataEnd(out)
        BY <3>2 DEF IndexInv, IndexPointsAtChunks
      <3> QED BY <3>1, <3>3 DEF StartOf
    <2> QED BY <2>1, <2>2 DEF OneAdded, e
  <1> QED BY <1>2, <1>5 DEF IndexInv

\* A chunk is complete: what pointed at the place it was begun points at it.
LEMMA IndexEmit ==
  ASSUME OrderInv, CountInv, IndexInv, NEW kind \in Kinds, NEW hi \in Nat, NEW size \in Nat,
         Emit(kind, DataEnd(out), hi, size), DataEnd(out) <= hi,
         written' \in Nat, written' >= written, OneAdded(ix, Pair(written, DataEnd(out)), ix'),
         err' \in {"none", "closed"} =>
           err \in {"none", "closed"} /\ (ix' = ix \/ written = EndOf(ends))
  PROVE  IndexInv'
  <1>1. DataEnd(out) \in Nat BY InvFacts, Places
  <1>2. DataEnd(out') = hi BY <1>1, EmitEnd
  <1>3. /\ ix' \in Indexes
        /\ \A k \in 1 .. Len(ix'.off) : ix'.off[k].c <= written' /\ ix'.off[k].u <= DataEnd(out')
    BY <1>1, <1>2, AddedBehind
  <1>4. ix.off \in Seq(Pairs) /\ ix'.off \in Seq(Pairs) BY <1>3 DEF IndexInv, Indexes
  <1> DEFINE m == Len(out)
  <1>5. /\ m \in Nat /\ DOMAIN out = 1 .. m /\ DOMAIN out' = 1 .. m + 1
        /\ \A k \in 1 .. m : out'[k] = out[k]
        /\ out'[m + 1].lo = DataEnd(out)
    BY <1>1, EmitChunks
  <1>6. /\ ends \in Seq(Nat) /\ Len(ends) = m /\ \A k \in 1 .. m : ends'[k] = ends[k]
    BY <1>1, EmitEnds DEF CountInv
  <1> DEFINE At(j) == IF j = 1 THEN 0 ELSE ends'[j - 1]
  <1>7. \A j \in 1 .. m : At(j) = StartOf(j)
    <2> SUFFICES ASSUME NEW j \in 1 .. m PROVE At(j) = StartOf(j) OBVIOUS
    <2>1. j = 1 \/ j - 1 \in 1 .. m BY <1>5
    <2> QED BY <1>6, <2>1 DEF StartOf
  <1>8. At(m + 1) = EndOf(ends)
    <2>1. CASE m = 0
      <3>1. ends = <<>> BY <1>6, <2>1, SeqFacts
      <3> QED BY <2>1, <3>1 DEF EndOf
    <2>2. CASE m # 0
      <3>1. /\ ends # <<>> /\ Len(ends) = m /\ m + 1 # 1 /\ m + 1 - 1 = m
            /\ ends'[m] = ends[m]
        BY <1>5, <1>6, <2>2, SeqFacts
      <3> QED BY <3>1 DEF EndOf
    <2> QED BY <2>1, <2>2
  <1>9. (\A k \in 1 .. Len(ix'.off) :
           \E j \in 1 .. m + 1 : At(j) = ix'.off[k].c /\ out'[j].lo = ix'.off[k].u)
         => IndexPointsAtChunks'
    <2>1. DOMAIN ix'.off = 1 .. Len(ix'.off) BY <1>4
    <2> QED BY <1>5, <2>1 DEF IndexPointsAtChunks, StartOf
  <1> HIDE DEF At
  <1> HIDE DEF m
  <1> DEFINE e == Pair(written, DataEnd(out))
  <1>10. e.c = written /\ e.u = DataEnd(out) BY DEF Pair
  <1> HIDE DEF e
  <1>11. err' \notin {"none", "closed"} => IndexPointsAtChunks'
    BY DEF IndexPointsAtChunks
  <1>12. IndexPointsAtChunks'
    <2> SUFFICES ASSUME err' \in {"none", "closed"}, NEW k \in 1 .. Len(ix'.off)
                 PROVE  \E j \in 1 .. m + 1 : At(j) = ix'.off[k].c /\ out'[j].lo = ix'.off[k].u
      BY <1>9, <1>11
    <2>1. ASSUME NEW i \in 1 .. Len(ix.off), ix'.off[k] = ix.off[i]
          PROVE  \E j \in 1 .. m + 1 : At(j) = ix'.off[k].c /\ out'[j].lo = ix'.off[k].u
      <3>1. i \in DOMAIN ix.off BY <1>4
      <3>2. \/ \E j \in 1 .. m : StartOf(j) = ix.off[i].c /\ out[j].lo = ix.off[i].u
            \/ torn /\ ix.off[i].c = EndOf(ends) /\ ix.off[i].u = DataEnd(out)
        BY <1>5, <3>1 DEF IndexInv, IndexPointsAtChunks
      <3>3. m + 1 \in 1 .. m + 1 /\ \A j \in 1 .. m : j \in 1 .. m + 1 BY <1>5
      <3>4. CASE \E j \in 1 .. m : StartOf(j) = ix.off[i].c /\ out[j].lo = ix.off[i].u
        <4>1. PICK j \in 1 .. m : StartOf(j) = ix.off[i].c /\ out[j].lo = ix.off[i].u BY <3>4
        <4>2. j \in 1 .. m + 1 /\ At(j) = ix'.off[k].c /\ out'[j] = out[j]
          BY <1>5, <1>7, <2>1, <3>3, <4>1
        <4> QED BY <2>1, <4>1, <4>2
      <3>5. CASE torn /\ ix.off[i].c = EndOf(ends) /\ ix.off[i].u = DataEnd(out)
        <4>1. At(m + 1) = ix'.off[k].c /\ out'[m + 1].lo = ix'.off[k].u
          BY <1>5, <1>8, <2>1, <3>5
        <4> QED BY <3>3, <4>1
      <3> QED BY <3>2, <3>4, <3>5
    <2>2. CASE ix' = ix BY <2>1, <2>2
    <2>3. CASE ix' # ix
      <3>1. written = EndOf(ends) BY <2>3
      <3>2. CASE ix'.off[k] = e
        <4>1. m + 1 \in 1 .. m + 1 BY <1>5
        <4>2. At(m + 1) = ix'.off[k].c /\ out'[m + 1].lo = ix'.off[k].u
          BY <1>5, <1>8, <1>10, <3>1, <3>2
        <4> QED BY <4>1, <4>2
      <3>3. CASE \E j \in 1 .. Len(ix.off) : ix'.off[k] = ix.off[j] BY <2>1, <3>3
      <3> QED BY <3>2, <3>3 DEF OneAdded, e
    <2> QED BY <2>2, <2>3
  <1> QED BY <1>3, <1>12 DEF IndexInv

\* Nothing recorded is no more than one entry.
LEMMA NoneAdded ==
  ASSUME IndexInv, ix' = ix, NEW e
  PROVE  OneAdded(ix, e, ix')
  BY DEF IndexInv, OneAdded

\* The calling goroutine writes only when nothing is on its way: the underlying
\* writer has what was sent.
LEMMA CallerWrites ==
  ASSUME OrderInv, StartInv, pc \in {"sync", "raw", "userdata"} \/ (pc = "user" /\ Concurrency = 1)
  PROVE  Live /\ DataEnd(out) = Sent /\ DataEnd(out) \in Nat
  <1>1. pc \in {"sync", "raw", "userdata"} => chan = <<>> /\ ~Busy BY DEF OrderInv, Alone
  <1>2. pc = "user" /\ Concurrency = 1 => chan = <<>> /\ ~Busy
    BY DEF OrderInv, Alone, Busy
  <1>3. Live BY DEF StartInv, OrderInv, CallerOrder, Ending, Alone
  <1>4. DataEnd(out) \in Nat BY InvFacts, Places
  <1> QED BY <1>1, <1>2, <1>3, <1>4, NothingQueued

\* writeSync and AddUserChunk complete a chunk whose index entry, if it has
\* one, is there already.
LEMMA IndexMarks ==
  ASSUME OrderInv, CountInv, StartInv, IndexInv,
         SyncHeader \/ (UserHeader /\ Concurrency = 1) \/ UserData \/ SyncRaw
  PROVE  IndexInv'
  <1> DEFINE n == Min({BlockSize, Size(wp)})
             hi == IF pc = "raw" THEN wp.lo + n ELSE DataEnd(out)
  <1>1. /\ pc \in {"sync", "raw", "userdata"} \/ (pc = "user" /\ Concurrency = 1)
        /\ ix' = ix /\ err' = err
    BY DEF SyncHeader, UserHeader, UserData, SyncRaw
  <1>2. Live /\ DataEnd(out) = Sent /\ DataEnd(out) \in Nat BY <1>1, CallerWrites
  <1>3. written \in Nat BY DEF CountInv
  <1>4. written' \in Nat /\ written' >= written
    <2>1. written' = written + SizeOf("header") \/ written' = written + 1
      BY DEF SyncHeader, UserHeader, UserData, SyncRaw
    <2> QED BY <1>3, <2>1 DEF SizeOf
  <1>5. OneAdded(ix, Pair(written, DataEnd(out)), ix') BY <1>1, NoneAdded
  <1>6. pc # "raw" => DataEnd(out) = uncomp BY <1>2 DEF Sent
  <1>7. pc = "raw" => DataEnd(out) = wp.lo /\ wp.lo + n = uncomp
    BY <1>2 DEF Sent, OrderInv, CallerOrder
  <1>8. hi \in Nat /\ DataEnd(out) <= hi
    <2>1. CASE pc = "raw"
      <3>1. Size(wp) > 0 BY <2>1 DEF OrderInv, CallerOrder, Size, TypeOK, Spans
      <3>2. n \in Nat /\ wp.lo \in Nat /\ wp.lo + n \in Nat BY <3>1, InvFacts, BlockCut
      <3> HIDE DEF n
      <3> QED BY <1>7, <2>1, <3>2
    <2>2. CASE pc # "raw" BY <1>2, <2>2
    <2> QED BY <2>1, <2>2
  <1>9. \E kind \in {"header", "user", "raw"} : Emit(kind, DataEnd(out), hi, SizeOf(kind))
    <2>1. CASE SyncHeader BY <1>6, <2>1 DEF SyncHeader
    <2>2. CASE UserHeader /\ Concurrency = 1 BY <1>6, <2>2 DEF UserHeader
    <2>3. CASE UserData BY <1>6, <2>3 DEF UserData
    <2>4. CASE SyncRaw BY <1>7, <2>4 DEF SyncRaw
    <2> QED BY <2>1, <2>2, <2>3, <2>4
  <1>10. \A kind \in {"header", "user", "raw"} : kind \in Kinds /\ SizeOf(kind) \in Nat
    BY DEF Kinds, SizeOf
  <1> HIDE DEF hi
  <1> QED BY <1>1, <1>4, <1>5, <1>8, <1>9, <1>10, IndexEmit

\* writeSync records the block it writes, complete or its header first.
LEMMA IndexSyncBlock ==
  ASSUME OrderInv, CountInv, StartInv, IndexInv, NEW kind \in {"comp", "raw"}, SyncBlock(kind)
  PROVE  IndexInv'
  <1> DEFINE n == Min({BlockSize, Size(wp)})
  <1>1. /\ pc = "sync" /\ Size(wp) > 0 /\ err' = err
        /\ Record(written, uncomp) /\ written' = written + 1
    BY DEF SyncBlock
  <1>2. Live /\ DataEnd(out) = uncomp /\ DataEnd(out) \in Nat BY <1>1, CallerWrites DEF Sent
  <1>3. DataEnd(out) = wp.lo BY <1>1, <1>2 DEF OrderInv, CallerOrder, Sending, Sent
  <1>4. /\ written \in Nat /\ written' \in Nat /\ written' >= written /\ ends \in Seq(Nat)
    BY <1>1 DEF CountInv
  <1>5. written = EndOf(ends)
    <2>1. EndOf(ends) \in Nat BY <1>4, SeqFacts DEF EndOf
    <2>2. Ahead = 0 BY <1>1 DEF Ahead
    <2> QED BY <1>2, <2>1, <2>2 DEF CountInv
  <1>6. OneAdded(ix, Pair(written, DataEnd(out)), ix') BY <1>1, <1>2, RecordAdds
  <1>7. n \in Nat /\ wp.lo + n \in Nat /\ wp.lo <= wp.lo + n
    BY <1>1, <1>2, <1>3, InvFacts, BlockCut
  <1>8. CASE kind = "comp"
    <2>1. Emit("comp", wp.lo, wp.lo + n, SizeOf("comp")) BY <1>8 DEF SyncBlock
    <2>2. "comp" \in Kinds /\ SizeOf("comp") \in Nat BY DEF Kinds, SizeOf
    <2> HIDE DEF n
    <2> QED BY <1>1, <1>2, <1>3, <1>4, <1>5, <1>6, <1>7, <2>1, <2>2, IndexEmit
  <1>9. CASE kind = "raw"
    <2>1. torn' /\ UNCHANGED <<out, ends>> BY <1>9 DEF SyncBlock
    <2> QED BY <1>1, <1>2, <1>4, <1>5, <1>6, <2>1, IndexPiece
  <1> QED BY <1>8, <1>9

\* AddUserChunk without a goroutine records the chunk before its header.
LEMMA IndexUser ==
  ASSUME OrderInv, CountInv, StartInv, IndexInv, UserSync \/ UserFail
  PROVE  IndexInv'
  <1>1. /\ pc = "userdata" \/ (pc = "user" /\ Concurrency = 1)
        /\ UNCHANGED <<out, ends>> /\ written' \in {written, written + 1}
        /\ ix' = ix \/ Record(written, uncomp)
        /\ (UserSync /\ pc = "user" /\ err' = err /\ torn') \/ err' = "io"
    BY DEF UserSync, UserFail
  <1>2. Live /\ DataEnd(out) = uncomp /\ DataEnd(out) \in Nat
    BY <1>1, CallerWrites DEF Sent
  <1>3. written \in Nat /\ written' \in Nat /\ written' >= written /\ ends \in Seq(Nat)
    BY <1>1 DEF CountInv
  <1>4. OneAdded(ix, Pair(written, DataEnd(out)), ix')
    BY <1>1, <1>2, RecordAdds, NoneAdded
  <1>5. pc = "user" => written = EndOf(ends)
    <2>1. EndOf(ends) \in Nat BY <1>3, SeqFacts DEF EndOf
    <2>2. pc = "user" => Ahead = 0 BY DEF Ahead
    <2> QED BY <1>2, <2>1, <2>2 DEF CountInv
  <1> QED BY <1>1, <1>2, <1>3, <1>4, <1>5, IndexPiece

\* The writer goroutine records a block, a user chunk or the header when its
\* write has returned, with the place it began.
LEMMA IndexWriteOut ==
  ASSUME OrderInv, CloseInv, CountInv, StartInv, IndexInv, WriteOut
  PROVE  IndexInv'
  <1>1. /\ wpc = "write" /\ Busy /\ err \in {"none", "src"} /\ Record(written, cur.start)
    BY DEF WriteOut, Busy, CloseInv
  <1>2. cur.start = DataEnd(out) /\ cur.lo = DataEnd(out) /\ cur.lo <= cur.hi
    BY <1>1 DEF StartInv, OrderInv, QueueOrder
  <1>3. cur.kind \in Kinds /\ cur.lo \in Nat /\ cur.hi \in Nat
    <2>1. cur.kind # "none" /\ cur.kind # "data" /\ cur.kind # "flush"
      BY <1>1 DEF OrderInv, EntryShape
    <2> QED BY <2>1, InvFacts DEF Entries
  <1>4. written \in Nat /\ ends \in Seq(Nat) /\ SizeOf(cur.kind) \in Nat BY <1>3, Sizes DEF CountInv
  <1>5. OneAdded(ix, Pair(written, DataEnd(out)), ix') BY <1>1, <1>2, <1>3, RecordAdds
  <1>6. CASE Emit(cur.kind, cur.lo, cur.hi, SizeOf(cur.kind)) /\ err' = err
             /\ written' = written + SizeOf(cur.kind)
    <2>1. EndOf(ends) \in Nat BY <1>4, SeqFacts DEF EndOf
    <2>2. pc \notin {"raw", "userdata", "index"} BY <1>1 DEF OrderInv, Alone
    <2>3. Live => written = EndOf(ends) BY <1>4, <2>1, <2>2 DEF CountInv, Ahead
    <2>4. err' \in {"none", "closed"} => Live BY <1>1, <1>6 DEF Live
    <2>5. written' \in Nat /\ written' >= written BY <1>4, <1>6
    <2> QED BY <1>1, <1>2, <1>3, <1>4, <1>5, <1>6, <2>3, <2>4, <2>5, IndexEmit
  <1>7. CASE SetErr("io") /\ UNCHANGED <<out, ends, written>>
    <2>1. err' \notin {"none", "closed"} BY <1>1, <1>7 DEF SetErr
    <2> QED BY <1>4, <1>5, <1>7, <2>1, IndexPiece
  <1> QED BY <1>6, <1>7 DEF WriteOut

\* The EOF marker is not in the index.
LEMMA IndexWriteEOF ==
  ASSUME OrderInv, CountInv, IndexInv, WriteEOF
  PROVE  IndexInv'
  <1>1. /\ pc = "eof" /\ Live /\ ix' = ix /\ written' = written + SizeOf("eof")
    BY DEF WriteEOF, Live
  <1>2. written \in Nat /\ written' \in Nat /\ written' >= written
    BY <1>1 DEF CountInv, SizeOf
  <1>3. OneAdded(ix, Pair(written, DataEnd(out)), ix') BY <1>1, NoneAdded
  <1>4. CASE Emit("eof", uncomp, uncomp, SizeOf("eof")) /\ err' = err
    <2>1. chan = <<>> /\ ~Busy BY <1>1 DEF OrderInv, Alone, Busy
    <2>2. DataEnd(out) = uncomp /\ uncomp \in Nat BY <1>1, <2>1, NothingQueued, InvFacts DEF Sent
    <2>3. "eof" \in Kinds /\ SizeOf("eof") \in Nat BY DEF Kinds, SizeOf
    <2> QED BY <1>1, <1>2, <1>3, <1>4, <2>2, <2>3, IndexEmit
  <1>5. CASE err' = "io" /\ UNCHANGED <<out, ends>>
    BY <1>1, <1>2, <1>5, IndexFrame
  <1> QED BY <1>4, <1>5 DEF WriteEOF

\* Thinned for the end of the stream, the index still points where it did.
LEMMA IndexWritePadding ==
  ASSUME OrderInv, CountInv, IndexInv, WritePadding
  PROVE  IndexInv'
  <1> DEFINE stored  == IF WantIndex THEN Reduce(ix) ELSE ix
             counted == Counted(stored)
             add     == IF Pad > 1 THEN CalcSkippableFrame(counted, Pad) ELSE 0
  <1>1. pc = "pad" /\ Live /\ ix' = stored BY DEF WritePadding, OrderInv, Ending
  <1>2. written \in Nat /\ uncomp \in Nat /\ DataEnd(out) = uncomp
    BY <1>1, InvFacts DEF CountInv, OrderInv, Ending
  <1>3. stored \in Indexes /\ Among(stored.off, ix.off)
    <2>1. ix \in Indexes /\ IndexAssumption BY IndexAssumption DEF IndexInv
    <2>2. Among(ix.off, ix.off) BY DEF Among
    <2> QED BY <2>1, <2>2, ReduceAmong
  <1>4. IndexSize(stored) \in Nat
    <2>1. stored.off \in Seq(Pairs) BY <1>3 DEF Indexes
    <2> QED BY <2>1, PairsAt DEF IndexSize
  <1>5. /\ \/ /\ IF add = 0 THEN UNCHANGED <<out, ends>> ELSE Emit("pad", uncomp, uncomp, add)
              /\ written' = counted + add /\ err' = err /\ torn' = torn
           \/ err' \in {"io", "rand"} /\ written' = counted /\ UNCHANGED <<out, ends>>
    BY DEF WritePadding
  <1> HIDE DEF stored
  <1>6. counted \in Nat /\ counted >= written
    BY <1>2, <1>4, WriterAssumption DEF Counted
  <1> HIDE DEF counted
  <1>7. add \in Nat
    <2>1. CASE Pad > 1
      <3>1. Pad \in Nat \ {0} BY <2>1, WriterAssumption
      <3> QED BY <2>1, <3>1, <1>6, PaddedLength
    <2>2. CASE ~(Pad > 1) BY <2>2
    <2> QED BY <2>1, <2>2
  <1> HIDE DEF add
  <1>8. written' \in Nat /\ written' >= written BY <1>2, <1>5, <1>6, <1>7
  <1>9. CASE UNCHANGED <<out, ends>>
    <2>1. err' \in {"none", "closed"} => torn' = torn BY <1>5, <1>9
    <2> QED BY <1>1, <1>3, <1>8, <1>9, <2>1, IndexThin DEF Live
  <1>10. CASE Emit("pad", uncomp, uncomp, add) /\ err' = err
    <2>1. OneAdded(ix, Pair(written, DataEnd(out)), ix') BY <1>1, <1>3 DEF OneAdded, Among
    <2>2. ends \in Seq(Nat) BY DEF CountInv
    <2>3. EndOf(ends) \in Nat /\ Ahead = 0 BY <1>1, <2>2, SeqFacts DEF EndOf, Ahead
    <2>4. written = EndOf(ends) BY <1>1, <2>3 DEF CountInv
    <2>5. "pad" \in Kinds BY DEF Kinds
    <2> QED BY <1>1, <1>2, <1>7, <1>8, <1>10, <2>1, <2>4, <2>5, IndexEmit DEF Live
  <1> QED BY <1>5, <1>9, <1>10

\* The index chunk is not in the index.
LEMMA IndexWriteIndex ==
  ASSUME OrderInv, CloseInv, CountInv, IndexInv, WriteIndex
  PROVE  IndexInv'
  <1>1. pc = "index" /\ written' = written /\ ix' = ix /\ err # "closed"
    BY DEF WriteIndex, CloseInv
  <1>2. /\ written \in Nat /\ uncomp \in Nat /\ DataEnd(out) = uncomp
    BY <1>1, InvFacts DEF CountInv, OrderInv, Ending
  <1>3. IndexSize(ix) \in Nat
    <2>1. ix.off \in Seq(Pairs) BY DEF IndexInv, Indexes
    <2> QED BY <2>1, PairsAt DEF IndexSize
  <1>4. CASE SetErr("closed") /\ torn' = torn
    <2>1. err' \in {"none", "closed"} => err \in {"none", "closed"} BY <1>4 DEF SetErr
    <2>2. CASE UNCHANGED <<out, ends>> BY <1>1, <1>2, <1>4, <2>1, <2>2, IndexFrame
    <2>3. CASE Emit("index", uncomp, uncomp, IndexSize(ix))
      <3>1. OneAdded(ix, Pair(written, DataEnd(out)), ix') BY <1>1, NoneAdded
      <3>2. "index" \in Kinds BY DEF Kinds
      <3> QED BY <1>1, <1>2, <1>3, <2>1, <2>3, <3>1, <3>2, IndexEmit
    <2> QED BY <1>4, <2>2, <2>3 DEF WriteIndex
  <1>5. CASE SetErr("io") /\ UNCHANGED <<out, ends>>
    <2>1. err' \notin {"none", "closed"} BY <1>1, <1>5 DEF SetErr
    <2> QED BY <1>1, <1>2, <1>5, <2>1, IndexFrame
  <1> QED BY <1>4, <1>5 DEF WriteIndex

\* Reset empties the index with the stream.
LEMMA IndexReset == ASSUME ResetDone PROVE IndexInv'
  <1>1. ix' = EmptyIndex(EstBlock) BY DEF ResetDone, Fresh
  <1>2. ix'.est = EstBlock /\ ix'.off = <<>> /\ ix' \in Indexes
    BY <1>1, WriterAssumption DEF EmptyIndex, Indexes
  <1> QED BY <1>2 DEF IndexInv, IndexPointsAtChunks

\* Every step keeps where the entries point.
LEMMA IndexStep ==
  ASSUME OrderInv, CloseInv, CountInv, StartInv, IndexInv, Next
  PROVE  IndexInv'
  <1>0. written \in Nat /\ written >= written BY DEF CountInv
  <1> USE InvScalars, <1>0, SMTT(20)
      DEF Entered, callVars, inputVars, queueVars, sinkVars
  <1>1. ASSUME NEW n \in 0 .. MaxUnits, CallWrite(n) \/ CallEncodeBuffer(n) PROVE IndexInv'
    BY <1>1, IndexFrame DEF CallWrite, CallEncodeBuffer
  <1>2. CASE CallReadFrom \/ CallAddUserChunk \/ CallReset
    BY <1>2, IndexFrame DEF CallReadFrom, CallAddUserChunk, CallReset
  <1>3. ASSUME NEW m \in {"Flush", "AsyncFlush"}, CallFlush(m) PROVE IndexInv'
    BY <1>3, IndexFrame DEF CallFlush
  <1>4. ASSUME NEW m \in {"Close", "CloseIndex"}, CallClose(m) PROVE IndexInv'
    BY <1>4, IndexFrame DEF CallClose
  <1>5. CASE ResetDone BY <1>5, IndexReset
  <1>6. CASE LoopDirect \/ LoopFill \/ LoopBuffer \/ Abandon
    BY <1>6, IndexFrame DEF LoopDirect, LoopFill, LoopBuffer, Abandon
  <1>7. CASE SendHeader \/ SendBlock \/ EncodeStart
    BY <1>7, IndexFrame DEF SendHeader, SendBlock, EncodeStart
  <1>8. CASE SendDone \/ SyncDone BY <1>8, IndexFrame DEF SendDone, SyncDone
  <1>9. CASE SyncHeader \/ UserData \/ SyncRaw BY <1>9, IndexMarks
  <1>10. ASSUME NEW kind \in {"comp", "raw"}, SyncBlock(kind) PROVE IndexInv'
    BY <1>10, IndexSyncBlock
  <1>11. CASE SyncFail BY <1>11, IndexFrame DEF SyncFail
  <1>12. ASSUME NEW n \in 1 .. BlockSize, ReadBlock(n) PROVE IndexInv'
    BY <1>12, IndexFrame DEF ReadBlock
  <1>13. CASE ReadEnd BY <1>13, IndexFrame DEF ReadEnd
  <1>14. CASE UserHeader
    <2>1. CASE Concurrency = 1 BY <1>14, <2>1, IndexMarks
    <2>2. CASE Concurrency # 1 BY <1>14, <2>2, IndexFrame DEF UserHeader
    <2> QED BY <2>1, <2>2
  <1>15. CASE UserQueue BY <1>15, IndexFrame DEF UserQueue
  <1>16. CASE UserSync \/ UserFail BY <1>16, IndexUser
  <1>17. CASE FlushQueue BY <1>17, IndexFrame DEF FlushQueue
  <1>18. CASE CloseOutput \/ CloseJoin \/ CloseFailed
    BY <1>18, IndexFrame DEF CloseOutput, CloseJoin, CloseFailed
  <1>19. CASE WriteEOF BY <1>19, IndexWriteEOF
  <1>20. CASE WritePadding BY <1>20, IndexWritePadding
  <1>21. CASE WriteIndex BY <1>21, IndexWriteIndex
  <1>22. CASE Compressing BY <1>22, IndexFrame DEF Compressing, Compress
  <1>23. CASE Take \/ Hand \/ Skip \/ Begin \/ Exit
    BY <1>23, IndexFrame DEF Take, Hand, Skip, Begin, Exit
  <1>24. CASE WriteOut BY <1>24, IndexWriteOut
  <1> QED
    BY <1>1, <1>2, <1>3, <1>4, <1>5, <1>6, <1>7, <1>8, <1>9, <1>10, <1>11, <1>12, <1>13,
       <1>14, <1>15, <1>16, <1>17, <1>18, <1>19, <1>20, <1>21, <1>22, <1>23, <1>24
    DEF Next, Calls, Running, Draining

-----------------------------------------------------------------------------
(* The whole invariant and what follows from it *)

\* A new Writer satisfies the invariant.
LEMMA InitWriter == Init => WriterInv
  <1> SUFFICES ASSUME Init PROVE WriterInv
    OBVIOUS
  <1>1. OrderInv BY InitOrder
  <1>2. /\ pc = "idle" /\ call = "none" /\ hdr = FALSE /\ err = "none"
        /\ chan = <<>> /\ Len(chan) = 0 /\ out = <<>> /\ Len(out) = 0 /\ torn = FALSE
        /\ wpc \in {"range", "exited"} /\ ~Busy
    BY WriterAssumption DEF Init, Busy
  <1>3. WellFormed BY <1>2 DEF WellFormed, HeaderFirst, BlocksFit
  <1>4. EntriesFit /\ HeaderAhead /\ HeaderMarked BY <1>2 DEF EntriesFit, HeaderAhead, HeaderMarked
  <1>5. NoEOF BY <1>2 DEF NoEOF
  <1>6. CloseInv /\ FlushInv BY <1>2, <1>5 DEF CloseInv, FlushInv
  <1>7. written = 0 /\ ends = <<>> /\ ix = EmptyIndex(EstBlock) BY DEF Init
  <1>8. CountInv BY <1>2, <1>7 DEF CountInv, ClosedIsPadded, Ahead, EndOf
  <1>9. StartInv BY <1>2 DEF StartInv
  <1>10. IndexInv
    <2>1. ix.est = EstBlock /\ ix.off = <<>> /\ ix \in Indexes
      BY <1>7, WriterAssumption DEF EmptyIndex, Indexes
    <2> QED BY <2>1 DEF IndexInv, IndexPointsAtChunks
  <1> QED BY <1>1, <1>3, <1>4, <1>6, <1>8, <1>9, <1>10 DEF WriterInv, FormInv

\* Every step keeps it.
LEMMA NextWriter == WriterInv /\ [Next]_vars => WriterInv'
  <1> SUFFICES ASSUME WriterInv, [Next]_vars PROVE WriterInv'
    OBVIOUS
  <1> USE DEF WriterInv
  <1>1. OrderInv' BY NextOrder, StutterOrder
  <1>2. CASE Next
    <2>1. WellFormed' BY <1>2, FormStep
    <2>2. EntriesFit' BY <1>2, FitStep DEF FormInv
    <2>3. HeaderAhead' /\ HeaderMarked' BY <1>2, HeadStep
    <2>4. CloseInv' BY <1>2, CloseStep DEF FormInv
    <2>5. FlushInv' BY <1>2, FlushInvStep
    <2>6. CountInv' BY <1>2, CountStep
    <2>7. StartInv' BY <1>2, StartStep
    <2>8. IndexInv' BY <1>2, IndexStep
    <2> QED BY <1>1, <2>1, <2>2, <2>3, <2>4, <2>5, <2>6, <2>7, <2>8 DEF FormInv
  <1>3. CASE UNCHANGED vars
    <2> USE <1>3 DEF vars, callVars, inputVars, queueVars, sinkVars, boundVars
    <2>1. WellFormed' BY FormFrame
    <2>2. EntriesFit' BY FitFrame DEF FormInv
    <2>3. HeaderAhead' /\ HeaderMarked' BY DEF FormInv, HeaderAhead, HeaderMarked, Busy, Live
    <2>4. CloseInv' BY DEF CloseInv, NoEOF, Live
    <2>5. FlushInv' BY DEF FlushInv, Sending
    <2>6. CountInv' BY CountFrame DEF Ahead, Live
    <2>7. StartInv' BY StartFrame DEF StartInv, Live
    <2>8. written \in Nat /\ written >= written BY DEF CountInv
    <2>9. IndexInv' BY <2>8, IndexFrame
    <2> QED BY <1>1, <2>1, <2>2, <2>3, <2>4, <2>5, <2>6, <2>7, <2>9 DEF FormInv
  <1> QED BY <1>2, <1>3

\* Where the data, the header and the EOF marker are, whatever the writer
\* goroutine and the caller do, through Reset, Flush, Close and failed writes
\* (writer.go): OrderInv with the framing, the end and Flush beside it.
THEOREM WriterKeeps == Spec => []WriterInv
  BY InitWriter, NextWriter, PTL DEF Spec

\* Every chunk of a stream fits its header: the stream identifier comes first
\* and once, and each block is between one byte and the block size, from
\* whichever of the four ways into the Writer it came (writer.go:447, 573, 1038).
THEOREM WriterWellFormed == Spec => []WellFormed
  <1>1. WriterInv => WellFormed BY DEF WriterInv, FormInv
  <1> QED BY <1>1, WriterKeeps, PTL

\* A Close or CloseIndex that returned without an error has delivered
\* everything, with one EOF marker that has the total, and has ended the
\* writer goroutine (writer.go:784-845).
THEOREM WriterClosedIsComplete == Spec => []ClosedIsComplete
  <1>1. WriterInv => ClosedIsComplete
    <2> SUFFICES ASSUME WriterInv, err = "closed" PROVE ClosedIsComplete
      BY DEF ClosedIsComplete
    <2>1. EOFIn(out, fed) /\ ~torn BY DEF WriterInv, CloseInv
    <2>2. DataEnd(out) = fed /\ ~open /\ wpc = "exited"
      BY DEF WriterInv, OrderInv, Ending, Alone
    <2> QED BY <2>1, <2>2 DEF ClosedIsComplete, EOFIn
  <1> QED BY <1>1, WriterKeeps, PTL

\* Flush, which waits for an empty entry queued behind everything, returns
\* without an error only when all data handed over before are written
\* (writer.go:734-756).
THEOREM WriterFlushIsBarrier == Spec => FlushIsBarrier
  <1>1. WriterInv /\ [Next]_vars =>
          [(call = "Flush" /\ pc' = "idle" /\ err' = "none") => DataEnd(out') = fed /\ chan' = <<>>]_vars
    BY FlushStep DEF WriterInv
  <1> QED BY <1>1, WriterKeeps, PTL DEF Spec, FlushIsBarrier

\* Between calls and with nothing under way w.written and w.uncompWritten are
\* the length of the stream and of its data, and a closed stream is a multiple
\* of the padding long (writer.go:784-862): the two are counted by the calling
\* goroutine or by the writer goroutine, in pieces, and the index before it is
\* written.
THEOREM WriterCountersExact == Spec => []CountersExact
  <1>1. WriterInv => WrittenIsExact
    <2> SUFFICES ASSUME WriterInv, pc = "idle", err = "none", chan = <<>>,
                        wpc \in {"range", "exited"}
                 PROVE  written = EndOf(ends) /\ uncomp = DataEnd(out)
      BY DEF WrittenIsExact
    <2>1. OrderInv /\ CountInv /\ Live /\ ~Busy BY DEF WriterInv, Live, Busy
    <2>2. uncomp = DataEnd(out) BY <2>1, NothingQueued DEF Sent
    <2>3. ends \in Seq(Nat) BY <2>1 DEF CountInv
    <2>4. EndOf(ends) \in Nat /\ Ahead = 0 BY <2>3, SeqFacts DEF EndOf, Ahead
    <2> QED BY <2>1, <2>2, <2>4 DEF CountInv
  <1>2. WriterInv => ClosedIsPadded BY DEF WriterInv, CountInv
  <1> QED BY <1>1, <1>2, WriterKeeps, PTL DEF CountersExact

\* index.add never refuses an offset, whichever goroutine records it, and while
\* nothing has failed every entry that thinning has left is the start of a
\* chunk with the number of units before it, or the place where one is being
\* written (writer.go:151-180, 508-545, 630-663; index.go: add, reduceLight,
\* reduce).
THEOREM WriterIndexInStep == Spec => []IndexInStep
  <1>1. WriterInv => AddNeverRefused
    <2> SUFFICES ASSUME WriterInv PROVE AddNeverRefused
      OBVIOUS
    <2>1. OrderInv /\ CountInv /\ StartInv /\ IndexInv BY DEF WriterInv
    <2>2. ~AddFails(ix, written, DataEnd(out))
      <3>1. ix.off \in Seq(Pairs) BY <2>1 DEF IndexInv, Indexes
      <3>2. SUFFICES ASSUME ix.off # <<>>
                     PROVE  ~(Last(ix.off).u > DataEnd(out) \/ Last(ix.off).c > written)
        BY DEF AddFails
      <3>3. Last(ix.off) = ix.off[Len(ix.off)] /\ Len(ix.off) \in 1 .. Len(ix.off)
        BY <3>1, <3>2, PairsAt DEF Last
      <3>4. /\ ix.off[Len(ix.off)].c <= written /\ ix.off[Len(ix.off)].u <= DataEnd(out)
            /\ ix.off[Len(ix.off)].c \in Nat /\ ix.off[Len(ix.off)].u \in Nat
        BY <2>1, <3>1, <3>3, PairsAt DEF IndexInv
      <3>5. written \in Nat /\ DataEnd(out) \in Nat BY <2>1, InvFacts, Places DEF CountInv
      <3> QED BY <3>3, <3>4, <3>5
    <2>3. wpc = "write" => cur.start = DataEnd(out)
      BY <2>1 DEF StartInv, OrderInv, QueueOrder, Busy
    <2>4. pc = "sync" \/ (pc = "user" /\ Concurrency = 1) => uncomp = DataEnd(out)
      BY <2>1, CallerWrites DEF Sent
    <2> QED BY <2>2, <2>3, <2>4 DEF AddNeverRefused
  <1>2. WriterInv => IndexPointsAtChunks BY DEF WriterInv, IndexInv
  <1> QED BY <1>1, <1>2, WriterKeeps, PTL DEF IndexInStep

\* The Writer, with its buffer, channel, goroutines and failing writes,
\* implements OrderedSink: data are accepted and delivered in order, and it is
\* closed only when all of them are (writer.go:151-180, 508-545, 784-845).
THEOREM WriterImplementsSink == Spec => ImplementsOrderedSink
  <1>1. Init => Sink!Init BY DEF Init, Sink!Init, Status, DataEnd
  <1>2. WriterInv /\ [Next]_vars => [Sink!Next]_Sink!vars
    <2> SUFFICES ASSUME WriterInv, [Next]_vars PROVE [Sink!Next]_Sink!vars
      OBVIOUS
    <2>1. CASE Next BY <2>1, SinkStep DEF WriterInv
    <2>2. CASE UNCHANGED vars BY <2>2, SinkStutter DEF vars, sinkVars, boundVars
    <2> QED BY <2>1, <2>2
  <1> QED BY <1>1, <1>2, WriterKeeps, PTL DEF Spec, ImplementsOrderedSink, Sink!Spec
=============================================================================
