------------------------- MODULE WriterBuffersProofs -------------------------
(***************************************************************************)
(* OneOwner and WrittenAsGiven for every number of goroutines, buffers,     *)
(* cells of the caller's, blocks and Resets.                               *)
(***************************************************************************)
EXTENDS WriterBuffers, SequenceTheorems, FiniteSetTheorems, WellFoundedInduction, TLAPS

-----------------------------------------------------------------------------
(* The inductive invariant.                                                *)

Memory  == Bufs \cup Cells \cup {Ibuf}
Content == [kind : {"raw", "chunk"}, crc : Nat, body : Nat]
Steps   == {"crc", "encode", "send", "put"}
Jobs    == [n : Nat, src : Memory \cup {NoBuf}, inbuf : Bufs \cup {NoBuf},
            obuf : Bufs \cup {NoBuf}, crc : Nat, step : Steps]
Entries == [n : Nat, buf : Bufs \cup {NoBuf}]
Items   == [how : {"write", "full", "encode", "keep", "sync", "user", "eof"},
            from : Cells \cup {Ibuf, NoBuf}]

TypeOK ==
  /\ mem \in [Memory -> Content]
  /\ pool \in [Bufs -> {0, 1}]
  /\ jobs \subseteq Jobs /\ hold \in Jobs
  /\ chan \in Seq(Entries) /\ taken \in Entries
  /\ stage \in {"range", "wait", "write", "put"}
  /\ todo \in Seq(Items)
  /\ fed \in Nat /\ kept \in 0 .. fed /\ lent \subseteq Cells

\* A buffer is in one place.
Has(j, b) == b # NoBuf /\ (j.inbuf = b \/ j.obuf = b)
InChan(b) == \E i \in 1 .. Len(chan) : chan[i].buf = b
PlacesInv ==
  /\ \A j, k \in jobs : \A b \in Bufs : Has(j, b) /\ Has(k, b) => j = k
  /\ \A j \in jobs : \A b \in Bufs : Has(j, b) =>
       pool[b] = 0 /\ ~Has(hold, b) /\ taken.buf # b /\ ~InChan(b)
  /\ \A b \in Bufs : Has(hold, b) => pool[b] = 0 /\ taken.buf # b /\ ~InChan(b)
  /\ \A b \in Bufs : taken.buf = b => pool[b] = 0 /\ ~InChan(b)
  /\ \A b \in Bufs : InChan(b) => pool[b] = 0
  /\ \A i, k \in 1 .. Len(chan) : chan[i].buf = chan[k].buf /\ chan[i].buf # NoBuf => i = k

\* What a goroutine has at each of its steps.
Shape(j) ==
  /\ j.step # "put" => j.obuf # NoBuf /\ j.obuf # j.inbuf
  /\ j.step = "put" => j.inbuf # NoBuf /\ j.obuf = NoBuf
  /\ j.step \in {"crc", "encode"} =>
       IF j.inbuf = NoBuf THEN j.src \in Cells ELSE j.src = j.inbuf

\* The entry of a goroutine that has not handed its block over.
Active(n) == \E j \in jobs : j.step # "put" /\ j.n = n
Awaited(n) == \/ stage = "wait" /\ taken.n = n
              \/ \E i \in 1 .. Len(chan) : chan[i].n = n /\ chan[i].buf = NoBuf
JobsInv ==
  /\ \A j \in jobs : Shape(j) /\ j.n \in 1 .. fed
  /\ \A j \in jobs : j.step # "put" => Awaited(j.n)
  /\ \A j, k \in jobs : j.step # "put" /\ k.step # "put" /\ j.n = k.n => j = k
  /\ \A i \in 1 .. Len(chan) : chan[i].n # 0
  /\ stage = "range" <=> taken.n = 0
  /\ stage \in {"range", "wait"} <=> taken.buf = NoBuf

\* The block a goroutine is to write, unless nothing will be written any more.
Right(j) ==
  /\ j.step \in {"crc", "encode"} =>
       mem[j.src].body = j.n /\ (j.inbuf = NoBuf => j.src \in lent)
  /\ j.step = "encode" => j.crc = j.n
  /\ j.step = "send" => mem[j.obuf] = Chunk(j.n, j.n)
Holding ==
  hold # NoJob =>
    IF hold.obuf = NoBuf THEN mem[hold.inbuf] = Chunk(hold.n, hold.n) ELSE Right(hold)
Running ==
  /\ \A j \in jobs : Right(j)
  /\ \A i \in 1 .. Len(chan) : chan[i].buf # NoBuf => mem[chan[i].buf] = Chunk(chan[i].n, chan[i].n)
  /\ stage = "write" => mem[taken.buf] = Chunk(taken.n, taken.n)
DataInv == err = "none" => Holding /\ Running

\* The blocks still to be cut, the one held and the one in ibuf are units of
\* their own, that no goroutine has yet.
Unit(k) == mem[todo[k].from].body
Cut(k) == todo[k].from # NoBuf
ItemOK(k) ==
  /\ todo[k].from = Ibuf => k = 1 /\ kept # 0
  /\ Cut(k) <=> todo[k].how \in {"write", "sync", "encode", "keep"}
  /\ todo[k].how = "sync" => todo[k].from = Ibuf
  /\ todo[k].how \in {"encode", "keep"} => todo[k].from \in Cells
  /\ todo[k].how = "encode" => todo[k].from \in lent
  /\ Cut(k) => Unit(k) \in 1 .. fed /\ ~Active(Unit(k))
  /\ todo[k].from \in Cells => Unit(k) # kept
TodoInv ==
  /\ call = "none" => todo = <<>>
  /\ \A k \in 1 .. Len(todo) : ItemOK(k)
  /\ \A k, l \in 1 .. Len(todo) : Cut(k) /\ Cut(l) /\ Unit(k) = Unit(l) => k = l
  /\ kept # 0 => ~Active(kept)
  /\ kept # 0 /\ (err = "none" \/ todo # <<>>) => mem[Ibuf].body = kept
HoldInv ==
  hold # NoJob =>
    /\ todo # <<>>
    /\ hold.n \in 1 .. fed /\ ~Active(hold.n) /\ hold.step = "crc"
    /\ IF hold.obuf = NoBuf THEN hold.inbuf # NoBuf ELSE Shape(hold)
    /\ \A k \in 2 .. Len(todo) : Cut(k) => Unit(k) # hold.n
    /\ todo[1].from # Ibuf => kept # hold.n

BuffersInv ==
  TypeOK /\ PlacesInv /\ JobsInv /\ DataInv /\ TodoInv /\ HoldInv /\ WrittenAsGiven

-----------------------------------------------------------------------------
(* Facts about the parts.                                                  *)

LEMMA Places3 ==
  /\ \A b \in Bufs : b \in Memory /\ b # NoBuf /\ b # Ibuf /\ b \notin Cells
  /\ \A c \in Cells : c \in Memory /\ c # NoBuf /\ c # Ibuf /\ c \notin Bufs
  /\ Ibuf \in Memory /\ Ibuf # NoBuf /\ Ibuf \notin Bufs /\ Ibuf \notin Cells
  /\ NoBuf \notin Bufs /\ NoBuf \notin Cells
  BY BuffersAssumption DEF Memory, NoBuf, Ibuf

LEMMA Contents ==
  \A c, n \in Nat : /\ Chunk(c, n) \in Content /\ Raw(n) \in Content /\ Scribble \in Content
                    /\ Chunk(c, n).body = n /\ Raw(n).body = n
  BY DEF Chunk, Raw, Content, Scribble

LEMMA ChanEntry ==
  ASSUME TypeOK, NEW i \in 1 .. Len(chan)
  PROVE  chan[i] \in Entries /\ chan[i].n \in Nat /\ chan[i].buf \in Bufs \cup {NoBuf}
<1>1. chan[i] \in Entries
  BY DEF TypeOK
<1> QED
  BY <1>1 DEF Entries

\* No one has the buffer.
Out(b) == (\A j \in jobs : ~Has(j, b)) /\ ~Has(hold, b) /\ taken.buf # b /\ ~InChan(b)

LEMMA GettableIsOut ==
  ASSUME TypeOK, PlacesInv, NEW x, NEW b \in Gettable(x)
  PROVE  b \in Bufs /\ b # x /\ Out(b)
<1> DEFINE there == {c \in Bufs : pool[c] > 0} \ {x}
           new   == {c \in Bufs : Free(c)} \ {x}
<1>1. b \in there \/ b \in new
  BY DEF Gettable
<1>2. b \in Bufs /\ b # x
  BY <1>1
<1>3. CASE b \in there
  <2>1. pool[b] # 0
    BY <1>2, <1>3 DEF TypeOK
  <2> QED
    BY <1>2, <2>1 DEF PlacesInv, Out
<1>4. CASE b \in new
  <2>1. b \notin InUse
    BY <1>4 DEF Free
  <2> DEFINE ofJobs == UNION {Holders(j) : j \in jobs}
             ofChan == {chan[i].buf : i \in DOMAIN chan}
  <2>a. b \notin ofJobs /\ b \notin Holders(hold) /\ b \notin ofChan /\ b # taken.buf
    <3>1. InUse = ofJobs \cup Holders(hold) \cup ofChan \cup {taken.buf}
      BY DEF InUse
    <3> HIDE DEF ofJobs, ofChan
    <3> QED
      BY <2>1, <3>1
  <2>2. \A j \in jobs : ~Has(j, b)
    <3>1. \A j \in jobs : b \notin Holders(j)
      BY <2>a, Zenon
    <3> QED
      BY <3>1 DEF Holders, Has
  <2>3. ~Has(hold, b) /\ taken.buf # b
    BY <2>a DEF Holders, Has
  <2>4. DOMAIN chan = 1 .. Len(chan)
    BY LenProperties DEF TypeOK
  <2>5. ~InChan(b)
    <3>1. \A i \in DOMAIN chan : chan[i].buf # b
      BY <2>a, Zenon
    <3> QED
      BY <2>4, <3>1 DEF InChan
  <2> QED
    BY <1>2, <2>2, <2>3, <2>5 DEF Out
<1> QED
  BY <1>1, <1>3, <1>4

LEMMA WithoutIs ==
  ASSUME pool \in [Bufs -> {0, 1}], NEW bs
  PROVE  /\ Without(bs) \in [Bufs -> {0, 1}]
         /\ \A b \in Bufs : Without(bs)[b] = IF b \in bs THEN 0 ELSE pool[b]
  BY DEF Without

\* The buffers outside X, and the cells the Writer reads, are as they were.
Outside(X) == lent \subseteq lent' /\ \A b \in Memory \ X : mem'[b] = mem[b]

\* X is nobody's.
Spare(X) == \A b \in X : b \notin lent /\ (b \in Bufs => Out(b))

\* Only spare memory has changed: a goroutine's block is as it was.
LEMMA RightKept ==
  ASSUME NEW j \in Jobs, Shape(j), Right(j), NEW X, Outside(X),
         \A b \in X : b \notin lent /\ ~Has(j, b)
  PROVE  Right(j)'
<1>1. CASE j.step \in {"crc", "encode"}
  <2>1. j.src \in Memory \ X
    <3>1. CASE j.inbuf = NoBuf
      BY <1>1, <3>1, Places3 DEF Shape, Right
    <3>2. CASE j.inbuf # NoBuf
      BY <1>1, <3>2, Places3 DEF Shape, Has, Jobs, Memory
    <3> QED
      BY <3>1, <3>2
  <2>2. mem'[j.src] = mem[j.src] /\ lent \subseteq lent'
    BY <2>1 DEF Outside
  <2> QED
    BY <1>1, <2>2 DEF Right
<1>2. CASE j.step = "send"
  <2>1. j.obuf \in Memory \ X
    BY <1>2 DEF Shape, Has, Jobs, Memory
  <2> QED
    BY <1>2, <2>1 DEF Right, Outside
<1>3. CASE j.step = "put"
  BY <1>3 DEF Right
<1> QED
  BY <1>1, <1>2, <1>3 DEF Jobs, Steps

\* A user chunk and the result of a block stay as they are, too.
LEMMA ChunkKept ==
  ASSUME NEW b \in Bufs, NEW X, Outside(X), b \notin X
  PROVE  mem'[b] = mem[b]
  BY Places3 DEF Outside

-----------------------------------------------------------------------------
(* The parts that speak of nothing a step changes.                         *)

LEMMA SamePlaces ==
  ASSUME PlacesInv, UNCHANGED <<jobs, hold, chan, taken, pool>>
  PROVE  PlacesInv'
  BY DEF PlacesInv, Has, InChan

LEMMA SameJobs ==
  ASSUME TypeOK, JobsInv, UNCHANGED <<jobs, chan, taken, stage>>, fed' \in Nat, fed <= fed'
  PROVE  JobsInv'
<1>1. \A j \in jobs : Shape(j)' /\ j.n \in 1 .. fed'
  BY DEF JobsInv, Shape, TypeOK, Jobs
<1>2. \A j \in jobs : j.step # "put" => Awaited(j.n)'
  BY DEF JobsInv, Awaited
<1> QED
  BY <1>1, <1>2 DEF JobsInv

LEMMA SameRunning ==
  ASSUME TypeOK, JobsInv, Running, UNCHANGED <<jobs, chan, taken, stage>>,
         NEW X, Outside(X), Spare(X)
  PROVE  Running'
<1>1. \A b \in Bufs : ~Out(b) => b \notin X /\ mem'[b] = mem[b]
  BY Places3 DEF Spare, Outside
<1>2. ASSUME NEW j \in jobs PROVE Right(j)'
  <2>1. \A b \in X : b \notin lent /\ ~Has(j, b)
    <3> SUFFICES ASSUME NEW b \in X, Has(j, b) PROVE FALSE
      BY DEF Spare
    <3>1. b \in Bufs
      BY DEF Has, TypeOK, Jobs
    <3> QED
      BY <3>1 DEF Spare, Out
  <2> QED
    BY <2>1, RightKept DEF TypeOK, JobsInv, Running
<1>3. ASSUME NEW i \in 1 .. Len(chan), chan[i].buf # NoBuf
      PROVE  mem'[chan[i].buf] = Chunk(chan[i].n, chan[i].n)
  <2>1. chan[i].buf \in Bufs
    BY <1>3, ChanEntry
  <2>2. ~Out(chan[i].buf)
    BY DEF Out, InChan
  <2> QED
    BY <1>1, <1>3, <2>1, <2>2 DEF Running
<1>4. ASSUME stage = "write" PROVE mem'[taken.buf] = Chunk(taken.n, taken.n)
  <2>1. taken.buf \in Bufs
    BY <1>4 DEF TypeOK, Entries, JobsInv
  <2>2. ~Out(taken.buf)
    BY DEF Out
  <2> QED
    BY <1>1, <1>4, <2>1, <2>2 DEF Running
<1> QED
  BY <1>2, <1>3, <1>4 DEF Running

LEMMA SameHolding ==
  ASSUME TypeOK, HoldInv, Holding, UNCHANGED hold, NEW X, Outside(X), Spare(X)
  PROVE  Holding'
<1> SUFFICES ASSUME hold # NoJob
             PROVE  IF hold.obuf = NoBuf THEN mem'[hold.inbuf] = Chunk(hold.n, hold.n)
                    ELSE Right(hold)'
  BY DEF Holding, Right
<1>1. CASE hold.obuf = NoBuf
  <2>1. hold.inbuf \in Bufs /\ Has(hold, hold.inbuf)
    BY <1>1 DEF HoldInv, Has, TypeOK, Jobs
  <2>2. hold.inbuf \notin X
    BY <2>1 DEF Spare, Out
  <2> QED
    BY <1>1, <2>1, <2>2, ChunkKept DEF Holding
<1>2. CASE hold.obuf # NoBuf
  <2>1. \A b \in X : b \notin lent /\ ~Has(hold, b)
    <3> SUFFICES ASSUME NEW b \in X, Has(hold, b) PROVE FALSE
      BY DEF Spare
    <3>1. b \in Bufs
      BY DEF Has, TypeOK, Jobs
    <3> QED
      BY <3>1 DEF Spare, Out
  <2>2. hold \in Jobs /\ Shape(hold) /\ Right(hold)
    BY <1>2 DEF TypeOK, HoldInv, Holding
  <2>3. \A j : j = hold => Right(j)'
    BY <2>1, <2>2, RightKept
  <2> QED
    BY <1>2, <2>3 DEF Right
<1> QED
  BY <1>1, <1>2

LEMMA SameData ==
  ASSUME TypeOK, JobsInv, DataInv, HoldInv, UNCHANGED <<jobs, hold, chan, taken, stage>>,
         NEW X, Outside(X), Spare(X), err' = "none" => err = "none"
  PROVE  DataInv'
  BY SameRunning, SameHolding DEF DataInv

LEMMA SameTodo ==
  ASSUME TypeOK, TodoInv, UNCHANGED <<todo, kept>>, lent \subseteq lent', fed' \in Nat, fed <= fed',
         \A n : Active(n)' => Active(n), call' = "none" => todo = <<>>,
         err' = "none" => err = "none" /\ mem'[Ibuf] = mem[Ibuf],
         todo # <<>> => \A c \in Cells \cup {Ibuf} : mem'[c] = mem[c]
  PROVE  TodoInv'
<1>1. ASSUME NEW k \in 1 .. Len(todo), Cut(k) PROVE Unit(k)' = Unit(k)
  <2>1. todo # <<>> /\ todo[k] \in Items
    BY DEF TypeOK
  <2> QED
    BY <1>1, <2>1 DEF Unit, Cut, Items
<1>2. ASSUME NEW k \in 1 .. Len(todo) PROVE ItemOK(k)'
  <2>1. ItemOK(k) /\ todo[k] \in Items
    BY DEF TodoInv, TypeOK
  <2>2. Cut(k)' = Cut(k)
    BY DEF Cut
  <2>3. todo[k].from \in Cells => Cut(k)
    BY Places3 DEF Cut
  <2>4. Cut(k) => Unit(k)' \in 1 .. fed' /\ ~Active(Unit(k))'
    <3> SUFFICES ASSUME Cut(k) PROVE Unit(k)' \in 1 .. fed' /\ ~Active(Unit(k))'
      OBVIOUS
    <3>1. Unit(k)' = Unit(k) /\ Unit(k) \in 1 .. fed /\ ~Active(Unit(k))
      BY <1>1, <2>1 DEF ItemOK
    <3>2. \A n : n = Unit(k) => ~Active(n)'
      BY <3>1
    <3> QED
      BY <3>1, <3>2 DEF TypeOK, Active
  <2> QED
    BY <1>1, <2>1, <2>2, <2>3, <2>4 DEF ItemOK
<1>3. \A k, l \in 1 .. Len(todo) : Cut(k)' /\ Cut(l)' /\ Unit(k)' = Unit(l)' => k = l
  BY <1>1 DEF TodoInv, Cut
<1>4. kept # 0 => ~Active(kept)'
  <2>1. \A n : n = kept /\ kept # 0 => ~Active(n)'
    BY DEF TodoInv
  <2> QED
    BY <2>1 DEF Active
<1>5. kept # 0 /\ (err' = "none" \/ todo # <<>>) => mem'[Ibuf].body = kept
  BY DEF TodoInv
<1> QED
  BY <1>2, <1>3, <1>4, <1>5 DEF TodoInv

LEMMA SameHold ==
  ASSUME TypeOK, HoldInv, UNCHANGED <<hold, todo, kept>>, fed' \in Nat, fed <= fed',
         \A n : Active(n)' => Active(n),
         todo # <<>> => \A c \in Cells \cup {Ibuf} : mem'[c] = mem[c]
  PROVE  HoldInv'
<1> SUFFICES ASSUME hold # NoJob PROVE HoldInv'
  BY DEF HoldInv
<1>1. todo # <<>>
  BY DEF HoldInv
<1>2. ASSUME NEW k \in 2 .. Len(todo), Cut(k) PROVE Unit(k)' = Unit(k)
  <2>1. todo[k] \in Items
    BY DEF TypeOK
  <2> QED
    BY <1>1, <1>2, <2>1 DEF Unit, Cut, Items
<1>3. hold.n \in 1 .. fed'
  BY DEF HoldInv, TypeOK
<1>4. ~Active(hold.n)'
  <2>1. \A n : n = hold.n => ~Active(n)'
    BY DEF HoldInv
  <2> QED
    BY <2>1 DEF Active
<1>5. hold.obuf # NoBuf => Shape(hold)'
  BY DEF HoldInv, Shape
<1> QED
  BY <1>1, <1>2, <1>3, <1>4, <1>5 DEF HoldInv, Cut

LEMMA SameOut == ASSUME WrittenAsGiven, UNCHANGED out PROVE WrittenAsGiven'
  BY DEF WrittenAsGiven

-----------------------------------------------------------------------------
(* A block gets its buffers.                                               *)

LEMMA HeadIs ==
  ASSUME TypeOK, TodoInv, NEW hows, Doing(hows)
  PROVE  /\ hold = NoJob /\ call # "none" /\ todo # <<>> /\ 1 \in 1 .. Len(todo)
         /\ Head(todo) = todo[1] /\ todo[1] \in Items /\ todo[1].how \in hows /\ ItemOK(1)
<1>1. todo # <<>> /\ todo \in Seq(Items)
  BY DEF Doing, TypeOK
<1>2. 1 \in 1 .. Len(todo) /\ Head(todo) = todo[1] /\ todo[1] \in Items
  BY <1>1
<1> QED
  BY <1>1, <1>2 DEF Doing, TodoInv

LEMMA TakeStep ==
  ASSUME TypeOK, PlacesInv, JobsInv, TodoInv, hold = NoJob,
         NEW bs \in SUBSET Bufs, \A b \in bs : Out(b), pool' = Without(bs),
         hold' \in Jobs, \A b \in Bufs : Has(hold', b) => b \in bs,
         mem' \in [Memory -> Content], Outside(bs), fed' \in Nat, fed <= fed',
         UNCHANGED <<jobs, writerVars, err, kept, lent, todo, call>>
  PROVE  TypeOK' /\ PlacesInv' /\ JobsInv' /\ TodoInv' /\ (Running => Running')
<1>1. TypeOK'
  BY WithoutIs DEF TypeOK, writerVars
<1>2. PlacesInv'
  <2>1. \A b \in Bufs : pool'[b] = IF b \in bs THEN 0 ELSE pool[b]
    BY WithoutIs DEF TypeOK
  <2> QED
    BY <2>1 DEF PlacesInv, Has, InChan, Out, writerVars
<1>3. JobsInv'
  BY SameJobs DEF writerVars
<1>4. TodoInv'
  <2>1. \A c \in Cells \cup {Ibuf} : mem'[c] = mem[c]
    BY Places3 DEF Outside
  <2>2. \A n : Active(n)' => Active(n)
    BY DEF Active
  <2> QED
    BY <2>1, <2>2, SameTodo DEF TodoInv
<1>5. Running => Running'
  <2>1. Spare(bs)
    BY Places3 DEF Spare, TypeOK
  <2> QED
    BY <2>1, SameRunning DEF writerVars
<1> QED
  BY <1>1, <1>2, <1>3, <1>4, <1>5

LEMMA JobIs ==
  ASSUME NEW n \in Nat, NEW src \in Memory \cup {NoBuf}, NEW inbuf \in Bufs \cup {NoBuf},
         NEW obuf \in Bufs \cup {NoBuf}
  PROVE  LET j == Job(n, src, inbuf, obuf) IN
         /\ j \in Jobs /\ j.n = n /\ j.src = src /\ j.inbuf = inbuf /\ j.obuf = obuf
         /\ j.crc = 0 /\ j.step = "crc"
         /\ \A b \in Bufs : Has(j, b) => b \in {inbuf, obuf}
         /\ inbuf # NoBuf \/ obuf # NoBuf => j # NoJob
  BY DEF Job, Jobs, Steps, Has, NoJob

\* The next block in todo, or one just read, is not with any goroutine.
LEMMA TakeHold ==
  ASSUME TypeOK, TodoInv, JobsInv, Outside(Bufs), todo # <<>>, NEW n \in Nat,
         \/ /\ n = Unit(1) /\ Cut(1) /\ fed' = fed
         \/ /\ n = fed + 1 /\ fed' = n /\ ~Cut(1),
         hold'.n = n, hold'.step = "crc", hold'.obuf # NoBuf => Shape(hold'),
         hold'.obuf = NoBuf => hold'.inbuf # NoBuf,
         UNCHANGED <<todo, jobs, kept>>
  PROVE  HoldInv'
<1>1. 1 \in 1 .. Len(todo) /\ ItemOK(1) /\ todo[1] \in Items
  BY DEF TypeOK, TodoInv
<1>2. \A k \in 1 .. Len(todo) : Cut(k) => Unit(k)' = Unit(k) /\ Unit(k) \in 1 .. fed
  <2> SUFFICES ASSUME NEW k \in 1 .. Len(todo), Cut(k)
               PROVE  Unit(k)' = Unit(k) /\ Unit(k) \in 1 .. fed
    OBVIOUS
  <2>1. ItemOK(k) /\ todo[k] \in Items
    BY DEF TypeOK, TodoInv
  <2>2. todo[k].from \in Memory \ Bufs
    BY <2>1, Places3 DEF Cut, Items
  <2> QED
    BY <2>1, <2>2 DEF Unit, Outside, ItemOK
<1>3. n \in 1 .. fed' /\ ~Active(n)
  <2>1. CASE n = Unit(1) /\ Cut(1) /\ fed' = fed
    BY <1>1, <2>1 DEF ItemOK
  <2>2. CASE n = fed + 1 /\ fed' = n
    <3>1. \A j \in jobs : j.n # n
      BY <2>2 DEF JobsInv, TypeOK
    <3> QED
      BY <2>2, <3>1 DEF Active, TypeOK
  <2> QED
    BY <2>1, <2>2
<1>4. \A k \in 2 .. Len(todo) : Cut(k) => Unit(k) # n
  <2> SUFFICES ASSUME NEW k \in 2 .. Len(todo), Cut(k) PROVE Unit(k) # n
    OBVIOUS
  <2>1. k \in 1 .. Len(todo) /\ k # 1 /\ Unit(k) \in 1 .. fed
    BY <1>2
  <2>2. CASE n = Unit(1) /\ Cut(1)
    BY <1>1, <2>1, <2>2 DEF TodoInv
  <2>3. CASE n = fed + 1
    BY <2>1, <2>3 DEF TypeOK
  <2> QED
    BY <2>2, <2>3
<1>5. todo[1].from # Ibuf => kept # n
  <2> SUFFICES ASSUME todo[1].from # Ibuf PROVE kept # n
    OBVIOUS
  <2>1. CASE n = Unit(1) /\ Cut(1)
    BY <1>1, <2>1 DEF ItemOK, Cut, Items
  <2>2. CASE n = fed + 1
    BY <2>2 DEF TypeOK
  <2> QED
    BY <2>1, <2>2
<1>6. ~Active(hold.n)'
  BY <1>3 DEF Active
<1> QED
  BY <1>2, <1>3, <1>4, <1>5, <1>6 DEF HoldInv, Shape, Cut

LEMMA TakeWriteKeeps == ASSUME BuffersInv, TakeWrite PROVE BuffersInv'
<1> DEFINE from == todo[1].from
<1>1. TypeOK /\ PlacesInv /\ JobsInv /\ DataInv /\ TodoInv /\ HoldInv /\ WrittenAsGiven
  BY DEF BuffersInv
<1>2. /\ hold = NoJob /\ todo # <<>> /\ Head(todo) = todo[1] /\ todo[1] \in Items
      /\ todo[1].how = "write" /\ ItemOK(1)
  BY <1>1, HeadIs DEF TakeWrite
<1>3. /\ Cut(1) /\ from \in Memory \ Bufs /\ mem[from] \in Content
      /\ Unit(1) = mem[from].body /\ Unit(1) \in Nat
  <2>1. Cut(1) /\ from \in Memory \ Bufs
    BY <1>2, Places3 DEF ItemOK, Cut, Items
  <2> QED
    BY <1>1, <2>1 DEF TypeOK, Unit, Content
<1>4. PICK inbuf \in Gettable(NoBuf) : \E obuf \in Gettable(inbuf) :
        /\ pool' = Without({inbuf, obuf})
        /\ hold' = Job(mem[from].body, inbuf, inbuf, obuf)
        /\ mem' = [mem EXCEPT ![inbuf] = mem[from]]
  BY <1>2 DEF TakeWrite, CopyInput
<1>5. PICK obuf \in Gettable(inbuf) :
        /\ pool' = Without({inbuf, obuf})
        /\ hold' = Job(mem[from].body, inbuf, inbuf, obuf)
        /\ mem' = [mem EXCEPT ![inbuf] = mem[from]]
  BY <1>4
<1>6. UNCHANGED <<jobs, writerVars, err, kept, lent, todo, call, fed, out>>
  BY DEF TakeWrite, histVars
<1>7. inbuf \in Bufs /\ obuf \in Bufs /\ obuf # inbuf /\ Out(inbuf) /\ Out(obuf)
  BY <1>1, GettableIsOut
<1>8. /\ hold' \in Jobs /\ hold'.n = Unit(1) /\ hold'.src = inbuf /\ hold'.inbuf = inbuf
      /\ hold'.obuf = obuf /\ hold'.step = "crc"
      /\ \A b \in Bufs : Has(hold', b) => b \in {inbuf, obuf}
  BY <1>3, <1>5, <1>7, JobIs DEF Memory
<1>9. /\ mem' \in [Memory -> Content] /\ mem'[inbuf] = mem[from]
      /\ \A b \in Memory \ {inbuf} : mem'[b] = mem[b]
  BY <1>1, <1>3, <1>5, <1>7 DEF TypeOK, Memory
<1>10. inbuf # NoBuf /\ obuf # NoBuf
  BY <1>7, Places3
<1>11. TypeOK' /\ PlacesInv' /\ JobsInv' /\ TodoInv' /\ (Running => Running')
  <2>1. Outside({inbuf, obuf})
    BY <1>6, <1>9 DEF Outside
  <2>2. fed' \in Nat /\ fed <= fed'
    BY <1>1, <1>6 DEF TypeOK
  <2> QED
    BY <1>1, <1>2, <1>5, <1>6, <1>7, <1>8, <1>9, <2>1, <2>2, TakeStep
<1>12. Shape(hold)'
  BY <1>7, <1>8, <1>10 DEF Shape
<1>13. HoldInv'
  <2>1. Outside(Bufs)
    BY <1>6, <1>7, <1>9 DEF Outside
  <2> QED
    BY <1>1, <1>2, <1>3, <1>6, <1>8, <1>10, <1>12, <2>1, TakeHold DEF Shape
<1>14. DataInv'
  <2>1. Right(hold)'
    BY <1>3, <1>8, <1>9, <1>10 DEF Right
  <2>2. Holding'
    BY <1>8, <1>10, <2>1 DEF Holding, Right
  <2> QED
    BY <1>1, <1>6, <1>11, <2>2 DEF DataInv
<1> QED
  BY <1>1, <1>6, <1>11, <1>13, <1>14, SameOut DEF BuffersInv

LEMMA TakeFullKeeps == ASSUME BuffersInv, TakeFull PROVE BuffersInv'
<1>1. TypeOK /\ PlacesInv /\ JobsInv /\ DataInv /\ TodoInv /\ HoldInv /\ WrittenAsGiven
  BY DEF BuffersInv
<1>2. /\ hold = NoJob /\ todo # <<>> /\ todo[1].how = "full" /\ ItemOK(1)
  BY <1>1, HeadIs DEF TakeFull
<1>3. ~Cut(1) /\ fed + 1 \in Nat /\ fed' = fed + 1 /\ fed' \in Nat /\ fed <= fed'
  BY <1>1, <1>2 DEF ItemOK, Cut, TakeFull, TypeOK
<1>4. PICK inbuf \in Gettable(NoBuf) : \E obuf \in Gettable(inbuf) :
        /\ pool' = Without({inbuf, obuf})
        /\ mem' = [mem EXCEPT ![inbuf] = Raw(fed + 1)]
        /\ hold' = Job(fed + 1, inbuf, inbuf, obuf)
  BY DEF TakeFull
<1>5. PICK obuf \in Gettable(inbuf) :
        /\ pool' = Without({inbuf, obuf})
        /\ mem' = [mem EXCEPT ![inbuf] = Raw(fed + 1)]
        /\ hold' = Job(fed + 1, inbuf, inbuf, obuf)
  BY <1>4
<1>6. UNCHANGED <<jobs, writerVars, err, kept, lent, todo, call, out>>
  BY DEF TakeFull
<1>7. inbuf \in Bufs /\ obuf \in Bufs /\ obuf # inbuf /\ Out(inbuf) /\ Out(obuf)
  BY <1>1, GettableIsOut
<1>8. /\ hold' \in Jobs /\ hold'.n = fed + 1 /\ hold'.src = inbuf /\ hold'.inbuf = inbuf
      /\ hold'.obuf = obuf /\ hold'.step = "crc"
      /\ \A b \in Bufs : Has(hold', b) => b \in {inbuf, obuf}
  BY <1>3, <1>5, <1>7, JobIs DEF Memory
<1>9. /\ mem' \in [Memory -> Content] /\ mem'[inbuf].body = fed + 1
      /\ \A b \in Memory \ {inbuf} : mem'[b] = mem[b]
  <2>1. Raw(fed + 1) \in Content /\ Raw(fed + 1).body = fed + 1
    BY <1>3, Contents
  <2> QED
    BY <1>1, <1>5, <1>7, <2>1 DEF TypeOK, Memory
<1>10. inbuf # NoBuf /\ obuf # NoBuf
  BY <1>7, Places3
<1>11. TypeOK' /\ PlacesInv' /\ JobsInv' /\ TodoInv' /\ (Running => Running')
  <2>1. Outside({inbuf, obuf})
    BY <1>6, <1>9 DEF Outside
  <2> QED
    BY <1>1, <1>2, <1>3, <1>5, <1>6, <1>7, <1>8, <1>9, <2>1, TakeStep
<1>12. Shape(hold)'
  BY <1>7, <1>8, <1>10 DEF Shape
<1>13. HoldInv'
  <2>1. Outside(Bufs)
    BY <1>6, <1>7, <1>9 DEF Outside
  <2> QED
    BY <1>1, <1>2, <1>3, <1>6, <1>8, <1>10, <1>12, <2>1, TakeHold DEF Shape
<1>14. DataInv'
  <2>1. Right(hold)'
    BY <1>8, <1>9, <1>10 DEF Right
  <2>2. Holding'
    BY <1>8, <1>10, <2>1 DEF Holding, Right
  <2> QED
    BY <1>1, <1>6, <1>11, <2>2 DEF DataInv
<1> QED
  BY <1>1, <1>6, <1>11, <1>13, <1>14, SameOut DEF BuffersInv

LEMMA TakeEncodeKeeps == ASSUME BuffersInv, TakeEncode PROVE BuffersInv'
<1> DEFINE from == todo[1].from
<1>1. TypeOK /\ PlacesInv /\ JobsInv /\ DataInv /\ TodoInv /\ HoldInv /\ WrittenAsGiven
  BY DEF BuffersInv
<1>2. /\ hold = NoJob /\ todo # <<>> /\ Head(todo) = todo[1] /\ todo[1].how = "encode"
      /\ ItemOK(1)
  BY <1>1, HeadIs DEF TakeEncode
<1>3. /\ Cut(1) /\ from \in Cells /\ from \in lent
      /\ Unit(1) = mem[from].body /\ Unit(1) \in Nat
  <2>1. from \in Cells /\ from \in lent
    BY <1>2 DEF ItemOK
  <2> QED
    BY <1>2, <2>1, Places3 DEF ItemOK, Unit, Cut
<1>4. PICK obuf \in Gettable(NoBuf) :
        pool' = Without({obuf}) /\ hold' = Job(mem[from].body, from, NoBuf, obuf)
  BY <1>2 DEF TakeEncode
<1>5. UNCHANGED <<mem, jobs, writerVars, err, kept, lent, todo, call, fed, out>>
  BY DEF TakeEncode, histVars
<1>6. obuf \in Bufs /\ Out(obuf) /\ obuf # NoBuf
  BY <1>1, GettableIsOut, Places3
<1>7. /\ hold' \in Jobs /\ hold'.n = Unit(1) /\ hold'.src = from /\ hold'.inbuf = NoBuf
      /\ hold'.obuf = obuf /\ hold'.step = "crc"
      /\ \A b \in Bufs : Has(hold', b) => b \in {obuf}
  BY <1>3, <1>4, <1>6, JobIs, Places3 DEF Memory
<1>8. TypeOK' /\ PlacesInv' /\ JobsInv' /\ TodoInv' /\ (Running => Running')
  <2>1. Outside({obuf})
    BY <1>5 DEF Outside
  <2>2. fed' \in Nat /\ fed <= fed' /\ mem' \in [Memory -> Content]
    BY <1>1, <1>5 DEF TypeOK
  <2> QED
    BY <1>1, <1>2, <1>4, <1>5, <1>6, <1>7, <2>1, <2>2, TakeStep
<1>9. Shape(hold)'
  BY <1>3, <1>6, <1>7 DEF Shape
<1>10. HoldInv'
  <2>1. Outside(Bufs)
    BY <1>5 DEF Outside
  <2> QED
    BY <1>1, <1>2, <1>3, <1>5, <1>6, <1>7, <1>9, <2>1, TakeHold DEF Shape
<1>11. DataInv'
  <2>1. Right(hold)'
    BY <1>3, <1>5, <1>7 DEF Right
  <2>2. Holding'
    BY <1>6, <1>7, <2>1 DEF Holding, Right
  <2> QED
    BY <1>1, <1>5, <1>8, <2>2 DEF DataInv
<1> QED
  BY <1>1, <1>5, <1>8, <1>10, <1>11, SameOut DEF BuffersInv

LEMMA TakeUserKeeps == ASSUME BuffersInv, TakeUser PROVE BuffersInv'
<1>1. TypeOK /\ PlacesInv /\ JobsInv /\ DataInv /\ TodoInv /\ HoldInv /\ WrittenAsGiven
  BY DEF BuffersInv
<1>2. /\ hold = NoJob /\ todo # <<>> /\ todo[1].how = "user" /\ ItemOK(1)
  BY <1>1, HeadIs DEF TakeUser
<1>3. ~Cut(1) /\ fed + 1 \in Nat /\ fed' = fed + 1 /\ fed' \in Nat /\ fed <= fed'
  BY <1>1, <1>2 DEF ItemOK, Cut, TakeUser, TypeOK
<1>4. PICK inbuf \in Gettable(NoBuf) :
        /\ pool' = Without({inbuf})
        /\ mem' = [mem EXCEPT ![inbuf] = Chunk(fed + 1, fed + 1)]
        /\ hold' = Job(fed + 1, NoBuf, inbuf, NoBuf)
  BY DEF TakeUser
<1>5. UNCHANGED <<jobs, writerVars, err, kept, lent, todo, call, out>>
  BY DEF TakeUser
<1>6. inbuf \in Bufs /\ Out(inbuf) /\ inbuf # NoBuf
  BY <1>1, GettableIsOut, Places3
<1>7. /\ hold' \in Jobs /\ hold'.n = fed + 1 /\ hold'.inbuf = inbuf
      /\ hold'.obuf = NoBuf /\ hold'.step = "crc"
      /\ \A b \in Bufs : Has(hold', b) => b \in {inbuf}
  <2>1. NoBuf \in Memory \cup {NoBuf} /\ inbuf \in Bufs \cup {NoBuf}
        /\ NoBuf \in Bufs \cup {NoBuf} /\ NoBuf \notin Bufs
    BY <1>6, Places3
  <2> DEFINE j == Job(fed + 1, NoBuf, inbuf, NoBuf)
  <2>2. /\ j \in Jobs /\ j.n = fed + 1 /\ j.inbuf = inbuf /\ j.obuf = NoBuf
        /\ j.step = "crc" /\ \A b \in Bufs : Has(j, b) => b \in {inbuf, NoBuf}
    BY <1>3, <2>1, JobIs
  <2> HIDE DEF j
  <2>3. hold' = j
    BY <1>4 DEF j
  <2>4. \A b \in Bufs : Has(j, b) => b \in {inbuf}
    BY <2>1, <2>2
  <2> QED
    BY <2>2, <2>3, <2>4
<1>8. /\ mem' \in [Memory -> Content] /\ mem'[inbuf] = Chunk(fed + 1, fed + 1)
      /\ \A b \in Memory \ {inbuf} : mem'[b] = mem[b]
  <2>1. Chunk(fed + 1, fed + 1) \in Content
    BY <1>3, Contents
  <2> QED
    BY <1>1, <1>4, <1>6, <2>1 DEF TypeOK, Memory
<1>9. TypeOK' /\ PlacesInv' /\ JobsInv' /\ TodoInv' /\ (Running => Running')
  <2>1. Outside({inbuf})
    BY <1>5, <1>8 DEF Outside
  <2> QED
    BY <1>1, <1>2, <1>3, <1>4, <1>5, <1>6, <1>7, <1>8, <2>1, TakeStep
<1>10. HoldInv'
  <2>1. Outside(Bufs)
    BY <1>5, <1>6, <1>8 DEF Outside
  <2> QED
    BY <1>1, <1>2, <1>3, <1>5, <1>6, <1>7, <2>1, TakeHold
<1>11. DataInv'
  <2>1. Holding'
    BY <1>7, <1>8 DEF Holding
  <2> QED
    BY <1>1, <1>5, <1>9, <2>1 DEF DataInv
<1> QED
  BY <1>1, <1>5, <1>9, <1>10, <1>11, SameOut DEF BuffersInv

-----------------------------------------------------------------------------
(* The methods are entered.                                                *)

LEMMA LeastNat ==
  ASSUME NEW T \in SUBSET Nat, T # {}
  PROVE  \E x \in T : \A y \in T : x <= y
<1>1. IsWellFoundedOn(OpToRel(<, Nat), Nat)
  BY NatLessThanWellFounded
<1>2. PICK x \in T : \A y \in T : ~(<<y, x>> \in OpToRel(<, Nat))
  BY <1>1, WFMin
<1>3. x \in T /\ \A y \in T : ~(y < x)
  BY <1>2 DEF OpToRel
<1>4. \A y \in T : x <= y
  BY <1>3
<1> QED
  BY <1>3, <1>4

\* The caller's cells have negative numbers.
LEMMA FirstIs ==
  ASSUME NEW S \in SUBSET Cells, S # {}
  PROVE  First(S) \in S
<1> DEFINE T == {n \in Nat : -n \in S}
<1>1. \A c \in S : c \in Int /\ -c \in T
  BY BuffersAssumption
<1>2. PICK x \in T : \A y \in T : x <= y
  <2>1. T # {} /\ T \in SUBSET Nat
    BY <1>1
  <2> QED
    BY <2>1, LeastNat
<1>3. -x \in S /\ \A d \in S : d <= -x
  <2>1. \A d \in S : x <= -d
    BY <1>1, <1>2
  <2> QED
    BY <1>1, <1>2, <2>1
<1>4. \E c \in S : \A d \in S : d <= c
  BY <1>3
<1> QED
  BY <1>4 DEF First

\* One cell that is not lent, or two.
LEMMA ArgumentIs ==
  ASSUME NEW p \in Arguments
  PROVE  /\ p \in Seq(Unlent) /\ Len(p) \in {1, 2}
         /\ \A i, k \in 1 .. Len(p) : p[i] = p[k] => i = k
<1>1. CASE p \in {<<First(C)>> : C \in {Unlent} \ {{}}}
  <2>1. p = <<First(Unlent)>> /\ Unlent # {}
    BY <1>1
  <2>2. First(Unlent) \in Unlent
    BY <2>1, FirstIs DEF Unlent
  <2> QED
    BY <2>1, <2>2
<1>2. CASE p \in {<<First(C), First(C \ {First(C)})>> :
                   C \in {X \in {Unlent} : \E c, d \in X : c # d}}
  <2> DEFINE a == First(Unlent)
             b == First(Unlent \ {First(Unlent)})
  <2>1. p = <<a, b>> /\ \E c, d \in Unlent : c # d
    <3>1. PICK C \in {X \in {Unlent} : \E c, d \in X : c # d} :
            p = <<First(C), First(C \ {First(C)})>>
      BY <1>2, Zenon
    <3>2. C = Unlent /\ \E c, d \in C : c # d
      BY Zenon
    <3> QED
      BY <3>1, <3>2, Zenon
  <2>2. a \in Unlent
    BY <2>1, FirstIs DEF Unlent
  <2>3. b \in Unlent \ {a}
    BY <2>1, FirstIs DEF Unlent
  <2> HIDE DEF a, b
  <2>4. \A i, k \in 1 .. Len(p) : p[i] = p[k] => i = k
    BY <2>1, <2>2, <2>3
  <2> QED
    BY <2>1, <2>2, <2>3, <2>4
<1> QED
  BY <1>1, <1>2 DEF Arguments

\* The next units are in the argument's cells, and nothing else has changed.
LEMMA FillsIs ==
  ASSUME TypeOK, NEW p \in Seq(Unlent), Len(p) \in {1, 2}, Fills(p),
         \A i, k \in 1 .. Len(p) : p[i] = p[k] => i = k
  PROVE  /\ mem' \in [Memory -> Content]
         /\ \A i \in 1 .. Len(p) : p[i] \in Cells \ lent /\ mem'[p[i]].body = fed + i
         /\ \A b \in Memory : (\A i \in 1 .. Len(p) : p[i] # b) => mem'[b] = mem[b]
         /\ fed' = fed + Len(p) /\ fed' \in Nat /\ fed <= fed'
<1>1. DOMAIN p = 1 .. Len(p) /\ DOMAIN mem = Memory
  BY DEF TypeOK
<1>2. \A i \in 1 .. Len(p) : p[i] \in Cells \ lent /\ p[i] \in Memory
  BY Places3 DEF Unlent
<1>3. mem' = [b \in Memory |-> IF \E i \in 1 .. Len(p) : p[i] = b
                THEN Raw(fed + (CHOOSE i \in 1 .. Len(p) : p[i] = b)) ELSE mem[b]]
  BY <1>1 DEF Fills
<1>4. fed' = fed + Len(p) /\ fed' \in Nat /\ fed <= fed'
  BY DEF Fills, TypeOK
<1>5. ASSUME NEW b \in Memory, \A i \in 1 .. Len(p) : p[i] # b PROVE mem'[b] = mem[b]
  BY <1>3, <1>5
<1>6. ASSUME NEW i \in 1 .. Len(p) PROVE mem'[p[i]] = Raw(fed + i)
  <2>1. (CHOOSE k \in 1 .. Len(p) : p[k] = p[i]) = i
    OBVIOUS
  <2>2. \E k \in 1 .. Len(p) : p[k] = p[i]
    OBVIOUS
  <2> QED
    BY <1>2, <1>3, <2>1, <2>2
<1>7. \A i \in 1 .. Len(p) : Raw(fed + i) \in Content /\ Raw(fed + i).body = fed + i
  BY Contents DEF TypeOK
<1>8. \A b \in Memory : mem'[b] \in Content
  BY <1>5, <1>6, <1>7 DEF TypeOK
<1> QED
  BY <1>2, <1>3, <1>4, <1>5, <1>6, <1>7, <1>8

LEMMA Entered ==
  ASSUME TodoInv, HoldInv, call = "none"
  PROVE  todo = <<>> /\ hold = NoJob
  BY DEF TodoInv, HoldInv

\* The calling goroutine holds nothing, and takes from or gives to the pool what
\* is nobody's.
LEMMA CallerStep ==
  ASSUME BuffersInv, hold = NoJob, UNCHANGED <<jobs, writerVars, hold>>,
         todo' \in Seq(Items), mem' \in [Memory -> Content], lent' \subseteq Cells,
         fed' \in Nat, fed <= fed', kept' \in 0 .. fed',
         pool' \in [Bufs -> {0, 1}], \A b \in Bufs : Out(b) \/ pool'[b] = pool[b]
  PROVE  TypeOK' /\ PlacesInv' /\ JobsInv' /\ HoldInv'
<1>1. TypeOK /\ PlacesInv /\ JobsInv /\ HoldInv
  BY DEF BuffersInv
<1>2. TypeOK'
  BY <1>1 DEF TypeOK, writerVars
<1>3. PlacesInv'
  BY <1>1 DEF PlacesInv, Has, InChan, Out, writerVars
<1>4. JobsInv'
  BY <1>1, SameJobs DEF writerVars
<1>5. HoldInv'
  BY DEF HoldInv
<1> QED
  BY <1>2, <1>3, <1>4, <1>5

\* A method has nothing but its list of blocks, and what its caller filled.
LEMMA EnterStep ==
  ASSUME BuffersInv, call = "none", todo' \in Seq(Items), mem' \in [Memory -> Content],
         Outside(Cells \ lent), lent' \subseteq Cells, fed' \in Nat, fed <= fed',
         UNCHANGED <<pool, jobs, writerVars, err, kept, hold, out>>
  PROVE  TodoInv' => BuffersInv'
<1>1. TypeOK /\ PlacesInv /\ JobsInv /\ DataInv /\ TodoInv /\ HoldInv /\ WrittenAsGiven
  BY DEF BuffersInv
<1>2. TypeOK' /\ PlacesInv' /\ JobsInv' /\ HoldInv'
  BY <1>1, Entered, CallerStep DEF TypeOK
<1>3. DataInv'
  <2>1. Spare(Cells \ lent)
    BY Places3 DEF Spare
  <2> QED
    BY <1>1, <2>1, SameData DEF writerVars
<1> QED
  BY <1>1, <1>2, <1>3, SameOut DEF BuffersInv

\* The blocks that a method takes from its argument or its reader.
Starts(b) ==
  \A i \in 1 .. Len(b) :
    /\ b[i].from \in Cells \cup {NoBuf} /\ b[i].how # "sync"
    /\ b[i].from \in Cells <=> b[i].how \in {"write", "encode", "keep"}
    /\ b[i].from \in Cells => mem'[b[i].from].body = fed + i /\ fed + i <= fed'
    /\ b[i].how = "encode" => b[i].from \in lent'

\* ibuf first, when it holds something, then the argument's units.
LEMMA TodoStart ==
  ASSUME TypeOK, JobsInv, TodoInv, call' # "none", err = "none",
         NEW a \in Seq(Items), NEW b \in Seq(Items), todo' = a \o b,
         \/ a = <<>>
         \/ kept # 0 /\ Len(a) = 1 /\ a[1].from = Ibuf /\ a[1].how \in {"write", "sync"},
         Starts(b),
         fed' \in Nat, fed <= fed', mem'[Ibuf] = mem[Ibuf], UNCHANGED <<jobs, kept>>
  PROVE  TodoInv'
<1> DEFINE la == Len(a)
<1>1. la \in {0, 1} /\ Len(b) \in Nat /\ Len(todo') = la + Len(b)
  BY DEF TypeOK
<1>2. /\ la = 1 => todo'[1] = a[1]
      /\ \A k \in 1 .. Len(todo') : k > la => todo'[k] = b[k - la] /\ k - la \in 1 .. Len(b)
  BY <1>1
<1>3. kept # 0 => mem'[Ibuf].body = kept /\ kept \in 1 .. fed /\ ~Active(kept)
  BY DEF TodoInv, TypeOK
<1>4. \A n : Active(n)' <=> Active(n)
  BY DEF Active
<1>5. \A j \in jobs : j.n <= fed
  BY DEF JobsInv, TypeOK
<1>6. \A n \in Nat : n > fed => ~Active(n)
  BY <1>5 DEF Active, TypeOK
<1>7. ASSUME NEW k \in 1 .. Len(todo'), k <= la
      PROVE  /\ k = 1 /\ la = 1 /\ kept # 0 /\ todo'[k].from = Ibuf
             /\ todo'[k].how \in {"write", "sync"}
             /\ Cut(k)' /\ Unit(k)' = kept
  BY <1>1, <1>2, <1>3, <1>7, Places3 DEF Cut, Unit
<1>8. ASSUME NEW k \in 1 .. Len(todo'), k > la
      PROVE  /\ todo'[k].from # Ibuf /\ todo'[k].how # "sync"
             /\ Cut(k)' <=> todo'[k].from \in Cells
             /\ Cut(k)' <=> todo'[k].how \in {"write", "encode", "keep"}
             /\ todo'[k].how = "encode" => todo'[k].from \in lent'
             /\ Cut(k)' => Unit(k)' = fed + (k - la) /\ Unit(k)' <= fed'
  <2> DEFINE i == k - la
  <2>1. todo'[k] = b[i] /\ i \in 1 .. Len(b)
    BY <1>2, <1>8
  <2> HIDE DEF i
  <2>2. /\ b[i].from \in Cells \cup {NoBuf} /\ b[i].how # "sync"
        /\ b[i].from \in Cells <=> b[i].how \in {"write", "encode", "keep"}
        /\ b[i].from \in Cells => mem'[b[i].from].body = fed + i /\ fed + i <= fed'
        /\ b[i].how = "encode" => b[i].from \in lent'
    BY <2>1 DEF Starts
  <2> QED
    BY <2>1, <2>2, Places3 DEF Cut, Unit, i
<1>9. ASSUME NEW k \in 1 .. Len(todo') PROVE ItemOK(k)'
  <2>1. CASE k <= la
    BY <1>3, <1>4, <1>7, <2>1, Places3 DEF ItemOK, Active, TypeOK
  <2>2. CASE k > la
    <3>1. Cut(k)' => Unit(k)' \in 1 .. fed' /\ Unit(k)' > fed
      BY <1>1, <1>8, <2>2, SMTT(30) DEF TypeOK
    <3>2. Cut(k)' => ~Active(Unit(k))'
      <4>1. \A n : n = Unit(k)' /\ Cut(k)' => ~Active(n)'
        BY <1>4, <1>6, <3>1 DEF TypeOK
      <4> QED
        BY <4>1 DEF Active
    <3>3. Cut(k)' => Unit(k)' # kept
      BY <3>1 DEF TypeOK
    <3> QED
      BY <1>8, <2>2, <3>1, <3>2, <3>3 DEF ItemOK
  <2> QED
    BY <1>1, <2>1, <2>2
<1>10. ASSUME NEW k \in 1 .. Len(todo'), NEW l \in 1 .. Len(todo'), Cut(k)', Cut(l)',
              Unit(k)' = Unit(l)'
       PROVE  k = l
  <2>1. CASE k <= la /\ l <= la
    BY <1>7, <2>1
  <2>2. CASE k > la /\ l > la
    BY <1>1, <1>8, <1>10, <2>2 DEF TypeOK
  <2>3. CASE k <= la /\ l > la
    BY <1>1, <1>3, <1>7, <1>8, <1>10, <2>3 DEF TypeOK
  <2>4. CASE k > la /\ l <= la
    BY <1>1, <1>3, <1>7, <1>8, <1>10, <2>4 DEF TypeOK
  <2> QED
    BY <1>1, <2>1, <2>2, <2>3, <2>4
<1>11. kept' # 0 => ~Active(kept)' /\ mem'[Ibuf].body = kept'
  <2>1. \A n : n = kept /\ kept # 0 => ~Active(n)'
    BY <1>3, <1>4
  <2> QED
    BY <1>3, <2>1 DEF Active
<1> QED
  BY <1>9, <1>10, <1>11 DEF TodoInv

\* Nothing is to be cut.
LEMMA TodoNone ==
  ASSUME TodoInv, todo' = <<>>, UNCHANGED jobs,
         \/ kept' = 0
         \/ kept' = kept /\ (err' = "none" => err = "none" /\ mem'[Ibuf] = mem[Ibuf])
  PROVE  TodoInv'
<1>1. kept' # 0 => ~Active(kept)'
  BY DEF TodoInv, Active
<1> QED
  BY <1>1 DEF TodoInv

LEMMA OfCellsIs ==
  ASSUME NEW p \in Seq(Cells), NEW how \in {"write", "keep", "encode"}
  PROVE  /\ OfCells(how, p) \in Seq(Items) /\ Len(OfCells(how, p)) = Len(p)
         /\ \A i \in 1 .. Len(p) : OfCells(how, p)[i].how = how /\ OfCells(how, p)[i].from = p[i]
<1>1. \A i \in 1 .. Len(p) : Item(how, p[i]) \in Items
  BY DEF Item, Items
<1>2. OfCells(how, p) = [i \in 1 .. Len(p) |-> Item(how, p[i])]
  BY DEF OfCells
<1>3. OfCells(how, p) \in Seq(Items) /\ Len(OfCells(how, p)) = Len(p)
  BY <1>1, <1>2
<1> QED
  BY <1>2, <1>3 DEF Item

LEMMA BufferedIs ==
  ASSUME TypeOK
  PROVE  /\ Buffered \in Seq(Items)
         /\ \/ Buffered = <<>>
            \/ /\ kept # 0 /\ Len(Buffered) = 1 /\ Buffered[1].from = Ibuf
               /\ Buffered[1].how \in {"write", "sync"}
<1>1. CASE kept = 0
  BY <1>1 DEF Buffered
<1>2. CASE kept # 0
  <2> DEFINE item == Item(IF hdr THEN "write" ELSE "sync", Ibuf)
  <2>1. item \in Items /\ item.from = Ibuf /\ item.how \in {"write", "sync"}
    BY DEF Item, Items
  <2>2. Buffered = <<item>>
    BY <1>2 DEF Buffered
  <2> HIDE DEF item
  <2> QED
    BY <1>2, <2>1, <2>2
<1> QED
  BY <1>1, <1>2

LEMMA WriteKeeps == ASSUME BuffersInv, Write PROVE BuffersInv'
<1>1. TypeOK /\ JobsInv /\ TodoInv
  BY DEF BuffersInv
<1> DEFINE a == IF kept = 0 THEN <<>> ELSE <<Item("write", Ibuf)>>
           b(p) == OfCells(IF Len(p) = 1 THEN "keep" ELSE "write", p)
<1>2. PICK p \in Arguments :
        err = "none" /\ Enter("Write", a \o b(p)) /\ Fills(p)
  BY DEF Write
<1>3. UNCHANGED <<pool, jobs, writerVars, err, kept, hold, out, lent>>
  BY DEF Write
<1>4. /\ p \in Seq(Unlent) /\ Len(p) \in {1, 2} /\ p \in Seq(Cells)
      /\ \A i, k \in 1 .. Len(p) : p[i] = p[k] => i = k
  BY ArgumentIs DEF Unlent
<1>5. /\ mem' \in [Memory -> Content]
      /\ \A i \in 1 .. Len(p) : p[i] \in Cells \ lent /\ mem'[p[i]].body = fed + i
      /\ \A c \in Memory : (\A i \in 1 .. Len(p) : p[i] # c) => mem'[c] = mem[c]
      /\ fed' = fed + Len(p) /\ fed' \in Nat /\ fed <= fed'
  BY <1>1, <1>2, <1>4, FillsIs
<1>6. /\ b(p) \in Seq(Items) /\ Len(b(p)) = Len(p)
      /\ \A i \in 1 .. Len(p) : b(p)[i].how \in {"write", "keep"} /\ b(p)[i].from = p[i]
  BY <1>4, OfCellsIs
<1>7. /\ a \in Seq(Items)
      /\ a = <<>> \/ (kept # 0 /\ Len(a) = 1 /\ a[1].from = Ibuf /\ a[1].how = "write")
  <2>1. CASE kept = 0
    BY <2>1
  <2>2. CASE kept # 0
    <3> DEFINE item == Item("write", Ibuf)
    <3>1. item \in Items /\ item.from = Ibuf /\ item.how = "write"
      BY DEF Item, Items
    <3>2. a = <<item>>
      BY <2>2
    <3> HIDE DEF item, a
    <3> QED
      BY <2>2, <3>1, <3>2
  <2> QED
    BY <2>1, <2>2
<1>8. call = "none" /\ call' = "Write" /\ todo' = a \o b(p)
  BY <1>2 DEF Enter
<1>9. mem'[Ibuf] = mem[Ibuf] /\ Outside(Cells \ lent)
  BY <1>3, <1>5, Places3 DEF Outside
<1> HIDE DEF a, b
<1>10. TodoInv'
  <2>1. Starts(b(p))
    <3>1. \A i \in 1 .. Len(b(p)) : fed + i <= fed'
      BY <1>1, <1>5, <1>6 DEF TypeOK
    <3> QED
      BY <1>5, <1>6, <3>1 DEF Starts
  <2> QED
    BY <1>1, <1>2, <1>3, <1>5, <1>6, <1>7, <1>8, <1>9, <2>1, TodoStart
<1> QED
  BY <1>1, <1>3, <1>5, <1>6, <1>7, <1>8, <1>9, <1>10, EnterStep DEF TypeOK

LEMMA EncodeBufferKeeps == ASSUME BuffersInv, EncodeBuffer PROVE BuffersInv'
<1>1. TypeOK /\ JobsInv /\ TodoInv
  BY DEF BuffersInv
<1> DEFINE b(p) == OfCells("encode", p)
<1>2. PICK p \in Arguments :
        /\ err = "none" /\ Enter("EncodeBuffer", Buffered \o b(p)) /\ Fills(p)
        /\ lent' = lent \cup {p[i] : i \in DOMAIN p}
  BY DEF EncodeBuffer
<1>3. UNCHANGED <<pool, jobs, writerVars, err, kept, hold, out>>
  BY DEF EncodeBuffer
<1>4. /\ p \in Seq(Unlent) /\ Len(p) \in {1, 2} /\ p \in Seq(Cells)
      /\ \A i, k \in 1 .. Len(p) : p[i] = p[k] => i = k
  BY ArgumentIs DEF Unlent
<1>5. /\ mem' \in [Memory -> Content]
      /\ \A i \in 1 .. Len(p) : p[i] \in Cells \ lent /\ mem'[p[i]].body = fed + i
      /\ \A c \in Memory : (\A i \in 1 .. Len(p) : p[i] # c) => mem'[c] = mem[c]
      /\ fed' = fed + Len(p) /\ fed' \in Nat /\ fed <= fed'
  BY <1>1, <1>2, <1>4, FillsIs
<1>6. /\ b(p) \in Seq(Items) /\ Len(b(p)) = Len(p)
      /\ \A i \in 1 .. Len(p) : b(p)[i].how = "encode" /\ b(p)[i].from = p[i]
  BY <1>4, OfCellsIs
<1>7. lent' \subseteq Cells /\ lent \subseteq lent' /\ \A i \in 1 .. Len(p) : p[i] \in lent'
  BY <1>1, <1>2, <1>4, <1>5 DEF TypeOK
<1>8. call = "none" /\ call' = "EncodeBuffer" /\ todo' = Buffered \o b(p)
  BY <1>2 DEF Enter
<1>9. mem'[Ibuf] = mem[Ibuf] /\ Outside(Cells \ lent)
  BY <1>5, <1>7, Places3 DEF Outside
<1>10. /\ Buffered \in Seq(Items)
       /\ \/ Buffered = <<>>
          \/ /\ kept # 0 /\ Len(Buffered) = 1 /\ Buffered[1].from = Ibuf
             /\ Buffered[1].how \in {"write", "sync"}
  BY <1>1, BufferedIs
<1> HIDE DEF b
<1>11. TodoInv'
  <2>1. Starts(b(p))
    <3>1. \A i \in 1 .. Len(b(p)) : fed + i <= fed'
      BY <1>1, <1>5, <1>6 DEF TypeOK
    <3> QED
      BY <1>5, <1>6, <1>7, <3>1 DEF Starts
  <2> QED
    BY <1>1, <1>2, <1>3, <1>5, <1>6, <1>7, <1>8, <1>9, <1>10, <2>1, TodoStart
<1> QED
  BY <1>3, <1>5, <1>6, <1>7, <1>8, <1>9, <1>10, <1>11, EnterStep

LEMMA ReadFromKeeps == ASSUME BuffersInv, ReadFrom PROVE BuffersInv'
<1>1. TypeOK /\ JobsInv /\ TodoInv
  BY DEF BuffersInv
<1> DEFINE b(n) == [i \in 1 .. n |-> Item("full", NoBuf)] \o <<Item("eof", NoBuf)>>
<1>2. PICK n \in 0 .. 2 :
        /\ err = "none"
        /\ Enter("ReadFrom", Buffered \o [i \in 1 .. n |-> Item("full", NoBuf)]
                               \o <<Item("eof", NoBuf)>>)
  BY DEF ReadFrom
<1>3. UNCHANGED <<mem, pool, jobs, writerVars, err, kept, hold, out, lent, fed>>
  BY DEF ReadFrom, histVars
<1>4. /\ Buffered \in Seq(Items)
      /\ \/ Buffered = <<>>
         \/ /\ kept # 0 /\ Len(Buffered) = 1 /\ Buffered[1].from = Ibuf
            /\ Buffered[1].how \in {"write", "sync"}
  BY <1>1, BufferedIs
<1>5. b(n) \in Seq(Items) /\ \A i \in 1 .. Len(b(n)) :
        b(n)[i].how \in {"full", "eof"} /\ b(n)[i].from = NoBuf
  <2>1. /\ Item("full", NoBuf) \in Items /\ Item("eof", NoBuf) \in Items
        /\ Item("full", NoBuf).from = NoBuf /\ Item("eof", NoBuf).from = NoBuf
        /\ Item("full", NoBuf).how = "full" /\ Item("eof", NoBuf).how = "eof"
    BY DEF Item, Items
  <2> QED
    BY <2>1
<1>6. call = "none" /\ call' = "ReadFrom" /\ todo' = Buffered \o b(n)
  <2> DEFINE f == [i \in 1 .. n |-> Item("full", NoBuf)]
             e == <<Item("eof", NoBuf)>>
  <2>1. f \in Seq(Items) /\ e \in Seq(Items)
    BY DEF Item, Items
  <2>2. todo' = (Buffered \o f) \o e /\ call = "none" /\ call' = "ReadFrom"
    BY <1>2 DEF Enter
  <2> HIDE DEF f, e
  <2>3. (Buffered \o f) \o e = Buffered \o (f \o e)
    BY <1>4, <2>1
  <2> QED
    BY <2>2, <2>3 DEF f, e
<1> HIDE DEF b
<1>7. fed' \in Nat /\ fed <= fed' /\ lent' \subseteq Cells /\ mem' \in [Memory -> Content]
  BY <1>1, <1>3 DEF TypeOK
<1>8. TodoInv'
  <2>1. Starts(b(n))
    BY <1>5, Places3 DEF Starts
  <2> QED
    BY <1>1, <1>2, <1>3, <1>4, <1>5, <1>6, <1>7, <2>1, TodoStart
<1>9. Outside(Cells \ lent)
  BY <1>3 DEF Outside
<1> QED
  BY <1>3, <1>4, <1>5, <1>6, <1>7, <1>8, <1>9, EnterStep

LEMMA AddUserChunkKeeps == ASSUME BuffersInv, AddUserChunk PROVE BuffersInv'
<1>1. TypeOK /\ JobsInv /\ TodoInv
  BY DEF BuffersInv
<1> DEFINE b == <<Item("user", NoBuf)>>
<1>2. /\ err = "none" /\ call = "none" /\ call' = "AddUserChunk" /\ todo' = b
      /\ UNCHANGED <<mem, pool, jobs, writerVars, err, kept, hold, out, lent, fed>>
  BY DEF AddUserChunk, Enter, histVars
<1>3. b \in Seq(Items) /\ Len(b) = 1 /\ b[1].how = "user" /\ b[1].from = NoBuf
  BY DEF Item, Items
<1> HIDE DEF b
<1>4. fed' \in Nat /\ fed <= fed' /\ lent' \subseteq Cells /\ mem' \in [Memory -> Content]
  BY <1>1, <1>2 DEF TypeOK
<1>5. TodoInv'
  <2>1. todo' = <<>> \o b /\ <<>> \in Seq(Items)
    BY <1>2, <1>3
  <2>2. Starts(b)
    BY <1>3, Places3 DEF Starts
  <2> QED
    BY <1>1, <1>2, <1>3, <1>4, <2>1, <2>2, TodoStart
<1>6. Outside(Cells \ lent)
  BY <1>2 DEF Outside
<1> QED
  BY <1>2, <1>3, <1>4, <1>5, <1>6, EnterStep

LEMMA FlushKeeps == ASSUME BuffersInv, Flush PROVE BuffersInv'
<1>1. TypeOK /\ JobsInv /\ TodoInv
  BY DEF BuffersInv
<1>2. /\ call = "none" /\ call' # "none" /\ todo' = IF err = "none" THEN Buffered ELSE <<>>
      /\ UNCHANGED <<mem, pool, jobs, writerVars, err, kept, hold, out, lent, fed>>
  BY DEF Flush, Enter, histVars
<1>3. /\ Buffered \in Seq(Items)
      /\ \/ Buffered = <<>>
         \/ /\ kept # 0 /\ Len(Buffered) = 1 /\ Buffered[1].from = Ibuf
            /\ Buffered[1].how \in {"write", "sync"}
  BY <1>1, BufferedIs
<1>4. fed' \in Nat /\ fed <= fed' /\ lent' \subseteq Cells /\ mem' \in [Memory -> Content]
  BY <1>1, <1>2 DEF TypeOK
<1>5. TodoInv'
  <2>1. CASE err = "none"
    <3>1. todo' = Buffered \o <<>> /\ <<>> \in Seq(Items)
      BY <1>2, <1>3, <2>1
    <3>2. Starts(<<>>)
      BY DEF Starts
    <3> QED
      BY <1>1, <1>2, <1>3, <1>4, <2>1, <3>1, <3>2, TodoStart
  <2>2. CASE err # "none"
    BY <1>1, <1>2, <2>2, TodoNone
  <2> QED
    BY <2>1, <2>2
<1>6. Outside(Cells \ lent) /\ todo' \in Seq(Items)
  BY <1>2, <1>3 DEF Outside
<1> QED
  BY <1>2, <1>4, <1>5, <1>6, EnterStep

LEMMA ResetKeeps == ASSUME BuffersInv, Reset PROVE BuffersInv'
<1>1. TypeOK /\ JobsInv /\ TodoInv
  BY DEF BuffersInv
<1>2. /\ call = "none" /\ todo' = <<>>
      /\ UNCHANGED <<mem, pool, jobs, writerVars, err, kept, hold, out, lent, fed>>
  BY DEF Reset, Enter, histVars
<1>3. fed' \in Nat /\ fed <= fed' /\ lent' \subseteq Cells /\ mem' \in [Memory -> Content]
  BY <1>1, <1>2 DEF TypeOK
<1>4. TodoInv'
  BY <1>1, <1>2, TodoNone
<1>5. Outside(Cells \ lent) /\ todo' \in Seq(Items)
  BY <1>2 DEF Outside
<1> QED
  BY <1>2, <1>3, <1>4, <1>5, EnterStep

-----------------------------------------------------------------------------
(* The calling goroutine does without a goroutine, or returns.             *)

LEMMA StopReadingKeeps == ASSUME BuffersInv, StopReading PROVE BuffersInv'
<1>1. TypeOK /\ PlacesInv /\ JobsInv /\ DataInv /\ TodoInv /\ HoldInv /\ WrittenAsGiven
  BY DEF BuffersInv
<1>2. PICK inbuf \in Gettable(NoBuf) :
        pool' = Without({inbuf}) /\ mem' = [mem EXCEPT ![inbuf] = Scribble]
  BY DEF StopReading
<1>3. /\ hold = NoJob /\ todo' = <<>> /\ (err' = "none" => err = "none")
      /\ UNCHANGED <<jobs, writerVars, kept, hold, out, lent, fed>>
  BY DEF StopReading, Doing, histVars
<1>4. inbuf \in Bufs /\ Out(inbuf) /\ inbuf \in Memory /\ inbuf # Ibuf /\ inbuf \notin Cells
  BY <1>1, GettableIsOut, Places3
<1>5. /\ mem' \in [Memory -> Content] /\ mem'[Ibuf] = mem[Ibuf]
      /\ Outside({inbuf}) /\ Spare({inbuf})
  BY <1>1, <1>2, <1>3, <1>4, Contents, Places3 DEF TypeOK, Outside, Spare
<1>6. pool' \in [Bufs -> {0, 1}] /\ \A b \in Bufs : Out(b) \/ pool'[b] = pool[b]
  BY <1>1, <1>2, <1>4, WithoutIs DEF TypeOK
<1>7. TypeOK' /\ PlacesInv' /\ JobsInv' /\ HoldInv'
  <2>1. todo' \in Seq(Items)
    BY <1>3
  <2>2. lent' \subseteq Cells /\ fed' \in Nat /\ fed <= fed' /\ kept' \in 0 .. fed'
    BY <1>1, <1>3 DEF TypeOK
  <2> QED
    BY <1>3, <1>5, <1>6, <2>1, <2>2, CallerStep
<1>8. DataInv'
  BY <1>1, <1>3, <1>5, SameData DEF writerVars
<1>9. TodoInv'
  BY <1>1, <1>3, <1>5, TodoNone
<1> QED
  BY <1>1, <1>3, <1>7, <1>8, <1>9, SameOut DEF BuffersInv

LEMMA KeepKeeps == ASSUME BuffersInv, Keep PROVE BuffersInv'
<1> DEFINE from == todo[1].from
<1>1. TypeOK /\ PlacesInv /\ JobsInv /\ DataInv /\ TodoInv /\ HoldInv /\ WrittenAsGiven
  BY DEF BuffersInv
<1>2. /\ hold = NoJob /\ todo # <<>> /\ Head(todo) = todo[1] /\ todo[1].how = "keep"
      /\ ItemOK(1)
  BY <1>1, HeadIs DEF Keep
<1>3. /\ from \in Cells /\ from \in Memory /\ Unit(1) = mem[from].body /\ mem[from] \in Content
      /\ Unit(1) \in 1 .. fed /\ ~Active(Unit(1))
  <2>1. from \in Cells /\ from \in Memory
    BY <1>2, Places3 DEF ItemOK
  <2> QED
    BY <1>1, <1>2, <2>1, Places3 DEF ItemOK, Unit, Cut, TypeOK
<1>4. todo' = <<>> /\ UNCHANGED <<pool, jobs, writerVars, err, hold, out, lent, fed>>
  BY DEF Keep, histVars
<1>5. /\ Outside({Ibuf}) /\ Spare({Ibuf}) /\ mem' \in [Memory -> Content] /\ kept' \in 0 .. fed
      /\ TodoInv'
  <2>1. CASE err = "none"
    <3>1. mem' = [mem EXCEPT ![Ibuf] = mem[from]] /\ kept' = Unit(1)
      BY <1>2, <1>3, <2>1 DEF Keep
    <3>2. mem' \in [Memory -> Content] /\ mem'[Ibuf].body = Unit(1) /\ Outside({Ibuf})
      BY <1>1, <1>3, <1>4, <3>1, Places3 DEF TypeOK, Outside
    <3>3. ~Active(kept)'
      BY <1>3, <1>4, <3>1 DEF Active
    <3>4. TodoInv'
      BY <1>4, <3>1, <3>2, <3>3 DEF TodoInv
    <3>5. Spare({Ibuf})
      BY <1>1, Places3 DEF Spare, TypeOK
    <3> QED
      BY <1>1, <1>3, <3>1, <3>2, <3>4, <3>5 DEF TypeOK
  <2>2. CASE err # "none"
    <3>1. UNCHANGED <<mem, kept>>
      BY <2>2 DEF Keep
    <3>2. TodoInv'
      BY <1>1, <1>4, <2>2, <3>1, TodoNone
    <3> QED
      BY <1>1, <1>4, <3>1, <3>2, Places3 DEF TypeOK, Outside, Spare
  <2> QED
    BY <2>1, <2>2
<1>6. TypeOK' /\ PlacesInv' /\ JobsInv' /\ HoldInv'
  <2>1. todo' \in Seq(Items)
    BY <1>4
  <2>2. /\ lent' \subseteq Cells /\ fed' \in Nat /\ fed <= fed' /\ kept' \in 0 .. fed'
        /\ pool' \in [Bufs -> {0, 1}] /\ \A b \in Bufs : Out(b) \/ pool'[b] = pool[b]
    BY <1>1, <1>4, <1>5 DEF TypeOK
  <2> QED
    BY <1>2, <1>4, <1>5, <2>1, <2>2, CallerStep
<1>7. DataInv'
  BY <1>1, <1>4, <1>5, SameData DEF writerVars
<1> QED
  BY <1>1, <1>4, <1>5, <1>6, <1>7, SameOut DEF BuffersInv

\* The method goes on to the next block, or to its end.
LEMMA TodoTail ==
  ASSUME TypeOK, TodoInv, todo # <<>>, todo' = Tail(todo) \/ todo' = <<>>, call' # "none",
         fed' = fed, \A c \in Cells : mem'[c] = mem[c], lent' = lent,
         \A k \in 2 .. Len(todo) : \A n : Cut(k) /\ n = Unit(k) => ~Active(n)',
         \/ kept' = 0
         \/ kept' = kept /\ ~Active(kept)' /\ mem'[Ibuf] = mem[Ibuf] /\ (err' = "none" => err = "none")
  PROVE  TodoInv' /\ todo' \in Seq(Items)
<1>1. todo' \in Seq(Items)
  <2>1. Tail(todo) \in Seq(Items)
    BY DEF TypeOK
  <2>2. <<>> \in Seq(Items)
    OBVIOUS
  <2> QED
    BY <2>1, <2>2
<1>2. ASSUME NEW k \in 1 .. Len(todo')
      PROVE  /\ todo'[k] = todo[k + 1] /\ k + 1 \in 2 .. Len(todo) /\ ItemOK(k + 1)
             /\ todo[k + 1] \in Items /\ todo[k + 1].from # Ibuf
             /\ Cut(k)' <=> Cut(k + 1)
             /\ Cut(k + 1) => Unit(k)' = Unit(k + 1) /\ todo[k + 1].from \in Cells
  <2>1. todo' # <<>>
    BY <1>1, <1>2
  <2>2. todo'[k] = todo[k + 1] /\ k + 1 \in 2 .. Len(todo) /\ todo[k + 1] \in Items
    BY <1>2, <2>1, SMTT(30) DEF TypeOK
  <2> DEFINE l == k + 1
  <2>3. l \in 1 .. Len(todo) /\ l # 1
    BY <2>2
  <2> HIDE DEF l
  <2>4. ItemOK(l) /\ todo[l].from # Ibuf
    BY <2>3 DEF TodoInv, ItemOK
  <2>5. ItemOK(k + 1) /\ todo[k + 1].from # Ibuf
    BY <2>4 DEF l
  <2>6. Cut(k)' <=> Cut(k + 1)
    BY <2>2 DEF Cut
  <2>7. Cut(k + 1) => Unit(k)' = Unit(k + 1) /\ todo[k + 1].from \in Cells
    BY <2>2, <2>5 DEF Cut, Unit, Items
  <2> QED
    BY <2>2, <2>5, <2>6, <2>7
<1>3. ASSUME NEW k \in 1 .. Len(todo') PROVE ItemOK(k)'
  <2>1. ItemOK(k + 1) /\ todo'[k] = todo[k + 1] /\ todo[k + 1].from # Ibuf
    BY <1>2
  <2>2. Cut(k)' => Unit(k)' \in 1 .. fed' /\ ~Active(Unit(k))'
    <3> SUFFICES ASSUME Cut(k)' PROVE Unit(k)' \in 1 .. fed' /\ ~Active(Unit(k))'
      OBVIOUS
    <3>1. Unit(k)' = Unit(k + 1) /\ Cut(k + 1) /\ k + 1 \in 2 .. Len(todo)
      BY <1>2
    <3>3. \A n : n = Unit(k + 1) => ~Active(n)'
      BY <3>1
    <3>4. ~Active(Unit(k))'
      BY <3>1, <3>3 DEF Active
    <3> QED
      BY <2>1, <3>1, <3>4 DEF ItemOK
  <2>3. Cut(k)' => kept' = 0 \/ Unit(k)' # kept'
    BY <1>2, <2>1 DEF ItemOK
  <2>4. Cut(k)' => Unit(k)' # kept'
    BY <2>2, <2>3
  <2> QED
    BY <1>2, <2>1, <2>2, <2>4, Places3 DEF ItemOK, Cut
<1>4. ASSUME NEW k \in 1 .. Len(todo'), NEW l \in 1 .. Len(todo'), Cut(k)', Cut(l)',
             Unit(k)' = Unit(l)'
      PROVE  k = l
  <2>1. /\ Cut(k + 1) /\ Cut(l + 1) /\ Unit(k + 1) = Unit(l + 1)
        /\ k + 1 \in 1 .. Len(todo) /\ l + 1 \in 1 .. Len(todo)
    BY <1>2, <1>4
  <2>2. k + 1 = l + 1
    BY <2>1 DEF TodoInv
  <2> QED
    BY <2>2
<1>5. kept' # 0 => ~Active(kept)' /\ (err' = "none" \/ todo' # <<>> => mem'[Ibuf].body = kept')
  BY DEF TodoInv, Active
<1> QED
  BY <1>1, <1>3, <1>4, <1>5 DEF TodoInv

LEMMA WriteSyncKeeps == ASSUME BuffersInv, WriteSync PROVE BuffersInv'
<1>1. TypeOK /\ PlacesInv /\ JobsInv /\ DataInv /\ TodoInv /\ HoldInv /\ WrittenAsGiven
  BY DEF BuffersInv
<1>2. /\ hold = NoJob /\ todo # <<>> /\ call # "none" /\ todo[1].how = "sync" /\ ItemOK(1)
  BY <1>1, HeadIs DEF WriteSync
<1>3. mem[Ibuf].body = kept /\ mem[Ibuf] \in Content
  BY <1>1, <1>2, Places3 DEF ItemOK, TodoInv, TypeOK
<1>4. PICK obuf \in Gettable(NoBuf) :
        /\ mem' = [mem EXCEPT ![obuf] = Scribble, ![Ibuf] = Scribble]
        /\ \/ /\ out' = <<kept, Chunk(mem[Ibuf].body, mem[Ibuf].body)>>
              /\ pool' = [pool EXCEPT ![obuf] = IF @ > 0 THEN @ ELSE 1]
              /\ err' = err /\ todo' = Tail(todo)
           \/ out' = out /\ pool' = Without({obuf}) /\ err' = "io" /\ todo' = <<>>
  BY DEF WriteSync
<1>5. kept' = 0 /\ UNCHANGED <<jobs, writerVars, call, hold, lent, fed>>
  BY DEF WriteSync, histVars
<1>6. obuf \in Bufs /\ Out(obuf) /\ obuf \in Memory /\ obuf # Ibuf /\ obuf \notin Cells
  BY <1>1, GettableIsOut, Places3
<1>7. /\ mem' \in [Memory -> Content] /\ \A c \in Cells : mem'[c] = mem[c]
      /\ Outside({obuf, Ibuf}) /\ Spare({obuf, Ibuf})
  BY <1>1, <1>4, <1>5, <1>6, Contents, Places3 DEF TypeOK, Outside, Spare
<1>8. pool' \in [Bufs -> {0, 1}] /\ \A b \in Bufs : Out(b) \/ pool'[b] = pool[b]
  BY <1>1, <1>4, <1>6, WithoutIs DEF TypeOK
<1>9. TodoInv' /\ todo' \in Seq(Items)
  <2>1. \A k \in 2 .. Len(todo) : \A n : Cut(k) /\ n = Unit(k) => ~Active(n)'
    BY <1>1, <1>5 DEF TodoInv, ItemOK, Active
  <2> QED
    BY <1>1, <1>2, <1>4, <1>5, <1>7, <2>1, TodoTail
<1>10. TypeOK' /\ PlacesInv' /\ JobsInv' /\ HoldInv'
  <2>1. lent' \subseteq Cells /\ fed' \in Nat /\ fed <= fed' /\ kept' \in 0 .. fed'
    BY <1>1, <1>5 DEF TypeOK
  <2> QED
    BY <1>2, <1>5, <1>7, <1>8, <1>9, <2>1, CallerStep
<1>11. DataInv'
  BY <1>1, <1>4, <1>5, <1>7, SameData DEF writerVars
<1>12. WrittenAsGiven'
  BY <1>1, <1>3, <1>4 DEF WrittenAsGiven
<1> QED
  BY <1>9, <1>10, <1>11, <1>12 DEF BuffersInv

LEMMA TakesBackIs ==
  ASSUME TypeOK, NEW X \in SUBSET Cells, TakesBack(X)
  PROVE  /\ mem' \in [Memory -> Content] /\ mem'[Ibuf] = mem[Ibuf]
         /\ \A b \in Memory \ X : mem'[b] = mem[b]
  BY Contents, Places3 DEF TypeOK, TakesBack

LEMMA ReturnQueuedKeeps == ASSUME BuffersInv, ReturnQueued PROVE BuffersInv'
<1>1. TypeOK /\ PlacesInv /\ JobsInv /\ DataInv /\ TodoInv /\ HoldInv /\ WrittenAsGiven
  BY DEF BuffersInv
<1>2. /\ hold = NoJob /\ todo = <<>> /\ todo' = <<>>
      /\ UNCHANGED <<pool, jobs, writerVars, err, kept, hold, out, lent, fed>>
  BY DEF ReturnQueued, Behind, histVars
<1>3. /\ mem' \in [Memory -> Content] /\ mem'[Ibuf] = mem[Ibuf]
      /\ Outside(Unlent) /\ Spare(Unlent)
  <2>1. Unlent \in SUBSET Cells
    BY DEF Unlent
  <2>2. /\ mem' \in [Memory -> Content] /\ mem'[Ibuf] = mem[Ibuf]
        /\ \A b \in Memory \ Unlent : mem'[b] = mem[b]
    BY <1>1, <2>1, TakesBackIs DEF ReturnQueued
  <2> QED
    BY <1>2, <2>2, Places3 DEF Outside, Spare, Unlent
<1>4. TypeOK' /\ PlacesInv' /\ JobsInv' /\ HoldInv'
  <2>1. todo' \in Seq(Items)
    BY <1>2
  <2>2. /\ lent' \subseteq Cells /\ fed' \in Nat /\ fed <= fed' /\ kept' \in 0 .. fed'
        /\ pool' \in [Bufs -> {0, 1}] /\ \A b \in Bufs : Out(b) \/ pool'[b] = pool[b]
    BY <1>1, <1>2 DEF TypeOK
  <2> QED
    BY <1>2, <1>3, <2>1, <2>2, CallerStep
<1>5. DataInv'
  BY <1>1, <1>2, <1>3, SameData DEF writerVars
<1>6. TodoInv'
  BY <1>1, <1>2, <1>3, TodoNone
<1> QED
  BY <1>1, <1>2, <1>4, <1>5, <1>6, SameOut DEF BuffersInv

\* Behind the join no goroutine reads or writes a block any more.
LEMMA DrainedIs ==
  ASSUME TypeOK, JobsInv, Drained
  PROVE  chan = <<>> /\ stage = "range" /\ \A j \in jobs : j.step = "put"
<1>1. chan = <<>> /\ Len(chan) = 0 /\ stage = "range"
  BY DEF Drained, NoEntry, Entry, JobsInv
<1>2. ASSUME NEW j \in jobs PROVE j.step = "put"
  BY <1>1 DEF JobsInv, Awaited
<1> QED
  BY <1>1, <1>2

LEMMA DataIdle ==
  ASSUME TypeOK, JobsInv, Drained, hold = NoJob, UNCHANGED <<jobs, writerVars, hold>>
  PROVE  DataInv'
<1>1. chan' = <<>> /\ stage' = "range" /\ \A j \in jobs : j.step = "put"
  BY DrainedIs DEF writerVars
<1>2. Holding'
  BY DEF Holding
<1>3. Running'
  BY <1>1 DEF Running, Right
<1> QED
  BY <1>2, <1>3 DEF DataInv

LEMMA FlushedKeeps == ASSUME BuffersInv, Flushed PROVE BuffersInv'
<1>1. TypeOK /\ PlacesInv /\ JobsInv /\ DataInv /\ TodoInv /\ HoldInv /\ WrittenAsGiven
  BY DEF BuffersInv
<1>2. /\ hold = NoJob /\ todo' = <<>> /\ lent' = {}
      /\ UNCHANGED <<pool, jobs, writerVars, err, kept, hold, out, fed>>
  BY DEF Flushed, Behind
<1>3. mem' \in [Memory -> Content] /\ mem'[Ibuf] = mem[Ibuf]
  BY <1>1, TakesBackIs DEF Flushed
<1>4. TypeOK' /\ PlacesInv' /\ JobsInv' /\ HoldInv'
  <2>1. todo' \in Seq(Items) /\ lent' \subseteq Cells
    BY <1>2
  <2>2. /\ fed' \in Nat /\ fed <= fed' /\ kept' \in 0 .. fed'
        /\ pool' \in [Bufs -> {0, 1}] /\ \A b \in Bufs : Out(b) \/ pool'[b] = pool[b]
    BY <1>1, <1>2 DEF TypeOK
  <2> QED
    BY <1>2, <1>3, <2>1, <2>2, CallerStep
<1>5. DataInv'
  <2>1. CASE err # "none"
    BY <1>2, <2>1 DEF DataInv
  <2>2. CASE Drained
    BY <1>1, <1>2, <2>2, DataIdle
  <2> QED
    BY <2>1, <2>2 DEF Flushed
<1>6. TodoInv'
  BY <1>1, <1>2, <1>3, TodoNone
<1> QED
  BY <1>1, <1>2, <1>4, <1>5, <1>6, SameOut DEF BuffersInv

\* What closeIndex writes behind the blocks.
LEMMA CloseMarksIs ==
  ASSUME TypeOK, PlacesInv, WrittenAsGiven, NEW index \in BOOLEAN, CloseMarks(index)
  PROVE  /\ mem' \in [Memory -> Content] /\ WrittenAsGiven' /\ err' # "none"
         /\ pool' \in [Bufs -> {0, 1}] /\ \A b \in Bufs : Out(b) \/ pool'[b] = pool[b]
<1> DEFINE indexed == IF index THEN [mem EXCEPT ![Ibuf] = Chunk(IndexUnit, IndexUnit)] ELSE mem
<1>1. /\ indexed \in [Memory -> Content]
      /\ index => indexed[Ibuf] = Chunk(IndexUnit, IndexUnit)
  <2>1. Chunk(IndexUnit, IndexUnit) \in Content
    BY BuffersAssumption, Contents DEF IndexUnit
  <2> QED
    BY <2>1, Places3 DEF TypeOK
<1>2. \/ /\ mem' = indexed /\ pool' = pool /\ err' = "closed"
         /\ out' = IF index THEN <<IndexUnit, mem'[Ibuf]>> ELSE out
      \/ /\ \E tmp \in PadBuffer(index) :
              /\ mem' = [indexed EXCEPT ![tmp] = Scribble]
              /\ pool' = IF tmp = Ibuf THEN pool ELSE [pool EXCEPT ![tmp] = IF @ > 0 THEN @ ELSE 1]
         /\ err' = "closed" /\ out' = IF index THEN <<IndexUnit, mem'[Ibuf]>> ELSE out
      \/ UNCHANGED <<mem, pool, out>> /\ err' = "io"
  BY DEF CloseMarks
<1>3. pool \in [Bufs -> {0, 1}] /\ mem \in [Memory -> Content]
  BY DEF TypeOK
<1> HIDE DEF indexed
<1>4. CASE /\ mem' = indexed /\ pool' = pool /\ err' = "closed"
           /\ out' = IF index THEN <<IndexUnit, mem'[Ibuf]>> ELSE out
  BY <1>1, <1>3, <1>4 DEF WrittenAsGiven
<1>5. ASSUME NEW tmp \in PadBuffer(index),
             mem' = [indexed EXCEPT ![tmp] = Scribble],
             pool' = IF tmp = Ibuf THEN pool ELSE [pool EXCEPT ![tmp] = IF @ > 0 THEN @ ELSE 1],
             err' = "closed", out' = IF index THEN <<IndexUnit, mem'[Ibuf]>> ELSE out
      PROVE  /\ mem' \in [Memory -> Content] /\ WrittenAsGiven' /\ err' # "none"
             /\ pool' \in [Bufs -> {0, 1}] /\ \A b \in Bufs : Out(b) \/ pool'[b] = pool[b]
  <2>1. CASE index
    <3>1. tmp \in Bufs /\ Out(tmp) /\ tmp \in Memory /\ tmp # Ibuf
      BY <1>5, <2>1, GettableIsOut, Places3 DEF PadBuffer
    <3>2. mem'[Ibuf] = Chunk(IndexUnit, IndexUnit)
      BY <1>1, <1>5, <2>1, <3>1, Places3
    <3>3. WrittenAsGiven'
      BY <1>5, <2>1, <3>2 DEF WrittenAsGiven
    <3> QED
      BY <1>1, <1>3, <1>5, <3>1, <3>3, Contents
  <2>2. CASE ~index
    <3>1. tmp = Ibuf
      BY <1>5, <2>2 DEF PadBuffer
    <3>2. WrittenAsGiven'
      BY <1>5, <2>2 DEF WrittenAsGiven
    <3> QED
      BY <1>1, <1>3, <1>5, <3>1, <3>2, Contents
  <2> QED
    BY <2>1, <2>2
<1>6. CASE UNCHANGED <<mem, pool, out>> /\ err' = "io"
  BY <1>3, <1>6 DEF WrittenAsGiven
<1> QED
  BY <1>2, <1>4, <1>5, <1>6

LEMMA ClosedKeeps == ASSUME BuffersInv, Closed PROVE BuffersInv'
<1>1. TypeOK /\ PlacesInv /\ JobsInv /\ DataInv /\ TodoInv /\ HoldInv /\ WrittenAsGiven
  BY DEF BuffersInv
<1>2. /\ hold = NoJob /\ todo' = <<>> /\ lent' = {}
      /\ UNCHANGED <<jobs, writerVars, kept, hold, fed>>
  BY DEF Closed, Behind
<1>3. /\ mem' \in [Memory -> Content] /\ WrittenAsGiven' /\ err' # "none"
      /\ pool' \in [Bufs -> {0, 1}] /\ \A b \in Bufs : Out(b) \/ pool'[b] = pool[b]
  <2>1. CASE err = "none"
    BY <1>1, <2>1, CloseMarksIs DEF Closed
  <2>2. CASE err # "none"
    BY <1>1, <2>2, SameOut DEF Closed, TypeOK
  <2> QED
    BY <2>1, <2>2
<1>4. TypeOK' /\ PlacesInv' /\ JobsInv' /\ HoldInv'
  <2>1. todo' \in Seq(Items) /\ lent' \subseteq Cells
    BY <1>2
  <2>2. fed' \in Nat /\ fed <= fed' /\ kept' \in 0 .. fed'
    BY <1>1, <1>2 DEF TypeOK
  <2> QED
    BY <1>2, <1>3, <2>1, <2>2, CallerStep
<1>5. DataInv'
  BY <1>3 DEF DataInv
<1>6. TodoInv'
  BY <1>1, <1>2, <1>3, TodoNone
<1> QED
  BY <1>3, <1>4, <1>5, <1>6 DEF BuffersInv

LEMMA FreshKeeps == ASSUME BuffersInv, Fresh PROVE BuffersInv'
<1>1. TypeOK /\ PlacesInv /\ JobsInv /\ DataInv /\ TodoInv /\ HoldInv /\ WrittenAsGiven
  BY DEF BuffersInv
<1>2. /\ hold = NoJob /\ todo' = <<>> /\ kept' = 0 /\ Drained
      /\ UNCHANGED <<mem, pool, jobs, writerVars, hold, out, lent, fed>>
  BY DEF Fresh, Behind
<1>3. TypeOK' /\ PlacesInv' /\ JobsInv' /\ HoldInv'
  <2>1. todo' \in Seq(Items)
    BY <1>2
  <2>2. /\ lent' \subseteq Cells /\ fed' \in Nat /\ fed <= fed' /\ kept' \in 0 .. fed'
        /\ mem' \in [Memory -> Content]
        /\ pool' \in [Bufs -> {0, 1}] /\ \A b \in Bufs : Out(b) \/ pool'[b] = pool[b]
    BY <1>1, <1>2 DEF TypeOK
  <2> QED
    BY <1>2, <2>1, <2>2, CallerStep
<1>4. DataInv'
  BY <1>1, <1>2, DataIdle
<1>5. TodoInv'
  BY <1>1, <1>2, TodoNone
<1> QED
  BY <1>1, <1>2, <1>3, <1>4, <1>5, SameOut DEF BuffersInv

-----------------------------------------------------------------------------
(* The block is queued.                                                    *)

LEMMA AppendIs ==
  ASSUME TypeOK, NEW e \in Entries, chan' = Append(chan, e)
  PROVE  /\ chan' \in Seq(Entries) /\ Len(chan') = Len(chan) + 1 /\ Len(chan) \in Nat
         /\ \A i \in 1 .. Len(chan) : chan'[i] = chan[i]
         /\ chan'[Len(chan) + 1] = e
         /\ \A i \in 1 .. Len(chan') : i \in 1 .. Len(chan) \/ i = Len(chan) + 1
  BY DEF TypeOK

LEMMA QueueKeeps == ASSUME BuffersInv, Queue PROVE BuffersInv'
<1> DEFINE user == hold.obuf = NoBuf
           from == todo[1].from
           e == Entry(hold.n, IF user THEN hold.inbuf ELSE NoBuf)
<1>1. TypeOK /\ PlacesInv /\ JobsInv /\ DataInv /\ TodoInv /\ HoldInv /\ WrittenAsGiven
  BY DEF BuffersInv
<1>2. /\ hold # NoJob /\ hold \in Jobs /\ todo # <<>> /\ Head(todo) = todo[1]
      /\ 1 \in 1 .. Len(todo)
      /\ hold.n \in 1 .. fed /\ ~Active(hold.n) /\ hold.step = "crc"
      /\ IF user THEN hold.inbuf # NoBuf ELSE Shape(hold)
  BY <1>1 DEF Queue, HoldInv, TypeOK
<1>3. /\ chan' = Append(chan, e) /\ jobs' = IF user THEN jobs ELSE jobs \cup {hold}
      /\ hold' = NoJob /\ todo' = Rest
      /\ IF from = Ibuf THEN kept' = 0 /\ TakesBack({Ibuf}) ELSE UNCHANGED <<kept, mem>>
      /\ UNCHANGED <<pool, taken, stage, err, call, out, lent, fed>>
  BY <1>2 DEF Queue, histVars
<1>4. e \in Entries /\ e.n = hold.n /\ e.buf = IF user THEN hold.inbuf ELSE NoBuf
  BY <1>2 DEF Entry, Entries, Jobs
<1> HIDE DEF e
<1>5. /\ chan' \in Seq(Entries) /\ Len(chan') = Len(chan) + 1 /\ Len(chan) \in Nat
      /\ \A i \in 1 .. Len(chan) : chan'[i] = chan[i]
      /\ chan'[Len(chan) + 1] = e
      /\ \A i \in 1 .. Len(chan') : i \in 1 .. Len(chan) \/ i = Len(chan) + 1
  BY <1>1, <1>3, <1>4, AppendIs
<1>6. mem' \in [Memory -> Content] /\ \A b \in Memory \ {Ibuf} : mem'[b] = mem[b]
  BY <1>1, <1>3, Contents DEF TypeOK, TakesBack
<1>7. Outside({Ibuf}) /\ \A c \in Cells : mem'[c] = mem[c]
  BY <1>3, <1>6, Places3 DEF Outside
<1>8. \A n : Active(n)' => Active(n) \/ n = hold.n
  BY <1>3 DEF Active
<1>9. TodoInv' /\ todo' \in Seq(Items)
  <2>1. todo' = Tail(todo) \/ todo' = <<>>
    BY <1>3 DEF Rest
  <2>2. call' # "none"
    BY <1>1, <1>2, <1>3 DEF TodoInv
  <2>3. \A k \in 2 .. Len(todo) : \A n : Cut(k) /\ n = Unit(k) => ~Active(n)'
    BY <1>1, <1>2, <1>8 DEF TodoInv, ItemOK, HoldInv
  <2>4. \/ kept' = 0
        \/ kept' = kept /\ ~Active(kept)' /\ mem'[Ibuf] = mem[Ibuf] /\ (err' = "none" => err = "none")
    <3>1. CASE from = Ibuf
      BY <1>3, <3>1
    <3>2. CASE from # Ibuf /\ kept # 0
      <4>1. kept # hold.n /\ ~Active(kept)
        BY <1>1, <1>2, <3>2 DEF HoldInv, TodoInv
      <4>2. \A n : n = kept => ~Active(n)'
        BY <1>8, <4>1
      <4>3. kept' = kept /\ ~Active(kept)'
        BY <1>3, <3>2, <4>2 DEF Active
      <4> QED
        BY <1>3, <3>2, <4>3
    <3>3. CASE from # Ibuf /\ kept = 0
      BY <1>3, <3>3
    <3> QED
      BY <3>1, <3>2, <3>3
  <2> QED
    BY <1>1, <1>2, <1>3, <1>7, <2>1, <2>2, <2>3, <2>4, TodoTail
<1>10. TypeOK'
  <2>1. jobs' \subseteq Jobs /\ hold' \in Jobs
    BY <1>1, <1>2, <1>3 DEF TypeOK, NoJob, Job, Jobs, Steps
  <2>2. kept' \in 0 .. fed'
    BY <1>1, <1>3 DEF TypeOK
  <2> QED
    BY <1>1, <1>3, <1>5, <1>6, <1>9, <2>1, <2>2 DEF TypeOK
<1>11. \A b \in Bufs : ~Has(hold', b)
  BY <1>3, Places3 DEF Has, NoJob, Job
<1>12. PlacesInv'
  <2>1. CASE user
    <3>1. jobs' = jobs /\ hold.inbuf \in Bufs /\ Has(hold, hold.inbuf) /\ e.buf = hold.inbuf
      BY <1>2, <1>3, <1>4, <2>1 DEF Has, Jobs
    <3>2. \A b \in Bufs : InChan(b)' <=> InChan(b) \/ b = hold.inbuf
      BY <1>5, <3>1 DEF InChan
    <3>3. \A i, k \in 1 .. Len(chan') :
            chan'[i].buf = chan'[k].buf /\ chan'[i].buf # NoBuf => i = k
      <4>1. \A i \in 1 .. Len(chan) : chan[i].buf # hold.inbuf
        BY <1>1, <3>1 DEF PlacesInv, InChan
      <4> QED
        BY <1>1, <1>5, <3>1, <4>1 DEF PlacesInv
    <3> QED
      BY <1>1, <1>3, <1>11, <3>1, <3>2, <3>3 DEF PlacesInv, Has
  <2>2. CASE ~user
    <3>1. jobs' = jobs \cup {hold} /\ e.buf = NoBuf
      BY <1>3, <1>4, <2>2
    <3>2. \A b \in Bufs : InChan(b)' <=> InChan(b)
      BY <1>5, <3>1, Places3 DEF InChan
    <3>3. \A i, k \in 1 .. Len(chan') :
            chan'[i].buf = chan'[k].buf /\ chan'[i].buf # NoBuf => i = k
      BY <1>1, <1>5, <3>1 DEF PlacesInv
    <3> QED
      BY <1>1, <1>3, <1>11, <3>1, <3>2, <3>3 DEF PlacesInv, Has
  <2> QED
    BY <2>1, <2>2
<1>13. JobsInv'
  <2>1. \A j \in jobs' : Shape(j)' /\ j.n \in 1 .. fed'
    BY <1>1, <1>2, <1>3 DEF JobsInv, Shape
  <2>2. \A j \in jobs' : j.step # "put" => Awaited(j.n)'
    <3>1. ASSUME NEW j \in jobs, j.step # "put" PROVE Awaited(j.n)'
      <4>1. Awaited(j.n)
        BY <1>1, <3>1 DEF JobsInv
      <4> QED
        BY <1>3, <1>5, <4>1 DEF Awaited
    <3>2. ~user => \A j : j = hold => Awaited(j.n)'
      BY <1>4, <1>5 DEF Awaited
    <3> QED
      BY <1>3, <3>1, <3>2
  <2>3. \A j, k \in jobs' : j.step # "put" /\ k.step # "put" /\ j.n = k.n => j = k
    BY <1>1, <1>2, <1>3 DEF JobsInv, Active
  <2>4. \A i \in 1 .. Len(chan') : chan'[i].n # 0
    BY <1>1, <1>2, <1>4, <1>5 DEF JobsInv
  <2> QED
    BY <1>1, <1>3, <2>1, <2>2, <2>3, <2>4 DEF JobsInv
<1>14. DataInv'
  <2> SUFFICES ASSUME err = "none" PROVE Holding' /\ Running'
    BY <1>3 DEF DataInv
  <2>1. Holding /\ Running
    BY <1>1 DEF DataInv
  <2>2. \A b \in {Ibuf} : b \notin lent /\ \A j \in Jobs : ~Has(j, b)
    BY <1>1, Places3 DEF TypeOK, Has, Jobs
  <2>3. \A j \in jobs : Right(j)'
    BY <1>1, <1>7, <2>1, <2>2, RightKept DEF Running, JobsInv, TypeOK
  <2>4. ~user => \A j : j = hold => Right(j)'
    BY <1>2, <1>7, <2>1, <2>2, RightKept DEF Holding
  <2>5. \A j \in jobs' : Right(j)'
    BY <1>3, <2>3, <2>4
  <2>6. \A i \in 1 .. Len(chan') : chan'[i].buf # NoBuf =>
          mem'[chan'[i].buf] = Chunk(chan'[i].n, chan'[i].n)
    <3>1. ASSUME NEW i \in 1 .. Len(chan), chan[i].buf # NoBuf
          PROVE  mem'[chan[i].buf] = Chunk(chan[i].n, chan[i].n)
      BY <1>1, <1>6, <2>1, <3>1, ChanEntry, Places3 DEF Running
    <3>2. user => mem'[hold.inbuf] = Chunk(hold.n, hold.n)
      <4> SUFFICES ASSUME user PROVE mem'[hold.inbuf] = Chunk(hold.n, hold.n)
        OBVIOUS
      <4>1. hold.inbuf \in Bufs
        BY <1>2 DEF Jobs
      <4> QED
        BY <1>2, <1>6, <2>1, <4>1, Places3 DEF Holding
    <3> QED
      BY <1>4, <1>5, <3>1, <3>2
  <2>7. stage' = "write" => mem'[taken'.buf] = Chunk(taken'.n, taken'.n)
    <3> SUFFICES ASSUME stage = "write" PROVE mem'[taken.buf] = Chunk(taken.n, taken.n)
      BY <1>3
    <3>1. taken.buf \in Bufs
      BY <1>1 DEF TypeOK, Entries, JobsInv
    <3> QED
      BY <1>6, <2>1, <3>1, Places3 DEF Running
  <2> QED
    BY <1>3, <2>5, <2>6, <2>7 DEF Holding, Running
<1>15. HoldInv'
  BY <1>3 DEF HoldInv
<1> QED
  BY <1>1, <1>3, <1>9, <1>10, <1>12, <1>13, <1>14, <1>15, SameOut DEF BuffersInv

-----------------------------------------------------------------------------
(* The goroutines.                                                         *)

\* A goroutine j that changes its own buffers leaves the other blocks alone.
LEMMA OthersKept ==
  ASSUME TypeOK, PlacesInv, JobsInv, HoldInv, Holding, Running, NEW j \in jobs,
         NEW X \in SUBSET Bufs, \A b \in X : Has(j, b), Outside(X), UNCHANGED hold
  PROVE  /\ Holding'
         /\ \A l \in jobs : l # j => Right(l)'
         /\ \A i \in 1 .. Len(chan) : chan[i].buf # NoBuf =>
              mem'[chan[i].buf] = Chunk(chan[i].n, chan[i].n)
         /\ stage = "write" => mem'[taken.buf] = Chunk(taken.n, taken.n)
<1>1. \A b \in X : b \notin lent
  BY Places3 DEF TypeOK
<1>2. Holding'
  <2> SUFFICES ASSUME hold # NoJob
               PROVE  IF hold.obuf = NoBuf THEN mem'[hold.inbuf] = Chunk(hold.n, hold.n)
                      ELSE Right(hold)'
    BY DEF Holding, Right
  <2>1. CASE hold.obuf = NoBuf
    <3>1. hold.inbuf \in Bufs /\ Has(hold, hold.inbuf)
      BY <2>1 DEF HoldInv, Has, TypeOK, Jobs
    <3>2. hold.inbuf \notin X
      BY <3>1 DEF PlacesInv
    <3> QED
      BY <2>1, <3>1, <3>2, ChunkKept DEF Holding
  <2>2. CASE hold.obuf # NoBuf
    <3>1. \A b \in X : b \notin lent /\ ~Has(hold, b)
      BY <1>1 DEF PlacesInv
    <3>2. hold \in Jobs /\ Shape(hold) /\ Right(hold)
      BY <2>2 DEF TypeOK, HoldInv, Holding
    <3>3. \A l : l = hold => Right(l)'
      BY <3>1, <3>2, RightKept
    <3> QED
      BY <2>2, <3>3 DEF Right
  <2> QED
    BY <2>1, <2>2
<1>3. ASSUME NEW l \in jobs, l # j PROVE Right(l)'
  <2>1. \A b \in X : b \notin lent /\ ~Has(l, b)
    BY <1>1, <1>3 DEF PlacesInv
  <2> QED
    BY <2>1, RightKept DEF TypeOK, JobsInv, Running
<1>4. ASSUME NEW i \in 1 .. Len(chan), chan[i].buf # NoBuf
      PROVE  mem'[chan[i].buf] = Chunk(chan[i].n, chan[i].n)
  <2>1. chan[i].buf \in Bufs
    BY <1>4, ChanEntry
  <2>2. chan[i].buf \notin X
    BY <2>1 DEF PlacesInv, InChan
  <2> QED
    BY <1>4, <2>1, <2>2, ChunkKept DEF Running
<1>5. ASSUME stage = "write" PROVE mem'[taken.buf] = Chunk(taken.n, taken.n)
  <2>1. taken.buf \in Bufs
    BY <1>5 DEF TypeOK, Entries, JobsInv
  <2>2. taken.buf \notin X
    BY <2>1 DEF PlacesInv
  <2> QED
    BY <1>5, <2>1, <2>2, ChunkKept DEF Running
<1> QED
  BY <1>2, <1>3, <1>4, <1>5

\* Fewer goroutines have a block to hand over, and the calling goroutine is not
\* concerned.
LEMMA CallerKept ==
  ASSUME TypeOK, TodoInv, HoldInv, WrittenAsGiven, \A n : Active(n)' => Active(n),
         \A b \in Memory \ Bufs : mem'[b] = mem[b], err' = "none" => err = "none",
         UNCHANGED <<callVars, kept, lent, fed>>
  PROVE  TodoInv' /\ HoldInv' /\ (UNCHANGED out => WrittenAsGiven')
<1>1. \A c \in Cells \cup {Ibuf} : mem'[c] = mem[c]
  BY Places3
<1>2. fed' \in Nat /\ fed <= fed'
  BY DEF TypeOK
<1>3. TodoInv'
  BY <1>1, <1>2, SameTodo DEF callVars, TodoInv
<1>4. HoldInv'
  BY <1>1, <1>2, SameHold DEF callVars
<1> QED
  BY <1>3, <1>4, SameOut

\* A goroutine that goes on with its block.
LEMMA JobGoesOn ==
  ASSUME BuffersInv, NEW j \in jobs, NEW k \in Jobs, Becomes(j, k), j.step # "put",
         k.step # "put", k.n = j.n, \A b \in Bufs : Has(k, b) => Has(j, b), Shape(k),
         NEW X \in SUBSET Bufs, \A b \in X : Has(j, b), \A b \in Memory \ X : mem'[b] = mem[b],
         mem' \in [Memory -> Content], err = "none" /\ Right(j) => Right(k)',
         UNCHANGED <<pool, writerVars, err, kept, callVars, out, lent, fed>>
  PROVE  BuffersInv'
<1>1. TypeOK /\ PlacesInv /\ JobsInv /\ DataInv /\ TodoInv /\ HoldInv /\ WrittenAsGiven
  BY DEF BuffersInv
<1>2. jobs' = (jobs \ {j}) \cup {k}
  BY DEF Becomes
<1>3. \A n : Active(n)' => Active(n)
  BY <1>2 DEF Active
<1>4. Outside(X)
  BY DEF Outside
<1>5. TypeOK'
  BY <1>1, <1>2 DEF TypeOK, writerVars, callVars
<1>6. PlacesInv'
  BY <1>1, <1>2 DEF PlacesInv, Has, InChan, writerVars, callVars
<1>7. JobsInv'
  <2>1. \A l \in jobs' : Shape(l)' /\ l.n \in 1 .. fed'
    BY <1>1, <1>2 DEF JobsInv, Shape
  <2>2. \A l \in jobs' : l.step # "put" => Awaited(l.n)'
    BY <1>1, <1>2 DEF JobsInv, Awaited, writerVars
  <2>3. \A l, m \in jobs' : l.step # "put" /\ m.step # "put" /\ l.n = m.n => l = m
    BY <1>1, <1>2 DEF JobsInv
  <2> QED
    BY <1>1, <2>1, <2>2, <2>3 DEF JobsInv, writerVars
<1>8. DataInv'
  <2> SUFFICES ASSUME err = "none" PROVE Holding' /\ Running'
    BY DEF DataInv
  <2>1. Holding /\ Running
    BY <1>1 DEF DataInv
  <2>2. /\ Holding'
        /\ \A l \in jobs : l # j => Right(l)'
        /\ \A i \in 1 .. Len(chan) : chan[i].buf # NoBuf =>
             mem'[chan[i].buf] = Chunk(chan[i].n, chan[i].n)
        /\ stage = "write" => mem'[taken.buf] = Chunk(taken.n, taken.n)
    BY <1>1, <1>4, <2>1, OthersKept DEF callVars
  <2>3. Right(k)'
    BY <2>1 DEF Running
  <2> QED
    BY <1>2, <2>2, <2>3 DEF Running, writerVars
<1>9. TodoInv' /\ HoldInv' /\ WrittenAsGiven'
  BY <1>1, <1>3, CallerKept
<1> QED
  BY <1>5, <1>6, <1>7, <1>8, <1>9 DEF BuffersInv

LEMMA SumKeeps == ASSUME BuffersInv, NEW j \in jobs, Sum(j) PROVE BuffersInv'
<1>1. TypeOK /\ JobsInv /\ DataInv /\ j \in Jobs /\ Shape(j)
  BY DEF BuffersInv, TypeOK, JobsInv
<1> DEFINE next == [j EXCEPT !.crc = mem[j.src].body, !.step = "encode"]
<1>2. /\ j.step = "crc" /\ Becomes(j, next)
      /\ UNCHANGED <<mem, pool, writerVars, err, kept, callVars, out, lent, fed>>
  BY DEF Sum, histVars
<1>3. j.src \in Memory
  BY <1>1, <1>2, Places3 DEF Shape, Jobs, Memory
<1>4. mem[j.src].body \in Nat
  BY <1>1, <1>3 DEF TypeOK, Content
<1>5. PICK k \in Jobs :
        /\ k.n = j.n /\ k.src = j.src /\ k.inbuf = j.inbuf /\ k.obuf = j.obuf
        /\ k.crc = mem[j.src].body /\ k.step = "encode" /\ Becomes(j, k)
  <2>1. /\ next \in Jobs /\ next.n = j.n /\ next.src = j.src /\ next.inbuf = j.inbuf
        /\ next.obuf = j.obuf /\ next.crc = mem[j.src].body /\ next.step = "encode"
    BY <1>1, <1>4 DEF Jobs, Steps
  <2> HIDE DEF next
  <2> QED
    BY <1>2, <2>1
<1>6. Shape(k)
  BY <1>1, <1>2, <1>5 DEF Shape
<1>7. Right(j) => Right(k)'
  BY <1>2, <1>5 DEF Right
<1>8. \A b \in Bufs : Has(k, b) => Has(j, b)
  BY <1>5 DEF Has
<1>9. mem' \in [Memory -> Content]
  BY <1>1, <1>2 DEF TypeOK
<1> QED
  <2>1. {} \in SUBSET Bufs /\ (\A b \in {} : Has(j, b)) /\ \A b \in Memory \ {} : mem'[b] = mem[b]
    BY <1>2
  <2> QED
    BY <1>2, <1>5, <1>6, <1>7, <1>8, <1>9, <2>1, JobGoesOn

LEMMA EncodeKeeps == ASSUME BuffersInv, NEW j \in jobs, Encode(j) PROVE BuffersInv'
<1>1. TypeOK /\ PlacesInv /\ JobsInv /\ DataInv /\ j \in Jobs /\ Shape(j)
  BY DEF BuffersInv, TypeOK, JobsInv
<1>2. /\ j.step = "encode"
      /\ UNCHANGED <<pool, writerVars, err, kept, callVars, out, lent, fed>>
  BY DEF Encode, histVars
<1>3. /\ j.src \in Memory /\ j.obuf \in Bufs /\ j.obuf \in Memory /\ Has(j, j.obuf)
      /\ j.crc \in Nat /\ mem[j.src] \in Content /\ j.obuf # j.inbuf
  <2>1. j.src \in Memory
    BY <1>1, <1>2, Places3 DEF Shape, Jobs, Memory
  <2> QED
    BY <1>1, <1>2, <2>1, Places3 DEF Shape, Jobs, Has, TypeOK
<1>4. CASE mem' = [mem EXCEPT ![j.obuf] = Chunk(j.crc, mem[j.src].body)]
           /\ Becomes(j, [j EXCEPT !.step = "send"])
  <2> DEFINE next == [j EXCEPT !.step = "send"]
  <2>1. PICK k \in Jobs :
          k.n = j.n /\ k.inbuf = j.inbuf /\ k.obuf = j.obuf /\ k.step = "send" /\ Becomes(j, k)
    <3>1. /\ next \in Jobs /\ next.n = j.n /\ next.inbuf = j.inbuf /\ next.obuf = j.obuf
          /\ next.step = "send"
      BY <1>1 DEF Jobs, Steps
    <3> HIDE DEF next
    <3> QED
      BY <1>4, <3>1 DEF next
  <2>3. Chunk(j.crc, mem[j.src].body) \in Content
    BY <1>3, Contents DEF Content
  <2>4. /\ mem' \in [Memory -> Content] /\ mem'[j.obuf] = Chunk(j.crc, mem[j.src].body)
        /\ \A b \in Memory \ {j.obuf} : mem'[b] = mem[b]
    BY <1>1, <1>3, <1>4, <2>3 DEF TypeOK
  <2>5. Shape(k)
    BY <1>1, <1>2, <2>1 DEF Shape
  <2>6. Right(j) => Right(k)'
    BY <1>2, <2>1, <2>4 DEF Right
  <2>7. \A b \in Bufs : Has(k, b) => Has(j, b)
    BY <2>1 DEF Has
  <2>8. {j.obuf} \in SUBSET Bufs /\ \A b \in {j.obuf} : Has(j, b)
    BY <1>3
  <2> QED
    BY <1>2, <2>1, <2>4, <2>5, <2>6, <2>7, <2>8, JobGoesOn
<1>5. CASE j.inbuf # NoBuf /\ mem' = NotCompressed(j).mem /\ Becomes(j, NotCompressed(j).job)
  <2> DEFINE next == [j EXCEPT !.obuf = j.inbuf, !.inbuf = j.obuf, !.step = "send"]
  <2>1. PICK k \in Jobs :
          k.n = j.n /\ k.inbuf = j.obuf /\ k.obuf = j.inbuf /\ k.step = "send" /\ Becomes(j, k)
    <3>1. /\ next \in Jobs /\ next.n = j.n /\ next.inbuf = j.obuf /\ next.obuf = j.inbuf
          /\ next.step = "send"
      BY <1>1 DEF Jobs, Steps
    <3>2. Becomes(j, next)
      BY <1>5 DEF NotCompressed
    <3> HIDE DEF next
    <3> QED
      BY <3>1, <3>2
  <2>2. mem' = [mem EXCEPT ![j.inbuf] = Chunk(j.crc, @.body), ![j.obuf] = Scribble]
    BY <1>5 DEF NotCompressed
  <2>3. j.inbuf \in Bufs /\ j.inbuf \in Memory /\ Has(j, j.inbuf) /\ mem[j.inbuf] \in Content
    BY <1>1, <1>5, Places3 DEF Jobs, Has, TypeOK
  <2>4. Chunk(j.crc, mem[j.inbuf].body) \in Content /\ Scribble \in Content
    BY <1>3, <2>3, Contents DEF Content
  <2>5. /\ mem' \in [Memory -> Content] /\ mem'[j.inbuf] = Chunk(j.crc, mem[j.inbuf].body)
        /\ \A b \in Memory \ {j.inbuf, j.obuf} : mem'[b] = mem[b]
    BY <1>1, <1>3, <2>2, <2>3, <2>4 DEF TypeOK
  <2>6. Shape(k)
    BY <1>3, <1>5, <2>1 DEF Shape
  <2>7. Right(j) => Right(k)'
    BY <1>1, <1>2, <1>5, <2>1, <2>5 DEF Right, Shape
  <2>8. \A b \in Bufs : Has(k, b) => Has(j, b)
    BY <2>1 DEF Has
  <2>9. {j.inbuf, j.obuf} \in SUBSET Bufs /\ \A b \in {j.inbuf, j.obuf} : Has(j, b)
    BY <1>3, <2>3
  <2> QED
    BY <1>2, <2>1, <2>5, <2>6, <2>7, <2>8, <2>9, JobGoesOn
<1> QED
  BY <1>4, <1>5 DEF Encode

LEMMA PutIs ==
  ASSUME TypeOK, NEW b \in Bufs, pool[b] = 0, Put(b)
  PROVE  /\ pool' \in [Bufs -> {0, 1}] /\ mem' \in [Memory -> Content]
         /\ \A c \in Bufs : c # b => pool'[c] = pool[c]
         /\ \A c \in Memory \ {b} : mem'[c] = mem[c]
<1>1. b \in Memory /\ Scribble \in Content
  BY Places3, Contents
<1>2. pool' = [pool EXCEPT ![b] = 1]
  BY DEF Put, TypeOK
<1> QED
  BY <1>1, <1>2 DEF Put, TypeOK

LEMMA PutSpareKeeps == ASSUME BuffersInv, NEW j \in jobs, PutSpare(j) PROVE BuffersInv'
<1> DEFINE b == j.inbuf
<1>1. /\ TypeOK /\ PlacesInv /\ JobsInv /\ DataInv /\ TodoInv /\ HoldInv /\ WrittenAsGiven
      /\ j \in Jobs /\ Shape(j)
  BY DEF BuffersInv, TypeOK, JobsInv
<1>2. /\ j.step = "put" /\ Put(b) /\ jobs' = jobs \ {j}
      /\ UNCHANGED <<writerVars, err, kept, callVars, out, lent, fed>>
  BY DEF PutSpare, histVars
<1>3. b \in Bufs /\ Has(j, b)
  BY <1>1, <1>2 DEF Shape, Jobs, Has
<1>4. pool[b] = 0
  BY <1>1, <1>3 DEF PlacesInv
<1> HIDE DEF b
<1>5. /\ pool' \in [Bufs -> {0, 1}] /\ mem' \in [Memory -> Content]
      /\ \A c \in Bufs : c # b => pool'[c] = pool[c]
      /\ \A c \in Memory \ {b} : mem'[c] = mem[c]
  BY <1>1, <1>2, <1>3, <1>4, PutIs
<1>6. TypeOK'
  BY <1>1, <1>2, <1>5 DEF TypeOK, writerVars, callVars
<1>7. PlacesInv'
  BY <1>1, <1>2, <1>3, <1>5 DEF PlacesInv, Has, InChan, writerVars, callVars
<1>8. JobsInv'
  <2>1. \A l \in jobs' : Shape(l)' /\ l.n \in 1 .. fed'
    BY <1>1, <1>2 DEF JobsInv, Shape
  <2>2. \A l \in jobs' : l.step # "put" => Awaited(l.n)'
    BY <1>1, <1>2 DEF JobsInv, Awaited, writerVars
  <2> QED
    BY <1>1, <1>2, <2>1, <2>2 DEF JobsInv, writerVars
<1>9. DataInv'
  <2> SUFFICES ASSUME err = "none" PROVE Holding' /\ Running'
    BY <1>2 DEF DataInv
  <2>1. Holding /\ Running
    BY <1>1 DEF DataInv
  <2>2. Outside({b})
    BY <1>2, <1>5 DEF Outside
  <2>3. /\ Holding'
        /\ \A l \in jobs : l # j => Right(l)'
        /\ \A i \in 1 .. Len(chan) : chan[i].buf # NoBuf =>
             mem'[chan[i].buf] = Chunk(chan[i].n, chan[i].n)
        /\ stage = "write" => mem'[taken.buf] = Chunk(taken.n, taken.n)
    BY <1>1, <1>2, <1>3, <2>1, <2>2, OthersKept DEF callVars
  <2> QED
    BY <1>2, <2>3 DEF Running, writerVars
<1>10. TodoInv' /\ HoldInv' /\ WrittenAsGiven'
  <2>1. \A n : Active(n)' => Active(n)
    BY <1>2 DEF Active
  <2> QED
    BY <1>1, <1>2, <1>3, <1>5, <2>1, CallerKept
<1> QED
  BY <1>6, <1>7, <1>8, <1>9, <1>10 DEF BuffersInv

\* The result goes to the writer goroutine; what is left is the spare buffer.
LEMMA HandOverKeeps == ASSUME BuffersInv, NEW j \in jobs, HandOver(j) PROVE BuffersInv'
<1>1. /\ TypeOK /\ PlacesInv /\ JobsInv /\ DataInv /\ TodoInv /\ HoldInv /\ WrittenAsGiven
      /\ j \in Jobs /\ Shape(j)
  BY DEF BuffersInv, TypeOK, JobsInv
<1>2. /\ j.step = "send" /\ stage = "wait" /\ taken.n = j.n
      /\ taken' = Entry(j.n, j.obuf) /\ stage' = "write"
      /\ UNCHANGED <<mem, pool, chan, err, kept, callVars, out, lent, fed>>
  BY DEF HandOver, histVars
<1>3. /\ j.obuf \in Bufs /\ j.obuf # j.inbuf /\ j.n \in 1 .. fed /\ taken.buf = NoBuf
      /\ taken'.n = j.n /\ taken'.buf = j.obuf /\ taken' \in Entries /\ Has(j, j.obuf)
  BY <1>1, <1>2 DEF Shape, Jobs, JobsInv, Entry, Entries, Has
<1>4. \/ j.inbuf = NoBuf /\ jobs' = jobs \ {j}
      \/ \E k \in Jobs : /\ jobs' = (jobs \ {j}) \cup {k} /\ k.step = "put" /\ k.n = j.n
                         /\ k.inbuf = j.inbuf /\ k.obuf = NoBuf /\ j.inbuf # NoBuf
  <2> DEFINE next == [j EXCEPT !.obuf = NoBuf, !.step = "put"]
  <2>1. /\ next \in Jobs /\ next.step = "put" /\ next.n = j.n /\ next.inbuf = j.inbuf
        /\ next.obuf = NoBuf
    BY <1>1 DEF Jobs, Steps
  <2>2. jobs' = IF j.inbuf = NoBuf THEN jobs \ {j} ELSE (jobs \ {j}) \cup {next}
    BY DEF HandOver
  <2> HIDE DEF next
  <2> QED
    BY <2>1, <2>2
<1>5. /\ jobs' \subseteq Jobs
      /\ \A l \in jobs' : \/ l \in jobs /\ l # j
                          \/ /\ l.step = "put" /\ l.n = j.n /\ l.inbuf = j.inbuf
                             /\ l.obuf = NoBuf /\ j.inbuf # NoBuf
      /\ \A l, k \in jobs' : l = k \/ (l \in jobs /\ l # j) \/ (k \in jobs /\ k # j)
  BY <1>1, <1>4 DEF TypeOK
<1>6. TypeOK'
  BY <1>1, <1>2, <1>3, <1>5 DEF TypeOK, callVars
<1>7. PlacesInv'
  <2>1. \A l \in jobs' : \A b \in Bufs : Has(l, b) =>
          b # j.obuf /\ ((l \in jobs /\ l # j) \/ (Has(j, b) /\ b = j.inbuf))
    BY <1>1, <1>3, <1>5, Places3 DEF PlacesInv, Has
  <2>2. \A l, k \in jobs' : \A b \in Bufs : Has(l, b) /\ Has(k, b) => l = k
    BY <1>1, <1>5, <2>1 DEF PlacesInv
  <2>3. \A l \in jobs' : \A b \in Bufs : Has(l, b) =>
          pool'[b] = 0 /\ ~Has(hold', b) /\ taken'.buf # b /\ ~InChan(b)'
    BY <1>1, <1>2, <1>3, <2>1 DEF PlacesInv, InChan, callVars
  <2>4. \A b \in Bufs : Has(hold', b) => pool'[b] = 0 /\ taken'.buf # b /\ ~InChan(b)'
    BY <1>1, <1>2, <1>3 DEF PlacesInv, InChan, callVars
  <2>5. \A b \in Bufs : taken'.buf = b => pool'[b] = 0 /\ ~InChan(b)'
    BY <1>1, <1>2, <1>3 DEF PlacesInv, InChan
  <2> QED
    BY <1>1, <1>2, <2>2, <2>3, <2>4, <2>5 DEF PlacesInv, Has, InChan
<1>8. JobsInv'
  <2>1. \A l \in jobs' : Shape(l)' /\ l.n \in 1 .. fed'
    BY <1>1, <1>2, <1>5 DEF JobsInv, Shape
  <2>2. \A l \in jobs' : l.step # "put" => Awaited(l.n)'
    <3> SUFFICES ASSUME NEW l \in jobs', l.step # "put" PROVE Awaited(l.n)'
      OBVIOUS
    <3>1. l \in jobs /\ l # j
      BY <1>5
    <3>2. l.n # j.n /\ Awaited(l.n)
      BY <1>1, <1>2, <3>1 DEF JobsInv
    <3> QED
      BY <1>2, <3>2 DEF Awaited
  <2>3. \A l, k \in jobs' : l.step # "put" /\ k.step # "put" /\ l.n = k.n => l = k
    BY <1>1, <1>5 DEF JobsInv
  <2>4. j.obuf # NoBuf /\ j.n # 0
    BY <1>1, <1>3, Places3 DEF TypeOK
  <2> QED
    BY <1>1, <1>2, <1>3, <2>1, <2>2, <2>3, <2>4 DEF JobsInv
<1>9. DataInv'
  <2> SUFFICES ASSUME err = "none" PROVE Holding' /\ Running'
    BY <1>2 DEF DataInv
  <2>1. Holding /\ Running
    BY <1>1 DEF DataInv
  <2>2. \A l \in jobs' : Right(l)'
    BY <1>2, <1>5, <2>1 DEF Running, Right
  <2>3. mem'[taken'.buf] = Chunk(taken'.n, taken'.n)
    BY <1>2, <1>3, <2>1 DEF Running, Right
  <2>4. Holding'
    BY <1>2, <2>1 DEF Holding, Right, callVars
  <2> QED
    BY <1>2, <2>1, <2>2, <2>3, <2>4 DEF Running
<1>10. TodoInv' /\ HoldInv' /\ WrittenAsGiven'
  <2>1. \A n : Active(n)' => Active(n)
    BY <1>5 DEF Active
  <2> QED
    BY <1>1, <1>2, <2>1, CallerKept
<1> QED
  BY <1>6, <1>7, <1>8, <1>9, <1>10 DEF BuffersInv

-----------------------------------------------------------------------------
(* The writer goroutine.                                                   *)

LEMMA TakeEntryKeeps == ASSUME BuffersInv, TakeEntry PROVE BuffersInv'
<1>1. TypeOK /\ PlacesInv /\ JobsInv /\ DataInv /\ TodoInv /\ HoldInv /\ WrittenAsGiven
  BY DEF BuffersInv
<1>2. /\ stage = "range" /\ chan # <<>> /\ taken' = Head(chan) /\ chan' = Tail(chan)
      /\ stage' = IF Head(chan).buf = NoBuf THEN "wait" ELSE "write"
      /\ UNCHANGED <<mem, pool, jobs, err, kept, callVars, out, lent, fed>>
  BY DEF TakeEntry, histVars
<1>3. /\ chan' \in Seq(Entries) /\ Len(chan') = Len(chan) - 1 /\ Len(chan) \in Nat
      /\ 1 \in 1 .. Len(chan) /\ taken' = chan[1] /\ taken' \in Entries
      /\ \A i \in 1 .. Len(chan') : chan'[i] = chan[i + 1] /\ i + 1 \in 1 .. Len(chan)
      /\ \A i \in 1 .. Len(chan) : i = 1 \/ i - 1 \in 1 .. Len(chan')
      /\ \A i \in 1 .. Len(chan) : i # 1 => chan'[i - 1] = chan[i]
  <2>1. chan \in Seq(Entries) /\ chan # <<>>
    BY <1>1, <1>2 DEF TypeOK
  <2> QED
    BY <1>2, <2>1
<1>4. TypeOK'
  BY <1>1, <1>2, <1>3 DEF TypeOK, callVars
<1>5. \A b \in Bufs : InChan(b) <=> InChan(b)' \/ taken'.buf = b
  <2>1. \A b \in Bufs : InChan(b)' => InChan(b)
    BY <1>3 DEF InChan
  <2>2. \A b \in Bufs : InChan(b) => InChan(b)' \/ taken'.buf = b
    BY <1>3 DEF InChan
  <2>3. \A b \in Bufs : taken'.buf = b => InChan(b)
    BY <1>3 DEF InChan
  <2> QED
    BY <2>1, <2>2, <2>3
<1>6. PlacesInv'
  <2>1. \A b \in Bufs : taken'.buf = b => pool[b] = 0 /\ ~InChan(b)'
    <3> SUFFICES ASSUME NEW b \in Bufs, taken'.buf = b PROVE pool[b] = 0 /\ ~InChan(b)'
      OBVIOUS
    <3>1. pool[b] = 0
      BY <1>1, <1>5 DEF PlacesInv
    <3>2. ASSUME NEW i \in 1 .. Len(chan'), chan'[i].buf = b PROVE FALSE
      <4>1. chan[i + 1].buf = chan[1].buf /\ chan[1].buf # NoBuf /\ i + 1 \in 1 .. Len(chan)
        BY <1>3, <3>2, Places3
      <4>2. i + 1 = 1
        BY <1>1, <1>3, <4>1 DEF PlacesInv
      <4> QED
        BY <4>2
    <3> QED
      BY <3>1, <3>2 DEF InChan
  <2>2. \A i, k \in 1 .. Len(chan') :
          chan'[i].buf = chan'[k].buf /\ chan'[i].buf # NoBuf => i = k
    <3> SUFFICES ASSUME NEW i \in 1 .. Len(chan'), NEW k \in 1 .. Len(chan'),
                        chan'[i].buf = chan'[k].buf, chan'[i].buf # NoBuf
                 PROVE  i = k
      OBVIOUS
    <3>1. i + 1 = k + 1
      BY <1>1, <1>3 DEF PlacesInv
    <3> QED
      BY <3>1
  <2> QED
    BY <1>1, <1>2, <1>5, <2>1, <2>2 DEF PlacesInv, Has, callVars
<1>7. JobsInv'
  <2>1. \A l \in jobs : Shape(l)' /\ l.n \in 1 .. fed
    BY <1>1 DEF JobsInv, Shape
  <2>2. \A l \in jobs : l.step # "put" => Awaited(l.n)'
    <3> SUFFICES ASSUME NEW l \in jobs, l.step # "put" PROVE Awaited(l.n)'
      OBVIOUS
    <3>1. PICK i \in 1 .. Len(chan) : chan[i].n = l.n /\ chan[i].buf = NoBuf
      BY <1>1, <1>2 DEF JobsInv, Awaited
    <3>2. CASE i = 1
      BY <1>2, <1>3, <3>1, <3>2 DEF Awaited
    <3>3. CASE i # 1
      BY <1>3, <3>1, <3>3 DEF Awaited
    <3> QED
      BY <3>2, <3>3
  <2>3. \A i \in 1 .. Len(chan') : chan'[i].n # 0
    BY <1>1, <1>3 DEF JobsInv
  <2>4. taken'.n # 0 /\ (stage' = "wait" <=> taken'.buf = NoBuf) /\ stage' \in {"wait", "write"}
    <3>1. Head(chan) = chan[1]
      BY <1>2, <1>3
    <3> QED
      BY <1>1, <1>2, <1>3, <3>1 DEF JobsInv
  <2> QED
    BY <1>1, <1>2, <2>1, <2>2, <2>3, <2>4 DEF JobsInv
<1>8. DataInv'
  <2> SUFFICES ASSUME err = "none" PROVE Holding' /\ Running'
    BY <1>2 DEF DataInv
  <2>1. Holding /\ Running
    BY <1>1 DEF DataInv
  <2>2. \A l \in jobs : Right(l)'
    BY <1>2, <2>1 DEF Running, Right
  <2>3. stage' = "write" => mem[taken'.buf] = Chunk(taken'.n, taken'.n)
    <3>1. Head(chan) = chan[1]
      BY <1>2, <1>3
    <3> QED
      BY <1>2, <1>3, <2>1, <3>1 DEF Running
  <2>4. Holding'
    BY <1>2, <2>1 DEF Holding, Right, callVars
  <2>5. \A i \in 1 .. Len(chan') : chan'[i].buf # NoBuf =>
          mem[chan'[i].buf] = Chunk(chan'[i].n, chan'[i].n)
    <3> SUFFICES ASSUME NEW i \in 1 .. Len(chan'), chan'[i].buf # NoBuf
                 PROVE  mem[chan'[i].buf] = Chunk(chan'[i].n, chan'[i].n)
      OBVIOUS
    <3>1. \A k \in 1 .. Len(chan) : chan[k].buf # NoBuf =>
            mem[chan[k].buf] = Chunk(chan[k].n, chan[k].n)
      BY <2>1 DEF Running
    <3>2. chan'[i] = chan[i + 1] /\ i + 1 \in 1 .. Len(chan)
      BY <1>3
    <3> QED
      BY <3>1, <3>2
  <2> QED
    BY <1>2, <2>2, <2>3, <2>4, <2>5 DEF Running
<1>9. TodoInv' /\ HoldInv' /\ WrittenAsGiven'
  <2>1. \A n : Active(n)' => Active(n)
    BY <1>2 DEF Active
  <2> QED
    BY <1>1, <1>2, <2>1, CallerKept
<1> QED
  BY <1>4, <1>6, <1>7, <1>8, <1>9 DEF BuffersInv

LEMMA WriteEntryKeeps == ASSUME BuffersInv, WriteEntry PROVE BuffersInv'
<1>1. TypeOK /\ PlacesInv /\ JobsInv /\ DataInv /\ TodoInv /\ HoldInv /\ WrittenAsGiven
  BY DEF BuffersInv
<1>2. /\ stage = "write" /\ stage' = "put" /\ (err' = "none" => err = "none")
      /\ (err = "none" /\ out' = <<taken.n, mem[taken.buf]>>) \/ out' = out
      /\ UNCHANGED <<mem, pool, jobs, chan, taken, kept, callVars, lent, fed>>
  BY DEF WriteEntry, WriteOut, histVars
<1>3. TypeOK' /\ PlacesInv'
  BY <1>1, <1>2, SamePlaces DEF TypeOK, callVars
<1>4. JobsInv'
  <2>1. \A l \in jobs : l.step # "put" => Awaited(l.n)'
    BY <1>1, <1>2 DEF JobsInv, Awaited
  <2>2. \A l \in jobs : Shape(l)' /\ l.n \in 1 .. fed
    BY <1>1 DEF JobsInv, Shape
  <2> QED
    BY <1>1, <1>2, <2>1, <2>2 DEF JobsInv
<1>5. DataInv'
  BY <1>1, <1>2 DEF DataInv, Holding, Running, Right, callVars
<1>6. TodoInv' /\ HoldInv'
  <2>1. \A n : Active(n)' => Active(n)
    BY <1>2 DEF Active
  <2> QED
    BY <1>1, <1>2, <2>1, CallerKept
<1>7. WrittenAsGiven'
  BY <1>1, <1>2 DEF WrittenAsGiven, DataInv, Running
<1> QED
  BY <1>3, <1>4, <1>5, <1>6, <1>7 DEF BuffersInv

LEMMA FinishKeeps == ASSUME BuffersInv, Finish PROVE BuffersInv'
<1> DEFINE b == taken.buf
<1>1. TypeOK /\ PlacesInv /\ JobsInv /\ DataInv /\ TodoInv /\ HoldInv /\ WrittenAsGiven
  BY DEF BuffersInv
<1>2. /\ stage = "put" /\ Put(b) /\ taken' = NoEntry /\ stage' = "range"
      /\ UNCHANGED <<jobs, chan, err, kept, callVars, out, lent, fed>>
  BY DEF Finish, histVars
<1>3. b \in Bufs
  BY <1>1, <1>2 DEF TypeOK, Entries, JobsInv
<1>4. /\ pool[b] = 0 /\ ~InChan(b) /\ ~Has(hold, b) /\ \A j \in jobs : ~Has(j, b)
  BY <1>1, <1>3 DEF PlacesInv
<1>5. taken'.n = 0 /\ taken'.buf = NoBuf /\ taken' \in Entries
  BY <1>2 DEF NoEntry, Entry, Entries
<1>6. /\ pool' \in [Bufs -> {0, 1}] /\ mem' \in [Memory -> Content]
      /\ \A c \in Bufs : c # b => pool'[c] = pool[c]
      /\ \A c \in Memory \ {b} : mem'[c] = mem[c]
  BY <1>1, <1>2, <1>3, <1>4, PutIs
<1>7. TypeOK'
  BY <1>1, <1>2, <1>5, <1>6 DEF TypeOK, callVars
<1>8. PlacesInv'
  <2>1. \A c \in Bufs : taken'.buf # c
    BY <1>5, Places3
  <2> QED
    BY <1>1, <1>2, <1>4, <1>6, <2>1 DEF PlacesInv, Has, InChan, callVars
<1>9. JobsInv'
  <2>1. \A l \in jobs : l.step # "put" => Awaited(l.n)'
    BY <1>1, <1>2 DEF JobsInv, Awaited
  <2>2. \A l \in jobs : Shape(l)' /\ l.n \in 1 .. fed
    BY <1>1 DEF JobsInv, Shape
  <2> QED
    BY <1>1, <1>2, <1>5, <2>1, <2>2 DEF JobsInv
<1>10. DataInv'
  <2> SUFFICES ASSUME err = "none" PROVE Holding' /\ Running'
    BY <1>2 DEF DataInv
  <2>1. Holding /\ Running
    BY <1>1 DEF DataInv
  <2>2. Outside({b}) /\ \A c \in {b} : c \notin lent
    BY <1>1, <1>2, <1>3, <1>6, Places3 DEF Outside, TypeOK
  <2>3. \A l \in jobs : Right(l)'
    BY <1>1, <1>4, <2>1, <2>2, RightKept DEF TypeOK, JobsInv, Running
  <2>4. \A i \in 1 .. Len(chan) : chan[i].buf # NoBuf =>
          mem'[chan[i].buf] = Chunk(chan[i].n, chan[i].n)
    <3> SUFFICES ASSUME NEW i \in 1 .. Len(chan), chan[i].buf # NoBuf
                 PROVE  mem'[chan[i].buf] = Chunk(chan[i].n, chan[i].n)
      OBVIOUS
    <3>1. chan[i].buf \in Bufs /\ chan[i].buf # b
      BY <1>1, <1>4, ChanEntry DEF InChan
    <3> QED
      BY <1>6, <2>1, <3>1, Places3 DEF Running
  <2>5. hold # NoJob =>
          IF hold.obuf = NoBuf THEN mem'[hold.inbuf] = Chunk(hold.n, hold.n) ELSE Right(hold)'
    <3> SUFFICES ASSUME hold # NoJob
                 PROVE  IF hold.obuf = NoBuf THEN mem'[hold.inbuf] = Chunk(hold.n, hold.n)
                        ELSE Right(hold)'
      OBVIOUS
    <3>1. CASE hold.obuf = NoBuf
      <4>1. hold.inbuf \in Bufs /\ hold.inbuf # b
        BY <1>1, <1>4, <3>1 DEF HoldInv, Has, TypeOK, Jobs
      <4> QED
        BY <1>6, <2>1, <3>1, <4>1, Places3 DEF Holding
    <3>2. CASE hold.obuf # NoBuf
      <4>1. hold \in Jobs /\ Shape(hold) /\ Right(hold)
        BY <1>1, <2>1, <3>2 DEF TypeOK, HoldInv, Holding
      <4>2. \A l : l = hold => Right(l)'
        BY <1>4, <2>2, <4>1, RightKept
      <4> QED
        BY <1>2, <3>2, <4>2 DEF Right, callVars
    <3> QED
      BY <3>1, <3>2
  <2> QED
    BY <1>2, <2>3, <2>4, <2>5 DEF Holding, Running, Right, callVars
<1>11. TodoInv' /\ HoldInv' /\ WrittenAsGiven'
  <2>1. \A n : Active(n)' => Active(n)
    BY <1>2 DEF Active
  <2> QED
    BY <1>1, <1>2, <1>3, <1>6, <2>1, CallerKept
<1> QED
  BY <1>7, <1>8, <1>9, <1>10, <1>11 DEF BuffersInv

-----------------------------------------------------------------------------
(* The theorems.                                                           *)

LEMMA BuffersInit == Init => BuffersInv
<1> SUFFICES ASSUME Init PROVE BuffersInv
  OBVIOUS
<1>1. /\ hold = NoJob /\ NoJob \in Jobs /\ NoJob.inbuf = NoBuf /\ NoJob.obuf = NoBuf
      /\ taken.n = 0 /\ taken.buf = NoBuf /\ taken \in Entries
  BY DEF Init, NoJob, Job, Jobs, Steps, NoEntry, Entry, Entries
<1>2. chan = <<>> /\ todo = <<>> /\ jobs = {} /\ kept = 0 /\ out = <<>> /\ stage = "range"
      /\ fed = 0 /\ lent = {}
  BY DEF Init
<1>3. TypeOK
  <2>1. mem \in [Memory -> Content]
    BY Contents DEF Init, Memory
  <2>2. pool \in [Bufs -> {0, 1}]
    BY DEF Init
  <2> QED
    BY <1>1, <1>2, <2>1, <2>2 DEF TypeOK
<1>4. PlacesInv
  BY <1>1, <1>2, Places3 DEF PlacesInv, Has, InChan
<1>5. JobsInv
  BY <1>1, <1>2 DEF JobsInv
<1>6. DataInv /\ TodoInv /\ HoldInv /\ WrittenAsGiven
  BY <1>1, <1>2 DEF DataInv, Holding, Running, TodoInv, HoldInv, WrittenAsGiven
<1> QED
  BY <1>3, <1>4, <1>5, <1>6 DEF BuffersInv

LEMMA BuffersStutter == ASSUME BuffersInv, UNCHANGED vars PROVE BuffersInv'
<1>1. TypeOK /\ PlacesInv /\ JobsInv /\ DataInv /\ TodoInv /\ HoldInv /\ WrittenAsGiven
  BY DEF BuffersInv
<1>2. UNCHANGED <<mem, pool, jobs, chan, taken, stage, err, kept, call, todo, hold, out, lent, fed>>
  BY DEF vars, writerVars, callVars, histVars
<1>3. TypeOK' /\ PlacesInv'
  BY <1>1, <1>2, SamePlaces DEF TypeOK
<1>4. JobsInv'
  BY <1>1, <1>2, SameJobs DEF TypeOK
<1>5. DataInv'
  BY <1>1, <1>2 DEF DataInv, Holding, Running, Right
<1>6. TodoInv' /\ HoldInv' /\ WrittenAsGiven'
  BY <1>1, <1>2, CallerKept DEF Active, callVars
<1> QED
  BY <1>3, <1>4, <1>5, <1>6 DEF BuffersInv

LEMMA BuffersNext == ASSUME BuffersInv, Next PROVE BuffersInv'
<1>1. CASE Caller
  BY <1>1, WriteKeeps, EncodeBufferKeeps, ReadFromKeeps, AddUserChunkKeeps, FlushKeeps,
     ResetKeeps, TakeWriteKeeps, TakeFullKeeps, StopReadingKeeps, TakeEncodeKeeps,
     TakeUserKeeps, QueueKeeps, KeepKeeps, WriteSyncKeeps, ReturnQueuedKeeps, FlushedKeeps,
     ClosedKeeps, FreshKeeps DEF Caller
<1>2. CASE Compress
  BY <1>2, SumKeeps, EncodeKeeps, HandOverKeeps, PutSpareKeeps DEF Compress
<1>3. CASE TakeEntry
  BY <1>3, TakeEntryKeeps
<1>4. CASE WriteEntry
  BY <1>4, WriteEntryKeeps
<1>5. CASE Finish
  BY <1>5, FinishKeeps
<1> QED
  BY <1>1, <1>2, <1>3, <1>4, <1>5 DEF Next

\* Whose buffer is whose, what a goroutine holds and what is in it, what is to be
\* cut from ibuf and the caller's memory: one invariant, kept by every step of the
\* methods (writer.go, Reset at line 115 to closeIndex at 777), of the compression
\* goroutines (392, 507, 584) and of the writer goroutine (151).
THEOREM BuffersKeep == Spec => []BuffersInv
<1>1. Init => BuffersInv
  BY BuffersInit
<1>2. BuffersInv /\ [Next]_vars => BuffersInv'
  BY BuffersNext, BuffersStutter
<1> QED
  BY <1>1, <1>2, PTL DEF Spec

\* Every chunk on the underlying writer has the checksum and the data of the block
\* it was queued for: nobody has written into its buffer, or the caller's memory,
\* between the copy, the checksum, the encoder and writer.Write.
THEOREM BuffersWritten == Spec => []WrittenAsGiven
<1>1. BuffersInv => WrittenAsGiven
  BY DEF BuffersInv
<1> QED
  BY <1>1, BuffersKeep, PTL

LEMMA AtMostOne ==
  ASSUME NEW S, \A x, y \in S : x = y
  PROVE  IF S = {} THEN Cardinality(S) = 0 ELSE Cardinality(S) = 1
<1>1. CASE S = {}
  BY <1>1, FS_EmptySet
<1>2. CASE S # {}
  <2>1. PICK x \in S : S = {x}
    BY <1>2
  <2> QED
    BY <1>2, <2>1, FS_Singleton
<1> QED
  BY <1>1, <1>2

\* A pooled buffer lies in the pool once, or is with one goroutine, or in one entry.
THEOREM BuffersOneOwner == Spec => []OneOwner
<1>1. BuffersInv => OneOwner
  <2> SUFFICES ASSUME BuffersInv, NEW b \in Bufs PROVE Places(b) <= 1
    BY DEF OneOwner
  <2>1. TypeOK /\ PlacesInv
    BY DEF BuffersInv
  <2> DEFINE ofJobs == {j \in jobs : b \in {j.inbuf, j.obuf}}
             ofChan == {i \in DOMAIN chan : chan[i].buf = b}
  <2>2. b # NoBuf
    BY Places3
  <2>3. IF ofJobs = {} THEN Cardinality(ofJobs) = 0 ELSE Cardinality(ofJobs) = 1
    <3>1. \A j, k \in ofJobs : j = k
      BY <2>1, <2>2 DEF PlacesInv, Has
    <3> QED
      BY <3>1, AtMostOne
  <2>4. IF ofChan = {} THEN Cardinality(ofChan) = 0 ELSE Cardinality(ofChan) = 1
    <3>1. \A i, k \in ofChan : i = k
      BY <2>1, <2>2 DEF PlacesInv, TypeOK
    <3> QED
      BY <3>1, AtMostOne
  <2>5. /\ ofJobs # {} <=> \E j \in jobs : Has(j, b)
        /\ ofChan # {} <=> InChan(b)
        /\ b \in Holders(hold) <=> Has(hold, b)
    BY <2>1, <2>2 DEF Has, InChan, Holders, TypeOK
  <2>6. pool[b] \in {0, 1}
    BY <2>1 DEF TypeOK
  <2>7. /\ ofJobs # {} => pool[b] = 0 /\ ~Has(hold, b) /\ taken.buf # b /\ ofChan = {}
        /\ Has(hold, b) => pool[b] = 0 /\ taken.buf # b /\ ofChan = {}
        /\ taken.buf = b => pool[b] = 0 /\ ofChan = {}
        /\ ofChan # {} => pool[b] = 0
    BY <2>1, <2>5 DEF PlacesInv
  <2>8. Places(b) = pool[b] + Cardinality(ofJobs) + (IF b \in Holders(hold) THEN 1 ELSE 0)
                      + Cardinality(ofChan) + (IF taken.buf = b THEN 1 ELSE 0)
    BY DEF Places
  <2> HIDE DEF ofJobs, ofChan
  <2> QED
    BY <2>3, <2>4, <2>5, <2>6, <2>7, <2>8
<1> QED
  BY <1>1, BuffersKeep, PTL

=============================================================================
