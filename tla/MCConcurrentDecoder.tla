------------------------ MODULE MCConcurrentDecoder ------------------------
(* Streams of up to four blocks of one unit, good or damaged, between an    *)
(* identifier and an EOF marker, and some that are wrong as a whole.  With  *)
(* two goroutines and three buffers the fourth block waits for a buffer.    *)
EXTENDS ConcurrentDecoder

Id    == Chunk("idMinLZ", 1, 6, "no")
Good  == Chunk("comp", 1, 1, "no")
Short == Chunk("comp", 1, 1, "body")
Sum   == Chunk("comp", 1, 1, "crc")
Raw   == Chunk("raw", 1, 1, "no")
RawSum == Chunk("raw", 1, 1, "crc")
User  == Chunk("skip", 0, 2, "no")
Eof(n) == Chunk("eof", n, 1, "no")
Cut   == Chunk("cut", 0, 0, "no")

Whole(body) == <<Id>> \o body \o <<Eof(TotalOf(body))>>

Blocks(kinds, n) == UNION {[1 .. m -> kinds] : m \in 0 .. n}

\* Wrong as a whole, or read in a special way.
MCOddStreams ==
  {<<>>, <<Eof(0)>>, <<Good>>, <<User, Id, Good, Eof(1)>>, <<Id, Good, Raw, Eof(1)>>,
   <<Id, Raw, Good, Eof(NoTotal)>>, <<Id, Good, Good>>, <<Id, Good, Raw, Cut>>,
   <<Id, Good, Chunk("reserved", 0, 1, "no"), Good>>,
   <<Id, Raw, Chunk("userstop", 0, 1, "no")>>,
   <<Id, Good, Chunk("comp", 2, 1, "no"), Good, Eof(4)>>,
   <<Id, Good, Chunk("comp", 0, 0, "no"), Good, Eof(4)>>,
   <<Id, Good, Chunk("raw", 2, 2, "no"), Good, Eof(4)>>,
   <<Id, Good, RawSum, Good, Eof(3)>>,
   <<Id, Good, Chunk("legacy", 1, 1, "no"), Eof(2)>>,
   <<Chunk("idMinLZ", 1, 6, "crc"), Good>>, <<Chunk("idMinLZ", 3, 6, "no"), Good>>,
   <<Chunk("idS2", 0, 6, "no"), Good>>, <<Id, Good, Eof(1), Id, Raw, Good, Eof(2)>>}

MCStreams == {Whole(b) : b \in Blocks({Good, Sum, Raw}, 4)} \cup MCOddStreams
             \cup {Whole(b) : b \in Blocks({Good, Short, User}, 3)}

\* Streams of other formats, alone and between MinLZ streams of the same block
\* size, whole or cut off.
S2  == Chunk("idS2", 0, 6, "no")
Snappy == Chunk("idSnappy", 0, 6, "no")
Id2 == Chunk("idMinLZ", 2, 6, "no")
Leg(n) == Chunk("legacy", n, 1, "no")
Raw2 == Chunk("raw", 2, 2, "no")

MCFallback ==
  {<<id>> \o b : id \in {S2, Snappy}, b \in Blocks({Leg(1), Leg(2), Raw2, User}, 3)}
  \cup {<<a, Good, Eof(1), S2, Leg(n), c>> : a \in {Id2}, n \in 0 .. 2, c \in {Id2, Snappy}}
  \cup {<<Id2, Good, Eof(1), id>> \o b \o <<Id, Good, Raw, Eof(2)>> :
           id \in {S2, Snappy}, b \in Blocks({Leg(1), Raw}, 2)}
  \cup {<<S2, Leg(1), Id, Good>>, <<S2, Chunk("legacy", 1, 1, "crc"), Leg(1)>>}

\* Blocks of nothing, as many as there are output buffers and one more or less, then
\* another block; behind a block with data; and one that does not decode.
Nothing(n) == [k \in 1 .. n |-> Leg(0)]

MCEmpty ==
  {<<id>> \o Nothing(n) \o b : id \in {S2, Snappy}, n \in 1 .. 4, b \in {<<>>, <<Leg(1)>>, <<Raw>>}}
  \cup {<<S2, Leg(1)>> \o Nothing(4), <<S2, Leg(0), Leg(0), Leg(1)>> \o Nothing(3),
        <<S2, Leg(0), Leg(0), Chunk("legacy", 0, 1, "body"), Leg(0), Raw>>,
        <<Id2, Good, Eof(1), S2>> \o Nothing(4), <<S2>> \o Nothing(3) \o <<Id2, Good, Eof(1)>>}

MCMixed == MCStreams \cup MCFallback \cup MCEmpty
=============================================================================
