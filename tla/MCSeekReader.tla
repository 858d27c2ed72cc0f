---------------------------- MODULE MCSeekReader ----------------------------
(* Streams of up to three blocks of one or two units between an identifier  *)
(* and an EOF marker, whole or damaged, and streams one after the other.    *)
EXTENDS SeekReader

Id(n)   == Chunk("idMinLZ", n, 6, "no")
S2      == Chunk("idS2", 0, 6, "no")
Snappy  == Chunk("idSnappy", 0, 6, "no")
Comp(n) == Chunk("comp", n, 1, "no")
Raw(n)  == Chunk("raw", n, n, "no")
Leg(n)  == Chunk("legacy", n, 1, "no")
User    == Chunk("skip", 0, 2, "no")
Eof(n)  == Chunk("eof", n, 1, "no")
Cut     == Chunk("cut", 0, 0, "no")
Bad(c, how) == [c EXCEPT !.bad = how]

Whole(body) == <<Id(2)>> \o body \o <<Eof(TotalOf(body))>>
Blocks(kinds, n) == UNION {[1 .. m -> kinds] : m \in 0 .. n}

\* Streams with all their blocks good.
Good == {Whole(b) : b \in Blocks({Comp(1), Comp(2), Raw(2), User}, 3)}

\* With a block that does not decode or has a wrong checksum.
Damaged ==
  {Whole(b) : b \in Blocks({Comp(2), Bad(Comp(1), "body"), Bad(Comp(2), "crc")}, 2)}

\* Cut off, without total, with a wrong one, or not in order.
Odd ==
  {<<>>, <<Eof(0)>>, <<Comp(1)>>, <<User, Id(2), Raw(0), Raw(1), Eof(NoTotal)>>,
   <<Id(2), Comp(2), Raw(1)>>, <<Id(2), Comp(2), Cut>>, <<Id(2), Comp(2), Eof(1)>>,
   <<Id(1), Comp(2), Eof(2)>>, <<Id(1), Raw(2), Eof(2)>>, <<Id(2), Leg(1), Eof(1)>>,
   <<Id(2), Comp(0), Eof(0)>>, <<Id(3), Comp(1), Eof(1)>>, <<Bad(Id(1), "crc"), Comp(1)>>,
   <<Id(2), Comp(1), Chunk("reserved", 0, 1, "no")>>,
   <<Id(2), Chunk("userstop", 0, 1, "no"), Comp(1), Eof(1)>>, <<Chunk("idOther", 0, 6, "no"), Comp(1)>>}

\* Streams of all formats one after the other; block sizes do not shrink.
Joined ==
  {<<Id(n), Comp(1), Eof(1), Id(2), Raw(2), Comp(1), Eof(3)>> : n \in 1 .. 2}
  \cup {<<Id(2), Raw(2), Eof(2), f, Leg(1), Raw(1)>> : f \in {S2, Snappy}}
  \cup {<<f, Leg(1), Raw(1), Id(n), Raw(1), Eof(1), S2, Leg(2)>> : f \in {S2, Snappy}, n \in {2}}
  \cup {<<S2, Leg(2), Snappy, Leg(2)>>, <<S2, Leg(2), Bad(Leg(1), "crc")>>, <<S2, Leg(2), Id(2), Comp(1)>>}

MCStreams == Good \cup Damaged \cup Odd \cup Joined

\* A few of each, to be read one after the other with Reset between.
MCReused ==
  {Whole(<<Comp(2), Raw(1)>>), <<Id(1), Comp(1)>>, <<Id(1), Raw(1), Eof(1)>>,
   <<S2, Leg(2), Raw(2)>>, <<Snappy, Leg(1)>>, <<Id(2), Comp(2), Cut>>}

\* Streams an index comes with.
MCIndexed ==
  {Whole(b) : b \in [1 .. 3 -> {Comp(1), Raw(2)}]}
  \cup {Whole(<<User, Comp(2), User, Raw(1)>>), <<Id(2), Comp(2), Comp(1)>>,
        Whole(<<Comp(2), Bad(Comp(2), "crc"), Comp(1)>>)}

MCMixed == MCStreams \cup MCIndexed

MCThreeBlocks == {Whole([k \in 1 .. 3 |-> Comp(2)])}
=============================================================================
