-------------------------- MODULE MCIndexLifecycle --------------------------
(* Every stream of up to MaxChunks chunks: bodies of three bytes, which     *)
(* only a user chunk can have, and of nine.  Ten blocks of one byte thin an *)
(* index of four entries twice; user chunks between them make the distances *)
(* in the stored form uneven.  A varint has one bit in a byte, so that the  *)
(* EOF chunk of a stream of eight bytes is as long as a checksum.           *)
EXTENDS IndexLifecycle

MCBodySizes == {3, 9}
=============================================================================
