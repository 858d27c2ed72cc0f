--------------------------- MODULE MCWriterBuffers ---------------------------
(* Two blocks being compressed, a cell pair of the caller's, and a Reset. *)
EXTENDS WriterBuffers

MCBufs == 1..8
MCCells == {-2, -3}
=============================================================================
