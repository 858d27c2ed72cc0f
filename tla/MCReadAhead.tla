---------------------------- MODULE MCReadAhead ----------------------------
(* Two buffers of two units: inputs that end in, at and before the end of a  *)
(* buffer, and one that is empty.                                            *)
EXTENDS ReadAhead
=============================================================================
