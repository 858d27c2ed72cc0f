------------------------------ MODULE MCMzFile ------------------------------
(* All flags with a source of a few units.                                   *)
EXTENDS MzFile
=============================================================================
