-------------------------- MODULE MCStreamWriter ---------------------------
(* Small Writers.  BlockSize 2 and five units make full and partial blocks, *)
(* a channel of two entries fills up with a block being written and a third *)
(* waiting; MaxIndexEntries 2 thins the index of a stream of three blocks.  *)
EXTENDS StreamWriterInv
=============================================================================
