-------------------------- MODULE MCChunkedReader --------------------------
(***************************************************************************)
(* ChunkedReader on five bytes in chunks of two: a first, a middle and a   *)
(* short last chunk, read by the decoder's goroutine, the saver of the     *)
(* disk cache and one prefetch goroutine.                                  *)
(***************************************************************************)
EXTENDS ChunkedReader
=============================================================================
