--------------------------- MODULE MCBufferStream --------------------------
(***************************************************************************)
(* A small instance of BufferStream for TLC.                               *)
(***************************************************************************)
EXTENDS BufferStream
=============================================================================
