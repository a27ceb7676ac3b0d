------------------------------- MODULE MCChunk -------------------------------
(* Instance of Chunk for TLC: five keys, one of them the zero key.         *)
EXTENDS Chunk
MCKeys == 0..4
=============================================================================
