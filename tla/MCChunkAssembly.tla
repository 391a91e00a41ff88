--------------------------- MODULE MCChunkAssembly ---------------------------
(* Instances of ChunkAssembly for TLC. *)
EXTENDS ChunkAssembly
=============================================================================
