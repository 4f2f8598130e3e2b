---------------------------- MODULE MCChunkStore ----------------------------
(* ChunkStore for TLC: a transcript that grows, is rewritten and rolled    *)
(* back, of up to three chunks.                                            *)
EXTENDS ChunkStore, TLC

CONSTANTS c1, c2, c3

MCChunks == {c1, c2, c3}
MCTranscripts == {<<c1>>, <<c1, c2>>, <<c1, c3>>, <<c1, c2, c3>>}
=============================================================================
