----------------------------- MODULE MCRpPalloc -----------------------------
EXTENDS RpPalloc, TLC

\* malloc's addresses are interchangeable.
ChunkSymmetry == Permutations(Chunk)
=============================================================================
