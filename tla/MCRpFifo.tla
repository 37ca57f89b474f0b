------------------------------ MODULE MCRpFifo ------------------------------
EXTENDS RpFifo, SequencesExt

\* Strings up to one byte longer than the ring, so that a put meets a full, a
\* nearly full and a wrapped buffer.
MCStrings == BoundedSeq(Byte, Capacity + 1)
=============================================================================
