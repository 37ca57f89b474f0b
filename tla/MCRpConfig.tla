----------------------------- MODULE MCRpConfig -----------------------------
EXTENDS RpConfig

\* The strings of a document are interchangeable.
ValueSymmetry == Permutations(Value)
=============================================================================
