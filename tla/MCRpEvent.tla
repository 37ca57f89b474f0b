----------------------------- MODULE MCRpEvent -----------------------------
EXTENDS RpEvent
=============================================================================
