------------------------------ MODULE MCRpSlab ------------------------------
EXTENDS RpSlab
=============================================================================
