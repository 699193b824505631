------------------------------- MODULE MCRdma -------------------------------
EXTENDS RdmaCorrect
=============================================================================
