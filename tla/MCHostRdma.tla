----------------------------- MODULE MCHostRdma -----------------------------
EXTENDS HostRdma
=============================================================================
