----------------------------- MODULE MCCaccComm -----------------------------
EXTENDS CaccComm
=============================================================================
