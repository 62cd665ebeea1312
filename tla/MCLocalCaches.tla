--------------------------- MODULE MCLocalCaches ---------------------------
EXTENDS LocalCaches
============================================================================
