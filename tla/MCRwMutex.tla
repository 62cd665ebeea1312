----------------------------- MODULE MCRwMutex -----------------------------
EXTENDS RwMutex
============================================================================
