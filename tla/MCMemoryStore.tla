----------------------------- MODULE MCMemoryStore -----------------------------
EXTENDS MemoryStore

CONSTANTS c1, c2, ns, k
=============================================================================
