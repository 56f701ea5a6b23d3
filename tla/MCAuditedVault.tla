---------------------------- MODULE MCAuditedVault ----------------------------
EXTENDS AuditedVault, TLC

CONSTANTS t1, t2, s

\* The threads of the agent are alike.
ThreadsAlike == Permutations(Thread)
=============================================================================
