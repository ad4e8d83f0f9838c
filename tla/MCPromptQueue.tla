---------------------------- MODULE MCPromptQueue ----------------------------
EXTENDS PromptQueue, TLC

Perms == Permutations(Projects) \cup Permutations(Transports)
=============================================================================
