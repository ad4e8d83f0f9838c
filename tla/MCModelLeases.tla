---------------------------- MODULE MCModelLeases ----------------------------
EXTENDS ModelLeases, TLC

Perms == Permutations(Runs) \cup Permutations(Projects) \cup
         Permutations(Snapshots)
=============================================================================
