------------------------------- MODULE MCLog -------------------------------
EXTENDS Log, TLC

\* Processes, blocks and contents are interchangeable.
Symm == Permutations(Procs) \cup Permutations(Blocks) \cup Permutations(Vals)
=============================================================================
