------------------------------- MODULE MCBio --------------------------------
EXTENDS Bio, TLC

\* Processes are interchangeable, and so are the blocks nobody changes.
Sym == Permutations(Procs) \cup Permutations(BLOCKS \ STORED)
=============================================================================
