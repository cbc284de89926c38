------------------------------- MODULE MCFiles ------------------------------
EXTENDS Files

\* Two bytes that differ, and more than a pipe of one byte takes at once.
MCBufs == {<<0, 1>>}

\* States that differ only in bytes already read, which no step looks at, count as one.
UpToStaleBytes ==
    <<proc, op, lock, ofile, file, stranded,
      [pi \in Pipes |-> <<Front(pipe[pi], Count(pipe[pi])), [pipe[pi] EXCEPT !.data = 0]>>]>>
=============================================================================
