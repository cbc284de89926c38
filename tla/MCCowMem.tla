------------------------------ MODULE MCCowMem ------------------------------
EXTENDS CowMem

\* Physical pages are interchangeable: nothing depends on a page's number but
\* which holders name it, its count, its contents and whether it is free.  Two
\* states with the same pages up to renaming are explored once.
PageClasses ==
    LET held == {h \in Holders : ref[h] # NULL}
        used == Pages \ freelist
        class == [pa \in used |-> <<{h \in held : ref[h] = pa}, refcnt[pa], content[pa],
                                    {q \in Procs : junk[q] = pa}>>]
    IN  [c \in {class[pa] : pa \in used} |-> Cardinality({pa \in used : class[pa] = c})]

UpToRenaming == <<PageClasses, flags, cur, sz, op, panic>>
=============================================================================
