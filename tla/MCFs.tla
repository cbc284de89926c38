-------------------------------- MODULE MCFs --------------------------------
EXTENDS Fs

Abs(names) == [abs |-> TRUE, names |-> names]
Rel(names) == [abs |-> FALSE, names |-> names]
Call(name, path) == [name |-> name, path |-> path, type |-> "file", mode |-> "r", to |-> path, ip |-> 0]

\* One process makes and removes a directory /d, and makes or truncates and writes a file
\* /a; the other enters /d, may find itself in a directory that is gone, links the file
\* there, and removes it under its writer.
MCCalls ==
    << { [Call("create", Abs(<<"d">>)) EXCEPT !.type = "dir"],
         Call("unlink", Abs(<<"d">>)),
         [Call("create", Abs(<<"a">>)) EXCEPT !.mode = "trunc"],
         [Call("open", Abs(<<"d">>)) EXCEPT !.mode = "w"] },
       { Call("chdir", Abs(<<"d">>)),
         [Call("link", Abs(<<"a">>)) EXCEPT !.to = Rel(<<"b">>)],
         Call("unlink", Abs(<<"a">>)) } >>
\* A write that goes on behind the indirect block.
MCData == {[k \in 1..2*BSIZE |-> Item("data", 1)]}

\* Which block is which does not matter: a file is what its blocks hold.
Holds(b) == IF b = 0 THEN << >> ELSE <<fs.blk[b].item>>
Shape(di) ==
    LET ind == di.addrs[NDIRECT]
    IN  [di EXCEPT !.addrs = << [k \in 0..NDIRECT-1 |-> Holds(di.addrs[k])], ind = 0,
             IF ind = 0 THEN << >> ELSE [j \in 0..NINDIRECT-1 |-> Holds(fs.blk[ind].addr[j])] >>]
Copy(e) == IF e.inum # 0 /\ e.di = fs.dinode[e.inum] THEN [e EXCEPT !.di = "disk"] ELSE [e EXCEPT !.di = Shape(e.di)]
UpToBlocks ==
    << [i \in Inums |-> Shape(fs.dinode[i])], Cardinality(fs.used), fs.panic,
       [s \in Slots |-> Copy(fs.it[s])], op, cwd, file >>
=============================================================================
