-------------------------------- MODULE User --------------------------------
(***************************************************************************)
(* The library and the programs of user/ that have an algorithm of their   *)
(* own: the allocator and grep's loop as state machines, the shell's       *)
(* parser, the matcher and the string routines as operators.  probe is the *)
(* input of one of the operators, or what runs when it is a state machine. *)
(***************************************************************************)
EXTENDS Umalloc, Grep, Str, Sh

CONSTANTS LINES,       \* lines of the shell, without the NUL
          TREES,       \* trees of commands
          PATTERNS, TEXTS,
          FILES,       \* <<pattern, file>> of grep
          PATHS,       \* paths and names, without the NUL
          BYTES        \* the bytes memmove() is tried on

VARIABLE probe
vars == <<uvars, gvars, probe>>

Asks == {[of |-> "heap"]} \cup [of : {"line"}, line : LINES] \cup [of : {"tree"}, tree : TREES]
     \cup [of : {"match"}, re : PATTERNS, text : TEXTS] \cup [of : {"grep"}, run : FILES]
     \cup [of : {"path"}, p : PATHS, q : PATHS] \cup [of : {"int"}, n : -(2^(WIDTH-1))..(2^(WIDTH-1) - 1)]
     \cup [of : {"move"}, d : 1..Len(BYTES), s : 1..Len(BYTES), n : 0..Len(BYTES)]

Init ==
  /\ UInit
  /\ probe \in Asks
  /\ probe.of = "move" => probe.d + probe.n <= Len(BYTES) + 1 /\ probe.s + probe.n <= Len(BYTES) + 1
  /\ pattern = (IF probe.of = "grep" THEN probe.run[1] ELSE << >>)
  /\ file = (IF probe.of = "grep" THEN probe.run[2] ELSE << >>)
  /\ pos = 0 /\ buf = << >> /\ out = << >>

Allocates ==
  /\ probe.of = "heap"
  /\ UNext
  /\ UNCHANGED <<gvars, probe>>

Greps ==
  /\ probe.of = "grep"
  /\ \E n \in 1..BUF : Turn(n)
  /\ UNCHANGED <<uvars, probe>>

Next == Allocates \/ Greps
Spec == Init /\ [][Next]_vars

-----------------------------------------------------------------------------
\* The state machines keep to their types.
TypeOK ==
  /\ hdr \in [DOMAIN hdr -> [ptr : {Null, base} \cup HEAP..LIMIT, size : 0..LIMIT]]
  /\ base \in DOMAIN hdr /\ DOMAIN live \subseteq HEAP..(LIMIT - 1)
  /\ freep \in DOMAIN hdr \cup {Null} /\ brk \in HEAP..LIMIT
  /\ pos \in 0..Len(file) /\ Len(buf) < BUF

\* malloc() and free(): the blocks handed out are large enough and share the heap
\* with the free ones, which stay in order.
HeapSound == TypeOK /\ RoomForAll /\ HeapShared /\ FreeListOrdered

\* grep() prints the matching lines of what it has read, once each and in
\* order, however read() cuts the file in pieces.
LinesFound == out = Matching(pattern, Lines(SubSeq(file, 1, pos)))

\* match() finds a pattern in a text exactly when the text can be cut in the
\* pieces that the pattern's items stand for.
MatcherCorrect == probe.of = "match" => (match(probe.re, probe.text) <=> Meaning(probe.re, probe.text))

\* grep prints the lines that its pattern means, all of them and no other.
GrepFinds == LinesFound /\ MatcherCorrect

\* parsecmd() reads back every tree of commands: written in the shell's
\* grammar, it parses to the same tree, and nulterminate() leaves the text of
\* each of its words in the buffer, though the words share it.
ParsesBack ==
  LET is(r) == r.s # 0 /\ Read(r.buf, r.cmd) = probe.tree
  IN probe.of = "tree" => is(parsecmd(ShowLine(probe.tree) \o <<End>>))

\* A line that parsecmd() accepts is in the tree with all its words, each
\* once and whole: nothing a user typed is dropped or run together.
NoWordLost ==
  LET whole(line, word, r) ==
        r.s # 0 => /\ {w[1] : w \in Words(r.cmd)} =
                        {i \in 1..Len(line) : line[i] \in word /\ (i > 1 => line[i-1] \notin word)}
                   /\ \A w \in Words(r.cmd) :
                        Text(r.buf, w) = SubSeq(line, w[1], Past(line, w[1], word) - 1)
      kept(line) == whole(line, Letters(line), parsecmd(line))
  IN probe.of = "line" => kept(probe.line \o <<End>>)

\* runcmd() gives each command of a tree the input and the output the tree
\* means it to have, by closing descriptors and counting on the lowest being
\* handed out; and no process, those that only wait included, keeps an end
\* of a pipe it does not use, so that readers see the end of the file.
RunsWired ==
  probe.of = "tree" =>
    runcmd(probe.tree, [fd \in 0..(NOFILE - 1) |-> IF fd < 3 THEN Tty ELSE None], << >>)
      = Wiring(probe.tree, Tty, Tty, << >>)

\* The shell runs what was typed: it reads back what its grammar writes, loses no
\* word, and gives each command its input and output.
ShellReads == ParsesBack /\ NoWordLost /\ RunsWired

\* memmove(), in the kernel and in the user library, copies as if through a
\* second buffer, overlap or not, and touches nothing else.
MovesWhole ==
  probe.of = "move" =>
    LET copy == [i \in 1..Len(BYTES) |-> IF i \in probe.d .. (probe.d + probe.n - 1)
                                         THEN BYTES[probe.s + i - probe.d] ELSE BYTES[i]]
    IN /\ memmove(BYTES, probe.d, probe.s, probe.n) = copy
       /\ memmoveUser(BYTES, probe.d, probe.s, probe.n) = copy

\* A name that dirlink() stores with strncpy() is the one that dirlookup()
\* finds with namecmp(), for the names skipelem() cuts from two paths: they
\* are the same exactly when their first DIRSIZ bytes are, whether or not
\* there is room for a NUL.
NamesAgree ==
  LET plain(s) == SelectSeq(s, LAMBDA c : c # NUL)
      agree(p, q, cut) ==
        /\ [i \in DOMAIN p |-> plain(p[i])] = [i \in DOMAIN cut |-> Cut(cut[i], DIRSIZ)]
        /\ \A i \in DOMAIN p, j \in DOMAIN q :
             (namecmp(q[j], strncpy(p[i], DIRSIZ)) = 0) <=> plain(p[i]) = plain(q[j])
  IN probe.of = "path" => agree(Elements(Str(probe.p)), Elements(Str(probe.q)), SplitAt(probe.p))

\* strcmp() and memcmp() order strings by the first byte that differs, and
\* safestrcpy() keeps what fits in n bytes with its NUL, which is always there.
StringsOrdered ==
  probe.of = "path" =>
    LET p == Str(probe.p)
        q == Str(probe.q)
        n == IF Len(p) < Len(q) THEN Len(p) ELSE Len(q)
    IN /\ Sign(strcmp(p, q)) = Order(probe.p, probe.q)
       /\ Sign(memcmp(p, q, n)) = Order(SubSeq(p, 1, n), SubSeq(q, 1, n))
       /\ \A k \in 1..(Len(p) + 1) : safestrcpy(p, k) = Str(Cut(probe.p, k - 1))
       /\ strlen(p) = Len(probe.p)

\* printint() prints every int, the least one included, so that its digits
\* read back to it; atoi() does, for those it can read.
PrintsBack ==
  probe.of = "int" =>
    LET d == printint(probe.n, 10)
        digits == IF probe.n < 0 THEN Tail(d) ELSE d
    IN /\ (probe.n < 0) <=> d[1] = Minus
       /\ Value(digits) = (IF probe.n < 0 THEN -probe.n ELSE probe.n)
       /\ Len(digits) > 1 => digits[1] # 0
       /\ probe.n >= 0 => atoi([i \in DOMAIN d |-> d[i] + 1] \o <<NUL>>) = probe.n

\* The string routines compute what they are named for, overlap, missing NUL, lack of
\* room and the least int included.
StringsAgree == MovesWhole /\ NamesAgree /\ StringsOrdered /\ PrintsBack
=============================================================================
