--------------------------------- MODULE Sh ---------------------------------
(***************************************************************************)
(* The shell (user/sh.c): the parser, from the characters of a line to a   *)
(* tree of commands, and runcmd(), from the tree to the processes and      *)
(* their descriptors.  A line is a sequence of characters that ends with   *)
(* NUL; a pointer into it is a position.  Every function that parses       *)
(* returns the command and the new *ps, or Stop where the code panics.     *)
(***************************************************************************)
EXTENDS Integers, Sequences, SequencesExt, FiniteSets

CONSTANTS MAXARGS, NOFILE

ASSUME ShAssumption == MAXARGS \in Nat \ {0} /\ NOFILE \in Nat \ (0..4)

End == "NUL"
whitespace == {" "}
symbols == {"<", "|", ">", "&", ";", "(", ")"}

execcmd(args) == [type |-> "EXEC", argv |-> args]
redircmd(c, r) == [type |-> "REDIR", cmd |-> c, file |-> r.file, mode |-> r.mode]
pipecmd(l, r) == [type |-> "PIPE", left |-> l, right |-> r]
listcmd(l, r) == [type |-> "LIST", left |-> l, right |-> r]
backcmd(c) == [type |-> "BACK", cmd |-> c]

Stop == [cmd |-> execcmd(<< >>), s |-> 0]

\* the first position from s whose character is not in skip, or es
Past(line, s, skip) ==
  CHOOSE e \in s..Len(line) :
    /\ \A i \in s..(e - 1) : line[i] \in skip
    /\ line[e] \notin skip
Blank(line, s) == Past(line, s, whitespace)
Letters(line) == ToSet(line) \ (whitespace \cup symbols \cup {End})

peek(line, s, toks) == line[Blank(line, s)] \in toks

gettoken(line, s) ==
  LET token(ret, q, eq) == [ret |-> ret, q |-> q, eq |-> eq, s |-> Blank(line, eq)]
      at(q) == IF line[q] = End THEN token(End, q, q)
               ELSE IF line[q] = ">" /\ line[q + 1] = ">" THEN token("+", q, q + 2)
               ELSE IF line[q] \in symbols THEN token(line[q], q, q + 1)
               ELSE token("a", q, Past(line, q, Letters(line)))
  IN at(Blank(line, s))

\* the redirections from s on, after those of rs; s = 0 when a file is missing
RECURSIVE parseredirs(_, _, _)
parseredirs(line, rs, s) ==
  LET to(mode, f) == IF f.ret # "a" THEN [rs |-> rs, s |-> 0]
                     ELSE parseredirs(line, Append(rs, [file |-> <<f.q, f.eq>>, mode |-> mode]), f.s)
      by(tok) == to(tok.ret, gettoken(line, tok.s))
  IN IF ~peek(line, s, {"<", ">"}) THEN [rs |-> rs, s |-> s] ELSE by(gettoken(line, s))
Redirected(cmd, rs) == FoldLeft(redircmd, cmd, rs)

\* the loop of parseexec()
RECURSIVE Args(_, _, _, _)
Args(line, args, rs, s) ==
  LET end == [cmd |-> Redirected(execcmd(args), rs), s |-> s]
      word(tok, more) == IF tok.ret # "a" \/ Len(args) + 1 >= MAXARGS \/ more.s = 0 THEN Stop
                         ELSE Args(line, Append(args, <<tok.q, tok.eq>>), more.rs, more.s)
      next(tok) == IF tok.ret = End THEN end ELSE word(tok, parseredirs(line, rs, tok.s))
  IN IF peek(line, s, {"|", ")", "&", ";"}) THEN end ELSE next(gettoken(line, s))

RECURSIVE parseline(_, _)

parseblock(line, s) ==       \* entered at "(" only
  LET end(cmd, r) == IF r.s = 0 THEN Stop ELSE [cmd |-> Redirected(cmd, r.rs), s |-> r.s]
      close(body) == IF body.s = 0 \/ ~peek(line, body.s, {")"}) THEN Stop
                     ELSE end(body.cmd, parseredirs(line, << >>, gettoken(line, body.s).s))
  IN close(parseline(line, gettoken(line, s).s))

parseexec(line, s) ==
  LET from(r) == IF r.s = 0 THEN Stop ELSE Args(line, << >>, r.rs, r.s)
  IN IF peek(line, s, {"("}) THEN parseblock(line, s) ELSE from(parseredirs(line, << >>, s))

RECURSIVE parsepipe(_, _)
parsepipe(line, s) ==
  LET join(l, r) == IF r.s = 0 THEN Stop ELSE [cmd |-> pipecmd(l.cmd, r.cmd), s |-> r.s]
      more(l) == IF l.s = 0 \/ ~peek(line, l.s, {"|"}) THEN l
                 ELSE join(l, parsepipe(line, gettoken(line, l.s).s))
  IN more(parseexec(line, s))

RECURSIVE Backs(_, _)
Backs(line, r) ==
  IF r.s # 0 /\ peek(line, r.s, {"&"})
  THEN Backs(line, [cmd |-> backcmd(r.cmd), s |-> gettoken(line, r.s).s]) ELSE r

parseline(line, s) ==
  LET join(l, r) == IF r.s = 0 THEN Stop ELSE [cmd |-> listcmd(l.cmd, r.cmd), s |-> r.s]
      more(l) == IF l.s = 0 \/ ~peek(line, l.s, {";"}) THEN l
                 ELSE join(l, parseline(line, gettoken(line, l.s).s))
  IN more(Backs(line, parsepipe(line, s)))

\* the words of a command: where they start and end
RECURSIVE Words(_)
Words(c) ==
  CASE c.type = "EXEC" -> ToSet(c.argv)
    [] c.type = "REDIR" -> Words(c.cmd) \cup {c.file}
    [] c.type = "BACK" -> Words(c.cmd)
    [] OTHER -> Words(c.left) \cup Words(c.right)

nulterminateLast(line, cmd) ==   \* on the last character of a word
  [i \in 1..Len(line) |-> IF \E w \in Words(cmd) : w[2] - 1 = i THEN End ELSE line[i]]
nulterminate(line, cmd) ==
  [i \in 1..Len(line) |-> IF \E w \in Words(cmd) : w[2] = i THEN End ELSE line[i]]

\* s = 0 when the line is refused; buf is the line the words point into
parsecmd(line) ==
  LET whole(r) == IF r.s = 0 \/ Blank(line, r.s) # Len(line) THEN Stop @@ [buf |-> line]
                  ELSE r @@ [buf |-> nulterminate(line, r.cmd)]
  IN whole(parseline(line, 1))

-----------------------------------------------------------------------------
\* runcmd(): fds is the table of descriptors, None where one is closed.  A
\* command is named by its path in the tree, and a pipe by the command's.
None == <<"none">>
Tty == <<"tty">>
Lowest(fds) == CHOOSE fd \in DOMAIN fds : fds[fd] = None /\ \A e \in 0..(fd - 1) : fds[e] # None
Close(fds, fd) == [fds EXCEPT ![fd] = None]
Dup(fds, fd) == [fds EXCEPT ![Lowest(fds)] = fds[fd]]
OpenAs(fds, obj) == [fds EXCEPT ![Lowest(fds)] = obj]
fdOf(mode) == IF mode = "<" THEN 0 ELSE 1

\* a child of PIPE: its end of the pipe takes the place of descriptor fd
EndOnly(fds, fd, use, other) == Close(Close(Dup(Close(fds, fd), use), other), use)

\* the processes that reach exec(), and those that wait for one
RECURSIVE runcmd(_, _, _)
runcmd(c, fds, at) ==
  CASE c.type = "EXEC" ->
         IF c.argv = << >> THEN {} ELSE {[at |-> at, argv |-> c.argv, fds |-> fds]}
    [] c.type = "REDIR" ->
         runcmd(c.cmd, OpenAs(Close(fds, fdOf(c.mode)), <<"file", c.mode, c.file>>), at \o <<0>>)
    [] c.type = "LIST" ->
         {[at |-> at, argv |-> << >>, fds |-> fds]}
           \cup runcmd(c.left, fds, at \o <<1>>) \cup runcmd(c.right, fds, at \o <<2>>)
    [] c.type = "PIPE" ->
         LET p0 == Lowest(fds)
             with0 == OpenAs(fds, <<"read", at>>)
             p1 == Lowest(with0)
             both == OpenAs(with0, <<"write", at>>)
         IN {[at |-> at, argv |-> << >>, fds |-> Close(Close(both, p0), p1)]}
              \cup runcmd(c.left, EndOnly(both, 1, p1, p0), at \o <<1>>)
              \cup runcmd(c.right, EndOnly(both, 0, p0, p1), at \o <<2>>)
    [] c.type = "BACK" -> runcmd(c.cmd, fds, at \o <<0>>)

-----------------------------------------------------------------------------
\* What the commands mean, without a table of descriptors: where the input
\* and the output of each come from and go to.
RECURSIVE Wiring(_, _, _, _)
Wiring(c, in, out, at) ==
  LET me(args) == {[at |-> at, argv |-> args,
                    fds |-> [fd \in 0..(NOFILE - 1) |->
                       CASE fd = 0 -> in [] fd = 1 -> out [] fd = 2 -> Tty [] OTHER -> None]]}
  IN CASE c.type = "EXEC" -> IF c.argv = << >> THEN {} ELSE me(c.argv)
       [] c.type = "REDIR" ->
            IF c.mode = "<" THEN Wiring(c.cmd, <<"file", c.mode, c.file>>, out, at \o <<0>>)
            ELSE Wiring(c.cmd, in, <<"file", c.mode, c.file>>, at \o <<0>>)
       [] c.type = "LIST" -> me(<< >>) \cup Wiring(c.left, in, out, at \o <<1>>)
                                       \cup Wiring(c.right, in, out, at \o <<2>>)
       [] c.type = "PIPE" -> me(<< >>) \cup Wiring(c.left, in, <<"write", at>>, at \o <<1>>)
                                       \cup Wiring(c.right, <<"read", at>>, out, at \o <<2>>)
       [] c.type = "BACK" -> Wiring(c.cmd, in, out, at \o <<0>>)

\* A tree written as a line, in the grammar of the shell: parentheses where
\* a command stands in a place its kind is not allowed in.  Words are
\* sequences of letters here.
RECURSIVE ShowLine(_)
RECURSIVE ShowExec(_)
ShowExec(c) ==
  CASE c.type = "EXEC" -> FoldLeft(LAMBDA s, w : s \o <<" ">> \o w, << >>, c.argv)
    [] c.type = "REDIR" -> ShowExec(c.cmd)
         \o (IF c.mode = "+" THEN <<">", ">">> ELSE <<c.mode>>) \o c.file
    [] OTHER -> <<"(">> \o ShowLine(c) \o <<")">>
RECURSIVE ShowPipe(_)
ShowPipe(c) == IF c.type = "PIPE" THEN ShowExec(c.left) \o <<"|">> \o ShowPipe(c.right)
               ELSE ShowExec(c)
RECURSIVE ShowBack(_)
ShowBack(c) == CASE c.type = "BACK" -> ShowBack(c.cmd) \o <<"&">>
                 [] c.type = "LIST" -> ShowExec(c)
                 [] OTHER -> ShowPipe(c)
ShowLine(c) == IF c.type = "LIST" THEN ShowBack(c.left) \o <<";">> \o ShowLine(c.right)
               ELSE ShowBack(c)

\* a parsed tree with the text of its words in buf, up to the NUL
Text(buf, w) == SubSeq(buf, w[1], Past(buf, w[1], ToSet(buf) \ {End}) - 1)
RECURSIVE Read(_, _)
Read(buf, c) ==
  CASE c.type = "EXEC" -> execcmd([i \in DOMAIN c.argv |-> Text(buf, c.argv[i])])
    [] c.type = "REDIR" -> redircmd(Read(buf, c.cmd), [file |-> Text(buf, c.file), mode |-> c.mode])
    [] c.type = "BACK" -> backcmd(Read(buf, c.cmd))
    [] OTHER -> [type |-> c.type, left |-> Read(buf, c.left), right |-> Read(buf, c.right)]
=============================================================================
