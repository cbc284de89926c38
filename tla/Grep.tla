-------------------------------- MODULE Grep --------------------------------
(***************************************************************************)
(* grep (user/grep.c): the matcher, and the loop that reads a file through *)
(* a buffer of BUF bytes, a piece at a time (a pipe or the console gives   *)
(* as little as one byte).  Patterns and texts are sequences of characters *)
(* without their NUL.                                                      *)
(***************************************************************************)
EXTENDS Integers, Sequences, SequencesExt

CONSTANTS BUF          \* sizeof(buf)
ASSUME GrepAssumption == BUF \in Nat \ {0, 1}

VARIABLES file, pos, pattern, buf, out    \* pos: how much of file was read
gvars == <<file, pos, pattern, buf, out>>

NL == "n"
Is(c, re) == re # << >> /\ re[1] = c
From(s, i) == SubSeq(s, i, Len(s))

RECURSIVE matchhere(_, _)
matchstar(c, re, text) ==
  \E k \in 0..Len(text) :
    /\ \A i \in 1..k : text[i] = c \/ c = "."
    /\ matchhere(re, From(text, k + 1))
matchhere(re, text) ==
  IF re = << >> THEN TRUE
  ELSE IF Is("*", Tail(re)) THEN matchstar(re[1], From(re, 3), text)
  ELSE IF re = <<"$">> THEN text = << >>
  ELSE /\ text # << >>
       /\ re[1] = "." \/ re[1] = text[1]
       /\ matchhere(Tail(re), Tail(text))
match(re, text) ==
  IF Is("^", re) THEN matchhere(Tail(re), text)
  ELSE \E i \in 1..(Len(text) + 1) : matchhere(re, From(text, i))

\* the whole lines in s, in order, and what follows the last of them
RECURSIVE Lines(_)
Lines(s) ==
  IF \A i \in 1..Len(s) : s[i] # NL THEN << >>
  ELSE LET q == CHOOSE i \in 1..Len(s) : s[i] = NL /\ \A j \in 1..(i-1) : s[j] # NL
       IN <<SubSeq(s, 1, q - 1)>> \o Lines(From(s, q + 1))
Rest(s) == LET ends == {i \in 1..Len(s) : s[i] = NL} IN
           IF ends = {} THEN s ELSE From(s, 1 + CHOOSE i \in ends : \A j \in ends : j <= i)
Matching(re, lines) == SelectSeq(lines, LAMBDA l : match(re, l))

\* one turn of the loop of grep(): read() returns n bytes
TurnDrop(n) ==               \* the part of a line at the end is not kept
  LET b == buf \o SubSeq(file, pos + 1, pos + n) IN
  /\ n \in 1..(BUF - Len(buf) - 1) /\ pos + n <= Len(file)
  /\ out' = out \o Matching(pattern, Lines(b))
  /\ buf' = << >>
  /\ pos' = pos + n
  /\ UNCHANGED <<file, pattern>>
Turn(n) ==
  LET b == buf \o SubSeq(file, pos + 1, pos + n) IN
  /\ n \in 1..(BUF - Len(buf) - 1) /\ pos + n <= Len(file)
  /\ out' = out \o Matching(pattern, Lines(b))
  /\ buf' = Rest(b)
  /\ pos' = pos + n
  /\ UNCHANGED <<file, pattern>>

-----------------------------------------------------------------------------
\* What a pattern means, by cutting a text in one piece per item: a starred
\* item takes a run of its character, any other exactly one.  A "$" that ends
\* the pattern anchors it.
AtEnd(re) == re # << >> /\ Last(re) = "$"
RECURSIVE Items(_)
Items(re) == IF re = << >> THEN << >>
             ELSE IF Is("*", Tail(re)) THEN <<[c |-> re[1], star |-> TRUE]>> \o Items(From(re, 3))
             ELSE <<[c |-> re[1], star |-> FALSE]>> \o Items(Tail(re))
Cuts(n, k) == {f \in [0..n -> 0..k] : f[0] = 0 /\ \A i \in 1..n : f[i-1] <= f[i]}
Accepts(items, text) ==      \* items cover a prefix of text, up to the cut of the last
  {f[Len(items)] : f \in {g \in Cuts(Len(items), Len(text)) : \A i \in 1..Len(items) :
      /\ items[i].star \/ g[i] = g[i-1] + 1
      /\ \A j \in (g[i-1] + 1)..g[i] : items[i].c \in {".", text[j]}}}
Meaning(re, text) ==
  LET starts == IF Is("^", re) THEN {1} ELSE 1..(Len(text) + 1)
      body == IF Is("^", re) THEN Tail(re) ELSE re
      anchored == AtEnd(body)
      items == Items(IF anchored THEN Front(body) ELSE body)
  IN \E i \in starts : LET ends == Accepts(items, From(text, i))
                       IN IF anchored THEN Len(text) - i + 1 \in ends ELSE ends # {}
=============================================================================
