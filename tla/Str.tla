-------------------------------- MODULE Str --------------------------------
(***************************************************************************)
(* The string routines of the kernel (kernel/string.c, skipelem() of       *)
(* kernel/fs.c, printint() of kernel/printf.c) and of the user library     *)
(* (user/ulib.c, user/printf.c).  A byte is a number and a string a        *)
(* sequence of bytes that ends with NUL; reading or writing past the end   *)
(* of a sequence is an error that TLC reports.                             *)
(***************************************************************************)
EXTENDS Integers, Sequences, SequencesExt

CONSTANTS DIRSIZ,      \* bytes of a name in a directory entry
          WIDTH        \* an int is one of 2^WIDTH values

ASSUME StrAssumption == DIRSIZ \in Nat \ {0} /\ WIDTH \in Nat \ {0, 1}

NUL == 0
Slash == 9
Minus == -1

\* n bytes from s to d, from the first or from the last
RECURSIVE Up(_, _, _, _)
Up(mem, d, s, n) ==
  IF n = 0 THEN mem ELSE Up([mem EXCEPT ![d] = mem[s]], d + 1, s + 1, n - 1)
RECURSIVE Down(_, _, _, _)
Down(mem, d, s, n) ==
  IF n = 0 THEN mem ELSE Down([mem EXCEPT ![d-1] = mem[s-1]], d - 1, s - 1, n - 1)

memmoveUp(mem, d, s, n) == Up(mem, d, s, n)      \* as memcpy() may do
memmove(mem, d, s, n) ==
  IF n > 0 /\ s < d /\ s + n > d THEN Down(mem, d + n, s + n, n) ELSE Up(mem, d, s, n)
memmoveUser(mem, d, s, n) ==
  IF s > d THEN Up(mem, d, s, n) ELSE Down(mem, d + n, s + n, n)

RECURSIVE strlen(_)
strlen(s) == IF s[1] = NUL THEN 0 ELSE 1 + strlen(Tail(s))

\* the n bytes strncpy() writes: t to its NUL, then NULs
RECURSIVE strncpy(_, _)
strncpy(t, n) ==
  IF n = 0 THEN << >>
  ELSE IF t[1] = NUL THEN [i \in 1..n |-> NUL] ELSE <<t[1]>> \o strncpy(Tail(t), n - 1)

RECURSIVE strncmp(_, _, _)
strncmp(p, q, n) ==
  IF n > 0 /\ p[1] # NUL /\ p[1] = q[1] THEN strncmp(Tail(p), Tail(q), n - 1)
  ELSE IF n = 0 THEN 0 ELSE p[1] - q[1]

\* the bytes safestrcpy() writes, at most n of them
RECURSIVE safestrcpy(_, _)
safestrcpy(t, n) ==
  IF n <= 0 THEN << >>
  ELSE IF n > 1 /\ t[1] # NUL THEN <<t[1]>> \o safestrcpy(Tail(t), n - 1) ELSE <<NUL>>

RECURSIVE strcmp(_, _)
strcmp(p, q) == IF p[1] # NUL /\ p[1] = q[1] THEN strcmp(Tail(p), Tail(q)) ELSE p[1] - q[1]

RECURSIVE memcmp(_, _, _)
memcmp(p, q, n) ==
  IF n = 0 THEN 0
  ELSE IF p[1] # q[1] THEN p[1] - q[1] ELSE memcmp(Tail(p), Tail(q), n - 1)

\* skipelem(): the slashes before an element, the element, those after it;
\* name is what it leaves in the caller's DIRSIZ bytes
RECURSIVE SkipSlashes(_)
SkipSlashes(path) == IF path[1] = Slash THEN SkipSlashes(Tail(path)) ELSE path
RECURSIVE Element(_)
Element(path) == IF path[1] \in {Slash, NUL} THEN << >> ELSE <<path[1]>> \o Element(Tail(path))

skipelem(path) ==
  LET s == SkipSlashes(path)
      e == Element(s)
  IN IF s[1] = NUL THEN [found |-> FALSE]
     ELSE [found |-> TRUE,
           name |-> IF Len(e) >= DIRSIZ THEN SubSeq(e, 1, DIRSIZ) ELSE e \o <<NUL>>,
           path |-> SkipSlashes(SubSeq(s, Len(e) + 1, Len(s)))]

RECURSIVE Elements(_)
Elements(path) == LET r == skipelem(path) IN
                  IF r.found THEN <<r.name>> \o Elements(r.path) ELSE << >>

namecmp(s, t) == strncmp(s, t, DIRSIZ)

\* the digits of printint(), the last first in its buffer, and the sign
RECURSIVE Digits(_, _)
Digits(x, b) == IF x < b THEN <<x>> ELSE Append(Digits(x \div b, b), x % b)
printint(xx, b) ==
  IF xx < 0 THEN <<Minus>> \o Digits((-xx) % 2^WIDTH, b) ELSE Digits(xx, b)

RECURSIVE AtoiFrom(_, _)
AtoiFrom(s, n) ==
  IF s[1] = NUL \/ s[1] > 10 THEN n ELSE AtoiFrom(Tail(s), (n * 10 + s[1] - 1) % 2^WIDTH)
atoi(s) == AtoiFrom(s, 0)    \* the digit d is the byte d + 1

-----------------------------------------------------------------------------
Str(s) == s \o <<NUL>>
Cut(s, n) == SubSeq(s, 1, IF Len(s) < n THEN Len(s) ELSE n)
\* the runs of bytes between slashes, in order
SplitAt(path) ==
  LET first == {i \in 1..Len(path) : path[i] # Slash /\ (i > 1 => path[i-1] = Slash)}
      last(i) == CHOOSE j \in i..Len(path) : /\ \A k \in i..j : path[k] # Slash
                                            /\ j < Len(path) => path[j+1] = Slash
      starts == SetToSortSeq(first, LAMBDA i, j : i < j)
  IN [k \in DOMAIN starts |-> SubSeq(path, starts[k], last(starts[k]))]
Sign(n) == IF n < 0 THEN -1 ELSE IF n > 0 THEN 1 ELSE 0
\* order of byte strings: the first byte that differs decides, a prefix is less
Order(p, q) ==
  IF p = q THEN 0
  ELSE IF IsPrefix(p, q) THEN -1 ELSE IF IsPrefix(q, p) THEN 1
  ELSE LET i == CHOOSE i \in 1..Len(p) : p[i] # q[i] /\ \A j \in 1..(i-1) : p[j] = q[j]
       IN Sign(p[i] - q[i])

RECURSIVE Value(_)
Value(ds) == IF ds = << >> THEN 0 ELSE 10 * Value(Front(ds)) + Last(ds)
=============================================================================
