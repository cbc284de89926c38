------------------------------- MODULE MCUser -------------------------------
EXTENDS User

Strings(S, n) == UNION {[1..k -> S] : k \in 0..n}
MCLines == Strings({"a", " ", "|", "(", ")", ";", "&", "<", ">"}, 4)

Leaf == {execcmd(<< >>), execcmd(<<<<"a">>>>), execcmd(<<<<"b", "a">>, <<"a">>>>)}
Grown(T) ==
  {backcmd(c) : c \in T}
    \cup {redircmd(c, [file |-> <<"b">>, mode |-> m]) : c \in T, m \in {"<", ">", "+"}}
    \cup {pipecmd(l, r) : l \in T, r \in T} \cup {listcmd(l, r) : l \in T, r \in T}
Few == Leaf \cup {redircmd(execcmd(<<<<"a">>>>), [file |-> <<"b">>, mode |-> "<"]),
                  pipecmd(execcmd(<<<<"a">>>>), execcmd(<<<<"b", "a">>>>)),
                  listcmd(execcmd(<<<<"a">>>>), execcmd(<< >>)),
                  backcmd(execcmd(<<<<"a">>>>))}
MCTrees == Leaf \cup Grown(Leaf) \cup Grown(Grown(Few \ {execcmd(<< >>)}))

MCPatterns == Strings({"a", "b", ".", "*", "^", "$"}, 3)
MCTexts == Strings({"a", "b", "$"}, 3)
MCGreps == {<<"a">>} \X Strings({"a", "b", NL}, 6)
MCPaths == Strings({1, 2, Slash}, 4)
MCBytes == <<1, 2, 3, 4, 5>>
=============================================================================
