----------------------------- MODULE LineEditor -----------------------------
(***************************************************************************)
(* What the console promises a reader: bytes can be taken back until their *)
(* line is complete, and then come out once and in order.                  *)
(***************************************************************************)
EXTENDS Naturals, Sequences

CONSTANT N          \* bytes the editor holds
VARIABLES
    done,           \* complete lines, not yet read
    edit            \* the line being typed

Ends(s) == s \in {"nl", "eof"}
Init == done = << >> /\ edit = << >>

\* A byte is added; it completes the line if it ends one or fills the editor.
Add(ch) ==
    /\ Len(done) + Len(edit) < N
    /\ IF Ends(ch) \/ Len(done) + Len(edit) + 1 = N
       THEN done' = done \o edit \o <<ch>> /\ edit' = << >>
       ELSE edit' = Append(edit, ch) /\ UNCHANGED done
Erase == edit # << >> /\ edit' = SubSeq(edit, 1, Len(edit) - 1) /\ UNCHANGED done
\* A read takes bytes of one line.
Get ==
    /\ \E k \in 1..Len(done) :
          /\ \A j \in 1..k-1 : ~Ends(done[j])
          /\ done' = SubSeq(done, k + 1, Len(done))
    /\ UNCHANGED edit

Next == (\E ch \in {"nl", "eof", "x"} : Add(ch)) \/ Erase \/ Get
Spec == Init /\ [][Next]_<<done, edit>>
=============================================================================
