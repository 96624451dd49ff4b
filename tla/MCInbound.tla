------------------------------ MODULE MCInbound ------------------------------
\* Inbound for TLC: one chat has both files and two questions, which compete
\* for the references; the other has a question and the blank message.
EXTENDS Inbound, TLC

CONSTANTS f1, f2, t1, t2, t3, b1, c1, c2

TwoChats == [m \in Messages |-> IF m \in {t3, b1} THEN c2 ELSE c1]

\* The files are alike, and so are the two questions of their chat.
Symmetry == Permutations({f1, f2}) \cup Permutations({t1, t2})

\* A fourth callback only where both files and both questions of their chat
\* are under way, and the connection does not break.
FourOfAChat ==
    Len(arrived) = 4 => /\ Values(arrived) = {f1, f2, t1, t2}
                        /\ \A s \in Sessions : session[s] \notin {"dead", "gone"}
=============================================================================
