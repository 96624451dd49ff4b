--------------------------- MODULE MCChatDelivery ---------------------------
\* Instances of ChatDelivery for TLC.
EXTENDS ChatDelivery, FiniteSets, TLC

Symmetry == Permutations(Runs) \cup Permutations(Chats) \cup Permutations(Sessions)

\* What follows an overlap is of no interest.
InTurn == ~overlapped

\* The runs that are about, asked for or reported.
About == {q \in Runs : chatOf[q] # NoChat} \cup {u \in CronRuns : updates[u] > 0}

\* Bound: one run has a second bubble, and then one other run is about.
OneMoreBubble ==
    \A r \in Runs : current[r].streamID > 1 =>
       /\ \A q \in Runs \ {r} : current[q].streamID <= 1
       /\ Cardinality(About) <= 2

\* Bound: where a run was reported early, two runs are about, which do not
\* reason and have no callback that Stop came too late for.
EarlyIsSmall ==
    early # {} => /\ \A r \in Runs : /\ ~current[r].reasoningStarted
                                     /\ armedLoose[r] + waiting[r] <= 1
                                     /\ waiting[r] > 0 => flushTimer[r] = "fired"
                  /\ Cardinality(About) <= 2
=============================================================================
