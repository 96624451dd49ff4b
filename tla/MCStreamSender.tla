--------------------------- MODULE MCStreamSender ---------------------------
\* Instances of StreamSender for TLC.
EXTENDS StreamSender, TLC

\* Runs and chats are interchangeable; used by safety runs only.
Symmetry == Permutations(Runs) \cup Permutations(Chats)
=============================================================================
