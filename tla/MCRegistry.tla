------------------------------ MODULE MCRegistry ------------------------------
(* Registry for TLC.  Nothing tells one file, caller or chat from another. *)
EXTENDS Registry, TLC

Symmetry == Permutations(Files) \cup Permutations(Callers) \cup Permutations(ChatIds)

\* Nothing is promised once Registers have overlapped and the disk has
\* refused a write: TLC stops there.
NotBoth == ~(overlap /\ diskError)
=============================================================================
