------------------------------ MODULE Suppressor ------------------------------
(***************************************************************************)
(* What HandleWecomMessage relies on when it asks Dedup: a message is      *)
(* turned away only if it was seen less than TTL ago, and let through only *)
(* if that was no less than TTL ago, or never.  Callers read the clock     *)
(* before they have the mutex; Skew is what that costs.  There is no map   *)
(* here and nothing is ever cleaned up.                                    *)
(***************************************************************************)
EXTENDS Integers

CONSTANTS Keys,   \* bot and req_id
          Blank,  \* a message without a req_id
          TTL, Skew

VARIABLES sight,  \* by key, the reading of the last call, Never at first
          answer  \* what the last call returned

suppressorVars == <<sight, answer>>

Never == -1
Answer(k, dup) == answer' = [key |-> k, dup |-> dup]

Init == /\ sight = [k \in Keys |-> Never]
        /\ answer = [key |-> Blank, dup |-> FALSE]

\* A call for k: the clock reading it acts on becomes the last sight.
Sees(k, dup) == /\ sight'[k] \in Nat
                /\ sight' = [sight EXCEPT ![k] = sight'[k]]
                /\ Answer(k, dup)

Admit(k) == /\ Sees(k, FALSE)
            /\ sight[k] # Never => sight'[k] - sight[k] >= TTL - Skew

Suppress(k) == /\ Sees(k, TRUE)
               /\ sight[k] # Never
               /\ sight'[k] - sight[k] < TTL

\* Without a req_id there is nothing to go by.
LetThrough == Answer(Blank, FALSE) /\ UNCHANGED sight

\* A new process knows nothing.
Forget == Init'

Next == \/ \E k \in Keys : Admit(k) \/ Suppress(k)
        \/ LetThrough
        \/ Forget

Spec == Init /\ [][Next]_suppressorVars
=============================================================================
