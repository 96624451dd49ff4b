-------------------------------- MODULE Shelf --------------------------------
(***************************************************************************)
(* What a download URL promises to the platform: behind every URL that was *)
(* handed out there is the whole object, and it stays there.  There are no *)
(* files here, no metadata, and nothing that can be half done.             *)
(***************************************************************************)
CONSTANTS Objects

VARIABLES shelf,   \* the objects that can be had whole
          handed   \* the objects whose URL was handed out

shelfVars == <<shelf, handed>>

Init == shelf = {} /\ handed = {}

Publish(o) == shelf' = shelf \cup {o} /\ UNCHANGED handed

HandOut(o) == o \in shelf /\ handed' = handed \cup {o} /\ UNCHANGED shelf

Next == \E o \in Objects : Publish(o) \/ HandOut(o)

Spec == Init /\ [][Next]_shelfVars
=============================================================================
