---------------------------- MODULE ReplyBubbles ----------------------------
(***************************************************************************)
(* What the streaming path promises to the WeCom side, without the phases, *)
(* timers and locks that stream_sender.go needs to keep it.  A run answers *)
(* with a succession of message bubbles (stream IDs).  WeCom rewrites the  *)
(* open bubble at every frame, so a frame may only extend what the bubble  *)
(* shows; a bubble is finished before the next one starts; a finished      *)
(* bubble is never written again; and a run that is closed neither leaves  *)
(* a bubble open nor says another word.                                    *)
(***************************************************************************)
EXTENDS Naturals

CONSTANTS Runs      \* the runs (request IDs of /api/query frames)

VARIABLES bubble,   \* [Runs -> frame]: the last frame handed to the client
          closed    \* [Runs -> BOOLEAN]: the run accepts no more events

bubbleVars == <<bubble, closed>>

\* What buildMarkdown renders, reduced to what grows: is there a <think>
\* block, and how much reasoning and answer has been appended.
Content == [think : BOOLEAN, reasoning : Nat, answer : Nat]
Empty == [think |-> FALSE, reasoning |-> 0, answer |-> 0]

Frame == [stream : Nat, content : Content, finish : BOOLEAN]

\* Before the first frame: bubble 0, empty, and finished.
NoFrame == [stream |-> 0, content |-> Empty, finish |-> TRUE]

\* d shows all that c showed.
Extends(c, d) == /\ c.think => d.think
                 /\ c.reasoning <= d.reasoning
                 /\ c.answer <= d.answer

Init == /\ bubble = [r \in Runs |-> NoFrame]
        /\ closed = [r \in Runs |-> FALSE]

\* The open bubble is rewritten with more text, or finished.
Rewrite(r, f) == /\ ~bubble[r].finish
                 /\ f.stream = bubble[r].stream
                 /\ Extends(bubble[r].content, f.content)
                 /\ f.finish \/ f.content # bubble[r].content

\* A new bubble, never empty, after the last one was finished.
StartNext(r, f) == /\ bubble[r].finish
                   /\ f.stream > bubble[r].stream
                   /\ f.content # Empty

Send(r) == /\ ~closed[r]
           /\ bubble'[r] \in Frame
           /\ Rewrite(r, bubble'[r]) \/ StartNext(r, bubble'[r])
           /\ bubble' = [bubble EXCEPT ![r] = bubble'[r]]
           /\ UNCHANGED closed

Close(r) == /\ bubble[r].finish
            /\ closed' = [closed EXCEPT ![r] = TRUE]
            /\ UNCHANGED bubble

Next == \E r \in Runs : Send(r) \/ Close(r)

Spec == Init /\ [][Next]_bubbleVars
=============================================================================
