---------------------------- MODULE StreamSender ----------------------------
(***************************************************************************)
(* internal/wecom/stream_sender.go: one StreamSender of one bot.           *)
(*                                                                         *)
(* Every run (the request ID of an /api/query) has a runState with a mutex *)
(* of its own.  Platform session goroutines call HandleEvent, time.AfterFunc*)
(* goroutines call the flush callback, and flushLocked calls SendMarkdown  *)
(* WITH THE RUN'S MUTEX HELD: that call waits for an ACK for seconds.  So  *)
(* a flush is two steps here, the frame going out and EndSend, and         *)
(* holder[r] says what the owner of the mutex does when SendMarkdown       *)
(* returns.  handledChats is under the sender's own mutex, taken only for  *)
(* single reads and writes.                                                *)
(*                                                                         *)
(* Text is abstracted to its length (the buffers are append-only) and a    *)
(* stream ID to the number of the phase.  phase.dirty is left out: the     *)
(* code writes it and never reads it.                                      *)
(***************************************************************************)
EXTENDS Naturals

CONSTANTS Runs,       \* request IDs; a fresh UUID for every query
          Chats,      \* chat IDs, never empty (chatid.go)
          NoChat,     \* chatOf of a run that is not open yet
          MaxDelta,   \* bound: deltas per phase
          MaxPhase    \* bound: phases per run

ASSUME StreamAssumption == /\ NoChat \notin Chats
                           /\ MaxDelta \in Nat
                           /\ MaxPhase \in Nat \ {0}

VARIABLES runs,         \* keys of s.runs
          chatOf,       \* runState.chatID
          closed,       \* runState.closed
          current,      \* runState.current
          flushTimer,   \* runState.flushTimer: nil, or the state of its timer
          armedLoose,   \* timers still armed that no flushTimer points to
          waiting,      \* callbacks that fired and have not got the mutex yet
          holder,       \* runState.mu: free, or what follows SendMarkdown
          handledChats, \* s.handledChats
          bubble        \* history: the last frame handed to SendMarkdown

vars == <<runs, chatOf, closed, current, flushTimer, armedLoose, waiting,
          holder, handledChats, bubble>>

Promise == INSTANCE ReplyBubbles WITH bubble <- bubble, closed <- closed

-----------------------------------------------------------------------------
\* Phases.

newPhase(k) == [streamID |-> k, reasoning |-> 0, answer |-> 0,
                reasoningStarted |-> FALSE, answerStarted |-> FALSE,
                finished |-> FALSE, lastSent |-> Promise!Empty]

hasStreamContent(p) == p.reasoning > 0 \/ p.answer > 0

\* A <think> block when reasoning has started (a placeholder while it is
\* empty), then the answer when that has started.
buildMarkdown(p) == [think |-> p.reasoningStarted,
                     reasoning |-> IF p.reasoningStarted THEN p.reasoning ELSE 0,
                     answer |-> IF p.answerStarted THEN p.answer ELSE 0]

-----------------------------------------------------------------------------
\* The steps shared by the handlers, all with the run's mutex held.

\* What is left of the caller once flushLocked returns, then mu.Unlock.
Unlock(r, p, after) ==
    /\ holder' = [holder EXCEPT ![r] = "free"]
    /\ current' = [current EXCEPT ![r] =
                     IF after = "rotate"
                     THEN [newPhase(p.streamID + 1) EXCEPT !.reasoningStarted = TRUE]
                     ELSE p]
    /\ closed' = [closed EXCEPT ![r] = @ \/ after = "close"]

\* flushLocked gets as far as SendMarkdown.
Sends(p, finish) == /\ ~p.finished
                    /\ hasStreamContent(p)
                    /\ finish \/ buildMarkdown(p) # p.lastSent

\* The phase as flushLocked leaves it, whether SendMarkdown fails or not.
Flushed(p, finish) ==
    [p EXCEPT !.finished = @ \/ finish,
              !.lastSent = IF Sends(p, finish) THEN buildMarkdown(p) ELSE @]

flushLocked(r, finish, after) ==
    LET p == Flushed(current[r], finish) IN
    \/ /\ Sends(current[r], finish)
       /\ bubble' = [bubble EXCEPT ![r] = [stream  |-> p.streamID,
                                           content |-> p.lastSent,
                                           finish  |-> finish]]
       /\ current' = [current EXCEPT ![r] = p]
       /\ holder' = [holder EXCEPT ![r] = after]
       /\ UNCHANGED closed
    \/ /\ ~Sends(current[r], finish)
       /\ Unlock(r, p, after)
       /\ UNCHANGED bubble

\* A tick that is already queued is left to expire.
scheduleFlushLocked(r) ==
    flushTimer' = [flushTimer EXCEPT ![r] = IF @ = "nil" THEN "armed" ELSE @]

\* Mutant: Stop without st.flushTimer = nil; the pointer stays, to a timer
\* that will never fire.
cancelTimerKeepsPointer(r) ==
    flushTimer' = [flushTimer EXCEPT ![r] = IF @ = "nil" THEN @ ELSE "fired"]

\* Stop takes an armed timer away; on a timer that has fired it does
\* nothing (its result is ignored), and the callback keeps waiting.
cancelTimerLocked(r) == flushTimer' = [flushTimer EXCEPT ![r] = "nil"]

-----------------------------------------------------------------------------
\* Open, called by the bridge before it sends /api/query or /api/upload.
Open(r, c) ==
    /\ chatOf[r] = NoChat
    /\ runs' = runs \cup {r}
    /\ chatOf' = [chatOf EXCEPT ![r] = c]
    /\ current' = [current EXCEPT ![r] = newPhase(1)]
    /\ UNCHANGED <<closed, flushTimer, armedLoose, waiting, holder,
                   handledChats, bubble>>

\* HandleEvent finds the run, gets its mutex and finds it not closed.
\* An event for any other run changes nothing.
Accepts(r) == r \in runs /\ holder[r] = "free" /\ ~closed[r]

\* Mutant: the old phase is flushed, not finished, before the rotation.
onReasoningStartUnfinished(r) ==
    /\ Accepts(r)
    /\ \/ /\ current[r].answerStarted
          /\ current[r].streamID < MaxPhase
          /\ cancelTimerLocked(r)
          /\ flushLocked(r, FALSE, "rotate")
       \/ /\ ~current[r].answerStarted
          /\ current' = [current EXCEPT ![r].reasoningStarted = TRUE]
          /\ UNCHANGED <<flushTimer, closed, holder, bubble>>
    /\ UNCHANGED <<runs, chatOf, armedLoose, waiting, handledChats>>

onReasoningStart(r) ==
    /\ Accepts(r)
    /\ \/ /\ current[r].answerStarted
          /\ current[r].streamID < MaxPhase
          /\ cancelTimerLocked(r)
          /\ flushLocked(r, TRUE, "rotate")
       \/ /\ ~current[r].answerStarted
          /\ current' = [current EXCEPT ![r].reasoningStarted = TRUE]
          /\ UNCHANGED <<flushTimer, closed, holder, bubble>>
    /\ UNCHANGED <<runs, chatOf, armedLoose, waiting, handledChats>>

\* reasoning.delta with a delta that is not empty.
onReasoningDelta(r) ==
    /\ Accepts(r)
    /\ current[r].reasoning + current[r].answer < MaxDelta
    /\ current' = [current EXCEPT ![r].reasoningStarted = TRUE,
                                  ![r].reasoning = @ + 1]
    /\ scheduleFlushLocked(r)
    /\ UNCHANGED <<runs, chatOf, closed, armedLoose, waiting, holder,
                   handledChats, bubble>>

\* content.delta or message.delta with a delta that is not empty.
onContentDelta(r) ==
    /\ Accepts(r)
    /\ current[r].reasoning + current[r].answer < MaxDelta
    /\ current' = [current EXCEPT ![r].answerStarted = TRUE,
                                  ![r].answer = @ + 1]
    /\ scheduleFlushLocked(r)
    /\ UNCHANGED <<runs, chatOf, closed, armedLoose, waiting, holder,
                   handledChats, bubble>>

\* content.end or message.end.
onContentEnd(r) ==
    /\ Accepts(r)
    /\ cancelTimerLocked(r)
    /\ flushLocked(r, FALSE, "return")
    /\ UNCHANGED <<runs, chatOf, armedLoose, waiting, handledChats>>

\* run.complete or run.finished.
onRunComplete(r) ==
    /\ Accepts(r)
    /\ cancelTimerLocked(r)
    /\ flushLocked(r, TRUE, "close")
    /\ UNCHANGED <<runs, chatOf, armedLoose, waiting, handledChats>>

\* A failed run finishes its bubble if it has one to finish.
FinishIfContent(r) ==
    \/ /\ hasStreamContent(current[r])
       /\ flushLocked(r, TRUE, "close")
    \/ /\ ~hasStreamContent(current[r])
       /\ Unlock(r, current[r], "close")
       /\ UNCHANGED bubble

\* Mutant: run.error closes without the closing flush.
onRunErrorDrops(r) ==
    /\ Accepts(r)
    /\ cancelTimerLocked(r)
    /\ Unlock(r, current[r], "close")
    /\ UNCHANGED <<runs, chatOf, armedLoose, waiting, handledChats, bubble>>

onRunError(r) ==
    /\ Accepts(r)
    /\ cancelTimerLocked(r)
    /\ FinishIfContent(r)
    /\ UNCHANGED <<runs, chatOf, armedLoose, waiting, handledChats>>

\* Close, which forgets the run as well.
Close(r) ==
    /\ r \in runs
    /\ holder[r] = "free"
    /\ runs' = runs \ {r}
    /\ \/ /\ closed[r]
          /\ UNCHANGED <<closed, current, flushTimer, holder, bubble>>
       \/ /\ ~closed[r]
          /\ cancelTimerLocked(r)
          /\ FinishIfContent(r)
    /\ UNCHANGED <<chatOf, armedLoose, waiting, handledChats>>

-----------------------------------------------------------------------------
\* The 200ms timer expires: its callback starts and wants the mutex.
TimerFires(r) ==
    /\ \/ /\ flushTimer[r] = "armed"
          /\ flushTimer' = [flushTimer EXCEPT ![r] = "fired"]
          /\ UNCHANGED armedLoose
       \/ /\ armedLoose[r] > 0
          /\ armedLoose' = [armedLoose EXCEPT ![r] = @ - 1]
          /\ UNCHANGED flushTimer
    /\ waiting' = [waiting EXCEPT ![r] = @ + 1]
    /\ UNCHANGED <<runs, chatOf, closed, current, holder, handledChats, bubble>>

\* The callback gets the mutex.  It clears flushTimer whichever timer that
\* points to: a callback that lost the race with Stop lets go of a newer,
\* armed timer here.
TimerCallback(r) ==
    /\ waiting[r] > 0
    /\ holder[r] = "free"
    /\ waiting' = [waiting EXCEPT ![r] = @ - 1]
    /\ \/ /\ closed[r]
          /\ UNCHANGED <<closed, current, flushTimer, armedLoose, holder, bubble>>
       \/ /\ ~closed[r]
          /\ armedLoose' = [armedLoose EXCEPT ![r] =
                              IF flushTimer[r] = "armed" THEN @ + 1 ELSE @]
          /\ flushTimer' = [flushTimer EXCEPT ![r] = "nil"]
          /\ flushLocked(r, FALSE, "return")
    /\ UNCHANGED <<runs, chatOf, handledChats>>

\* Mutant: handledChats is keyed by the run, not by its chat.
EndSendMarksRun(r, ok) ==
    /\ holder[r] # "free"
    /\ handledChats' = IF ok THEN handledChats \cup {r} ELSE handledChats
    /\ Unlock(r, current[r], holder[r])
    /\ UNCHANGED <<runs, chatOf, flushTimer, armedLoose, waiting, bubble>>

\* SendMarkdown returns: the ACK came, or it was an error, a timeout or no
\* connection.  Only an ACK marks the chat as handled; the caller goes on
\* in the same way.
EndSend(r, ok) ==
    /\ holder[r] # "free"
    /\ handledChats' = IF ok THEN handledChats \cup {chatOf[r]} ELSE handledChats
    /\ Unlock(r, current[r], holder[r])
    /\ UNCHANGED <<runs, chatOf, flushTimer, armedLoose, waiting, bubble>>

\* Mutant: the chat is never forgotten.
ForgetChatNot(c) == UNCHANGED vars

\* ForgetChat, called by the bridge when it has handled chat.updated.
ForgetChat(c) ==
    /\ handledChats' = handledChats \ {c}
    /\ UNCHANGED <<runs, chatOf, closed, current, flushTimer, armedLoose,
                   waiting, holder, bubble>>

-----------------------------------------------------------------------------
Init ==
    /\ runs = {}
    /\ chatOf = [r \in Runs |-> NoChat]
    /\ closed = [r \in Runs |-> FALSE]
    /\ current = [r \in Runs |-> newPhase(1)]
    /\ flushTimer = [r \in Runs |-> "nil"]
    /\ armedLoose = [r \in Runs |-> 0]
    /\ waiting = [r \in Runs |-> 0]
    /\ holder = [r \in Runs |-> "free"]
    /\ handledChats = {}
    /\ bubble = [r \in Runs |-> Promise!NoFrame]

HandleEvent(r) ==
    \/ onReasoningStart(r) \/ onReasoningDelta(r) \/ onContentDelta(r)
    \/ onContentEnd(r) \/ onRunComplete(r) \/ onRunError(r)

Next ==
    \/ \E r \in Runs :
          \/ \E c \in Chats : Open(r, c)
          \/ HandleEvent(r)
          \/ Close(r)
          \/ TimerFires(r)
          \/ TimerCallback(r)
          \/ \E ok \in BOOLEAN : EndSend(r, ok)
    \/ \E c \in Chats : ForgetChat(c)

Spec == Init /\ [][Next]_vars

\* Timers expire; SendMarkdown returns (it waits for its ACK no longer than
\* SendTimeout, and its write is assumed to return: client.go:452 sets no
\* deadline); sync.Mutex hands the lock to a waiter after 1ms at the latest,
\* so a callback cannot be overtaken for ever.  Nothing obliges the platform
\* to send an event or the bridge to call Open, Close or ForgetChat.
Fairness == \A r \in Runs :
               /\ WF_vars(TimerFires(r))
               /\ WF_vars(\E ok \in BOOLEAN : EndSend(r, ok))
               /\ SF_vars(TimerCallback(r))

FairSpec == Spec /\ Fairness

-----------------------------------------------------------------------------
\* Properties.

Phase == [streamID : Nat \ {0}, reasoning : Nat, answer : Nat,
          reasoningStarted : BOOLEAN, answerStarted : BOOLEAN,
          finished : BOOLEAN, lastSent : Promise!Content]

TypeOK ==
    /\ runs \subseteq Runs
    /\ chatOf \in [Runs -> Chats \cup {NoChat}]
    /\ closed \in [Runs -> BOOLEAN]
    /\ current \in [Runs -> Phase]
    /\ flushTimer \in [Runs -> {"nil", "armed", "fired"}]
    /\ armedLoose \in [Runs -> Nat]
    /\ waiting \in [Runs -> Nat]
    /\ holder \in [Runs -> {"free", "return", "rotate", "close"}]
    /\ handledChats \subseteq Chats
    /\ bubble \in [Runs -> Promise!Frame]

\* The current phase of r holds text that no frame has carried yet.
Unsent(r) == /\ hasStreamContent(current[r])
             /\ buildMarkdown(current[r]) # current[r].lastSent

\* Text that no frame has carried is always about to be flushed: a tick is
\* armed or its callback is waiting for the mutex.  Stop racing with a
\* callback, and a stale callback clearing a newer timer, never leave
\* text behind (stream_sender.go:214-235).
NoLostTick ==
    \A r \in Runs : Unsent(r) =>
        flushTimer[r] = "armed" \/ armedLoose[r] > 0 \/ waiting[r] > 0

\* A run that is closed has sent everything: the last frame is the whole
\* text of the last phase that has any, and it finished its bubble.
\* run.complete, run.error and Close all leave it so (138-148, 163-169).
ClosedIsComplete ==
    \A r \in Runs : closed[r] =>
        /\ bubble[r].finish
        /\ hasStreamContent(current[r]) =>
              /\ bubble[r].stream = current[r].streamID
              /\ bubble[r].content = buildMarkdown(current[r])

\* The frames of a run obey the protocol of ReplyBubbles, whatever timers,
\* rotations and failed sends lie between them.
KeepsPromise == Promise!Spec

\* Text is flushed without the platform's help: in the end every text of
\* an open run is in a frame (210-213).
TextIsFlushed == \A r \in Runs : Unsent(r) ~> ~Unsent(r)

-----------------------------------------------------------------------------
\* The inductive invariant behind NoLostTick, ClosedIsComplete and
\* KeepsPromise; StreamSenderProofs proves that every step keeps it.

\* An unopened run has no state; a run in the table was opened.
OpenedFirst(r) ==
    /\ r \in runs => chatOf[r] # NoChat
    /\ chatOf[r] = NoChat => /\ current[r] = newPhase(1)
                             /\ bubble[r] = Promise!NoFrame
                             /\ flushTimer[r] = "nil"
                             /\ armedLoose[r] = 0 /\ waiting[r] = 0
                             /\ holder[r] = "free"
                             /\ ~closed[r]

\* The flags agree with the buffers, and the buffers extend what was sent.
Buffers(p) ==
    /\ p.reasoning > 0 => p.reasoningStarted
    /\ p.answerStarted <=> p.answer > 0
    /\ Promise!Extends(p.lastSent, buildMarkdown(p))

\* The last bubble is that of the current phase, as the phase remembers it,
\* or a finished one of an earlier phase.
BubbleOf(b, p) ==
    /\ b.stream <= p.streamID
    /\ b.stream = p.streamID => /\ p.lastSent = b.content
                                /\ p.finished <=> b.finish
                                /\ hasStreamContent(p)
    /\ b.stream < p.streamID => /\ b.finish
                                /\ p.lastSent = Promise!Empty
                                /\ p.finished => ~hasStreamContent(p)

\* A finished phase has nothing unsent, and only a run about to rotate or
\* close, or closed, is in one; while SendMarkdown is under way the phase
\* is all sent.
LockedPhase(r) ==
    /\ current[r].finished => ~Unsent(r)
    /\ current[r].finished /\ holder[r] \in {"free", "return"} => closed[r]
    /\ closed[r] => /\ holder[r] = "free"
                    /\ hasStreamContent(current[r]) => current[r].finished
    /\ holder[r] # "free" => ~Unsent(r) /\ bubble[r].stream = current[r].streamID
    /\ holder[r] \in {"rotate", "close"} => current[r].finished

\* flushTimer is set whenever text is unsent, and if its timer has fired
\* then the callback has yet to run.
Ticking(r) ==
    /\ Unsent(r) => flushTimer[r] # "nil"
    /\ flushTimer[r] = "fired" /\ ~closed[r] => waiting[r] > 0

RunInv(r) == /\ OpenedFirst(r)
             /\ Buffers(current[r])
             /\ BubbleOf(bubble[r], current[r])
             /\ LockedPhase(r)
             /\ Ticking(r)

IInv == TypeOK /\ \A r \in Runs : RunInv(r)
=============================================================================
