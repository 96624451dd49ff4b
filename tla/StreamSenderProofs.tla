------------------------- MODULE StreamSenderProofs -------------------------
(***************************************************************************)
(* Proofs about StreamSender, for every set of runs and chats and every    *)
(* bound: its type invariant, that no text is ever left without a tick,    *)
(* that a closed run is complete, and that it implements ReplyBubbles.     *)
(***************************************************************************)
EXTENDS StreamSender, TLAPS

Afters == {"return", "rotate", "close"}

-----------------------------------------------------------------------------
\* Phases: the helpers stay in their types.

LEMMA NewPhaseType ==
    ASSUME NEW k \in Nat \ {0}
    PROVE  /\ newPhase(k) \in Phase
           /\ [newPhase(k) EXCEPT !.reasoningStarted = TRUE] \in Phase
  BY DEF newPhase, Phase, Promise!Empty, Promise!Content

LEMMA MarkdownType ==
    ASSUME NEW p \in Phase
    PROVE  buildMarkdown(p) \in Promise!Content
  BY DEF buildMarkdown, Phase, Promise!Content

LEMMA FlushedType ==
    ASSUME NEW p \in Phase, NEW finish \in BOOLEAN
    PROVE  /\ Flushed(p, finish) \in Phase
           /\ Flushed(p, finish).streamID = p.streamID
  <1>1. buildMarkdown(p) \in Promise!Content
    BY MarkdownType
  <1> QED
    BY <1>1 DEF Flushed, Phase

\* Unlock and flushLocked keep the four variables they assign in type.
LEMMA UnlockType ==
    ASSUME TypeOK, NEW r \in Runs, NEW p \in Phase,
           NEW after \in Afters \cup {"free"}, Unlock(r, p, after)
    PROVE  /\ current' \in [Runs -> Phase]
           /\ closed' \in [Runs -> BOOLEAN]
           /\ holder' \in [Runs -> Afters \cup {"free"}]
  <1>1. p.streamID + 1 \in Nat \ {0}
    BY DEF Phase
  <1>2. [newPhase(p.streamID + 1) EXCEPT !.reasoningStarted = TRUE] \in Phase
    BY <1>1, NewPhaseType
  <1> QED
    BY <1>2 DEF Unlock, TypeOK, Afters

LEMMA FlushType ==
    ASSUME TypeOK, NEW r \in Runs, NEW finish \in BOOLEAN,
           NEW after \in Afters, flushLocked(r, finish, after)
    PROVE  /\ current' \in [Runs -> Phase]
           /\ closed' \in [Runs -> BOOLEAN]
           /\ holder' \in [Runs -> Afters \cup {"free"}]
           /\ bubble' \in [Runs -> Promise!Frame]
  <1> DEFINE p == Flushed(current[r], finish)
  <1>1. current[r] \in Phase
    BY DEF TypeOK
  <1>2. p \in Phase
    BY <1>1, FlushedType
  <1> HIDE DEF p
  <1>3. CASE Unlock(r, p, after) /\ UNCHANGED bubble
    BY <1>2, <1>3, UnlockType DEF TypeOK
  <1>4. CASE /\ bubble' = [bubble EXCEPT ![r] = [stream |-> p.streamID,
                                                content |-> p.lastSent,
                                                finish |-> finish]]
             /\ current' = [current EXCEPT ![r] = p]
             /\ holder' = [holder EXCEPT ![r] = after]
             /\ UNCHANGED closed
    <2>1. [stream |-> p.streamID, content |-> p.lastSent, finish |-> finish]
             \in Promise!Frame
      BY <1>2 DEF Phase, Promise!Frame
    <2> QED
      BY <1>2, <1>4, <2>1 DEF TypeOK, Afters
  <1> QED
    BY <1>3, <1>4 DEF flushLocked, p

LEMMA FinishType ==
    ASSUME TypeOK, NEW r \in Runs, FinishIfContent(r)
    PROVE  /\ current' \in [Runs -> Phase]
           /\ closed' \in [Runs -> BOOLEAN]
           /\ holder' \in [Runs -> Afters \cup {"free"}]
           /\ bubble' \in [Runs -> Promise!Frame]
  <1>1. CASE flushLocked(r, TRUE, "close")
    BY <1>1, FlushType DEF Afters
  <1>2. CASE Unlock(r, current[r], "close") /\ UNCHANGED bubble
    <2>1. current[r] \in Phase
      BY DEF TypeOK
    <2> QED
      BY <1>2, <2>1, UnlockType DEF TypeOK, Afters
  <1> QED
    BY <1>1, <1>2 DEF FinishIfContent

-----------------------------------------------------------------------------
\* Phases: what a flush does to one.

LEMMA ExtendsSelf ==
    ASSUME NEW c \in Promise!Content
    PROVE  Promise!Extends(c, c)
  BY DEF Promise!Extends, Promise!Content

\* A flush that sends leaves nothing unsent.
LEMMA FlushedSends ==
    ASSUME NEW p \in Phase, NEW finish \in BOOLEAN, Sends(p, finish)
    PROVE  LET q == Flushed(p, finish)
           IN  /\ q.lastSent = buildMarkdown(p)
               /\ buildMarkdown(q) = buildMarkdown(p)
               /\ q.finished = finish
               /\ q.streamID = p.streamID
               /\ hasStreamContent(q)
               /\ Buffers(p) => Buffers(q)
  <1> DEFINE q == Flushed(p, finish)
  <1>1. /\ q.lastSent = buildMarkdown(p)
        /\ q.finished = finish
        /\ q.streamID = p.streamID
        /\ q.reasoning = p.reasoning /\ q.answer = p.answer
        /\ q.reasoningStarted = p.reasoningStarted
        /\ q.answerStarted = p.answerStarted
    BY DEF Flushed, Sends, Phase
  <1> HIDE DEF q
  <1>2. buildMarkdown(q) = buildMarkdown(p)
    BY <1>1 DEF buildMarkdown
  <1>3. hasStreamContent(q)
    BY <1>1 DEF Sends, hasStreamContent
  <1>4. Promise!Extends(buildMarkdown(p), buildMarkdown(p))
    BY MarkdownType, ExtendsSelf
  <1>5. Buffers(p) => Buffers(q)
    BY <1>1, <1>2, <1>4 DEF Buffers
  <1> QED
    BY <1>1, <1>2, <1>3, <1>5 DEF q

\* A flush that does not send changes at most the finished flag.
LEMMA FlushedSkips ==
    ASSUME NEW p \in Phase, NEW finish \in BOOLEAN, ~Sends(p, finish), ~p.finished
    PROVE  LET q == Flushed(p, finish)
           IN  /\ q.lastSent = p.lastSent
               /\ buildMarkdown(q) = buildMarkdown(p)
               /\ q.finished = finish
               /\ q.streamID = p.streamID
               /\ hasStreamContent(q) <=> hasStreamContent(p)
               /\ Buffers(p) => Buffers(q)
               /\ hasStreamContent(p) => ~finish /\ p.lastSent = buildMarkdown(p)
  <1> DEFINE q == Flushed(p, finish)
  <1>1. /\ q.lastSent = p.lastSent
        /\ q.finished = finish
        /\ q.streamID = p.streamID
        /\ q.reasoning = p.reasoning /\ q.answer = p.answer
        /\ q.reasoningStarted = p.reasoningStarted
        /\ q.answerStarted = p.answerStarted
    BY DEF Flushed, Phase
  <1> HIDE DEF q
  <1>2. buildMarkdown(q) = buildMarkdown(p)
    BY <1>1 DEF buildMarkdown
  <1>3. hasStreamContent(q) <=> hasStreamContent(p)
    BY <1>1 DEF hasStreamContent
  <1>4. Buffers(p) => Buffers(q)
    BY <1>1, <1>2 DEF Buffers
  <1>5. hasStreamContent(p) => ~finish /\ p.lastSent = buildMarkdown(p)
    BY DEF Sends
  <1> QED
    BY <1>1, <1>2, <1>3, <1>4, <1>5 DEF q

-----------------------------------------------------------------------------
\* The invariant of a run across a flush.

\* Where flushLocked is called: the mutex just taken, the run open, the
\* timer cancelled, and finish exactly when the run rotates or closes.
FlushCall(r, finish, after) ==
    /\ r \in Runs /\ finish \in BOOLEAN /\ after \in Afters
    /\ holder[r] = "free" /\ ~closed[r] /\ chatOf[r] # NoChat
    /\ finish <=> after \in {"rotate", "close"}
    /\ after = "rotate" => Sends(current[r], finish)
    /\ flushTimer'[r] = "nil"
    /\ UNCHANGED chatOf
    /\ r \in runs' => r \in runs

LEMMA FlushInv ==
    ASSUME TypeOK, NEW r \in Runs, RunInv(r),
           NEW finish, NEW after, FlushCall(r, finish, after),
           flushLocked(r, finish, after)
    PROVE  RunInv(r)'
  <1> DEFINE p == current[r]
             q == Flushed(p, finish)
  <1>1. /\ p \in Phase /\ q \in Phase /\ finish \in BOOLEAN
        /\ bubble[r] \in Promise!Frame /\ ~p.finished
    BY FlushedType DEF TypeOK, FlushCall, RunInv, LockedPhase
  <1>2. chatOf'[r] # NoChat /\ flushTimer'[r] = "nil"
    BY DEF FlushCall
  <1>3. CASE Sends(p, finish)
    <2>1. /\ q.lastSent = buildMarkdown(p) /\ buildMarkdown(q) = buildMarkdown(p)
          /\ q.finished = finish /\ q.streamID = p.streamID
          /\ hasStreamContent(q) /\ Buffers(q)
      BY <1>1, <1>3, FlushedSends DEF RunInv
    <2>2. /\ current'[r] = q /\ holder'[r] = after /\ closed'[r] = closed[r]
          /\ bubble'[r].stream = q.streamID /\ bubble'[r].finish = finish
          /\ bubble'[r].content = q.lastSent
      BY <1>1, <1>3 DEF flushLocked, TypeOK
    <2> HIDE DEF p, q
    <2>3. ~Unsent(r)'
      BY <2>1, <2>2 DEF Unsent
    <2>4. BubbleOf(bubble[r], current[r])'
      BY <1>1, <2>1, <2>2 DEF BubbleOf, Phase
    <2>5. LockedPhase(r)'
      BY <2>1, <2>2, <2>3 DEF LockedPhase, FlushCall, Afters
    <2> QED
      BY <1>2, <2>1, <2>2, <2>3, <2>4, <2>5 DEF RunInv, OpenedFirst, Ticking
  <1>4. CASE ~Sends(p, finish)
    <2>1. /\ q.lastSent = p.lastSent /\ buildMarkdown(q) = buildMarkdown(p)
          /\ q.finished = finish /\ q.streamID = p.streamID
          /\ hasStreamContent(q) <=> hasStreamContent(p)
          /\ Buffers(q)
          /\ hasStreamContent(p) => ~finish /\ p.lastSent = buildMarkdown(p)
      BY <1>1, <1>4, FlushedSkips DEF RunInv
    <2>2. /\ current'[r] = q /\ holder'[r] = "free"
          /\ closed'[r] = (after = "close") /\ bubble'[r] = bubble[r]
      BY <1>4 DEF flushLocked, Unlock, TypeOK, FlushCall
    <2>3. BubbleOf(bubble[r], p) /\ after # "rotate" /\ (finish <=> after = "close")
      BY <1>4 DEF RunInv, FlushCall, Afters
    <2> HIDE DEF p, q
    <2>4. ~Unsent(r)'
      BY <2>1, <2>2 DEF Unsent
    <2>5. BubbleOf(bubble[r], current[r])'
      BY <1>1, <2>1, <2>2, <2>3 DEF BubbleOf
    <2>6. LockedPhase(r)'
      BY <2>1, <2>2, <2>3, <2>4 DEF LockedPhase
    <2> QED
      BY <1>2, <2>1, <2>2, <2>4, <2>5, <2>6 DEF RunInv, OpenedFirst, Ticking
  <1> QED
    BY <1>3, <1>4

\* A failed run that has no content closes without a frame.
LEMMA FinishInv ==
    ASSUME TypeOK, NEW r \in Runs, RunInv(r),
           FlushCall(r, TRUE, "close"), FinishIfContent(r)
    PROVE  RunInv(r)'
  <1>1. CASE flushLocked(r, TRUE, "close")
    BY <1>1, FlushInv
  <1>2. CASE /\ ~hasStreamContent(current[r])
             /\ Unlock(r, current[r], "close")
             /\ UNCHANGED bubble
    <2>1. /\ current'[r] = current[r] /\ holder'[r] = "free"
          /\ closed'[r] /\ bubble'[r] = bubble[r]
      BY <1>2 DEF Unlock, TypeOK
    <2>2. /\ chatOf'[r] # NoChat /\ flushTimer'[r] = "nil"
      BY DEF FlushCall
    <2>3. ~Unsent(r)'
      BY <1>2, <2>1 DEF Unsent
    <2> QED
      BY <1>2, <2>1, <2>2, <2>3
      DEF RunInv, OpenedFirst, BubbleOf, LockedPhase, Ticking
  <1> QED
    BY <1>1, <1>2 DEF FinishIfContent

\* What EndSend does to its run: the phase is all sent, so it may be left.
LEMMA EndSendInv ==
    ASSUME TypeOK, NEW r \in Runs, RunInv(r), NEW ok \in BOOLEAN, EndSend(r, ok)
    PROVE  RunInv(r)'
  <1> DEFINE p == current[r]
  <1>1. /\ p \in Phase /\ holder[r] # "free" /\ ~Unsent(r) /\ ~closed[r]
        /\ chatOf[r] # NoChat /\ bubble[r] \in Promise!Frame
        /\ bubble[r].stream = p.streamID
        /\ holder[r] \in {"return", "rotate", "close"}
    BY DEF EndSend, RunInv, OpenedFirst, LockedPhase, TypeOK
  <1>2. /\ chatOf'[r] # NoChat /\ bubble'[r] = bubble[r] /\ holder'[r] = "free"
        /\ runs' = runs /\ flushTimer' = flushTimer /\ waiting' = waiting
    BY <1>1 DEF EndSend, Unlock, TypeOK
  <1>3. CASE holder[r] \in {"return", "close"}
    <2>1. current'[r] = p /\ closed'[r] = (holder[r] = "close")
      BY <1>1, <1>3 DEF EndSend, Unlock, TypeOK
    <2>2. Unsent(r)' = Unsent(r)
      BY <2>1 DEF Unsent
    <2> QED
      BY <1>1, <1>2, <1>3, <2>1, <2>2
      DEF RunInv, OpenedFirst, BubbleOf, LockedPhase, Ticking
  <1>4. CASE holder[r] = "rotate"
    <2> DEFINE q == [newPhase(p.streamID + 1) EXCEPT !.reasoningStarted = TRUE]
    <2>1. current'[r] = q /\ ~closed'[r]
      BY <1>1, <1>4 DEF EndSend, Unlock, TypeOK
    <2>2. /\ q.streamID = p.streamID + 1 /\ q.reasoning = 0 /\ q.answer = 0
          /\ q.reasoningStarted /\ q.answerStarted = FALSE /\ q.finished = FALSE
          /\ q.lastSent = Promise!Empty
      BY DEF newPhase
    <2> HIDE DEF q
    <2>3. ~hasStreamContent(q)
      BY <2>2 DEF hasStreamContent
    <2>4. ~Unsent(r)'
      BY <2>1, <2>3 DEF Unsent
    <2>5. Buffers(q)
      BY <2>2 DEF Buffers, buildMarkdown, Promise!Extends, Promise!Empty
    <2>6. bubble[r].finish
      BY <1>1, <1>4 DEF RunInv, LockedPhase, BubbleOf
    <2>7. p.streamID \in Nat
      BY <1>1 DEF Phase
    <2>8. BubbleOf(bubble[r], q)
      BY <1>1, <2>2, <2>3, <2>6, <2>7 DEF BubbleOf
    <2> QED
      BY <1>1, <1>2, <2>1, <2>2, <2>3, <2>4, <2>5, <2>8
      DEF RunInv, OpenedFirst, LockedPhase, Ticking
  <1> QED
    BY <1>1, <1>3, <1>4

\* A delta arms the timer if none is armed.
LEMMA DeltaInv ==
    ASSUME TypeOK, NEW r \in Runs, RunInv(r),
           onReasoningDelta(r) \/ onContentDelta(r)
    PROVE  RunInv(r)'
  <1> DEFINE p == current[r]
             q == current'[r]
  <1>1. p \in Phase /\ ~p.finished /\ holder[r] = "free" /\ ~closed[r]
    BY DEF TypeOK, RunInv, LockedPhase, onReasoningDelta, onContentDelta, Accepts
  <1>2. /\ q.streamID = p.streamID /\ q.finished = p.finished
        /\ q.lastSent = p.lastSent
        /\ \/ /\ q.reasoning = p.reasoning + 1 /\ q.reasoningStarted
              /\ q.answer = p.answer /\ q.answerStarted = p.answerStarted
           \/ /\ q.answer = p.answer + 1 /\ q.answerStarted
              /\ q.reasoning = p.reasoning
              /\ q.reasoningStarted = p.reasoningStarted
    BY <1>1 DEF onReasoningDelta, onContentDelta, Phase, TypeOK
  <1>3. /\ flushTimer'[r] # "nil" /\ bubble' = bubble /\ holder' = holder
        /\ closed' = closed /\ chatOf' = chatOf /\ runs' = runs
        /\ waiting' = waiting
        /\ flushTimer'[r] = "fired" => flushTimer[r] = "fired"
    BY DEF onReasoningDelta, onContentDelta, scheduleFlushLocked, TypeOK
  <1>4. r \in runs /\ chatOf[r] # NoChat
    BY DEF onReasoningDelta, onContentDelta, Accepts, RunInv, OpenedFirst
  <1> HIDE DEF p, q
  <1>5. hasStreamContent(q)
    BY <1>1, <1>2 DEF hasStreamContent, Phase
  <1>6. Promise!Extends(buildMarkdown(p), buildMarkdown(q)) /\ Buffers(p)
    BY <1>1, <1>2 DEF p, RunInv, Buffers, buildMarkdown, Promise!Extends, Phase
  <1>7. Promise!Extends(q.lastSent, buildMarkdown(q))
    BY <1>1, <1>2, <1>6, MarkdownType
    DEF Buffers, Promise!Extends, Phase, Promise!Content, buildMarkdown
  <1>8. Buffers(q)
    BY <1>1, <1>2, <1>6, <1>7 DEF Buffers, Phase
  <1>9. BubbleOf(bubble[r], q)
    BY <1>1, <1>2, <1>5 DEF RunInv, BubbleOf, p
  <1> QED
    BY <1>1, <1>2, <1>3, <1>4, <1>5, <1>8, <1>9
    DEF RunInv, OpenedFirst, LockedPhase, Ticking, p, q, Unsent

\* A step that leaves a run alone keeps its invariant.
LEMMA FrameInv ==
    ASSUME TypeOK, NEW s \in Runs, RunInv(s),
           /\ s \in runs' => s \in runs
           /\ chatOf'[s] = chatOf[s]
           /\ closed'[s] = closed[s]
           /\ current'[s] = current[s]
           /\ flushTimer'[s] = flushTimer[s]
           /\ armedLoose'[s] = armedLoose[s]
           /\ waiting'[s] = waiting[s]
           /\ holder'[s] = holder[s]
           /\ bubble'[s] = bubble[s]
    PROVE  RunInv(s)'
  <1>1. Unsent(s)' = Unsent(s)
    BY DEF Unsent
  <1> QED
    BY <1>1 DEF RunInv, OpenedFirst, BubbleOf, Buffers, LockedPhase, Ticking

-----------------------------------------------------------------------------
\* The steps of one run.

Step(r) == \/ \E c \in Chats : Open(r, c)
           \/ HandleEvent(r)
           \/ Close(r)
           \/ TimerFires(r)
           \/ TimerCallback(r)
           \/ \E ok \in BOOLEAN : EndSend(r, ok)

LEMMA TypeStep ==
    ASSUME IInv, NEW r \in Runs, Step(r)
    PROVE  TypeOK'
  <1> USE DEF Afters
  <1>0. TypeOK /\ RunInv(r)
    BY DEF IInv
  <1>1. ASSUME NEW c \in Chats, Open(r, c) PROVE TypeOK'
    <2>1. 1 \in Nat \ {0}
      OBVIOUS
    <2>2. newPhase(1) \in Phase
      BY <2>1, NewPhaseType
    <2> QED
      BY <1>0, <1>1, <2>2 DEF Open, TypeOK
  <1>2. CASE onReasoningStart(r)
    <2>1. CASE flushLocked(r, TRUE, "rotate") /\ cancelTimerLocked(r)
      <3>1. flushTimer' \in [Runs -> {"nil", "armed", "fired"}]
        BY <1>0, <2>1 DEF cancelTimerLocked, TypeOK
      <3> QED
        BY <1>0, <1>2, <2>1, <3>1, FlushType DEF onReasoningStart, TypeOK
    <2>2. CASE /\ current' = [current EXCEPT ![r].reasoningStarted = TRUE]
               /\ UNCHANGED <<flushTimer, closed, holder, bubble>>
      <3>1. current[r] \in Phase
        BY <1>0 DEF TypeOK
      <3>2. [current[r] EXCEPT !.reasoningStarted = TRUE] \in Phase
        BY <3>1 DEF Phase
      <3>3. current' \in [Runs -> Phase]
        BY <1>0, <2>2, <3>2 DEF TypeOK
      <3> QED
        BY <1>0, <1>2, <2>2, <3>3 DEF onReasoningStart, TypeOK
    <2> QED
      BY <1>2, <2>1, <2>2 DEF onReasoningStart
  <1>3. CASE onReasoningDelta(r) \/ onContentDelta(r)
    <2>1. current' \in [Runs -> Phase]
      BY <1>0, <1>3 DEF onReasoningDelta, onContentDelta, TypeOK, Phase
    <2> QED
      BY <1>0, <1>3, <2>1
      DEF onReasoningDelta, onContentDelta, scheduleFlushLocked, TypeOK
  <1>4. CASE onContentEnd(r) \/ onRunComplete(r)
    BY <1>0, <1>4, FlushType DEF onContentEnd, onRunComplete, cancelTimerLocked, TypeOK
  <1>5. CASE onRunError(r)
    BY <1>0, <1>5, FinishType DEF onRunError, cancelTimerLocked, TypeOK
  <1>6. CASE Close(r)
    <2>1. CASE closed[r] /\ UNCHANGED <<closed, current, flushTimer, holder, bubble>>
      BY <1>0, <1>6, <2>1 DEF Close, TypeOK
    <2>2. CASE cancelTimerLocked(r) /\ FinishIfContent(r)
      BY <1>0, <1>6, <2>2, FinishType DEF Close, cancelTimerLocked, TypeOK
    <2> QED
      BY <1>6, <2>1, <2>2 DEF Close
  <1>7. CASE TimerFires(r)
    BY <1>0, <1>7 DEF TimerFires, TypeOK
  <1>8. CASE TimerCallback(r)
    <2>1. waiting' \in [Runs -> Nat]
      <3>1. waiting[r] > 0 /\ waiting' = [waiting EXCEPT ![r] = @ - 1]
        BY <1>8, Zenon DEF TimerCallback
      <3>2. waiting \in [Runs -> Nat]
        BY <1>0 DEF TypeOK
      <3>3. waiting[r] - 1 \in Nat
        BY <3>1, <3>2
      <3> QED
        BY <3>1, <3>2, <3>3
    <2>2. CASE /\ closed[r]
               /\ UNCHANGED <<closed, current, flushTimer, armedLoose, holder, bubble>>
      BY <1>0, <1>8, <2>1, <2>2 DEF TimerCallback, TypeOK
    <2>3. CASE /\ armedLoose' = [armedLoose EXCEPT ![r] =
                                   IF flushTimer[r] = "armed" THEN @ + 1 ELSE @]
               /\ flushTimer' = [flushTimer EXCEPT ![r] = "nil"]
               /\ flushLocked(r, FALSE, "return")
      <3>1. /\ current' \in [Runs -> Phase]
            /\ closed' \in [Runs -> BOOLEAN]
            /\ holder' \in [Runs -> Afters \cup {"free"}]
            /\ bubble' \in [Runs -> Promise!Frame]
        BY <1>0, <2>3, FlushType
      <3>2. armedLoose' \in [Runs -> Nat]
        BY <1>0, <2>3 DEF TypeOK
      <3>3. flushTimer' \in [Runs -> {"nil", "armed", "fired"}]
        BY <1>0, <2>3 DEF TypeOK
      <3>4. UNCHANGED <<runs, chatOf, handledChats>>
        BY <1>8 DEF TimerCallback
      <3> QED
        BY <1>0, <2>1, <3>1, <3>2, <3>3, <3>4 DEF TypeOK
    <2> QED
      BY <1>8, <2>2, <2>3 DEF TimerCallback
  <1>9. ASSUME NEW ok \in BOOLEAN, EndSend(r, ok) PROVE TypeOK'
    <2>1. chatOf[r] \in Chats
      BY <1>0, <1>9 DEF EndSend, RunInv, OpenedFirst, TypeOK
    <2>2. current[r] \in Phase /\ holder[r] \in Afters \cup {"free"}
      BY <1>0 DEF TypeOK
    <2> QED
      BY <1>0, <1>9, <2>1, <2>2, UnlockType DEF EndSend, TypeOK
  <1> QED
    BY <1>1, <1>2, <1>3, <1>4, <1>5, <1>6, <1>7, <1>8, <1>9 DEF Step, HandleEvent

\* The run that steps keeps its invariant.
LEMMA RunStep ==
    ASSUME IInv, NEW r \in Runs, Step(r)
    PROVE  RunInv(r)'
  <1>0. TypeOK /\ RunInv(r)
    BY DEF IInv
  <1>1. ASSUME NEW c \in Chats, Open(r, c) PROVE RunInv(r)'
    <2>1. /\ current'[r] = newPhase(1) /\ chatOf'[r] # NoChat
          /\ bubble'[r] = Promise!NoFrame /\ flushTimer'[r] = "nil"
          /\ holder'[r] = "free" /\ ~closed'[r]
      BY <1>0, <1>1, StreamAssumption DEF Open, RunInv, OpenedFirst, TypeOK
    <2>2. ~Unsent(r)'
      BY <2>1 DEF Unsent, hasStreamContent, newPhase
    <2> QED
      BY <2>1, <2>2
      DEF RunInv, OpenedFirst, Buffers, BubbleOf, LockedPhase, Ticking, newPhase,
          buildMarkdown, hasStreamContent, Promise!NoFrame, Promise!Empty,
          Promise!Extends
  <1>2. Accepts(r) => r \in runs /\ chatOf[r] # NoChat /\ holder[r] = "free" /\ ~closed[r]
    BY <1>0 DEF Accepts, RunInv, OpenedFirst
  <1>3. CASE onReasoningStart(r)
    <2>1. CASE /\ current[r].answerStarted
               /\ cancelTimerLocked(r)
               /\ flushLocked(r, TRUE, "rotate")
      <3>1. Sends(current[r], TRUE)
        BY <1>0, <1>2, <1>3, <2>1
        DEF onReasoningStart, Sends, hasStreamContent, RunInv, Buffers, LockedPhase
      <3>2. FlushCall(r, TRUE, "rotate")
        BY <1>0, <1>2, <1>3, <2>1, <3>1
        DEF onReasoningStart, FlushCall, cancelTimerLocked, Afters, TypeOK
      <3> QED
        BY <1>0, <2>1, <3>2, FlushInv
    <2>2. CASE /\ ~current[r].answerStarted
               /\ current' = [current EXCEPT ![r].reasoningStarted = TRUE]
               /\ UNCHANGED <<flushTimer, closed, holder, bubble>>
      <3> DEFINE p == current[r]
                 q == current'[r]
      <3>1. /\ q.streamID = p.streamID /\ q.finished = p.finished
            /\ q.lastSent = p.lastSent /\ q.answer = p.answer
            /\ q.reasoning = p.reasoning /\ q.reasoningStarted
            /\ q.answerStarted = p.answerStarted
            /\ p \in Phase
        BY <1>0, <2>2 DEF TypeOK, Phase
      <3> HIDE DEF p, q
      <3>2. /\ Buffers(p) /\ ~p.answerStarted /\ p.answer = 0
        BY <1>0, <2>2, <3>1 DEF p, RunInv, Buffers, Phase
      <3>7. hasStreamContent(p) => buildMarkdown(q) = buildMarkdown(p)
        BY <3>1, <3>2 DEF Buffers, hasStreamContent, buildMarkdown, Phase
      <3>3. hasStreamContent(q) = hasStreamContent(p)
        BY <3>1 DEF hasStreamContent
      <3>4. Buffers(q)
        BY <3>1, <3>2 DEF Buffers, buildMarkdown, Promise!Extends, Phase
      <3>5. Unsent(r)' = Unsent(r)
        BY <3>1, <3>3, <3>7 DEF Unsent, p, q
      <3>6. BubbleOf(bubble[r], q)
        BY <1>0, <3>1, <3>3 DEF p, RunInv, BubbleOf
      <3> QED
        BY <1>0, <1>2, <1>3, <2>2, <3>1, <3>3, <3>4, <3>5, <3>6
        DEF onReasoningStart, RunInv, OpenedFirst, LockedPhase, Ticking, p, q
    <2> QED
      BY <1>3, <2>1, <2>2 DEF onReasoningStart
  <1>4. CASE onReasoningDelta(r) \/ onContentDelta(r)
    BY <1>0, <1>4, DeltaInv
  <1>5. CASE onContentEnd(r)
    <2>1. FlushCall(r, FALSE, "return")
      BY <1>0, <1>2, <1>5
      DEF onContentEnd, FlushCall, cancelTimerLocked, Afters, TypeOK
    <2> QED
      BY <1>0, <1>5, <2>1, FlushInv DEF onContentEnd
  <1>6. CASE onRunComplete(r)
    <2>1. FlushCall(r, TRUE, "close")
      BY <1>0, <1>2, <1>6
      DEF onRunComplete, FlushCall, cancelTimerLocked, Afters, TypeOK
    <2> QED
      BY <1>0, <1>6, <2>1, FlushInv DEF onRunComplete
  <1>7. CASE onRunError(r)
    <2>1. FlushCall(r, TRUE, "close")
      BY <1>0, <1>2, <1>7
      DEF onRunError, FlushCall, cancelTimerLocked, Afters, TypeOK
    <2> QED
      BY <1>0, <1>7, <2>1, FinishInv DEF onRunError
  <1>8. CASE Close(r)
    <2>1. CASE closed[r] /\ UNCHANGED <<closed, current, flushTimer, holder, bubble>>
      BY <1>0, <1>8, <2>1, FrameInv DEF Close, TypeOK
    <2>2. CASE ~closed[r] /\ cancelTimerLocked(r) /\ FinishIfContent(r)
      <3>1. FlushCall(r, TRUE, "close")
        BY <1>0, <1>8, <2>2
        DEF Close, FlushCall, cancelTimerLocked, Afters, TypeOK, RunInv, OpenedFirst
      <3> QED
        BY <1>0, <2>2, <3>1, FinishInv
    <2> QED
      BY <1>8, <2>1, <2>2 DEF Close
  <1>9. CASE TimerFires(r)
    <2>1. /\ flushTimer[r] = "nil" <=> flushTimer'[r] = "nil"
          /\ waiting'[r] > 0
          /\ chatOf[r] # NoChat
      BY <1>0, <1>9 DEF TimerFires, TypeOK, RunInv, OpenedFirst
    <2>2. Unsent(r)' = Unsent(r)
      BY <1>9 DEF TimerFires, Unsent
    <2> QED
      BY <1>0, <1>9, <2>1, <2>2
      DEF TimerFires, RunInv, OpenedFirst, Buffers, BubbleOf, LockedPhase, Ticking
  <1>10. CASE TimerCallback(r)
    <2>1. CASE closed[r] /\ UNCHANGED <<closed, current, flushTimer, armedLoose, holder, bubble>>
      <3>1. Unsent(r)' = Unsent(r)
        BY <2>1 DEF Unsent
      <3> QED
        BY <1>0, <1>10, <2>1, <3>1
        DEF TimerCallback, RunInv, OpenedFirst, Buffers, BubbleOf, LockedPhase, Ticking
    <2>2. CASE /\ ~closed[r]
               /\ flushTimer' = [flushTimer EXCEPT ![r] = "nil"]
               /\ flushLocked(r, FALSE, "return")
      <3>1. chatOf[r] # NoChat
        <4>1. SUFFICES ASSUME chatOf[r] = NoChat PROVE FALSE
          OBVIOUS
        <4> QED
          BY <1>0, <1>10, <4>1 DEF TimerCallback, RunInv, OpenedFirst
      <3>2. FlushCall(r, FALSE, "return")
        BY <1>0, <1>10, <2>2, <3>1 DEF TimerCallback, FlushCall, Afters, TypeOK
      <3> QED
        BY <1>0, <2>2, <3>2, FlushInv
    <2> QED
      BY <1>10, <2>1, <2>2 DEF TimerCallback
  <1>11. ASSUME NEW ok \in BOOLEAN, EndSend(r, ok) PROVE RunInv(r)'
    BY <1>0, <1>11, EndSendInv
  <1> QED
    BY <1>1, <1>3, <1>4, <1>5, <1>6, <1>7, <1>8, <1>9, <1>10, <1>11 DEF Step, HandleEvent

\* The other runs are not touched.
LEMMA OtherRuns ==
    ASSUME IInv, NEW r \in Runs, NEW s \in Runs, s # r, Step(r)
    PROVE  /\ s \in runs' => s \in runs
           /\ chatOf'[s] = chatOf[s]
           /\ closed'[s] = closed[s]
           /\ current'[s] = current[s]
           /\ flushTimer'[s] = flushTimer[s]
           /\ armedLoose'[s] = armedLoose[s]
           /\ waiting'[s] = waiting[s]
           /\ holder'[s] = holder[s]
           /\ bubble'[s] = bubble[s]
  <1> USE DEF cancelTimerLocked, FinishIfContent, flushLocked, Unlock
  <1>0. TypeOK
    BY DEF IInv
  <1>1. CASE \E c \in Chats : Open(r, c)
    BY <1>0, <1>1 DEF Open, TypeOK
  <1>2. CASE onReasoningStart(r)
    BY <1>0, <1>2 DEF onReasoningStart, TypeOK
  <1>3. CASE onReasoningDelta(r) \/ onContentDelta(r)
    BY <1>0, <1>3 DEF onReasoningDelta, onContentDelta, scheduleFlushLocked, TypeOK
  <1>4. CASE onContentEnd(r) \/ onRunComplete(r) \/ onRunError(r)
    BY <1>0, <1>4 DEF onContentEnd, onRunComplete, onRunError, TypeOK
  <1>5. CASE Close(r)
    BY <1>0, <1>5 DEF Close, TypeOK
  <1>6. CASE TimerFires(r)
    BY <1>0, <1>6 DEF TimerFires, TypeOK
  <1>7. CASE TimerCallback(r)
    BY <1>0, <1>7 DEF TimerCallback, TypeOK
  <1>8. CASE \E ok \in BOOLEAN : EndSend(r, ok)
    BY <1>0, <1>8 DEF EndSend, TypeOK
  <1> QED
    BY <1>1, <1>2, <1>3, <1>4, <1>5, <1>6, <1>7, <1>8 DEF Step, HandleEvent

LEMMA InitInv == Init => IInv
  <1> SUFFICES ASSUME Init PROVE IInv
    OBVIOUS
  <1>1. 1 \in Nat \ {0}
    OBVIOUS
  <1>2. newPhase(1) \in Phase
    BY <1>1, NewPhaseType
  <1>3. Promise!NoFrame \in Promise!Frame
    BY DEF Promise!NoFrame, Promise!Frame, Promise!Empty, Promise!Content
  <1>4. TypeOK
    BY <1>2, <1>3 DEF Init, TypeOK
  <1>5. ASSUME NEW r \in Runs PROVE RunInv(r)
    <2>1. /\ r \notin runs /\ current[r] = newPhase(1)
          /\ bubble[r] = Promise!NoFrame /\ flushTimer[r] = "nil"
          /\ armedLoose[r] = 0 /\ waiting[r] = 0
          /\ holder[r] = "free" /\ closed[r] = FALSE
      BY DEF Init
    <2>2. ~Unsent(r)
      BY <2>1 DEF Unsent, hasStreamContent, newPhase
    <2> QED
      BY <2>1, <2>2
      DEF RunInv, OpenedFirst, Buffers, BubbleOf, LockedPhase, Ticking, newPhase,
          buildMarkdown, hasStreamContent, Promise!NoFrame, Promise!Empty,
          Promise!Extends
  <1> QED
    BY <1>4, <1>5 DEF IInv

LEMMA NextInv == IInv /\ [Next]_vars => IInv'
  <1> SUFFICES ASSUME IInv, [Next]_vars PROVE IInv'
    OBVIOUS
  <1>1. ASSUME NEW r \in Runs, Step(r) PROVE IInv'
    <2>1. TypeOK'
      BY <1>1, TypeStep
    <2>2. ASSUME NEW s \in Runs PROVE RunInv(s)'
      <3>1. CASE s = r
        BY <1>1, <3>1, RunStep
      <3>2. CASE s # r
        BY <1>1, <3>2, OtherRuns, FrameInv DEF IInv
      <3> QED
        BY <3>1, <3>2
    <2> QED
      BY <2>1, <2>2 DEF IInv
  <1>2. ASSUME NEW c \in Chats, ForgetChat(c) PROVE IInv'
    BY <1>2, FrameInv DEF ForgetChat, IInv, TypeOK
  <1>3. CASE UNCHANGED vars
    BY <1>3, FrameInv DEF vars, IInv, TypeOK
  <1> QED
    BY <1>1, <1>2, <1>3 DEF Next, Step

-----------------------------------------------------------------------------
\* Theorems.

\* The inductive invariant holds in every reachable state.
THEOREM Invariance == Spec => []IInv
  BY InitInv, NextInv, PTL DEF Spec

\* Type correctness of the sender's state.
THEOREM TypeCorrect == Spec => []TypeOK
  <1>1. IInv => TypeOK
    BY DEF IInv
  <1> QED
    BY <1>1, Invariance, PTL

\* Text that no frame has carried always has a tick to flush it
\* (scheduleFlushLocked and cancelTimerLocked against stale callbacks).
THEOREM NeverLosesTick == Spec => []NoLostTick
  <1>1. IInv => NoLostTick
    <2> SUFFICES ASSUME IInv, NEW r \in Runs, Unsent(r)
                 PROVE  flushTimer[r] = "armed" \/ armedLoose[r] > 0 \/ waiting[r] > 0
      BY DEF NoLostTick
    <2>1. ~closed[r]
      BY DEF IInv, RunInv, LockedPhase, Unsent
    <2> QED
      BY <2>1 DEF IInv, RunInv, Ticking, TypeOK
  <1> QED
    BY <1>1, Invariance, PTL

\* A closed run has sent its whole text and finished its bubble.
LEMMA ClosedComplete == IInv => ClosedIsComplete
  <1> SUFFICES ASSUME IInv, NEW r \in Runs, closed[r]
               PROVE  /\ bubble[r].finish
                      /\ hasStreamContent(current[r]) =>
                            /\ bubble[r].stream = current[r].streamID
                            /\ bubble[r].content = buildMarkdown(current[r])
    BY DEF ClosedIsComplete
  <1>1. /\ BubbleOf(bubble[r], current[r]) /\ LockedPhase(r)
        /\ bubble[r] \in Promise!Frame /\ current[r] \in Phase
    BY DEF IInv, RunInv, TypeOK
  <1> QED
    BY <1>1 DEF BubbleOf, LockedPhase, Unsent, Phase, Promise!Frame

\* So it has in every reachable state (138-148, 163-169).
THEOREM ClosesComplete == Spec => []ClosedIsComplete
  BY ClosedComplete, Invariance, PTL

-----------------------------------------------------------------------------
\* The sender keeps the promise of ReplyBubbles: a flush that sends is a
\* Send, the step that closes a run is a Close, and every other step
\* leaves bubble and closed alone.

\* A frame that flushLocked hands over is one the promise allows.
LEMMA FlushIsSend ==
    ASSUME TypeOK, NEW r \in Runs, RunInv(r),
           NEW finish \in BOOLEAN, NEW after \in Afters,
           ~closed[r], Sends(current[r], finish), flushLocked(r, finish, after)
    PROVE  Promise!Send(r)
  <1> DEFINE p == current[r]
             b == bubble[r]
             q == Flushed(p, finish)
             f == bubble'[r]
  <1>1. /\ p \in Phase /\ q \in Phase /\ b \in Promise!Frame
        /\ Buffers(p) /\ BubbleOf(b, p)
    BY FlushedType DEF TypeOK, RunInv
  <1>2. q.lastSent = buildMarkdown(p) /\ q.streamID = p.streamID
    BY <1>1, FlushedSends
  <1>3. /\ f.stream = p.streamID /\ f.content = buildMarkdown(p) /\ f.finish = finish
        /\ bubble' = [bubble EXCEPT ![r] = f]
        /\ UNCHANGED closed
    BY <1>2 DEF flushLocked, TypeOK
  <1>4. f \in Promise!Frame
    BY FlushType DEF TypeOK
  <1> HIDE DEF p, q, b, f
  <1>5. ~p.finished /\ hasStreamContent(p) /\ (finish \/ buildMarkdown(p) # p.lastSent)
    BY DEF Sends, p
  <1>6. CASE b.stream = p.streamID
    <2>1. ~b.finish /\ b.content = p.lastSent
      BY <1>1, <1>5, <1>6 DEF BubbleOf, Promise!Frame, Phase
    <2>2. Promise!Extends(b.content, f.content)
      BY <1>1, <1>3, <2>1 DEF Buffers
    <2>3. Promise!Rewrite(r, f)
      BY <1>3, <1>5, <1>6, <2>1, <2>2 DEF Promise!Rewrite, b
    <2> QED
      BY <1>3, <1>4, <2>3 DEF Promise!Send, f
  <1>7. CASE b.stream # p.streamID
    <2>1. b.finish /\ p.streamID > b.stream
      BY <1>1, <1>7 DEF BubbleOf, Promise!Frame, Phase
    <2>2. buildMarkdown(p) # Promise!Empty
      BY <1>1, <1>5 DEF buildMarkdown, Promise!Empty, Buffers, hasStreamContent, Phase
    <2>3. Promise!StartNext(r, f)
      BY <1>3, <2>1, <2>2 DEF Promise!StartNext, b
    <2> QED
      BY <1>3, <1>4, <2>3 DEF Promise!Send, f
  <1> QED
    BY <1>6, <1>7

\* Unlock closes a run only when its bubble is finished.
LEMMA UnlockIsClose ==
    ASSUME TypeOK, NEW r \in Runs, NEW p, NEW after \in Afters \cup {"free"},
           Unlock(r, p, after), UNCHANGED bubble,
           after = "close" => bubble[r].finish
    PROVE  Promise!Close(r) \/ UNCHANGED <<bubble, closed>>
  <1>1. CASE after = "close"
    BY <1>1 DEF Unlock, TypeOK, Promise!Close
  <1>2. CASE after # "close"
    <2>1. closed' = [closed EXCEPT ![r] = closed[r]]
      BY <1>2 DEF Unlock, TypeOK
    <2> QED
      BY <2>1 DEF TypeOK
  <1> QED
    BY <1>1, <1>2

\* A phase without content has no bubble, so the last bubble is finished.
LEMMA EmptyPhase ==
    ASSUME TypeOK, NEW r \in Runs, RunInv(r), ~hasStreamContent(current[r])
    PROVE  bubble[r].finish
  <1>1. /\ current[r].streamID \in Nat /\ bubble[r].stream \in Nat
        /\ BubbleOf(bubble[r], current[r])
    BY DEF TypeOK, RunInv, Phase, Promise!Frame
  <1> QED
    BY <1>1 DEF BubbleOf

\* A whole call of flushLocked is a step of the promise.
LEMMA FlushKeeps ==
    ASSUME TypeOK, NEW r \in Runs, RunInv(r),
           NEW finish \in BOOLEAN, NEW after \in Afters,
           holder[r] = "free", ~closed[r],
           after = "close" => finish,
           flushLocked(r, finish, after)
    PROVE  Promise!Send(r) \/ Promise!Close(r) \/ UNCHANGED <<bubble, closed>>
  <1>1. CASE Sends(current[r], finish)
    BY <1>1, FlushIsSend
  <1>2. CASE ~Sends(current[r], finish)
    <2>1. Unlock(r, Flushed(current[r], finish), after) /\ UNCHANGED bubble
      BY <1>2 DEF flushLocked
    <2>2. after = "close" => ~hasStreamContent(current[r])
      BY <1>2 DEF RunInv, LockedPhase, Sends
    <2>3. after = "close" => bubble[r].finish
      BY <2>2, EmptyPhase
    <2> QED
      BY <2>1, <2>3, UnlockIsClose
  <1> QED
    BY <1>1, <1>2

LEMMA FinishKeeps ==
    ASSUME TypeOK, NEW r \in Runs, RunInv(r), holder[r] = "free", ~closed[r],
           FinishIfContent(r)
    PROVE  Promise!Send(r) \/ Promise!Close(r) \/ UNCHANGED <<bubble, closed>>
  <1>1. CASE flushLocked(r, TRUE, "close")
    BY <1>1, FlushKeeps DEF Afters
  <1>2. CASE /\ ~hasStreamContent(current[r])
             /\ Unlock(r, current[r], "close")
             /\ UNCHANGED bubble
    <2>1. bubble[r].finish
      BY <1>2, EmptyPhase
    <2> QED
      BY <1>2, <2>1, UnlockIsClose DEF Afters
  <1> QED
    BY <1>1, <1>2 DEF FinishIfContent

LEMMA StepKeeps ==
    ASSUME IInv, NEW r \in Runs, Step(r)
    PROVE  Promise!Send(r) \/ Promise!Close(r) \/ UNCHANGED <<bubble, closed>>
  <1>0. TypeOK /\ RunInv(r)
    BY DEF IInv
  <1>1. CASE onReasoningStart(r)
    BY <1>0, <1>1, FlushKeeps DEF onReasoningStart, Accepts, Afters
  <1>2. CASE onContentEnd(r) \/ onRunComplete(r)
    BY <1>0, <1>2, FlushKeeps DEF onContentEnd, onRunComplete, Accepts, Afters
  <1>3. CASE onRunError(r)
    BY <1>0, <1>3, FinishKeeps DEF onRunError, Accepts
  <1>4. CASE Close(r)
    BY <1>0, <1>4, FinishKeeps DEF Close
  <1>5. CASE TimerCallback(r)
    BY <1>0, <1>5, FlushKeeps DEF TimerCallback, Afters
  <1>6. ASSUME NEW ok \in BOOLEAN, EndSend(r, ok)
        PROVE  Promise!Send(r) \/ Promise!Close(r) \/ UNCHANGED <<bubble, closed>>
    <2>1. holder[r] = "close" => bubble[r].finish
      BY <1>0 DEF RunInv, LockedPhase, BubbleOf
    <2>2. holder[r] \in Afters \cup {"free"}
      BY <1>0 DEF TypeOK, Afters
    <2> QED
      BY <1>0, <1>6, <2>1, <2>2, UnlockIsClose DEF EndSend
  <1>7. CASE \/ \E c \in Chats : Open(r, c)
             \/ onReasoningDelta(r) \/ onContentDelta(r) \/ TimerFires(r)
    BY <1>7 DEF Open, onReasoningDelta, onContentDelta, TimerFires
  <1> QED
    BY <1>1, <1>2, <1>3, <1>4, <1>5, <1>6, <1>7 DEF Step, HandleEvent

\* The streaming sender implements ReplyBubbles: frames of a run only
\* extend the open bubble, bubbles are finished in order, and a closed run
\* is silent, whatever timers and failed sends do.
THEOREM ImplementsReplyBubbles == Spec => KeepsPromise
  <1>1. Init => Promise!Init
    BY DEF Init, Promise!Init
  <1>2. IInv /\ [Next]_vars => [Promise!Next]_<<bubble, closed>>
    <2> SUFFICES ASSUME IInv, [Next]_vars
                 PROVE  Promise!Next \/ UNCHANGED <<bubble, closed>>
      OBVIOUS
    <2>1. ASSUME NEW r \in Runs, Step(r)
          PROVE  Promise!Next \/ UNCHANGED <<bubble, closed>>
      BY <2>1, StepKeeps DEF Promise!Next
    <2>2. ASSUME NEW c \in Chats, ForgetChat(c) PROVE UNCHANGED <<bubble, closed>>
      BY <2>2 DEF ForgetChat
    <2>3. CASE UNCHANGED vars
      BY <2>3 DEF vars
    <2> QED
      BY <2>1, <2>2, <2>3 DEF Next, Step
  <1> QED
    BY <1>1, <1>2, Invariance, PTL
    DEF Spec, KeepsPromise, Promise!Spec, Promise!bubbleVars
=============================================================================
