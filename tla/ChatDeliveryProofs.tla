------------------------- MODULE ChatDeliveryProofs -------------------------
(***************************************************************************)
(* Proofs about ChatDelivery, for any runs, chats, sessions and bounds.    *)
(* Whatever overlaps, pushDedup never remembers a run before it was dealt  *)
(* with: DedupIInv needs only to know what the sessions have in hand.      *)
(*                                                                         *)
(* That an answer arrives, and once, holds while a chat's runs come in     *)
(* turn.  Base is what holds in any case, of each session, run and chat;   *)
(* Turns what holds until something overlaps: one session at most has a    *)
(* report on the chat in hand, one of its newest run, which is pushed      *)
(* once; and until a run is reported early, the chat's flag and its entry  *)
(* in pushDedup speak of that run.                                         *)
(***************************************************************************)
EXTENDS ChatDelivery, StreamSenderProofs

\* A session that forgets, remembers or pushes knows for which chat and run.
Hands == {"forget", "remember", "push"}

InHand == /\ DOMAIN task = Sessions
          /\ \A s \in Sessions : task[s].at \in Hands =>
                task[s].chat \in Chats /\ task[s].run \in AnyRun

DedupIInv == /\ pushDedup \in [Chats -> AnyRun \cup {NoRun}]
             /\ pushed \in [AnyRun -> Nat]
             /\ InHand
             /\ RememberedIsDone

LEMMA DedupInit == DeliveryInit => DedupIInv
BY DEF DeliveryInit, DedupIInv, InHand, Hands, RememberedIsDone, Idle

\* Nothing is remembered or forgotten, and no session takes a push or a
\* forget in hand.
LEMMA NothingNew ==
    ASSUME DedupIInv, UNCHANGED <<pushDedup, pushed, suppressed>>, InHand'
    PROVE  DedupIInv'
BY DEF DedupIInv, RememberedIsDone

\* A session that takes one in hand knows what it takes.
LEMMA Taken ==
    ASSUME InHand, NEW s \in Sessions, NEW c \in Chats, NEW u \in AnyRun, NEW at,
           task' = [task EXCEPT ![s] = [at |-> at, chat |-> c, run |-> u]]
    PROVE  InHand'
BY DEF InHand

LEMMA ReportInv ==
    ASSUME DedupIInv, NEW s \in Sessions, NEW c \in Chats, NEW u \in AnyRun,
           \/ ChatUpdatedHandled(s, c, u)
           \/ ChatUpdatedDup(s, c, u)
           \/ ChatUpdatedPush(s, c, u)
           \/ ChatUpdatedEmpty(s, c, u)
    PROVE  DedupIInv'
<1>1. UNCHANGED <<pushDedup, pushed, suppressed>>
  BY DEF ChatUpdatedHandled, ChatUpdatedDup, ChatUpdatedPush, ChatUpdatedEmpty
<1>2. InHand
  BY DEF DedupIInv
<1>3. CASE ChatUpdatedHandled(s, c, u)
  BY <1>1, <1>2, <1>3, Taken, NothingNew DEF ChatUpdatedHandled
<1>4. CASE ChatUpdatedPush(s, c, u)
  BY <1>1, <1>2, <1>4, Taken, NothingNew DEF ChatUpdatedPush
<1>5. CASE ChatUpdatedDup(s, c, u) \/ ChatUpdatedEmpty(s, c, u)
  <2>1. InHand'
    BY <1>2, <1>5 DEF ChatUpdatedDup, ChatUpdatedEmpty, InHand
  <2> QED BY <1>1, <2>1, NothingNew
<1> QED BY <1>3, <1>4, <1>5

\* Forgetting the flag leaves pushDedup alone, ...
LEMMA ForgetInv == ASSUME DedupIInv, NEW s \in Sessions, Forget(s) PROVE DedupIInv'
<1>1. /\ UNCHANGED <<pushDedup, pushed, suppressed>>
      /\ task' = [task EXCEPT ![s].at = "remember"] /\ task[s].at = "forget"
  BY DEF Forget
<1>2. InHand'
  BY <1>1 DEF DedupIInv, InHand, Hands
<1> QED BY <1>1, <1>2, NothingNew

\* ... which then remembers the run that is suppressed.
LEMMA RememberInv == ASSUME DedupIInv, NEW s \in Sessions, Remember(s) PROVE DedupIInv'
<1> DEFINE c0 == task[s].chat
           u0 == task[s].run
<1>1. c0 \in Chats /\ u0 \in AnyRun
  BY DEF Remember, DedupIInv, InHand, Hands
<1>2. /\ pushDedup' = [pushDedup EXCEPT ![c0] = u0]
      /\ suppressed' = suppressed \cup {u0}
      /\ pushed' = pushed
      /\ task' = [task EXCEPT ![s] = Idle]
  BY DEF Remember
<1> HIDE DEF c0, u0
<1>3. InHand'
  BY <1>2 DEF DedupIInv, InHand, Hands, Idle
<1>4. RememberedIsDone'
  BY <1>1, <1>2 DEF DedupIInv, RememberedIsDone
<1> QED BY <1>1, <1>2, <1>3, <1>4 DEF DedupIInv

\* PushReturns remembers the run only when its ACK has come.
LEMMA PushInv ==
    ASSUME DedupIInv, NEW s \in Sessions, NEW ok \in BOOLEAN, PushReturns(s, ok)
    PROVE  DedupIInv'
<1> DEFINE c0 == task[s].chat
           u0 == task[s].run
<1>1. c0 \in Chats /\ u0 \in AnyRun
  BY DEF PushReturns, DedupIInv, InHand, Hands
<1>2. /\ pushDedup' = IF ok THEN [pushDedup EXCEPT ![c0] = u0] ELSE pushDedup
      /\ pushed' = IF ok THEN [pushed EXCEPT ![u0] = @ + 1] ELSE pushed
      /\ suppressed' = suppressed
      /\ task' = [task EXCEPT ![s] = Idle]
  BY DEF PushReturns
<1> HIDE DEF c0, u0
<1>3. InHand'
  BY <1>2 DEF DedupIInv, InHand, Hands, Idle
<1>4. pushed' \in [AnyRun -> Nat] /\ \A u \in AnyRun : pushed'[u] >= pushed[u]
  BY <1>1, <1>2 DEF DedupIInv
<1>5. ok => pushed'[u0] > 0
  BY <1>1, <1>2 DEF DedupIInv
<1>6. ASSUME NEW c \in Chats, pushDedup'[c] # NoRun
      PROVE  pushDedup'[c] \in suppressed' \/ pushed'[pushDedup'[c]] > 0
  <2>1. CASE ok /\ c = c0
    BY <1>2, <1>5, <2>1 DEF DedupIInv
  <2>2. CASE ~(ok /\ c = c0)
    <3>1. pushDedup'[c] = pushDedup[c] /\ pushDedup[c] \in AnyRun
      BY <1>2, <1>6, <2>2 DEF DedupIInv
    <3>2. pushDedup[c] \in suppressed \/ pushed[pushDedup[c]] > 0
      BY <1>6, <3>1 DEF DedupIInv, RememberedIsDone
    <3>3. pushed[pushDedup[c]] \in Nat /\ pushed'[pushDedup[c]] \in Nat
      BY <1>4, <3>1 DEF DedupIInv
    <3> QED BY <1>2, <1>4, <3>1, <3>2, <3>3
  <2> QED BY <2>1, <2>2
<1> QED BY <1>1, <1>2, <1>3, <1>4, <1>6 DEF DedupIInv, RememberedIsDone

\* The rest neither remembers nor forgets.
LEMMA StreamInv ==
    ASSUME DedupIInv, NEW r \in Runs,
           \/ \E c \in Chats : Query(r, c)
           \/ Timer(r)
           \/ \E ok \in BOOLEAN : SendReturns(r, ok)
           \/ \E s \in Sessions : StreamFrame(s, r)
    PROVE  DedupIInv'
<1>1. UNCHANGED <<pushDedup, pushed, suppressed>>
  BY DEF Query, Timer, SendReturns, StreamFrame, deliveryVars
<1>2. InHand
  BY DEF DedupIInv
<1>3. CASE (\E c \in Chats : Query(r, c)) \/ Timer(r)
  BY <1>1, <1>2, <1>3, NothingNew DEF Query, Timer, deliveryVars, InHand
<1>4. ASSUME NEW ok \in BOOLEAN, SendReturns(r, ok) PROVE DedupIInv'
  BY <1>1, <1>2, <1>4, NothingNew DEF SendReturns, InHand, Hands, Idle
<1>5. ASSUME NEW s \in Sessions, StreamFrame(s, r) PROVE DedupIInv'
  BY <1>1, <1>2, <1>5, NothingNew DEF StreamFrame, InHand, Hands, Idle
<1> QED BY <1>3, <1>4, <1>5

LEMMA DedupNext == DedupIInv /\ [DeliveryNext]_allVars => DedupIInv'
<1> SUFFICES ASSUME DedupIInv, [DeliveryNext]_allVars PROVE DedupIInv'
  OBVIOUS
<1>1. CASE UNCHANGED allVars
  BY <1>1 DEF allVars, deliveryVars, DedupIInv, InHand, RememberedIsDone
<1> QED BY <1>1, StreamInv, ForgetInv, RememberInv, PushInv, ReportInv DEF DeliveryNext

\* pushDedup remembers a run only when it was pushed, or its stream made the
\* push needless; so a push that failed can be tried again (bridge.go:515-528).
THEOREM Remembered == DeliverySpec => []RememberedIsDone
<1>1. DedupIInv => RememberedIsDone
  BY DEF DedupIInv
<1> QED BY <1>1, DedupInit, DedupNext, PTL DEF DeliverySpec

-----------------------------------------------------------------------------
\* The invariant of chats whose runs come in turn.

\* What a session is in the middle of: a report of a run of that chat,
\* closed unless it was early.
TaskInv(s) ==
    /\ task[s].at = "idle" => task[s] = Idle
    /\ task[s].at \in Hands =>
          /\ task[s].chat \in Chats /\ task[s].run \in AnyRun
          /\ task[s].run \in Runs => /\ chatOf[task[s].run] = task[s].chat
                                     /\ closed[task[s].run] \/ task[s].chat \in early
          /\ task[s].run \in CronRuns => updates[task[s].run] > 0

\* Whatever overlaps: only a run that is open has been streamed, only one
\* that is closed was reported unless its chat has early reports, and the
\* last frame is acknowledged when all frames are.
RunFacts(r) ==
    /\ r \in streamed => chatOf[r] # NoChat
    /\ r \in settled \/ pushed[r] > 0 => closed[r] \/ chatOf[r] \in early
    /\ r \in streamed \ failed /\ holder[r] = "free" /\ bubble[r].finish => r \in answered

NewestFacts(c) ==
    /\ latest[c] \in Runs => chatOf[latest[c]] = c
    /\ latest[c] \in CronRuns => updates[latest[c]] > 0
    /\ \A d \in Chats : latest[c] = latest[d] /\ c # d => latest[c] = NoRun

Base == /\ IInv
        /\ DeliveryTypeOK
        /\ \A s \in Sessions : TaskInv(s)
        /\ \A r \in Runs : RunFacts(r)
        /\ \A u \in CronRuns : updates[u] = 0 => pushed[u] = 0
        /\ \A c \in Chats : NewestFacts(c)
        /\ suppressed \subseteq settled

\* In turn: at most one session reports on a chat, and its newest run ...
ReportsNewest(c) ==
    \A s \in Reporting(c) :
       /\ task[s].run = latest[c]
       /\ \A t \in Reporting(c) : t = s

\* ... which is not pushed again once it was.
PushFits(c) ==
    /\ \A s \in Reporting(c) : task[s].at = "push" => pushed[latest[c]] = 0
    /\ latest[c] \in AnyRun /\ pushed[latest[c]] > 0 => pushDedup[c] = latest[c]

\* In order, that is without an early report: there is nothing to push when
\* the newest run was streamed, and something to suppress when it is to be
\* suppressed.
TaskFits(c) ==
    \A s \in Reporting(c) :
       /\ task[s].at = "push" => c \notin handledChats /\ latest[c] \notin streamed
       /\ task[s].at = "remember" => c \notin handledChats
       /\ task[s].at \in {"forget", "remember"} /\ c \notin emptied => latest[c] \in streamed

\* The flag and pushDedup tell whether the newest run was streamed, and
\* speak of no other; while the flag is forgotten and pushDedup is not yet
\* written, its session knows.
FlagsFit(c) ==
    /\ latest[c] \in streamed => \/ c \in handledChats
                                 \/ pushDedup[c] = latest[c]
                                 \/ \E s \in Reporting(c) : task[s].at = "remember"
    /\ c \in handledChats \ emptied => latest[c] \in streamed \ settled

\* Older runs are closed.
OthersClosed(c) == \A r \in Runs : chatOf[r] = c /\ ~closed[r] => r = latest[c]

Arrived(r) == r \in answered \/ pushed[r] > 0 \/ chatOf[r] \in emptied \cup early

InOrder(c) == TaskFits(c) /\ FlagsFit(c) /\ OthersClosed(c)

ChatInTurn(c) == ReportsNewest(c) /\ PushFits(c) /\ (c \in early \/ InOrder(c))

Turns == /\ \A c \in Chats : ChatInTurn(c)
         /\ NoDuplicate
         /\ \A u \in AnyRun : pushed[u] <= 1
         /\ \A r \in Runs \cap (settled \ failed) : Arrived(r)

DeliveryIInv == DedupIInv /\ Base /\ (overlapped \/ Turns)

-----------------------------------------------------------------------------
\* The senders take the steps of their own specification.

LEMMA SendersStep ==
    ASSUME InHand, [DeliveryNext]_allVars
    PROVE  [Next]_vars
<1>1. ASSUME NEW r \in Runs, NEW c \in Chats, Query(r, c) PROVE Next
  BY <1>1 DEF Query, Next
<1>2. ASSUME NEW r \in Runs, Timer(r) PROVE Next
  BY <1>2 DEF Timer, Next
<1>3. ASSUME NEW r \in Runs, NEW ok \in BOOLEAN, SendReturns(r, ok) PROVE Next
  BY <1>3 DEF SendReturns, Next
<1>4. ASSUME NEW r \in Runs, NEW s \in Sessions, StreamFrame(s, r) PROVE Next
  BY <1>4 DEF StreamFrame, Next
<1>5. ASSUME NEW s \in Sessions, Forget(s) PROVE [Next]_vars
  <2>1. ForgetChat(task[s].chat) /\ task[s].chat \in Chats
    BY <1>5 DEF Forget, InHand, Hands
  <2> QED BY <2>1 DEF Next
<1>6. ASSUME NEW s \in Sessions, Remember(s) \/ \E ok \in BOOLEAN : PushReturns(s, ok)
      PROVE  UNCHANGED vars
  BY <1>6 DEF Remember, PushReturns
<1>7. ASSUME NEW s \in Sessions, NEW c \in Chats, NEW u \in AnyRun,
             \/ ChatUpdatedHandled(s, c, u) \/ ChatUpdatedDup(s, c, u)
             \/ ChatUpdatedPush(s, c, u) \/ ChatUpdatedEmpty(s, c, u)
      PROVE  UNCHANGED vars
  BY <1>7 DEF ChatUpdatedHandled, ChatUpdatedDup, ChatUpdatedPush, ChatUpdatedEmpty
<1>8. CASE UNCHANGED allVars
  BY <1>8 DEF allVars
<1> QED BY <1>1, <1>2, <1>3, <1>4, <1>5, <1>6, <1>7, <1>8 DEF DeliveryNext

\* An event or a tick opens nothing and ends no send; a run stays closed.
LEMMA FlushEffect ==
    ASSUME TypeOK, NEW r \in Runs, NEW finish \in BOOLEAN, NEW after \in Afters,
           flushLocked(r, finish, after), holder[r] = "free"
    PROVE  /\ closed[r] => closed'[r]
           /\ holder'[r] = "free" => bubble'[r] = bubble[r]
BY DEF flushLocked, Unlock, TypeOK, Afters

LEMMA EventEffect ==
    ASSUME IInv, NEW r \in Runs, HandleEvent(r) \/ TimerFires(r) \/ TimerCallback(r)
    PROVE  /\ UNCHANGED <<chatOf, handledChats>>
           /\ \A q \in Runs : /\ closed[q] => closed'[q]
                              /\ holder'[q] = "free" => /\ holder[q] = "free"
                                                        /\ bubble'[q] = bubble[q]
<1>0. TypeOK
  BY DEF IInv
<1>1. UNCHANGED <<chatOf, handledChats>>
  BY DEF HandleEvent, TimerFires, TimerCallback, onReasoningStart, onReasoningDelta,
         onContentDelta, onContentEnd, onRunComplete, onRunError
<1>2. /\ closed[r] => closed'[r]
      /\ holder'[r] = "free" => holder[r] = "free" /\ bubble'[r] = bubble[r]
  <2>1. CASE TimerFires(r)
    BY <2>1 DEF TimerFires
  <2>2. CASE onReasoningDelta(r) \/ onContentDelta(r)
    BY <2>2 DEF onReasoningDelta, onContentDelta
  <2>3. CASE onReasoningStart(r)
    BY <1>0, <2>3, FlushEffect DEF onReasoningStart, Accepts, Afters
  <2>4. CASE onContentEnd(r) \/ onRunComplete(r)
    BY <1>0, <2>4, FlushEffect DEF onContentEnd, onRunComplete, Accepts, Afters
  <2>5. CASE onRunError(r)
    <3>1. holder[r] = "free" /\ FinishIfContent(r)
      BY <2>5 DEF onRunError, Accepts
    <3>2. CASE flushLocked(r, TRUE, "close")
      BY <1>0, <3>1, <3>2, FlushEffect DEF Afters
    <3>3. CASE Unlock(r, current[r], "close") /\ UNCHANGED bubble
      BY <1>0, <3>1, <3>3 DEF Unlock, TypeOK
    <3> QED BY <3>1, <3>2, <3>3 DEF FinishIfContent
  <2>6. CASE TimerCallback(r)
    BY <1>0, <2>6, FlushEffect DEF TimerCallback, Afters
  <2> QED BY <2>1, <2>2, <2>3, <2>4, <2>5, <2>6 DEF HandleEvent
<1>3. ASSUME NEW q \in Runs \ {r}
      PROVE  closed'[q] = closed[q] /\ holder'[q] = holder[q] /\ bubble'[q] = bubble[q]
  <2>1. Step(r)
    BY DEF Step
  <2> QED BY <2>1, OtherRuns
<1> QED BY <1>1, <1>2, <1>3

\* Opening a run touches nothing of the others, and nothing was ever done
\* for the run itself.
LEMMA OpenEffect ==
    ASSUME Base, NEW r \in Runs, NEW c \in Chats, Open(r, c)
    PROVE  /\ UNCHANGED <<closed, holder, bubble, handledChats>>
           /\ chatOf' = [chatOf EXCEPT ![r] = c] /\ chatOf[r] = NoChat
           /\ ~closed[r] /\ r \notin streamed /\ r \notin settled /\ pushed[r] = 0
<1>1. UNCHANGED <<closed, holder, bubble, handledChats>> /\ chatOf[r] = NoChat
      /\ chatOf' = [chatOf EXCEPT ![r] = c]
  BY DEF Open
<1>2. ~closed[r]
  BY <1>1 DEF Base, IInv, RunInv, OpenedFirst
<1>3. pushed[r] \in Nat /\ RunFacts(r) /\ NoChat \notin early
  BY StreamAssumption DEF Base, DeliveryTypeOK, AnyRun
<1> QED BY <1>1, <1>2, <1>3 DEF RunFacts

\* The end of a send: its run is open, and closed, if at all, by a frame
\* that finishes.
LEMMA EndSendEffect ==
    ASSUME IInv, NEW r \in Runs, NEW ok \in BOOLEAN, EndSend(r, ok)
    PROVE  /\ UNCHANGED <<chatOf, bubble>>
           /\ handledChats' = IF ok THEN handledChats \cup {chatOf[r]} ELSE handledChats
           /\ chatOf[r] \in Chats /\ ~closed[r] /\ holder'[r] = "free"
           /\ \A q \in Runs : closed[q] => closed'[q]
           /\ \A q \in Runs \ {r} : closed'[q] = closed[q] /\ holder'[q] = holder[q]
<1>1. /\ UNCHANGED <<chatOf, bubble>> /\ holder[r] # "free"
      /\ handledChats' = IF ok THEN handledChats \cup {chatOf[r]} ELSE handledChats
      /\ Unlock(r, current[r], holder[r])
  BY DEF EndSend
<1>2. chatOf[r] # NoChat /\ ~closed[r]
  BY <1>1 DEF IInv, RunInv, OpenedFirst, LockedPhase
<1>3. chatOf[r] \in Chats
  BY <1>2 DEF IInv, TypeOK
<1>4. /\ holder' = [holder EXCEPT ![r] = "free"]
      /\ closed' = [closed EXCEPT ![r] = @ \/ holder[r] = "close"]
  BY <1>1 DEF Unlock
<1>5. /\ holder'[r] = "free"
      /\ \A q \in Runs \ {r} : closed'[q] = closed[q] /\ holder'[q] = holder[q]
  BY <1>4 DEF IInv, TypeOK
<1> QED BY <1>1, <1>2, <1>3, <1>5

-----------------------------------------------------------------------------
\* What holds whatever overlaps.

Works == [at : {"idle", "event", "forget", "remember", "push"},
          chat : Chats \cup {NoChat}, run : AnyRun \cup {NoRun}]

LEMMA IdleType == Idle \in Works /\ Idle.at = "idle" /\ Idle.chat = NoChat
BY DEF Idle, Works

\* No session takes a report in hand or puts one down.
ReportsStay ==
    /\ task' \in [Sessions -> Works]
    /\ \A s \in Sessions : \/ task'[s] = task[s]
                           \/ /\ task[s].at \in {"idle", "event"}
                              /\ task'[s] = Idle \/ task'[s].at = "event"

LEMMA BaseInit == DeliveryInit => Base
<1> SUFFICES ASSUME DeliveryInit PROVE Base
  OBVIOUS
<1>1. IInv
  BY InitInv DEF DeliveryInit
<1>2. 0 \in 0 .. MaxUpdates
  BY DeliveryAssumption
<1>3. task \in [Sessions -> Works] /\ \A s \in Sessions : task[s] = Idle
  BY IdleType DEF DeliveryInit
<1>4. DeliveryTypeOK
  BY <1>1, <1>2, <1>3 DEF DeliveryInit, DeliveryTypeOK, IInv, Works
<1>5. \A s \in Sessions : TaskInv(s)
  BY <1>3, IdleType DEF TaskInv, Hands
<1>6. \A r \in Runs : RunFacts(r)
  BY DEF DeliveryInit, RunFacts, AnyRun
<1>7. \A c \in Chats : NewestFacts(c)
  BY DeliveryAssumption DEF DeliveryInit, NewestFacts
<1> QED BY <1>1, <1>4, <1>5, <1>6, <1>7 DEF Base, DeliveryInit, AnyRun

LEMMA QueryBase ==
    ASSUME Base, IInv', NEW r \in Runs, NEW c \in Chats, Query(r, c)
    PROVE  Base'
<1>1. /\ UNCHANGED <<closed, holder, bubble, handledChats>>
      /\ chatOf' = [chatOf EXCEPT ![r] = c] /\ chatOf[r] = NoChat
      /\ ~closed[r] /\ r \notin streamed /\ r \notin settled /\ pushed[r] = 0
  BY OpenEffect DEF Query
<1>2. /\ latest' = [latest EXCEPT ![c] = r]
      /\ overlapped' = (overlapped \/ ~Quiet(c))
      /\ UNCHANGED <<pushDedup, task, updates, streamed>>
      /\ UNCHANGED <<answered, pushed, failed, settled, suppressed, emptied, early>>
  BY DEF Query, Meets
<1>3. DeliveryTypeOK
  BY DEF Base
<1>4. latest' \in [Chats -> AnyRun \cup {NoRun}] /\ overlapped' \in BOOLEAN
  BY <1>2, <1>3 DEF DeliveryTypeOK, AnyRun, Quiet
<1>5. DeliveryTypeOK'
  BY <1>2, <1>3, <1>4 DEF DeliveryTypeOK, IInv
<1>7. \A q \in Runs : chatOf[q] # NoChat => chatOf'[q] = chatOf[q]
  BY <1>1 DEF Base, IInv, TypeOK
<1>6. \A s \in Sessions : TaskInv(s)'
  BY <1>1, <1>2, <1>7, StreamAssumption DEF Base, TaskInv
<1>8. ASSUME NEW q \in Runs PROVE RunFacts(q)'
  <2>1. early \subseteq Chats /\ RunFacts(q)
    BY <1>3 DEF Base, DeliveryTypeOK
  <2> QED BY <1>1, <1>2, <1>7, <2>1, StreamAssumption DEF RunFacts
<1>9. ASSUME NEW d \in Chats PROVE NewestFacts(d)'
  <2>1. /\ latest'[c] = r
        /\ \A e \in Chats \ {c} : latest'[e] = latest[e] /\ latest[e] # r
    BY <1>1, <1>2, <1>3, StreamAssumption DEF DeliveryTypeOK, Base, NewestFacts
  <2>2. chatOf'[r] = c
    BY <1>1 DEF Base, IInv, TypeOK
  <2>3. CASE d = c
    BY <2>1, <2>2, <2>3, DeliveryAssumption DEF NewestFacts
  <2>4. CASE d # c
    <3>1. latest'[d] = latest[d] /\ latest[d] # r
      BY <2>1, <2>4
    <3>2. latest'[d] \in Runs => chatOf'[latest'[d]] = d
      <4>1. latest[d] \in Runs => chatOf[latest[d]] = d
        BY DEF Base, NewestFacts
      <4> QED BY <1>7, <3>1, <4>1, StreamAssumption
    <3>3. latest'[d] \in CronRuns => updates'[latest'[d]] > 0
      BY <1>2, <3>1 DEF Base, NewestFacts
    <3>4. \A e \in Chats : latest'[d] = latest'[e] /\ d # e => latest'[d] = NoRun
      BY <2>1, <3>1 DEF Base, NewestFacts
    <3> QED BY <3>2, <3>3, <3>4 DEF NewestFacts
  <2> QED BY <2>3, <2>4
<1> QED BY <1>2, <1>5, <1>6, <1>8, <1>9 DEF Base

LEMMA TasksStay ==
    ASSUME Base, ReportsStay, \A q \in Runs : closed[q] => closed'[q],
           UNCHANGED <<updates, chatOf, early>>
    PROVE  \A s \in Sessions : TaskInv(s)'
BY IdleType DEF Base, ReportsStay, TaskInv, Hands, Idle

LEMMA EventBase ==
    ASSUME Base, IInv', NEW r \in Runs,
           HandleEvent(r) \/ TimerFires(r) \/ TimerCallback(r), ReportsStay,
           UNCHANGED <<pushDedup, updates, streamed, answered, pushed>>,
           UNCHANGED <<failed, settled, suppressed, emptied, latest, overlapped, early>>
    PROVE  Base'
<1>1. /\ UNCHANGED <<chatOf, handledChats>>
      /\ \A q \in Runs : /\ closed[q] => closed'[q]
                         /\ holder'[q] = "free" => holder[q] = "free" /\ bubble'[q] = bubble[q]
  BY EventEffect DEF Base
<1>2. DeliveryTypeOK'
  BY DEF Base, DeliveryTypeOK, IInv, ReportsStay, Works
<1>3. \A q \in Runs : RunFacts(q)'
  BY <1>1 DEF Base, RunFacts
<1>4. \A c \in Chats : NewestFacts(c)'
  BY <1>1 DEF Base, NewestFacts
<1> QED BY <1>1, <1>2, <1>3, <1>4, TasksStay DEF Base

LEMMA FrameReports ==
    ASSUME Base, NEW r \in Runs, NEW s \in Sessions, StreamFrame(s, r)
    PROVE  ReportsStay
<1> DEFINE busy == [at |-> "event", chat |-> chatOf[r], run |-> r]
<1>1. busy \in Works /\ busy.at = "event"
  BY DEF Base, IInv, TypeOK, Works, AnyRun
<1> HIDE DEF busy
<1>2. task[s] = Idle /\ task' = [task EXCEPT ![s] = IF holder'[r] = "free" THEN Idle ELSE busy]
  BY DEF StreamFrame, busy
<1>3. task \in [Sessions -> Works]
  BY DEF Base, DeliveryTypeOK, Works
<1> QED BY <1>1, <1>2, <1>3, IdleType DEF ReportsStay

LEMMA SendReports ==
    ASSUME Base, NEW r \in Runs, NEW ok \in BOOLEAN, SendReturns(r, ok)
    PROVE  ReportsStay
<1>1. task' = [s \in Sessions |-> IF task[s].at = "event" /\ task[s].run = r THEN Idle ELSE task[s]]
  BY DEF SendReturns
<1>2. task \in [Sessions -> Works]
  BY DEF Base, DeliveryTypeOK, Works
<1> QED BY <1>1, <1>2, IdleType DEF ReportsStay

LEMMA SendBase ==
    ASSUME Base, IInv', NEW r \in Runs, NEW ok \in BOOLEAN, SendReturns(r, ok)
    PROVE  Base'
<1>1. /\ UNCHANGED <<chatOf, bubble>>
      /\ chatOf[r] \in Chats /\ ~closed[r] /\ holder'[r] = "free"
      /\ \A q \in Runs : closed[q] => closed'[q]
      /\ \A q \in Runs \ {r} : closed'[q] = closed[q] /\ holder'[q] = holder[q]
  BY EndSendEffect DEF Base, SendReturns
<1>2. /\ streamed' = (IF ok THEN streamed \cup {r} ELSE streamed)
      /\ answered' = (IF ok THEN IF bubble[r].finish THEN answered \cup {r} ELSE answered \ {r}
                      ELSE answered)
      /\ failed' = (IF ok THEN failed ELSE failed \cup {r})
      /\ UNCHANGED <<pushDedup, updates, pushed, settled, suppressed, emptied>>
      /\ UNCHANGED <<latest, overlapped, early>>
  BY DEF SendReturns
<1>3. DeliveryTypeOK'
  <2>1. answered' \subseteq streamed' /\ streamed' \subseteq Runs /\ failed' \subseteq AnyRun
    BY <1>2 DEF Base, DeliveryTypeOK, AnyRun
  <2> QED BY <1>2, <2>1, SendReports DEF Base, DeliveryTypeOK, IInv, ReportsStay, Works
<1>4. RunFacts(r)'
  BY <1>1, <1>2, StreamAssumption DEF Base, RunFacts
<1>5. ASSUME NEW q \in Runs \ {r} PROVE RunFacts(q)'
  BY <1>1, <1>2 DEF Base, RunFacts
<1>6. \A c \in Chats : NewestFacts(c)'
  BY <1>1, <1>2 DEF Base, NewestFacts
<1> QED BY <1>1, <1>2, <1>3, <1>4, <1>5, <1>6, SendReports, TasksStay DEF Base

\* The steps of the fallback leave the runs themselves alone.
LEMMA ForgetBase ==
    ASSUME Base, IInv', NEW s \in Sessions, Forget(s)
    PROVE  Base'
<1>1. /\ task' = [task EXCEPT ![s].at = "remember"] /\ task[s].at = "forget"
      /\ UNCHANGED <<pushDedup, updates, streamed, answered, pushed, failed>>
      /\ UNCHANGED <<settled, suppressed, emptied, latest, overlapped, early>>
      /\ UNCHANGED <<chatOf, closed, holder, bubble>>
  BY DEF Forget, ForgetChat
<1>2. task \in [Sessions -> Works]
  BY DEF Base, DeliveryTypeOK, Works
<1>3. /\ task'[s] \in Works /\ task'[s].at = "remember"
      /\ task'[s].chat = task[s].chat /\ task'[s].run = task[s].run
      /\ \A t \in Sessions \ {s} : task'[t] = task[t]
  BY <1>1, <1>2 DEF Works
<1>4. task' \in [Sessions -> Works]
  BY <1>1, <1>2, <1>3
<1>5. DeliveryTypeOK'
  BY <1>1, <1>4 DEF Base, DeliveryTypeOK, IInv, Works
<1>6. ASSUME NEW t \in Sessions PROVE TaskInv(t)'
  <2>1. CASE t = s
    BY <1>1, <1>3, <2>1 DEF Base, TaskInv, Hands
  <2>2. CASE t # s
    BY <1>1, <1>3, <2>2 DEF Base, TaskInv
  <2> QED BY <2>1, <2>2
<1>7. \A q \in Runs : RunFacts(q)'
  BY <1>1 DEF Base, RunFacts
<1>8. \A c \in Chats : NewestFacts(c)'
  BY <1>1 DEF Base, NewestFacts
<1> QED BY <1>1, <1>5, <1>6, <1>7, <1>8 DEF Base

LEMMA RememberBase ==
    ASSUME Base, IInv', NEW s \in Sessions, Remember(s)
    PROVE  Base'
<1> DEFINE c0 == task[s].chat
           u0 == task[s].run
<1>1. /\ c0 \in Chats /\ u0 \in AnyRun
      /\ u0 \in Runs => closed[u0] \/ chatOf[u0] \in early
  BY DEF Remember, Base, TaskInv, Hands
<1>2. /\ pushDedup' = [pushDedup EXCEPT ![c0] = u0]
      /\ task' = [task EXCEPT ![s] = Idle]
      /\ settled' = settled \cup {u0} /\ suppressed' = suppressed \cup {u0}
      /\ UNCHANGED <<updates, streamed, answered, pushed, failed, emptied>>
      /\ UNCHANGED <<latest, overlapped, early, chatOf, closed, holder, bubble>>
  BY DEF Remember, vars
<1> HIDE DEF c0, u0
<1>3. task' \in [Sessions -> Works]
  BY <1>2, IdleType DEF Base, DeliveryTypeOK, Works
<1>4. DeliveryTypeOK'
  BY <1>1, <1>2, <1>3 DEF Base, DeliveryTypeOK, IInv, Works
<1>5. \A t \in Sessions : TaskInv(t)'
  BY <1>2, <1>3, IdleType DEF Base, DeliveryTypeOK, TaskInv, Hands
<1>6. \A q \in Runs : RunFacts(q)'
  BY <1>1, <1>2 DEF Base, RunFacts
<1>7. \A c \in Chats : NewestFacts(c)'
  BY <1>2 DEF Base, NewestFacts
<1> QED BY <1>2, <1>4, <1>5, <1>6, <1>7 DEF Base

LEMMA PushReturnsBase ==
    ASSUME Base, IInv', NEW s \in Sessions, NEW ok \in BOOLEAN, PushReturns(s, ok)
    PROVE  Base'
<1> DEFINE c0 == task[s].chat
           u0 == task[s].run
<1>1. /\ c0 \in Chats /\ u0 \in AnyRun
      /\ u0 \in Runs => closed[u0] \/ chatOf[u0] \in early
  BY DEF PushReturns, Base, TaskInv, Hands
<1>2. /\ pushDedup' = (IF ok THEN [pushDedup EXCEPT ![c0] = u0] ELSE pushDedup)
      /\ pushed' = (IF ok THEN [pushed EXCEPT ![u0] = @ + 1] ELSE pushed)
      /\ failed' = (IF ok THEN failed ELSE failed \cup {u0})
      /\ task' = [task EXCEPT ![s] = Idle]
      /\ settled' = settled \cup {u0}
      /\ UNCHANGED <<updates, streamed, answered, suppressed, emptied, latest, overlapped>>
      /\ UNCHANGED <<early, chatOf, closed, holder, bubble>>
  BY DEF PushReturns, vars
<1>3. \A u \in CronRuns : updates[u] = 0 => u # u0
  BY DEF PushReturns, Base, TaskInv, Hands
<1> HIDE DEF c0, u0
<1>4. task' \in [Sessions -> Works]
  BY <1>2, IdleType DEF Base, DeliveryTypeOK, Works
<1>5. pushDedup' \in [Chats -> AnyRun \cup {NoRun}] /\ pushed' \in [AnyRun -> Nat]
  BY <1>1, <1>2 DEF Base, DeliveryTypeOK
<1>6. DeliveryTypeOK'
  BY <1>1, <1>2, <1>4, <1>5 DEF Base, DeliveryTypeOK, IInv, Works
<1>7. \A t \in Sessions : TaskInv(t)'
  BY <1>2, <1>4, IdleType DEF Base, DeliveryTypeOK, TaskInv, Hands
<1>8. \A u \in AnyRun \ {u0} : pushed'[u] = pushed[u]
  BY <1>1, <1>2 DEF Base, DeliveryTypeOK
<1>9. \A q \in Runs : RunFacts(q)'
  BY <1>1, <1>2, <1>8 DEF Base, RunFacts, AnyRun
<1>10. \A c \in Chats : NewestFacts(c)'
  BY <1>2 DEF Base, NewestFacts
<1> QED BY <1>2, <1>3, <1>6, <1>7, <1>8, <1>9, <1>10 DEF Base, AnyRun

\* What a report does before it is looked at.
LEMMA ReportedEffect ==
    ASSUME Base, NEW s \in Sessions, NEW c \in Chats, NEW u \in AnyRun, Reported(s, c, u)
    PROVE  /\ task[s] = Idle
           /\ u \in Runs => chatOf[u] = c /\ (closed[u] \/ c \in early')
           /\ early' \in {early, early \cup {c}}
           /\ updates' \in [AnyRun -> 0 .. MaxUpdates] /\ updates'[u] > 0
           /\ \A v \in AnyRun : updates[v] > 0 => updates'[v] > 0
           /\ \A v \in AnyRun \ {u} : updates'[v] = updates[v]
           /\ latest' = [latest EXCEPT ![c] = latest'[c]]
           /\ \/ latest'[c] = latest[c]
              \/ latest'[c] = u /\ u \in CronRuns /\ updates[u] = 0
           /\ overlapped' \in BOOLEAN
           /\ overlapped => overlapped'
           /\ ~overlapped' => /\ latest'[c] = u /\ Reporting(c) = {}
                              /\ latest'[c] # latest[c] => Quiet(c)
<1>1. updates \in [AnyRun -> 0 .. MaxUpdates] /\ latest \in [Chats -> AnyRun \cup {NoRun}]
      /\ overlapped \in BOOLEAN
  BY DEF Base, DeliveryTypeOK
<1>2. /\ task[s] = Idle /\ updates[u] < MaxUpdates
      /\ u \in Runs => chatOf[u] = c
      /\ early' = IF u \in Runs /\ ~closed[u] THEN early \cup {c} ELSE early
      /\ updates' = [updates EXCEPT ![u] = @ + 1]
      /\ latest' = IF u \in CronRuns /\ updates[u] = 0 THEN [latest EXCEPT ![c] = u]
                   ELSE latest
      /\ overlapped' = (overlapped \/ \/ latest'[c] # u
                                      \/ u \in CronRuns /\ latest[c] # u /\ ~Quiet(c)
                                      \/ Reporting(c) # {})
  BY DEF Reported, Meets
<1>3. updates[u] \in Nat /\ updates[u] + 1 \in 0 .. MaxUpdates
  BY <1>1, <1>2, DeliveryAssumption
<1>4. /\ updates' \in [AnyRun -> 0 .. MaxUpdates] /\ updates'[u] > 0
      /\ \A v \in AnyRun \ {u} : updates'[v] = updates[v]
  BY <1>1, <1>2, <1>3
<1>5. /\ latest' = [latest EXCEPT ![c] = latest'[c]]
      /\ \/ latest'[c] = latest[c]
         \/ latest'[c] = u /\ u \in CronRuns /\ updates[u] = 0
  BY <1>1, <1>2
<1>6. overlapped' \in BOOLEAN /\ (overlapped => overlapped')
  BY <1>1, <1>2 DEF Quiet
<1>7. ~overlapped' => /\ latest'[c] = u /\ Reporting(c) = {}
                      /\ latest'[c] # latest[c] => Quiet(c)
  BY <1>2, <1>5
<1> QED BY <1>2, <1>4, <1>5, <1>6, <1>7

LEMMA ReportBase ==
    ASSUME Base, IInv', NEW s \in Sessions, NEW c \in Chats, NEW u \in AnyRun,
           \/ ChatUpdatedHandled(s, c, u)
           \/ ChatUpdatedDup(s, c, u)
           \/ ChatUpdatedPush(s, c, u)
           \/ ChatUpdatedEmpty(s, c, u)
    PROVE  Base'
<1>1. Reported(s, c, u)
  BY DEF ChatUpdatedHandled, ChatUpdatedDup, ChatUpdatedPush, ChatUpdatedEmpty
<1>2. /\ UNCHANGED <<pushDedup, streamed, answered, pushed, failed, suppressed>>
      /\ UNCHANGED <<chatOf, closed, holder, bubble>>
      /\ settled' \in {settled, settled \cup {u}}
      /\ emptied' \in {emptied, emptied \cup {c}}
  BY DEF ChatUpdatedHandled, ChatUpdatedDup, ChatUpdatedPush, ChatUpdatedEmpty, vars
<1>3. PICK at \in {"forget", "push"} :
         task' \in {task, [task EXCEPT ![s] = [at |-> at, chat |-> c, run |-> u]]}
  BY DEF ChatUpdatedHandled, ChatUpdatedDup, ChatUpdatedPush, ChatUpdatedEmpty
<1> DEFINE work == [at |-> at, chat |-> c, run |-> u]
<1>4. work \in Works /\ work.at \in Hands /\ work.chat = c /\ work.run = u
  BY DEF Works, Hands
<1>5. task' \in {task, [task EXCEPT ![s] = work]}
  BY <1>3
<1> HIDE DEF work
<1>6. /\ u \in Runs => chatOf[u] = c /\ (closed[u] \/ c \in early')
      /\ early' \in {early, early \cup {c}}
      /\ updates' \in [AnyRun -> 0 .. MaxUpdates] /\ updates'[u] > 0
      /\ \A v \in AnyRun : updates[v] > 0 => updates'[v] > 0
      /\ \A v \in AnyRun \ {u} : updates'[v] = updates[v]
      /\ latest' = [latest EXCEPT ![c] = latest'[c]]
      /\ \/ latest'[c] = latest[c]
         \/ latest'[c] = u /\ u \in CronRuns /\ updates[u] = 0
      /\ overlapped' \in BOOLEAN
  BY <1>1, ReportedEffect
<1>7. task \in [Sessions -> Works]
  BY DEF Base, DeliveryTypeOK, Works
<1>8. DeliveryTypeOK'
  <2>1. task' \in [Sessions -> Works]
    BY <1>4, <1>5, <1>7
  <2>2. latest' \in [Chats -> AnyRun \cup {NoRun}]
    BY <1>6 DEF Base, DeliveryTypeOK
  <2>3. (failed' \cup settled' \cup suppressed') \subseteq AnyRun /\ emptied' \subseteq Chats
    BY <1>2 DEF Base, DeliveryTypeOK
  <2> QED BY <1>2, <1>6, <2>1, <2>2, <2>3 DEF Base, DeliveryTypeOK, IInv, Works
<1>9. ASSUME NEW t \in Sessions PROVE TaskInv(t)'
  <2>1. CASE task'[t] = task[t]
    BY <1>2, <1>6, <2>1 DEF Base, TaskInv, AnyRun
  <2>2. CASE task'[t] = work
    BY <1>2, <1>4, <1>6, <2>2 DEF TaskInv, Hands
  <2> QED BY <1>5, <1>7, <2>1, <2>2
<1>10. \A q \in Runs : RunFacts(q)'
  BY <1>2, <1>6 DEF Base, RunFacts
<1>11. \A v \in CronRuns : updates'[v] = 0 => pushed'[v] = 0
  BY <1>2, <1>6 DEF Base, AnyRun
<1>12. ASSUME NEW d \in Chats PROVE NewestFacts(d)'
  <2>1. \A e \in Chats \ {c} : latest'[e] = latest[e]
    BY <1>6 DEF Base, DeliveryTypeOK
  <2>2. CASE latest'[c] = latest[c]
    <3>1. \A e \in Chats : latest'[e] = latest[e]
      BY <2>1, <2>2
    <3>2. /\ latest[d] \in Runs => chatOf[latest[d]] = d
          /\ latest[d] \in CronRuns => updates'[latest[d]] > 0
      BY <1>6 DEF Base, NewestFacts, AnyRun
    <3> QED BY <1>2, <3>1, <3>2 DEF Base, NewestFacts
  <2>3. CASE latest'[c] = u /\ u \in CronRuns /\ updates[u] = 0
    <3>1. \A e \in Chats : latest[e] # u
      BY <2>3 DEF Base, NewestFacts
    <3>2. CASE d = c
      BY <1>6, <2>1, <2>3, <3>1, <3>2, DeliveryAssumption DEF NewestFacts
    <3>3. CASE d # c
      <4>1. latest'[d] = latest[d] /\ latest[d] # u
        BY <2>1, <3>1, <3>3
      <4>2. /\ latest[d] \in Runs => chatOf[latest[d]] = d
            /\ latest[d] \in CronRuns => updates'[latest[d]] > 0
        BY <1>6 DEF Base, NewestFacts, AnyRun
      <4> QED BY <1>2, <2>1, <2>3, <4>1, <4>2 DEF Base, NewestFacts
    <3> QED BY <3>2, <3>3
  <2> QED BY <1>6, <2>2, <2>3
<1> QED BY <1>2, <1>8, <1>9, <1>10, <1>11, <1>12 DEF Base

-----------------------------------------------------------------------------
\* What holds of chats whose runs come in turn.

SameReports(c) == Reporting(c)' = Reporting(c) /\ \A s \in Reporting(c) : task'[s] = task[s]

LEMMA ReportingIs ==
    ASSUME Base, NEW c \in Chats
    PROVE  Reporting(c) = {s \in Sessions : task[s].at \in Hands /\ task[s].chat = c}
<1>1. ASSUME NEW s \in Sessions, task[s].at = "idle" PROVE task[s].chat # c
  BY <1>1, IdleType, StreamAssumption DEF Base, TaskInv
<1>2. \A s \in Sessions : task[s].at \in {"idle", "event", "forget", "remember", "push"}
  BY DEF Base, DeliveryTypeOK
<1> QED BY <1>1, <1>2 DEF Reporting, Hands

LEMMA StayReports ==
    ASSUME Base, ReportsStay, NEW c \in Chats
    PROVE  SameReports(c)
<1>1. \A s \in Sessions : /\ s \in Reporting(c) => task[s].at \notin {"idle", "event"}
                          /\ task[s] = Idle => s \notin Reporting(c)
  BY ReportingIs, IdleType DEF Hands
<1>2. ASSUME NEW s \in Sessions, task'[s] = Idle \/ task'[s].at = "event"
      PROVE  ~(task'[s].chat = c /\ task'[s].at # "event")
  BY <1>2, IdleType, StreamAssumption
<1>3. Reporting(c)' = Reporting(c)
  <2>1. ASSUME NEW s \in Sessions PROVE s \in Reporting(c)' <=> s \in Reporting(c)
    BY <1>1, <1>2 DEF ReportsStay, Reporting
  <2> QED BY <2>1 DEF Reporting
<1>4. \A s \in Reporting(c) : task'[s] = task[s]
  BY <1>1 DEF ReportsStay, Reporting
<1> QED BY <1>3, <1>4 DEF SameReports

\* A session that is done reports no longer.
LEMMA DoneReports ==
    ASSUME Base, NEW s \in Sessions, task[s].at \in Hands,
           task' = [task EXCEPT ![s] = Idle], NEW c \in Chats
    PROVE  /\ c # task[s].chat => SameReports(c)
           /\ c = task[s].chat => s \in Reporting(c) /\ Reporting(c)' = Reporting(c) \ {s}
<1>1. /\ task'[s] = Idle
      /\ \A t \in Sessions \ {s} : task'[t] = task[t]
  BY DEF Base, DeliveryTypeOK
<1>2. s \notin Reporting(c)'
  BY <1>1, IdleType, StreamAssumption DEF Reporting
<1>3. s \in Reporting(c) <=> c = task[s].chat
  BY ReportingIs
<1>4. \A t \in Sessions \ {s} : t \in Reporting(c)' <=> t \in Reporting(c)
  BY <1>1 DEF Reporting
<1> QED BY <1>1, <1>2, <1>3, <1>4 DEF SameReports, Reporting

\* One that has forgotten the flag still does.
LEMMA GoesOn ==
    ASSUME Base, NEW s \in Sessions, Forget(s), NEW c \in Chats
    PROVE  /\ c # task[s].chat => SameReports(c)
           /\ c = task[s].chat => s \in Reporting(c) /\ Reporting(c)' = Reporting(c)
           /\ task'[s].at = "remember" /\ task'[s].run = task[s].run
<1>1. /\ task'[s].at = "remember"
      /\ task'[s].chat = task[s].chat /\ task'[s].run = task[s].run
      /\ \A t \in Sessions \ {s} : task'[t] = task[t]
  BY DEF Forget, Base, DeliveryTypeOK
<1>2. s \in Reporting(c) <=> c = task[s].chat
  BY ReportingIs DEF Forget, Hands
<1>3. s \in Reporting(c)' <=> c = task[s].chat
  BY <1>1 DEF Reporting
<1>4. \A t \in Sessions \ {s} : t \in Reporting(c)' <=> t \in Reporting(c)
  BY <1>1 DEF Reporting
<1> QED BY <1>1, <1>2, <1>3, <1>4 DEF SameReports, Reporting

\* One that begins does.
LEMMA NewReports ==
    ASSUME Base, NEW s \in Sessions, task[s] = Idle, NEW at \in {"forget", "push"},
           NEW c \in Chats, NEW u,
           task' = [task EXCEPT ![s] = [at |-> at, chat |-> c, run |-> u]], NEW d \in Chats
    PROVE  /\ d # c => SameReports(d)
           /\ d = c => Reporting(d)' = Reporting(d) \cup {s}
           /\ task'[s].at = at /\ task'[s].run = u
<1>1. /\ task'[s].at = at /\ task'[s].chat = c /\ task'[s].run = u
      /\ \A t \in Sessions \ {s} : task'[t] = task[t]
  BY DEF Base, DeliveryTypeOK
<1>2. s \in Reporting(d)' <=> d = c
  BY <1>1 DEF Reporting
<1>3. s \notin Reporting(d)
  BY ReportingIs, IdleType DEF Hands
<1>4. \A t \in Sessions \ {s} : t \in Reporting(d)' <=> t \in Reporting(d)
  BY <1>1 DEF Reporting
<1> QED BY <1>1, <1>2, <1>3, <1>4 DEF SameReports, Reporting

\* A chat stays in turn when nothing that concerns it changes.
LEMMA StaysInTurn ==
    ASSUME Base, NEW c \in Chats, ChatInTurn(c), SameReports(c),
           latest'[c] = latest[c], pushDedup'[c] = pushDedup[c],
           latest[c] \in streamed' <=> latest[c] \in streamed,
           latest[c] \in settled' <=> latest[c] \in settled,
           latest[c] \in AnyRun => pushed'[latest[c]] = pushed[latest[c]],
           c \in handledChats' <=> c \in handledChats,
           c \in emptied => c \in emptied', c \in early' <=> c \in early,
           \A r \in Runs : chatOf'[r] = c /\ ~closed'[r] => chatOf[r] = c /\ ~closed[r]
    PROVE  ChatInTurn(c)'
<1>0. ReportsNewest(c) /\ PushFits(c) /\ (c \in early \/ InOrder(c))
  BY DEF ChatInTurn
<1>1. Reporting(c)' = Reporting(c) /\ \A s \in Reporting(c) : task'[s] = task[s]
  BY DEF SameReports
<1>2. ReportsNewest(c)'
  BY <1>0, <1>1 DEF ReportsNewest
<1>3. \A s \in Reporting(c) : task[s].run = latest[c] /\ task[s].run \in AnyRun
  BY <1>0, ReportingIs DEF ReportsNewest, Base, TaskInv
<1>4. PushFits(c)'
  BY <1>0, <1>1, <1>3 DEF PushFits
<1>5. ASSUME InOrder(c) PROVE InOrder(c)'
  <2>1. TaskFits(c)'
    BY <1>1, <1>3, <1>5 DEF InOrder, TaskFits
  <2>2. FlagsFit(c)'
    BY <1>1, <1>5 DEF InOrder, FlagsFit
  <2>3. OthersClosed(c)'
    BY <1>5 DEF InOrder, OthersClosed
  <2> QED BY <2>1, <2>2, <2>3 DEF InOrder
<1> QED BY <1>0, <1>2, <1>4, <1>5 DEF ChatInTurn

LEMMA EventTurns ==
    ASSUME Base, Turns, NEW r \in Runs,
           HandleEvent(r) \/ TimerFires(r) \/ TimerCallback(r), ReportsStay,
           UNCHANGED <<pushDedup, updates, streamed, answered, pushed>>,
           UNCHANGED <<failed, settled, suppressed, emptied, latest, overlapped, early>>
    PROVE  Turns'
<1>1. UNCHANGED <<chatOf, handledChats>> /\ \A q \in Runs : closed[q] => closed'[q]
  BY EventEffect DEF Base
<1>2. ASSUME NEW c \in Chats PROVE ChatInTurn(c)'
  BY <1>1, StayReports, StaysInTurn DEF Turns
<1> QED BY <1>1, <1>2 DEF Turns, NoDuplicate, Arrived

LEMMA SendTurns ==
    ASSUME Base, Turns, NEW r \in Runs, NEW ok \in BOOLEAN, SendReturns(r, ok)
    PROVE  Turns'
<1>1. /\ UNCHANGED <<chatOf, bubble>>
      /\ handledChats' = IF ok THEN handledChats \cup {chatOf[r]} ELSE handledChats
      /\ chatOf[r] \in Chats /\ ~closed[r]
      /\ \A q \in Runs : closed[q] => closed'[q]
  BY EndSendEffect DEF Base, SendReturns
<1>2. /\ streamed' = (IF ok THEN streamed \cup {r} ELSE streamed)
      /\ answered' = (IF ok THEN IF bubble[r].finish THEN answered \cup {r} ELSE answered \ {r}
                      ELSE answered)
      /\ failed' = (IF ok THEN failed ELSE failed \cup {r})
      /\ UNCHANGED <<pushDedup, updates, pushed, settled, suppressed, emptied>>
      /\ UNCHANGED <<latest, overlapped, early>>
  BY DEF SendReturns
<1>3. chatOf[r] \notin early => r \notin settled /\ pushed[r] = 0
  <2>1. pushed[r] \in Nat /\ RunFacts(r)
    BY DEF Base, DeliveryTypeOK, AnyRun
  <2> QED BY <1>1, <2>1 DEF RunFacts
<1>5. \A c \in Chats : SameReports(c)
  BY SendReports, StayReports
<1>6. ASSUME NEW c \in Chats, c # chatOf[r] PROVE ChatInTurn(c)'
  <2>1. latest[c] # r
    BY <1>6 DEF Base, NewestFacts
  <2> QED BY <1>1, <1>2, <1>5, <1>6, <2>1, StaysInTurn DEF Turns
<1>7. ASSUME NEW c \in Chats, c = chatOf[r] PROVE ChatInTurn(c)'
  <2>1. ChatInTurn(c) /\ SameReports(c)
    BY <1>5, <1>7 DEF Turns
  <2>2. ReportsNewest(c)' /\ PushFits(c)'
    BY <1>2, <2>1 DEF ChatInTurn, ReportsNewest, PushFits, SameReports
  <2>3. ASSUME c \notin early PROVE InOrder(c)'
    <3>1. InOrder(c) /\ ReportsNewest(c) /\ latest[c] = r
      BY <1>1, <1>7, <2>1, <2>3 DEF ChatInTurn, InOrder, OthersClosed
    <3>2. ASSUME NEW s \in Reporting(c) PROVE FALSE
      <4>1. task[s].run = r /\ TaskInv(s) /\ task[s].at \in Hands /\ task[s].chat = c
        BY <3>1, ReportingIs DEF Base, ReportsNewest, Reporting
      <4> QED BY <1>1, <2>3, <4>1 DEF TaskInv
    <3>3. Reporting(c)' = {}
      BY <2>1, <3>2 DEF SameReports
    <3>4. TaskFits(c)'
      BY <3>3 DEF TaskFits
    <3>5. FlagsFit(c)'
      <4>1. ok => c \in handledChats'
        BY <1>1, <1>7
      <4>2. ~ok => handledChats' = handledChats /\ streamed' = streamed
        BY <1>1, <1>2
      <4> QED BY <1>2, <1>3, <1>7, <2>3, <3>1, <3>2, <4>1, <4>2 DEF InOrder, FlagsFit
    <3>6. OthersClosed(c)'
      BY <1>1, <1>2, <3>1 DEF InOrder, OthersClosed
    <3> QED BY <3>4, <3>5, <3>6 DEF InOrder
  <2> QED BY <1>2, <2>2, <2>3 DEF ChatInTurn
<1>8. ASSUME NEW c \in Chats PROVE ChatInTurn(c)'
  BY <1>6, <1>7
<1>9. NoDuplicate'
  BY <1>1, <1>2, <1>3 DEF Turns, NoDuplicate
<1>10. ASSUME NEW q \in Runs, q \in settled', q \notin failed' PROVE Arrived(q)'
  BY <1>1, <1>2, <1>3, <1>10 DEF Turns, Arrived
<1> QED BY <1>2, <1>8, <1>9, <1>10 DEF Turns

LEMMA QueryTurns ==
    ASSUME Base, Turns, NEW r \in Runs, NEW c \in Chats, Query(r, c), ~overlapped'
    PROVE  Turns'
<1>1. /\ UNCHANGED <<closed, holder, bubble, handledChats>>
      /\ chatOf' = [chatOf EXCEPT ![r] = c] /\ chatOf[r] = NoChat
      /\ ~closed[r] /\ r \notin streamed /\ r \notin settled /\ pushed[r] = 0
  BY OpenEffect DEF Query
<1>2. /\ latest' = [latest EXCEPT ![c] = r]
      /\ Quiet(c)
      /\ UNCHANGED <<pushDedup, task, updates, streamed>>
      /\ UNCHANGED <<answered, pushed, failed, settled, suppressed, emptied, early>>
  BY DEF Query, Meets
<1>3. Reporting(c) = {} /\ latest[c] \in settled \cup {NoRun}
  BY <1>2 DEF Quiet
<1>4. \A q \in Runs \ {r} : chatOf'[q] = chatOf[q]
  BY <1>1 DEF Base, IInv, TypeOK
<1>5. latest'[c] = r /\ \A d \in Chats \ {c} : latest'[d] = latest[d]
  BY <1>2 DEF Base, DeliveryTypeOK
<1>6. \A d \in Chats : Reporting(d)' = Reporting(d) /\ SameReports(d)
  BY <1>2 DEF SameReports, Reporting
<1>7. ASSUME NEW d \in Chats \ {c} PROVE ChatInTurn(d)'
  <2>1. chatOf'[r] # d
    BY <1>1 DEF Base, IInv, TypeOK
  <2> QED BY <1>1, <1>2, <1>4, <1>5, <1>6, <2>1, StaysInTurn DEF Turns
<1>8. ChatInTurn(c)'
  <2>1. Reporting(c)' = {}
    BY <1>3, <1>6
  <2>2. PushFits(c)'
    BY <1>1, <1>2, <1>5, <2>1 DEF PushFits
  <2>3. ASSUME c \notin early PROVE InOrder(c)'
    <3>1. FlagsFit(c) /\ OthersClosed(c)
      BY <2>3 DEF Turns, ChatInTurn, InOrder
    <3>2. c \notin handledChats \/ c \in emptied
      BY <1>3, <3>1, DeliveryAssumption DEF FlagsFit, Base, DeliveryTypeOK
    <3>3. FlagsFit(c)'
      BY <1>1, <1>2, <1>5, <3>2 DEF FlagsFit
    <3>4. OthersClosed(c)'
      <4>1. ASSUME NEW q \in Runs \ {r}, chatOf[q] = c PROVE closed[q]
        <5>1. ~closed[q] => q = latest[c]
          BY <3>1, <4>1 DEF OthersClosed
        <5>2. latest[c] = q => q \in settled
          BY <1>3, DeliveryAssumption
        <5> QED BY <2>3, <4>1, <5>1, <5>2 DEF Base, RunFacts
      <4> QED BY <1>1, <1>4, <1>5, <4>1 DEF OthersClosed
    <3> QED BY <2>1, <3>3, <3>4 DEF InOrder, TaskFits
  <2> QED BY <1>2, <2>1, <2>2, <2>3 DEF ChatInTurn, ReportsNewest
<1>9. ASSUME NEW q \in Runs, q \in settled', q \notin failed' PROVE Arrived(q)'
  BY <1>1, <1>2, <1>4, <1>9 DEF Turns, Arrived
<1>10. NoDuplicate'
  BY <1>1, <1>2, <1>4 DEF Turns, NoDuplicate, Base, DeliveryTypeOK
<1> QED BY <1>2, <1>7, <1>8, <1>9, <1>10 DEF Turns

\* A closed run without a failed send was answered, if it was streamed.
LEMMA StreamedIsAnswered ==
    ASSUME Base, NEW r \in Runs, closed[r], r \in streamed \ failed
    PROVE  r \in answered
<1>1. bubble[r].finish
  BY ClosedComplete DEF Base, ClosedIsComplete
<1>2. holder[r] = "free"
  BY DEF Base, IInv, RunInv, LockedPhase
<1> QED BY <1>1, <1>2 DEF Base, RunFacts

\* The newest runs of two chats are two.
LEMMA NewestIsOne ==
    ASSUME Base, NEW c \in Chats, latest[c] \in AnyRun, NEW d \in Chats, d # c
    PROVE  latest[d] # latest[c]
BY DeliveryAssumption DEF Base, NewestFacts, AnyRun

LEMMA ForgetTurns ==
    ASSUME Base, Turns, NEW s \in Sessions, Forget(s)
    PROVE  Turns'
<1>1. PICK c \in Chats : c = task[s].chat
  BY DEF Forget, Base, TaskInv, Hands
<1>2. /\ handledChats' = handledChats \ {c} /\ task[s].at = "forget"
      /\ UNCHANGED <<pushDedup, updates, streamed, answered, pushed, failed>>
      /\ UNCHANGED <<settled, emptied, latest, early, chatOf, closed>>
  BY <1>1 DEF Forget, ForgetChat
<1>3. /\ s \in Reporting(c) /\ Reporting(c)' = Reporting(c)
      /\ task'[s].at = "remember" /\ task'[s].run = task[s].run
      /\ \A d \in Chats \ {c} : SameReports(d)
  BY <1>1, GoesOn
<1>4. \A t \in Reporting(c) : t = s
  BY <1>3 DEF Turns, ChatInTurn, ReportsNewest
<1>5. ASSUME NEW d \in Chats \ {c} PROVE ChatInTurn(d)'
  BY <1>2, <1>3, StaysInTurn DEF Turns
<1>6. ChatInTurn(c)'
  <2>1. ReportsNewest(c) /\ PushFits(c) /\ (c \in early \/ InOrder(c))
    BY DEF Turns, ChatInTurn
  <2>2. ReportsNewest(c)'
    BY <1>2, <1>3, <1>4, <2>1 DEF ReportsNewest
  <2>3. PushFits(c)'
    BY <1>2, <1>3, <1>4, <2>1 DEF PushFits
  <2>4. ASSUME InOrder(c) PROVE InOrder(c)'
    <3>1. TaskFits(c)'
      BY <1>2, <1>3, <1>4, <2>4 DEF InOrder, TaskFits
    <3>2. FlagsFit(c)'
      BY <1>2, <1>3, <2>4 DEF InOrder, FlagsFit
    <3>3. OthersClosed(c)'
      BY <1>2, <2>4 DEF InOrder, OthersClosed
    <3> QED BY <3>1, <3>2, <3>3 DEF InOrder
  <2> QED BY <1>2, <2>1, <2>2, <2>3, <2>4 DEF ChatInTurn
<1>7. ASSUME NEW q \in Runs, q \in settled', q \notin failed' PROVE Arrived(q)'
  BY <1>2, <1>7 DEF Turns, Arrived
<1> QED BY <1>2, <1>5, <1>6, <1>7 DEF Turns, NoDuplicate

LEMMA RememberTurns ==
    ASSUME Base, Turns, NEW s \in Sessions, Remember(s)
    PROVE  Turns'
<1>1. PICK c \in Chats, u \in AnyRun : c = task[s].chat /\ u = task[s].run
  BY DEF Remember, Base, TaskInv, Hands
<1>2. /\ pushDedup' = [pushDedup EXCEPT ![c] = u]
      /\ task' = [task EXCEPT ![s] = Idle]
      /\ settled' = settled \cup {u} /\ task[s].at = "remember"
      /\ UNCHANGED <<updates, streamed, answered, pushed, failed, emptied>>
      /\ UNCHANGED <<latest, early, handledChats, chatOf, closed, holder, bubble>>
  BY <1>1 DEF Remember, vars
<1>3. /\ s \in Reporting(c) /\ Reporting(c)' = Reporting(c) \ {s}
      /\ \A d \in Chats \ {c} : SameReports(d)
  BY <1>1, <1>2, DoneReports DEF Hands
<1>4. u = latest[c] /\ Reporting(c)' = {}
  BY <1>1, <1>3 DEF Turns, ChatInTurn, ReportsNewest
<1>5. pushDedup'[c] = u /\ \A d \in Chats \ {c} : pushDedup'[d] = pushDedup[d]
  BY <1>2 DEF Base, DeliveryTypeOK
<1>6. ASSUME NEW d \in Chats \ {c} PROVE ChatInTurn(d)'
  <2>1. latest[d] # u
    BY <1>4, NewestIsOne
  <2> QED BY <1>2, <1>3, <1>5, <2>1, StaysInTurn DEF Turns
<1>7. c \in early \/ (TaskFits(c) /\ OthersClosed(c))
  BY DEF Turns, ChatInTurn, InOrder
<1>8. ChatInTurn(c)'
  <2>1. PushFits(c)'
    BY <1>2, <1>4, <1>5 DEF PushFits
  <2>2. ASSUME c \notin early PROVE FlagsFit(c)' /\ OthersClosed(c)'
    <3>1. c \notin handledChats'
      BY <1>2, <1>3, <1>7, <2>2 DEF TaskFits
    <3>2. FlagsFit(c)'
      BY <1>2, <1>4, <1>5, <3>1 DEF FlagsFit
    <3> QED BY <1>2, <1>7, <2>2, <3>2 DEF OthersClosed
  <2> QED BY <1>2, <1>4, <2>1, <2>2 DEF ChatInTurn, InOrder, ReportsNewest, TaskFits
<1>9. ASSUME u \in Runs, u \notin failed PROVE Arrived(u)
  <2>1. chatOf[u] = c /\ (closed[u] \/ c \in early)
    BY <1>1, <1>2, <1>9 DEF Base, TaskInv, Hands
  <2>2. c \notin early \cup emptied => u \in streamed
    BY <1>2, <1>3, <1>4, <1>7 DEF TaskFits
  <2> QED BY <1>9, <2>1, <2>2, StreamedIsAnswered DEF Arrived
<1>10. ASSUME NEW q \in Runs, q \in settled', q \notin failed' PROVE Arrived(q)'
  <2>1. Arrived(q)
    BY <1>2, <1>9, <1>10 DEF Turns
  <2> QED BY <1>2, <2>1 DEF Arrived
<1> QED BY <1>2, <1>6, <1>8, <1>10 DEF Turns, NoDuplicate

LEMMA PushReturnsTurns ==
    ASSUME Base, Turns, NEW s \in Sessions, NEW ok \in BOOLEAN, PushReturns(s, ok)
    PROVE  Turns'
<1>1. PICK c \in Chats, u \in AnyRun : c = task[s].chat /\ u = task[s].run
  BY DEF PushReturns, Base, TaskInv, Hands
<1>2. /\ pushDedup' = (IF ok THEN [pushDedup EXCEPT ![c] = u] ELSE pushDedup)
      /\ pushed' = (IF ok THEN [pushed EXCEPT ![u] = @ + 1] ELSE pushed)
      /\ failed' = (IF ok THEN failed ELSE failed \cup {u})
      /\ task' = [task EXCEPT ![s] = Idle]
      /\ settled' = settled \cup {u} /\ task[s].at = "push"
      /\ UNCHANGED <<updates, streamed, answered, emptied, latest, early>>
      /\ UNCHANGED <<chatOf, closed, holder, bubble, handledChats>>
  BY <1>1 DEF PushReturns, vars
<1>3. /\ s \in Reporting(c) /\ Reporting(c)' = Reporting(c) \ {s}
      /\ \A d \in Chats \ {c} : SameReports(d)
  BY <1>1, <1>2, DoneReports DEF Hands
<1>4. u = latest[c] /\ Reporting(c)' = {} /\ pushed[u] = 0
  BY <1>1, <1>2, <1>3 DEF Turns, ChatInTurn, ReportsNewest, PushFits
<1>5. c \notin early => c \notin handledChats /\ u \notin streamed /\ OthersClosed(c)
  BY <1>2, <1>3, <1>4 DEF Turns, ChatInTurn, InOrder, TaskFits
<1>6. /\ ok => pushDedup'[c] = u
      /\ \A d \in Chats \ {c} : pushDedup'[d] = pushDedup[d]
  BY <1>2 DEF Base, DeliveryTypeOK
<1>7. /\ pushed'[u] = IF ok THEN 1 ELSE 0
      /\ \A v \in AnyRun \ {u} : pushed'[v] = pushed[v]
  BY <1>2, <1>4 DEF Base, DeliveryTypeOK
<1>8. ASSUME NEW d \in Chats \ {c} PROVE ChatInTurn(d)'
  <2>1. latest[d] # u
    BY <1>4, NewestIsOne
  <2> QED BY <1>2, <1>3, <1>6, <1>7, <2>1, StaysInTurn DEF Turns
<1>9. ChatInTurn(c)'
  <2>1. PushFits(c)'
    BY <1>2, <1>4, <1>6, <1>7 DEF PushFits
  <2>2. ASSUME c \notin early PROVE FlagsFit(c)' /\ OthersClosed(c)'
    <3>1. FlagsFit(c)'
      BY <1>2, <1>4, <1>5, <2>2 DEF FlagsFit
    <3> QED BY <1>2, <1>5, <2>2, <3>1 DEF OthersClosed
  <2> QED BY <1>2, <1>4, <2>1, <2>2 DEF ChatInTurn, InOrder, ReportsNewest, TaskFits
<1>10. ASSUME NEW q \in Runs, q \in settled', q \notin failed' PROVE Arrived(q)'
  <2>1. CASE q = u
    BY <1>2, <1>7, <1>10, <2>1 DEF Arrived
  <2>2. CASE q # u
    <3>1. Arrived(q) /\ pushed'[q] = pushed[q]
      BY <1>2, <1>7, <1>10, <2>2 DEF Turns, AnyRun
    <3> QED BY <1>2, <3>1 DEF Arrived
  <2> QED BY <2>1, <2>2
<1>11. ASSUME NEW q \in streamed', pushed'[q] > 0 PROVE chatOf'[q] \in early'
  <2>1. q \in streamed /\ q \in AnyRun
    BY <1>2 DEF Base, DeliveryTypeOK, AnyRun
  <2>2. CASE q = u
    <3>1. q \in Runs /\ chatOf[q] = c
      BY <1>1, <1>2, <2>1, <2>2 DEF Base, DeliveryTypeOK, TaskInv, Hands
    <3> QED BY <1>2, <1>5, <2>1, <2>2, <3>1
  <2>3. CASE q # u
    BY <1>2, <1>7, <1>11, <2>1, <2>3 DEF Turns, NoDuplicate
  <2> QED BY <2>2, <2>3
<1>12. \A v \in AnyRun : pushed'[v] <= 1
  BY <1>7 DEF Turns
<1> QED BY <1>8, <1>9, <1>10, <1>11, <1>12 DEF Turns, NoDuplicate

-----------------------------------------------------------------------------
\* What is known of run u of chat c when it is reported in order.
ReportInOrder(c, u) ==
    /\ u \in streamed => c \in handledChats \/ pushDedup[c] = u
    /\ c \in handledChats \ emptied => u \in streamed \ settled
    /\ \A r \in Runs : chatOf[r] = c /\ ~closed[r] => r = u

\* A report in turn is one of the chat's newest run, and what is known of
\* the chat is known of that run, also if it is a scheduled one that has
\* only now become the newest.
LEMMA ReportedTurns ==
    ASSUME Base, Turns, NEW s \in Sessions, NEW c \in Chats, NEW u \in AnyRun,
           Reported(s, c, u), ~overlapped'
    PROVE  /\ latest'[c] = u /\ Reporting(c) = {}
           /\ pushed[u] > 0 => pushDedup[c] = u
           /\ c \notin early' => ReportInOrder(c, u)
           /\ \A d \in Chats \ {c} : /\ latest'[d] = latest[d] /\ latest[d] # u
                                     /\ d \in early' <=> d \in early
           /\ early \subseteq early'
<1>1. /\ latest'[c] = u /\ Reporting(c) = {}
      /\ latest' = [latest EXCEPT ![c] = latest'[c]]
      /\ \/ latest[c] = u
         \/ u \in CronRuns /\ updates[u] = 0 /\ Quiet(c)
      /\ early' \in {early, early \cup {c}}
  BY ReportedEffect
<1>2. \A d \in Chats \ {c} : latest'[d] = latest[d] /\ (d \in early' <=> d \in early)
  BY <1>1 DEF Base, DeliveryTypeOK
<1>3. PushFits(c) /\ (c \notin early' => FlagsFit(c) /\ OthersClosed(c))
  BY <1>1 DEF Turns, ChatInTurn, InOrder
<1>4. CASE latest[c] = u
  <2>1. \A d \in Chats \ {c} : latest[d] # u
    BY <1>4, NewestIsOne
  <2>2. c \notin early' => ReportInOrder(c, u)
    BY <1>1, <1>3, <1>4 DEF FlagsFit, OthersClosed, ReportInOrder
  <2> QED BY <1>1, <1>2, <1>3, <1>4, <2>1, <2>2 DEF PushFits
<1>5. CASE u \in CronRuns /\ updates[u] = 0 /\ Quiet(c)
  <2>1. u \notin Runs /\ pushed[u] = 0 /\ \A d \in Chats : latest[d] # u
    BY <1>5, DeliveryAssumption DEF Base, NewestFacts
  <2>2. u \notin streamed
    BY <2>1 DEF Base, DeliveryTypeOK
  <2>3. latest[c] \in settled \cup {NoRun}
    BY <1>5 DEF Quiet
  <2>4. ASSUME c \notin early' PROVE ReportInOrder(c, u)
    <3>1. FlagsFit(c) /\ OthersClosed(c) /\ c \notin early
      BY <1>1, <1>3, <2>4
    <3>2. c \notin handledChats \ emptied
      BY <2>3, <3>1, DeliveryAssumption DEF FlagsFit, Base, DeliveryTypeOK
    <3>3. ASSUME NEW r \in Runs, chatOf[r] = c PROVE closed[r]
      <4>1. ~closed[r] => r = latest[c]
        BY <3>1, <3>3 DEF OthersClosed
      <4>2. latest[c] = r => r \in settled
        BY <2>3, DeliveryAssumption
      <4> QED BY <3>1, <3>3, <4>1, <4>2 DEF Base, RunFacts
    <3> QED BY <2>2, <3>2, <3>3 DEF ReportInOrder
  <2> QED BY <1>1, <1>2, <2>1, <2>4
<1> QED BY <1>1, <1>4, <1>5

\* A session takes the report in hand: to suppress, or to push.
LEMMA TakenTurns ==
    ASSUME Base, Turns, NEW s \in Sessions, NEW c \in Chats, NEW u \in AnyRun,
           ChatUpdatedHandled(s, c, u) \/ ChatUpdatedPush(s, c, u), ~overlapped'
    PROVE  Turns'
<1>1. Reported(s, c, u) /\ task[s] = Idle
  BY DEF ChatUpdatedHandled, ChatUpdatedPush, Reported
<1>2. /\ latest'[c] = u /\ Reporting(c) = {}
      /\ pushed[u] > 0 => pushDedup[c] = u
      /\ c \notin early' => ReportInOrder(c, u)
      /\ \A d \in Chats \ {c} : /\ latest'[d] = latest[d] /\ latest[d] # u
                                /\ d \in early' <=> d \in early
      /\ early \subseteq early'
  BY <1>1, ReportedTurns
<1>3. /\ UNCHANGED <<pushDedup, streamed, answered, pushed, failed, settled, emptied>>
      /\ UNCHANGED <<chatOf, closed, handledChats>>
  BY DEF ChatUpdatedHandled, ChatUpdatedPush, vars
<1>4. PICK at \in {"forget", "push"} :
         /\ task' = [task EXCEPT ![s] = [at |-> at, chat |-> c, run |-> u]]
         /\ at = "forget" => c \in handledChats
         /\ at = "push" => c \notin handledChats /\ pushDedup[c] # u
  BY DEF ChatUpdatedHandled, ChatUpdatedPush
<1>5. /\ Reporting(c)' = {s} /\ task'[s].at = at /\ task'[s].run = u
      /\ \A d \in Chats \ {c} : SameReports(d)
  <2>1. ASSUME NEW d \in Chats
        PROVE  /\ d # c => SameReports(d)
               /\ d = c => Reporting(d)' = Reporting(d) \cup {s}
               /\ task'[s].at = at /\ task'[s].run = u
    BY <1>1, <1>4, NewReports
  <2> QED BY <1>2, <2>1
<1>6. ASSUME NEW d \in Chats \ {c} PROVE ChatInTurn(d)'
  BY <1>2, <1>3, <1>5, StaysInTurn DEF Turns
<1>7. ChatInTurn(c)'
  <2>1. ReportsNewest(c)'
    BY <1>2, <1>5 DEF ReportsNewest
  <2>2. PushFits(c)'
    <3>1. pushed[u] \in Nat
      BY DEF Base, DeliveryTypeOK
    <3>2. at = "push" => pushed'[u] = 0
      BY <1>2, <1>3, <1>4, <3>1
    <3> QED BY <1>2, <1>3, <1>5, <3>2 DEF PushFits
  <2>3. ASSUME c \notin early' PROVE InOrder(c)'
    <3>1. ReportInOrder(c, u)
      BY <1>2, <2>3
    <3>2. at = "push" => c \notin handledChats' /\ u \notin streamed'
      BY <1>3, <1>4, <3>1 DEF ReportInOrder
    <3>3. at = "forget" /\ c \notin emptied' => u \in streamed'
      BY <1>3, <1>4, <3>1 DEF ReportInOrder
    <3>4. TaskFits(c)'
      BY <1>2, <1>4, <1>5, <3>2, <3>3 DEF TaskFits
    <3>5. FlagsFit(c)' /\ OthersClosed(c)'
      BY <1>2, <1>3, <3>1 DEF ReportInOrder, FlagsFit, OthersClosed
    <3> QED BY <3>4, <3>5 DEF InOrder
  <2> QED BY <2>1, <2>2, <2>3 DEF ChatInTurn
<1>8. ASSUME NEW q \in Runs, q \in settled', q \notin failed' PROVE Arrived(q)'
  BY <1>2, <1>3, <1>8 DEF Turns, Arrived
<1>9. NoDuplicate'
  BY <1>2, <1>3 DEF Turns, NoDuplicate
<1> QED BY <1>3, <1>6, <1>7, <1>8, <1>9 DEF Turns

\* It is done with it at once: the run was dealt with, or there is no text.
LEMMA SettledTurns ==
    ASSUME Base, Turns, RememberedIsDone, NEW s \in Sessions, NEW c \in Chats, NEW u \in AnyRun,
           ChatUpdatedDup(s, c, u) \/ ChatUpdatedEmpty(s, c, u), ~overlapped'
    PROVE  Turns'
<1>1. Reported(s, c, u)
  BY DEF ChatUpdatedDup, ChatUpdatedEmpty
<1>2. /\ latest'[c] = u /\ Reporting(c) = {}
      /\ pushed[u] > 0 => pushDedup[c] = u
      /\ c \notin early' => ReportInOrder(c, u)
      /\ \A d \in Chats \ {c} : /\ latest'[d] = latest[d] /\ latest[d] # u
                                /\ d \in early' <=> d \in early
      /\ early \subseteq early'
  BY <1>1, ReportedTurns
<1>3. /\ UNCHANGED <<pushDedup, task, streamed, answered, pushed, failed>>
      /\ UNCHANGED <<chatOf, closed, handledChats>>
      /\ settled' = settled \cup {u} /\ emptied \subseteq emptied'
      /\ \A d \in Chats \ {c} : d \in emptied' <=> d \in emptied
      /\ \/ c \notin handledChats /\ pushDedup[c] = u /\ emptied' = emptied
         \/ c \in emptied'
  BY DEF ChatUpdatedDup, ChatUpdatedEmpty, vars
<1>4. \A d \in Chats : Reporting(d)' = Reporting(d) /\ SameReports(d)
  BY <1>3 DEF SameReports, Reporting
<1>5. ASSUME NEW d \in Chats \ {c} PROVE ChatInTurn(d)'
  BY <1>2, <1>3, <1>4, StaysInTurn DEF Turns
<1>6. ChatInTurn(c)'
  <2>1. Reporting(c)' = {}
    BY <1>2, <1>4
  <2>2. PushFits(c)'
    BY <1>2, <1>3, <2>1 DEF PushFits
  <2>3. ASSUME c \notin early' PROVE FlagsFit(c)' /\ OthersClosed(c)'
    BY <1>2, <1>3, <2>3 DEF ReportInOrder, FlagsFit, OthersClosed
  <2> QED BY <2>1, <2>2, <2>3 DEF ChatInTurn, InOrder, ReportsNewest, TaskFits
<1>7. ASSUME u \in Runs, u \notin failed PROVE Arrived(u)'
  <2>1. chatOf[u] = c
    BY <1>1, <1>7 DEF Reported
  <2>2. CASE c \in emptied'
    BY <1>3, <2>1, <2>2 DEF Arrived
  <2>3. CASE pushDedup[c] = u
    <3>1. u \in suppressed \/ pushed[u] > 0
      BY <2>3, DeliveryAssumption DEF RememberedIsDone, AnyRun
    <3>2. u \in suppressed => Arrived(u)
      BY <1>7 DEF Turns, Base
    <3> QED BY <1>2, <1>3, <3>1, <3>2 DEF Arrived
  <2> QED BY <1>3, <2>2, <2>3
<1>8. ASSUME NEW q \in Runs, q \in settled', q \notin failed' PROVE Arrived(q)'
  <2>1. q \in settled => Arrived(q)
    BY <1>3, <1>8 DEF Turns
  <2> QED BY <1>2, <1>3, <1>7, <1>8, <2>1 DEF Arrived
<1>9. NoDuplicate'
  BY <1>2, <1>3 DEF Turns, NoDuplicate
<1> QED BY <1>3, <1>5, <1>6, <1>8, <1>9 DEF Turns

-----------------------------------------------------------------------------
\* The whole invariant.

LEMMA BaseNext == InHand /\ Base /\ [DeliveryNext]_allVars => Base'
<1> SUFFICES ASSUME InHand, Base, [DeliveryNext]_allVars PROVE Base'
  OBVIOUS
<1>0. IInv'
  BY SendersStep, NextInv DEF Base
<1>1. ASSUME NEW r \in Runs, Timer(r) PROVE Base'
  <2>1. ReportsStay
    BY <1>1 DEF Timer, deliveryVars, ReportsStay, Base, DeliveryTypeOK, Works
  <2> QED BY <1>0, <1>1, <2>1, EventBase DEF Timer, deliveryVars
<1>2. ASSUME NEW r \in Runs, NEW s \in Sessions, StreamFrame(s, r) PROVE Base'
  BY <1>0, <1>2, FrameReports, EventBase DEF StreamFrame
<1>3. CASE UNCHANGED allVars
  <2>1. UNCHANGED <<vars, pushDedup, task, updates, streamed>>
        /\ UNCHANGED <<answered, pushed, failed, settled, suppressed, emptied>>
        /\ UNCHANGED <<latest, overlapped, early>>
    BY <1>3 DEF allVars, deliveryVars
  <2>2. DeliveryTypeOK'
    BY <1>0, <2>1 DEF Base, DeliveryTypeOK, IInv
  <2> QED BY <1>0, <2>1, <2>2 DEF vars, Base, TaskInv, RunFacts, NewestFacts
<1> QED BY <1>0, <1>1, <1>2, <1>3, QueryBase, SendBase, ForgetBase, RememberBase,
           PushReturnsBase, ReportBase
        DEF DeliveryNext

LEMMA TurnsNext ==
    RememberedIsDone /\ Base /\ (overlapped \/ Turns) /\ [DeliveryNext]_allVars
        => (overlapped' \/ Turns')
<1> SUFFICES ASSUME RememberedIsDone, Base, overlapped \/ Turns, ~overlapped',
                    [DeliveryNext]_allVars
             PROVE  Turns'
  OBVIOUS
<1>0. overlapped => overlapped'
  <2>1. ASSUME NEW s \in Sessions, NEW c \in Chats, NEW u \in AnyRun, Reported(s, c, u)
        PROVE  overlapped => overlapped'
    BY <2>1, ReportedEffect
  <2>2. ASSUME NEW r \in Runs, NEW c \in Chats, Query(r, c) PROVE overlapped => overlapped'
    BY <2>2 DEF Query, Meets
  <2>3. ASSUME NEW r \in Runs,
               \/ Timer(r)
               \/ \E ok \in BOOLEAN : SendReturns(r, ok)
               \/ \E s \in Sessions : StreamFrame(s, r)
        PROVE  overlapped' = overlapped
    BY <2>3 DEF Timer, SendReturns, StreamFrame, deliveryVars
  <2>4. ASSUME NEW s \in Sessions,
               Forget(s) \/ Remember(s) \/ \E ok \in BOOLEAN : PushReturns(s, ok)
        PROVE  overlapped' = overlapped
    BY <2>4 DEF Forget, Remember, PushReturns
  <2>5. CASE UNCHANGED allVars
    BY <2>5 DEF allVars, deliveryVars
  <2> QED BY <2>1, <2>2, <2>3, <2>4, <2>5
          DEF DeliveryNext, ChatUpdatedHandled, ChatUpdatedDup, ChatUpdatedPush, ChatUpdatedEmpty
<1>1. Turns
  BY <1>0
<1>2. ASSUME NEW r \in Runs, Timer(r) PROVE Turns'
  <2>1. ReportsStay
    BY <1>2 DEF Timer, deliveryVars, ReportsStay, Base, DeliveryTypeOK, Works
  <2> QED BY <1>1, <1>2, <2>1, EventTurns DEF Timer, deliveryVars
<1>3. ASSUME NEW r \in Runs, NEW s \in Sessions, StreamFrame(s, r) PROVE Turns'
  BY <1>1, <1>3, FrameReports, EventTurns DEF StreamFrame
<1>4. CASE UNCHANGED allVars
  <2>1. /\ UNCHANGED <<pushDedup, task, updates, streamed, chatOf, closed, handledChats>>
        /\ UNCHANGED <<answered, pushed, failed, settled, suppressed, emptied, latest, early>>
    BY <1>4 DEF allVars, deliveryVars, vars
  <2>2. ASSUME NEW c \in Chats PROVE ChatInTurn(c)'
    BY <1>1, <2>1, StaysInTurn DEF Turns, SameReports, Reporting
  <2> QED BY <1>1, <2>1, <2>2 DEF Turns, NoDuplicate, Arrived
<1> QED BY <1>1, <1>2, <1>3, <1>4, QueryTurns, SendTurns, ForgetTurns, RememberTurns,
           PushReturnsTurns, TakenTurns, SettledTurns
        DEF DeliveryNext

LEMMA DeliveryInitIInv == DeliveryInit => DeliveryIInv
<1> SUFFICES ASSUME DeliveryInit PROVE DeliveryIInv
  OBVIOUS
<1>1. \A c \in Chats : Reporting(c) = {}
  BY IdleType, StreamAssumption DEF DeliveryInit, Reporting
<1>2. \A c \in Chats : ChatInTurn(c)
  BY <1>1, StreamAssumption, DeliveryAssumption
     DEF DeliveryInit, Init, ChatInTurn, InOrder, ReportsNewest, PushFits, TaskFits, FlagsFit,
         OthersClosed, AnyRun
<1>3. Turns
  BY <1>2 DEF DeliveryInit, Turns, NoDuplicate
<1> QED BY <1>3, DedupInit, BaseInit DEF DeliveryIInv

LEMMA DeliveryNextIInv == DeliveryIInv /\ [DeliveryNext]_allVars => DeliveryIInv'
BY DedupNext, BaseNext, TurnsNext DEF DeliveryIInv, DedupIInv

\* The inductive invariant is one.
THEOREM DeliveryInvariance == DeliverySpec => []DeliveryIInv
BY DeliveryInitIInv, DeliveryNextIInv, PTL DEF DeliverySpec

\* All variables keep their types.
THEOREM DeliveryTypeCorrect == DeliverySpec => []DeliveryTypeOK
<1>1. DeliveryIInv => DeliveryTypeOK
  BY DEF DeliveryIInv, Base
<1> QED BY <1>1, DeliveryInvariance, PTL

\* The bridge uses the senders as they are specified, so what was proved of
\* them holds here: their frames keep the promise of ReplyBubbles, ...
THEOREM UsesTheSenders == DeliverySpec => Spec /\ KeepsPromise
<1>1. DeliveryInit => Init
  BY DEF DeliveryInit
<1>2. DeliveryIInv /\ [DeliveryNext]_allVars => [Next]_vars
  BY SendersStep DEF DeliveryIInv, DedupIInv
<1>3. DeliverySpec => Spec
  BY <1>1, <1>2, DeliveryInvariance, PTL DEF DeliverySpec, Spec
<1> QED BY <1>3, ImplementsReplyBubbles

\* As long as a chat's runs come in turn and none is reported before it has
\* closed, an answer that was streamed is not pushed as well
\* (bridge.go:487-489), ...
THEOREM NeverTwice == DeliverySpec => []NoDuplicateInTurn
<1>1. DeliveryIInv => NoDuplicateInTurn
  BY DEF DeliveryIInv, Turns, NoDuplicateInTurn
<1> QED BY <1>1, DeliveryInvariance, PTL

\* ... no run is pushed twice, however often and early it is reported, ...
THEOREM PushesOnce == DeliverySpec => []PushedOnce
<1>1. DeliveryIInv => PushedOnce
  BY DEF DeliveryIInv, Turns, PushedOnce
<1> QED BY <1>1, DeliveryInvariance, PTL

\* ... a run that was reported and had no send fail has arrived, by the one
\* way or the other, unless its chat had an empty or an early report, ...
THEOREM LosesNothing == DeliverySpec => []NothingLost
<1>1. DeliveryIInv => NothingLost
  BY DEF DeliveryIInv, Turns, NothingLost, Arrived
<1> QED BY <1>1, DeliveryInvariance, PTL

\* ... and the fallback is suppressed only for a run of which something was
\* streamed (stream_sender.go:144), with the same exceptions.
THEOREM SuppressesStreamed == DeliverySpec => SuppressedWasStreamed
<1>1. ASSUME DeliveryIInv, NEW s \in Sessions, NEW c \in Chats, NEW u \in AnyRun,
             ChatUpdatedHandled(s, c, u), c \notin emptied \cup early', ~overlapped'
      PROVE  u \in streamed
  <2>1. Reported(s, c, u) /\ c \in handledChats
    BY <1>1 DEF ChatUpdatedHandled
  <2>2. Base /\ Turns
    BY <1>1, <2>1 DEF DeliveryIInv, Reported, Meets
  <2>3. ReportInOrder(c, u)
    BY <1>1, <2>1, <2>2, ReportedTurns
  <2> QED BY <1>1, <2>1, <2>3 DEF ReportInOrder
<1>2. DeliveryIInv /\ [DeliveryNext]_allVars
        => [\A s \in Sessions, c \in Chats, u \in AnyRun :
               ChatUpdatedHandled(s, c, u) /\ c \notin emptied \cup early' /\ ~overlapped'
                  => u \in streamed]_allVars
  BY <1>1
<1> QED BY <1>2, DeliveryInvariance, PTL DEF DeliverySpec, SuppressedWasStreamed
=============================================================================
