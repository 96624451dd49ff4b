---------------------------- MODULE ChatDelivery ----------------------------
(***************************************************************************)
(* The two ways an answer reaches WeCom, composed: the streaming sender    *)
(* (StreamSender) and the fallback of bridge.go's handleChatUpdated, which *)
(* pushes the run's content when the platform reports chat.updated and the *)
(* sender has not handled the chat.                                        *)
(*                                                                         *)
(* A platform session handles its frames one by one (wsserver.go calls     *)
(* OnFrame from the read loop), so it is busy while a frame it handles     *)
(* waits for a SendMarkdown or a SendMarkdownPush.  Timer callbacks and    *)
(* inbound WeCom messages do not wait for it.                              *)
(***************************************************************************)
EXTENDS StreamSender

CONSTANTS Sessions,      \* platform sessions
          CronRuns,      \* runs nobody asked for: scheduled pushes
          NoRun,         \* pushDedup of a chat that has none
          MaxUpdates     \* bound: chat.updated frames per run

ASSUME DeliveryAssumption == /\ Runs \cap CronRuns = {}
                             /\ NoRun \notin Runs \cup CronRuns
                             /\ MaxUpdates \in Nat

VARIABLES pushDedup,   \* b.pushDedup
          task,        \* what each session's goroutine is in the middle of
          updates,     \* chat.updated frames received, per run
          streamed,    \* history: runs with a frame that was acknowledged
          answered,    \* history: runs whose last ACK was of a frame that finishes
          pushed,      \* history: acknowledged pushes, per run
          failed,      \* history: runs with a send that was not acknowledged
          settled,     \* history: runs whose chat.updated was dealt with
          suppressed,  \* history: runs whose fallback was suppressed
          emptied,     \* history: chats that had an empty chat.updated
          latest,      \* history: the newest run of each chat
          overlapped,  \* history: two runs, or two sessions, met in a chat
          early        \* history: chats with a run reported before it closed

deliveryVars ==
    <<pushDedup, task, updates, streamed, answered, pushed, failed, settled,
      suppressed, emptied, latest, overlapped, early>>
allVars == <<vars, deliveryVars>>

AnyRun == Runs \cup CronRuns

Idle == [at |-> "idle", chat |-> NoChat, run |-> NoRun]

-----------------------------------------------------------------------------
\* No session is in the middle of a chat.updated of c, and the newest run of
\* c, if any, is dealt with.
Reporting(c) == {s \in Sessions : task[s].chat = c /\ task[s].at # "event"}
Quiet(c) == Reporting(c) = {} /\ latest[c] \in settled \cup {NoRun}

Meets(cond) == overlapped' = (overlapped \/ cond)

\* A user's message: forwardText opens the run before it sends /api/query.
Query(r, c) ==
    /\ Open(r, c)
    /\ latest' = [latest EXCEPT ![c] = r]
    /\ Meets(~Quiet(c))
    /\ UNCHANGED <<pushDedup, task, updates, streamed, answered, pushed,
                   failed, settled, suppressed, emptied, early>>

\* handleStreamFrame: the session feeds an event to the sender and is busy
\* until a frame that goes out for it is acknowledged.
StreamFrame(s, r) ==
    /\ task[s] = Idle
    /\ HandleEvent(r)
    /\ task' = [task EXCEPT ![s] =
                  IF holder'[r] = "free" THEN Idle
                  ELSE [at |-> "event", chat |-> chatOf[r], run |-> r]]
    /\ UNCHANGED <<pushDedup, updates, streamed, answered, pushed, failed,
                   settled, suppressed, emptied, latest, overlapped, early>>

Timer(r) ==
    /\ TimerFires(r) \/ TimerCallback(r)
    /\ UNCHANGED deliveryVars

\* SendMarkdown returns; if a session was waiting for it, it is free again.
SendReturns(r, ok) ==
    /\ EndSend(r, ok)
    /\ task' = [s \in Sessions |->
                  IF task[s].at = "event" /\ task[s].run = r THEN Idle ELSE task[s]]
    /\ streamed' = IF ok THEN streamed \cup {r} ELSE streamed
    /\ answered' = IF ok THEN IF bubble[r].finish THEN answered \cup {r} ELSE answered \ {r}
                   ELSE answered
    /\ failed' = IF ok THEN failed ELSE failed \cup {r}
    /\ UNCHANGED <<pushDedup, updates, pushed, settled, suppressed, emptied,
                   latest, overlapped, early>>

-----------------------------------------------------------------------------
\* handleChatUpdated.

\* The platform reports run u of a chat the Registry knows.  It may report
\* at any time: a run whose session was replaced while a frame of it waits
\* for its ACK, or one that ended with a frame the bridge ignores
\* (HandlePlatformFrame), is reported without being closed.
Reported(s, c, u) ==
    /\ task[s] = Idle
    /\ updates[u] < MaxUpdates
    /\ u \in Runs => chatOf[u] = c
    /\ updates' = [updates EXCEPT ![u] = @ + 1]
    /\ latest' = IF u \in CronRuns /\ updates[u] = 0 THEN [latest EXCEPT ![c] = u]
                 ELSE latest
    /\ early' = IF u \in Runs /\ ~closed[u] THEN early \cup {c} ELSE early
    /\ Meets(\/ latest'[c] # u
             \/ u \in CronRuns /\ latest[c] # u /\ ~Quiet(c)
             \/ Reporting(c) # {})

\* HandledChat says yes: the fallback is suppressed, ForgetChat is next.
ChatUpdatedHandled(s, c, u) ==
    /\ Reported(s, c, u)
    /\ c \in handledChats
    /\ task' = [task EXCEPT ![s] = [at |-> "forget", chat |-> c, run |-> u]]
    /\ UNCHANGED <<vars, pushDedup, streamed, answered, pushed, failed,
                   settled, suppressed, emptied>>

\* ForgetChat; what it forgets need not be about this run.
Forget(s) ==
    /\ task[s].at = "forget"
    /\ ForgetChat(task[s].chat)
    /\ task' = [task EXCEPT ![s].at = "remember"]
    /\ UNCHANGED <<pushDedup, updates, streamed, answered, pushed, failed,
                   settled, suppressed, emptied, latest, overlapped, early>>

\* Mutant: the suppressed run is not remembered in pushDedup.
RememberNot(s) ==
    /\ task[s].at = "remember"
    /\ task' = [task EXCEPT ![s] = Idle]
    /\ settled' = settled \cup {task[s].run}
    /\ suppressed' = suppressed \cup {task[s].run}
    /\ UNCHANGED <<vars, pushDedup, updates, streamed, answered, pushed, failed,
                   emptied, latest, overlapped, early>>

\* The suppressed run is not to be pushed later on either.
Remember(s) ==
    /\ task[s].at = "remember"
    /\ pushDedup' = [pushDedup EXCEPT ![task[s].chat] = task[s].run]
    /\ task' = [task EXCEPT ![s] = Idle]
    /\ settled' = settled \cup {task[s].run}
    /\ suppressed' = suppressed \cup {task[s].run}
    /\ UNCHANGED <<vars, updates, streamed, answered, pushed, failed, emptied,
                   latest, overlapped, early>>

\* The last run this chat was told about: nothing to do.
ChatUpdatedDup(s, c, u) ==
    /\ Reported(s, c, u)
    /\ c \notin handledChats
    /\ pushDedup[c] = u
    /\ settled' = settled \cup {u}
    /\ UNCHANGED <<vars, pushDedup, task, streamed, answered, pushed, failed,
                   suppressed, emptied>>

\* Mutant: the run is remembered before its push is acknowledged.
ChatUpdatedPushRemembers(s, c, u) ==
    /\ Reported(s, c, u)
    /\ c \notin handledChats
    /\ pushDedup[c] # u
    /\ pushDedup' = [pushDedup EXCEPT ![c] = u]
    /\ task' = [task EXCEPT ![s] = [at |-> "push", chat |-> c, run |-> u]]
    /\ UNCHANGED <<vars, streamed, answered, pushed, failed, settled,
                   suppressed, emptied>>

\* Otherwise SendMarkdownPush goes out.
ChatUpdatedPush(s, c, u) ==
    /\ Reported(s, c, u)
    /\ c \notin handledChats
    /\ pushDedup[c] # u
    /\ task' = [task EXCEPT ![s] = [at |-> "push", chat |-> c, run |-> u]]
    /\ UNCHANGED <<vars, pushDedup, streamed, answered, pushed, failed,
                   settled, suppressed, emptied>>

\* Mutant: the run that was pushed is not remembered.
PushReturnsWithoutDedup(s, ok) ==
    /\ task[s].at = "push"
    /\ pushed' = IF ok THEN [pushed EXCEPT ![task[s].run] = @ + 1] ELSE pushed
    /\ failed' = IF ok THEN failed ELSE failed \cup {task[s].run}
    /\ task' = [task EXCEPT ![s] = Idle]
    /\ settled' = settled \cup {task[s].run}
    /\ UNCHANGED <<vars, pushDedup, updates, streamed, answered, suppressed,
                   emptied, latest, overlapped, early>>

\* Mutant: the chat is remembered instead of the run.
PushReturnsMarksChat(s, ok) ==
    /\ task[s].at = "push"
    /\ pushDedup' = IF ok THEN [pushDedup EXCEPT ![task[s].chat] = task[s].chat]
                    ELSE pushDedup
    /\ pushed' = IF ok THEN [pushed EXCEPT ![task[s].run] = @ + 1] ELSE pushed
    /\ failed' = IF ok THEN failed ELSE failed \cup {task[s].run}
    /\ task' = [task EXCEPT ![s] = Idle]
    /\ settled' = settled \cup {task[s].run}
    /\ UNCHANGED <<vars, updates, streamed, answered, suppressed, emptied,
                   latest, overlapped, early>>

\* Its ACK arrives, or it fails: then the run is not remembered.
PushReturns(s, ok) ==
    LET c == task[s].chat
        u == task[s].run
    IN  /\ task[s].at = "push"
        /\ pushDedup' = IF ok THEN [pushDedup EXCEPT ![c] = u] ELSE pushDedup
        /\ pushed' = IF ok THEN [pushed EXCEPT ![u] = @ + 1] ELSE pushed
        /\ failed' = IF ok THEN failed ELSE failed \cup {u}
        /\ task' = [task EXCEPT ![s] = Idle]
        /\ settled' = settled \cup {u}
        /\ UNCHANGED <<vars, updates, streamed, answered, suppressed, emptied,
                       latest, overlapped, early>>

\* An empty lastRunContent (a run that only reasoned) returns before
\* anything is looked at, ForgetChat included.
ChatUpdatedEmpty(s, c, u) ==
    /\ Reported(s, c, u)
    /\ settled' = settled \cup {u}
    /\ emptied' = emptied \cup {c}
    /\ UNCHANGED <<vars, pushDedup, task, streamed, answered, pushed, failed,
                   suppressed>>

-----------------------------------------------------------------------------
DeliveryInit ==
    /\ Init
    /\ pushDedup = [c \in Chats |-> NoRun]
    /\ task = [s \in Sessions |-> Idle]
    /\ updates = [u \in AnyRun |-> 0]
    /\ streamed = {}
    /\ answered = {}
    /\ pushed = [u \in AnyRun |-> 0]
    /\ failed = {}
    /\ settled = {}
    /\ suppressed = {}
    /\ emptied = {}
    /\ latest = [c \in Chats |-> NoRun]
    /\ overlapped = FALSE
    /\ early = {}

DeliveryNext ==
    \/ \E r \in Runs : \/ \E c \in Chats : Query(r, c)
                       \/ Timer(r)
                       \/ \E ok \in BOOLEAN : SendReturns(r, ok)
                       \/ \E s \in Sessions : StreamFrame(s, r)
    \/ \E s \in Sessions : \/ Forget(s)
                           \/ Remember(s)
                           \/ \E ok \in BOOLEAN : PushReturns(s, ok)
    \/ \E s \in Sessions, c \in Chats, u \in AnyRun :
          \/ ChatUpdatedHandled(s, c, u)
          \/ ChatUpdatedDup(s, c, u)
          \/ ChatUpdatedPush(s, c, u)
          \/ ChatUpdatedEmpty(s, c, u)

DeliverySpec == DeliveryInit /\ [][DeliveryNext]_allVars

-----------------------------------------------------------------------------
\* Properties.

DeliveryTypeOK ==
    /\ TypeOK
    /\ pushDedup \in [Chats -> AnyRun \cup {NoRun}]
    /\ task \in [Sessions -> [at : {"idle", "event", "forget", "remember", "push"},
                              chat : Chats \cup {NoChat}, run : AnyRun \cup {NoRun}]]
    /\ updates \in [AnyRun -> 0 .. MaxUpdates]
    /\ pushed \in [AnyRun -> Nat]
    /\ answered \subseteq streamed
    /\ streamed \subseteq Runs
    /\ failed \cup settled \cup suppressed \subseteq AnyRun
    /\ emptied \subseteq Chats
    /\ latest \in [Chats -> AnyRun \cup {NoRun}]
    /\ overlapped \in BOOLEAN
    /\ early \subseteq Chats

\* A run whose frames WeCom has acknowledged is never pushed as well, so
\* the user never reads an answer twice (bridge.go:487-489).  A chat is
\* excepted once a run of it was reported before it had closed: a frame
\* that still waits for its ACK has not set the flag yet, so the run is
\* pushed and the frame arrives too.
NoDuplicate == \A r \in streamed : pushed[r] > 0 => chatOf[r] \in early

\* What follows holds of chats whose runs come one after the other: until a
\* query, or a scheduled run, comes before the last run's chat.updated, an
\* older run is reported once more, or two sessions report on one chat at
\* the same time.  The flag and pushDedup are kept per chat, not per run.
NoDuplicateInTurn == overlapped \/ NoDuplicate

\* No run is pushed twice, however often chat.updated reports it and
\* however early.
PushedOnce == overlapped \/ \A u \in AnyRun : pushed[u] <= 1

\* The fallback is suppressed only for a run of which something was
\* streamed; a run that failed without a word is left to chat.updated
\* (stream_sender.go:144).  Two kinds of chat are excepted: an empty
\* chat.updated leaves the flag of its run set for the next one, and so
\* does an ACK that comes after the early report of its run.
SuppressedWasStreamed ==
    [][\A s \in Sessions, c \in Chats, u \in AnyRun :
          ChatUpdatedHandled(s, c, u) /\ c \notin emptied \cup early' /\ ~overlapped'
             => u \in streamed]_allVars

\* When chat.updated has been dealt with and no send of the run failed,
\* its answer has reached WeCom whole, by one way or the other.  Not so
\* when it was reported early: one acknowledged frame of a run that was cut
\* off suppresses the fallback, and the rest of the answer never comes.
NothingLost ==
    overlapped \/ \A r \in Runs \cap (settled \ failed) :
                      r \in answered \/ pushed[r] > 0 \/ chatOf[r] \in emptied \cup early

\* Whatever overlaps, pushDedup only remembers a run that was pushed or
\* suppressed: a push that failed is tried again at the next chat.updated
\* (bridge.go:515-528).
RememberedIsDone ==
    \A c \in Chats : pushDedup[c] # NoRun =>
        pushDedup[c] \in suppressed \/ pushed[pushDedup[c]] > 0
=============================================================================
