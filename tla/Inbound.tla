------------------------------- MODULE Inbound --------------------------------
(***************************************************************************)
(* From WeCom to the platform: bridge.HandleWecomMessage and what it       *)
(* calls, Dedup, pendingRefs, and the sessions of server.WSServer that     *)
(* Broadcast writes to.                                                    *)
(*                                                                         *)
(* The read loop starts a goroutine for every message (client.go:245), so  *)
(* messages overtake each other: a task here is one such goroutine, and    *)
(* each of its steps takes and releases one lock.  A file is downloaded    *)
(* and stored before the platform hears of it; its reference then waits in *)
(* pendingRefs for the chat's next question.                               *)
(*                                                                         *)
(* Left out: a redelivery later than the ten minutes of Dedup; contents,   *)
(* names and urls; handshakes that are refused.                            *)
(***************************************************************************)
EXTENDS Naturals, Sequences, FiniteSets

CONSTANTS Files,         \* image and file messages, by req_id
          Texts,         \* text messages, and voice messages with a text
          Blanks,        \* messages with nothing to forward
          Chats,
          ChatOf,        \* the chat of each message
          MaxTasks,      \* bound: callbacks, redelivered ones included
          Sessions       \* platform sessions that may ever connect

Messages == Files \cup Texts \cup Blanks

ASSUME InboundAssumption ==
    /\ Files \cap Texts = {} /\ Blanks \cap (Files \cup Texts) = {}
    /\ ChatOf \in [Messages -> Chats]
    /\ MaxTasks \in Nat

VARIABLES
    arrived,      \* the messages the read loop dispatched, in order; task n
                  \* is the goroutine of the n-th
    at,           \* where each task is
    to,           \* the sessions a task's Broadcast has yet to write to
    seen,         \* Dedup.m
    registered,   \* chats in the Registry
    opened,       \* messages whose run is open in the StreamSender
    pendingRefs,  \* by chat, the references that wait for a question
    refs,         \* by text, the references its query carries
    session,      \* WSServer.sessions, and the state of each connection
    got           \* what each session was sent

taskVars   == <<arrived, at>>
bridgeVars == <<seen, registered, opened, pendingRefs, refs>>
vars       == <<taskVars, to, bridgeVars, session, got>>

Tasks == 1 .. Len(arrived)
Msg(n) == arrived[n]
Goes(n, step) == at' = [at EXCEPT ![n] = step]
Values(s) == {s[i] : i \in DOMAIN s}

-----------------------------------------------------------------------------
\* A message from its callback to its frame.

\* Mutant: the goroutine is never started.
CallbackDropped(m) ==
    /\ Len(arrived) < MaxTasks
    /\ arrived' = Append(arrived, m)
    /\ UNCHANGED <<at, to, bridgeVars, session, got>>

\* A callback: `go c.cfg.OnMessage(env)`.
Callback(m) ==
    /\ Len(arrived) < MaxTasks
    /\ arrived' = Append(arrived, m)
    /\ at' = Append(at, "dedup")
    /\ UNCHANGED <<to, bridgeVars, session, got>>

Seen(n) == Msg(n) \in seen

\* The switch on the message's type.
Sorted(n) ==
    \/ (Seen(n) \/ Msg(n) \in Blanks) /\ Goes(n, "done")
    \/ ~Seen(n) /\ Msg(n) \in Files /\ Goes(n, "fetch")
    \/ ~Seen(n) /\ Msg(n) \in Texts /\ Goes(n, "register")

\* Mutant: Seen looks, and does not remember.
AdmitForgetting(n) ==
    /\ at[n] = "dedup"
    /\ Sorted(n)
    /\ UNCHANGED <<arrived, to, bridgeVars, session, got>>

\* Dedup.Seen, and what follows from its answer.
Admit(n) ==
    /\ at[n] = "dedup"
    /\ seen' = seen \cup {Msg(n)}
    /\ Sorted(n)
    /\ UNCHANGED <<arrived, to, registered, opened, pendingRefs, refs, session,
                   got>>

\* Fetch: the file is there, or the message is dropped.
FetchFile(n) ==
    /\ at[n] = "fetch"
    /\ Goes(n, "register") \/ Goes(n, "done")
    /\ UNCHANGED <<arrived, to, bridgeVars, session, got>>

\* The chat's id is looked up or made (ChatIdFormatter; here a chat is its
\* id, and nothing changes), then the Registry is told of it.
Register(n) ==
    /\ at[n] = "register"
    /\ registered' = registered \cup {ChatOf[Msg(n)]}
    /\ Goes(n, IF Msg(n) \in Files THEN "put" ELSE "open")
    /\ UNCHANGED <<arrived, to, seen, opened, pendingRefs, refs, session, got>>

\* Store.Put may fail.
Put(n) ==
    /\ at[n] = "put"
    /\ Goes(n, "open") \/ Goes(n, "done")
    /\ UNCHANGED <<arrived, to, bridgeVars, session, got>>

\* Mutant: the platform is told before the run is open.
OpenLate(n) ==
    /\ at[n] = "open"
    /\ Goes(n, IF Msg(n) \in Files THEN "send" ELSE "take")
    /\ UNCHANGED <<arrived, to, bridgeVars, session, got>>

\* Mutant: a file's reference waits for a question before the upload is sent.
OpenWithRef(n) ==
    /\ at[n] = "open"
    /\ opened' = opened \cup {Msg(n)}
    /\ pendingRefs' = IF Msg(n) \in Files
                      THEN [pendingRefs EXCEPT ![ChatOf[Msg(n)]] = Append(@, Msg(n))]
                      ELSE pendingRefs
    /\ Goes(n, IF Msg(n) \in Files THEN "send" ELSE "take")
    /\ UNCHANGED <<arrived, to, seen, registered, refs, session, got>>

\* StreamSender.Open, before the frame that makes the platform answer.
Open(n) ==
    /\ at[n] = "open"
    /\ opened' = opened \cup {Msg(n)}
    /\ Goes(n, IF Msg(n) \in Files THEN "send" ELSE "take")
    /\ UNCHANGED <<arrived, to, seen, registered, pendingRefs, refs, session, got>>

\* Mutant: the references are taken and stay.
takePendingRefsKept(n) ==
    /\ at[n] = "take"
    /\ refs' = [refs EXCEPT ![Msg(n)] = pendingRefs[ChatOf[Msg(n)]]]
    /\ Goes(n, "send")
    /\ UNCHANGED <<arrived, to, seen, registered, opened, pendingRefs, session,
                   got>>

takePendingRefs(n) ==
    /\ at[n] = "take"
    /\ refs' = [refs EXCEPT ![Msg(n)] = pendingRefs[ChatOf[Msg(n)]]]
    /\ pendingRefs' = [pendingRefs EXCEPT ![ChatOf[Msg(n)]] = << >>]
    /\ Goes(n, "send")
    /\ UNCHANGED <<arrived, to, seen, registered, opened, session, got>>

\* Broadcast takes the sessions of the moment.
InMap == {s \in Sessions : session[s] \in {"new", "greeted", "dead"}}

Broadcast(n) ==
    /\ at[n] = "send"
    /\ to' = [to EXCEPT ![n] = InMap]
    /\ Goes(n, "sending")
    /\ UNCHANGED <<arrived, bridgeVars, session, got>>

Frame(n) == [type |-> IF Msg(n) \in Files THEN "upload" ELSE "query", msg |-> Msg(n)]

\* One write; to a connection that is gone it fails, and Broadcast goes on.
SendTo(n, s) ==
    /\ at[n] = "sending"
    /\ s \in to[n]
    /\ to' = [to EXCEPT ![n] = @ \ {s}]
    /\ got' = IF session[s] \in {"new", "greeted"}
              THEN [got EXCEPT ![s] = Append(@, Frame(n))] ELSE got
    /\ UNCHANGED <<arrived, at, bridgeVars, session>>

\* Broadcast returns nil, whoever it reached; a file's reference is next.
Sent(n) ==
    /\ at[n] = "sending"
    /\ to[n] = {}
    /\ Goes(n, IF Msg(n) \in Files THEN "ref" ELSE "done")
    /\ UNCHANGED <<arrived, to, bridgeVars, session, got>>

\* Mutant: one list of references for all the chats.
addPendingRefEverywhere(n) ==
    /\ at[n] = "ref"
    /\ pendingRefs' = [c \in Chats |-> Append(pendingRefs[c], Msg(n))]
    /\ Goes(n, "done")
    /\ UNCHANGED <<arrived, to, seen, registered, opened, refs, session, got>>

\* A file waits for the chat's next question.
addPendingRef(n) ==
    /\ at[n] = "ref"
    /\ pendingRefs' = [pendingRefs EXCEPT ![ChatOf[Msg(n)]] = Append(@, Msg(n))]
    /\ Goes(n, "done")
    /\ UNCHANGED <<arrived, to, seen, registered, opened, refs, session, got>>

-----------------------------------------------------------------------------
\* HandleAgentWS, after the ticket was accepted.

\* The session is put into the map ...
Accept(s) ==
    /\ session[s] = "none"
    /\ session' = [session EXCEPT ![s] = "new"]
    /\ UNCHANGED <<taskVars, to, bridgeVars, got>>

\* ... and then told that it is connected.
Greet(s) ==
    /\ session[s] = "new"
    /\ session' = [session EXCEPT ![s] = "greeted"]
    /\ got' = [got EXCEPT ![s] = Append(@, [type |-> "connected"])]
    /\ UNCHANGED <<taskVars, to, bridgeVars>>

\* The connection breaks, before the greeting as well; the read loop, or the
\* greeting that fails, notices and removes the session.
Breaks(s) ==
    /\ session[s] \in {"new", "greeted"}
    /\ session' = [session EXCEPT ![s] = "dead"]
    /\ UNCHANGED <<taskVars, to, bridgeVars, got>>

Removed(s) ==
    /\ session[s] = "dead"
    /\ session' = [session EXCEPT ![s] = "gone"]
    /\ UNCHANGED <<taskVars, to, bridgeVars, got>>

-----------------------------------------------------------------------------
Init ==
    /\ arrived = << >> /\ at = << >>
    /\ to = [n \in 1 .. MaxTasks |-> {}]
    /\ seen = {} /\ registered = {} /\ opened = {}
    /\ pendingRefs = [c \in Chats |-> << >>]
    /\ refs = [t \in Texts |-> << >>]
    /\ session = [s \in Sessions |-> "none"]
    /\ got = [s \in Sessions |-> << >>]

Task(n) == Admit(n) \/ FetchFile(n) \/ Register(n) \/ Put(n) \/ Open(n)
           \/ takePendingRefs(n) \/ Broadcast(n) \/ (\E s \in Sessions : SendTo(n, s))
           \/ Sent(n) \/ addPendingRef(n)

Next == \/ \E m \in Messages : Callback(m)
        \/ \E n \in Tasks : Task(n)
        \/ \E s \in Sessions : Accept(s) \/ Greet(s) \/ Breaks(s) \/ Removed(s)

Spec == Init /\ [][Next]_vars

-----------------------------------------------------------------------------
\* Properties.

Steps == {"dedup", "fetch", "register", "put", "open", "take", "send", "sending",
          "ref", "done"}

TypeOK ==
    /\ arrived \in Seq(Messages) /\ Len(arrived) <= MaxTasks
    /\ at \in Seq(Steps) /\ Len(at) = Len(arrived)
    /\ to \in [1 .. MaxTasks -> SUBSET Sessions]
    /\ seen \subseteq Messages /\ registered \subseteq Chats
    /\ opened \subseteq Files \cup Texts
    /\ pendingRefs \in [Chats -> Seq(Files)]
    /\ refs \in [Texts -> Seq(Files)]
    /\ session \in [Sessions -> {"none", "new", "greeted", "dead", "gone"}]
    /\ got \in [Sessions -> Seq([type : {"connected"}]
                                \cup [type : {"upload", "query"}, msg : Messages])]

\* A file's reference is in one place, and in no other chat's: it waits for
\* a question of the file's own chat, or one of them carries it, never both,
\* never twice (bridge.go:160-181).
Holders == [kind : {"chat"}, in : Chats, i : 1 .. MaxTasks]
           \cup [kind : {"text"}, in : Texts, i : 1 .. MaxTasks]
Refs(h) == IF h.kind = "chat" THEN pendingRefs[h.in] ELSE refs[h.in]
HolderChat(h) == IF h.kind = "chat" THEN h.in ELSE ChatOf[h.in]
Holding(f) == {h \in Holders : h.i \in DOMAIN Refs(h) /\ Refs(h)[h.i] = f}
RefInOnePlace ==
    \A f \in Files : /\ \A h \in Holding(f) : HolderChat(h) = ChatOf[f]
                     /\ \A h, g \in Holding(f) : h = g

\* What the platform is asked it can answer: the run is open and the chat
\* is registered before the frame that may be answered at once
\* (bridge.go:249-262, 353-372).
AnswerFindsRun ==
    \A s \in Sessions : \A k \in DOMAIN got[s] :
        got[s][k].type # "connected" =>
            /\ got[s][k].msg \in opened
            /\ ChatOf[got[s][k].msg] \in registered

\* However often WeCom delivers a message, a session is told of it once.
ToldOnce ==
    \A s \in Sessions : \A j, k \in DOMAIN got[s] :
        j # k => \/ got[s][j].type = "connected"
                 \/ got[s][k].type = "connected"
                 \/ got[s][j].msg # got[s][k].msg

\* A question names a file only after the session could have heard of it:
\* the file's upload is never behind the question.
UploadNotBehind ==
    \A s \in Sessions : \A j, k \in DOMAIN got[s] :
        got[s][j].type = "query" /\ got[s][k].type = "upload" /\ j < k
            => got[s][k].msg \notin Values(refs[got[s][j].msg])
=============================================================================
