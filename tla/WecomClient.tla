----------------------------- MODULE WecomClient -----------------------------
(***************************************************************************)
(* internal/wecom/client.go: one bot's WebSocket client.  Three goroutines *)
(* share it: Run (dial, subscribe, serve, back off), the read loop of the  *)
(* connection, and the heartbeat; callers of SendMarkdown and SendText are *)
(* one more process, since respondMu lets one at a time through.           *)
(*                                                                         *)
(* The server's frames carry no command that tells whose ACK they are, so  *)
(* the read loop puts an ACK into the channel of its command, and whoever  *)
(* waits on that channel takes the first one.  Frames and their ACKs are   *)
(* numbered here to see who gets whose; the code has no such number.       *)
(*                                                                         *)
(* Left out: the durations of backoff and timeouts (a timeout may happen   *)
(* at any time), UploadMedia and aibot_send_msg, whose ACKs have channels  *)
(* of their own, and the bodies of callbacks.  Reading a frame and putting *)
(* its ACK into a channel is one step: a frame that an old read loop has   *)
(* read is dispatched long before the backoff has passed and new channels  *)
(* are made.                                                               *)
(***************************************************************************)
EXTENDS Naturals, Sequences

CONSTANTS MaxConns,   \* bound: connections dialled
          MaxSends,   \* bound: SendMarkdown calls
          MaxPings,   \* bound: pings the server still owes a pong
          AckCap      \* capacity of an ACK channel (8 for respond, 4 for ping)

ASSUME ClientAssumption == /\ MaxConns \in Nat \ {0}
                           /\ MaxSends \in Nat
                           /\ MaxPings \in Nat \ {0}
                           /\ AckCap \in Nat \ {0}

VARIABLES
    run,         \* where Run and connectAndServe are
    cancelled,   \* ctx is cancelled
    gen,         \* connections dialled so far; the newest is number gen
    conn,        \* c.conn: a connection, or 0 for nil
    link,        \* each connection's socket
    mute,        \* the newest connection is dead and nobody has noticed
    reading,     \* the read loop of the newest connection is running
    hb,          \* the heartbeat loop
    missedPong,  \* c.missedPong
    pingsOut,    \* pings the server has not answered
    pongs,       \* the ping ACK channel: pongs in it
    subOut,      \* the server has a subscribe to answer
    subAcks,     \* the subscribe ACK channel: [conn, ok]
    sender,      \* the SendMarkdown in progress: [at, id, conn]
    respondOut,  \* frames the server has not acknowledged, in order
    respondAcks, \* the respond ACK channel: [id, conn]
    orphanAcks,  \* what a replaced respond channel still holds for its waiter
    misses,      \* history: pongs missed in a row on this connection
    credited,    \* history: the last ACK taken, and by whom
    subscribed   \* history: the connection whose subscribe ACK was taken

netVars    == <<gen, conn, link, mute, reading>>
hbVars     == <<hb, missedPong, pingsOut, pongs, misses>>
subVars    == <<subOut, subAcks, subscribed>>
sendVars   == <<sender, respondOut, respondAcks, orphanAcks, credited>>
vars       == <<run, cancelled, netVars, hbVars, subVars, sendVars>>

Conns == 1 .. MaxConns
NoSend == [at |-> "idle", id |-> 0, conn |-> 0]

-----------------------------------------------------------------------------
\* Writing and reading.

\* writeJSON succeeds: c.conn is set and its socket is open.
CanWrite == conn # 0 /\ link[conn] = "open"

\* The newest connection can still bring frames.
Hears == gen # 0 /\ link[gen] = "open" /\ reading /\ ~mute

\* A frame is dispatched by the read loop, which then finds ctx cancelled
\* or reads on (readLoop, 223-225).
Dispatched == reading' = ~cancelled

\* Mutant: the channel has no capacity.
OfferUnbounded(ch, ack) == Append(ch, ack)

\* readLoop offers an ACK without blocking: a full channel drops it.
Offer(ch, ack) == IF Len(ch) < AckCap THEN Append(ch, ack) ELSE ch

-----------------------------------------------------------------------------
\* Run.

\* resetAckChannels makes new channels.  A sender that waits on an old one
\* keeps it, and what it holds.
resetRespondChannel ==
    /\ respondAcks' = << >>
    /\ IF sender.at = "waiting"
       THEN /\ sender' = [sender EXCEPT !.at = "orphan"]
            /\ orphanAcks' = respondAcks
       ELSE UNCHANGED <<sender, orphanAcks>>

\* Mutant: the channels of the last connection are kept.
keepAckChannels == UNCHANGED <<pongs, subAcks, respondAcks, sender, orphanAcks>>

\* Mutant: the subscribe channel is left out.
resetOtherChannels == pongs' = 0 /\ resetRespondChannel /\ UNCHANGED subAcks

resetAckChannels == pongs' = 0 /\ resetRespondChannel /\ subAcks' = << >>

\* Top of the loop.
Loop ==
    /\ run = "loop"
    /\ \/ /\ cancelled
          /\ run' = "done"
          /\ UNCHANGED <<pongs, subAcks, respondAcks, sender, orphanAcks>>
       \/ /\ ~cancelled
          /\ run' = "dial"
          /\ resetAckChannels
    /\ UNCHANGED <<cancelled, netVars, hb, missedPong, pingsOut, misses,
                   subOut, subscribed, respondOut, credited>>

\* The dialled connection is published in c.conn and read from before the
\* subscribe frame is written (167-181).
DialOk ==
    /\ run = "dial"
    /\ ~cancelled
    /\ gen < MaxConns
    /\ gen' = gen + 1
    /\ conn' = gen + 1
    /\ link' = [link EXCEPT ![gen + 1] = "open"]
    /\ mute' = FALSE
    /\ reading' = TRUE
    /\ misses' = 0
    /\ run' = "subscribe"
    /\ UNCHANGED <<cancelled, hb, missedPong, pingsOut, pongs, subVars, sendVars>>

DialFails ==
    /\ run = "dial"
    /\ run' = "backoff"
    /\ UNCHANGED <<cancelled, netVars, hbVars, subVars, sendVars>>

\* connectAndServe returns: hbCancel, readCancel, conn.Close, c.conn = nil.
\* What the server had yet to answer on this connection is lost.
LeaveWith(sockets) ==
    /\ run' = IF cancelled THEN "done" ELSE "backoff"
    /\ link' = sockets
    /\ conn' = 0
    /\ reading' = FALSE
    /\ hb' = "off"
    /\ pingsOut' = 0
    /\ subOut' = FALSE
    /\ respondOut' = << >>

\* Mutant: without conn.Close.
LeaveOpen == LeaveWith(link)

Leave == LeaveWith([link EXCEPT ![gen] = "closed"])

WriteSubscribe ==
    /\ run = "subscribe"
    /\ CanWrite
    /\ subOut' = TRUE
    /\ run' = "await"
    /\ UNCHANGED <<cancelled, gen, conn, link, mute, reading, hbVars, subAcks,
                   subscribed, sendVars>>

\* The write fails, the read loop ends, ctx is cancelled or SendTimeout
\* passes before the subscribe ACK.
GiveUp ==
    /\ \/ run = "subscribe" /\ ~CanWrite
       \/ run = "await"
    /\ Leave
    /\ UNCHANGED <<cancelled, gen, mute, missedPong, pongs, misses, subAcks,
                   subscribed, sender, respondAcks, orphanAcks, credited>>

\* The subscribe ACK: OnReady and the heartbeat, or a rejection.
Subscribed ==
    /\ run = "await"
    /\ subAcks # << >>
    /\ subAcks' = Tail(subAcks)
    /\ subscribed' = Head(subAcks).conn
    /\ \/ /\ Head(subAcks).ok
          /\ run' = "serving"
          /\ hb' = "ticking"
          /\ UNCHANGED <<link, conn, reading, pingsOut, subOut, respondOut>>
       \/ /\ ~Head(subAcks).ok
          /\ Leave
    /\ UNCHANGED <<cancelled, gen, mute, missedPong, pongs, misses, sender,
                   respondAcks, orphanAcks, credited>>

\* Mutant: a read loop that returns nil is not noticed.
ServeEndsOnError ==
    /\ run = "serving"
    /\ link[gen] = "closed"
    /\ Leave
    /\ UNCHANGED <<cancelled, gen, mute, missedPong, pongs, misses, subAcks,
                   subscribed, sender, respondAcks, orphanAcks, credited>>

\* err = <-readDone: serving ends when the read loop does, and only then.
ServeEnds ==
    /\ run = "serving"
    /\ link[gen] = "closed" \/ ~reading
    /\ Leave
    /\ UNCHANGED <<cancelled, gen, mute, missedPong, pongs, misses, subAcks,
                   subscribed, sender, respondAcks, orphanAcks, credited>>

BackOff ==
    /\ run = "backoff"
    /\ run' = IF cancelled THEN "done" ELSE "loop"
    /\ UNCHANGED <<cancelled, netVars, hbVars, subVars, sendVars>>

-----------------------------------------------------------------------------
\* The heartbeat.

\* Mutant: the heartbeat ends and leaves the connection open.
StopAfterTwo ==
    /\ hb' = IF missedPong' >= 2 THEN "off" ELSE "ticking"
    /\ UNCHANGED link

\* Two missed: closeConn, and the loop ends.
CloseAfterTwo ==
    IF missedPong' >= 2
    THEN link' = [link EXCEPT ![gen] = "closed"] /\ hb' = "off"
    ELSE hb' = "ticking" /\ UNCHANGED link

Ping ==
    /\ hb = "ticking"
    /\ CanWrite
    /\ pingsOut' = IF pingsOut < MaxPings THEN pingsOut + 1 ELSE pingsOut
    /\ hb' = "waiting"
    /\ UNCHANGED <<run, cancelled, gen, conn, link, mute, reading, missedPong, pongs,
                   misses, subVars, sendVars>>

PingWriteFails ==
    /\ hb = "ticking"
    /\ ~CanWrite
    /\ hb' = "off"
    /\ UNCHANGED <<run, cancelled, netVars, missedPong, pingsOut, pongs, misses,
                   subVars, sendVars>>

PongTaken ==
    /\ hb = "waiting"
    /\ pongs > 0
    /\ pongs' = pongs - 1
    /\ missedPong' = 0
    /\ misses' = 0
    /\ hb' = "ticking"
    /\ UNCHANGED <<run, cancelled, netVars, pingsOut, subVars, sendVars>>

\* PongTimeout passes; the pong may come later, for the next ping.
PongMissed ==
    /\ hb = "waiting"
    /\ missedPong' = missedPong + 1
    /\ misses' = misses + 1
    /\ CloseAfterTwo
    /\ UNCHANGED <<run, cancelled, gen, conn, mute, reading, pingsOut, pongs,
                   subVars, sendVars>>

\* ctx is cancelled: the heartbeat stops.
HeartbeatCancelled ==
    /\ hb \in {"ticking", "waiting"}
    /\ cancelled
    /\ hb' = "off"
    /\ UNCHANGED <<run, cancelled, netVars, missedPong, pingsOut, pongs, misses,
                   subVars, sendVars>>

-----------------------------------------------------------------------------
\* SendMarkdown and SendText, with respondMu held.

\* writeJSON; without a connection the call returns its error.
SendWrite ==
    /\ sender.at = "idle"
    /\ sender.id < MaxSends
    /\ CanWrite
    /\ sender' = [at |-> "written", id |-> sender.id + 1, conn |-> conn]
    /\ respondOut' = Append(respondOut, [id |-> sender.id + 1, conn |-> conn])
    /\ UNCHANGED <<run, cancelled, gen, conn, link, mute, reading, hbVars, subVars,
                   respondAcks, orphanAcks, credited>>

\* c.ackCh(CmdRespond) is looked up after the write.
SendWait ==
    /\ sender.at = "written"
    /\ sender' = [sender EXCEPT !.at = "waiting"]
    /\ UNCHANGED <<run, cancelled, netVars, hbVars, subVars, respondOut, respondAcks,
                   orphanAcks, credited>>

\* The first ACK in the channel is taken for this frame's.
SendAcked ==
    /\ \/ /\ sender.at = "waiting"
          /\ respondAcks # << >>
          /\ credited' = [ack |-> Head(respondAcks), to |-> sender]
          /\ respondAcks' = Tail(respondAcks)
          /\ UNCHANGED orphanAcks
       \/ /\ sender.at = "orphan"
          /\ orphanAcks # << >>
          /\ credited' = [ack |-> Head(orphanAcks), to |-> sender]
          /\ orphanAcks' = << >>
          /\ UNCHANGED respondAcks
    /\ sender' = [sender EXCEPT !.at = "idle", !.conn = 0]
    /\ UNCHANGED <<run, cancelled, netVars, hbVars, subVars, respondOut>>

SendTimesOut ==
    /\ sender.at \in {"waiting", "orphan"}
    /\ sender' = [sender EXCEPT !.at = "idle", !.conn = 0]
    /\ orphanAcks' = << >>
    /\ UNCHANGED <<run, cancelled, netVars, hbVars, subVars, respondOut, respondAcks,
                   credited>>

-----------------------------------------------------------------------------
\* The server, and the read loop that dispatches what it sends.

ServerAcksSubscribe(ok) ==
    /\ Hears
    /\ subOut
    /\ subOut' = FALSE
    /\ subAcks' = Offer(subAcks, [conn |-> gen, ok |-> ok])
    /\ Dispatched
    /\ UNCHANGED <<run, cancelled, gen, conn, link, mute, hbVars, subscribed,
                   sendVars>>

ServerPongs ==
    /\ Hears
    /\ pingsOut > 0
    /\ pingsOut' = pingsOut - 1
    /\ pongs' = IF pongs < AckCap THEN pongs + 1 ELSE pongs
    /\ Dispatched
    /\ UNCHANGED <<run, cancelled, gen, conn, link, mute, hb, missedPong, misses,
                   subVars, sendVars>>

ServerAcksRespond ==
    /\ Hears
    /\ respondOut # << >>
    /\ respondOut' = Tail(respondOut)
    /\ respondAcks' = Offer(respondAcks, Head(respondOut))
    /\ Dispatched
    /\ UNCHANGED <<run, cancelled, gen, conn, link, mute, hbVars, subVars,
                   sender, orphanAcks, credited>>

\* A user's message: go OnMessage, nothing of the client's state.
ServerCallback ==
    /\ Hears
    /\ Dispatched
    /\ UNCHANGED <<run, cancelled, gen, conn, link, mute, hbVars, subVars,
                   sendVars>>

ServerCloses ==
    /\ gen # 0
    /\ link[gen] = "open"
    /\ ~mute
    /\ link' = [link EXCEPT ![gen] = "closed"]
    /\ UNCHANGED <<run, cancelled, gen, conn, mute, reading, hbVars, subVars,
                   sendVars>>

\* The peer vanishes without a FIN: frames go nowhere and none come.
GoesMute ==
    /\ gen # 0
    /\ link[gen] = "open"
    /\ ~mute
    /\ mute' = TRUE
    /\ UNCHANGED <<run, cancelled, gen, conn, link, reading, hbVars, subVars,
                   sendVars>>

Cancel ==
    /\ ~cancelled
    /\ cancelled' = TRUE
    /\ UNCHANGED <<run, netVars, hbVars, subVars, sendVars>>

-----------------------------------------------------------------------------
Init ==
    /\ run = "loop" /\ cancelled = FALSE
    /\ gen = 0 /\ conn = 0 /\ mute = FALSE /\ reading = FALSE
    /\ link = [g \in Conns |-> "none"]
    /\ hb = "off" /\ missedPong = 0 /\ pingsOut = 0 /\ pongs = 0 /\ misses = 0
    /\ subOut = FALSE /\ subAcks = << >> /\ subscribed = 0
    /\ sender = NoSend /\ respondOut = << >> /\ respondAcks = << >> /\ orphanAcks = << >>
    /\ credited = [ack |-> [id |-> 0, conn |-> 0], to |-> NoSend]

RunLoop == Loop \/ DialOk \/ DialFails \/ WriteSubscribe \/ GiveUp \/ Subscribed
           \/ ServeEnds \/ BackOff
Heartbeat == Ping \/ PingWriteFails \/ PongTaken \/ PongMissed \/ HeartbeatCancelled
Sender == SendWrite \/ SendWait \/ SendAcked \/ SendTimesOut
Server == (\E ok \in BOOLEAN : ServerAcksSubscribe(ok)) \/ ServerPongs
          \/ ServerAcksRespond \/ ServerCallback \/ ServerCloses \/ GoesMute

Next == RunLoop \/ Heartbeat \/ Sender \/ Server \/ Cancel

Spec == Init /\ [][Next]_vars

\* The client's goroutines are scheduled and its timers expire.  The server
\* and the caller owe nothing.  That WriteMessage returns is an assumption: a
\* write has no deadline (client.go:452), and one that blocked would hold
\* writeMu and keep the heartbeat from its ping.
Fairness == WF_vars(RunLoop) /\ WF_vars(Heartbeat) /\ WF_vars(SendWait)
            /\ WF_vars(SendAcked \/ SendTimesOut)

FairSpec == Spec /\ Fairness

-----------------------------------------------------------------------------
\* Properties.

Ack == [id : 0 .. MaxSends, conn : 0 .. MaxConns]

TypeOK ==
    /\ run \in {"loop", "dial", "subscribe", "await", "serving", "backoff", "done"}
    /\ cancelled \in BOOLEAN /\ mute \in BOOLEAN /\ reading \in BOOLEAN
    /\ gen \in 0 .. MaxConns /\ conn \in {0, gen}
    /\ link \in [Conns -> {"none", "open", "closed"}]
    /\ hb \in {"off", "ticking", "waiting"}
    /\ missedPong \in Nat /\ misses \in 0 .. missedPong
    /\ pingsOut \in 0 .. MaxPings /\ pongs \in 0 .. AckCap
    /\ subOut \in BOOLEAN
    /\ subAcks \in Seq([conn : Conns, ok : BOOLEAN]) /\ Len(subAcks) <= AckCap
    /\ subscribed \in 0 .. MaxConns
    /\ sender \in [at : {"idle", "written", "waiting", "orphan"},
                   id : 0 .. MaxSends, conn : 0 .. MaxConns]
    /\ respondOut \in Seq(Ack)
    /\ respondAcks \in Seq(Ack) /\ Len(respondAcks) <= AckCap
    /\ orphanAcks \in Seq(Ack)

\* At most one socket is open, the newest; every way out of
\* connectAndServe closes its own (170-175).
OneOpenLink == \A g \in Conns : link[g] = "open" => g = gen

\* A connection is served only after its own subscribe was acknowledged,
\* never on the strength of an ACK that outlived an earlier connection.
SubscribedHere == run = "serving" => subscribed = gen

\* No ACK is credited to a frame written on another connection.
CreditedHere == credited.ack.conn = credited.to.conn

\* A connection whose peer has vanished is given up (client.go:6).
\* Cancelling stops the heartbeat that would notice (see CancelEndsRun).
DeadLinkIsLeft ==
    (run = "serving" /\ mute /\ ~cancelled) ~> (run # "serving" \/ cancelled)

\* The heartbeat gives a connection up only after two pongs in a row were
\* missed on it (client.go:6, README.md:54).
TwoMissesToClose == [][PongMissed /\ link' # link => misses' >= 2]_vars

\* Once ctx is cancelled Run ends (client.go:121), unless it is serving a
\* connection whose server stays silent: nobody interrupts that read.
CancelEndsRun == cancelled ~> (run = "done" \/ (run = "serving" /\ reading))
=============================================================================
