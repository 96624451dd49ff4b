-------------------------- MODULE WecomClientProofs --------------------------
(***************************************************************************)
(* Proofs about WecomClient, for any number of connections, replies and    *)
(* pings and channels of any capacity.  All four invariants of the client  *)
(* rest on one: no socket is open while Run is between connections         *)
(* (Offline), the channels hold what this connection brought, and a sender *)
(* whose connection is gone finds nothing in them.                         *)
(***************************************************************************)
EXTENDS WecomClient, TLAPS

\* Run is between two connections, or has not begun or has ended.
Offline == run \in {"loop", "dial", "backoff", "done"}

\* Everything in s is of connection g.
From(s, g) == \A i \in DOMAIN s : s[i].conn = g

OpenOnline == \A g \in Conns : link[g] = "open" => g = gen /\ ~Offline

\* Frames wait for their ACK on the connection they were written to; nothing
\* waits when there is none; and a new connection starts with empty channels.
Owed == /\ From(respondOut, gen)
        /\ Offline => respondOut = << >>
Channels == /\ From(respondAcks, gen)
            /\ ~Offline => From(subAcks, gen)
            /\ run = "dial" => respondAcks = << >> /\ subAcks = << >>

\* A sender from an earlier connection has nothing to take from this one's
\* channel: it holds respondMu, so nobody else has written.  An orphan has
\* what was in the old channel.
Waiter == /\ sender.at \in {"written", "waiting"} /\ sender.conn # gen
                => respondAcks = << >> /\ respondOut = << >>
          /\ sender.at = "orphan" => From(orphanAcks, sender.conn)

-----------------------------------------------------------------------------
\* Channels: a sequence whose members all have one connection.

LEMMA FromNone == \A g : From(<< >>, g)
BY DEF From

LEMMA FromTail ==
    ASSUME NEW S, NEW s \in Seq(S), s # << >>, NEW g, From(s, g)
    PROVE  From(Tail(s), g) /\ Head(s).conn = g /\ Head(s) \in S /\ Tail(s) \in Seq(S)
           /\ Len(Tail(s)) <= Len(s)
<1>1. \A i \in DOMAIN Tail(s) : i + 1 \in DOMAIN s /\ Tail(s)[i] = s[i + 1]
  OBVIOUS
<1>2. 1 \in DOMAIN s /\ Head(s) = s[1]
  OBVIOUS
<1> QED BY <1>1, <1>2 DEF From

LEMMA FromAppend ==
    ASSUME NEW S, NEW s \in Seq(S), NEW e \in S, NEW g, From(s, g), e.conn = g
    PROVE  Append(s, e) \in Seq(S) /\ From(Append(s, e), g)
<1>1. \A i \in DOMAIN Append(s, e) :
         (i \in DOMAIN s /\ Append(s, e)[i] = s[i]) \/ Append(s, e)[i] = e
  OBVIOUS
<1> QED BY <1>1 DEF From

\* readLoop's send never exceeds the capacity.
LEMMA FromOffer ==
    ASSUME NEW S, NEW s \in Seq(S), Len(s) <= AckCap,
           NEW e \in S, NEW g, From(s, g), e.conn = g
    PROVE  Offer(s, e) \in Seq(S) /\ Len(Offer(s, e)) <= AckCap /\ From(Offer(s, e), g)
<1>1. CASE Len(s) < AckCap
  <2>1. Append(s, e) \in Seq(S) /\ From(Append(s, e), g) /\ Len(Append(s, e)) <= AckCap
    BY <1>1, FromAppend, ClientAssumption
  <2> QED BY <1>1, <2>1 DEF Offer
<1>2. CASE ~(Len(s) < AckCap)
  BY <1>2 DEF Offer
<1> QED BY <1>1, <1>2

-----------------------------------------------------------------------------
\* Types.

\* An ACK that is taken leaves the rest; one that is offered keeps the bound.
LEMMA TailType ==
    ASSUME NEW S, NEW s \in Seq(S), s # << >>
    PROVE  /\ Head(s) \in S /\ Tail(s) \in Seq(S)
           /\ \A n \in Nat : Len(s) <= n => Len(Tail(s)) <= n
OBVIOUS

LEMMA OfferType ==
    ASSUME NEW S, NEW s \in Seq(S), Len(s) <= AckCap, NEW e \in S
    PROVE  Offer(s, e) \in Seq(S) /\ Len(Offer(s, e)) <= AckCap
BY ClientAssumption DEF Offer

LEMMA Zero == /\ 0 \in 0 .. MaxConns /\ 0 \in 0 .. AckCap /\ 0 \in 0 .. MaxPings
              /\ << >> \in Seq(Ack) /\ << >> \in Seq([conn : Conns, ok : BOOLEAN])
              /\ Len(<< >>) <= AckCap
BY ClientAssumption

SenderState == [at : {"idle", "written", "waiting", "orphan"},
                id : 0 .. MaxSends, conn : 0 .. MaxConns]

\* The three ways a sender changes its place.
LEMMA SenderMoves ==
    ASSUME NEW s \in SenderState
    PROVE  /\ [s EXCEPT !.at = "orphan"] \in SenderState
           /\ [s EXCEPT !.at = "waiting"] \in SenderState
           /\ [s EXCEPT !.at = "idle", !.conn = 0] \in SenderState
BY Zero DEF SenderState

LEMMA LeaveType ==
    ASSUME TypeOK, Leave
    PROVE  /\ run' \in {"done", "backoff"} /\ conn' = 0 /\ reading' = FALSE
           /\ link' \in [Conns -> {"none", "open", "closed"}]
           /\ hb' = "off" /\ pingsOut' = 0 /\ subOut' = FALSE /\ respondOut' = << >>
BY DEF TypeOK, Leave, LeaveWith

LEMMA RunType == ASSUME TypeOK, RunLoop PROVE TypeOK'
<1>1. CASE Loop
  <2>1. /\ run' \in {"done", "dial"} /\ pongs' \in {0, pongs}
        /\ subAcks' \in {subAcks, << >>} /\ respondAcks' \in {respondAcks, << >>}
        /\ sender' \in {sender, [sender EXCEPT !.at = "orphan"]}
        /\ orphanAcks' \in {orphanAcks, respondAcks}
    BY <1>1 DEF Loop, resetAckChannels, resetRespondChannel
  <2>2. sender \in SenderState
    BY DEF TypeOK, SenderState
  <2>3. sender' \in SenderState
    BY <2>1, <2>2, SenderMoves
  <2>4. pongs' \in 0 .. AckCap
    BY <2>1, Zero DEF TypeOK
  <2> QED BY <1>1, <2>1, <2>3, <2>4, Zero DEF Loop, TypeOK, netVars, SenderState
<1>2. CASE DialOk
  <2>1. gen + 1 \in Conns /\ gen' \in 0 .. MaxConns
    BY <1>2, ClientAssumption DEF DialOk, TypeOK, Conns
  <2>2. conn' \in {0, gen'}
    BY <1>2 DEF DialOk
  <2>3. link' \in [Conns -> {"none", "open", "closed"}]
    BY <1>2 DEF DialOk, TypeOK
  <2>4. missedPong' \in Nat /\ misses' \in 0 .. missedPong'
    BY <1>2 DEF DialOk, TypeOK
  <2> QED BY <1>2, <2>1, <2>2, <2>3, <2>4 DEF DialOk, TypeOK, subVars, sendVars
<1>3. CASE DialFails \/ BackOff
  BY <1>3 DEF DialFails, BackOff, TypeOK, netVars, hbVars, subVars, sendVars
<1>4. CASE WriteSubscribe
  BY <1>4 DEF WriteSubscribe, TypeOK, hbVars, sendVars
<1>5. CASE GiveUp \/ ServeEnds
  BY <1>5, LeaveType, Zero DEF GiveUp, ServeEnds, TypeOK
<1>6. CASE Subscribed
  <2>1. /\ Head(subAcks) \in [conn : Conns, ok : BOOLEAN]
        /\ Tail(subAcks) \in Seq([conn : Conns, ok : BOOLEAN])
        /\ Len(Tail(subAcks)) <= AckCap
    BY <1>6, TailType, ClientAssumption DEF Subscribed, TypeOK
  <2>2. Head(subAcks).conn \in 0 .. MaxConns
    BY <2>1 DEF Conns
  <2>3. CASE Leave
    BY <1>6, <2>1, <2>2, <2>3, LeaveType, Zero DEF Subscribed, TypeOK
  <2>4. CASE /\ run' = "serving" /\ hb' = "ticking"
             /\ UNCHANGED <<link, conn, reading, pingsOut, subOut, respondOut>>
    BY <1>6, <2>1, <2>2, <2>4 DEF Subscribed, TypeOK
  <2> QED BY <1>6, <2>3, <2>4 DEF Subscribed
<1> QED BY <1>1, <1>2, <1>3, <1>4, <1>5, <1>6 DEF RunLoop

LEMMA HeartbeatType == ASSUME TypeOK, Heartbeat PROVE TypeOK'
<1>1. CASE Ping
  BY <1>1, ClientAssumption DEF Ping, TypeOK, subVars, sendVars
<1>2. CASE PingWriteFails \/ HeartbeatCancelled
  BY <1>2 DEF PingWriteFails, HeartbeatCancelled, TypeOK, netVars, subVars, sendVars
<1>3. CASE PongTaken
  BY <1>3, ClientAssumption DEF PongTaken, TypeOK, netVars, subVars, sendVars
<1>4. CASE PongMissed
  BY <1>4 DEF PongMissed, CloseAfterTwo, TypeOK, subVars, sendVars
<1> QED BY <1>1, <1>2, <1>3, <1>4 DEF Heartbeat

LEMMA SenderType == ASSUME TypeOK, Sender PROVE TypeOK'
<1>1. CASE SendWrite
  <2>1. sender.id + 1 \in 0 .. MaxSends /\ conn \in 0 .. MaxConns
    BY <1>1, ClientAssumption DEF SendWrite, TypeOK
  <2> QED BY <1>1, <2>1 DEF SendWrite, TypeOK, Ack, hbVars, subVars
<1>2. CASE SendWait
  BY <1>2 DEF SendWait, TypeOK, netVars, hbVars, subVars
<1>3. CASE SendAcked
  <2>1. respondAcks # << >> =>
           Tail(respondAcks) \in Seq(Ack) /\ Len(Tail(respondAcks)) <= AckCap
    BY TailType, ClientAssumption DEF TypeOK
  <2>2. /\ respondAcks' \in Seq(Ack) /\ Len(respondAcks') <= AckCap
        /\ orphanAcks' \in Seq(Ack)
    BY <1>3, <2>1, Zero DEF SendAcked, TypeOK
  <2>3. sender' \in SenderState
    BY <1>3, SenderMoves DEF SendAcked, TypeOK, SenderState
  <2> QED BY <1>3, <2>2, <2>3 DEF SendAcked, TypeOK, SenderState, netVars,
                                        hbVars, subVars
<1>4. CASE SendTimesOut
  <2>1. sender' \in SenderState
    BY <1>4, SenderMoves DEF SendTimesOut, TypeOK, SenderState
  <2> QED BY <1>4, <2>1, Zero DEF SendTimesOut, TypeOK, SenderState, netVars,
                                        hbVars, subVars
<1> QED BY <1>1, <1>2, <1>3, <1>4 DEF Sender

LEMMA ServerType == ASSUME TypeOK, Server PROVE TypeOK'
<1>1. ASSUME NEW ok \in BOOLEAN, ServerAcksSubscribe(ok) PROVE TypeOK'
  <2>1. [conn |-> gen, ok |-> ok] \in [conn : Conns, ok : BOOLEAN]
    BY <1>1 DEF ServerAcksSubscribe, Hears, TypeOK, Conns
  <2>2. subAcks' \in Seq([conn : Conns, ok : BOOLEAN]) /\ Len(subAcks') <= AckCap
    BY <1>1, <2>1, OfferType DEF ServerAcksSubscribe, TypeOK
  <2> QED BY <1>1, <2>2 DEF ServerAcksSubscribe, Dispatched, TypeOK, hbVars, sendVars
<1>2. CASE ServerPongs
  BY <1>2, ClientAssumption DEF ServerPongs, Dispatched, TypeOK, subVars, sendVars
<1>3. CASE ServerAcksRespond
  <2>1. Head(respondOut) \in Ack /\ Tail(respondOut) \in Seq(Ack)
    BY <1>3, TailType DEF ServerAcksRespond, TypeOK
  <2>2. respondAcks' \in Seq(Ack) /\ Len(respondAcks') <= AckCap
    BY <1>3, <2>1, OfferType DEF ServerAcksRespond, TypeOK
  <2> QED BY <1>3, <2>1, <2>2 DEF ServerAcksRespond, Dispatched, TypeOK, hbVars, subVars
<1>4. CASE ServerCallback
  BY <1>4 DEF ServerCallback, Dispatched, TypeOK, hbVars, subVars, sendVars
<1>5. CASE ServerCloses \/ GoesMute
  BY <1>5 DEF ServerCloses, GoesMute, TypeOK, hbVars, subVars, sendVars
<1> QED BY <1>1, <1>2, <1>3, <1>4, <1>5 DEF Server

LEMMA TypeNext == TypeOK /\ [Next]_vars => TypeOK'
<1> SUFFICES ASSUME TypeOK, [Next]_vars PROVE TypeOK'
  OBVIOUS
<1>1. CASE UNCHANGED vars
  BY <1>1 DEF vars, netVars, hbVars, subVars, sendVars, TypeOK
<1>2. CASE Cancel
  BY <1>2 DEF Cancel, netVars, hbVars, subVars, sendVars, TypeOK
<1> QED BY <1>1, <1>2, RunType, HeartbeatType, SenderType, ServerType DEF Next

-----------------------------------------------------------------------------
\* Sockets.

\* Nobody but DialOk opens one.
LEMMA NoneOpened ==
    ASSUME OpenOnline, gen' = gen,
           \A g \in Conns : link'[g] = "open" => link[g] = "open",
           Offline' => Offline \/ \A g \in Conns : link'[g] # "open"
    PROVE  OpenOnline'
BY DEF OpenOnline

\* Whoever can write, or hears the server, is online.
LEMMA WritesOnline == ASSUME TypeOK, OpenOnline, CanWrite
                      PROVE  conn = gen /\ gen \in Conns /\ ~Offline
BY DEF TypeOK, OpenOnline, CanWrite, Conns

LEMMA HearsOnline == ASSUME TypeOK, OpenOnline, Hears PROVE gen \in Conns /\ ~Offline
BY DEF TypeOK, OpenOnline, Hears, Conns

\* connectAndServe closes what it leaves.
LEMMA LeaveCloses ==
    ASSUME TypeOK, OpenOnline, Leave
    PROVE  \A g \in Conns : link'[g] # "open"
BY DEF TypeOK, OpenOnline, Leave, LeaveWith

LEMMA OpenNext == TypeOK /\ OpenOnline /\ [Next]_vars => OpenOnline'
<1> SUFFICES ASSUME TypeOK, OpenOnline, [Next]_vars PROVE OpenOnline'
  OBVIOUS
<1>1. CASE DialOk
  <2>1. \A g \in Conns : link[g] # "open"
    BY <1>1 DEF DialOk, OpenOnline, Offline
  <2> QED BY <1>1, <2>1 DEF DialOk, OpenOnline, Offline, TypeOK
<1>2. CASE GiveUp \/ ServeEnds \/ Subscribed
  <2>1. CASE Leave
    <3>1. gen' = gen
      BY <1>2 DEF GiveUp, ServeEnds, Subscribed
    <3> QED BY <2>1, <3>1, LeaveCloses, NoneOpened
  <2>2. CASE ~Leave
    BY <1>2, <2>2, NoneOpened DEF GiveUp, ServeEnds, Subscribed, Offline
  <2> QED BY <2>1, <2>2
<1>3. CASE Loop \/ DialFails \/ BackOff \/ WriteSubscribe
  BY <1>3, NoneOpened DEF Loop, DialFails, BackOff, WriteSubscribe, netVars, Offline
<1>4. CASE Heartbeat
  <2>1. gen' = gen /\ run' = run
    BY <1>4 DEF Heartbeat, Ping, PingWriteFails, PongTaken, PongMissed,
                HeartbeatCancelled, netVars
  <2>2. \A g \in Conns : link'[g] = "open" => link[g] = "open"
    BY <1>4 DEF Heartbeat, Ping, PingWriteFails, PongTaken, PongMissed, CloseAfterTwo,
                HeartbeatCancelled, netVars, TypeOK
  <2> QED BY <2>1, <2>2, NoneOpened DEF Offline
<1>5. CASE Sender \/ Cancel \/ UNCHANGED vars
  BY <1>5, NoneOpened DEF Sender, SendWrite, SendWait, SendAcked, SendTimesOut, Cancel,
                          vars, netVars, Offline
<1>6. CASE Server
  <2>1. gen' = gen /\ run' = run
    BY <1>6 DEF Server, ServerAcksSubscribe, ServerPongs, ServerAcksRespond,
                ServerCallback, ServerCloses, GoesMute
  <2>2. \A g \in Conns : link'[g] = "open" => link[g] = "open"
    BY <1>6 DEF Server, ServerAcksSubscribe, ServerPongs, ServerAcksRespond,
                ServerCallback, ServerCloses, GoesMute, TypeOK
  <2> QED BY <2>1, <2>2, NoneOpened DEF Offline
<1> QED BY <1>1, <1>2, <1>3, <1>4, <1>5, <1>6 DEF Next, RunLoop

-----------------------------------------------------------------------------
\* Channels and their waiters.

\* Steps that touch neither the replies nor who waits for them.
LEMMA RepliesKept ==
    ASSUME Waiter, UNCHANGED <<gen, sender, respondOut, respondAcks, orphanAcks>>
    PROVE  Waiter'
BY DEF Waiter, From

Replies == Owed /\ Channels /\ Waiter

LEMMA RunReplies == ASSUME TypeOK, OpenOnline, Replies, RunLoop PROVE Replies'
<1>1. CASE Loop
  <2>1. Owed'
    BY <1>1 DEF Loop, Replies, Owed, Offline, netVars, From
  <2>2. CASE cancelled
    <3>1. UNCHANGED <<gen, respondAcks, subAcks, sender, orphanAcks, respondOut>>
          /\ run' = "done"
      BY <1>1, <2>2 DEF Loop, netVars
    <3> QED BY <2>1, <3>1, RepliesKept DEF Replies, Channels, Offline, From
  <2>3. CASE ~cancelled
    <3>1. /\ run' = "dial" /\ gen' = gen /\ respondOut' = respondOut
          /\ respondAcks' = << >> /\ subAcks' = << >>
          /\ resetRespondChannel
      BY <1>1, <2>3 DEF Loop, netVars, resetAckChannels, resetRespondChannel
    <3>2. Channels'
      BY <3>1, FromNone DEF Channels, Offline
    <3>3. Waiter'
      <4>1. CASE sender.at = "waiting"
        <5>1. sender' = [sender EXCEPT !.at = "orphan"] /\ orphanAcks' = respondAcks
          BY <3>1, <4>1 DEF resetRespondChannel
        <5>2. sender'.at = "orphan" /\ sender'.conn = sender.conn
          BY <5>1 DEF TypeOK
        <5>3. From(respondAcks, sender.conn)
          BY <4>1, FromNone DEF Replies, Channels, Waiter
        <5> QED BY <5>1, <5>2, <5>3 DEF Waiter, From
      <4>2. CASE sender.at # "waiting"
        BY <1>1, <3>1, <4>2 DEF resetRespondChannel, Replies, Waiter, Owed, Loop,
                                Offline, From
      <4> QED BY <4>1, <4>2
    <3> QED BY <2>1, <3>2, <3>3 DEF Replies
  <2> QED BY <2>2, <2>3
<1>2. CASE DialOk
  <2>1. /\ respondOut' = << >> /\ respondAcks' = << >> /\ subAcks' = << >>
        /\ sender' = sender /\ orphanAcks' = orphanAcks /\ run' = "subscribe"
    BY <1>2 DEF DialOk, Replies, Owed, Channels, Offline, sendVars, subVars
  <2> QED BY <2>1, FromNone DEF Replies, Owed, Channels, Waiter, Offline, From
<1>3. CASE GiveUp \/ ServeEnds \/ Subscribed
  <2>1. UNCHANGED <<gen, respondAcks, sender, orphanAcks>>
    BY <1>3 DEF GiveUp, ServeEnds, Subscribed
  <2>2. ~Offline /\ run' # "dial"
    BY <1>3 DEF GiveUp, ServeEnds, Subscribed, Leave, LeaveWith, Offline
  <2>3. respondOut' = << >> \/ (respondOut' = respondOut /\ ~Offline')
    <3>1. CASE Leave
      BY <3>1, LeaveType
    <3>2. CASE ~Leave
      <4>1. respondOut' = respondOut /\ run' = "serving"
        BY <1>3, <3>2 DEF GiveUp, ServeEnds, Subscribed
      <4> QED BY <4>1 DEF Offline
    <3> QED BY <3>1, <3>2
  <2>4. From(subAcks', gen)
    <3>1. CASE Subscribed
      BY <2>2, <3>1, FromTail DEF Subscribed, Replies, Channels, TypeOK
    <3>2. CASE GiveUp \/ ServeEnds
      BY <2>2, <3>2 DEF GiveUp, ServeEnds, Replies, Channels
    <3> QED BY <1>3, <3>1, <3>2
  <2>5. Owed' /\ Channels'
    BY <2>1, <2>2, <2>3, <2>4, FromNone DEF Replies, Owed, Channels, From
  <2>6. Waiter'
    BY <2>1, <2>3 DEF Replies, Waiter, From
  <2> QED BY <2>5, <2>6 DEF Replies
<1>4. CASE DialFails \/ BackOff \/ WriteSubscribe
  <2>1. UNCHANGED <<gen, subAcks, sender, respondOut, respondAcks, orphanAcks>>
    BY <1>4 DEF DialFails, BackOff, WriteSubscribe, netVars, subVars, sendVars
  <2>2. /\ Offline' => Offline
        /\ ~Offline' => ~Offline
        /\ run' # "dial"
    BY <1>4 DEF DialFails, BackOff, WriteSubscribe, Offline
  <2> QED BY <2>1, <2>2, RepliesKept DEF Replies, Owed, Channels, From
<1> QED BY <1>1, <1>2, <1>3, <1>4 DEF RunLoop

\* Steps that leave Run, the subscription and the replies alone.
LEMMA ElsewhereKept ==
    ASSUME Replies, UNCHANGED <<run, gen, subAcks, sendVars>>
    PROVE  Replies'
BY RepliesKept DEF Replies, Owed, Channels, Offline, sendVars, From

\* A frame is written on the present connection; then its sender waits for
\* what the present channel brings.
LEMMA SenderReplies == ASSUME TypeOK, OpenOnline, Replies, Sender PROVE Replies'
<1>1. CASE SendWrite
  <2> DEFINE frame == [id |-> sender.id + 1, conn |-> conn]
  <2>1. conn = gen /\ ~Offline
    BY <1>1, WritesOnline DEF SendWrite
  <2>2. frame \in Ack
    BY <1>1, ClientAssumption DEF SendWrite, TypeOK, Ack
  <2>3. From(Append(respondOut, frame), gen)
    BY <2>1, <2>2, FromAppend DEF TypeOK, Replies, Owed
  <2>4. /\ UNCHANGED <<run, gen, subAcks, respondAcks, orphanAcks>>
        /\ respondOut' = Append(respondOut, frame)
        /\ sender'.at = "written" /\ sender'.conn = gen
    BY <1>1, <2>1 DEF SendWrite, subVars
  <2> QED BY <2>1, <2>3, <2>4 DEF Replies, Owed, Channels, Waiter, Offline, From
<1>2. CASE SendWait
  <2>1. /\ UNCHANGED <<run, gen, subAcks, respondOut, respondAcks, orphanAcks>>
        /\ sender.at = "written" /\ sender'.at = "waiting" /\ sender'.conn = sender.conn
    BY <1>2 DEF SendWait, TypeOK, netVars, subVars
  <2> QED BY <2>1 DEF Replies, Owed, Channels, Waiter, Offline, From
<1>3. CASE SendAcked \/ SendTimesOut
  <2>1. UNCHANGED <<run, gen, subAcks, respondOut>> /\ sender'.at = "idle"
    BY <1>3 DEF SendAcked, SendTimesOut, TypeOK, netVars, subVars
  <2>2. \/ respondAcks' = respondAcks
        \/ respondAcks # << >> /\ respondAcks' = Tail(respondAcks)
    BY <1>3 DEF SendAcked, SendTimesOut
  <2>3. From(respondAcks', gen) /\ (respondAcks = << >> => respondAcks' = << >>)
    <3>1. respondAcks \in Seq(Ack) /\ From(respondAcks, gen)
      BY DEF TypeOK, Replies, Channels
    <3>2. CASE respondAcks' = respondAcks
      BY <3>1, <3>2
    <3>3. CASE respondAcks # << >> /\ respondAcks' = Tail(respondAcks)
      BY <3>1, <3>3, FromTail
    <3> QED BY <2>2, <3>2, <3>3
  <2> QED BY <2>1, <2>3 DEF Replies, Owed, Channels, Waiter, Offline, From
<1> QED BY <1>1, <1>2, <1>3 DEF Sender

LEMMA ServerReplies == ASSUME TypeOK, OpenOnline, Replies, Server PROVE Replies'
<1>1. ASSUME NEW ok \in BOOLEAN, ServerAcksSubscribe(ok) PROVE Replies'
  <2> DEFINE ack == [conn |-> gen, ok |-> ok]
  <2>1. gen \in Conns /\ ~Offline
    BY <1>1, HearsOnline DEF ServerAcksSubscribe
  <2>2. ack \in [conn : Conns, ok : BOOLEAN] /\ ack.conn = gen
    BY <2>1
  <2>3. From(Offer(subAcks, ack), gen)
    BY <2>1, <2>2, FromOffer DEF TypeOK, Replies, Channels
  <2>4. subAcks' = Offer(subAcks, ack) /\ UNCHANGED <<run, gen, sendVars>>
    BY <1>1 DEF ServerAcksSubscribe
  <2> QED BY <2>1, <2>3, <2>4, RepliesKept
         DEF Replies, Owed, Channels, Offline, sendVars, From
<1>2. CASE ServerAcksRespond
  <2> DEFINE ack == Head(respondOut)
  <2>1. ~Offline
    BY <1>2, HearsOnline DEF ServerAcksRespond
  <2>2. /\ ack \in Ack /\ ack.conn = gen
        /\ From(Tail(respondOut), gen)
    BY <1>2, FromTail DEF ServerAcksRespond, TypeOK, Replies, Owed
  <2>3. From(Offer(respondAcks, ack), gen)
    BY <2>2, FromOffer DEF TypeOK, Replies, Channels
  <2>4. /\ UNCHANGED <<run, gen, subAcks, sender, orphanAcks>>
        /\ respondOut # << >> /\ respondOut' = Tail(respondOut)
        /\ respondAcks' = Offer(respondAcks, ack)
    BY <1>2 DEF ServerAcksRespond, subVars
  <2> HIDE DEF ack
  <2> QED BY <2>1, <2>2, <2>3, <2>4 DEF Replies, Owed, Channels, Waiter, Offline, From
<1>3. CASE ServerPongs \/ ServerCallback \/ ServerCloses \/ GoesMute
  BY <1>3, ElsewhereKept DEF ServerPongs, ServerCallback, ServerCloses, GoesMute, subVars
<1> QED BY <1>1, <1>2, <1>3 DEF Server

LEMMA RepliesNext == TypeOK /\ OpenOnline /\ Replies /\ [Next]_vars => Replies'
<1> SUFFICES ASSUME TypeOK, OpenOnline, Replies, [Next]_vars PROVE Replies'
  OBVIOUS
<1>1. CASE Heartbeat
  BY <1>1, ElsewhereKept DEF Heartbeat, Ping, PingWriteFails, PongTaken, PongMissed,
                             HeartbeatCancelled, netVars, subVars
<1>2. CASE Cancel \/ UNCHANGED vars
  BY <1>2, ElsewhereKept DEF Cancel, vars, netVars, subVars
<1> QED BY <1>1, <1>2, RunReplies, SenderReplies, ServerReplies DEF Next

-----------------------------------------------------------------------------
\* What is taken from the channels.

\* The subscribe ACK that begins to serve is this connection's.
LEMMA SubscribedNext ==
    ASSUME TypeOK, OpenOnline, Replies, SubscribedHere, [Next]_vars
    PROVE  SubscribedHere'
<1>1. CASE Subscribed
  <2>1. Head(subAcks).conn = gen /\ gen' = gen
    BY <1>1, FromTail DEF Subscribed, TypeOK, Replies, Channels, Offline
  <2> QED BY <1>1, <2>1 DEF Subscribed, SubscribedHere
<1>2. CASE RunLoop /\ ~Subscribed
  BY <1>2 DEF RunLoop, Loop, DialOk, DialFails, WriteSubscribe, GiveUp, ServeEnds,
              BackOff, Leave, LeaveWith, SubscribedHere
<1>3. CASE ~RunLoop
  <2>1. UNCHANGED <<run, gen, subscribed>>
    BY <1>3 DEF Next, vars, netVars, subVars, Heartbeat, Ping, PingWriteFails, PongTaken,
                PongMissed, HeartbeatCancelled, Sender, SendWrite, SendWait, SendAcked,
                SendTimesOut, Server, ServerAcksSubscribe, ServerPongs,
                ServerAcksRespond, ServerCallback, ServerCloses, GoesMute, Cancel
  <2> QED BY <2>1 DEF SubscribedHere
<1> QED BY <1>1, <1>2, <1>3

\* The ACK a sender takes is of the connection it wrote on, in the present
\* channel and in the one it was left with.
LEMMA CreditedNext ==
    ASSUME TypeOK, Replies, CreditedHere, [Next]_vars
    PROVE  CreditedHere'
<1>1. CASE SendAcked
  <2>1. CASE sender.at = "waiting"
    <3>1. Head(respondAcks).conn = gen /\ respondAcks # << >>
      BY <1>1, <2>1, FromTail DEF SendAcked, TypeOK, Replies, Channels
    <3>2. sender.conn = gen
      BY <2>1, <3>1 DEF Replies, Waiter
    <3> QED BY <1>1, <2>1, <3>1, <3>2 DEF SendAcked, CreditedHere
  <2>2. CASE sender.at = "orphan"
    <3>1. Head(orphanAcks).conn = sender.conn
      BY <1>1, <2>2, FromTail DEF SendAcked, TypeOK, Replies, Waiter
    <3> QED BY <1>1, <2>2, <3>1 DEF SendAcked, CreditedHere
  <2> QED BY <1>1, <2>1, <2>2 DEF SendAcked
<1>2. CASE ~SendAcked
  <2>1. credited' = credited
    BY <1>2 DEF Next, vars, sendVars, RunLoop, Loop, DialOk, DialFails, WriteSubscribe,
                GiveUp, Subscribed, ServeEnds, BackOff, Heartbeat, Ping, PingWriteFails,
                PongTaken, PongMissed, HeartbeatCancelled, Sender, SendWrite, SendWait,
                SendTimesOut, Server, ServerAcksSubscribe, ServerPongs,
                ServerAcksRespond, ServerCallback, ServerCloses, GoesMute, Cancel
  <2> QED BY <2>1 DEF CreditedHere
<1> QED BY <1>1, <1>2

-----------------------------------------------------------------------------
ClientIInv == TypeOK /\ OpenOnline /\ Replies /\ SubscribedHere /\ CreditedHere

LEMMA InitIInv == Init => ClientIInv
<1> SUFFICES ASSUME Init PROVE ClientIInv
  OBVIOUS
<1>1. TypeOK
  <2>1. /\ gen = 0 /\ conn = 0 /\ 0 \in 0 .. MaxConns /\ missedPong \in Nat
        /\ misses \in 0 .. missedPong
    BY Zero DEF Init
  <2>2. sender \in SenderState
    BY Zero, ClientAssumption DEF Init, NoSend, SenderState
  <2>3. /\ subAcks \in Seq([conn : Conns, ok : BOOLEAN]) /\ Len(subAcks) <= AckCap
        /\ respondAcks \in Seq(Ack) /\ Len(respondAcks) <= AckCap
        /\ respondOut \in Seq(Ack) /\ orphanAcks \in Seq(Ack)
    BY Zero DEF Init
  <2>4. link \in [Conns -> {"none", "open", "closed"}]
    BY DEF Init
  <2> QED BY <2>1, <2>2, <2>3, <2>4, Zero DEF Init, TypeOK, SenderState
<1>2. Replies
  BY FromNone DEF Init, Replies, Owed, Channels, Waiter, Offline, NoSend
<1> QED BY <1>1, <1>2 DEF Init, ClientIInv, OpenOnline, SubscribedHere, CreditedHere,
                          NoSend

\* The inductive invariant is one.
THEOREM Invariance == Spec => []ClientIInv
<1>1. ClientIInv /\ [Next]_vars => ClientIInv'
  BY TypeNext, OpenNext, RepliesNext, SubscribedNext, CreditedNext DEF ClientIInv
<1> QED BY <1>1, InitIInv, PTL DEF Spec

\* Every variable keeps its type, and no channel exceeds its capacity.
THEOREM TypeCorrect == Spec => []TypeOK
<1>1. ClientIInv => TypeOK
  BY DEF ClientIInv
<1> QED BY <1>1, Invariance, PTL

\* However often the client reconnects, at most the newest socket is open
\* (client.go:170-179).
THEOREM OneLink == Spec => []OneOpenLink
<1>1. ClientIInv => OneOpenLink
  BY DEF ClientIInv, OpenOnline, OneOpenLink
<1> QED BY <1>1, Invariance, PTL

\* A connection is served only on the strength of its own subscribe ACK
\* (client.go:183-213).
THEOREM ServesSubscribed == Spec => []SubscribedHere
<1>1. ClientIInv => SubscribedHere
  BY DEF ClientIInv
<1> QED BY <1>1, Invariance, PTL

\* No reply is credited with an ACK of another connection, although the
\* client never looks whose ACK it takes (client.go:424-437).
THEOREM CreditsStay == Spec => []CreditedHere
<1>1. ClientIInv => CreditedHere
  BY DEF ClientIInv
<1> QED BY <1>1, Invariance, PTL
=============================================================================
