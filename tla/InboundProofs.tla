---------------------------- MODULE InboundProofs ----------------------------
(***************************************************************************)
(* Proofs about Inbound, for any messages, chats, sessions, redeliveries.  *)
(* Dedup lets one task per message work, so what that task has told and    *)
(* stored no other one tells or stores again.                              *)
(***************************************************************************)
EXTENDS Inbound, TLAPS

USE InboundAssumption

-----------------------------------------------------------------------------
\* The inductive invariant.

Rest == {"dedup", "done"}

\* Task n is where its kind of message may be, and has registered its chat
\* and opened its run when it is past these steps.
Ready(n) ==
    /\ at[n] \in {"fetch", "put", "ref"} => Msg(n) \in Files
    /\ at[n] = "take" => Msg(n) \in Texts
    /\ at[n] \notin Rest => Msg(n) \in Files \cup Texts
    /\ at[n] \in {"put", "open", "take", "send", "sending", "ref"} =>
          ChatOf[Msg(n)] \in registered
    /\ at[n] \in {"take", "send", "sending", "ref"} => Msg(n) \in opened

\* At most one task works on a message.
OneTask ==
    /\ \A n \in Tasks : at[n] # "dedup" => Msg(n) \in seen
    /\ \A n, k \in Tasks :
          Msg(n) = Msg(k) /\ at[n] \notin Rest /\ at[k] \notin Rest => n = k

\* Task n will not write to session s any more, unless Dedup lets it.
Past(n, s) == at[n] \in Rest \cup {"ref"} \/ (at[n] = "sending" /\ s \notin to[n])

\* Of what a session was told, it will not be told again.
Told ==
    \A s \in Sessions : \A j \in DOMAIN got[s] :
        got[s][j].type # "connected" =>
            /\ got[s][j].msg \in seen
            /\ \A n \in Tasks : Msg(n) = got[s][j].msg => Past(n, s)

\* A file whose reference is somewhere has no task that could add it again.
Settled(f) == f \in seen /\ \A n \in Tasks : Msg(n) = f => at[n] \in Rest
Held == /\ \A c \in Chats : \A i \in DOMAIN pendingRefs[c] : Settled(pendingRefs[c][i])
        /\ \A t \in Texts : \A i \in DOMAIN refs[t] : Settled(refs[t][i])

\* RefInOnePlace without its records, and without the bound on positions.
OwnChat ==
    /\ \A c \in Chats : \A i \in DOMAIN pendingRefs[c] : ChatOf[pendingRefs[c][i]] = c
    /\ \A t \in Texts : \A i \in DOMAIN refs[t] : ChatOf[refs[t][i]] = ChatOf[t]
Apart ==
    /\ \A c \in Chats : \A i, j \in DOMAIN pendingRefs[c] :
          pendingRefs[c][i] = pendingRefs[c][j] => i = j
    /\ \A t, u \in Texts : \A i \in DOMAIN refs[t], j \in DOMAIN refs[u] :
          refs[t][i] = refs[u][j] => t = u /\ i = j
    /\ \A c \in Chats, t \in Texts :
          \A i \in DOMAIN pendingRefs[c], j \in DOMAIN refs[t] :
              pendingRefs[c][i] # refs[t][j]

TasksInv == OneTask /\ \A n \in Tasks : Ready(n)
GotInv == Told /\ ToldOnce /\ AnswerFindsRun
RefsInv == Held /\ OwnChat /\ Apart

IInv == TypeOK /\ TasksInv /\ GotInv /\ RefsInv

-----------------------------------------------------------------------------
\* What every step of a task does, whichever it is.
Turn(n) ==
    /\ arrived' = arrived
    /\ \A k \in Tasks \ {n} : at'[k] = at[k] /\ to'[k] = to[k]
    /\ seen \subseteq seen' /\ opened \subseteq opened' /\ registered \subseteq registered'
    /\ Msg(n) \in seen'
    /\ at[n] # "done" /\ at'[n] # "dedup"
    /\ at[n] = "dedup" /\ Msg(n) \in seen => at'[n] = "done"
    /\ \A s \in Sessions : Past(n, s) /\ Msg(n) \in seen => Past(n, s)'
    /\ Ready(n)'

LEMMA TurnTasks ==
    ASSUME IInv, NEW n \in Tasks, Turn(n)
    PROVE  TasksInv'
<1>1. OneTask'
  BY DEF IInv, TasksInv, OneTask, Turn, Rest, Tasks, Msg
<1>2. ASSUME NEW k \in Tasks PROVE Ready(k)'
  <2>1. CASE k = n
    BY <2>1 DEF Turn
  <2>2. CASE k # n
    BY <2>2 DEF IInv, TasksInv, Ready, Turn, Rest, Msg
  <2> QED BY <2>1, <2>2
<1> QED BY <1>1, <1>2 DEF TasksInv, Turn, Tasks

LEMMA TurnGot ==
    ASSUME IInv, NEW n \in Tasks, Turn(n), got' = got
    PROVE  GotInv'
<1>1. \A k \in Tasks, s \in Sessions : Past(k, s) /\ Msg(k) \in seen => Past(k, s)'
  BY DEF Turn, Past
<1>2. Told'
  BY <1>1 DEF IInv, GotInv, Told, Turn, Tasks, Msg
<1>3. ToldOnce'
  BY DEF IInv, GotInv, ToldOnce
<1>4. AnswerFindsRun'
  BY DEF IInv, GotInv, AnswerFindsRun, Turn
<1> QED BY <1>2, <1>3, <1>4 DEF GotInv

LEMMA TurnSettled ==
    ASSUME IInv, NEW n \in Tasks, Turn(n), NEW f, Settled(f)
    PROVE  Settled(f)'
BY DEF IInv, Settled, Turn, Tasks, Msg, Rest

LEMMA TurnRefs ==
    ASSUME IInv, NEW n \in Tasks, Turn(n), UNCHANGED <<pendingRefs, refs>>
    PROVE  RefsInv'
<1>1. Held'
  BY TurnSettled DEF IInv, RefsInv, Held
<1> QED BY <1>1 DEF IInv, RefsInv, OwnChat, Apart

-----------------------------------------------------------------------------
\* The steps of a task are turns.

LEMMA MsgType == ASSUME IInv, NEW n \in Tasks
                 PROVE  /\ n \in 1 .. MaxTasks /\ n \in DOMAIN at /\ at[n] \in Steps
                        /\ Msg(n) \in Messages
                        /\ Msg(n) \in Files \cup Texts => ChatOf[Msg(n)] \in Chats
BY DEF IInv, TypeOK, Tasks, Msg, InboundAssumption, Messages

LEMMA Goes1 ==
    ASSUME IInv, NEW n \in Tasks, NEW step \in Steps, Goes(n, step)
    PROVE  /\ at' \in Seq(Steps) /\ Len(at') = Len(at)
           /\ at'[n] = step
           /\ \A k \in Tasks \ {n} : at'[k] = at[k]
BY DEF IInv, TypeOK, Goes, Tasks

LEMMA AdmitTurn ==
    ASSUME IInv, NEW n \in Tasks, Admit(n)
    PROVE  Turn(n) /\ UNCHANGED <<to, registered, opened, pendingRefs, refs, session, got>>
<1>1. PICK step \in {"done", "fetch", "register"} :
        /\ Goes(n, step)
        /\ \/ step = "done"
           \/ ~Seen(n) /\ step = "fetch" /\ Msg(n) \in Files
           \/ ~Seen(n) /\ step = "register" /\ Msg(n) \in Texts
  BY DEF Admit, Sorted
<1>2. at'[n] = step /\ \A k \in Tasks \ {n} : at'[k] = at[k]
  BY <1>1, Goes1 DEF Steps
<1>3. Ready(n)'
  BY <1>1, <1>2 DEF Ready, Rest, Msg, Admit
<1> QED BY <1>1, <1>2, <1>3 DEF Turn, Past, Rest, Admit, Seen

LEMMA WorkTurn ==
    ASSUME IInv, NEW n \in Tasks, at[n] \notin Rest,
           \/ FetchFile(n) \/ Register(n) \/ Put(n) \/ Open(n) \/ takePendingRefs(n)
           \/ Broadcast(n) \/ Sent(n) \/ addPendingRef(n)
    PROVE  Turn(n)
<1>1. Msg(n) \in seen
  BY DEF IInv, TasksInv, OneTask, Rest
<1>2. n \in 1 .. MaxTasks
  BY MsgType
<1>3. PICK step \in Steps : Goes(n, step) /\ step # "dedup"
  <2>1. \E step \in {"register", "put", "open", "take", "send", "sending", "ref", "done"} :
           Goes(n, step)
    BY DEF FetchFile, Register, Put, Open, takePendingRefs, Broadcast, Sent, addPendingRef
  <2> QED BY <2>1 DEF Steps
<1>4. at'[n] = step /\ \A k \in Tasks \ {n} : at'[k] = at[k]
  BY <1>3, Goes1
<1>5. arrived' = arrived /\ seen' = seen
  BY DEF FetchFile, Register, Put, Open, takePendingRefs, Broadcast, Sent, addPendingRef,
         bridgeVars
<1>6. opened \subseteq opened' /\ registered \subseteq registered'
  BY DEF FetchFile, Register, Put, Open, takePendingRefs, Broadcast, Sent, addPendingRef,
         bridgeVars
<1>7. \A k \in Tasks \ {n} : to'[k] = to[k]
  <2>1. to' = to \/ to' = [to EXCEPT ![n] = InMap]
    BY DEF FetchFile, Register, Put, Open, takePendingRefs, Broadcast, Sent,
           addPendingRef
  <2>2. to \in [1 .. MaxTasks -> SUBSET Sessions] /\ Tasks \subseteq 1 .. MaxTasks
    BY MsgType DEF IInv, TypeOK
  <2> QED BY <2>1, <2>2
<1>8. Ready(n)
  BY DEF IInv, TasksInv
<1>9. Ready(n)' /\ \A s \in Sessions : Past(n, s) => Past(n, s)'
  <2>1. CASE FetchFile(n)
    BY <2>1, <1>8, <1>5, MsgType, Goes1 DEF FetchFile, Ready, Past, Rest, Msg, Steps, bridgeVars
  <2>2. CASE Register(n)
    BY <2>2, <1>8, <1>5, MsgType, Goes1 DEF Register, Ready, Past, Rest, Msg, Steps
  <2>3. CASE Put(n)
    BY <2>3, <1>8, <1>5, MsgType, Goes1 DEF Put, Ready, Past, Rest, Msg, Steps, bridgeVars
  <2>4. CASE Open(n)
    BY <2>4, <1>8, <1>5, MsgType, Goes1 DEF Open, Ready, Past, Rest, Msg, Steps
  <2>5. CASE takePendingRefs(n)
    BY <2>5, <1>8, <1>5, MsgType, Goes1 DEF takePendingRefs, Ready, Past, Rest, Msg, Steps
  <2>6. CASE Broadcast(n)
    BY <2>6, <1>8, <1>5, MsgType, Goes1 DEF Broadcast, Ready, Past, Rest, Msg, Steps, bridgeVars
  <2>7. CASE Sent(n)
    BY <2>7, <1>8, <1>5, MsgType, Goes1 DEF Sent, Ready, Past, Rest, Msg, Steps, bridgeVars
  <2>8. CASE addPendingRef(n)
    BY <2>8, <1>8, <1>5, MsgType, Goes1 DEF addPendingRef, Ready, Past, Rest, Msg, Steps
  <2> QED BY <2>1, <2>2, <2>3, <2>4, <2>5, <2>6, <2>7, <2>8
<1> QED BY <1>1, <1>3, <1>4, <1>5, <1>6, <1>7, <1>9 DEF Turn, Rest

LEMMA SendTurn ==
    ASSUME IInv, NEW n \in Tasks, NEW s \in Sessions, SendTo(n, s)
    PROVE  Turn(n)
<1>1. Msg(n) \in seen /\ n \in 1 .. MaxTasks
  BY MsgType DEF IInv, TasksInv, OneTask, SendTo
<1>2. at' = at /\ arrived' = arrived /\ UNCHANGED bridgeVars
  BY DEF SendTo
<1>3. to' \in [1 .. MaxTasks -> SUBSET Sessions]
      /\ to'[n] \subseteq to[n] /\ \A k \in Tasks \ {n} : to'[k] = to[k]
  BY <1>1 DEF SendTo, IInv, TypeOK
<1>4. Ready(n)'
  BY <1>2 DEF IInv, TasksInv, Ready, bridgeVars, Msg
<1> QED BY <1>1, <1>2, <1>3, <1>4 DEF Turn, SendTo, Past, bridgeVars

-----------------------------------------------------------------------------
\* Types.

FrameSet == [type : {"connected"}] \cup [type : {"upload", "query"}, msg : Messages]

LEMMA WorkTypes ==
    ASSUME IInv, NEW n \in Tasks,
           \/ Admit(n) \/ FetchFile(n) \/ Register(n) \/ Put(n) \/ Open(n)
           \/ takePendingRefs(n) \/ Broadcast(n) \/ Sent(n) \/ addPendingRef(n)
    PROVE  TypeOK'
<1>1. n \in 1 .. MaxTasks /\ Msg(n) \in Messages /\ TypeOK
      /\ (Msg(n) \in Files \cup Texts => ChatOf[Msg(n)] \in Chats)
  BY MsgType DEF IInv
<1>2. Ready(n)
  BY DEF IInv, TasksInv
<1>3. at' \in Seq(Steps) /\ Len(at') = Len(at)
  <2>1. \E step \in Steps : Goes(n, step)
    BY DEF Admit, Sorted, FetchFile, Register, Put, Open, takePendingRefs, Broadcast,
           Sent, addPendingRef, Steps
  <2> QED BY <2>1, Goes1
<1>4. CASE Admit(n)
  BY <1>1, <1>3, <1>4 DEF Admit, TypeOK
<1>5. CASE FetchFile(n) \/ Put(n) \/ Sent(n)
  BY <1>1, <1>3, <1>5 DEF FetchFile, Put, Sent, TypeOK, bridgeVars
<1>6. CASE Register(n)
  BY <1>1, <1>2, <1>3, <1>6 DEF Register, TypeOK, Ready, Rest
<1>7. CASE Open(n)
  BY <1>1, <1>2, <1>3, <1>7 DEF Open, TypeOK, Ready, Rest
<1>8. CASE takePendingRefs(n)
  <2>1. refs' \in [Texts -> Seq(Files)] /\ pendingRefs' \in [Chats -> Seq(Files)]
    BY <1>1, <1>2, <1>8 DEF takePendingRefs, TypeOK, Ready
  <2> QED BY <1>1, <1>3, <1>8, <2>1 DEF takePendingRefs, TypeOK
<1>9. CASE Broadcast(n)
  BY <1>1, <1>3, <1>9 DEF Broadcast, TypeOK, InMap, bridgeVars
<1>10. CASE addPendingRef(n)
  <2>1. pendingRefs' \in [Chats -> Seq(Files)]
    BY <1>1, <1>2, <1>10 DEF addPendingRef, TypeOK, Ready
  <2> QED BY <1>1, <1>3, <1>10, <2>1 DEF addPendingRef, TypeOK
<1> QED BY <1>4, <1>5, <1>6, <1>7, <1>8, <1>9, <1>10

-----------------------------------------------------------------------------
\* The write to a session.

LEMMA SendInv ==
    ASSUME IInv, NEW n \in Tasks, NEW s \in Sessions, SendTo(n, s)
    PROVE  IInv'
<1>1. Turn(n) /\ TasksInv' /\ RefsInv'
  BY SendTurn, TurnTasks, TurnRefs DEF SendTo, bridgeVars
<1>2. /\ n \in 1 .. MaxTasks /\ Msg(n) \in Messages /\ TypeOK
      /\ Msg(n) \in seen /\ Msg(n) \in opened /\ ChatOf[Msg(n)] \in registered
  BY MsgType DEF IInv, TasksInv, OneTask, Ready, SendTo
<1>3. /\ Frame(n) \in FrameSet /\ Frame(n).type # "connected"
      /\ Frame(n).msg = Msg(n)
  BY <1>2 DEF Frame, FrameSet
<1>4. CASE got' = got
  <2>1. TypeOK'
    BY <1>2, <1>4 DEF SendTo, TypeOK, bridgeVars
  <2> QED BY <1>1, <1>4, <2>1, TurnGot DEF IInv
<1>5. CASE got' = [got EXCEPT ![s] = Append(@, Frame(n))]
  <2>1. /\ got \in [Sessions -> Seq(FrameSet)]
        /\ got' \in [Sessions -> Seq(FrameSet)]
    BY <1>2, <1>3, <1>5 DEF TypeOK, FrameSet
  <2>2. TypeOK'
    BY <1>2, <2>1 DEF SendTo, TypeOK, bridgeVars, FrameSet
  <2>3. /\ \A r \in Sessions \ {s} : got'[r] = got[r]
        /\ got'[s] = Append(got[s], Frame(n))
        /\ DOMAIN got[s] = 1 .. Len(got[s])
        /\ DOMAIN got'[s] = 1 .. Len(got[s]) + 1
        /\ \A j \in DOMAIN got[s] : got'[s][j] = got[s][j]
        /\ got'[s][Len(got[s]) + 1] = Frame(n)
    BY <2>1, <1>3, <1>5
  <2>4. \A j \in DOMAIN got[s] : got[s][j].type # "connected" => got[s][j].msg # Msg(n)
    BY DEF IInv, GotInv, Told, Past, SendTo, Rest
  <2>5. \A k \in Tasks, r \in Sessions : Past(k, r) /\ Msg(k) \in seen => Past(k, r)'
    BY <1>1 DEF Turn, Past
  <2>6. \A k \in Tasks : Msg(k) = Msg(n) => Past(k, s)'
    <3>1. to'[n] = to[n] \ {s} /\ at' = at
      BY <1>2 DEF SendTo, TypeOK
    <3>2. \A k \in Tasks : Msg(k) = Msg(n) /\ k # n => at[k] \in Rest
      BY DEF IInv, TasksInv, OneTask, SendTo, Rest
    <3> QED BY <3>1, <3>2 DEF Past, SendTo
  <2>7. arrived' = arrived /\ UNCHANGED bridgeVars
    BY DEF SendTo
  <2>8. ASSUME NEW r \in Sessions, NEW j \in DOMAIN got'[r]
        PROVE  \/ j \in DOMAIN got[r] /\ got'[r][j] = got[r][j]
               \/ r = s /\ j = Len(got[s]) + 1 /\ got'[r][j] = Frame(n)
    BY <2>1, <2>3
  <2>9. Told'
    <3> SUFFICES ASSUME NEW r \in Sessions, NEW j \in DOMAIN got'[r],
                        got'[r][j].type # "connected"
                 PROVE  /\ got'[r][j].msg \in seen
                        /\ \A k \in Tasks : Msg(k) = got'[r][j].msg => Past(k, r)'
      BY <2>7 DEF Told, bridgeVars, Tasks, Msg
    <3>1. CASE j \in DOMAIN got[r] /\ got'[r][j] = got[r][j]
      BY <3>1, <2>5 DEF IInv, GotInv, Told
    <3>2. CASE r = s /\ got'[r][j] = Frame(n)
      BY <3>2, <1>2, <1>3, <2>6
    <3> QED BY <2>8, <3>1, <3>2
  <2>10. ToldOnce'
    <3> SUFFICES ASSUME NEW r \in Sessions, NEW j \in DOMAIN got'[r],
                        NEW k \in DOMAIN got'[r], j # k,
                        got'[r][j].type # "connected", got'[r][k].type # "connected"
                 PROVE  got'[r][j].msg # got'[r][k].msg
      BY DEF ToldOnce
    <3>1. CASE j \in DOMAIN got[r] /\ k \in DOMAIN got[r]
      BY <3>1, <2>3 DEF IInv, GotInv, ToldOnce
    <3>2. CASE j \notin DOMAIN got[r] \/ k \notin DOMAIN got[r]
      BY <3>2, <2>4, <2>8, <1>3
    <3> QED BY <3>1, <3>2
  <2>11. AnswerFindsRun'
    BY <2>7, <2>8, <1>2, <1>3 DEF IInv, GotInv, AnswerFindsRun, bridgeVars
  <2> QED BY <1>1, <2>2, <2>9, <2>10, <2>11 DEF IInv, GotInv
<1> QED BY <1>4, <1>5 DEF SendTo

-----------------------------------------------------------------------------
\* The two steps that move references.

LEMMA TakeRefs ==
    ASSUME IInv, NEW n \in Tasks, takePendingRefs(n)
    PROVE  RefsInv'
<1> DEFINE t == Msg(n)
           c == ChatOf[t]
<1>1. Turn(n) /\ t \in Texts /\ c \in Chats /\ TypeOK
  BY WorkTurn, MsgType DEF IInv, TasksInv, Ready, takePendingRefs, Rest
<1>2. /\ pendingRefs' = [pendingRefs EXCEPT ![c] = << >>]
      /\ refs' = [refs EXCEPT ![t] = pendingRefs[c]]
  BY DEF takePendingRefs
<1>3. /\ pendingRefs'[c] = << >> /\ DOMAIN pendingRefs'[c] = {}
      /\ \A d \in Chats \ {c} : pendingRefs'[d] = pendingRefs[d]
      /\ refs'[t] = pendingRefs[c]
      /\ \A u \in Texts \ {t} : refs'[u] = refs[u]
  BY <1>1, <1>2 DEF TypeOK
<1> HIDE DEF t, c
<1>4. Held'
  <2>1. \A f : Settled(f) => Settled(f)'
    BY <1>1, TurnSettled
  <2> QED BY <1>1, <1>3, <2>1 DEF IInv, RefsInv, Held, Settled
<1>5. OwnChat'
  BY <1>1, <1>3 DEF IInv, RefsInv, OwnChat, c
<1>6. Apart'
  <2>1. \A d \in Chats \ {c} : \A i \in DOMAIN pendingRefs[d], j \in DOMAIN pendingRefs[c] :
           pendingRefs[d][i] # pendingRefs[c][j]
    BY <1>1 DEF IInv, RefsInv, OwnChat
  <2> QED BY <1>1, <1>3, <2>1 DEF IInv, RefsInv, Apart
<1> QED BY <1>4, <1>5, <1>6 DEF RefsInv

LEMMA AddRef ==
    ASSUME IInv, NEW n \in Tasks, addPendingRef(n)
    PROVE  RefsInv'
<1> DEFINE f == Msg(n)
           c == ChatOf[f]
           s == pendingRefs[c]
<1>1. Turn(n) /\ f \in Files /\ c \in Chats /\ TypeOK
  BY WorkTurn, MsgType DEF IInv, TasksInv, Ready, addPendingRef, Rest
<1>2. /\ pendingRefs' = [pendingRefs EXCEPT ![c] = Append(s, f)]
      /\ refs' = refs /\ at' = [at EXCEPT ![n] = "done"]
  BY DEF addPendingRef, Goes
<1>3. /\ pendingRefs'[c] = Append(s, f)
      /\ \A d \in Chats \ {c} : pendingRefs'[d] = pendingRefs[d]
      /\ s \in Seq(Files)
  BY <1>1, <1>2 DEF TypeOK
<1>4. /\ DOMAIN s = 1 .. Len(s) /\ DOMAIN pendingRefs'[c] = 1 .. Len(s) + 1
      /\ \A i \in DOMAIN s : pendingRefs'[c][i] = s[i]
      /\ pendingRefs'[c][Len(s) + 1] = f
  <2> HIDE DEF s
  <2> QED BY <1>1, <1>3
<1>5. ~Settled(f)
  BY DEF Settled, addPendingRef, Rest
<1>6. /\ \A d \in Chats : \A i \in DOMAIN pendingRefs[d] : pendingRefs[d][i] # f
      /\ \A t \in Texts : \A i \in DOMAIN refs[t] : refs[t][i] # f
  <2> HIDE DEF f, c, s
  <2> QED BY <1>5 DEF IInv, RefsInv, Held
<1>7. Settled(f)'
  <2>1. \A k \in Tasks : Msg(k) = f /\ k # n => at[k] \in Rest
    BY DEF IInv, TasksInv, OneTask, addPendingRef, Rest
  <2>2. at'[n] \in Rest
    BY <1>2, MsgType DEF Rest
  <2> QED BY <1>1, <2>1, <2>2 DEF Settled, Turn, Tasks, Msg
<1>8. ASSUME NEW d \in Chats, NEW i \in DOMAIN pendingRefs'[d]
      PROVE  \/ i \in DOMAIN pendingRefs[d] /\ pendingRefs'[d][i] = pendingRefs[d][i]
             \/ d = c /\ i = Len(s) + 1 /\ pendingRefs'[d][i] = f
  BY <1>3, <1>4
<1> HIDE DEF f, c, s
<1>9. Held'
  <2>1. \A g : Settled(g) => Settled(g)'
    BY <1>1, TurnSettled
  <2>2. ASSUME NEW d \in Chats, NEW i \in DOMAIN pendingRefs'[d], NEW g,
               g = pendingRefs'[d][i]
        PROVE  Settled(g)'
    <3>1. CASE i \in DOMAIN pendingRefs[d] /\ pendingRefs'[d][i] = pendingRefs[d][i]
      BY <2>1, <2>2, <3>1 DEF IInv, RefsInv, Held
    <3>2. CASE pendingRefs'[d][i] = f
      BY <2>2, <3>2, <1>1, <1>7 DEF Settled, Turn, f, Msg
    <3> QED BY <1>8, <3>1, <3>2
  <2> QED BY <1>2, <2>1, <2>2 DEF IInv, RefsInv, Held, Settled
<1>10. OwnChat'
  BY <1>2, <1>8 DEF IInv, RefsInv, OwnChat, c
<1>11. Apart'
  <2>1. ASSUME NEW d \in Chats, NEW i \in DOMAIN pendingRefs'[d],
               NEW j \in DOMAIN pendingRefs'[d],
               pendingRefs'[d][i] = pendingRefs'[d][j]
        PROVE  i = j
    BY <2>1, <1>6, <1>8 DEF IInv, RefsInv, Apart
  <2>2. ASSUME NEW d \in Chats, NEW i \in DOMAIN pendingRefs'[d],
               NEW t \in Texts, NEW j \in DOMAIN refs[t]
        PROVE  pendingRefs'[d][i] # refs[t][j]
    BY <1>6, <1>8 DEF IInv, RefsInv, Apart
  <2> QED BY <1>2, <2>1, <2>2 DEF IInv, RefsInv, Apart
<1> QED BY <1>9, <1>10, <1>11 DEF RefsInv

LEMMA TaskInv ==
    ASSUME IInv, NEW n \in Tasks, Task(n)
    PROVE  IInv'
<1>1. CASE Admit(n)
  BY <1>1, AdmitTurn, WorkTypes, TurnTasks, TurnGot, TurnRefs DEF IInv
<1>2. CASE FetchFile(n) \/ Register(n) \/ Put(n) \/ Open(n) \/ Broadcast(n) \/ Sent(n)
  <2>1. /\ at[n] \notin Rest
        /\ UNCHANGED <<got, pendingRefs, refs>>
    BY <1>2 DEF FetchFile, Register, Put, Open, Broadcast, Sent, Rest, bridgeVars
  <2> QED BY <1>2, <2>1, WorkTurn, WorkTypes, TurnTasks, TurnGot, TurnRefs DEF IInv
<1>3. CASE takePendingRefs(n)
  <2>1. at[n] \notin Rest /\ got' = got
    BY <1>3 DEF takePendingRefs, Rest
  <2> QED BY <1>3, <2>1, WorkTurn, WorkTypes, TurnTasks, TurnGot, TakeRefs DEF IInv
<1>4. CASE addPendingRef(n)
  <2>1. at[n] \notin Rest /\ got' = got
    BY <1>4 DEF addPendingRef, Rest
  <2> QED BY <1>4, <2>1, WorkTurn, WorkTypes, TurnTasks, TurnGot, AddRef DEF IInv
<1>5. CASE \E s \in Sessions : SendTo(n, s)
  BY <1>5, SendInv
<1> QED BY <1>1, <1>2, <1>3, <1>4, <1>5 DEF Task

-----------------------------------------------------------------------------
\* What is not a task's.

LEMMA CallbackInv ==
    ASSUME IInv, NEW m \in Messages, Callback(m)
    PROVE  IInv'
<1>1. /\ UNCHANGED <<to, bridgeVars, session, got>>
      /\ arrived' \in Seq(Messages) /\ at' \in Seq(Steps)
      /\ Len(arrived') = Len(arrived) + 1 /\ Len(at') = Len(arrived')
      /\ Len(arrived') <= MaxTasks
      /\ \A n \in Tasks : arrived'[n] = arrived[n] /\ at'[n] = at[n]
      /\ at'[Len(arrived) + 1] = "dedup"
  BY DEF Callback, IInv, TypeOK, Tasks, Steps
<1>2. TypeOK'
  BY <1>1 DEF IInv, TypeOK, bridgeVars
<1>3. ASSUME NEW n \in Tasks'
      PROVE  \/ n \in Tasks /\ Msg(n)' = Msg(n) /\ at'[n] = at[n]
             \/ n \notin Tasks /\ at'[n] = "dedup"
  BY <1>1 DEF Tasks, Msg, IInv, TypeOK
<1>4. TasksInv'
  <2>1. OneTask'
    BY <1>1, <1>3 DEF IInv, TasksInv, OneTask, bridgeVars, Rest
  <2>2. ASSUME NEW n \in Tasks' PROVE Ready(n)'
    BY <1>1, <1>3 DEF IInv, TasksInv, Ready, bridgeVars, Rest
  <2> QED BY <2>1, <2>2 DEF TasksInv
<1>5. GotInv'
  <2>1. Told'
    <3> SUFFICES ASSUME NEW s \in Sessions, NEW j \in DOMAIN got[s],
                        got[s][j].type # "connected", NEW n \in Tasks',
                        Msg(n)' = got[s][j].msg
                 PROVE  Past(n, s)'
      BY <1>1 DEF IInv, GotInv, Told, bridgeVars
    <3>1. CASE n \in Tasks /\ Msg(n)' = Msg(n) /\ at'[n] = at[n]
      BY <3>1, <1>1 DEF IInv, GotInv, Told, Past
    <3>2. CASE at'[n] = "dedup"
      BY <3>2 DEF Past, Rest
    <3> QED BY <1>3, <3>1, <3>2
  <2> QED BY <2>1, <1>1 DEF IInv, GotInv, ToldOnce, AnswerFindsRun, bridgeVars
<1>6. \A f : Settled(f) => Settled(f)'
  BY <1>1, <1>3 DEF Settled, bridgeVars, Rest
<1>7. RefsInv'
  BY <1>1, <1>6 DEF IInv, RefsInv, Held, OwnChat, Apart, bridgeVars
<1> QED BY <1>2, <1>4, <1>5, <1>7 DEF IInv

LEMMA SessionInv ==
    ASSUME IInv, NEW s \in Sessions, Accept(s) \/ Greet(s) \/ Breaks(s) \/ Removed(s)
    PROVE  IInv'
<1>1. UNCHANGED <<taskVars, to, bridgeVars>>
  BY DEF Accept, Greet, Breaks, Removed
<1>2. /\ session' \in [Sessions -> {"none", "new", "greeted", "dead", "gone"}]
      /\ TypeOK
  BY DEF Accept, Greet, Breaks, Removed, IInv, TypeOK
<1>3. TasksInv' /\ RefsInv'
  BY <1>1 DEF IInv, TasksInv, RefsInv, OneTask, Ready, Held, Settled, OwnChat, Apart,
              taskVars, bridgeVars, Tasks, Msg
<1>4. CASE got' = got
  BY <1>1, <1>2, <1>3, <1>4 DEF IInv, TypeOK, GotInv, Told, ToldOnce, AnswerFindsRun,
              taskVars, bridgeVars, Tasks, Msg, Past
<1>5. CASE Greet(s)
  <2> DEFINE hello == [type |-> "connected"]
  <2>1. got \in [Sessions -> Seq(FrameSet)] /\ hello \in FrameSet
    BY <1>2 DEF TypeOK, FrameSet
  <2>2. got' = [got EXCEPT ![s] = Append(@, hello)]
    BY <1>5 DEF Greet
  <2>3. hello.type = "connected"
    OBVIOUS
  <2> HIDE DEF hello
  <2>4. got' \in [Sessions -> Seq(FrameSet)]
    BY <2>1, <2>2
  <2>5. ASSUME NEW r \in Sessions, NEW j \in DOMAIN got'[r],
               got'[r][j].type # "connected"
        PROVE  j \in DOMAIN got[r] /\ got'[r][j] = got[r][j]
    <3>1. CASE r = s
      <4>1. got[s] \in Seq(FrameSet) /\ got'[s] = Append(got[s], hello)
        BY <2>1, <2>2
      <4> QED BY <2>1, <2>3, <2>5, <3>1, <4>1
    <3>2. CASE r # s
      BY <2>1, <2>2, <3>2
    <3> QED BY <3>1, <3>2
  <2>6. TypeOK'
    BY <1>1, <1>2, <2>4 DEF TypeOK, taskVars, bridgeVars, FrameSet
  <2>7. GotInv'
    <3>1. Told'
      BY <1>1, <2>5 DEF IInv, GotInv, Told, taskVars, bridgeVars, Tasks, Msg, Past
    <3>2. ToldOnce'
      BY <2>5 DEF IInv, GotInv, ToldOnce
    <3>3. AnswerFindsRun'
      BY <1>1, <2>5 DEF IInv, GotInv, AnswerFindsRun, bridgeVars
    <3> QED BY <3>1, <3>2, <3>3 DEF GotInv
  <2> QED BY <1>3, <2>6, <2>7 DEF IInv
<1> QED BY <1>4, <1>5 DEF Accept, Breaks, Removed

-----------------------------------------------------------------------------
\* The order of uploads and questions, on top of IInv: when a question's
\* references are taken, their tasks are done and send nothing any more; and
\* nobody was told of the question yet.

QueryIsText == \A s \in Sessions : \A j \in DOMAIN got[s] :
                   got[s][j].type = "query" => got[s][j].msg \in Texts
OrderIInv == QueryIsText /\ UploadNotBehind

\* Steps that write to no session and take no references.
LEMMA OrderKept ==
    ASSUME OrderIInv, UNCHANGED <<got, refs>>
    PROVE  OrderIInv'
BY DEF OrderIInv, QueryIsText, UploadNotBehind, Values

\* What is written to a session is its last.
LEMMA Appended ==
    ASSUME IInv, NEW s \in Sessions, NEW frame \in FrameSet,
           got' = [got EXCEPT ![s] = Append(@, frame)],
           NEW r \in Sessions, NEW j \in DOMAIN got'[r]
    PROVE  /\ j \in Nat
           /\ \/ j \in DOMAIN got[r] /\ got'[r][j] = got[r][j]
              \/ /\ r = s /\ got'[r][j] = frame
                 /\ \A k \in DOMAIN got'[r] : k <= j
<1>1. got \in [Sessions -> Seq(FrameSet)]
  BY DEF IInv, TypeOK, FrameSet
<1>2. CASE r = s
  <2>1. got[s] \in Seq(FrameSet) /\ got'[s] = Append(got[s], frame)
    BY <1>1
  <2> QED BY <1>2, <2>1
<1>3. CASE r # s
  <2>1. got[r] \in Seq(FrameSet) /\ got'[r] = got[r]
    BY <1>1, <1>3
  <2> QED BY <2>1
<1> QED BY <1>2, <1>3

LEMMA OrderSend ==
    ASSUME IInv, OrderIInv, NEW n \in Tasks, NEW s \in Sessions, SendTo(n, s)
    PROVE  OrderIInv'
<1>1. refs' = refs
  BY DEF SendTo, bridgeVars
<1>2. CASE got' = got
  BY <1>1, <1>2, OrderKept
<1>3. CASE got' = [got EXCEPT ![s] = Append(@, Frame(n))]
  <2>1. /\ Frame(n) \in FrameSet /\ Frame(n).msg = Msg(n)
        /\ Frame(n).type = "query" => Msg(n) \in Texts
    BY MsgType DEF Frame, FrameSet, IInv, TasksInv, Ready, Rest, SendTo
  <2>2. \A t \in Texts : Msg(n) \notin Values(refs[t])
    BY DEF IInv, RefsInv, Held, Settled, SendTo, Rest, Values
  <2>3. ASSUME NEW r \in Sessions, NEW j \in DOMAIN got'[r]
        PROVE  /\ j \in Nat
               /\ \/ j \in DOMAIN got[r] /\ got'[r][j] = got[r][j]
                  \/ got'[r][j] = Frame(n) /\ \A k \in DOMAIN got'[r] : k <= j
    <3>1. PICK frame \in FrameSet : frame = Frame(n)
      BY <2>1
    <3>2. got' = [got EXCEPT ![s] = Append(@, frame)]
      BY <1>3, <3>1
    <3>3. /\ j \in Nat
          /\ \/ j \in DOMAIN got[r] /\ got'[r][j] = got[r][j]
             \/ got'[r][j] = frame /\ \A k \in DOMAIN got'[r] : k <= j
      <4>1. got \in [Sessions -> Seq(FrameSet)]
        BY DEF IInv, TypeOK, FrameSet
      <4>2. CASE r = s
        <5>1. got[s] \in Seq(FrameSet) /\ got'[s] = Append(got[s], frame)
          BY <4>1, <3>2
        <5>2. j \in DOMAIN got'[s]
          BY <2>3, <4>2
        <5> QED BY <4>2, <5>1, <5>2
      <4>3. CASE r # s
        <5>1. got[r] \in Seq(FrameSet) /\ got'[r] = got[r]
          BY <4>1, <4>3, <3>2
        <5>2. j \in DOMAIN got[r]
          BY <2>3, <5>1
        <5> QED BY <5>1, <5>2
      <4> QED BY <4>2, <4>3
    <3> QED BY <3>1, <3>3
  <2>4. QueryIsText'
    BY <2>1, <2>3 DEF OrderIInv, QueryIsText
  <2>5. UploadNotBehind'
    <3> SUFFICES ASSUME NEW r \in Sessions, NEW j \in DOMAIN got'[r],
                        NEW k \in DOMAIN got'[r],
                        got'[r][j].type = "query", got'[r][k].type = "upload", j < k
                 PROVE  got'[r][k].msg \notin Values(refs[got'[r][j].msg])
      BY <1>1 DEF UploadNotBehind, Values
    <3>1. j \in DOMAIN got[r] /\ got'[r][j] = got[r][j]
      BY <2>3
    <3>2. CASE k \in DOMAIN got[r] /\ got'[r][k] = got[r][k]
      BY <3>1, <3>2 DEF OrderIInv, UploadNotBehind
    <3>3. CASE got'[r][k] = Frame(n)
      BY <3>1, <3>3, <2>1, <2>2 DEF OrderIInv, QueryIsText
    <3> QED BY <2>3, <3>2, <3>3
  <2> QED BY <2>4, <2>5 DEF OrderIInv
<1> QED BY <1>2, <1>3 DEF SendTo

LEMMA OrderGreet ==
    ASSUME IInv, OrderIInv, NEW s \in Sessions, Greet(s)
    PROVE  OrderIInv'
<1> DEFINE hello == [type |-> "connected"]
<1>1. hello \in FrameSet /\ hello.type \notin {"query", "upload"}
  BY DEF FrameSet
<1>2. refs' = refs /\ got' = [got EXCEPT ![s] = Append(@, hello)]
  BY DEF Greet, bridgeVars
<1> HIDE DEF hello
<1>3. ASSUME NEW r \in Sessions, NEW j \in DOMAIN got'[r],
             got'[r][j].type \in {"query", "upload"}
      PROVE  j \in DOMAIN got[r] /\ got'[r][j] = got[r][j]
  BY <1>1, <1>2, <1>3, Appended
<1>4. QueryIsText'
  BY <1>3 DEF OrderIInv, QueryIsText
<1>5. UploadNotBehind'
  <2> SUFFICES ASSUME NEW r \in Sessions, NEW j \in DOMAIN got'[r],
                      NEW k \in DOMAIN got'[r],
                      got'[r][j].type = "query", got'[r][k].type = "upload", j < k
               PROVE  got'[r][k].msg \notin Values(refs'[got'[r][j].msg])
    BY DEF UploadNotBehind, Values
  <2> QED BY <1>2, <1>3 DEF OrderIInv, UploadNotBehind
<1> QED BY <1>4, <1>5 DEF OrderIInv

LEMMA OrderTake ==
    ASSUME IInv, OrderIInv, NEW n \in Tasks, takePendingRefs(n)
    PROVE  OrderIInv'
<1>1. /\ got' = got
      /\ \A t \in Texts : t # Msg(n) => refs'[t] = refs[t]
  BY DEF takePendingRefs, IInv, TypeOK
<1>2. \A s \in Sessions : \A j \in DOMAIN got[s] :
         got[s][j].type = "query" => got[s][j].msg # Msg(n)
  BY DEF IInv, GotInv, Told, Past, takePendingRefs, Rest
<1>3. QueryIsText'
  BY <1>1 DEF OrderIInv, QueryIsText
<1>4. UploadNotBehind'
  <2> SUFFICES ASSUME NEW r \in Sessions, NEW j \in DOMAIN got'[r],
                      NEW k \in DOMAIN got'[r],
                      got'[r][j].type = "query", got'[r][k].type = "upload", j < k
               PROVE  got'[r][k].msg \notin Values(refs'[got'[r][j].msg])
    BY DEF UploadNotBehind, Values
  <2>1. refs'[got[r][j].msg] = refs[got[r][j].msg]
    BY <1>1, <1>2 DEF OrderIInv, QueryIsText
  <2> QED BY <1>1, <2>1 DEF OrderIInv, UploadNotBehind
<1> QED BY <1>3, <1>4 DEF OrderIInv

LEMMA OrderNext == IInv /\ OrderIInv /\ [Next]_vars => OrderIInv'
<1> SUFFICES ASSUME IInv, OrderIInv, [Next]_vars PROVE OrderIInv'
  OBVIOUS
<1>1. CASE UNCHANGED vars
  BY <1>1, OrderKept DEF vars, bridgeVars
<1>2. ASSUME NEW m \in Messages, Callback(m) PROVE OrderIInv'
  BY <1>2, OrderKept DEF Callback, bridgeVars
<1>3. ASSUME NEW n \in Tasks, Task(n) PROVE OrderIInv'
  <2>1. CASE Admit(n) \/ FetchFile(n) \/ Register(n) \/ Put(n) \/ Open(n)
             \/ Broadcast(n) \/ Sent(n) \/ addPendingRef(n)
    BY <2>1, OrderKept DEF Admit, FetchFile, Register, Put, Open, Broadcast, Sent,
                           addPendingRef, bridgeVars
  <2> QED BY <1>3, <2>1, OrderTake, OrderSend DEF Task
<1>4. ASSUME NEW s \in Sessions, Accept(s) \/ Greet(s) \/ Breaks(s) \/ Removed(s)
      PROVE  OrderIInv'
  <2>1. CASE Accept(s) \/ Breaks(s) \/ Removed(s)
    BY <2>1, OrderKept DEF Accept, Breaks, Removed, bridgeVars
  <2> QED BY <1>4, <2>1, OrderGreet
<1> QED BY <1>1, <1>2, <1>3, <1>4 DEF Next

-----------------------------------------------------------------------------
LEMMA InitInv == Init => IInv
<1> SUFFICES ASSUME Init PROVE IInv
  OBVIOUS
<1>1. TypeOK
  BY DEF Init, TypeOK, InboundAssumption, Steps
<1>2. Tasks = {} /\ \A s \in Sessions : DOMAIN got[s] = {}
  BY DEF Init, Tasks
<1>3. /\ \A c \in Chats : DOMAIN pendingRefs[c] = {}
      /\ \A t \in Texts : DOMAIN refs[t] = {}
  BY DEF Init
<1> QED BY <1>1, <1>2, <1>3 DEF IInv, TasksInv, OneTask, GotInv, Told, ToldOnce,
           AnswerFindsRun, RefsInv, Held, OwnChat, Apart

LEMMA NextInv == IInv /\ [Next]_vars => IInv'
<1> SUFFICES ASSUME IInv, [Next]_vars PROVE IInv'
  OBVIOUS
<1>1. CASE UNCHANGED vars
  <2>1. TypeOK'
    BY <1>1 DEF vars, taskVars, bridgeVars, IInv, TypeOK
  <2>2. TasksInv'
    BY <1>1 DEF vars, taskVars, bridgeVars, IInv, TasksInv, OneTask, Ready, Tasks, Msg
  <2>3. GotInv'
    BY <1>1 DEF vars, taskVars, bridgeVars, IInv, GotInv, Told, ToldOnce, AnswerFindsRun,
                Tasks, Msg, Past
  <2>4. RefsInv'
    BY <1>1 DEF vars, taskVars, bridgeVars, IInv, RefsInv, Held, Settled, OwnChat, Apart,
                Tasks, Msg
  <2> QED BY <2>1, <2>2, <2>3, <2>4 DEF IInv
<1> QED BY <1>1, CallbackInv, TaskInv, SessionInv DEF Next

\* However messages are redelivered and overtake each other.
THEOREM Invariance == Spec => []IInv
BY InitInv, NextInv, PTL DEF Spec

\* Every variable of the inbound path keeps its type.
THEOREM TypeCorrect == Spec => []TypeOK
<1>1. IInv => TypeOK
  BY DEF IInv
<1> QED BY <1>1, Invariance, PTL

\* A session is told of a message once (bridge.go:192, dedup.go).
THEOREM TellsOnce == Spec => []ToldOnce
<1>1. IInv => ToldOnce
  BY DEF IInv, GotInv
<1> QED BY <1>1, Invariance, PTL

\* The run is open and the chat registered before the platform hears of it
\* (bridge.go:249-262, 353-372).
THEOREM AnswersFindRuns == Spec => []AnswerFindsRun
<1>1. IInv => AnswerFindsRun
  BY DEF IInv, GotInv
<1> QED BY <1>1, Invariance, PTL

\* A file's reference is in one place, of its own chat (bridge.go:160-181).
THEOREM RefsInOnePlace == Spec => []RefInOnePlace
<1>1. ASSUME IInv, NEW f \in Files, NEW h \in Holding(f)
      PROVE  HolderChat(h) = ChatOf[f]
  BY <1>1 DEF IInv, RefsInv, OwnChat, Holding, Holders, Refs, HolderChat
<1>2. ASSUME IInv, NEW f \in Files, NEW h \in Holding(f), NEW g \in Holding(f)
      PROVE  h = g
  <2>1. HolderChat(h) = HolderChat(g)
    BY <1>1, <1>2
  <2>2. h.kind = g.kind
    BY <1>2 DEF IInv, RefsInv, Apart, Holding, Holders, Refs
  <2>3. h.in = g.in /\ h.i = g.i
    BY <1>2, <2>1, <2>2 DEF IInv, RefsInv, Apart, Holding, Holders, Refs, HolderChat
  <2> QED BY <2>2, <2>3 DEF Holding, Holders
<1>3. IInv => RefInOnePlace
  BY <1>1, <1>2 DEF RefInOnePlace
<1> QED BY <1>3, Invariance, PTL

\* A question that carries a file is behind the file's upload
\* (bridge.go:174-181, 392-407).
THEOREM UploadsComeFirst == Spec => []UploadNotBehind
<1>1. Init => OrderIInv
  BY DEF Init, OrderIInv, QueryIsText, UploadNotBehind
<1>2. OrderIInv => UploadNotBehind
  BY DEF OrderIInv
<1> QED BY <1>1, <1>2, OrderNext, Invariance, PTL DEF Spec
=============================================================================
