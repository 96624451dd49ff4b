-------------------------- MODULE BotRoutingProofs --------------------------
(***************************************************************************)
(* Proofs about ChatIdFormatter and BotRouting: for every set of bots and  *)
(* scopes, every clock, every length of a second's count, and any number   *)
(* of restarts with any choice of bots.  In one process the numbers of new *)
(* ids increase, an id names its bot, and a bot's chat keeps its id.  Over *)
(* processes an id is new because the process began at a later second, and *)
(* its numbers start above all that second's predecessors have.            *)
(***************************************************************************)
EXTENDS BotRouting, TLAPS

\* Sequence numbers are natural numbers.
LEMMA SeqNat ==
    ASSUME NEW s \in Nat, NEW n \in 0 .. LastInSec
    PROVE  Seq(s, n) \in Nat
  <1>1. LastInSec + 1 \in Nat /\ n \in Nat
    BY FormatterAssumption
  <1>2. ASSUME NEW a \in Nat, NEW b \in Nat PROVE a * b \in Nat
    BY <1>2
  <1>3. s * (LastInSec + 1) \in Nat
    BY <1>1, <1>2
  <1> QED
    BY <1>1, <1>3 DEF Seq

\* Numbers of a later second are above those of an earlier one.
LEMMA SeqOrder ==
    ASSUME NEW s \in Nat, NEW t \in Nat, s < t, NEW n \in 0 .. LastInSec,
           NEW m \in 0 .. LastInSec
    PROVE  Seq(s, n) < Seq(t, m)
  <1> DEFINE K == LastInSec + 1
  <1>1. K \in Nat /\ n < K /\ n \in Nat /\ m \in Nat
    BY FormatterAssumption
  <1> HIDE DEF K
  <1>2. s * K + n < (s + 1) * K
    BY <1>1
  <1>3. (s + 1) * K <= t * K
    BY <1>1
  <1> QED
    BY <1>1, <1>2, <1>3 DEF Seq, K

\* nextSeqLocked keeps its counters in range and moves them up.
LEMMA AdvanceIncreases ==
    ASSUME TypeOK, NEW now \in Times, Advance(now)
    PROVE  /\ lastSec' \in Nat
           /\ inSec' \in 0 .. LastInSec
           /\ Seq(lastSec', inSec') \in Nat
           /\ Seq(lastSec, inSec) < Seq(lastSec', inSec')
  <1>1. lastSec \in Nat /\ inSec \in 0 .. LastInSec /\ now \in Nat /\ LastInSec \in Nat
    BY FormatterAssumption DEF TypeOK
  <1>2. lastSec' \in Nat /\ inSec' \in 0 .. LastInSec
    BY <1>1 DEF Advance
  <1>3. \/ lastSec < lastSec'
        \/ lastSec' = lastSec /\ inSec' = inSec + 1
    BY <1>1 DEF Advance
  <1>4. Seq(lastSec, inSec) < Seq(lastSec', inSec')
    <2>1. CASE lastSec < lastSec'
      BY <1>1, <1>2, <2>1, SeqOrder
    <2>2. CASE lastSec' = lastSec /\ inSec' = inSec + 1
      <3>1. lastSec * (LastInSec + 1) \in Nat
        BY <1>1
      <3> QED
        BY <1>1, <2>2, <3>1 DEF Seq
    <2> QED
      BY <1>3, <2>1, <2>2
  <1>5. Seq(lastSec', inSec') \in Nat
    BY <1>2, SeqNat
  <1> QED
    BY <1>2, <1>4, <1>5

\* A new id is one, and above everything that was issued.
LEMMA NewIdIsNew ==
    ASSUME IInv, NEW now \in Times, NEW scope \in Scopes, Advance(now)
    PROVE  /\ NewId(scope) \in Ids
           /\ NewId(scope).seq > top
           /\ NewId(scope).seq = Seq(lastSec', inSec')
           /\ NewId(scope) \notin DOMAIN ownerByChatID
           /\ NewId(scope) # NoId
  <1>1. /\ Seq(lastSec', inSec') \in Nat
        /\ Seq(lastSec, inSec) < Seq(lastSec', inSec')
        /\ top <= Seq(lastSec, inSec) /\ top \in Int
        /\ lastSec \in Nat /\ inSec \in Nat
    BY AdvanceIncreases, FormatterAssumption DEF IInv, TypeOK, Bounded
  <1>2. Seq(lastSec, inSec) \in Nat
    BY SeqNat DEF IInv, TypeOK
  <1>3. NewId(scope) \in Ids /\ NewId(scope).seq = Seq(lastSec', inSec')
    BY <1>1 DEF NewId, Ids
  <1>4. NewId(scope).seq > top
    BY <1>1, <1>2, <1>3
  <1>5. NewId(scope) \notin DOMAIN ownerByChatID
    <2> SUFFICES ASSUME NewId(scope) \in DOMAIN ownerByChatID PROVE FALSE
      OBVIOUS
    <2>1. NewId(scope).seq <= top
      BY DEF IInv, Bounded
    <2> QED
      BY <1>1, <1>3, <1>4, <2>1
  <1>6. NewId(scope) # NoId
    BY <1>3, FormatterAssumption DEF Ids
  <1> QED
    BY <1>3, <1>4, <1>5, <1>6

LEMMA InitInv == Init => IInv
  <1> SUFFICES ASSUME Init PROVE IInv
    OBVIOUS
  <1>1. TypeOK /\ OwnerIsKnown
    BY FormatterAssumption DEF Init, TypeOK, OwnerIsKnown, Keys
  <1>2. Bounded
    BY FormatterAssumption DEF Init, Bounded, Seq
  <1> QED
    BY <1>1, <1>2 DEF IInv

LEMMA FormatInv ==
    ASSUME IInv, NEW now \in Times, NEW scope \in Scopes, Format(scope, now)
    PROVE  IInv'
  <1>1. Advance(now) /\ top' = NewId(scope).seq /\ UNCHANGED <<cache, ownerByChatID>>
    BY DEF Format
  <1>2. /\ NewId(scope).seq > top /\ NewId(scope).seq = Seq(lastSec', inSec')
        /\ lastSec' \in Nat /\ inSec' \in 0 .. LastInSec
        /\ Seq(lastSec', inSec') \in Nat
    BY <1>1, NewIdIsNew, AdvanceIncreases DEF IInv
  <1>3. TypeOK'
    BY <1>1, <1>2 DEF IInv, TypeOK
  <1>4. Bounded'
    BY <1>1, <1>2 DEF IInv, TypeOK, Bounded, Ids, Seq
  <1>5. OwnerIsKnown'
    BY <1>1 DEF IInv, OwnerIsKnown
  <1> QED
    BY <1>3, <1>4, <1>5 DEF IInv

LEMMA CreateInv ==
    ASSUME IInv, NEW now \in Times, NEW scope \in Scopes, NEW app \in AppKeys,
           Create(app, scope, now)
    PROVE  IInv'
  <1> DEFINE id == NewId(scope)
             k0 == <<app, scope>>
  <1>1. /\ Advance(now) /\ top' = id.seq
        /\ cache' = [cache EXCEPT ![k0] = id]
        /\ ownerByChatID' = [i \in DOMAIN ownerByChatID \cup {id} |->
                               IF i = id THEN app ELSE ownerByChatID[i]]
        /\ k0 \in Keys
    BY DEF Create, Keys
  <1>2. /\ id \in Ids /\ id.seq > top /\ id.seq = Seq(lastSec', inSec')
        /\ id \notin DOMAIN ownerByChatID /\ id # NoId
        /\ lastSec' \in Nat /\ inSec' \in 0 .. LastInSec
        /\ Seq(lastSec', inSec') \in Nat
    BY <1>1, NewIdIsNew, AdvanceIncreases DEF IInv
  <1> HIDE DEF id, k0
  <1>3. TypeOK'
    BY <1>1, <1>2 DEF IInv, TypeOK
  <1>4. Bounded'
    <2>1. ASSUME NEW i \in DOMAIN ownerByChatID' PROVE i.seq <= top'
      <3>1. CASE i = id
        BY <1>1, <1>2, <3>1
      <3>2. CASE i # id
        <4>1. i \in DOMAIN ownerByChatID
          BY <1>1, <3>2
        <4>2. i.seq \in Nat /\ i.seq <= top
          BY <4>1 DEF IInv, TypeOK, Bounded, Ids
        <4> QED
          BY <1>1, <1>2, <4>2 DEF IInv, TypeOK
      <3> QED
        BY <3>1, <3>2
    <2>2. top' <= Seq(lastSec', inSec')
      BY <1>1, <1>2
    <2> QED
      BY <2>1, <2>2 DEF Bounded, Seq
  <1>5. OwnerIsKnown'
    <2> SUFFICES ASSUME NEW k \in Keys, cache'[k] # NoId
                 PROVE  /\ cache'[k] \in DOMAIN ownerByChatID'
                        /\ ownerByChatID'[cache'[k]] = k[1]
      BY DEF OwnerIsKnown
    <2>1. CASE k = k0
      BY <1>1, <2>1 DEF IInv, TypeOK, k0
    <2>2. CASE k # k0
      <3>1. cache'[k] = cache[k]
        BY <1>1, <2>2 DEF IInv, TypeOK
      <3>2. cache[k] \in DOMAIN ownerByChatID /\ ownerByChatID[cache[k]] = k[1]
        BY <3>1 DEF IInv, OwnerIsKnown
      <3> QED
        BY <1>1, <1>2, <3>1, <3>2
    <2> QED
      BY <2>1, <2>2
  <1> QED
    BY <1>3, <1>4, <1>5 DEF IInv

LEMMA NextInv == IInv /\ [Next]_vars => IInv'
  <1>1. ASSUME IInv, UNCHANGED vars PROVE IInv'
    BY <1>1 DEF vars, IInv, TypeOK, Bounded, OwnerIsKnown, Seq
  <1>2. ASSUME Restart PROVE IInv'
    <2>1. (Init => IInv)'
      BY InitInv, PTL
    <2>2. Init'
      BY <1>2 DEF Restart, Init
    <2> QED
      BY <2>1, <2>2
  <1> QED
    BY <1>1, <1>2, FormatInv, CreateInv DEF Next

-----------------------------------------------------------------------------
\* The formatter's state is well formed, and its counters stay above every
\* number it has given out.
THEOREM Invariance == Spec => []IInv
  BY InitInv, NextInv, PTL DEF Spec

\* The counters and tables of the Formatter keep their types; inSec never
\* leaves 0..999 (chatid.go:47).
THEOREM TypeCorrect == Spec => []TypeOK
  <1>1. IInv => TypeOK
    BY DEF IInv
  <1> QED
    BY <1>1, Invariance, PTL

\* A chatId in the cache names the bot it was made for, so an outbound
\* message finds the right client (chatid.go:51-53).
THEOREM OwnerCorrect == Spec => []OwnerIsKnown
  <1>1. IInv => OwnerIsKnown
    BY DEF IInv
  <1> QED
    BY <1>1, Invariance, PTL

\* Every new id has a greater number than all before it, for any sequence
\* of clock readings and any number of ids a second (chatid.go:114-128).
THEOREM StrictlyIncreasing == Spec => SeqIncreases
  <1>1. ASSUME IInv, NEW scope \in Scopes, NEW now \in Times,
               Format(scope, now) \/ \E app \in AppKeys : Create(app, scope, now)
        PROVE  NewId(scope).seq > top
    <2>1. Advance(now)
      BY <1>1 DEF Format, Create
    <2> QED
      BY <1>1, <2>1, NewIdIsNew
  <1>2. IInv => [\A scope \in Scopes, now \in Times :
                    \/ Format(scope, now)
                    \/ \E app \in AppKeys : Create(app, scope, now)
                  => NewId(scope).seq > top]_vars
    BY <1>1
  <1> QED
    BY <1>2, Invariance, PTL DEF SeqIncreases

\* A chat keeps its id while the process lives.
THEOREM Stable == Spec => IdsAreStable
  <1>1. ASSUME IInv, [Next]_vars, ~Restart, NEW k \in Keys, cache[k] # NoId
        PROVE  cache'[k] = cache[k]
    <2>1. CASE UNCHANGED vars
      BY <2>1 DEF vars
    <2>2. ASSUME NEW scope \in Scopes, NEW now \in Times, Format(scope, now)
          PROVE  cache'[k] = cache[k]
      BY <2>2 DEF Format
    <2>3. ASSUME NEW scope \in Scopes, NEW now \in Times, NEW app \in AppKeys,
                 Create(app, scope, now)
          PROVE  cache'[k] = cache[k]
      BY <1>1, <2>3 DEF Create, IInv, TypeOK, Keys
    <2> QED
      BY <1>1, <2>1, <2>2, <2>3 DEF Next
  <1>2. IInv /\ [Next]_vars
          => [\/ Restart
              \/ \A k \in Keys : cache[k] # NoId => cache'[k] = cache[k]]_vars
    BY <1>1
  <1> QED
    BY <1>2, Invariance, PTL DEF Spec, IdsAreStable

-----------------------------------------------------------------------------
\* BotRouting.

\* A configured bot is routed to itself.
LEMMA OwnBot == ASSUME NEW app \in bots PROVE botFor(app) = app
BY DEF botFor

\* Drawing a number moves the process to the second of the reading or past
\* it, and never back.
LEMMA AdvanceIsLater ==
    ASSUME TypeOK, NEW now \in Times, Advance(now)
    PROVE  lastSec' \in Nat /\ lastSec' >= now /\ lastSec' >= lastSec
BY FormatterAssumption DEF TypeOK, Advance

\* Whatever is dated stays so when past moves on.
LEMMA DatesStay ==
    ASSUME NEW p \in Int, NEW q \in Int, -1 <= p, p <= q, NEW n \in Int,
           n < Seq(p + 1, 0)
    PROVE  n < Seq(q + 1, 0)
<1>1. LastInSec + 1 \in Nat
  BY FormatterAssumption
<1>2. CASE p = q
  BY <1>2
<1>3. CASE p < q
  <2>1. Seq(p + 1, 0) < Seq(q + 1, 0)
    BY <1>3, SeqOrder, FormatterAssumption
  <2>2. Seq(p + 1, 0) \in Nat /\ Seq(q + 1, 0) \in Nat
    BY SeqNat, FormatterAssumption
  <2> QED BY <2>1, <2>2
<1> QED BY <1>2, <1>3

-----------------------------------------------------------------------------
LEMMA RoutingInitIInv == RoutingInit => RoutingIInv
<1> SUFFICES ASSUME RoutingInit PROVE RoutingIInv
  OBVIOUS
<1>1. IInv /\ TypeOK
  BY InitInv DEF RoutingInit, IInv
<1>2. RoutingTypeOK
  <2>1. DOMAIN target = {} /\ DOMAIN home = {}
    BY DEF RoutingInit
  <2>2. lives \in Nat /\ past \in Int /\ back \in BOOLEAN /\ bots \subseteq AppKeys
    <3>1. lives = 1 /\ past = -1 /\ back = FALSE /\ bots \in SUBSET AppKeys
      BY DEF RoutingInit
    <3>2. back \in BOOLEAN
      BY <3>1
    <3>3. past \in Int /\ lives \in Nat
      BY <3>1
    <3> QED BY <3>1, <3>2, <3>3
  <2>3. handledChats \subseteq AppKeys \X Ids
    BY DEF RoutingInit
  <2> QED BY <1>1, <2>1, <2>2, <2>3 DEF RoutingTypeOK
<1>3. Registered /\ Streamed /\ Dated /\ AtHome
  BY DEF RoutingInit, Init, Registered, Streamed, Dated, AtHome
<1> QED BY <1>1, <1>2, <1>3 DEF RoutingIInv

\* What every number drawn in this process means for Dated.
LEMMA DrawsDated ==
    ASSUME RoutingIInv, NEW now \in Times, NEW scope \in Scopes,
           Advance(now), Draws(now), top' = NewId(scope).seq, past' = past
    PROVE  /\ top' \in Nat /\ top' > top
           /\ top' # -1 => back' \/ lastSec' > past'
           /\ past' >= -1
           /\ back => back'
           /\ back' \/ top' >= Seq(past + 1, 0)
<1>1. TypeOK /\ IInv /\ past \in Int /\ past >= -1 /\ back \in BOOLEAN /\ top \in Int
  BY DEF RoutingIInv, RoutingTypeOK, Dated, TypeOK
<1>2. lastSec' \in Nat /\ lastSec' >= now /\ lastSec' >= lastSec /\ inSec' \in 0 .. LastInSec
  BY <1>1, AdvanceIsLater, AdvanceIncreases
<1>3. top' = Seq(lastSec', inSec') /\ top' \in Nat /\ top' > top
  BY <1>1, NewIdIsNew, AdvanceIncreases
<1>4. back => back'
  BY <1>1 DEF Draws
<1>5. back' \/ lastSec' > past
  <2>1. CASE top = -1
    <3>1. now <= past => back'
      BY <2>1 DEF Draws
    <3>2. now \in Nat
      BY FormatterAssumption
    <3> QED BY <1>1, <1>2, <3>1, <3>2
  <2>2. CASE top # -1
    <3>1. back \/ lastSec > past
      BY <2>2 DEF RoutingIInv, Dated
    <3>2. lastSec \in Nat
      BY <1>1 DEF TypeOK
    <3> QED BY <1>1, <1>2, <1>4, <3>1, <3>2
  <2> QED BY <2>1, <2>2
<1>6. ASSUME lastSec' > past PROVE Seq(lastSec', inSec') >= Seq(past + 1, 0)
  <2>1. past + 1 \in Nat /\ past + 1 <= lastSec' /\ 0 \in 0 .. LastInSec
    BY <1>1, <1>2, <1>6, FormatterAssumption
  <2>2. Seq(past + 1, 0) \in Nat /\ Seq(lastSec', inSec') \in Nat
    BY <1>2, <2>1, SeqNat
  <2>3. CASE past + 1 < lastSec'
    BY <1>2, <2>1, <2>2, <2>3, SeqOrder
  <2>4. CASE past + 1 = lastSec'
    BY <1>2, <2>2, <2>4, FormatterAssumption DEF Seq
  <2> QED BY <1>2, <2>1, <2>3, <2>4
<1> QED BY <1>1, <1>3, <1>4, <1>5, <1>6

\* A message of a chat that has no id in this process.
LEMMA NewChatIInv ==
    ASSUME RoutingIInv, NEW app \in AppKeys, NEW scope \in Scopes, NEW now \in Times,
           Message(app, scope, now), Create(app, scope, now), Draws(now)
    PROVE  RoutingIInv'
<1> DEFINE id == NewId(scope)
<1>1. /\ Advance(now) /\ top' = id.seq
      /\ cache'[<<app, scope>>] = id
      /\ ownerByChatID' = [i \in DOMAIN ownerByChatID \cup {id} |->
                             IF i = id THEN app ELSE ownerByChatID[i]]
  BY DEF Create, RoutingIInv, IInv, TypeOK, Keys
<1>2. /\ app \in bots
      /\ target' = [i \in DOMAIN target \cup {id} |-> IF i = id THEN app ELSE target[i]]
      /\ home' = [i \in DOMAIN home \cup {id} |-> IF i \in DOMAIN home THEN home[i] ELSE app]
      /\ UNCHANGED <<bots, handledChats, lives, past>>
  BY <1>1 DEF Message
<1>3. /\ IInv /\ RoutingTypeOK /\ Registered /\ Streamed /\ Dated /\ AtHome
  BY DEF RoutingIInv
<1>4. IInv' /\ TypeOK'
  BY <1>3, CreateInv DEF IInv
<1>5. id \in Ids /\ id \notin DOMAIN ownerByChatID /\ id.seq \in Nat
  BY <1>1, <1>3, NewIdIsNew DEF Ids
<1>6. /\ top' \in Nat /\ top' > top /\ past' >= -1
      /\ top' # -1 => back' \/ lastSec' > past'
      /\ back => back'
      /\ back' \/ top' >= Seq(past + 1, 0)
  BY <1>1, <1>2, DrawsDated
<1>7. top \in Int /\ past \in Int /\ back \in BOOLEAN
  BY <1>3 DEF RoutingTypeOK, TypeOK
<1> HIDE DEF id
<1>8. RoutingTypeOK'
  <2>1. back' \in BOOLEAN
    BY <1>7 DEF Draws
  <2> QED BY <1>2, <1>3, <1>4, <1>5, <2>1 DEF RoutingTypeOK
<1>9. Registered'
  BY <1>1, <1>2, <1>3 DEF Registered
<1>10. Streamed'
  BY <1>1, <1>2, <1>3, <1>5 DEF Streamed
<1>11. Dated'
  <2>1. ASSUME NEW i \in DOMAIN target'
        PROVE  i.seq <= top' \/ i.seq < Seq(past' + 1, 0)
    <3>1. CASE i = id
      BY <1>1, <1>6, <3>1
    <3>2. CASE i # id
      <4>1. i \in DOMAIN target /\ i.seq \in Nat
        BY <1>2, <1>3, <3>2 DEF RoutingTypeOK, Ids
      <4>2. i.seq <= top \/ i.seq < Seq(past + 1, 0)
        BY <1>3, <4>1 DEF Dated
      <4> QED BY <1>2, <1>6, <1>7, <4>1, <4>2
    <3> QED BY <3>1, <3>2
  <2> QED BY <1>2, <1>6, <2>1 DEF Dated, Seq
<1>12. AtHome'
  <2> SUFFICES ASSUME ~back', NEW i \in DOMAIN target' PROVE home'[i] = target'[i]
    BY DEF AtHome
  <2>1. id \notin DOMAIN target
    <3> SUFFICES ASSUME id \in DOMAIN target PROVE FALSE
      OBVIOUS
    <3>1. id.seq <= top \/ id.seq < Seq(past + 1, 0)
      BY <1>3 DEF Dated
    <3>2. Seq(past + 1, 0) \in Nat
      BY <1>3, <1>7, SeqNat, FormatterAssumption DEF Dated
    <3> QED BY <1>1, <1>5, <1>6, <1>7, <3>1, <3>2
  <2>2. DOMAIN home = DOMAIN target /\ ~back
    BY <1>3, <1>6 DEF RoutingTypeOK
  <2>3. CASE i = id
    BY <1>2, <2>1, <2>2, <2>3
  <2>4. CASE i # id
    BY <1>2, <1>3, <2>2, <2>4 DEF AtHome
  <2> QED BY <2>3, <2>4
<1> QED BY <1>4, <1>8, <1>9, <1>10, <1>11, <1>12 DEF RoutingIInv

\* A message of a chat that has one: the Registry says so already.
LEMMA KnownChatIInv ==
    ASSUME RoutingIInv, NEW app \in AppKeys, NEW scope \in Scopes, NEW now \in Times,
           Message(app, scope, now), cache[<<app, scope>>] # NoId, UNCHANGED <<vars, back>>
    PROVE  RoutingIInv'
<1> DEFINE id == cache[<<app, scope>>]
<1>1. id \in DOMAIN ownerByChatID /\ ownerByChatID[id] = app /\ cache' = cache
  BY DEF RoutingIInv, IInv, OwnerIsKnown, Keys, vars
<1>2. id \in DOMAIN target /\ target[id] = app /\ DOMAIN home = DOMAIN target
  BY <1>1 DEF RoutingIInv, Registered, RoutingTypeOK
<1>3. /\ DOMAIN target' = DOMAIN target /\ \A i \in DOMAIN target : target'[i] = target[i]
      /\ DOMAIN home' = DOMAIN home /\ \A i \in DOMAIN home : home'[i] = home[i]
  BY <1>1, <1>2 DEF Message
<1>4. UNCHANGED <<vars, back, bots, handledChats, lives, past>>
  BY DEF Message
<1>5. IInv' /\ TypeOK'
  BY <1>4, NextInv DEF RoutingIInv, IInv
<1>6. RoutingTypeOK'
  BY <1>2, <1>3, <1>4, <1>5 DEF RoutingIInv, RoutingTypeOK
<1>7. Registered' /\ Streamed'
  BY <1>3, <1>4 DEF RoutingIInv, Registered, Streamed, vars
<1>8. Dated' /\ AtHome'
  BY <1>2, <1>3, <1>4 DEF RoutingIInv, Dated, AtHome, vars, Seq
<1> QED BY <1>5, <1>6, <1>7, <1>8 DEF RoutingIInv

LEMMA ReserveIInv ==
    ASSUME RoutingIInv, NEW scope \in Scopes, NEW now \in Times, Reserve(scope, now)
    PROVE  RoutingIInv'
<1>1. /\ Advance(now) /\ Draws(now) /\ top' = NewId(scope).seq
      /\ UNCHANGED <<cache, ownerByChatID, bots, target, handledChats, lives, home, past>>
  BY DEF Reserve, Format
<1>2. /\ top' \in Nat /\ top' > top /\ past' >= -1
      /\ top' # -1 => back' \/ lastSec' > past'
      /\ back => back'
  BY <1>1, DrawsDated
<1>3. IInv' /\ TypeOK'
  BY FormatInv DEF Reserve, RoutingIInv, IInv
<1>4. back' \in BOOLEAN
  BY <1>1 DEF Draws, RoutingIInv, RoutingTypeOK
<1>5. RoutingTypeOK' /\ Registered' /\ Streamed' /\ AtHome'
  BY <1>1, <1>2, <1>3, <1>4
     DEF RoutingIInv, RoutingTypeOK, Registered, Streamed, AtHome
<1>6. Dated'
  <2>1. ASSUME NEW i \in DOMAIN target
        PROVE  i.seq <= top' \/ i.seq < Seq(past + 1, 0)
    <3>1. i.seq \in Nat /\ top \in Int
      BY DEF RoutingIInv, RoutingTypeOK, Ids, TypeOK
    <3>2. i.seq <= top \/ i.seq < Seq(past + 1, 0)
      BY DEF RoutingIInv, Dated
    <3> QED BY <1>2, <3>1, <3>2
  <2> QED BY <1>1, <1>2, <2>1 DEF Dated, Seq
<1> QED BY <1>3, <1>5, <1>6 DEF RoutingIInv

\* A stream marks the chat of its own bot.
LEMMA StreamsIInv ==
    ASSUME RoutingIInv, NEW app \in AppKeys, NEW scope \in Scopes, Streams(app, scope)
    PROVE  RoutingIInv'
<1> DEFINE id == cache[<<app, scope>>]
<1>1. id \in DOMAIN ownerByChatID /\ ownerByChatID[id] = app /\ id \in Ids
  BY DEF Streams, RoutingIInv, IInv, TypeOK, OwnerIsKnown, Keys
<1>2. botFor(app) = app
  BY <1>1, OwnBot DEF RoutingIInv, Registered
<1>3. /\ handledChats' = handledChats \cup {<<app, id>>}
      /\ UNCHANGED <<vars, bots, target, lives, home, past, back>>
  BY <1>2 DEF Streams
<1>4. IInv' /\ TypeOK'
  BY <1>3, NextInv DEF RoutingIInv, IInv
<1>5. Streamed'
  BY <1>1, <1>3 DEF RoutingIInv, Streamed, vars
<1> HIDE DEF id
<1>6. RoutingTypeOK' /\ Registered' /\ Dated' /\ AtHome'
  BY <1>1, <1>3, <1>4 DEF RoutingIInv, RoutingTypeOK, Registered, Dated, AtHome, vars, Seq
<1> QED BY <1>4, <1>5, <1>6 DEF RoutingIInv

LEMMA ChatUpdatedIInv ==
    ASSUME RoutingIInv, NEW id \in DOMAIN target, ChatUpdated(id)
    PROVE  RoutingIInv'
<1>1. /\ handledChats' \subseteq handledChats
      /\ UNCHANGED <<vars, bots, target, lives, home, past, back>>
  BY DEF ChatUpdated
<1>2. IInv' /\ TypeOK'
  BY <1>1, NextInv DEF RoutingIInv, IInv
<1>3. RoutingTypeOK' /\ Registered' /\ Streamed' /\ Dated' /\ AtHome'
  BY <1>1, <1>2
     DEF RoutingIInv, RoutingTypeOK, Registered, Streamed, Dated, AtHome, vars, Seq
<1> QED BY <1>2, <1>3 DEF RoutingIInv

\* A restart: what this process has issued now lies in the past.
LEMMA RebootIInv == ASSUME RoutingIInv, Reboot PROVE RoutingIInv'
<1>1. IInv' /\ TypeOK'
  BY NextInv DEF Reboot, Next, RoutingIInv, IInv
<1>2. /\ lastSec \in Nat /\ inSec \in 0 .. LastInSec /\ top \in Int /\ past \in Int
      /\ past >= -1 /\ top <= Seq(lastSec, inSec)
  BY DEF RoutingIInv, IInv, TypeOK, Bounded, RoutingTypeOK, Dated
<1>3. past' \in Int /\ past' >= past /\ past' >= -1 /\ (top # -1 => past' >= lastSec)
  BY <1>2 DEF Reboot
<1>4. RoutingTypeOK'
  BY <1>1, <1>3 DEF Reboot, RoutingIInv, RoutingTypeOK
<1>5. Registered' /\ Streamed' /\ AtHome'
  BY DEF Reboot, Restart, RoutingIInv, Registered, Streamed, AtHome
<1>6. ASSUME NEW i \in DOMAIN target PROVE i.seq < Seq(past' + 1, 0)
  <2>1. i.seq \in Nat
    BY DEF RoutingIInv, RoutingTypeOK, Ids
  <2>2. CASE i.seq < Seq(past + 1, 0)
    BY <1>2, <1>3, <2>1, <2>2, DatesStay
  <2>3. CASE i.seq <= top
    <3>1. Seq(lastSec, inSec) \in Nat /\ Seq(lastSec + 1, 0) \in Nat /\ 0 \in 0 .. LastInSec
      BY <1>2, SeqNat, FormatterAssumption
    <3>2. Seq(lastSec, inSec) < Seq(lastSec + 1, 0)
      BY <1>2, <3>1, SeqOrder
    <3>3. i.seq < Seq(lastSec + 1, 0)
      BY <1>2, <2>1, <2>3, <3>1, <3>2
    <3>4. lastSec <= past'
      BY <1>2, <1>3, <2>1, <2>3
    <3> QED BY <1>2, <1>3, <2>1, <3>3, <3>4, DatesStay
  <2> QED BY <2>2, <2>3 DEF RoutingIInv, Dated
<1>7. Dated'
  BY <1>3, <1>6 DEF Reboot, Restart, Dated, Seq
<1> QED BY <1>1, <1>4, <1>5, <1>7 DEF RoutingIInv

LEMMA RoutingNextIInv == RoutingIInv /\ [RoutingNext]_routingVars => RoutingIInv'
<1> SUFFICES ASSUME RoutingIInv, [RoutingNext]_routingVars PROVE RoutingIInv'
  OBVIOUS
<1>1. ASSUME NEW app \in AppKeys, NEW scope \in Scopes, NEW now \in Times,
             Message(app, scope, now)
      PROVE  RoutingIInv'
  BY <1>1, NewChatIInv, KnownChatIInv DEF Message
<1>2. CASE UNCHANGED routingVars
  <2>1. IInv' /\ TypeOK'
    BY <1>2, NextInv DEF RoutingIInv, IInv, routingVars
  <2> QED BY <1>2, <2>1 DEF RoutingIInv, RoutingTypeOK, Registered, Streamed, Dated,
                            AtHome, routingVars, vars, Seq
<1> QED BY <1>1, <1>2, ReserveIInv, StreamsIInv, ChatUpdatedIInv, RebootIInv
        DEF RoutingNext

-----------------------------------------------------------------------------
\* The inductive invariant is one.
THEOREM RoutingInvariance == RoutingSpec => []RoutingIInv
BY RoutingInitIInv, RoutingNextIInv, PTL DEF RoutingSpec

\* The tables of the routing keep their types (bridge.go:67-109).
THEOREM RoutingTypeCorrect == RoutingSpec => []RoutingTypeOK
<1>1. RoutingIInv => RoutingTypeOK
  BY DEF RoutingIInv
<1> QED BY <1>1, RoutingInvariance, PTL

\* Over any number of restarts an answer goes out on the bot that was asked,
\* if that bot is configured and no process began at a second that an
\* earlier one had used (bridge.go:112-130, chatid.go:114-128).
THEOREM Homeward == RoutingSpec => []AnswersGoHome
<1>1. RoutingIInv => AnswersGoHome
  BY OwnBot DEF RoutingIInv, AtHome, AnswersGoHome
<1> QED BY <1>1, RoutingInvariance, PTL

\* The fallback asks the StreamSender that has streamed, whatever the clock
\* does (bridge.go:260, 509).
THEOREM FlagFound == RoutingSpec => []FlagIsFound
<1>1. ASSUME RoutingIInv, NEW f \in handledChats
      PROVE  f[2] \in DOMAIN target /\ botFor(target[f[2]]) = f[1]
  <2>1. f[2] \in DOMAIN target /\ target[f[2]] = f[1] /\ target[f[2]] \in bots
    BY <1>1 DEF RoutingIInv, Streamed, Registered
  <2> QED BY <2>1, OwnBot
<1>2. RoutingIInv => FlagIsFound
  BY <1>1 DEF FlagIsFound
<1> QED BY <1>2, RoutingInvariance, PTL

\* Every step of the routing is one of the formatter, or none to it.
LEMMA RoutingStep == [RoutingNext]_routingVars => [Next]_vars
<1> SUFFICES ASSUME [RoutingNext]_routingVars PROVE [Next]_vars
  OBVIOUS
<1>1. CASE \E app \in AppKeys, scope \in Scopes, now \in Times : Message(app, scope, now)
  BY <1>1 DEF Message, Next
<1>2. CASE \E app \in AppKeys, scope \in Scopes : Streams(app, scope)
  BY <1>2 DEF Streams
<1>3. CASE \E scope \in Scopes, now \in Times : Reserve(scope, now)
  BY <1>3 DEF Reserve, Next
<1>4. CASE \E id \in DOMAIN target : ChatUpdated(id)
  BY <1>4 DEF ChatUpdated
<1>5. CASE Reboot
  BY <1>5 DEF Reboot, Next
<1>6. CASE UNCHANGED routingVars
  BY <1>6 DEF routingVars
<1> QED
  BY <1>1, <1>2, <1>3, <1>4, <1>5, <1>6 DEF RoutingNext

\* What bridge.go and main.go do to the Formatter is what chatid.go allows:
\* messages, reservations and restarts are steps of its specification.
THEOREM RoutesByFormatter == RoutingSpec => Spec
<1>1. RoutingInit => Init
  BY DEF RoutingInit
<1> QED
  BY <1>1, RoutingStep, PTL DEF RoutingSpec, Spec

\* In the routing, too, every new id is above all of this process's, and a
\* bot's chat keeps its id until the process ends.
THEOREM RoutedIdsIncrease == RoutingSpec => SeqIncreases
BY RoutesByFormatter, StrictlyIncreasing

THEOREM RoutedIdsAreStable == RoutingSpec => IdsAreStable
BY RoutesByFormatter, Stable
=============================================================================
