--------------------------- MODULE ChatIdFormatter ---------------------------
(***************************************************************************)
(* internal/protocol/chatid.go: the Formatter that gives every (bot, chat  *)
(* type, source) its chatId.  An id is the scope (chat type and source)    *)
(* and a sequence number; the bot is not part of it, so that two bots in   *)
(* one group have different ids is up to the sequence number alone.        *)
(*                                                                         *)
(* Every call brings the clock reading its caller took before it had the   *)
(* mutex, so readings arrive in any order.  The key                        *)
(* appKey|chatType|sourceId is the pair of bot and scope (app keys hold no *)
(* '|'), the base-36 text is the number it denotes.                        *)
(***************************************************************************)
EXTENDS Integers

CONSTANTS AppKeys,    \* bots, "" already normalised to "default"
          Scopes,     \* chat type and source ID
          NoId,       \* a key that is not in the cache
          Times,      \* bound: clock readings, in seconds
          LastInSec,  \* 999: the last sequence number of a second
          MaxSec      \* bound: how far lastSec may run ahead

ASSUME FormatterAssumption == /\ Times \subseteq Nat
                              /\ LastInSec \in Nat
                              /\ MaxSec \in Nat
                              /\ NoId \notin [scope : Scopes, seq : Nat]

VARIABLES lastSec, inSec,
          cache,          \* (bot, scope) -> chatId
          ownerByChatID,  \* chatId -> bot
          top             \* history: the highest number this process issued, -1 at first

vars == <<lastSec, inSec, cache, ownerByChatID, top>>

Keys == AppKeys \X Scopes
Ids == [scope : Scopes, seq : Nat]

-----------------------------------------------------------------------------
\* nextSeqLocked: a later second starts at 0; the same second or an earlier
\* one counts on, and after LastInSec borrows the next second.
Seq(sec, n) == sec * (LastInSec + 1) + n

\* Mutant: a reading below lastSec is taken at its word.
AdvanceTrustingClock(now) ==
    IF now = lastSec
    THEN IF inSec + 1 > LastInSec
         THEN lastSec' = lastSec + 1 /\ inSec' = 0
         ELSE lastSec' = lastSec /\ inSec' = inSec + 1
    ELSE lastSec' = now /\ inSec' = 0

\* Mutant: the count is never carried.
AdvanceWithoutLimit(now) ==
    \/ now > lastSec /\ lastSec' = now /\ inSec' = 0
    \/ now <= lastSec /\ lastSec' = lastSec /\ inSec' = inSec + 1

Advance(now) ==
    \/ /\ now > lastSec
       /\ lastSec' = now
       /\ inSec' = 0
    \/ /\ now <= lastSec
       /\ inSec < LastInSec
       /\ lastSec' = lastSec
       /\ inSec' = inSec + 1
    \/ /\ now <= lastSec
       /\ inSec >= LastInSec
       /\ lastSec < MaxSec
       /\ lastSec' = lastSec + 1
       /\ inSec' = 0

\* The id made of the sequence number just drawn.
NewId(scope) == [scope |-> scope, seq |-> Seq(lastSec', inSec')]

-----------------------------------------------------------------------------
Format(scope, now) ==
    /\ Advance(now)
    /\ top' = NewId(scope).seq
    /\ UNCHANGED <<cache, ownerByChatID>>

\* Mutant: the cache is not consulted.
CreateAlways(app, scope, now) ==
    /\ Advance(now)
    /\ cache' = [cache EXCEPT ![<<app, scope>>] = NewId(scope)]
    /\ ownerByChatID' = [i \in DOMAIN ownerByChatID \cup {NewId(scope)} |->
                           IF i = NewId(scope) THEN app ELSE ownerByChatID[i]]
    /\ top' = NewId(scope).seq

\* Mutant: the key of the cache is the scope without the bot.
CreateShared(app, scope, now) ==
    /\ cache[<<app, scope>>] = NoId
    /\ \/ \E a \in AppKeys :
             /\ cache[<<a, scope>>] # NoId
             /\ cache' = [cache EXCEPT ![<<app, scope>>] = cache[<<a, scope>>]]
             /\ UNCHANGED <<lastSec, inSec, ownerByChatID, top>>
       \/ /\ \A a \in AppKeys : cache[<<a, scope>>] = NoId
          /\ Advance(now)
          /\ cache' = [cache EXCEPT ![<<app, scope>>] = NewId(scope)]
          /\ ownerByChatID' = [i \in DOMAIN ownerByChatID \cup {NewId(scope)} |->
                                 IF i = NewId(scope) THEN app ELSE ownerByChatID[i]]
          /\ top' = NewId(scope).seq

\* ResolveOrCreate of a key that has no id yet; a key that has one gets it
\* back and nothing changes.
Create(app, scope, now) ==
    /\ cache[<<app, scope>>] = NoId
    /\ Advance(now)
    /\ cache' = [cache EXCEPT ![<<app, scope>>] = NewId(scope)]
    /\ ownerByChatID' = [i \in DOMAIN ownerByChatID \cup {NewId(scope)} |->
                           IF i = NewId(scope) THEN app ELSE ownerByChatID[i]]
    /\ top' = NewId(scope).seq

Init == /\ lastSec = 0
        /\ inSec = 0
        /\ cache = [k \in Keys |-> NoId]
        /\ ownerByChatID = [i \in {} |-> NoId]
        /\ top = -1

\* The process starts again: nothing of the Formatter is on disk.
Restart == /\ lastSec' = 0
           /\ inSec' = 0
           /\ cache' = [k \in Keys |-> NoId]
           /\ ownerByChatID' = [i \in {} |-> NoId]
           /\ top' = -1

Next == \/ \E scope \in Scopes, now \in Times :
              \/ Format(scope, now)
              \/ \E app \in AppKeys : Create(app, scope, now)
        \/ Restart

Spec == Init /\ [][Next]_vars

-----------------------------------------------------------------------------
\* Properties.

TypeOK == /\ lastSec \in Nat
          /\ inSec \in 0 .. LastInSec
          /\ cache \in [Keys -> Ids \cup {NoId}]
          /\ DOMAIN ownerByChatID \subseteq Ids
          /\ \A i \in DOMAIN ownerByChatID : ownerByChatID[i] \in AppKeys
          /\ top \in Int

\* The bot that owns a chat is found from its chatId alone, even when
\* several bots talk to one group or one user (chatid.go:51-53).
OwnerIsKnown ==
    \A k \in Keys : cache[k] # NoId =>
        cache[k] \in DOMAIN ownerByChatID /\ ownerByChatID[cache[k]] = k[1]

\* Every new id is above all that this process issued before, whatever the
\* clock does: repeats, goes back, or is overtaken by more than LastInSec + 1
\* ids in a second (chatid.go:5, "monotonically increasing").
SeqIncreases ==
    [][\A scope \in Scopes, now \in Times :
          \/ Format(scope, now)
          \/ \E app \in AppKeys : Create(app, scope, now)
        => NewId(scope).seq > top]_vars

\* A bot's chat keeps its id, and with it the agent's workspace, for as
\* long as the process lives (chatid.go:40-43).
IdsAreStable ==
    [][\/ Restart
       \/ \A k \in Keys : cache[k] # NoId => cache'[k] = cache[k]]_vars

\* The inductive invariant behind them: the counters are above everything
\* that was issued.
Bounded == /\ top <= Seq(lastSec, inSec)
           /\ \A i \in DOMAIN ownerByChatID : i.seq <= top

IInv == TypeOK /\ Bounded /\ OwnerIsKnown
=============================================================================
