----------------------------- MODULE BotRouting -----------------------------
(***************************************************************************)
(* Which bot an answer goes out on, over restarts.  bridge.go gives a      *)
(* message's chat its id (ChatIdFormatter), registers the bot for it, and  *)
(* opens the run in that bot's StreamSender; an answer is routed back by   *)
(* the Registry alone, which is on disk: it knows ids of processes long    *)
(* gone, and bots that are no longer configured.                           *)
(*                                                                         *)
(* The Registry is the map itself here (Registry.tla has its files, and    *)
(* RegistersPersist that it is on disk when Register returns).  An id says *)
(* its scope, and a push goes to its scope, so only the bot can be wrong.  *)
(* Create, Register and Open are one step: until Open the id is known to   *)
(* nobody else, and later messages of the chat write what is there.        *)
(***************************************************************************)
EXTENDS ChatIdFormatter

CONSTANTS Default,  \* the app key "default", of the single bot without one
          NoBot,    \* no sender, no stream
          MaxLives  \* bound: processes, one after the other

ASSUME RoutingAssumption == NoBot \notin AppKeys /\ MaxLives \in Nat

VARIABLES bots,          \* the keys of b.senders and of b.cfg.Streams
          target,        \* the Registry: chatId -> bot
          handledChats,  \* (bot, chatId): that bot's StreamSender has streamed there
          lives,
          home,          \* history: the bot each chatId was first given to
          past,          \* history: the last second earlier processes used, -1 at first
          back           \* history: a process began at a second that was used

routingVars == <<vars, bots, target, handledChats, lives, home, past, back>>

-----------------------------------------------------------------------------
\* Mutant: "default" is looked up before the only bot, and before the bot itself.
botForDefault(app) ==
    IF Default \in bots THEN Default
    ELSE IF app \in bots THEN app ELSE NoBot

\* senderFor and streamFor, over two maps with the same keys: the bot
\* itself, or the only one, or "default".
botFor(app) ==
    CASE app \in bots -> app
      [] app \notin bots /\ \E b \in bots : bots = {b} -> CHOOSE b \in bots : TRUE
      [] OTHER -> IF Default \in bots THEN Default ELSE NoBot

\* What drawing a number says of the clock.
Draws(now) == back' = (back \/ (top = -1 /\ now <= past))

\* forwardText and handleMedia.
Message(app, scope, now) ==
    LET id == cache'[<<app, scope>>]
    IN  /\ app \in bots
        /\ \/ Create(app, scope, now) /\ Draws(now)
           \/ cache[<<app, scope>>] # NoId /\ UNCHANGED <<vars, back>>
        /\ target' = [i \in DOMAIN target \cup {id} |-> IF i = id THEN app ELSE target[i]]
        /\ home' = [i \in DOMAIN home \cup {id} |->
                      IF i \in DOMAIN home THEN home[i] ELSE app]
        /\ UNCHANGED <<bots, handledChats, lives, past>>

\* Format, which nothing calls so far.
Reserve(scope, now) ==
    /\ Format(scope, now)
    /\ Draws(now)
    /\ UNCHANGED <<bots, target, handledChats, lives, home, past>>

\* A stream event of the run that a message of (app, scope) has opened.
Streams(app, scope) ==
    /\ cache[<<app, scope>>] # NoId
    /\ handledChats' = handledChats \cup {<<botFor(app), cache[<<app, scope>>]>>}
    /\ UNCHANGED <<vars, bots, target, lives, home, past, back>>

\* handleChatUpdated of a chat its stream has handled.  Otherwise botFor's
\* sender pushes, which changes nothing here.
ChatUpdated(id) ==
    /\ id \in DOMAIN target
    /\ <<botFor(target[id]), id>> \in handledChats
    /\ handledChats' = handledChats \ {<<botFor(target[id]), id>>}
    /\ UNCHANGED <<vars, bots, target, lives, home, past, back>>

\* main: the bots are read from the environment, the Registry from disk.
Reboot ==
    /\ lives < MaxLives
    /\ lives' = lives + 1
    /\ Restart
    /\ bots' \in SUBSET AppKeys
    /\ handledChats' = {}
    /\ past' = IF top # -1 /\ lastSec > past THEN lastSec ELSE past
    /\ UNCHANGED <<target, home, back>>

RoutingInit == /\ Init
               /\ bots \in SUBSET AppKeys
               /\ target = [i \in {} |-> NoBot]
               /\ handledChats = {}
               /\ lives = 1
               /\ home = [i \in {} |-> NoBot]
               /\ past = -1
               /\ back = FALSE

RoutingNext ==
    \/ \E app \in AppKeys, scope \in Scopes :
          \/ \E now \in Times : Message(app, scope, now)
          \/ Streams(app, scope)
    \/ \E scope \in Scopes, now \in Times : Reserve(scope, now)
    \/ \E id \in DOMAIN target : ChatUpdated(id)
    \/ Reboot

RoutingSpec == RoutingInit /\ [][RoutingNext]_routingVars

-----------------------------------------------------------------------------
\* Properties.

RoutingTypeOK ==
    /\ TypeOK
    /\ bots \subseteq AppKeys
    /\ DOMAIN target \subseteq Ids /\ DOMAIN home = DOMAIN target
    /\ \A i \in DOMAIN target : target[i] \in AppKeys /\ home[i] \in AppKeys
    /\ handledChats \subseteq AppKeys \X Ids
    /\ lives \in Nat /\ past \in Int /\ back \in BOOLEAN

\* An answer goes out on the bot that was asked, however long ago, as long
\* as that bot is configured: no later process gives its id to another bot.
\* Except when a process begins at a second that an earlier one has used, as
\* after a restart within the second or a clock set back: the numbers start
\* again (chatid.go:114-128, bridge.go:112-130).
AnswersGoHome ==
    back \/ \A i \in DOMAIN target : home[i] \in bots => botFor(target[i]) = home[i]

\* The fallback asks the StreamSender that has streamed, or the user reads
\* the answer twice: the run was opened by the message's app key, the flag is
\* looked up by the Registry's (bridge.go:260, 509).
FlagIsFound ==
    \A f \in handledChats : f[2] \in DOMAIN target /\ botFor(target[f[2]]) = f[1]

-----------------------------------------------------------------------------
\* The inductive invariant behind them.  What this process has issued it has
\* registered, for a bot it has; what it has streamed it has issued.
Registered ==
    \A i \in DOMAIN ownerByChatID :
        i \in DOMAIN target /\ target[i] = ownerByChatID[i] /\ target[i] \in bots
Streamed ==
    \A f \in handledChats :
        f[2] \in DOMAIN ownerByChatID /\ ownerByChatID[f[2]] = f[1]

\* What is registered is no later than this process, or than those before;
\* unless the clock went back, this process is later than those before.
Dated ==
    /\ \A i \in DOMAIN target :
          i.seq <= top \/ i.seq < Seq(past + 1, 0)
    /\ top # -1 => back \/ lastSec > past
    /\ past >= -1

AtHome == back \/ \A i \in DOMAIN target : home[i] = target[i]

RoutingIInv == IInv /\ RoutingTypeOK /\ Registered /\ Streamed /\ Dated /\ AtHome
=============================================================================
