# TLA+ models of platform-bridge-wecom

The bridge connects WeCom (企业微信) bots to an agent platform.  It holds one
WebSocket client per bot towards WeCom and one WebSocket server towards the
platform; what users write goes one way, what agents answer comes back the
other way, streamed or pushed.  Everything in it is small; what is hard is
what happens between its goroutines, its timers, two unreliable peers, and a
file.  The modules here model that.

## 1. The system

| component | state it keeps | operations | modelled by |
|---|---|---|---|
| streaming reply sender (`wecom/stream_sender.go`) | per run: mutex, phase buffers, flush timer, closed; per chat: handled flag | `Open`, `HandleEvent` (six events), timer callback, `Close`, `ForgetChat` | `StreamSender`, `ReplyBubbles` |
| chat.updated fallback (`wecom/bridge.go:459-531`) | `pushDedup` | `handleStreamFrame`, `handleChatUpdated` | `ChatDelivery` |
| inbound path (`wecom/bridge.go:160-407`) | `pendingRefs`, open runs | `HandleWecomMessage`, `forwardText`, `handleMedia` | `Inbound` |
| deduplication (`wecom/dedup.go`) | when each message was last seen | `Seen` | `DedupCache`, `Suppressor` |
| bot routing (`wecom/bridge.go:97-158`) | senders and streams by bot | `senderFor`, `streamFor` | `BotRouting` |
| platform server (`server/wsserver.go`) | sessions | accept, greet, `Broadcast`, read loop, remove | `Inbound` (sessions, `Broadcast`), `ChatDelivery` (frame loop) |
| WeCom client (`wecom/client.go`) | `conn`, ACK channels, `missedPong` | `Run`, `connectAndServe`, `readLoop`, `heartbeatLoop`, `SendMarkdown` | `WecomClient` |
| media upload (`wecom/client.go:354-422`, `bridge.go:409-`) | `uploadMu`, upload ACK channels | `UploadMedia` in init, chunk, finish | `MediaUpload` |
| chat target registry (`wecom/registry.go`) | map, `wecom-chatid.json`, its `.tmp` | `OpenRegistry`, `Register`, `Lookup` | `Registry` |
| chat ID formatter (`protocol/chatid.go`) | last second and sequence, ids by chat, owners | `Format`, `ResolveOrCreate` | `ChatIdFormatter` |
| file store (`server/store.go`) | two files per object | `Put`, `Get` | `FileStore`, `Shelf` |
| HTTP API (`server/httpapi.go`) | none of its own | `/api/push`, `/api/download` | `HttpApi` |
| tickets, frames, downloader and AES, configuration, logging | none | | not modelled (section 7) |

How they interact:

* WeCom's callback is read by a client's read loop, which starts **a goroutine
  per message**.  It asks `Dedup`, registers the chat, opens a run in the
  `StreamSender`, and `Broadcast`s `/api/query` or `/api/upload` to every
  platform session.  Files wait in `pendingRefs` for the chat's next question.
* A platform session is one goroutine that handles its frames in order.  A
  stream frame becomes a `HandleEvent`; the sender coalesces text and sends
  whole markdown bubbles, from that goroutine or from a timer's, **with the
  run's mutex held while `SendMarkdown` waits for its ACK**.
* `chat.updated` is the fallback: if the sender has not handled the chat, the
  run's final content is pushed.
* An answer finds its bot by the Registry alone: the chat ID, drawn by the
  formatter and forgotten at the next start, is the key to an entry on disk
  that names the bot; `senderFor` and `streamFor` find its client and its
  `StreamSender`, or fall back to another bot's.
* Pushed files come in by HTTP, one handler per file.  The handler stores the
  file, starts a goroutine that sends it to WeCom in three acknowledged parts
  under `uploadMu`, and answers with a download URL without waiting for it.
* WeCom's ACKs carry no usable id.  The client puts each into the channel of
  its command, and whoever waits there takes the first.

What is hard, by kind (PROJECT.json lists each at its line): `timer.Stop`
against a callback that waits for the mutex; phase rotation while a tick is
queued; one flag per chat for many runs; sends that fail half-way; ACKs after
their timeout; channels replaced under a waiter; state that outlives a
connection; snapshots written outside the lock that took them; a death between
truncate, write and rename, or between an object's data and its metadata;
messages that overtake each other; clocks that go back, and clock readings that
are stale when they are used; what one process wrote and the next reads without
the rest of its state.

## 2. Modules

**`ReplyBubbles`** is what a user is promised to see of one run: a sequence of
frames in which a bubble only grows, is finished once and last, and is followed
only by a later bubble.  It knows nothing of timers or phases.

**`StreamSender`** implements it (`Promise == INSTANCE ReplyBubbles`, the
variables `bubble` of both being the same; `KeepsPromise == Promise!Spec`).
Its state is that of `runState` and `phase`, with text abstracted to its
length: the buffers are append-only, so the length tells two contents of one
phase apart.  A flush that sends is two steps, `flushLocked` and `EndSend`,
because `SendMarkdown` blocks for seconds with the mutex held; `holder[r]` is
what the owner does when it returns.  Timers are explicit: the one `flushTimer`
points to, armed ones nobody points to, and callbacks that wait for the mutex.

**`ChatDelivery`** EXTENDS `StreamSender` and adds the sessions' goroutines and
`handleChatUpdated`.  Its actions are the branches of that function.  A push is
two steps (it goes out, its ACK arrives), and a suppressed report three
(`HandledChat`, `ForgetChat`, the write of `pushDedup`), since another session
or timer may run in between.  A scheduled run has no query and may be reported
at any time; any other run may be reported as soon as it is open, whatever its
stream is doing, as the code does not look at that.  The history variable
`overlapped` turns true when two runs of a chat, or two sessions that report on
it, meet; what needs runs in turn says `overlapped \/ ...`.  `early` holds the
chats of which a run was reported before it had closed, and `emptied` those with
an empty report.

**`Inbound`** has a task per message goroutine.  Every step of a task takes and
releases one lock or does one piece of I/O, in the order of `forwardText` and
`handleMedia`; `Broadcast` takes the sessions of the moment and then writes to
them one by one.  A session may break before it is greeted.

**`WecomClient`** has `Run`, the read loop, the heartbeat and one sender
(`respondMu` lets one at a time through) as processes; the server and the peer's
disappearance are external.  Frames and ACKs carry a number and a connection so
that properties can tell whose an ACK was; no guard reads them.  Reading a
frame and offering its ACK is one step.  This takes it that a read loop which
has a frame in hand dispatches it before the one-second backoff is over and
`resetAckChannels` runs.

**`MediaUpload`** models the three parts, their channels and `uploadMu`.  An
upload is named after the push whose init opened it, which is how mixed-up ACKs
show.  `SendMedia`, with `uploadMu` released, is `SendImage` or `SendFile` as
one step that succeeds or fails.

**`Registry`** splits `Register` where the code does I/O: update and snapshot
under the lock, open with truncation, write, rename.  Files are inodes, so that
two writers of the same `.tmp`, and one who still holds a renamed file, behave
as they do on disk.  `Die` may come between any two steps, and the disk may
refuse any write or rename, or take a part of a text (`WriteFails`); the code
goes on, and so does the model.  `diskError` is history: it is true from a
refusal until a Register whose text and rename the disk takes.  The rename is
counted as the return, as nothing follows it.

**`ChatIdFormatter`** models `Format`, `ResolveOrCreate` and `nextSeqLocked`
with a clock that gives any reading at any time.  `Restart` forgets everything,
as the code does.

**`BotRouting`** EXTENDS `ChatIdFormatter` and adds the Registry's map, the
bots' senders and streams, and their handled flags.  A message draws its chat's
ID, registers it and opens its run in one step, as nobody else knows the ID
before that.  `Reboot` starts a process with another set of bots and another
clock; only the Registry's map stays.  `past` and `back` remember whether a
process began at a second that an earlier one had used.

**`Suppressor`** is what the bridge relies on when it asks `Dedup`, without a
map and without cleaning; **`DedupCache`** implements it (`ActsAsSuppressor`).
`Seen` reads the clock before it has the mutex, so its action takes any reading
of the last `Skew` ticks.  The clock is the monotonic one that `time.Sub` uses;
the formatter's, which uses `Unix`, is the wall clock and may go back.

**`Shelf`** is what a download URL promises; **`FileStore`** implements it
(`KeepsShelf`).  `Put` is split at every file operation: create, copy piece by
piece, create the metadata, write it; each may fail and leave what is there, or
be the last before a death.  **`HttpApi`** EXTENDS it and `MediaUpload`: an
object is a push, `Store`, `Respond` and `OnPushed` are the steps of
`handlePush`, and `Die` takes the goroutines and leaves the files.

`MC*` modules give TLC symmetry sets, a constraint or a function constant; the
`*Proofs` modules hold theorems, `BotRoutingProofs` also those of
`ChatIdFormatter`, `HttpApiProofs` also those of `FileStore` and `MediaUpload`.
Definitions marked *Mutant* are faulty variants of the definition that follows
them; no specification uses them.  They exist to show that each property can
fail: every property has one that violates it.

## 3. Runs

| run | bounds | what it shows |
|---|---|---|
| `stream` | 1 run, 4 deltas per phase, 3 phases | `NoLostTick`, `ClosedIsComplete`, `KeepsPromise`; under fairness `TextIsFlushed` |
| `delivery` | 2 queries and a scheduled run of 1 chat, 2 sessions, 2 updates each, one answer of up to 2 bubbles, until runs overlap; small where a run is reported early | a run is pushed once at most (`PushedOnce`), and a failed push is never remembered as done (`RememberedIsDone`); unless a run is reported before it closed, every answer arrives (`NothingLost`), not twice (`NoDuplicateInTurn`), and suppression has its reason (`SuppressedWasStreamed`) |
| `overlap` | 2 queries, 1 session, overlapping | **violated**: an answer is streamed and pushed |
| `chat_ids` | 3 bots, one of them "default", 1 scope, 2 clock readings, 2 ids per second, 1 restart | ids strictly increase and are stable; an answer goes out on the bot that was asked (`AnswersGoHome`); the fallback asks the sender that streamed (`FlagIsFound`) |
| `client` | 2 connections, 3 replies, channels of 2 | one open socket, served only after its own subscribe ACK, ACKs stay on their connection; a dead peer is left; a cancelled client ends |
| `two_misses` | 2 connections | **violated**: one missed pong closes a fresh connection |
| `registry` | 2 callers, 2 chats, 2 targets, 3 files; not both overlaps and disk errors | what returned is what a start finds, until calls overlap; a disk error is repaired by the next Register; memory is never behind the file, even when calls overlap |
| `registry_torn` | as above | **violated**: two callers return, nobody dies, and the file does not parse |
| `inbound` | 2 files and 2 questions of a chat, a question and a blank of another, 3 callbacks (4 for the first chat's messages), 1 session | references stay in one place and in their chat; a message is told once; the platform never hears of a run that is not open; a query that carries a file is behind its upload |
| `media_upload` | 2 pushes, 2 chunks, channels of 4, data of 2 pieces, 2 deaths | each chat gets its own file, whole, until an ACK is late; downloads are whole or an error, a URL stays good, what goes out to WeCom is in the store, an accepted push ends |
| `late_upload` | 2 pushes | **violated**: after a late ACK a chat gets another push's file |
| `dedup` | 2 messages, a TTL of 4 ticks, callers that wait up to 1, 8 ticks, restarts | the map implements `Suppressor`; no message is handled twice within the TTL less the wait of two callers |

Why the bounds are enough:

* *stream*: runs share only `handledChats`, which no guard of this module
  reads, so one run is the general case.  Three phases cover a rotation after a
  rotation; four deltas let text arrive before, during and after a flush, with
  a stale callback still waiting.
* *delivery*: the flag and `pushDedup` hold one value per chat; a second run is
  what can collide with the first, a scheduled run collides with both, and two
  reports per run are a report and its repetition.  A state in which runs have
  overlapped is not explored further (`InTurn`): there `overlap` shows what
  happens, and `RememberedIsDone` is proved without the bound.  One delta is a
  frame and its closing.  A second bubble is what an answer can lose when its
  first one has arrived; only one run has one, and then only one other run is
  about (`OneMoreBubble`).  Once a run has been reported early, two runs are
  about, and they neither reason nor leave a stale callback (`EarlyIsSmall`):
  of the properties only `PushedOnce` and `RememberedIsDone` say something of
  such a chat, and they do not read the senders' buffers.  The theorems have
  none of these bounds.
* *client*: state can outlive one connection into the next; two suffice.  Three
  replies are one whose ACK is late, one that takes it, and one more.
* *registry*: two callers are needed for an overlap, two chats for snapshots of
  different sizes, three files for `.tmp`, the file, and one held open after it
  was renamed.  After an overlap and a disk error nothing is promised, and TLC
  stops (`NotBoth`).
* *inbound*: three callbacks are a file and two questions of its chat that
  compete for it, or a message and its redeliveries.  A fourth is for two files
  and two questions of one chat, with a connection that stays (`FourOfAChat`):
  there two lists can be taken and added to at once.  The other chat has a
  question that must not get the first one's references.  Sessions do not read
  each other's state.
* *media_upload*: two pushes can mix up ACKs and wait for each other's lock; a
  third adds a waiter of the same kind.  Two pieces are a part of the data and
  the whole; two deaths are one in each of two `Put`s.
* *chat_ids*: the sequence's roll-over is at 1 instead of 999, so that a second
  overflows within the bound.  Three bots let the only one, the default one and
  the right one differ.  One restart is two processes: any pair of an earlier
  and a later one.  The theorems are for any limit and any number.
* *dedup*: a clock of twice the TTL lets an entry age out and its successor
  too; two keys, since the call for one cleans away the other.

`CHECK_DEADLOCK FALSE` is in every configuration: with the bounds used up,
with every push sent, or with `Run` returned, nothing is left to do.

## 4. Fairness

Only what the process itself does is fair; WeCom, the platform and users owe
nothing.

One assumption is not in the code: that **`WriteMessage` returns**
(`client.go:452`).  It has no deadline, so a write to a peer that has stopped
reading may block for as long as the kernel lets it, with `writeMu` held; then
every other write waits, the heartbeat's ping among them.  All four liveness
properties are about a bridge whose writes return, with success or an error.

* `StreamSender`: an armed `time.AfterFunc` fires and `SendMarkdown` returns
  (its wait for the ACK ends by `SendTimeout`): weak fairness.  The callback's
  lock is strongly fair: `sync.Mutex` hands itself over to a waiter after a
  millisecond.
* `WecomClient`: the goroutines are scheduled, every wait for an ACK or a pong
  has a timeout or a context: weak fairness of `Run`, the heartbeat and the
  sender.  The read loop is not fair: a read may block for ever, which is what
  `DeadLinkIsLeft` and `CancelEndsRun` are about.
* `HttpApi`: every wait for an ACK ends by `SendTimeout`, that of `SendMedia`
  included (weak), `uploadMu` is a `sync.Mutex` (strong, per push).  Nobody owes
  a push, a `Put` that ends, or a life without death; a death ends what it
  interrupts.

## 5. Proofs

All theorems are for every value of the constants, from the assumption each
module names.

`StreamSenderProofs`: `Invariance` shows that `IInv` is inductive;
`TypeCorrect`, `NeverLosesTick`, `ClosesComplete` and `ImplementsReplyBubbles`
follow from it.  `NoLostTick` alone is not inductive: whether a stale callback
that clears `flushTimer` leaves text behind depends on what the mutex's owner is
doing and on whether the phase is finished.  `IInv` therefore has, per run: an
unopened run has no state (`OpenedFirst`); flags agree with buffers, and the
buffers extend what was sent (`Buffers`); the last frame is the current phase's,
or a finished one of an earlier phase (`BubbleOf`); while `SendMarkdown` is out
nothing is unsent, and a finished phase belongs to a run that is rotating,
closing or closed (`LockedPhase`); `flushTimer` is set whenever text is unsent,
and if its timer has fired the callback is still to come (`Ticking`).  The
refinement maps each flush that sends to a step of `ReplyBubbles` and every
other step to a stutter.

`ChatDeliveryProofs`: `Remembered` shows `RememberedIsDone` for any sessions and
runs, overlapping or not.  It needs the typing of `task` and `pushDedup` alone,
since counts of pushes only grow and `suppressed` only gains members.  The other
properties follow from `DeliveryInvariance`, whose `DeliveryIInv` has three
layers.  `Base` holds whatever overlaps and however early a run is reported: the
senders' own `IInv`; what a session has in hand is a report of a run of its chat
(`TaskInv`); a run that was streamed is open, in a chat without an early report
one that was settled or pushed is closed, and one whose last frame is
acknowledged has been answered when no send of it failed (`RunFacts`).  `Turns`
holds until something overlaps and is about each chat's newest run: a session
that reports on the chat reports on that run and is the only one
(`ReportsNewest`), and a push in hand means that the run was not pushed before,
and that `pushDedup` remembers every run that was (`PushFits`).  That much needs
nothing of the streams, and `PushesOnce` follows from it.  `InOrder` is the rest
of `Turns`, for chats without an early report: a push in hand means that the run
was not streamed either, a forget that it was, the handled flag or `pushDedup`
says that it was streamed or pushed, and older runs are closed.  `NeverTwice`,
`LosesNothing` and `SuppressesStreamed` follow from it.  None of the parts is
inductive without the others: that a push is not a second answer rests on the
flag, the flag on who may reset it, and that on the single report.  An early
report ends `InOrder` for its chat and nothing else (`ReportInOrder`).
`UsesTheSenders` shows that every step of this module is a step of
`StreamSender`, so that all theorems about it hold here as well.

The proof attempt for `NothingLost` corrected the model: `answered` used to
hold every run that had had the last ACK of a finished bubble, also when
another bubble was still to come, and with two bubbles the property is then
false.  It now holds the runs whose last acknowledged frame finishes a bubble,
and the run `delivery` has a second bubble to check the case.

`BotRoutingProofs`, the formatter: `Invariance` (the counters are above every
number issued), `TypeCorrect`, `OwnerCorrect`, `StrictlyIncreasing`, `Stable`.
The clock is arbitrary, so the proof shows that the formatter needs no monotonic
time as long as the process lives.

`BotRoutingProofs`, the routing: `RoutingInvariance`, `RoutingTypeCorrect`,
`Homeward` and `FlagFound`, for any bots and any number of restarts.  Neither
property is inductive.  `RoutingIInv` adds that what this process issued is
registered for a bot it has (`Registered`), that it streamed only where it
issued (`Streamed`), and that every registered number is at most `top` or below
the seconds after all earlier processes (`Dated`): so a number just drawn is
either new in the Registry or the clock went back over a restart, and the
Registry still names the first owner (`AtHome`).  `RoutesByFormatter` shows that
the routing takes the formatter's steps only; with it `RoutedIdsIncrease` and
`RoutedIdsAreStable` carry the formatter's theorems over.

`HttpApiProofs`, the store: `StoreInvariance` (the place of a `Put` says what it
has written; metadata that parses records the whole data), `DownloadsWhole`, and
`HandsOutTheShelf`, the refinement of `Shelf`: the write of the metadata is the
step that publishes, a handed URL that of `HandOut`, everything else, deaths
included, a stutter.

`HttpApiProofs`, the uploads: `HttpInvariance`, and from it `HttpTypeCorrect`,
`SendsOwnMedia`, `SendsWholeMedia` and `UploadedStays`; `UploadsOwnMedia` is the
same for `MediaUpload` alone.  ACKs are matched by command, so that a chat gets
its own file depends on what may be in flight.  Two facts hold however late ACKs
come: whoever is in `UploadMedia` holds `uploadMu`, and its place says how many
chunks it has written (`Placed`).  Until a wait is given up on an ACK that still
comes, three more do: at most one frame or one ACK is on its way, for the step
at which the holder waits and under its own name (`InFlight`); the server's
parts of a push are the first chunks of its own file, as many as were
acknowledged (`Progress`); and nothing is in flight while nobody holds the lock.
A connection that is replaced, or a death, empties the channels and the wire
together, which is why the invariant survives both.  `UsesTheStore` shows that
the API takes the store's steps only, so `HttpServesWhole` and `HttpKeepsShelf`
hold with uploads and deaths around it.

`WecomClientProofs`: `Invariance`, `TypeCorrect`, `OneLink`, `ServesSubscribed`
and `CreditsStay`, for any number of connections, replies and misses.
`OneOpenLink` needs to know where `Run` is when a connection is open
(`OpenOnline`).  That an ACK is credited to its own connection follows from
three facts about numbers the code never sees (`Replies`): every ACK in the
present channel is of the newest connection; a sender that wrote on an earlier
one finds that channel empty, and it stays so, since it holds `respondMu` and
nobody else can write; and a sender that waits in a channel since replaced wrote
on the connection whose ACKs that channel holds.  No timing of ACKs enters, so
late ones are included.

`DedupCacheProofs`: `Invariance` (an entry is the last sight of its key; a key
without one was last seen at least a TTL ago), `TypeCorrect`,
`ImplementsSuppressor` and `HandledApart`.  The cleaning uses the caller's
reading, which may be stale, but never later than the clock: that is why what
it deletes is old enough for everyone up to `Skew`.

`InboundProofs`: `Invariance`, `TypeCorrect`, `TellsOnce`, `AnswersFindRuns`,
`RefsInOnePlace` and `UploadsComeFirst`, for any messages, chats, sessions and
number of redeliveries.  Every step of a task is shown to be a *turn* (`Turn`):
it forgets nothing, and a task at rest starts to work only on a message that
`Dedup` has not seen.  From that alone follow `OneTask` (at most one task works
on a message), `Told` (a session that was told has no task to tell it again)
and `Held` (a file whose reference is somewhere has no task to add it again);
they make `ToldOnce` and `RefInOnePlace` inductive, and `UploadNotBehind` on top
of them.

`RegistryProofs`: `Invariance`, `TypeCorrect`, `RegistersPersist`,
`FileStaysReadable` and `MemoryKnowsFile`, for any number of callers.  The
invariant says that until two calls overlap (`overlap`, a history variable) at
most one call is under way, its snapshot is the map, and its place says what the
temporary file holds.  A disk error takes the equations with the file away and
leaves the rest (`Calls`), so the next call that the disk takes restores them.
After an overlap the file may not parse (`registry_torn`) or may miss a chat,
but one thing remains: the map knows every chat the file knows
(`DiskBehindMemory`).  That is not inductive either; `Ahead` adds that the map
knows every snapshot under way, and whatever the temporary file parses as while
someone may still rename it.

With these, every invariant and every action property of a passing run is a
theorem, and so are the three refinements (of `ReplyBubbles`, `Suppressor` and
`Shelf`); `ChatDelivery`, `BotRouting` and `HttpApi` are shown to take only the
steps of `StreamSender`, `ChatIdFormatter` and `FileStore`.

Model-checked only: liveness (`TextIsFlushed`, `DeadLinkIsLeft`,
`CancelEndsRun`, `AcceptedEnds`), since it needs fairness and `ENABLED`, which
are out of the prover's reach; and the runs that expect a violation, which TLC
shows by a behaviour. The invariants of every proof were checked by TLC on small
instances before they were proved, which also shows that states satisfy them.

## 6. What the code does not keep

Four statements of the repository are contradicted by a run (PROJECT.json,
"findings", quotes them):

1. `overlap`: one handled flag per chat; with two overlapping queries the first
   report forgets it for both, and the other, streamed answer is pushed as well.
2. `two_misses`: `missedPong` survives a reconnect, so the next connection is
   closed after one missed pong.
3. `registry_torn`: two `Register`s share the `.tmp`; the shorter snapshot over
   the longer one does not parse, both return, and the next start ends with
   `log.Fatalf`.
4. `late_upload`: an upload ACK after its timeout is taken by the next upload.

The models also contain these behaviours, which the properties above except or
leave open:

* `run.complete` on a run without content sends no frame, although
  `stream_sender.go:10` announces a fallback frame.
* An empty `chat.updated` returns before `ForgetChat` (`bridge.go:500`), so a
  run that only reasoned leaves its flag to the chat's next run; if that fails
  silently, its fallback is suppressed.  `SuppressedWasStreamed` and
  `NothingLost` except such chats.
* The flag is set by any acknowledged frame: a run whose closing frame failed
  is not pushed, and the user keeps a part.  `NothingLost` is about runs with
  no failed send.
* `chat.updated` may report a run that has not closed: the session its frames
  came on was replaced, or it ended with a frame that the bridge ignores
  (`bridge.go:446-470`).  Three things can follow, with no send failed and no
  run overlapping.  A run cut off after an acknowledged part of its answer is
  suppressed by the flag, and the rest, although it is in `lastRunContent`, is
  never sent.  A run whose first frame still waits for its ACK has no flag yet:
  it is pushed, and then the frame arrives as well.  And an ACK that comes after
  the report has forgotten the flag sets it again, so that the chat's next run,
  failing silently, is suppressed.  `NothingLost`, `NoDuplicateInTurn` and
  `SuppressedWasStreamed` except such chats (`early`); that a run is pushed at
  most once holds there too.
* `c.conn` is set before the subscribe frame is written (`client.go:168`), so a
  reply can be a connection's first frame.
* Within a connection a late reply ACK is credited to the next reply
  (`client.go:429`); `CreditedHere` only says that it stays on its connection.
* `connectAndServe` waits for the read loop alone: with a server that stays
  silent, cancelling `ctx` does not end `Run`.  `CancelEndsRun` excepts this.
* Of two overlapping `Register`s the older snapshot can be renamed last, and
  the file misses a chat.
* `Register` ignores the errors of its write and its rename: a torn temporary
  file is renamed, and until the next `Register` the bridge would not start.
* A session is in the map before it is greeted (`wsserver.go:135`), so a
  broadcast can precede `push/connected`.
* `Broadcast` with no session connected reports success; the upload is gone
  while its reference waits in `pendingRefs`.
* A question can overtake the download of a file sent before it and go without.
* A chat's next query between `HandledChat` and `ForgetChat`
  (`bridge.go:509-511`), or two sessions that report on one chat, count as
  overlapping: the flag of one is forgotten with the other's, and two sessions
  that both find neither flag nor entry both push.
* A session's greeting may fail, and the connection break, while broadcasts
  already go to it.
* A restart forgets the chat IDs: a chat goes on under a new one, as the
  comment at `chatid.go:43` says.  The numbers start again from the clock, so a
  process that begins at a second an earlier one has used (a restart within a
  second, seconds borrowed by more than a thousand ids, a clock set back) can
  give a registered ID to another bot's chat of the same scope.
  `AnswersGoHome` excepts this.
* When the bot of a chat is no longer configured, `senderFor` returns the only
  other one, or "default", and the answer is sent by a bot that was not asked.
* A restart forgets `Dedup`: a message that WeCom redelivers after it is handled
  again.
* Two callers of `Seen` whose clock readings are taken in one order and used in
  the other can let a message through up to twice their wait early;
  `AdmittedApart` says so.
* A push is answered with success before its upload to WeCom; if that fails, or
  the process dies, the file is in the store and nobody repeats the upload.
* A failed or interrupted `Put` leaves its files behind; they are never served
  and never removed.

## 7. Not modelled

* *Refused HTTP requests* (method, ticket, form, path): they change nothing.
* *Power loss*: nothing is synced, and the models keep what was written.
* *The TTL of `Dedup` in `Inbound`*: it takes every redelivery to be within it;
  `DedupCache` has the clock.
* *`RegisterOwner` and `OwnerAppKey`*: nothing outside the tests calls them.
* *Letter case of app keys*: `Dedup` folds it, senders and the configuration do
  not; the models take two app keys to differ in more than case.
* *The backoff's durations*: `BackOff` is a step of any length.
* *`aibot_send_msg`*: its channel works like that of the replies; a push and
  `SendMedia` are acknowledged or fail, whoever's ACK it was.
* *A write that blocks* (section 4).
* *Data races in the Go sense* (`pushDedup` is an unguarded map): each access
  is one step.
* *Tickets, frames, download, AES, configuration, logging*: no state, or pure
  conversion; what an outcome decides (download failed, store failed) is in
  `Inbound`.

## 8. Plan

Done, in this order: `StreamSender` with `ReplyBubbles`, `ChatDelivery`,
`ChatIdFormatter`, `WecomClient`, `Registry`, `Inbound`, `MediaUpload`; then
`DedupCache` with `Suppressor`, `FileStore` with `Shelf`, `HttpApi`, and
`BotRouting`; then proofs of every invariant and action property, module by
module.

Next, models: the reconnect delay of `Run` as a function of the connections'
lengths, and the channel of `aibot_send_msg` beside that of the replies.

Next, proofs: safety facts that the liveness properties rest on and that can be
proved without `ENABLED` (who holds a lock has a step that lets it go; a wait
that is fair always has an end), and the overlapping cases of `ChatDelivery`,
where `DeliveryIInv` says little: what remains true of a chat whose runs
overlap.
