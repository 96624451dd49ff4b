---------------------------- MODULE HttpApiProofs ----------------------------
(***************************************************************************)
(* Proofs about FileStore, MediaUpload and the push API that joins them,   *)
(* for every set of pushes, every number of chunks and pieces, every       *)
(* capacity of an ACK channel and any number of deaths.                    *)
(*                                                                         *)
(* Uploads: whoever holds uploadMu is the only one who moves, and as long  *)
(* as no ACK was late there is at most one frame or one ACK on its way,    *)
(* and it is for the holder.  The store: the place of a Put says which of  *)
(* its two files is there and how far it is written, and a .meta.json that *)
(* unmarshals means that both are complete.                                *)
(***************************************************************************)
EXTENDS HttpApi, TLAPS

Frames == [cmd : Cmds, id : Pushes, part : Pushes \X (0 .. Chunks) \cup {None}]
Answers == [id : Pushes, ok : BOOLEAN]

Resting == {"new", "uploaded"} \cup Ended
Before == {"new", "init", "await init"}
Named == {"chunk", "await chunk", "finish", "await finish"}

\* What holds of an upload even when ACKs have come late: its place says how
\* many chunks it has written and whether it has an upload_id, and whoever is
\* not at rest holds uploadMu.
Placed(p) == /\ at[p] \in Before => chunk[p] = 0
             /\ at[p] = "chunk" => chunk[p] < Chunks
             /\ at[p] = "await chunk" => chunk[p] > 0
             /\ at[p] \in Named => uploadID[p] \in Pushes
             /\ at[p] \notin Resting => uploadMu = p
Typed == /\ TypeOK
         /\ wire \in Seq(Frames)
         /\ acks \in [Cmds -> Seq(Answers)]
         /\ parts = [p \in Pushes |-> parts[p]]
         /\ \A p \in Pushes : Placed(p)

\* The first n chunks of p's file.
Upto(p, n) == [i \in 1 .. n |-> <<p, i - 1>>]

Silent == \A cmd \in Cmds : acks[cmd] = << >>

\* The frame p has written is all that is on its way, or its ACK is.
Asked(p, cmd) ==
    /\ Silent
    /\ Len(wire) = 1 /\ wire[1].cmd = cmd /\ wire[1].id = p
    /\ cmd = "chunk" => /\ wire[1].part = <<p, chunk[p] - 1>>
                        /\ parts[p] = Upto(p, chunk[p] - 1)
Replied(p, cmd) ==
    /\ wire = << >>
    /\ \A c \in Cmds \ {cmd} : acks[c] = << >>
    /\ Len(acks[cmd]) = 1 /\ acks[cmd][1].id = p
    /\ cmd = "chunk" /\ acks[cmd][1].ok => parts[p] = Upto(p, chunk[p])

InFlight ==
    \/ wire = << >> /\ Silent
    \/ \E p \in Pushes, cmd \in Cmds :
          at[p] = Await[cmd] /\ (Asked(p, cmd) \/ Replied(p, cmd))

\* What p and the server know of p's file.
Progress(p) ==
    /\ at[p] \in Before => parts[p] = << >>
    /\ at[p] = "chunk" => parts[p] = Upto(p, chunk[p])
    /\ at[p] \in {"finish", "await finish", "uploaded", "sent"}
          => parts[p] = Upto(p, Chunks)
    /\ at[p] \in Named => uploadID[p] = p
    /\ at[p] \in {"uploaded", "sent"} => mediaID[p] = p
    /\ mediaID[p] \in {p, None}

InTime == InFlight /\ \A p \in Pushes : Progress(p)

MediaIInv == Typed /\ (late \/ InTime)

HttpIInv == /\ MediaIInv /\ StoreIInv /\ deaths \in 0 .. MaxDeaths
            /\ \A p \in Pushes : /\ at[p] # "new" => meta[p] \in Nat
                                 /\ at[p] \notin Resting => Stored(p)

-----------------------------------------------------------------------------
\* Counts of chunks, sequences with one member, and the chunks in order.

LEMMA Counted == \A n \in 0 .. Chunks : n \in Nat
BY UploadAssumption

LEMMA OneAppended ==
    ASSUME NEW S, NEW x \in S
    PROVE  /\ Append(<< >>, x) \in Seq(S) /\ Len(Append(<< >>, x)) = 1
           /\ Append(<< >>, x)[1] = x
OBVIOUS

LEMMA OneTaken ==
    ASSUME NEW S, NEW s \in Seq(S), Len(s) = 1
    PROVE  s # << >> /\ Head(s) = s[1] /\ Tail(s) = << >>
<1>1. s # << >> /\ Head(s) = s[1]
  OBVIOUS
<1>2. Tail(s) \in Seq(S) /\ Len(Tail(s)) = 0
  BY <1>1
<1>3. \A t \in Seq(S) : Len(t) = 0 => t = << >>
  OBVIOUS
<1> QED BY <1>1, <1>2, <1>3

LEMMA UptoNone == ASSUME NEW p PROVE Upto(p, 0) = << >>
BY DEF Upto

LEMMA UptoNext ==
    ASSUME NEW p, NEW n \in Nat
    PROVE  Append(Upto(p, n), <<p, n>>) = Upto(p, n + 1)
<1> DEFINE s == Upto(p, n)
           t == Append(s, <<p, n>>)
<1>1. s \in Seq({p} \X Nat) /\ Len(s) = n /\ \A i \in 1 .. n : s[i] = <<p, i - 1>>
  BY DEF Upto
<1>2. <<p, n>> \in {p} \X Nat
  OBVIOUS
<1> HIDE DEF s
<1>3. /\ t \in Seq({p} \X Nat) /\ Len(t) = n + 1
      /\ \A i \in 1 .. n : t[i] = s[i]
      /\ t[n + 1] = <<p, n>>
  BY <1>1, <1>2
<1>4. \A i \in 1 .. n + 1 : t[i] = <<p, i - 1>>
  BY <1>1, <1>3
<1>5. DOMAIN t = 1 .. n + 1 /\ t = [i \in DOMAIN t |-> t[i]]
  BY <1>3
<1> QED BY <1>4, <1>5 DEF Upto, s

LEMMA AwaitIs == /\ Await["init"] = "await init"
                 /\ Await["chunk"] = "await chunk"
                 /\ Await["finish"] = "await finish"
                 /\ \A c \in Cmds : \A d \in Cmds : Await[c] = Await[d] => c = d
                 /\ \A c \in Cmds : Await[c] \in {"await init", "await chunk", "await finish"}
BY DEF Await, Cmds

-----------------------------------------------------------------------------
\* Types and places.

Places == {"new", "init", "await init", "chunk", "await chunk", "finish",
           "await finish", "uploaded"} \cup Ended

LEMMA Moved ==
    ASSUME Typed, NEW p \in Pushes, NEW step \in Places, Goes(p, step)
    PROVE  /\ at' \in [Pushes -> Places] /\ at'[p] = step
           /\ \A q \in Pushes \ {p} : at'[q] = at[q]
BY DEF Typed, TypeOK, Goes, Places

\* Whoever moves holds uploadMu, or takes it; everybody else is at rest ...
LEMMA Alone ==
    ASSUME Typed, NEW p \in Pushes, UploadMedia(p)
    PROVE  /\ at[p] = "new" => Lock(p)
           /\ at[p] # "new" => uploadMu = p /\ at[p] \notin Resting
           /\ \A q \in Pushes \ {p} : at[q] \in Resting
<1>1. at[p] = "new" \/ at[p] \notin Resting
  BY AwaitIs DEF UploadMedia, Lock, WriteInit, InitAcked, WriteChunk, ChunkAcked, WriteFinish,
     FinishAcked, TimesOut, Write, Takes, Resting, Ended, Cmds
<1>2. at[p] = "new" => Lock(p)
  BY AwaitIs DEF UploadMedia, Lock, WriteInit, InitAcked, WriteChunk, ChunkAcked, WriteFinish,
     FinishAcked, TimesOut, Write, Takes, Cmds
<1>3. at[p] = "new" => uploadMu = None
  BY <1>2 DEF Lock
<1>4. at[p] # "new" => uploadMu = p /\ at[p] \notin Resting
  BY <1>1 DEF Typed, Placed
<1>5. ASSUME NEW q \in Pushes \ {p} PROVE at[q] \in Resting
  BY <1>3, <1>4, UploadAssumption DEF Typed, Placed
<1> QED BY <1>2, <1>4, <1>5

\* ... and stays as it is.
LEMMA Only ==
    ASSUME Typed, NEW p \in Pushes, UploadMedia(p)
    PROVE  \A q \in Pushes \ {p} : /\ at'[q] = at[q] /\ chunk'[q] = chunk[q]
                                   /\ uploadID'[q] = uploadID[q] /\ mediaID'[q] = mediaID[q]
BY DEF Typed, TypeOK, UploadMedia, Lock, WriteInit, InitAcked, WriteChunk, ChunkAcked,
       WriteFinish, FinishAcked, TimesOut, Write, Takes, Returns, Goes

LEMMA OthersPlaced ==
    ASSUME Typed, NEW p \in Pushes, UploadMedia(p), NEW q \in Pushes \ {p}
    PROVE  Placed(q)'
BY Alone, Only DEF Typed, Placed, Resting, Before, Named, Ended

LEMMA ResultType ==
    ASSUME Typed, NEW cmd \in Cmds, acks[cmd] # << >>
    PROVE  /\ Head(acks[cmd]) \in Answers
           /\ [acks EXCEPT ![cmd] = Tail(@)] \in [Cmds -> Seq(Answers)]
           /\ Len(Tail(acks[cmd])) <= AckCap
<1>1. acks[cmd] \in Seq(Answers) /\ Len(acks[cmd]) <= AckCap
  BY DEF Typed, TypeOK
<1>2. /\ Head(acks[cmd]) \in Answers /\ Tail(acks[cmd]) \in Seq(Answers)
      /\ Len(Tail(acks[cmd])) <= AckCap
  BY <1>1, UploadAssumption
<1> QED BY <1>1, <1>2 DEF Typed

LEMMA TakesType ==
    ASSUME Typed, NEW p \in Pushes, NEW cmd \in Cmds, Takes(p, cmd)
    PROVE  /\ at[p] = Await[cmd] /\ Head(acks[cmd]) \in Answers /\ wire' = wire
           /\ acks' \in [Cmds -> Seq(Answers)]
           /\ \A c \in Cmds : Len(acks'[c]) <= AckCap
<1>1. acks' = [acks EXCEPT ![cmd] = Tail(@)] /\ acks[cmd] # << >>
  BY DEF Takes
<1>2. acks'[cmd] = Tail(acks[cmd]) /\ \A c \in Cmds \ {cmd} : acks'[c] = acks[c]
  BY <1>1 DEF Typed
<1> QED BY <1>1, <1>2, ResultType DEF Takes, Typed, TypeOK

\* One step of an upload.
LEMMA WriteTyped ==
    ASSUME Typed, NEW p \in Pushes, WriteInit(p) \/ WriteChunk(p) \/ WriteFinish(p)
    PROVE  /\ TypeOK' /\ Placed(p)'
           /\ wire' \in Seq(Frames) /\ acks' \in [Cmds -> Seq(Answers)]
<1>1. UNCHANGED <<uploadID, mediaID, acks, late>>
  BY DEF WriteInit, WriteChunk, WriteFinish, Write
<1>2. CASE WriteInit(p) \/ WriteFinish(p)
  <2>1. PICK cmd \in {"init", "finish"}, frame \in Frames : Write(p, cmd, frame)
    <3>1. CASE WriteInit(p)
      <4>1. [cmd |-> "init", id |-> p, part |-> None] \in Frames
        BY DEF Frames, Cmds
      <4> QED BY <3>1, <4>1 DEF WriteInit
    <3>2. CASE WriteFinish(p)
      <4>1. uploadID[p] \in Pushes
        BY <3>2 DEF WriteFinish, Write, Typed, Placed, Named
      <4>2. [cmd |-> "finish", id |-> uploadID[p], part |-> None] \in Frames
        BY <4>1 DEF Frames, Cmds
      <4> QED BY <3>2, <4>2 DEF WriteFinish
    <3> QED BY <1>2, <3>1, <3>2
  <2>2. at[p] = cmd /\ cmd \in Cmds /\ Await[cmd] \in {"await init", "await finish"}
    BY <2>1, AwaitIs DEF Write, Cmds
  <2>3. chunk' = chunk
    BY <1>2 DEF WriteInit, WriteFinish
  <2>4. CASE wire' = Append(wire, frame) /\ Goes(p, Await[cmd]) /\ uploadMu' = uploadMu
    <3>1. wire' \in Seq(Frames)
      BY <2>4 DEF Typed
    <3>2. Await[cmd] \in Places
      BY <2>2 DEF Places
    <3>3. at' \in [Pushes -> Places] /\ at'[p] = Await[cmd]
      BY <2>4, <3>2, Moved
    <3>4. \/ at'[p] = "await init" /\ at[p] = "init"
          \/ at'[p] = "await finish" /\ at[p] = "finish"
      BY <2>1, <2>2, <3>3, AwaitIs
    <3>5. Placed(p)'
      BY <1>1, <2>3, <2>4, <3>4 DEF Typed, Placed, Before, Named, Resting, Ended
    <3> QED BY <1>1, <2>3, <2>4, <3>1, <3>3, <3>5 DEF Typed, TypeOK, Places
  <2>5. CASE Goes(p, "failed") /\ uploadMu' = None /\ wire' = wire
    <3>1. at' \in [Pushes -> Places] /\ at'[p] = "failed"
      BY <2>5, Moved DEF Places, Ended
    <3>2. Placed(p)'
      BY <3>1 DEF Placed, Before, Named, Resting, Ended
    <3> QED BY <1>1, <2>3, <2>5, <3>1, <3>2 DEF Typed, TypeOK, Places
  <2> QED BY <2>1, <2>4, <2>5 DEF Write, Returns
<1>3. CASE WriteChunk(p)
  <2> DEFINE frame == [cmd |-> "chunk", id |-> uploadID[p], part |-> <<p, chunk[p]>>]
  <2>1. /\ Write(p, "chunk", frame) /\ at[p] = "chunk"
        /\ chunk' = [chunk EXCEPT ![p] = IF wire' = wire THEN @ ELSE @ + 1]
    BY <1>3 DEF WriteChunk, Write
  <2>2. /\ uploadID[p] \in Pushes /\ chunk[p] \in 0 .. Chunks /\ chunk[p] < Chunks
        /\ uploadMu = p
    BY <2>1 DEF Typed, TypeOK, Placed, Named, Resting, Ended
  <2>3. frame \in Frames
    BY <2>2 DEF Frames, Cmds
  <2> HIDE DEF frame
  <2>4. chunk' \in [Pushes -> 0 .. Chunks] /\ (wire' # wire => chunk'[p] = chunk[p] + 1)
    <3>1. chunk[p] + 1 \in 0 .. Chunks
      BY <2>2, UploadAssumption
    <3>2. chunk \in [Pushes -> 0 .. Chunks]
      BY DEF Typed, TypeOK
    <3>3. CASE wire' = wire
      BY <2>1, <3>2, <3>3
    <3>4. CASE wire' # wire
      BY <2>1, <3>1, <3>2, <3>4
    <3> QED BY <3>3, <3>4
  <2>5. CASE wire' = Append(wire, frame) /\ Goes(p, Await["chunk"]) /\ uploadMu' = uploadMu
    <3>1. wire' \in Seq(Frames) /\ wire' # wire
      BY <2>3, <2>5 DEF Typed
    <3>2. at' \in [Pushes -> Places] /\ at'[p] = "await chunk"
      BY <2>5, Moved, AwaitIs DEF Places
    <3>3. chunk'[p] > 0 /\ uploadID'[p] \in Pushes /\ uploadMu' = p
      BY <1>1, <2>2, <2>4, <2>5, <3>1
    <3>4. Placed(p)'
      BY <3>2, <3>3 DEF Placed, Before, Named, Resting, Ended
    <3> QED BY <1>1, <2>4, <2>5, <3>1, <3>2, <3>4 DEF Typed, TypeOK, Places
  <2>6. CASE Goes(p, "failed") /\ uploadMu' = None /\ wire' = wire
    <3>1. at' \in [Pushes -> Places] /\ at'[p] = "failed"
      BY <2>6, Moved DEF Places, Ended
    <3>2. Placed(p)'
      BY <3>1 DEF Placed, Before, Named, Resting, Ended
    <3> QED BY <1>1, <2>4, <2>6, <3>1, <3>2 DEF Typed, TypeOK, Places
  <2> QED BY <2>1, <2>5, <2>6 DEF Write, Returns
<1> QED BY <1>2, <1>3

LEMMA AckedTyped ==
    ASSUME Typed, NEW p \in Pushes, InitAcked(p) \/ ChunkAcked(p) \/ FinishAcked(p)
    PROVE  /\ TypeOK' /\ Placed(p)'
           /\ wire' \in Seq(Frames) /\ acks' \in [Cmds -> Seq(Answers)]
<1>1. PICK cmd \in Cmds : Takes(p, cmd)
  BY DEF InitAcked, ChunkAcked, FinishAcked, Cmds
<1>2. /\ wire' \in Seq(Frames) /\ acks' \in [Cmds -> Seq(Answers)]
      /\ \A c \in Cmds : Len(acks'[c]) <= AckCap
      /\ chunk' = chunk /\ late' = late
  BY <1>1, TakesType DEF Typed, InitAcked, ChunkAcked, FinishAcked, Takes
<1>3. CASE Returns(p, "failed") /\ UNCHANGED <<uploadID, mediaID>>
  <2>1. at' \in [Pushes -> Places] /\ at'[p] = "failed" /\ uploadMu' = None
    BY <1>3, Moved DEF Returns, Places, Ended
  <2>2. Placed(p)'
    BY <2>1 DEF Placed, Before, Named, Resting, Ended
  <2> QED BY <1>2, <1>3, <2>1, <2>2 DEF Typed, TypeOK, Places
<1>4. CASE /\ InitAcked(p) /\ Goes(p, "chunk") /\ uploadMu' = uploadMu
           /\ uploadID' = [uploadID EXCEPT ![p] = Head(acks["init"]).id]
  <2>1. Head(acks["init"]) \in Answers /\ at[p] = "await init"
    BY <1>4, TakesType, AwaitIs DEF InitAcked, Cmds
  <2>2. mediaID' = mediaID
    BY <1>4 DEF InitAcked
  <2>3. /\ uploadID' \in [Pushes -> Pushes \cup {None}] /\ uploadID'[p] \in Pushes
    BY <1>4, <2>1 DEF Typed, TypeOK, Answers
  <2>4. at' \in [Pushes -> Places] /\ at'[p] = "chunk"
    BY <1>4, Moved DEF Places
  <2>5. Placed(p)'
    <3>1. chunk'[p] = 0 /\ uploadMu' = p
      BY <1>2, <1>4, <2>1 DEF Typed, Placed, Before, Resting, Ended
    <3> QED BY <2>3, <2>4, <3>1, UploadAssumption DEF Placed, Before, Named, Resting, Ended
  <2> QED BY <1>2, <1>4, <2>2, <2>3, <2>4, <2>5 DEF Typed, TypeOK, Places
<1>5. CASE /\ ChunkAcked(p) /\ uploadMu' = uploadMu
           /\ Goes(p, IF chunk[p] < Chunks THEN "chunk" ELSE "finish")
  <2>1. at[p] = "await chunk"
    BY <1>5, TakesType, AwaitIs DEF ChunkAcked, Cmds
  <2>2. UNCHANGED <<uploadID, mediaID>>
    BY <1>5 DEF ChunkAcked
  <2>3. at' \in [Pushes -> Places] /\ at'[p] = IF chunk[p] < Chunks THEN "chunk" ELSE "finish"
    BY <1>5, Moved DEF Places
  <2>4. Placed(p)'
    <3>1. uploadID[p] \in Pushes /\ uploadMu = p
      BY <2>1 DEF Typed, Placed, Named, Resting, Ended
    <3> QED BY <1>2, <1>5, <2>2, <2>3, <3>1 DEF Placed, Before, Named, Resting, Ended
  <2> QED BY <1>2, <1>5, <2>2, <2>3, <2>4 DEF Typed, TypeOK, Places
<1>6. CASE /\ FinishAcked(p) /\ Returns(p, "uploaded")
           /\ mediaID' = [mediaID EXCEPT ![p] = Head(acks["finish"]).id]
  <2>1. Head(acks["finish"]) \in Answers
    BY <1>6, TakesType DEF FinishAcked, Cmds
  <2>2. Goes(p, "uploaded") /\ uploadMu' = None /\ uploadID' = uploadID
    BY <1>6 DEF FinishAcked, Returns
  <2>3. mediaID' \in [Pushes -> Pushes \cup {None}]
    BY <1>6, <2>1 DEF Typed, TypeOK, Answers
  <2>4. at' \in [Pushes -> Places] /\ at'[p] = "uploaded"
    BY <2>2, Moved DEF Places, Ended
  <2>5. Placed(p)'
    BY <2>4 DEF Placed, Before, Named, Resting, Ended
  <2> QED BY <1>2, <2>2, <2>3, <2>4, <2>5 DEF Typed, TypeOK, Places
<1> QED BY <1>3, <1>4, <1>5, <1>6 DEF InitAcked, ChunkAcked, FinishAcked

LEMMA UploadTyped ==
    ASSUME Typed, NEW p \in Pushes, UploadMedia(p)
    PROVE  Typed'
<1>1. /\ TypeOK' /\ Placed(p)'
      /\ wire' \in Seq(Frames) /\ acks' \in [Cmds -> Seq(Answers)]
  <2>1. CASE Lock(p)
    <3>1. at' \in [Pushes -> Places] /\ at'[p] = "init" /\ at[p] = "new"
      BY <2>1, Moved DEF Lock, Places
    <3> QED BY <2>1, <3>1 DEF Lock, Typed, TypeOK, Placed, Places, Before, Named, Resting, Ended
  <2>2. CASE TimesOut(p)
    <3>1. at' \in [Pushes -> Places] /\ at'[p] = "failed" /\ uploadMu' = None
      BY <2>2, Moved DEF TimesOut, Returns, Places, Ended
    <3>2. late' \in BOOLEAN
      BY <2>2 DEF TimesOut, OnItsWay, Typed, TypeOK
    <3> QED BY <2>2, <3>1, <3>2 DEF TimesOut, Typed, TypeOK, Placed, Places, Before, Named,
                                    Resting, Ended
  <2> QED BY <2>1, <2>2, WriteTyped, AckedTyped DEF UploadMedia
<1>2. parts' = parts
  BY DEF UploadMedia, Lock, WriteInit, InitAcked, WriteChunk, ChunkAcked, WriteFinish,
         FinishAcked, TimesOut, Write, Takes
<1> QED BY <1>1, <1>2, OthersPlaced DEF Typed

LEMMA ServerTyped ==
    ASSUME Typed, NEW ok \in BOOLEAN, ServerHandles(ok)
    PROVE  Typed'
<1> DEFINE f == Head(wire)
           ack == [id |-> f.id, ok |-> ok]
<1>1. f \in Frames /\ wire' \in Seq(Frames)
  BY DEF ServerHandles, Typed
<1>2. f.cmd \in Cmds /\ f.id \in Pushes /\ ack \in Answers
  BY <1>1 DEF Frames, Answers
<1> HIDE DEF f
<1>3. acks' = [acks EXCEPT ![f.cmd] = Offer(@, ack)]
  BY DEF ServerHandles, f
<1> HIDE DEF ack
<1>4. Offer(acks[f.cmd], ack) \in Seq(Answers) /\ Len(Offer(acks[f.cmd], ack)) <= AckCap
  <2>1. acks[f.cmd] \in Seq(Answers) /\ Len(acks[f.cmd]) <= AckCap
    BY <1>2 DEF Typed, TypeOK
  <2>2. /\ Append(acks[f.cmd], ack) \in Seq(Answers)
        /\ Len(Append(acks[f.cmd], ack)) = Len(acks[f.cmd]) + 1
    BY <1>2, <2>1
  <2> QED BY <2>1, <2>2, UploadAssumption DEF Offer
<1>5. acks' \in [Cmds -> Seq(Answers)] /\ \A c \in Cmds : Len(acks'[c]) <= AckCap
  BY <1>2, <1>3, <1>4 DEF Typed, TypeOK
<1>6. parts' = [p \in Pushes |-> parts'[p]]
  BY DEF ServerHandles, Typed
<1> QED BY <1>1, <1>5, <1>6 DEF ServerHandles, Typed, TypeOK, Placed

LEMMA ReconnectTyped == ASSUME Typed, Reconnect PROVE Typed'
<1>1. wire' \in Seq(Frames) /\ acks' \in [Cmds -> Seq(Answers)]
  BY DEF Reconnect
<1>2. \A c \in Cmds : Len(acks'[c]) <= AckCap
  BY UploadAssumption DEF Reconnect
<1> QED BY <1>1, <1>2 DEF Reconnect, Typed, TypeOK, Placed

-----------------------------------------------------------------------------
\* As long as no ACK has come late there is one frame or one ACK at a time.

Awaiting == {"await init", "await chunk", "await finish"}

\* It is for whoever moves: nobody else waits.
LEMMA ItsOwn ==
    ASSUME Typed, InTime, NEW p \in Pushes, UploadMedia(p)
    PROVE  \/ wire = << >> /\ Silent
           \/ \E cmd \in Cmds : at[p] = Await[cmd] /\ (Asked(p, cmd) \/ Replied(p, cmd))
<1>1. CASE wire = << >> /\ Silent
  BY <1>1
<1>2. CASE ~(wire = << >> /\ Silent)
  <2>1. PICK q \in Pushes, cmd \in Cmds :
           at[q] = Await[cmd] /\ (Asked(q, cmd) \/ Replied(q, cmd))
    BY <1>2 DEF InTime, InFlight
  <2>2. at[q] \notin Resting
    BY <2>1, AwaitIs DEF Resting, Ended
  <2>3. q = p
    BY <2>2, Alone
  <2> QED BY <2>1, <2>3
<1> QED BY <1>1, <1>2

LEMMA OthersProgress ==
    ASSUME Typed, InTime, NEW p \in Pushes, UploadMedia(p), NEW q \in Pushes \ {p}
    PROVE  Progress(q)'
<1>1. parts' = parts
  BY DEF UploadMedia, Lock, WriteInit, InitAcked, WriteChunk, ChunkAcked, WriteFinish,
         FinishAcked, TimesOut, Write, Takes
<1> QED BY <1>1, Only DEF InTime, Progress

LEMMA FailedProgress ==
    ASSUME Typed, InTime, NEW p \in Pushes, Goes(p, "failed"), mediaID' = mediaID
    PROVE  Progress(p)'
<1>1. at'[p] = "failed"
  BY Moved DEF Places, Ended
<1> QED BY <1>1 DEF InTime, Progress, Before, Named

LEMMA LockInTime ==
    ASSUME Typed, InTime, NEW p \in Pushes, Lock(p)
    PROVE  InTime'
<1>1. UploadMedia(p) /\ at[p] = "new"
  BY DEF UploadMedia, Lock
<1>2. wire = << >> /\ Silent
  BY <1>1, ItsOwn, AwaitIs
<1>3. at'[p] = "init"
  BY Moved DEF Lock, Places
<1>4. Progress(p)'
  BY <1>1, <1>3 DEF Lock, InTime, Progress, Before, Named
<1>5. InFlight'
  BY <1>2 DEF Lock, InFlight, Silent
<1> QED BY <1>1, <1>4, <1>5, OthersProgress DEF InTime

LEMMA WriteInTime ==
    ASSUME Typed, InTime, NEW p \in Pushes, WriteInit(p) \/ WriteChunk(p) \/ WriteFinish(p)
    PROVE  InTime'
<1>1. PICK cmd \in Cmds, frame \in Frames :
         /\ Write(p, cmd, frame) /\ at[p] = cmd
         /\ frame.cmd = cmd /\ frame.id = p
         /\ cmd = "chunk" => /\ frame.part = <<p, chunk[p]>>
                             /\ chunk' = [chunk EXCEPT ![p] = IF wire' = wire THEN @ ELSE @ + 1]
         /\ cmd # "chunk" => chunk' = chunk
  <2>1. CASE WriteInit(p)
    <3> DEFINE frame == [cmd |-> "init", id |-> p, part |-> None]
    <3>1. frame \in Frames /\ frame.cmd = "init" /\ frame.id = p
      BY DEF Frames, Cmds
    <3> HIDE DEF frame
    <3>2. Write(p, "init", frame) /\ at[p] = "init" /\ chunk' = chunk /\ "init" \in Cmds
      BY <2>1 DEF WriteInit, Write, frame, Cmds
    <3> QED BY <3>1, <3>2
  <2>2. CASE WriteChunk(p)
    <3> DEFINE frame == [cmd |-> "chunk", id |-> uploadID[p], part |-> <<p, chunk[p]>>]
    <3>1. at[p] = "chunk" /\ uploadID[p] = p /\ chunk[p] \in 0 .. Chunks
      BY <2>2 DEF WriteChunk, Write, InTime, Progress, Named, Typed, TypeOK
    <3>2. frame \in Frames /\ frame.cmd = "chunk" /\ frame.id = p /\ frame.part = <<p, chunk[p]>>
      BY <3>1 DEF Frames, Cmds
    <3> HIDE DEF frame
    <3>3. /\ Write(p, "chunk", frame) /\ "chunk" \in Cmds
          /\ chunk' = [chunk EXCEPT ![p] = IF wire' = wire THEN @ ELSE @ + 1]
      BY <2>2 DEF WriteChunk, frame, Cmds
    <3> QED BY <3>1, <3>2, <3>3
  <2>3. CASE WriteFinish(p)
    <3> DEFINE frame == [cmd |-> "finish", id |-> uploadID[p], part |-> None]
    <3>1. at[p] = "finish" /\ uploadID[p] = p
      BY <2>3 DEF WriteFinish, Write, InTime, Progress, Named
    <3>2. frame \in Frames /\ frame.cmd = "finish" /\ frame.id = p
      BY <3>1 DEF Frames, Cmds
    <3> HIDE DEF frame
    <3>3. Write(p, "finish", frame) /\ chunk' = chunk /\ "finish" \in Cmds
      BY <2>3 DEF WriteFinish, frame, Cmds
    <3> QED BY <3>1, <3>2, <3>3
  <2> QED BY <2>1, <2>2, <2>3
<1>2. UploadMedia(p)
  BY DEF UploadMedia
<1>3. wire = << >> /\ Silent
  BY <1>1, <1>2, ItsOwn, AwaitIs DEF Cmds
<1>4. UNCHANGED <<uploadID, mediaID, parts, acks>>
  BY <1>1 DEF Write
<1>5. CASE Goes(p, "failed") /\ wire' = wire
  <2>1. InFlight'
    BY <1>3, <1>4, <1>5 DEF InFlight, Silent
  <2> QED BY <1>2, <1>4, <1>5, <2>1, FailedProgress, OthersProgress DEF InTime
<1>6. CASE Goes(p, Await[cmd]) /\ wire' = Append(wire, frame)
  <2>1. Len(wire') = 1 /\ wire'[1] = frame /\ wire' # wire
    BY <1>3, <1>6, OneAppended
  <2>2. at'[p] = Await[cmd]
    BY <1>6, Moved, AwaitIs DEF Places
  <2>3. cmd = "chunk" => /\ chunk'[p] = chunk[p] + 1 /\ chunk[p] \in Nat
                        /\ parts[p] = Upto(p, chunk[p])
    <3>1. chunk \in [Pushes -> 0 .. Chunks] /\ chunk[p] \in Nat
      BY Counted DEF Typed, TypeOK
    <3>2. at[p] = "chunk" => parts[p] = Upto(p, chunk[p])
      BY DEF InTime, Progress
    <3>3. cmd = "chunk" => chunk' = [chunk EXCEPT ![p] = chunk[p] + 1]
      BY <1>1, <2>1
    <3> QED BY <1>1, <3>1, <3>2, <3>3
  <2>4. cmd = "chunk" => chunk'[p] - 1 = chunk[p]
    BY <2>3
  <2>5. Asked(p, cmd)'
    BY <1>1, <1>3, <1>4, <2>1, <2>3, <2>4 DEF Asked, Silent
  <2>6. InFlight'
    BY <2>2, <2>5 DEF InFlight
  <2>7. Progress(p)'
    <3>1. /\ cmd = "init" => at[p] = "init" /\ at'[p] = "await init"
          /\ cmd = "chunk" => at[p] = "chunk" /\ at'[p] = "await chunk"
          /\ cmd = "finish" => at[p] = "finish" /\ at'[p] = "await finish"
      BY <1>1, <2>2, AwaitIs
    <3> QED BY <1>4, <3>1 DEF Cmds, InTime, Progress, Before, Named
  <2> QED BY <1>2, <2>6, <2>7, OthersProgress DEF InTime
<1> QED BY <1>1, <1>5, <1>6 DEF Write, Returns

LEMMA TimesOutInTime ==
    ASSUME Typed, InTime, NEW p \in Pushes, TimesOut(p)
    PROVE  late' \/ InTime'
<1>1. UploadMedia(p)
  BY DEF UploadMedia
<1>2. PICK cmd \in Cmds : at[p] = Await[cmd] /\ late' = (late \/ OnItsWay(cmd))
  BY DEF TimesOut
<1>3. CASE OnItsWay(cmd)
  BY <1>2, <1>3
<1>4. CASE ~OnItsWay(cmd)
  <2>1. acks[cmd] = << >> /\ \A i \in DOMAIN wire : wire[i].cmd # cmd
    BY <1>4 DEF OnItsWay
  <2>2. ~Replied(p, cmd)
    BY <2>1 DEF Replied
  <2>3. ~Asked(p, cmd)
    BY <2>1 DEF Asked, Typed
  <2>4. wire = << >> /\ Silent
    <3>1. \A c \in Cmds : at[p] = Await[c] => c = cmd
      BY <1>2, AwaitIs
    <3> QED BY <1>1, <2>2, <2>3, <3>1, ItsOwn
  <2>5. InFlight'
    BY <2>4 DEF TimesOut, InFlight, Silent
  <2>6. Progress(p)'
    BY FailedProgress DEF TimesOut, Returns
  <2> QED BY <1>1, <2>5, <2>6, OthersProgress DEF InTime
<1> QED BY <1>3, <1>4

LEMMA AckInTime ==
    ASSUME Typed, InTime, NEW p \in Pushes, InitAcked(p) \/ ChunkAcked(p) \/ FinishAcked(p)
    PROVE  InTime'
<1>1. UploadMedia(p)
  BY DEF UploadMedia
<1>2. PICK cmd \in Cmds :
         /\ Takes(p, cmd)
         /\ cmd = "init" => InitAcked(p)
         /\ cmd = "chunk" => ChunkAcked(p)
         /\ cmd = "finish" => FinishAcked(p)
  BY DEF InitAcked, ChunkAcked, FinishAcked, Cmds
<1>3. at[p] = Await[cmd] /\ acks[cmd] # << >> /\ parts' = parts /\ wire' = wire
  BY <1>2 DEF Takes
<1>4. Replied(p, cmd)
  <2>1. \A c \in Cmds : at[p] = Await[c] => c = cmd
    BY <1>3, AwaitIs
  <2>2. ~Silent
    BY <1>3 DEF Silent
  <2>3. Asked(p, cmd) \/ Replied(p, cmd)
    BY <1>1, <2>1, <2>2, ItsOwn
  <2> QED BY <2>2, <2>3 DEF Asked
<1> DEFINE ack == Head(acks[cmd])
<1>5. ack = acks[cmd][1] /\ Tail(acks[cmd]) = << >>
  BY <1>4, OneTaken DEF Replied, Typed
<1>6. ack.id = p /\ (cmd = "chunk" /\ ack.ok => parts[p] = Upto(p, chunk[p]))
  BY <1>4, <1>5 DEF Replied
<1>7. InFlight'
  <2>1. acks' = [acks EXCEPT ![cmd] = << >>]
    BY <1>2, <1>5 DEF Takes
  <2>2. \A c \in Cmds : acks'[c] = << >>
    BY <1>4, <2>1 DEF Typed, Replied
  <2> QED BY <1>3, <1>4, <2>2 DEF InFlight, Silent, Replied
<1> HIDE DEF ack
<1>8. Progress(p)'
  <2>1. CASE Goes(p, "failed") /\ mediaID' = mediaID
    BY <2>1, FailedProgress
  <2>2. CASE cmd = "init" /\ Goes(p, "chunk") /\ uploadID' = [uploadID EXCEPT ![p] = ack.id]
    <3>1. at'[p] = "chunk" /\ at[p] = "await init"
      BY <1>3, <2>2, Moved, AwaitIs DEF Places
    <3>2. uploadID'[p] = p /\ UNCHANGED <<chunk, mediaID>>
      BY <1>2, <1>6, <2>2 DEF Typed, TypeOK, InitAcked
    <3>3. parts[p] = << >> /\ chunk[p] = 0 /\ mediaID[p] \in {p, None}
      BY <3>1 DEF InTime, Progress, Typed, Placed, Before
    <3>4. parts'[p] = Upto(p, chunk'[p])
      BY <1>3, <3>2, <3>3, UptoNone
    <3> QED BY <3>1, <3>2, <3>3, <3>4 DEF Progress, Before
  <2>3. CASE cmd = "chunk" /\ ack.ok /\ Goes(p, IF chunk[p] < Chunks THEN "chunk" ELSE "finish")
    <3>1. at'[p] = (IF chunk[p] < Chunks THEN "chunk" ELSE "finish") /\ at[p] = "await chunk"
      BY <1>3, <2>3, Moved, AwaitIs DEF Places
    <3>2. UNCHANGED <<uploadID, chunk, mediaID>>
      BY <1>2, <2>3 DEF ChunkAcked
    <3>3. parts'[p] = Upto(p, chunk'[p]) /\ uploadID'[p] = p /\ mediaID'[p] \in {p, None}
      BY <1>3, <1>6, <2>3, <3>1, <3>2 DEF InTime, Progress, Named
    <3>4. chunk[p] \in 0 .. Chunks
      BY DEF Typed, TypeOK
    <3>5. at'[p] = "finish" => chunk'[p] = Chunks
      <4>1. ~(chunk[p] < Chunks) => chunk[p] = Chunks
        BY <3>4, UploadAssumption
      <4> QED BY <3>1, <3>2, <4>1
    <3> QED BY <3>1, <3>3, <3>5 DEF Progress, Before
  <2>4. CASE cmd = "finish" /\ Goes(p, "uploaded") /\ mediaID' = [mediaID EXCEPT ![p] = ack.id]
    <3>1. at'[p] = "uploaded" /\ at[p] = "await finish"
      BY <1>3, <2>4, Moved, AwaitIs DEF Places, Ended
    <3>2. mediaID'[p] = p
      BY <1>6, <2>4 DEF Typed, TypeOK
    <3>3. parts'[p] = Upto(p, Chunks)
      BY <1>3, <3>1 DEF InTime, Progress
    <3> QED BY <3>1, <3>2, <3>3 DEF Progress, Before, Named
  <2>5. CASE cmd = "init"
    BY <1>2, <2>1, <2>2, <2>5 DEF InitAcked, Returns, ack
  <2>6. CASE cmd = "chunk"
    BY <1>2, <2>1, <2>3, <2>6 DEF ChunkAcked, Returns, ack
  <2>7. CASE cmd = "finish"
    BY <1>2, <2>1, <2>4, <2>7 DEF FinishAcked, Returns, ack
  <2> QED BY <2>5, <2>6, <2>7 DEF Cmds
<1> QED BY <1>1, <1>7, <1>8, OthersProgress DEF InTime

LEMMA ServerInTime ==
    ASSUME Typed, InTime, NEW ok \in BOOLEAN, ServerHandles(ok)
    PROVE  InTime'
<1>1. PICK p \in Pushes, cmd \in Cmds : at[p] = Await[cmd] /\ Asked(p, cmd)
  BY DEF InTime, InFlight, Replied, ServerHandles
<1> DEFINE f == Head(wire)
           ack == [id |-> f.id, ok |-> ok]
<1>2. f = wire[1] /\ Tail(wire) = << >>
  BY <1>1, OneTaken DEF Asked, Typed
<1>3. f.cmd = cmd /\ f.id = p /\ (cmd = "chunk" => f.part = <<p, chunk[p] - 1>>)
  BY <1>1, <1>2 DEF Asked
<1>4. /\ acks' = [acks EXCEPT ![f.cmd] = Offer(@, ack)]
      /\ parts' = IF ok /\ f.cmd = "chunk"
                  THEN [parts EXCEPT ![f.id] = Append(@, f.part)] ELSE parts
      /\ UNCHANGED <<at, uploadID, chunk, mediaID>>
  BY DEF ServerHandles
<1>5. ack.id = p /\ ack.ok = ok
  BY <1>3
<1> HIDE DEF f
<1>6. wire' = << >>
  BY <1>2 DEF ServerHandles
<1> HIDE DEF ack
<1>7. Offer(acks[cmd], ack) = Append(<< >>, ack)
  <2>1. acks[cmd] = << >> /\ Len(<< >>) = 0
    BY <1>1 DEF Asked, Silent
  <2> QED BY <2>1, UploadAssumption DEF Offer
<1>8. /\ acks'[cmd] = Append(<< >>, ack)
      /\ \A c \in Cmds \ {cmd} : acks'[c] = << >>
  <2>1. acks' = [acks EXCEPT ![cmd] = Append(<< >>, ack)]
    BY <1>3, <1>4, <1>7
  <2> QED BY <1>1, <2>1 DEF Typed, Asked, Silent
<1>9. Len(acks'[cmd]) = 1 /\ acks'[cmd][1] = ack
  BY <1>8, OneAppended
<1>10. cmd = "chunk" /\ ok => parts'[p] = Upto(p, chunk[p])
  <2> SUFFICES ASSUME cmd = "chunk", ok PROVE parts'[p] = Upto(p, chunk[p])
    OBVIOUS
  <2>1. chunk[p] \in Nat /\ chunk[p] > 0
    <3>1. at[p] = "await chunk"
      BY <1>1, AwaitIs
    <3> QED BY <3>1, Counted DEF Typed, TypeOK, Placed
  <2>2. parts[p] = Upto(p, chunk[p] - 1)
    BY <1>1 DEF Asked
  <2>3. parts'[p] = Append(parts[p], <<p, chunk[p] - 1>>)
    BY <1>3, <1>4 DEF Typed
  <2>4. chunk[p] - 1 \in Nat /\ (chunk[p] - 1) + 1 = chunk[p]
    BY <2>1
  <2>5. Append(Upto(p, chunk[p] - 1), <<p, chunk[p] - 1>>) = Upto(p, (chunk[p] - 1) + 1)
    BY <2>4, UptoNext
  <2> QED BY <2>2, <2>3, <2>4, <2>5
<1>11. Replied(p, cmd)'
  BY <1>4, <1>5, <1>6, <1>8, <1>9, <1>10 DEF Replied
<1>12. InFlight'
  BY <1>1, <1>4, <1>11 DEF InFlight
<1>13. ASSUME NEW q \in Pushes PROVE Progress(q)'
  <2>1. at[p] = "await chunk" \/ parts' = parts
    BY <1>1, <1>3, <1>4, AwaitIs
  <2>2. q # p => parts'[q] = parts[q]
    BY <1>3, <1>4 DEF Typed
  <2>3. CASE parts'[q] = parts[q]
    BY <1>4, <2>3 DEF InTime, Progress
  <2>4. CASE at[q] = "await chunk"
    BY <1>4, <2>4 DEF InTime, Progress, Before, Named
  <2> QED BY <2>1, <2>2, <2>3, <2>4
<1> QED BY <1>12, <1>13 DEF InTime

LEMMA ReconnectInTime == ASSUME InTime, Reconnect PROVE InTime'
BY DEF Reconnect, InTime, InFlight, Silent, Progress

\* Every step of UploadMedia, of the server and of the connection keeps the
\* invariant.
LEMMA UploadKeeps == ASSUME MediaIInv, NEW p \in Pushes, UploadMedia(p) PROVE MediaIInv'
<1>1. Typed'
  BY UploadTyped DEF MediaIInv
<1>2. late => late'
  BY DEF UploadMedia, Lock, WriteInit, InitAcked, WriteChunk, ChunkAcked, WriteFinish,
         FinishAcked, TimesOut, Write, Takes
<1>3. InTime => late' \/ InTime'
  BY LockInTime, WriteInTime, AckInTime, TimesOutInTime DEF MediaIInv, UploadMedia
<1> QED BY <1>1, <1>2, <1>3 DEF MediaIInv

LEMMA ServerKeeps ==
    ASSUME MediaIInv, NEW ok \in BOOLEAN, ServerHandles(ok) PROVE MediaIInv'
<1>1. late' = late
  BY DEF ServerHandles
<1> QED BY <1>1, ServerTyped, ServerInTime DEF MediaIInv

LEMMA ReconnectKeeps == ASSUME MediaIInv, Reconnect PROVE MediaIInv'
<1>1. late' = late
  BY DEF Reconnect
<1> QED BY <1>1, ReconnectTyped, ReconnectInTime DEF MediaIInv

\* Whoever is at rest may end: its media_id is sent, or it has failed.
LEMMA RestKeeps ==
    ASSUME MediaIInv, NEW p \in Pushes, at[p] \in {"new", "uploaded"},
           NEW step \in Ended, step = "sent" => at[p] = "uploaded", Goes(p, step),
           UNCHANGED <<uploadMu, uploadID, chunk, mediaID, wire, parts, acks, late>>
    PROVE  MediaIInv'
<1>1. /\ at' \in [Pushes -> Places] /\ at'[p] = step
      /\ \A q \in Pushes \ {p} : at'[q] = at[q]
  BY Moved DEF MediaIInv, Places
<1>2. Typed'
  <2>1. TypeOK'
    BY <1>1 DEF MediaIInv, Typed, TypeOK, Places
  <2>2. ASSUME NEW q \in Pushes PROVE Placed(q)'
    BY <1>1 DEF MediaIInv, Typed, Placed, Before, Named, Resting, Ended
  <2> QED BY <2>1, <2>2 DEF MediaIInv, Typed
<1>3. ASSUME InTime PROVE InTime'
  <2>1. InFlight'
    <3>1. CASE wire = << >> /\ Silent
      BY <3>1 DEF InFlight, Silent
    <3>2. CASE ~(wire = << >> /\ Silent)
      <4>1. PICK q \in Pushes, cmd \in Cmds :
               at[q] = Await[cmd] /\ (Asked(q, cmd) \/ Replied(q, cmd))
        BY <1>3, <3>2 DEF InTime, InFlight
      <4>2. q # p
        BY <4>1, AwaitIs
      <4>3. at'[q] = Await[cmd]
        BY <1>1, <4>1, <4>2
      <4> QED BY <4>1, <4>3 DEF InFlight, Asked, Replied, Silent
    <3> QED BY <3>1, <3>2
  <2>2. ASSUME NEW q \in Pushes PROVE Progress(q)'
    BY <1>1, <1>3 DEF InTime, Progress, Before, Named, Ended
  <2> QED BY <2>1, <2>2 DEF InTime
<1> QED BY <1>2, <1>3 DEF MediaIInv

LEMMA MediaInit == Init => MediaIInv
<1> SUFFICES ASSUME Init PROVE MediaIInv
  OBVIOUS
<1>1. 0 \in 0 .. Chunks /\ 0 < Chunks
  BY UploadAssumption
<1>2. wire \in Seq(Frames) /\ acks \in [Cmds -> Seq(Answers)]
  BY DEF Init
<1>3. \A c \in Cmds : Len(acks[c]) <= AckCap
  BY UploadAssumption DEF Init
<1>4. Typed
  BY <1>1, <1>2, <1>3 DEF Init, Typed, TypeOK, Placed, Named, Resting
<1>5. InTime
  BY DEF Init, InTime, InFlight, Silent, Progress, Before, Named
<1> QED BY <1>4, <1>5 DEF MediaIInv

-----------------------------------------------------------------------------
\* The file store.

\* The invariant holds of an empty directory.
LEMMA StoreInitIInv == StoreInit => StoreIInv
BY StoreAssumption DEF StoreInit, StoreIInv, StoreTypeOK, Written

-----------------------------------------------------------------------------
\* Every step of one Put keeps it.
LEMMA PutKeeps ==
    ASSUME StoreIInv, NEW o \in Objects, Put(o) \/ HandOut(o)
    PROVE  StoreIInv'
<1>1. StoreTypeOK /\ Written(o)
  BY DEF StoreIInv
<1>2. \A q \in Objects \ {o} : data'[q] = data[q] /\ meta'[q] = meta[q] /\ put'[q] = put[q]
  BY <1>1 DEF Put, PutCreate, PutCopy, PutMetaCreate, PutMetaWrite, PutFails, HandOut,
              PutGoes, StoreTypeOK
<1>3. StoreTypeOK'
  <2>1. CASE PutCreate(o)
    <3>1. 0 \in 0 .. Pieces
      BY StoreAssumption
    <3> QED BY <1>1, <2>1, <3>1 DEF PutCreate, PutGoes, StoreTypeOK
  <2>2. CASE PutCopy(o)
    <3>1. data[o] \in 0 .. Pieces
      BY <1>1, <2>2 DEF PutCopy, Written, StoreTypeOK
    <3>2. data[o] < Pieces => data[o] + 1 \in 0 .. Pieces
      BY <3>1, StoreAssumption
    <3> QED BY <1>1, <2>2, <3>2 DEF PutCopy, PutGoes, StoreTypeOK
  <2>3. CASE PutMetaCreate(o)
    BY <1>1, <2>3 DEF PutMetaCreate, PutGoes, StoreTypeOK
  <2>4. CASE PutMetaWrite(o)
    <3>1. data[o] \in 0 .. Pieces
      BY <1>1, <2>4, StoreAssumption DEF PutMetaWrite, Written, StoreTypeOK
    <3> QED BY <1>1, <2>4, <3>1 DEF PutMetaWrite, PutGoes, StoreTypeOK
  <2>5. CASE PutFails(o) \/ HandOut(o)
    BY <1>1, <2>5 DEF PutFails, HandOut, PutGoes, StoreTypeOK
  <2> QED BY <2>1, <2>2, <2>3, <2>4, <2>5 DEF Put
<1>4. Written(o)'
  <2>1. CASE PutCreate(o)
    <3>1. data'[o] = 0 /\ meta'[o] = NoFile /\ put'[o] = "copy"
      BY <1>1, <2>1 DEF PutCreate, PutGoes, StoreTypeOK, Written
    <3> QED BY <3>1, StoreAssumption DEF Written
  <2>2. CASE PutCopy(o)
    <3>1. data[o] \in 0 .. Pieces /\ meta'[o] = NoFile
      BY <1>1, <2>2 DEF PutCopy, Written, StoreTypeOK
    <3>2. \/ data'[o] = data[o] + 1 /\ put'[o] = "copy"
          \/ data'[o] = Pieces /\ put'[o] = "meta create"
      BY <1>1, <2>2 DEF PutCopy, PutGoes, StoreTypeOK
    <3>3. data[o] + 1 # NoFile
      BY <3>1, StoreAssumption
    <3> QED BY <3>1, <3>2, <3>3, StoreAssumption DEF Written
  <2>3. CASE PutMetaCreate(o)
    <3>1. data'[o] = Pieces /\ meta'[o] = Torn /\ put'[o] = "meta write"
      BY <1>1, <2>3 DEF PutMetaCreate, PutGoes, StoreTypeOK, Written
    <3> QED BY <3>1, StoreAssumption DEF Written
  <2>4. CASE PutMetaWrite(o)
    <3>1. data'[o] = Pieces /\ meta'[o] = Pieces /\ put'[o] = "stored"
      BY <1>1, <2>4 DEF PutMetaWrite, PutGoes, StoreTypeOK, Written
    <3> QED BY <3>1, StoreAssumption DEF Written
  <2>5. CASE PutFails(o) \/ HandOut(o)
    <3>1. /\ data'[o] = data[o] /\ meta'[o] = meta[o]
          /\ \/ put'[o] = "failed"
             \/ put[o] = "stored" /\ put'[o] = "handed"
      BY <1>1, <2>5 DEF PutFails, HandOut, PutGoes, StoreTypeOK
    <3> QED BY <1>1, <3>1 DEF Written
  <2> QED BY <2>1, <2>2, <2>3, <2>4, <2>5 DEF Put
<1>5. ASSUME NEW q \in Objects \ {o} PROVE Written(q)'
  BY <1>2, <1>5 DEF Written, StoreIInv
<1> QED BY <1>3, <1>4, <1>5 DEF StoreIInv

\* So does a death.
LEMMA DeathKeeps == ASSUME StoreIInv, PutsDie PROVE StoreIInv'
BY StoreAssumption DEF StoreIInv, StoreTypeOK, Written, PutsDie

LEMMA StoreNextIInv == StoreIInv /\ [StoreNext]_storeVars => StoreIInv'
<1> SUFFICES ASSUME StoreIInv, [StoreNext]_storeVars PROVE StoreIInv'
  OBVIOUS
<1>1. CASE StoreNext
  BY <1>1, PutKeeps, DeathKeeps DEF StoreNext
<1>2. CASE UNCHANGED storeVars
  BY <1>2 DEF storeVars, StoreIInv, StoreTypeOK, Written
<1> QED BY <1>1, <1>2

\* The inductive invariant is one.
THEOREM StoreInvariance == StoreSpec => []StoreIInv
<1>1. StoreInit => StoreIInv
  BY StoreInitIInv
<1> QED BY <1>1, StoreNextIInv, PTL DEF StoreSpec

-----------------------------------------------------------------------------
\* What Get answers, given the invariant.
LEMMA GetIsWhole ==
    ASSUME StoreIInv, NEW o \in Objects
    PROVE  /\ meta[o] \in Nat => Get(o) = Whole
           /\ meta[o] \notin Nat => Get(o).status # 200
<1>1. meta[o] \in 0 .. Pieces \cup {NoFile, Torn} /\ (meta[o] \in Nat => data[o] = Pieces /\ meta[o] = Pieces)
  BY DEF StoreIInv, StoreTypeOK, Written
<1>2. CASE meta[o] \in Nat
  BY <1>1, <1>2, StoreAssumption DEF Get, Whole
<1>3. CASE meta[o] \notin Nat
  BY <1>1, <1>3, StoreAssumption DEF Get, NotFound, ServerError
<1> QED BY <1>2, <1>3

\* What can be had whole is what has a .meta.json that unmarshals ...
LEMMA KeptIsWritten == StoreIInv => Kept = {o \in Objects : meta[o] \in Nat}
<1>1. Whole.status = 200
  BY DEF Whole
<1> QED BY <1>1, GetIsWhole DEF Kept

\* ... in the next state as in this one.
LEMMA KeptIsWrittenNext == StoreIInv' => Kept' = {o \in Objects : meta'[o] \in Nat}
<1>1. (StoreIInv => Kept = {o \in Objects : meta[o] \in Nat})'
  BY KeptIsWritten, PTL
<1> QED BY <1>1

\* A download is answered with the whole object or with an error, whatever
\* is half written (store.go:40-58).
THEOREM DownloadsWhole == StoreSpec => []ServedIsWhole
<1>1. StoreIInv => ServedIsWhole
  BY GetIsWhole DEF ServedIsWhole
<1> QED BY <1>1, StoreInvariance, PTL

-----------------------------------------------------------------------------
\* Every step of the store is a step of the shelf, or none.
LEMMA StepKeepsShelf ==
    ASSUME StoreIInv, StoreIInv', [StoreNext]_storeVars
    PROVE  [Promise!Next]_<<Kept, Handed>>
<1>0. /\ Kept = {o \in Objects : meta[o] \in Nat}
      /\ Kept' = {o \in Objects : meta'[o] \in Nat}
  BY KeptIsWritten, KeptIsWrittenNext
<1>1. ASSUME NEW o \in Objects, PutMetaWrite(o)
      PROVE  Promise!Publish(o)
  <2>1. \A q \in Objects : meta'[q] \in Nat <=> meta[q] \in Nat \/ q = o
    BY <1>1, StoreAssumption DEF PutMetaWrite, PutGoes, StoreIInv, StoreTypeOK, Written
  <2>2. Kept' = Kept \cup {o}
    BY <1>0, <2>1
  <2>3. Handed' = Handed
    BY <1>1 DEF PutMetaWrite, PutGoes, Handed, StoreIInv, StoreTypeOK
  <2> QED BY <2>2, <2>3 DEF Promise!Publish
<1>2. ASSUME NEW o \in Objects, HandOut(o)
      PROVE  Promise!HandOut(o)
  <2>1. o \in Kept
    BY <1>0, <1>2 DEF HandOut, StoreIInv, StoreTypeOK, Written
  <2>2. Kept' = Kept
    BY <1>0, <1>2 DEF HandOut
  <2>3. Handed' = Handed \cup {o}
    BY <1>2 DEF HandOut, PutGoes, Handed, StoreIInv, StoreTypeOK
  <2> QED BY <2>1, <2>2, <2>3 DEF Promise!HandOut
<1>3. ASSUME NEW o \in Objects,
             PutCreate(o) \/ PutCopy(o) \/ PutMetaCreate(o) \/ PutFails(o)
      PROVE  UNCHANGED <<Kept, Handed>>
  <2>1. Handed' = Handed
    BY <1>3 DEF PutCreate, PutCopy, PutMetaCreate, PutFails, PutGoes, Handed,
                StoreIInv, StoreTypeOK
  <2>2. \A q \in Objects : meta'[q] \in Nat <=> meta[q] \in Nat
    BY <1>3, StoreAssumption
       DEF PutCreate, PutCopy, PutMetaCreate, PutFails, StoreIInv, StoreTypeOK, Written
  <2> QED BY <1>0, <2>1, <2>2
<1>4. ASSUME PutsDie PROVE UNCHANGED <<Kept, Handed>>
  BY <1>4 DEF PutsDie, Kept, Handed, Get
<1>5. ASSUME UNCHANGED storeVars PROVE UNCHANGED <<Kept, Handed>>
  BY <1>5 DEF storeVars, Kept, Handed, Get
<1> QED BY <1>1, <1>2, <1>3, <1>4, <1>5 DEF StoreNext, Put, Promise!Next

\* A URL is handed out only for what can be downloaded whole, and that can
\* be downloaded whole ever after (httpapi.go:145-150).
THEOREM HandsOutTheShelf == StoreSpec => KeepsShelf
<1>1. StoreInit => Promise!Init
  <2> SUFFICES ASSUME StoreInit PROVE Kept = {} /\ Handed = {}
    BY DEF Promise!Init
  <2>1. Kept = {}
    BY KeptIsWritten, StoreInitIInv, StoreAssumption DEF StoreInit
  <2>2. Handed = {}
    BY DEF StoreInit, Handed
  <2> QED BY <2>1, <2>2
<1>2. StoreIInv /\ StoreIInv' /\ [StoreNext]_storeVars
        => [Promise!Next]_<<Kept, Handed>>
  BY StepKeepsShelf
<1> QED BY <1>1, <1>2, StoreInvariance, PTL
        DEF StoreSpec, KeepsShelf, Promise!Spec, Promise!shelfVars

-----------------------------------------------------------------------------
\* The push API over both: the invariant holds in the beginning ...
LEMMA HttpInitIInv == HttpInit => HttpIInv
<1>1. HttpInit => MediaIInv /\ StoreIInv
  BY MediaInit, StoreInitIInv DEF HttpInit
<1>2. HttpInit => deaths \in 0 .. MaxDeaths
  BY HttpAssumption DEF HttpInit
<1>3. HttpInit => \A p \in Pushes : at[p] = "new"
  BY DEF HttpInit, Init
<1> QED BY <1>1, <1>2, <1>3 DEF HttpIInv, Resting

\* ... and what was written stays written, and what was stored stays stored,
\* unless the process dies.
LEMMA PutKeepsMeta ==
    ASSUME StoreIInv, NEW o \in Objects, Put(o) \/ HandOut(o), NEW q \in Objects
    PROVE  /\ meta[q] \in Nat => meta'[q] \in Nat
           /\ Stored(q) => Stored(q)'
<1>1. meta[q] \in Nat => meta'[q] \in Nat
  BY StoreAssumption DEF Put, PutCreate, PutCopy, PutMetaCreate, PutMetaWrite, PutFails,
     HandOut, PutGoes, StoreIInv, StoreTypeOK, Written
<1>2. Stored(q) => Stored(q)'
  BY DEF Put, PutCreate, PutCopy, PutMetaCreate, PutMetaWrite, PutFails,
     HandOut, PutGoes, StoreIInv, StoreTypeOK, Stored
<1> QED BY <1>1, <1>2

LEMMA MediaStutters ==
    ASSUME MediaIInv, UNCHANGED vars PROVE MediaIInv'
<1>1. /\ UNCHANGED <<at, uploadMu, uploadID, chunk, mediaID>>
      /\ UNCHANGED <<wire, parts, acks, late>>
  BY DEF vars
<1>2. Typed => Typed'
  BY <1>1 DEF Typed, TypeOK, Placed
<1>3. InFlight => InFlight'
  BY <1>1 DEF InFlight, Silent, Asked, Replied
<1>4. InTime => InTime'
  BY <1>1, <1>3 DEF InTime, Progress
<1> QED BY <1>1, <1>2, <1>4 DEF MediaIInv

LEMMA StoreStutters ==
    ASSUME StoreIInv, UNCHANGED storeVars PROVE StoreIInv'
BY DEF storeVars, StoreIInv, StoreTypeOK, Written

\* handlePush and the store.
LEMMA StoreStepKeeps ==
    ASSUME HttpIInv, NEW p \in Pushes, Store(p) \/ Respond(p)
    PROVE  HttpIInv'
<1>1. p \in Objects /\ (Put(p) \/ HandOut(p)) /\ UNCHANGED <<vars, deaths>>
  BY HttpAssumption DEF Store, Respond
<1>2. MediaIInv' /\ StoreIInv'
  BY <1>1, MediaStutters, PutKeeps DEF HttpIInv
<1>3. ASSUME NEW q \in Pushes
      PROVE  (meta[q] \in Nat => meta'[q] \in Nat) /\ (Stored(q) => Stored(q)')
  BY <1>1, PutKeepsMeta, HttpAssumption DEF HttpIInv
<1> QED BY <1>1, <1>2, <1>3 DEF HttpIInv, vars

\* A step of the goroutine, of an upload that was stored.
LEMMA UploadStepKeeps ==
    ASSUME HttpIInv, NEW p \in Pushes, UploadMedia(p), UNCHANGED <<storeVars, deaths>>,
           at[p] = "new" => Stored(p)
    PROVE  HttpIInv'
<1>1. MediaIInv' /\ StoreIInv'
  BY UploadKeeps, StoreStutters DEF HttpIInv
<1>2. Typed /\ StoreIInv /\ UNCHANGED <<meta, put>>
  BY DEF HttpIInv, MediaIInv, storeVars
<1>3. at[p] \notin Resting \/ Stored(p)
  BY <1>2, Alone
<1>4. Stored(p) /\ Stored(p)'
  BY <1>2, <1>3 DEF HttpIInv, Stored
<1>5. meta[p] \in Nat
  BY <1>2, <1>4, HttpAssumption DEF Stored, StoreIInv, Written
<1>6. ASSUME NEW q \in Pushes \ {p} PROVE at'[q] = at[q]
  BY <1>2, Only
<1> QED BY <1>1, <1>2, <1>4, <1>5, <1>6 DEF HttpIInv, Stored

\* The goroutine before an upload, when it knows no bot, and after one.
LEMMA RestStepKeeps ==
    ASSUME HttpIInv, NEW p \in Pushes, UnknownChat(p) \/ Send(p)
    PROVE  HttpIInv'
<1>1. PICK step \in Ended :
         /\ at[p] \in {"new", "uploaded"} /\ (at[p] = "new" => Stored(p))
         /\ step = "sent" => at[p] = "uploaded"
         /\ Goes(p, step)
         /\ UNCHANGED <<uploadMu, uploadID, chunk, mediaID, wire, parts, acks, late,
                        storeVars, deaths>>
  BY DEF UnknownChat, Send, SendMedia, Ended
<1>2. MediaIInv' /\ StoreIInv'
  BY <1>1, RestKeeps, StoreStutters DEF HttpIInv
<1>3. /\ at'[p] = step /\ \A q \in Pushes \ {p} : at'[q] = at[q]
  BY <1>1, Moved DEF HttpIInv, MediaIInv, Places
<1>4. UNCHANGED <<meta, put, deaths>>
  BY <1>1 DEF storeVars
<1>5. meta[p] \in Nat
  BY <1>1, HttpAssumption DEF HttpIInv, Stored, StoreIInv, Written
<1> QED BY <1>2, <1>3, <1>4, <1>5 DEF HttpIInv, Stored, Resting

LEMMA WecomSideKeeps == ASSUME HttpIInv, WecomSide PROVE HttpIInv'
<1>1. MediaIInv' /\ StoreIInv'
  BY ServerKeeps, ReconnectKeeps, StoreStutters DEF HttpIInv, WecomSide
<1>2. UNCHANGED <<at, meta, put, deaths>>
  BY DEF WecomSide, ServerHandles, Reconnect, storeVars
<1> QED BY <1>1, <1>2 DEF HttpIInv, Stored

\* A death leaves nobody under way.
LEMMA DieKeeps == ASSUME HttpIInv, Die PROVE HttpIInv'
<1>1. StoreIInv' /\ meta' = meta
  BY DeathKeeps DEF HttpIInv, Die, PutsDie
<1>2. deaths' \in 0 .. MaxDeaths
  BY HttpAssumption DEF HttpIInv, Die
<1>3. ASSUME NEW p \in Pushes
      PROVE  /\ at'[p] \in Resting
             /\ at'[p] # "failed" => at'[p] = at[p]
             /\ at'[p] # "new" => meta[p] \in Nat
  <2>1. at'[p] = IF Stored(p) /\ at[p] # "sent" THEN "failed" ELSE at[p]
    BY DEF Die
  <2>2. at[p] \notin Resting => Stored(p)
    BY DEF HttpIInv
  <2>3. Stored(p) \/ at[p] # "new" => meta[p] \in Nat
    BY HttpAssumption DEF HttpIInv, Stored, StoreIInv, Written
  <2> QED BY <2>1, <2>2, <2>3 DEF Resting, Ended
<1>4. /\ wire' = << >> /\ acks' = [cmd \in Cmds |-> << >>] /\ uploadMu' = None
      /\ UNCHANGED <<uploadID, chunk, mediaID, parts, late>>
  BY DEF Die
<1>5. Typed'
  <2>1. at' \in [Pushes -> Places]
    BY <1>3 DEF Die, Resting, Places
  <2>2. \A c \in Cmds : Len(acks'[c]) <= AckCap
    BY <1>4, UploadAssumption
  <2>3. wire' \in Seq(Frames) /\ acks' \in [Cmds -> Seq(Answers)]
    BY <1>4
  <2>4. TypeOK'
    BY <1>4, <2>1, <2>2 DEF HttpIInv, MediaIInv, Typed, TypeOK, Places
  <2>5. ASSUME NEW p \in Pushes PROVE Placed(p)'
    BY <1>3, <1>4 DEF HttpIInv, MediaIInv, Typed, Placed, Before, Named, Resting, Ended
  <2> QED BY <1>4, <2>3, <2>4, <2>5 DEF HttpIInv, MediaIInv, Typed
<1>6. InTime => InTime'
  <2>1. InFlight'
    BY <1>4 DEF InFlight, Silent
  <2>2. ASSUME InTime, NEW p \in Pushes PROVE Progress(p)'
    BY <1>3, <1>4, <2>2 DEF InTime, Progress, Before, Named, Resting, Ended
  <2> QED BY <2>1, <2>2 DEF InTime
<1> QED BY <1>1, <1>2, <1>3, <1>4, <1>5, <1>6 DEF HttpIInv, MediaIInv

LEMMA HttpNextIInv == HttpIInv /\ [HttpNext]_httpVars => HttpIInv'
<1> SUFFICES ASSUME HttpIInv, [HttpNext]_httpVars PROVE HttpIInv'
  OBVIOUS
<1>1. ASSUME NEW p \in Pushes, OnPushed(p) \/ Upload(p) PROVE HttpIInv'
  <2>1. UploadMedia(p) /\ UNCHANGED <<storeVars, deaths>>
    BY <1>1 DEF OnPushed, Upload, UploadMedia
  <2>2. Upload(p) => at[p] # "new"
    BY AwaitIs DEF Upload, WriteInit, InitAcked, WriteChunk, ChunkAcked, WriteFinish,
       FinishAcked, TimesOut, Write, Takes, Cmds
  <2> QED BY <1>1, <2>1, <2>2, UploadStepKeeps DEF OnPushed
<1>2. CASE UNCHANGED httpVars
  <2>1. MediaIInv' /\ StoreIInv'
    BY <1>2, MediaStutters, StoreStutters DEF HttpIInv, httpVars
  <2> QED BY <1>2, <2>1 DEF httpVars, vars, storeVars, HttpIInv, Stored
<1> QED BY <1>1, <1>2, StoreStepKeeps, RestStepKeeps, WecomSideKeeps, DieKeeps DEF HttpNext

-----------------------------------------------------------------------------
\* The inductive invariant is one.
THEOREM HttpInvariance == HttpSpec => []HttpIInv
BY HttpInitIInv, HttpNextIInv, PTL DEF HttpSpec

\* All variables keep their types.
THEOREM HttpTypeCorrect == HttpSpec => []HttpTypeOK
<1>1. HttpIInv => HttpTypeOK
  BY DEF HttpIInv, MediaIInv, Typed, HttpTypeOK, StoreIInv
<1> QED BY <1>1, HttpInvariance, PTL

\* Through deaths, lost connections, rejected parts and failed writes, a chat
\* is sent the file that was pushed to it, until a wait is given up on an ACK
\* that still comes (client.go:69, 354-357).
THEOREM SendsOwnMedia == HttpSpec => []OwnMediaInTime
<1>1. HttpIInv => OwnMediaInTime
  BY DEF HttpIInv, MediaIInv, InTime, Progress, OwnMediaInTime, OwnMedia
<1> QED BY <1>1, HttpInvariance, PTL

\* As long as that has not happened, what is sent holds every chunk of its
\* file, once, in order (client.go:385-404).
THEOREM SendsWholeMedia == HttpSpec => []WholeMedia
<1>1. HttpIInv => WholeMedia
  BY DEF HttpIInv, MediaIInv, InTime, Progress, WholeMedia, Upto
<1> QED BY <1>1, HttpInvariance, PTL

\* What begins to go out to WeCom can be downloaded whole, then and after a
\* death (httpapi.go:130-143).
THEOREM UploadedStays == HttpSpec => []UploadedIsKept
<1>1. HttpIInv => UploadedIsKept
  BY GetIsWhole, HttpAssumption DEF HttpIInv, UploadedIsKept
<1> QED BY <1>1, HttpInvariance, PTL

\* The API uses the store as the store is specified: ...
THEOREM UsesTheStore == HttpSpec => StoreSpec
<1>1. HttpInit => StoreInit
  BY DEF HttpInit
<1>2. [HttpNext]_httpVars => [StoreNext]_storeVars
  BY HttpAssumption DEF HttpNext, httpVars, Store, Respond, OnPushed, UnknownChat, Upload,
     Send, WecomSide, Die, StoreNext
<1> QED BY <1>1, <1>2, PTL DEF HttpSpec, StoreSpec

\* ... no download is answered with part of an object, whatever the uploads
\* do (store.go:40-58), ...
THEOREM HttpServesWhole == HttpSpec => []ServedIsWhole
BY UsesTheStore, DownloadsWhole, PTL

\* ... and every URL that /api/push answers with can be downloaded ever after
\* (httpapi.go:145-150).
THEOREM HttpKeepsShelf == HttpSpec => KeepsShelf
BY UsesTheStore, HandsOutTheShelf, PTL

\* MediaUpload alone: an upload of any of its callers sends what it was given.
THEOREM UploadsOwnMedia == Spec => []OwnMediaInTime
<1>1. MediaIInv /\ [Next]_vars => MediaIInv'
  <2>1. ASSUME MediaIInv, NEW p \in Pushes, SendMedia(p) PROVE MediaIInv'
    BY <2>1, RestKeeps DEF SendMedia, Ended
  <2> QED BY <2>1, UploadKeeps, ServerKeeps, ReconnectKeeps, MediaStutters DEF Next
<1>2. MediaIInv => OwnMediaInTime
  BY DEF MediaIInv, InTime, Progress, OwnMediaInTime, OwnMedia
<1> QED BY <1>1, <1>2, MediaInit, PTL DEF Spec
=============================================================================
