----------------------------- MODULE MediaUpload -----------------------------
(***************************************************************************)
(* bridge.SendMediaToWecom and client.UploadMedia: a file the platform     *)
(* pushes is uploaded to WeCom in three parts (init, chunks, finish) and   *)
(* then sent by its media_id.  Every push is an HTTP handler of its own;   *)
(* uploadMu lets one upload at a time through.                             *)
(*                                                                         *)
(* As in WecomClient an ACK is put into the channel of its command, and    *)
(* whoever waits there takes the first one.  The server names an upload    *)
(* after the file that its init announced, and a medium after its upload;  *)
(* what it does with the frames is external.  Sending the medium by its id *)
(* is one step, which waits at most SendTimeout for an ACK of its own kind *)
(* and fails or not (how those ACKs are matched is in WecomClient).        *)
(***************************************************************************)
EXTENDS Naturals, Sequences

CONSTANTS Pushes,   \* files to send, one push each
          None,     \* no upload_id, no media_id, nobody
          Chunks,   \* chunks of a file, at least one (an empty file has one)
          AckCap    \* capacity of an ACK channel

ASSUME UploadAssumption == /\ None \notin Pushes
                           /\ Chunks \in Nat \ {0}
                           /\ AckCap \in Nat \ {0}

VARIABLES
    at,         \* where each push is
    uploadMu,   \* who holds it
    uploadID,   \* the upload_id each UploadMedia got
    chunk,      \* chunks it has written
    mediaID,    \* what UploadMedia returned, for SendImage or SendFile
    wire,       \* frames the server has yet to handle
    parts,      \* the server: the chunks stored under each upload_id
    acks,       \* the ACK channels, by command
    late        \* history: a wait was given up while its ACK was on its way

vars == <<at, uploadMu, uploadID, chunk, mediaID, wire, parts, acks, late>>

Cmds == {"init", "chunk", "finish"}
Await == [init |-> "await init", chunk |-> "await chunk", finish |-> "await finish"]
Offer(ch, ack) == IF Len(ch) < AckCap THEN Append(ch, ack) ELSE ch
Goes(p, step) == at' = [at EXCEPT ![p] = step]

\* Mutant: an error returns without unlocking.
ReturnsLocked(p, step) ==
    /\ Goes(p, step)
    /\ uploadMu' = IF step = "failed" THEN uploadMu ELSE None

\* UploadMedia returns, in success or with an error.
Returns(p, step) == Goes(p, step) /\ uploadMu' = None

-----------------------------------------------------------------------------
\* Mutant: no uploadMu.
LockNot(p) ==
    /\ at[p] = "new"
    /\ Goes(p, "init")
    /\ UNCHANGED <<uploadMu, uploadID, chunk, mediaID, wire, parts, acks, late>>

Lock(p) ==
    /\ at[p] = "new"
    /\ uploadMu = None
    /\ uploadMu' = p
    /\ Goes(p, "init")
    /\ UNCHANGED <<uploadID, chunk, mediaID, wire, parts, acks, late>>

\* writeJSON of the part that is next, or of none when it fails.
Write(p, cmd, frame) ==
    /\ at[p] = cmd
    /\ \/ /\ wire' = Append(wire, frame)
          /\ Goes(p, Await[cmd])
          /\ UNCHANGED uploadMu
       \/ /\ Returns(p, "failed")
          /\ UNCHANGED wire
    /\ UNCHANGED <<uploadID, mediaID, parts, acks, late>>

WriteInit(p) ==
    Write(p, "init", [cmd |-> "init", id |-> p, part |-> None]) /\ UNCHANGED chunk

WriteChunk(p) ==
    /\ Write(p, "chunk", [cmd |-> "chunk", id |-> uploadID[p], part |-> <<p, chunk[p]>>])
    /\ chunk' = [chunk EXCEPT ![p] = IF wire' = wire THEN @ ELSE @ + 1]

WriteFinish(p) ==
    Write(p, "finish", [cmd |-> "finish", id |-> uploadID[p], part |-> None])
    /\ UNCHANGED chunk

\* The first ACK in the channel of cmd, taken for p's own.
Takes(p, cmd) ==
    /\ at[p] = Await[cmd]
    /\ acks[cmd] # << >>
    /\ acks' = [acks EXCEPT ![cmd] = Tail(@)]
    /\ UNCHANGED <<wire, parts, late>>

InitAcked(p) ==
    /\ Takes(p, "init")
    /\ \/ /\ Head(acks["init"]).ok
          /\ uploadID' = [uploadID EXCEPT ![p] = Head(acks["init"]).id]
          /\ Goes(p, "chunk")
          /\ UNCHANGED uploadMu
       \/ /\ ~Head(acks["init"]).ok
          /\ Returns(p, "failed")
          /\ UNCHANGED uploadID
    /\ UNCHANGED <<chunk, mediaID>>

\* Mutant: the error code of a chunk's ACK is not looked at.
ChunkAckedBlindly(p) ==
    /\ Takes(p, "chunk")
    /\ Goes(p, IF chunk[p] < Chunks THEN "chunk" ELSE "finish")
    /\ UNCHANGED <<uploadMu, uploadID, chunk, mediaID>>

\* Mutant: one chunk too many.
ChunkAckedOneMore(p) ==
    /\ Takes(p, "chunk")
    /\ \/ /\ Head(acks["chunk"]).ok
          /\ Goes(p, IF chunk[p] <= Chunks THEN "chunk" ELSE "finish")
          /\ UNCHANGED uploadMu
       \/ /\ ~Head(acks["chunk"]).ok
          /\ Returns(p, "failed")
    /\ UNCHANGED <<uploadID, chunk, mediaID>>

ChunkAcked(p) ==
    /\ Takes(p, "chunk")
    /\ \/ /\ Head(acks["chunk"]).ok
          /\ Goes(p, IF chunk[p] < Chunks THEN "chunk" ELSE "finish")
          /\ UNCHANGED uploadMu
       \/ /\ ~Head(acks["chunk"]).ok
          /\ Returns(p, "failed")
    /\ UNCHANGED <<uploadID, chunk, mediaID>>

\* The media_id; UploadMedia returns it and lets go of uploadMu.
FinishAcked(p) ==
    /\ Takes(p, "finish")
    /\ \/ /\ Head(acks["finish"]).ok
          /\ mediaID' = [mediaID EXCEPT ![p] = Head(acks["finish"]).id]
          /\ Returns(p, "uploaded")
       \/ /\ ~Head(acks["finish"]).ok
          /\ Returns(p, "failed")
          /\ UNCHANGED mediaID
    /\ UNCHANGED <<uploadID, chunk>>

\* SendImage or SendFile, which may fail or wait in vain for its ACK.
SendMedia(p) ==
    /\ at[p] = "uploaded"
    /\ Goes(p, "sent") \/ Goes(p, "failed")
    /\ UNCHANGED <<uploadMu, uploadID, chunk, mediaID, wire, parts, acks, late>>

OnItsWay(cmd) == acks[cmd] # << >> \/ \E i \in DOMAIN wire : wire[i].cmd = cmd

\* SendTimeout: the ACK was lost, or is late.
TimesOut(p) ==
    /\ \E cmd \in Cmds : /\ at[p] = Await[cmd]
                          /\ late' = (late \/ OnItsWay(cmd))
    /\ Returns(p, "failed")
    /\ UNCHANGED <<uploadID, chunk, mediaID, wire, parts, acks>>

-----------------------------------------------------------------------------
\* The server handles a frame, and the read loop offers its ACK.
ServerHandles(ok) ==
    /\ wire # << >>
    /\ wire' = Tail(wire)
    /\ LET f == Head(wire) IN
       /\ acks' = [acks EXCEPT ![f.cmd] = Offer(@, [id |-> f.id, ok |-> ok])]
       /\ parts' = IF ok /\ f.cmd = "chunk"
                   THEN [parts EXCEPT ![f.id] = Append(@, f.part)] ELSE parts
    /\ UNCHANGED <<at, uploadMu, uploadID, chunk, mediaID, late>>

\* The connection breaks: frames and ACKs are lost, the channels are new.
Reconnect ==
    /\ wire' = << >>
    /\ acks' = [cmd \in Cmds |-> << >>]
    /\ wire # << >> \/ \E cmd \in Cmds : acks[cmd] # << >>
    /\ UNCHANGED <<at, uploadMu, uploadID, chunk, mediaID, parts, late>>

Init ==
    /\ at = [p \in Pushes |-> "new"]
    /\ uploadMu = None
    /\ uploadID = [p \in Pushes |-> None]
    /\ chunk = [p \in Pushes |-> 0]
    /\ mediaID = [p \in Pushes |-> None]
    /\ wire = << >>
    /\ parts = [p \in Pushes |-> << >>]
    /\ acks = [cmd \in Cmds |-> << >>]
    /\ late = FALSE

UploadMedia(p) == \/ Lock(p)
                  \/ WriteInit(p) \/ InitAcked(p)
                  \/ WriteChunk(p) \/ ChunkAcked(p)
                  \/ WriteFinish(p) \/ FinishAcked(p)
                  \/ TimesOut(p)

Next == \/ \E p \in Pushes : UploadMedia(p) \/ SendMedia(p)
        \/ \E ok \in BOOLEAN : ServerHandles(ok)
        \/ Reconnect

Spec == Init /\ [][Next]_vars

-----------------------------------------------------------------------------
\* Properties.

Ended == {"sent", "failed"}

TypeOK ==
    /\ at \in [Pushes -> {"new", "init", "await init", "chunk", "await chunk",
                          "finish", "await finish", "uploaded"} \cup Ended]
    /\ uploadMu \in Pushes \cup {None}
    /\ uploadID \in [Pushes -> Pushes \cup {None}]
    /\ mediaID \in [Pushes -> Pushes \cup {None}]
    /\ chunk \in [Pushes -> 0 .. Chunks]
    /\ late \in BOOLEAN
    /\ DOMAIN acks = Cmds /\ \A cmd \in Cmds : Len(acks[cmd]) <= AckCap

\* The chat is sent the file that was pushed to it, not another push's
\* (client.go:69, "keeps concurrent uploads from stepping on each other").
OwnMedia == \A p \in Pushes : mediaID[p] \in {p, None}

\* uploadMu achieves that as long as no ACK comes after its timeout,
\* whatever else is rejected or lost (client.go:354-357).
OwnMediaInTime == late \/ OwnMedia

\* Until then, too, a medium that SendImage or SendFile is given holds every
\* chunk of its file, once, in order (client.go:385-404).
WholeMedia ==
    late \/ \A p \in Pushes : at[p] \in {"uploaded", "sent"} =>
               parts[mediaID[p]] = [i \in 1 .. Chunks |-> <<p, i - 1>>]
=============================================================================
