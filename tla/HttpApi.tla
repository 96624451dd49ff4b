------------------------------- MODULE HttpApi -------------------------------
(***************************************************************************)
(* internal/server/httpapi.go over the file store and the upload to WeCom: *)
(* POST /api/push puts the file into the store, starts a goroutine that    *)
(* sends it to the chat (OnPushed, which is SendMediaToWecom), and answers *)
(* with the URL of the stored object without waiting for it.  GET          *)
(* /api/download is FileStore's Get: it changes nothing.                   *)
(*                                                                         *)
(* An object is a push here.  A request that is refused (method, ticket,   *)
(* form, no chat, no file) leaves no trace and is left out.                *)
(***************************************************************************)
EXTENDS MediaUpload, FileStore

CONSTANT MaxDeaths  \* bound

ASSUME HttpAssumption == Objects = Pushes /\ MaxDeaths \in Nat

VARIABLE deaths

httpVars == <<vars, storeVars, deaths>>

Stored(p) == put[p] \in {"stored", "handed"}

-----------------------------------------------------------------------------
\* handlePush.

Store(p) == Put(p) /\ UNCHANGED <<vars, deaths>>

\* The answer, with the URL.
Respond(p) == HandOut(p) /\ UNCHANGED <<vars, deaths>>

\* Mutant: the goroutine is started before the file is in the store.
OnPushedAtOnce(p) ==
    /\ put[p] # "create"
    /\ Lock(p)
    /\ UNCHANGED <<storeVars, deaths>>

\* Once Put has returned the goroutine runs; its upload waits for uploadMu.
OnPushed(p) ==
    /\ Stored(p)
    /\ Lock(p)
    /\ UNCHANGED <<storeVars, deaths>>

\* It ends at once if the chat, or its bot, is not known.
UnknownChat(p) ==
    /\ Stored(p)
    /\ at[p] = "new"
    /\ Goes(p, "failed")
    /\ UNCHANGED <<uploadMu, uploadID, chunk, mediaID, wire, parts, acks, late,
                   storeVars, deaths>>

Upload(p) ==
    /\ \/ WriteInit(p) \/ InitAcked(p)
       \/ WriteChunk(p) \/ ChunkAcked(p)
       \/ WriteFinish(p) \/ FinishAcked(p)
       \/ TimesOut(p)
    /\ UNCHANGED <<storeVars, deaths>>

Send(p) == SendMedia(p) /\ UNCHANGED <<storeVars, deaths>>

WecomSide ==
    /\ (\E ok \in BOOLEAN : ServerHandles(ok)) \/ Reconnect
    /\ UNCHANGED <<storeVars, deaths>>

-----------------------------------------------------------------------------
\* The process dies and starts again: nobody resumes an upload.
Die ==
    /\ deaths < MaxDeaths
    /\ deaths' = deaths + 1
    /\ PutsDie
    /\ at' = [p \in Pushes |-> IF Stored(p) /\ at[p] # "sent" THEN "failed" ELSE at[p]]
    /\ uploadMu' = None
    /\ wire' = << >>
    /\ acks' = [cmd \in Cmds |-> << >>]
    /\ UNCHANGED <<uploadID, chunk, mediaID, parts, late>>

HttpInit == Init /\ StoreInit /\ deaths = 0

HttpNext == \/ \E p \in Pushes : \/ Store(p) \/ Respond(p)
                                 \/ OnPushed(p) \/ UnknownChat(p) \/ Upload(p) \/ Send(p)
            \/ WecomSide
            \/ Die

HttpSpec == HttpInit /\ [][HttpNext]_httpVars

\* SendTimeout ends every wait for an ACK, the goroutines are scheduled, and
\* uploadMu is handed to whoever waits long enough.  That WriteMessage returns
\* is an assumption: client.go:452 sets no deadline for a write.  Nobody owes
\* the bridge a push.
FairHttpSpec ==
    HttpSpec /\ \A p \in Pushes :
        /\ SF_httpVars(OnPushed(p))
        /\ WF_httpVars((WriteInit(p) \/ WriteChunk(p) \/ WriteFinish(p))
                       /\ UNCHANGED <<storeVars, deaths>>)
        /\ WF_httpVars(TimesOut(p) /\ UNCHANGED <<storeVars, deaths>>)
        /\ WF_httpVars(Send(p))

-----------------------------------------------------------------------------
\* Properties.

HttpTypeOK == TypeOK /\ StoreTypeOK /\ deaths \in 0 .. MaxDeaths

\* Whatever begins to go out to WeCom can be downloaded as well, and can
\* still be when the process has died on it (httpapi.go:130-143).
UploadedIsKept == \A p \in Pushes : at[p] # "new" => Get(p) = Whole

\* A push that was answered with success does not hang: its upload ends and
\* its message is sent or has failed, even if another's upload gets no ACK
\* (client.go:381, 401, 419).
AcceptedEnds == \A p \in Pushes : put[p] = "handed" ~> at[p] \in Ended
=============================================================================
