------------------------------ MODULE FileStore ------------------------------
(***************************************************************************)
(* internal/server/store.go: objects as two files each, the data and its   *)
(* .meta.json.  Put creates and writes the one, then the other; each       *)
(* creation and each write is a step that may fail, or be the last before  *)
(* the process dies.  Get reads them the other way round.                  *)
(*                                                                         *)
(* Every Put draws a file ID of its own, so an object is a Put here, and   *)
(* there are no two writers of one file.  Data is its length, counted in   *)
(* pieces.  A death keeps what was written (the machine does not lose      *)
(* power; nothing is synced).  After a successful Put the object's URL is  *)
(* handed out: in the answer to /api/push, or in an /api/upload frame.     *)
(***************************************************************************)
EXTENDS Naturals

CONSTANTS Objects,
          Pieces,  \* how long the data is
          NoFile,  \* the file is not there
          Torn     \* a .meta.json that does not unmarshal: created, not written

ASSUME StoreAssumption == /\ Pieces \in Nat
                          /\ NoFile \notin Nat /\ Torn \notin Nat /\ NoFile # Torn

VARIABLES data,   \* each data file
          meta,   \* each .meta.json: the sizeBytes it records
          put     \* where the Put of each object, and its caller, are

storeVars == <<data, meta, put>>

PutGoes(o, step) == put' = [put EXCEPT ![o] = step]

\* Put returns an error; what it has written stays.
PutFails(o) ==
    /\ put[o] \in {"create", "copy", "meta create", "meta write"}
    /\ PutGoes(o, "failed")
    /\ UNCHANGED <<data, meta>>

-----------------------------------------------------------------------------
\* Put.

\* os.Create.
PutCreate(o) ==
    /\ put[o] = "create"
    /\ data' = [data EXCEPT ![o] = 0]
    /\ PutGoes(o, "copy")
    /\ UNCHANGED meta

\* Mutant: an error of io.Copy is not returned.
PutCopyUnchecked(o) ==
    /\ put[o] = "copy"
    /\ \/ /\ data[o] < Pieces
          /\ data' = [data EXCEPT ![o] = @ + 1]
          /\ UNCHANGED put
       \/ /\ PutGoes(o, "meta create")
          /\ UNCHANGED data
    /\ UNCHANGED meta

\* io.Copy, piece by piece.
PutCopy(o) ==
    /\ put[o] = "copy"
    /\ \/ /\ data[o] < Pieces
          /\ data' = [data EXCEPT ![o] = @ + 1]
          /\ UNCHANGED put
       \/ /\ data[o] = Pieces
          /\ PutGoes(o, "meta create")
          /\ UNCHANGED data
    /\ UNCHANGED meta

\* os.WriteFile creates the .meta.json ...
PutMetaCreate(o) ==
    /\ put[o] = "meta create"
    /\ meta' = [meta EXCEPT ![o] = Torn]
    /\ PutGoes(o, "meta write")
    /\ UNCHANGED data

\* ... and writes it: n, what io.Copy has counted.
PutMetaWrite(o) ==
    /\ put[o] = "meta write"
    /\ meta' = [meta EXCEPT ![o] = data[o]]
    /\ PutGoes(o, "stored")
    /\ UNCHANGED data

\* Mutant: the URL is handed out when the data is there.
HandOutEarly(o) ==
    /\ put[o] \in {"meta create", "stored"}
    /\ PutGoes(o, "handed")
    /\ UNCHANGED <<data, meta>>

\* Its caller hands out the object's URL.
HandOut(o) ==
    /\ put[o] = "stored"
    /\ PutGoes(o, "handed")
    /\ UNCHANGED <<data, meta>>

\* The process dies: Puts and their callers with it.
PutsDie ==
    /\ put' = [o \in Objects |-> IF put[o] \in {"create", "handed"} THEN put[o]
                                 ELSE "failed"]
    /\ UNCHANGED <<data, meta>>

-----------------------------------------------------------------------------
\* Get: the size that is announced and the data that follows, or an error.
NotFound == [status |-> 404, length |-> 0, body |-> 0]
ServerError == [status |-> 500, length |-> 0, body |-> 0]
Get(o) == CASE meta[o] = NoFile -> NotFound
            [] meta[o] = Torn   -> ServerError
            [] OTHER            -> IF data[o] = NoFile THEN NotFound
                                   ELSE [status |-> 200, length |-> meta[o],
                                         body |-> data[o]]

-----------------------------------------------------------------------------
StoreInit == /\ data = [o \in Objects |-> NoFile]
             /\ meta = [o \in Objects |-> NoFile]
             /\ put = [o \in Objects |-> "create"]

Put(o) == PutCreate(o) \/ PutCopy(o) \/ PutMetaCreate(o) \/ PutMetaWrite(o) \/ PutFails(o)

StoreNext == (\E o \in Objects : Put(o) \/ HandOut(o)) \/ PutsDie

StoreSpec == StoreInit /\ [][StoreNext]_storeVars

-----------------------------------------------------------------------------
\* Properties.

StoreTypeOK ==
    /\ data \in [Objects -> 0 .. Pieces \cup {NoFile}]
    /\ meta \in [Objects -> 0 .. Pieces \cup {NoFile, Torn}]
    /\ put \in [Objects -> {"create", "copy", "meta create", "meta write", "stored",
                            "handed", "failed"}]

Whole == [status |-> 200, length |-> Pieces, body |-> Pieces]

\* Whatever is half done or was interrupted, a download is never answered
\* with less than the size announces, or with another size (store.go:40-58,
\* httpapi.go:202-205).
ServedIsWhole == \A o \in Objects : Get(o).status = 200 => Get(o) = Whole

\* The store promises a Shelf: an object appears on it whole, and stays
\* there through every failure and death; a URL is handed out only for what
\* is there.
Kept == {o \in Objects : Get(o) = Whole}
Handed == {o \in Objects : put[o] = "handed"}
Promise == INSTANCE Shelf WITH shelf <- Kept, handed <- Handed
KeepsShelf == Promise!Spec

-----------------------------------------------------------------------------
\* The inductive invariant behind them: the place of a Put says what it has
\* written.
Written(o) ==
    /\ put[o] = "create" => data[o] = NoFile /\ meta[o] = NoFile
    /\ put[o] = "copy" => data[o] # NoFile /\ meta[o] = NoFile
    /\ put[o] = "meta create" => data[o] = Pieces /\ meta[o] = NoFile
    /\ put[o] = "meta write" => data[o] = Pieces /\ meta[o] = Torn
    /\ put[o] \in {"stored", "handed"} => meta[o] \in Nat
    /\ meta[o] \in Nat => data[o] = Pieces /\ meta[o] = Pieces

StoreIInv == StoreTypeOK /\ \A o \in Objects : Written(o)
=============================================================================
